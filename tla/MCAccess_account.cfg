\* Sign-in and access tokens.
SPECIFICATION MCSpec
CONSTANTS
  Components = {"sso"}
  v1 = v1
  v2 = v2
  t1 = t1
  Names = {n1, n2}
  Addresses = {a1}
  LoginRequests = {r1, r2}
  Protection <- MCProtection
  Default <- MCDefault
  MostFailures = 3
  MostAddressFailures = 2
  Day = 2
  Horizon = 3
  AttemptBound = 4
  Nobody = Nobody
  Users = {u1}
  Passwords = {p1, p2}
  Sessions = {x1, x2}
  AccessRequests = {r1, r2}
  None = None
  Members = {u1, u2}
  Subjects = {b1, b2}
  Mails = {m1, m2}
  SsoValues <- MCSsoValues
  Flows = {f1}
  SsoRequests = {r1}
  Nil = Nil
  Holders = {u1}
  Roles = {l1}
  System = {}
  Keys = {k1, k2}
  KeyRequests = {r1}
  Doors <- MCDoors
  Lists <- MCLists
  LastDay = 2
  Unknown = Unknown
  Staff = {u1, u2}
  Orgs = {o1, o2, o3}
  Assets = {a1}
  RoleScopes <- MCRoleScopes
  NoOrg = NoOrg
  Delegates = {u1}
  Things = {v1, v2, t1}
  TypeOf <- MCTypeOf
  Verbs = {"read", "update"}
  OwnWords <- MCOwnWords
  Reach <- MCDelegateReach
  GrantRows = {g1, g2}
  Calls = {c1}
  LastDate = 2
  Everything = Everything
  Offered <- MCOffered
INVARIANT SameAccount
CHECK_DEADLOCK FALSE
