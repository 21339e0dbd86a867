\* Submissions and decisions of one object by two handlers at once, with
\* statements that fail and replicas that die; rules and settings stay.
SPECIFICATION Spec
CONSTANTS
  o1 = o1  o2 = o2  i1 = i1  i2 = i2  d1 = d1  d2 = d2
  r1 = r1  r2 = r2  r3 = r3  alice = alice  bob = bob  root = root
  buyer = buyer  boss = boss  low = low  high = high  Nil = Nil  AnyRole = AnyRole
  Objects = {o1}
  Instances = {i1, i2}
  Definitions = {d1}
  Requests = {r1, r2}
  Users = {alice, bob}
  Roles = {buyer, boss}
  Amounts = {low}
  Rows <- TwoStepRule
  FreeStatus = {"draft", "confirmed"}
  MaxVersion = 1
  Holds <- TwoHolds
  Superusers = {}
  Sees <- TwoSees
  Kinds = {"create", "submit", "action"}
  Faults = {"statement", "crash"}
SYMMETRY MCSymmetry
INVARIANTS TypeOK OnePending TrailComplete LockProtects
PROPERTIES ImplementsCase
