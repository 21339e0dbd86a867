\* Every way a client has to write the status of an object.
SPECIFICATION Spec
CONSTANTS
  o1 = o1  o2 = o2  i1 = i1  i2 = i2  d1 = d1  d2 = d2
  r1 = r1  r2 = r2  r3 = r3  alice = alice  bob = bob  root = root
  buyer = buyer  boss = boss  low = low  high = high  Nil = Nil  AnyRole = AnyRole
  Objects = {o1}
  Instances = {i1}
  Definitions = {d1, d2}
  Requests = {r1, r2}
  Users = {alice}
  Roles = {buyer, boss}
  Amounts = {low, high}
  Rows <- AmountRules
  FreeStatus = {"draft", "confirmed"}
  MaxVersion = 1
  Holds <- OneHolds
  Superusers = {}
  Sees <- OneSees
  Kinds = {"create", "update", "submit", "action", "confirm"}
  Faults = {}
PROPERTIES NoWayAround
