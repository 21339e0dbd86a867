\* A rule edited, and the two policies switched, while the submissions and
\* decisions they govern are in flight; bob is out of scope, root holds every
\* permission.
SPECIFICATION Spec
CONSTANTS
  o1 = o1  o2 = o2  i1 = i1  i2 = i2  d1 = d1  d2 = d2
  r1 = r1  r2 = r2  r3 = r3  alice = alice  bob = bob  root = root
  buyer = buyer  boss = boss  low = low  high = high  Nil = Nil  AnyRole = AnyRole
  Objects = {o1}
  Instances = {i1}
  Definitions = {d1}
  Requests = {r1, r2}
  Users = {alice, bob, root}
  Roles = {buyer, boss}
  Amounts = {low}
  Rows <- EditedRules
  FreeStatus = {"draft", "confirmed"}
  MaxVersion = 2
  Holds <- ScopedHolds
  Superusers = {root}
  Sees <- ScopedSees
  Kinds = {"create", "submit", "action", "workflow", "settings"}
  Faults = {}
INVARIANTS NeverStranded
PROPERTIES SeparationOfDuties
