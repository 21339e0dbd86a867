\* Notifications, migrations, tracking reports, AI budget and work inbox.
SPECIFICATION MCSpec
CONSTANTS
  Components = {"notices", "migrate", "recorder", "tracking", "budget", "inbox"}
  Events = {e1}
  Adapters = {a1, a2}
  Broken = {a1}
  Switched = {a2}
  Replicas = {b1, b2}
  Batch = 1
  MaxAttempts = 2
  FaultBound = 1
  QueueBound = 3
  Servers = {s1, s2}
  Files = 2
  MishapBound = 3
  Nobody = Nobody
  Blocked = {k1, k2, k3}
  MaxViolations = 2
  Moments = 3
  Clicks = {c1}
  Snippets = {Fresh, x1}
  Fresh = Fresh
  Callers = {u1}
  AiRequests = {r1, r2}
  Caps = {0, 1}
  Hours = 2
  CallBound = 3
  Uncounted = 1
  Tasks = {t1, t2}
  ReadBy <- MCReadBy
  Approvals = {1}
  Notes = {1}
  Queries = {"objects", "approval", "notification"}
  Limit <- MCLimit
  Dates = {1, 2}
  Steps = 1
  MySteps = {0}
  AtOnce = 2
  LastInstant = 1
INVARIANTS
  TriesBounded
  LatestKept
  SpendingBounded
  ReviewMarked
  NewDateShown
PROPERTIES
  ImplementsUpgrade
  NothingStarves
  EveryServerStarts
CHECK_DEADLOCK FALSE
