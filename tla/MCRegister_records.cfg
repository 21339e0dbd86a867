\* The register, screenings, the portal, rollups, documents and scores of bids.
SPECIFICATION MCSpec
CONSTANTS
  Components = {"register", "screening", "portal", "rollups", "documents", "scores"}
  s1 = s1
  b1 = b1
  r1 = r1
  fin = fin
  sec = sec
  tax = tax
  u1 = u1
  p1 = p1
  NoValue = NoValue
  Companies = {s1}
  SimilarTo = {}
  Numbers = {b1}
  Accounts = {a1}
  Changes = {c1}
  SupplierRequests = {r1, r2}
  SupplierStatuses = {""}
  Items = {fin, sec}
  Papers = {tax}
  TemplateRows <- MCTemplates
  OldTemplates <- MCOldTemplates
  Screenings = {x1}
  ScoreInputs = {NoValue, 250}
  ScreeningRequests = {q1, q2}
  Invitations = {i1}
  Emails = {e1}
  Inviters = {u1}
  Reach <- MCReach
  Contacts = {k1}
  Links = {l1, l2}
  PortalRequests = {q1, q2}
  Firms = {s1}
  Records = {k1, k2}
  RollupRequests = {r1, r2}
  Severities = {"LOW", "CRITICAL"}
  Scorecards <- MCScorecards
  Marks = {0, 91, Unmarked}
  Unmarked = Unmarked
  Amounts = {1, 5}
  Absent = Absent
  Histories = {h1, h2}
  Homeless = {h2}
  Spellings = {lower, upper}
  Uploads = {d1, d2, d3}
  DocRequests = {r1, r2}
  Signers = {u1}
  SignatureTypes = {"approval"}
  Bids = {p1, p2}
  Quotes = {20, 30}
  Days = {0, 10}
  Averages = {100}
  Judges = {u1}
  Chiefs = {}
  Standing <- MCStanding
  WeightSets <- MCWeights
  Readers = {r1, r2}
  SaveBound = 3
INVARIANTS
  ChangesAgree
  VerdictsEarned
  OneEnding
  LevelCovers
  RecomputedExactly
  VersionsInOrder
  FilesThere
  ComparisonRanks
PROPERTIES
  BankGuarded
  VerifiedStays
CHECK_DEADLOCK FALSE
