\* Selections, saves, declines and invitations of two bidders, with failures and a
\* deadline that moves.
SPECIFICATION FairSpec
CONSTANTS
  s1 = s1  s2 = s2  r1 = r1  r2 = r2
  low = low  high = high  Nil = Nil
  Suppliers = {s1, s2}
  Requests = {r1, r2}
  Amounts = {low}
  Edits = {"open"}
  Kinds = {"invite", "edit", "save", "decline", "select", "fault"}
INVARIANTS TypeOK AwardsAgree
PROPERTIES ImplementsStandings BidsSettle
