---------------------------- MODULE ApprovalCase ----------------------------
(***************************************************************************)
(* What one approval request promises, with no database, no HTTP handlers  *)
(* and no interleaving of statements: it is opened with a route of steps,  *)
(* every step is decided once, in order, by somebody entitled to that      *)
(* step, the decision of the last step approves it, and nothing happens to *)
(* it afterwards.  Approval.tla is the detailed specification and          *)
(* implements this one.                                                    *)
(***************************************************************************)
EXTENDS Naturals, Sequences

CONSTANTS Cases,                \* the approval requests
          Users, Roles,
          MayDecide(_, _)       \* may user u decide a step routed to role q

VARIABLES phase,                \* where each case stands
          route,                \* the roles its steps ask for, fixed when opened
          trail                 \* the decisions taken, oldest first

caseVars == <<phase, route, trail>>

CaseInit ==
    /\ phase = [c \in Cases |-> "none"]
    /\ route = [c \in Cases |-> <<>>]
    /\ trail = [c \in Cases |-> <<>>]

\* The route is any non-empty sequence of roles: its choice is the caller's.
Open(c) ==
    /\ phase[c] = "none"
    /\ phase' = [phase EXCEPT ![c] = "pending"]
    /\ route'[c] \in Seq(Roles) \ {<<>>}
    /\ route' = [route EXCEPT ![c] = route'[c]]
    /\ UNCHANGED trail

\* The step a case is waiting on is the number of decisions it already has.
Decide(c, u, action, outcome) ==
    LET step == Len(trail[c]) IN
    /\ phase[c] = "pending"
    /\ step < Len(route[c])
    /\ MayDecide(u, route[c][step + 1])
    /\ trail' = [trail EXCEPT ![c] = Append(trail[c], [step |-> step, action |-> action, actor |-> u])]
    /\ phase' = [phase EXCEPT ![c] = outcome]
    /\ UNCHANGED route

Advance(c, u)    == Len(trail[c]) + 1 < Len(route[c]) /\ Decide(c, u, "approve", "pending")
Approve(c, u)    == Len(trail[c]) + 1 = Len(route[c]) /\ Decide(c, u, "approve", "approved")
Reject(c, u)     == Decide(c, u, "reject", "rejected")
SendBack(c, u)   == Decide(c, u, "return", "returned")

\* A case whose submission failed half way is taken back, decisions included.
Withdraw(c) ==
    /\ phase[c] = "pending"
    /\ phase' = [phase EXCEPT ![c] = "withdrawn"]
    /\ trail' = [trail EXCEPT ![c] = <<>>]
    /\ UNCHANGED route

CaseNext ==
    \E c \in Cases :
        \/ Open(c)
        \/ \E u \in Users : Advance(c, u) \/ Approve(c, u) \/ Reject(c, u) \/ SendBack(c, u)
        \/ Withdraw(c)

CaseSpec == CaseInit /\ [][CaseNext]_caseVars
=============================================================================
