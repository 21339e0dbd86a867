----------------------------- MODULE Standings -----------------------------
(***************************************************************************)
(* What a tender promises its bidders about where they stand, with no      *)
(* database and no handlers: a bidder answers and declines for itself, a   *)
(* submitted bid is not declined, and what the committee decides about a   *)
(* bidder only the committee changes; a final decision is about everybody. *)
(* Sourcing.tla implements this specification.                             *)
(***************************************************************************)
CONSTANT Suppliers

VARIABLE standing

Bidders == {"invited", "draft", "submitted", "declined"}     \* the bidder's own
Committees == {"preferred", "selected", "not_selected"}      \* the committee's
Invited(s) == standing[s] # "none"

StandingsInit == standing = [s \in Suppliers |-> "none"]

Invite(S) ==
    standing' = [s \in Suppliers |-> IF s \in S /\ ~Invited(s) THEN "invited" ELSE standing[s]]

Answer(s, answer) ==
    /\ standing[s] \in Bidders
    /\ standing' = [standing EXCEPT ![s] = answer]

Decline(s) ==
    /\ standing[s] \in {"invited", "draft"}
    /\ standing' = [standing EXCEPT ![s] = "declined"]

Prefer(s) ==
    /\ Invited(s)
    /\ standing' = [standing EXCEPT ![s] = "preferred"]

Select(s) ==
    /\ Invited(s)
    /\ standing' = [t \in Suppliers |-> IF t = s THEN "selected" ELSE IF Invited(t) THEN "not_selected" ELSE "none"]

StandingsNext ==
    \/ \E S \in SUBSET Suppliers : Invite(S)
    \/ \E s \in Suppliers : Answer(s, "draft") \/ Answer(s, "submitted") \/ Decline(s) \/ Prefer(s) \/ Select(s)

StandingsSpec == StandingsInit /\ [][StandingsNext]_standing
=============================================================================
