------------------------------ MODULE Sourcing ------------------------------
(***************************************************************************)
(* One tender (an RFQ or RFP) of Vendra: the suppliers invited to it, the  *)
(* bids they save, submit and decline in the portal, and the committee's   *)
(* selections.                                                             *)
(*                                                                         *)
(* As in Approval, the tables are the shared state and a handler executes  *)
(* one SQL statement, or one transaction, per step.  A supplier may have   *)
(* several users, and a user several requests in flight.                   *)
(***************************************************************************)
EXTENDS Naturals, FiniteSets

CONSTANTS Suppliers,
          Requests,     \* HTTP requests in flight at once (bound)
          Amounts,      \* what a bid may offer
          Edits,        \* statuses the buyer's form writes to the tender
          Kinds,        \* the handlers that clients call
          Nil

SelectionTypes == {"preferred", "final"}
Standing == {"invited", "draft", "submitted", "declined", "preferred", "selected", "not_selected"}

ASSUME SourcingAssumption ==
    /\ Nil \notin Suppliers \cup Amounts
    /\ Edits \cap {"none", ""} = {}

VARIABLES tender,   \* business_objects.status of the tender
          past,     \* its due_date is behind the business day under way
          part,     \* sourcing_participants.status; "none": no such row
          bid,      \* sourcing_responses, one row for each supplier at most
          sel,      \* sourcing_selections: whose response, for each type
          latest,   \* ghost: the type of the selection committed last
          req       \* the handlers in flight

vars == <<tender, past, part, bid, sel, latest, req>>

NoBid == [status |-> "none", amount |-> Nil]

Idle == [pc |-> "idle", supplier |-> Nil, invited |-> {}, status |-> "", amount |-> Nil, type |-> ""]

Become(r, state) == req' = [req EXCEPT ![r] = state]
Goto(r, pc) == Become(r, [req[r] EXCEPT !.pc = pc])
Finish(r) == Become(r, Idle)

\* Mutant: bidding is closed by the due date only.
BiddingClosed_Never(standing) == FALSE

\* sourcingBiddingClosed: the preferred bidder may still revise its quote.
BiddingClosed(standing) == standing \in {"selected", "not_selected"}

\* Mutant: the tender's status is put on the bidder (preferred_negotiation).
StandingOf_ObjectStatus(type) == IF type = "final" THEN "selected" ELSE "preferred_negotiation"

StandingOf(type) == IF type = "final" THEN "selected" ELSE "preferred"
ObjectStatusOf(type) == IF type = "final" THEN "selected" ELSE "preferred_negotiation"

(***************************************************************************)
(* The buyer and the calendar                                              *)
(***************************************************************************)
DeadlinePasses ==
    /\ ~past
    /\ past' = TRUE
    /\ UNCHANGED <<tender, part, bid, sel, latest, req>>

\* updateObject on the tender: its form may write a status (any that is not the
\* approval workflow's, "" if left out) and move the due date either way, in one UPDATE
\* that depends on nothing it read.  The column data, which it reads first and writes back
\* whole, is left out: no standing, bid or selection is in it.
EditTender(edit, moved) ==
    /\ "edit" \in Kinds
    /\ tender' = IF edit = "" THEN tender ELSE edit
    /\ past' = moved
    /\ UNCHANGED <<part, bid, sel, latest, req>>

\* addSourcingParticipants: the tender is read and its due date checked.
InviteRead(r, S) ==
    /\ "invite" \in Kinds
    /\ req[r].pc = "idle"
    /\ S # {}
    /\ ~past
    /\ Become(r, [Idle EXCEPT !.pc = "invite", !.invited = S])
    /\ UNCHANGED <<tender, past, part, bid, sel, latest>>

\* Its transaction: those already invited keep their row, and the tender opens.
InviteCommit(r) ==
    /\ req[r].pc = "invite"
    /\ part' = [s \in Suppliers |-> IF s \in req[r].invited /\ part[s] = "none" THEN "invited" ELSE part[s]]
    /\ tender' = "open"
    /\ Finish(r)
    /\ UNCHANGED <<past, bid, sel, latest>>

(***************************************************************************)
(* The bidder: portalSourcingResponse and portalDeclineSourcing            *)
(***************************************************************************)
\* The participant row is read and everything that refuses a save is checked.
\* An amount may be left out of a draft only.
SaveRead(r, s, status, amount) ==
    /\ "save" \in Kinds
    /\ req[r].pc = "idle"
    /\ part[s] # "none"
    /\ ~past
    /\ part[s] # "declined"
    /\ ~BiddingClosed(part[s])
    /\ status = "submitted" => amount # Nil
    /\ Become(r, [Idle EXCEPT !.pc = "save", !.supplier = s, !.status = status, !.amount = amount])
    /\ UNCHANGED <<tender, past, part, bid, sel, latest>>

\* One upsert, which replaces the row whatever it or the participant's says now.
SaveBid(r) ==
    LET q == req[r] IN
    /\ q.pc = "save"
    /\ bid' = [bid EXCEPT ![q.supplier] = [status |-> q.status, amount |-> q.amount]]
    /\ Goto(r, "receipt")
    /\ UNCHANGED <<tender, past, part, sel, latest>>

\* Mutant: the receipt is stamped over whatever the standing is.
Receipt_Always(standing, status) == status

\* The read receipt leaves a standing that the committee wrote alone.
Receipt(standing, status) ==
    IF standing \in {"preferred", "selected", "not_selected"} THEN standing ELSE status

SaveReceipt(r) ==
    LET q == req[r] IN
    /\ q.pc = "receipt"
    /\ part' = [part EXCEPT ![q.supplier] = Receipt(@, q.status)]
    /\ Finish(r)
    /\ UNCHANGED <<tender, past, bid, sel, latest>>

\* One guarded UPDATE.
Decline(s) ==
    /\ "decline" \in Kinds
    /\ part[s] \in {"invited", "draft"}
    /\ part' = [part EXCEPT ![s] = "declined"]
    /\ UNCHANGED <<tender, past, bid, sel, latest, req>>

(***************************************************************************)
(* The committee: selectSourcingResponse                                   *)
(***************************************************************************)
\* Before the transaction: only a submitted response may be selected.
SelectRead(r, s, type) ==
    /\ "select" \in Kinds
    /\ req[r].pc = "idle"
    /\ bid[s].status = "submitted"
    /\ Become(r, [Idle EXCEPT !.pc = "select", !.supplier = s, !.type = type])
    /\ UNCHANGED <<tender, past, part, bid, sel, latest>>

\* Mutant: the other bidders keep their standing at a final selection.
Settled_WinnerOnly(s, type) == [part EXCEPT ![s] = StandingOf(type)]

\* The standings a selection leaves: a final one settles every bidder.
Settled(s, type) ==
    [t \in Suppliers |->
        CASE part[t] = "none" -> "none"
          [] part[t] # "none" /\ t = s -> StandingOf(type)
          [] part[t] # "none" /\ t # s -> IF type = "final" THEN "not_selected" ELSE part[t]]

\* The transaction.  Concurrent selections queue for the row of the tender.
SelectCommit(r) ==
    LET q == req[r] IN
    /\ q.pc = "select"
    /\ sel' = [sel EXCEPT ![q.type] = q.supplier]
    /\ latest' = q.type
    /\ tender' = ObjectStatusOf(q.type)
    /\ part' = Settled(q.supplier, q.type)
    /\ Finish(r)
    /\ UNCHANGED <<past, bid>>

\* The next statement fails, or the replica dies: what was committed stays and
\* the rest does not happen.  (A failed receipt is only logged.)
Fail(r) ==
    /\ "fault" \in Kinds
    /\ req[r].pc # "idle"
    /\ Finish(r)
    /\ UNCHANGED <<tender, past, part, bid, sel, latest>>

(***************************************************************************)
(* The specification                                                       *)
(***************************************************************************)
Init ==
    /\ tender = "draft"
    /\ past = FALSE
    /\ part = [s \in Suppliers |-> "none"]
    /\ bid = [s \in Suppliers |-> NoBid]
    /\ sel = [type \in SelectionTypes |-> Nil]
    /\ latest = ""
    /\ req = [r \in Requests |-> Idle]

Proceed(r) == InviteCommit(r) \/ SaveBid(r) \/ SaveReceipt(r) \/ SelectCommit(r)

Call(r) ==
    \/ \E S \in SUBSET Suppliers : InviteRead(r, S)
    \/ \E s \in Suppliers :
        \/ \E amount \in Amounts \cup {Nil} : SaveRead(r, s, "draft", amount) \/ SaveRead(r, s, "submitted", amount)
        \/ \E type \in SelectionTypes : SelectRead(r, s, type)

Next ==
    \/ DeadlinePasses
    \/ \E edit \in Edits \cup {""}, moved \in BOOLEAN : EditTender(edit, moved)
    \/ \E s \in Suppliers : Decline(s)
    \/ \E r \in Requests : Call(r) \/ Proceed(r) \/ Fail(r)

Spec == Init /\ [][Next]_vars

\* A handler that can take its next statement takes it.
FairSpec == Spec /\ \A r \in Requests : WF_vars(Proceed(r))

(***************************************************************************)
(* Properties                                                              *)
(***************************************************************************)
Bid == [status: {"none", "draft", "submitted"}, amount: Amounts \cup {Nil}]

Handler == [pc: {"idle", "invite", "save", "receipt", "select"}, supplier: Suppliers \cup {Nil},
            invited: SUBSET Suppliers, status: {"", "draft", "submitted"}, amount: Amounts \cup {Nil},
            type: SelectionTypes \cup {""}]

\* The columns hold what they are declared to hold; a standing is one of
\* sourcingParticipantStatuses and never the tender's own status.
TypeOK ==
    /\ tender \in Edits \cup {"draft", "open", "preferred_negotiation", "selected"}
    /\ past \in BOOLEAN
    /\ part \in [Suppliers -> Standing \cup {"none"}]
    /\ bid \in [Suppliers -> Bid]
    /\ sel \in [SelectionTypes -> Suppliers \cup {Nil}]
    /\ latest \in SelectionTypes \cup {""}
    /\ req \in [Requests -> Handler]

\* The standings say what the selections say, whichever selections, saves and
\* declines were in flight together: who reads selected is the one of the final
\* selection, and as long as that is the last word nobody else is still
\* preferred; a later preferred bidder keeps that standing while it revises its
\* quote (selectSourcingResponse, the read receipt).
AwardsAgree ==
    /\ \A s \in Suppliers : part[s] = "selected" => sel["final"] = s
    /\ latest = "final" => part[sel["final"]] = "selected" /\ \A s \in Suppliers : part[s] # "preferred"
    /\ latest = "preferred" => part[sel["preferred"]] = "preferred"

\* The standings behave as Standings: a bidder never writes over the committee.
StandingsOf == INSTANCE Standings WITH standing <- part
ImplementsStandings == StandingsOf!StandingsSpec

Final == {"selected", "not_selected"}

\* Bids come to rest: from the time the deadline has passed, or the committee
\* has settled the bidder, for good, its bid changes for a while at most - the
\* saves that were already checked end (portalSourcingResponse).
BidsSettle ==
    \A s \in Suppliers : <>[](past \/ part[s] \in Final) => <>[][bid'[s] = bid[s]]_bid

=============================================================================
