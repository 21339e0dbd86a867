--------------------------- MODULE SourcingProofs ---------------------------
(***************************************************************************)
(* Theorems about Sourcing, for any suppliers, requests and amounts: the   *)
(* standings of a tender agree with its selections, and every statement of *)
(* a handler is a step of Standings or a stutter.                          *)
(***************************************************************************)
EXTENDS Sourcing, TLAPS

\* What a handler holds at each of its statements.
HandlerOK(q) ==
    /\ q.pc \in {"save", "receipt"} => /\ q.supplier \in Suppliers
                                       /\ part[q.supplier] # "none"
                                       /\ q.status \in {"draft", "submitted"}
    /\ q.pc = "select" => /\ q.supplier \in Suppliers
                          /\ bid[q.supplier].status # "none"
                          /\ q.type \in SelectionTypes

HandlersOK == \A r \in Requests : HandlerOK(req[r])

\* Only those invited have a response.
BidsOfInvited == \A s \in Suppliers : bid[s].status # "none" => part[s] # "none"

SelectionsOK == \A type \in SelectionTypes : latest = type => sel[type] \in Suppliers

Inv ==
    /\ TypeOK
    /\ HandlersOK
    /\ BidsOfInvited
    /\ SelectionsOK
    /\ AwardsAgree

LEMMA IdleOK == Idle \in Handler /\ HandlerOK(Idle)
  BY DEF Idle, Handler, HandlerOK

\* A handler in slot r is replaced by another one, and the tables only grow.
LEMMA BecomeOK ==
    ASSUME req \in [Requests -> Handler], HandlersOK, NEW r \in Requests,
           NEW state \in Handler, HandlerOK(state)', Become(r, state),
           \A s \in Suppliers : part[s] # "none" => part'[s] # "none",
           \A s \in Suppliers : bid[s].status # "none" => bid'[s].status # "none"
    PROVE  req' \in [Requests -> Handler] /\ HandlersOK'
<1>1. req' \in [Requests -> Handler]
  BY DEF Become
<1>2. ASSUME NEW t \in Requests PROVE HandlerOK(req[t])'
  <2>1. CASE t = r
    BY <2>1 DEF Become, HandlerOK
  <2>2. CASE t # r
    BY <2>2 DEF Become, HandlerOK, HandlersOK
  <2> QED
    BY <2>1, <2>2
<1> QED
  BY <1>1, <1>2 DEF HandlersOK

LEMMA FinishOK ==
    ASSUME req \in [Requests -> Handler], HandlersOK, NEW r \in Requests, Finish(r),
           \A s \in Suppliers : part[s] # "none" => part'[s] # "none",
           \A s \in Suppliers : bid[s].status # "none" => bid'[s].status # "none"
    PROVE  req' \in [Requests -> Handler] /\ HandlersOK'
<1>1. Idle \in Handler
  BY IdleOK
<1>2. HandlerOK(Idle)'
  BY DEF HandlerOK, Idle
<1> QED
  BY <1>1, <1>2, BecomeOK DEF Finish

LEMMA InvInit == Init => Inv
<1> SUFFICES ASSUME Init PROVE Inv
  OBVIOUS
<1>1. TypeOK
  BY IdleOK DEF Init, TypeOK, NoBid, Bid, SelectionTypes
<1>2. HandlersOK
  BY DEF Init, HandlersOK, HandlerOK, Idle
<1>3. BidsOfInvited
  BY DEF Init, BidsOfInvited, NoBid
<1>4. SelectionsOK /\ AwardsAgree
  BY DEF Init, SelectionsOK, AwardsAgree, SelectionTypes
<1> QED
  BY <1>1, <1>2, <1>3, <1>4 DEF Inv

\* Steps that leave participants, responses and selections alone.
LEMMA Untouched ==
    ASSUME Inv, UNCHANGED <<part, bid, sel, latest>>
    PROVE  /\ BidsOfInvited' /\ SelectionsOK' /\ AwardsAgree'
           /\ part' \in [Suppliers -> Standing \cup {"none"}]
           /\ bid' \in [Suppliers -> Bid]
           /\ sel' \in [SelectionTypes -> Suppliers \cup {Nil}]
           /\ latest' \in SelectionTypes \cup {""}
           /\ \A s \in Suppliers : part[s] # "none" => part'[s] # "none"
           /\ \A s \in Suppliers : bid[s].status # "none" => bid'[s].status # "none"
  BY DEF Inv, BidsOfInvited, SelectionsOK, AwardsAgree, TypeOK

\* The statements that read, and the ends of handlers.
LEMMA ReadsOK ==
    ASSUME Inv, NEW r \in Requests,
           \/ \E S \in SUBSET Suppliers : InviteRead(r, S)
           \/ \E s \in Suppliers : \/ \E amount \in Amounts \cup {Nil} : \/ SaveRead(r, s, "draft", amount)
                                                                         \/ SaveRead(r, s, "submitted", amount)
                                   \/ \E type \in SelectionTypes : SelectRead(r, s, type)
           \/ Fail(r)
    PROVE  Inv'
<1> USE DEF Inv
<1>1. UNCHANGED <<tender, past, part, bid, sel, latest>>
  BY DEF InviteRead, SaveRead, SelectRead, Fail
<1>2. req' \in [Requests -> Handler] /\ HandlersOK'
  <2>1. ASSUME NEW S \in SUBSET Suppliers, InviteRead(r, S)
        PROVE  req' \in [Requests -> Handler] /\ HandlersOK'
    <3> DEFINE st == [Idle EXCEPT !.pc = "invite", !.invited = S]
    <3>1. st \in Handler /\ st.pc = "invite"
      BY DEF Idle, Handler
    <3>2. Become(r, st)
      BY <2>1 DEF InviteRead
    <3> HIDE DEF st
    <3>3. HandlerOK(st)'
      BY <3>1 DEF HandlerOK
    <3> QED
      BY <1>1, <3>1, <3>2, <3>3, Untouched, BecomeOK DEF TypeOK
  <2>2. ASSUME NEW s \in Suppliers, NEW status \in {"draft", "submitted"}, NEW amount \in Amounts \cup {Nil},
               SaveRead(r, s, status, amount)
        PROVE  req' \in [Requests -> Handler] /\ HandlersOK'
    <3> DEFINE st == [Idle EXCEPT !.pc = "save", !.supplier = s, !.status = status, !.amount = amount]
    <3>1. st \in Handler /\ st.pc = "save" /\ st.supplier = s /\ st.status = status
      BY DEF Idle, Handler
    <3>2. Become(r, st) /\ part[s] # "none"
      BY <2>2 DEF SaveRead
    <3> HIDE DEF st
    <3>3. HandlerOK(st)'
      BY <1>1, <3>1, <3>2 DEF HandlerOK
    <3> QED
      BY <1>1, <3>1, <3>2, <3>3, Untouched, BecomeOK DEF TypeOK
  <2>3. ASSUME NEW s \in Suppliers, NEW type \in SelectionTypes, SelectRead(r, s, type)
        PROVE  req' \in [Requests -> Handler] /\ HandlersOK'
    <3> DEFINE st == [Idle EXCEPT !.pc = "select", !.supplier = s, !.type = type]
    <3>1. st \in Handler /\ st.pc = "select" /\ st.supplier = s /\ st.type = type
      BY DEF Idle, Handler
    <3>2. Become(r, st) /\ bid[s].status = "submitted"
      BY <2>3 DEF SelectRead
    <3> HIDE DEF st
    <3>3. HandlerOK(st)'
      BY <1>1, <3>1, <3>2 DEF HandlerOK
    <3> QED
      BY <1>1, <3>1, <3>2, <3>3, Untouched, BecomeOK DEF TypeOK
  <2>4. CASE Fail(r)
    BY <1>1, <2>4, Untouched, FinishOK DEF Fail, TypeOK
  <2> QED
    BY <2>1, <2>2, <2>3, <2>4
<1> QED
  BY <1>1, <1>2, Untouched DEF TypeOK

\* A change of the participants that keeps the committee's standings, and
\* leaves everybody in the tender.
LEMMA StandingsKept ==
    ASSUME Inv, UNCHANGED <<bid, sel, latest>>,
           part' \in [Suppliers -> Standing \cup {"none"}],
           \A s \in Suppliers : part[s] # "none" => part'[s] # "none",
           \A s \in Suppliers : \/ part'[s] = part[s]
                                \/ /\ part[s] \notin {"preferred", "selected"}
                                   /\ part'[s] \notin {"preferred", "selected"}
    PROVE  /\ BidsOfInvited' /\ SelectionsOK' /\ AwardsAgree'
           /\ \A s \in Suppliers : bid[s].status # "none" => bid'[s].status # "none"
<1> USE DEF Inv
<1>1. BidsOfInvited'
  BY DEF BidsOfInvited
<1>2. SelectionsOK'
  BY DEF SelectionsOK
<1>3. AwardsAgree'
  BY DEF AwardsAgree, SelectionsOK, SelectionTypes
<1> QED
  BY <1>1, <1>2, <1>3

LEMMA InviteOK == ASSUME Inv, NEW r \in Requests, InviteCommit(r) PROVE Inv'
<1> USE DEF Inv
<1>1. /\ part' \in [Suppliers -> Standing \cup {"none"}]
      /\ \A s \in Suppliers : part[s] # "none" => part'[s] = part[s]
      /\ \A s \in Suppliers : part[s] = "none" => part'[s] \in {"none", "invited"}
  BY DEF InviteCommit, TypeOK, Standing
<1>2. /\ \A s \in Suppliers : part[s] # "none" => part'[s] # "none"
      /\ \A s \in Suppliers : \/ part'[s] = part[s]
                              \/ /\ part[s] \notin {"preferred", "selected"}
                                 /\ part'[s] \notin {"preferred", "selected"}
  BY <1>1
<1>3. UNCHANGED <<past, bid, sel, latest>> /\ tender' = "open" /\ Finish(r)
  BY DEF InviteCommit
<1>4. req' \in [Requests -> Handler] /\ HandlersOK'
  BY <1>2, <1>3, FinishOK DEF TypeOK
<1>5. TypeOK'
  BY <1>1, <1>3, <1>4 DEF TypeOK
<1> QED
  BY <1>1, <1>2, <1>3, <1>4, <1>5, StandingsKept

LEMMA SaveOK == ASSUME Inv, NEW r \in Requests, SaveBid(r) PROVE Inv'
<1> USE DEF Inv
<1> DEFINE s == req[r].supplier
<1>1. /\ req[r] \in Handler /\ s \in Suppliers /\ part[s] # "none"
      /\ req[r].status \in {"draft", "submitted"} /\ req[r].amount \in Amounts \cup {Nil}
      /\ UNCHANGED <<tender, past, part, sel, latest>>
  BY DEF SaveBid, HandlersOK, HandlerOK, TypeOK, Handler
<1>2. /\ bid' \in [Suppliers -> Bid]
      /\ bid'[s].status # "none"
      /\ \A t \in Suppliers \ {s} : bid'[t] = bid[t]
  BY <1>1 DEF SaveBid, TypeOK, Bid
<1>3. \A t \in Suppliers : bid[t].status # "none" => bid'[t].status # "none"
  BY <1>2
<1>4. req' \in [Requests -> Handler] /\ HandlersOK'
  <2>1. [req[r] EXCEPT !.pc = "receipt"] \in Handler
    BY <1>1 DEF Handler
  <2>2. PICK st \in Handler : st = [req[r] EXCEPT !.pc = "receipt"]
    BY <2>1
  <2>3. st.pc = "receipt" /\ st.supplier = s /\ st.status = req[r].status
    BY <1>1, <2>2 DEF Handler
  <2>4. Become(r, st)
    BY <2>2 DEF SaveBid, Goto
  <2>5. part'[st.supplier] # "none" /\ st.supplier \in Suppliers /\ st.status \in {"draft", "submitted"}
    BY <1>1, <2>3
  <2>6. HandlerOK(st)'
    BY <2>3, <2>5 DEF HandlerOK
  <2> QED
    BY <1>1, <1>3, <2>4, <2>6, BecomeOK DEF TypeOK
<1>5. TypeOK'
  BY <1>1, <1>2, <1>4 DEF TypeOK
<1>6. BidsOfInvited'
  BY <1>1, <1>2 DEF BidsOfInvited
<1>7. SelectionsOK' /\ AwardsAgree'
  BY <1>1 DEF SelectionsOK, AwardsAgree
<1> QED
  BY <1>4, <1>5, <1>6, <1>7

LEMMA ReceiptOK == ASSUME Inv, NEW r \in Requests, SaveReceipt(r) PROVE Inv'
<1> USE DEF Inv
<1> DEFINE s == req[r].supplier
<1>1. s \in Suppliers /\ part[s] # "none" /\ req[r].status \in {"draft", "submitted"}
  BY DEF SaveReceipt, HandlersOK, HandlerOK
<1>2. UNCHANGED <<tender, past, bid, sel, latest>> /\ Finish(r)
  BY DEF SaveReceipt
<1>3. /\ \A t \in Suppliers \ {s} : part'[t] = part[t]
      /\ part'[s] = Receipt(part[s], req[r].status)
      /\ part' \in [Suppliers -> Standing \cup {"none"}]
  BY <1>1 DEF SaveReceipt, TypeOK, Receipt, Standing
<1>4. \/ part'[s] = part[s]
      \/ part[s] \notin {"preferred", "selected"} /\ part'[s] \in {"draft", "submitted"}
  BY <1>1, <1>3 DEF Receipt
<1>5. /\ \A t \in Suppliers : part[t] # "none" => part'[t] # "none"
      /\ \A t \in Suppliers : \/ part'[t] = part[t]
                              \/ /\ part[t] \notin {"preferred", "selected"}
                                 /\ part'[t] \notin {"preferred", "selected"}
  BY <1>1, <1>3, <1>4
<1>6. req' \in [Requests -> Handler] /\ HandlersOK'
  BY <1>2, <1>5, FinishOK DEF TypeOK
<1>7. TypeOK'
  BY <1>2, <1>3, <1>6 DEF TypeOK
<1> QED
  BY <1>2, <1>3, <1>5, <1>6, <1>7, StandingsKept

LEMMA DeclineOK == ASSUME Inv, NEW s \in Suppliers, Decline(s) PROVE Inv'
<1> USE DEF Inv
<1>1. /\ part[s] \in {"invited", "draft"} /\ part'[s] = "declined"
      /\ \A t \in Suppliers \ {s} : part'[t] = part[t]
      /\ part' \in [Suppliers -> Standing \cup {"none"}]
      /\ UNCHANGED <<tender, past, bid, sel, latest, req>>
  BY DEF Decline, TypeOK, Standing
<1>2. /\ \A t \in Suppliers : part[t] # "none" => part'[t] # "none"
      /\ \A t \in Suppliers : \/ part'[t] = part[t]
                              \/ /\ part[t] \notin {"preferred", "selected"}
                                 /\ part'[t] \notin {"preferred", "selected"}
  BY <1>1
<1>3. HandlersOK'
  BY <1>1, <1>2 DEF HandlersOK, HandlerOK
<1>4. TypeOK'
  BY <1>1 DEF TypeOK
<1> QED
  BY <1>1, <1>2, <1>3, <1>4, StandingsKept

\* The standings after a selection of s, one bidder at a time.
LEMMA SettledStandings ==
    ASSUME Inv, NEW s \in Suppliers, part[s] # "none", NEW type \in SelectionTypes
    PROVE  /\ Settled(s, type) \in [Suppliers -> Standing \cup {"none"}]
           /\ Settled(s, type)[s] = StandingOf(type)
           /\ \A t \in Suppliers \ {s} :
                 Settled(s, type)[t] = IF part[t] = "none" THEN "none"
                                       ELSE IF type = "final" THEN "not_selected" ELSE part[t]
<1> USE DEF Inv
<1>1. \A t \in Suppliers :
        Settled(s, type)[t] = CASE part[t] = "none" -> "none"
                                [] part[t] # "none" /\ t = s -> StandingOf(type)
                                [] part[t] # "none" /\ t # s -> IF type = "final" THEN "not_selected" ELSE part[t]
  BY DEF Settled
<1>2. Settled(s, type)[s] = StandingOf(type)
  BY <1>1
<1>3. \A t \in Suppliers \ {s} :
        Settled(s, type)[t] = IF part[t] = "none" THEN "none"
                              ELSE IF type = "final" THEN "not_selected" ELSE part[t]
  BY <1>1
<1>4. \A t \in Suppliers : Settled(s, type)[t] \in Standing \cup {"none"}
  BY <1>2, <1>3 DEF StandingOf, Standing, TypeOK
<1>5. Settled(s, type) = [t \in Suppliers |-> Settled(s, type)[t]]
  BY DEF Settled
<1> QED
  BY <1>2, <1>3, <1>4, <1>5

LEMMA SelectOK == ASSUME Inv, NEW r \in Requests, SelectCommit(r) PROVE Inv'
<1> USE DEF Inv
<1> DEFINE s == req[r].supplier
           type == req[r].type
<1>1. s \in Suppliers /\ bid[s].status # "none" /\ part[s] # "none" /\ type \in SelectionTypes
  BY DEF SelectCommit, HandlersOK, HandlerOK, BidsOfInvited
<1>2. /\ part' = Settled(s, type) /\ latest' = type /\ tender' = ObjectStatusOf(type)
      /\ sel' = [sel EXCEPT ![type] = s]
      /\ UNCHANGED <<past, bid>> /\ Finish(r)
  BY DEF SelectCommit
<1> HIDE DEF s, type
<1>3. /\ part' \in [Suppliers -> Standing \cup {"none"}]
      /\ part'[s] = StandingOf(type)
      /\ \A t \in Suppliers \ {s} : part'[t] = IF part[t] = "none" THEN "none"
                                               ELSE IF type = "final" THEN "not_selected" ELSE part[t]
  BY <1>1, <1>2, SettledStandings
<1>4. sel' \in [SelectionTypes -> Suppliers \cup {Nil}] /\ sel'[type] = s
      /\ \A k \in SelectionTypes \ {type} : sel'[k] = sel[k]
  BY <1>1, <1>2 DEF TypeOK
<1>5. \A t \in Suppliers : part[t] # "none" => part'[t] # "none"
  BY <1>1, <1>3 DEF StandingOf
<1>6. req' \in [Requests -> Handler] /\ HandlersOK'
  BY <1>2, <1>5, FinishOK DEF TypeOK
<1>7. TypeOK'
  BY <1>1, <1>2, <1>3, <1>4, <1>6 DEF TypeOK, ObjectStatusOf
<1>8. BidsOfInvited'
  BY <1>2, <1>5 DEF BidsOfInvited
<1>10. SelectionsOK'
  BY <1>1, <1>2, <1>4 DEF SelectionsOK
<1>11. CASE type = "final"
  <2>1. part'[s] = "selected" /\ \A t \in Suppliers \ {s} : part'[t] \in {"none", "not_selected"}
    BY <1>3, <1>11 DEF StandingOf
  <2>2. sel'["final"] = s /\ latest' = "final"
    BY <1>2, <1>4, <1>11
  <2>3. AwardsAgree'
    BY <1>1, <2>1, <2>2 DEF AwardsAgree
  <2> QED
    BY <1>6, <1>7, <1>8, <1>10, <2>3
<1>12. CASE type = "preferred"
  <2>1. part'[s] = "preferred" /\ \A t \in Suppliers \ {s} : part'[t] = part[t]
    BY <1>3, <1>12 DEF StandingOf
  <2>2. sel'["preferred"] = s /\ sel'["final"] = sel["final"] /\ latest' = "preferred"
    BY <1>2, <1>4, <1>12 DEF SelectionTypes
  <2>3. AwardsAgree'
    BY <1>1, <2>1, <2>2 DEF AwardsAgree
  <2> QED
    BY <1>6, <1>7, <1>8, <1>10, <2>3
<1> QED
  BY <1>1, <1>11, <1>12 DEF SelectionTypes

LEMMA InvNext == Inv /\ [Next]_vars => Inv'
<1> SUFFICES ASSUME Inv, [Next]_vars PROVE Inv'
  OBVIOUS
<1>1. CASE UNCHANGED vars
  BY <1>1, Untouched DEF vars, Inv, TypeOK, HandlersOK, HandlerOK
<1>2. CASE DeadlinePasses \/ \E edit \in Edits \cup {""}, moved \in BOOLEAN : EditTender(edit, moved)
  <2>1. UNCHANGED <<part, bid, sel, latest, req>> /\ past' \in BOOLEAN
    BY <1>2 DEF DeadlinePasses, EditTender
  <2>2. tender' = tender \/ tender' \in Edits
    BY <1>2 DEF DeadlinePasses, EditTender
  <2>3. TypeOK' /\ HandlersOK'
    BY <2>1, <2>2 DEF Inv, TypeOK, HandlersOK, HandlerOK
  <2> QED
    BY <2>1, <2>3, Untouched DEF Inv
<1>3. ASSUME NEW s \in Suppliers, Decline(s) PROVE Inv'
  BY <1>3, DeclineOK
<1>4. ASSUME NEW r \in Requests, Call(r) \/ Fail(r) PROVE Inv'
  BY <1>4, ReadsOK DEF Call
<1>5. ASSUME NEW r \in Requests, Proceed(r) PROVE Inv'
  BY <1>5, InviteOK, SaveOK, ReceiptOK, SelectOK DEF Proceed
<1> QED
  BY <1>1, <1>2, <1>3, <1>4, <1>5 DEF Next

\* Columns and handlers' variables keep their types; a standing is always one
\* of sourcingParticipantStatuses.
THEOREM TypeCorrect == Spec => []TypeOK
<1>1. Inv => TypeOK
  BY DEF Inv
<1> QED
  BY <1>1, InvInit, InvNext, PTL DEF Spec

\* The standings agree with the selections, for any number of bidders and of
\* selections in flight at once (selectSourcingResponse).
THEOREM AwardsAgreeAlways == Spec => []AwardsAgree
<1>1. Inv => AwardsAgree
  BY DEF Inv
<1> QED
  BY <1>1, InvInit, InvNext, PTL DEF Spec

(***************************************************************************)
(* Refinement                                                              *)
(***************************************************************************)
LEMMA StandingsStep == Inv /\ [Next]_vars => [StandingsOf!StandingsNext]_part
<1> SUFFICES ASSUME Inv, [Next]_vars, part' # part PROVE StandingsOf!StandingsNext
  OBVIOUS
<1> USE DEF Inv
<1>1. \/ \E s \in Suppliers : Decline(s)
      \/ \E r \in Requests : InviteCommit(r) \/ SaveReceipt(r) \/ SelectCommit(r)
  BY DEF Next, vars, DeadlinePasses, EditTender, Call, InviteRead, SaveRead, SelectRead, Fail, Proceed, SaveBid
<1>2. ASSUME NEW s \in Suppliers, Decline(s) PROVE StandingsOf!Decline(s)
  BY <1>2 DEF Decline, StandingsOf!Decline
<1>3. ASSUME NEW r \in Requests, InviteCommit(r)
      PROVE  \E S \in SUBSET Suppliers : StandingsOf!Invite(S)
  <2>1. req[r].invited \in SUBSET Suppliers
    BY DEF TypeOK, Handler
  <2>2. StandingsOf!Invite(req[r].invited)
    BY <1>3 DEF InviteCommit, StandingsOf!Invite, StandingsOf!Invited
  <2> QED
    BY <2>1, <2>2
<1>4. ASSUME NEW r \in Requests, SaveReceipt(r)
      PROVE  \E s \in Suppliers : StandingsOf!Answer(s, "draft") \/ StandingsOf!Answer(s, "submitted")
  <2> DEFINE s == req[r].supplier
             answer == req[r].status
  <2>1. s \in Suppliers /\ part[s] # "none" /\ answer \in {"draft", "submitted"}
    BY <1>4 DEF SaveReceipt, HandlersOK, HandlerOK
  <2>2. part' = [part EXCEPT ![s] = Receipt(part[s], answer)]
    BY <1>4 DEF SaveReceipt
  <2> HIDE DEF s, answer
  <2>3. part[s] \notin {"preferred", "selected", "not_selected"}
    BY <2>1, <2>2 DEF Receipt, TypeOK
  <2>4. part[s] \in StandingsOf!Bidders
    BY <2>1, <2>3 DEF TypeOK, Standing, StandingsOf!Bidders
  <2>5. StandingsOf!Answer(s, answer)
    BY <2>2, <2>3, <2>4 DEF Receipt, StandingsOf!Answer
  <2> QED
    BY <2>1, <2>5
<1>5. ASSUME NEW r \in Requests, SelectCommit(r)
      PROVE  \E s \in Suppliers : StandingsOf!Prefer(s) \/ StandingsOf!Select(s)
  <2> DEFINE s == req[r].supplier
             type == req[r].type
  <2>1. s \in Suppliers /\ part[s] # "none" /\ type \in SelectionTypes
    BY <1>5 DEF SelectCommit, HandlersOK, HandlerOK, BidsOfInvited
  <2>2. part' = Settled(s, type)
    BY <1>5 DEF SelectCommit
  <2> HIDE DEF s, type
  <2>3. /\ part' \in [Suppliers -> Standing \cup {"none"}]
        /\ part'[s] = StandingOf(type)
        /\ \A t \in Suppliers \ {s} : part'[t] = IF part[t] = "none" THEN "none"
                                                 ELSE IF type = "final" THEN "not_selected" ELSE part[t]
    BY <2>1, <2>2, SettledStandings
  <2>4. CASE type = "final"
    <3>1. part' = [t \in Suppliers |-> IF t = s THEN "selected" ELSE IF part[t] # "none" THEN "not_selected" ELSE "none"]
      BY <2>1, <2>3, <2>4 DEF StandingOf
    <3> QED
      BY <2>1, <3>1 DEF StandingsOf!Select, StandingsOf!Invited
  <2>5. CASE type = "preferred"
    <3>1. part' = [part EXCEPT ![s] = "preferred"]
      BY <2>1, <2>3, <2>5 DEF StandingOf, TypeOK
    <3> QED
      BY <2>1, <3>1 DEF StandingsOf!Prefer, StandingsOf!Invited
  <2> QED
    BY <2>1, <2>4, <2>5 DEF SelectionTypes
<1> QED
  BY <1>1, <1>2, <1>3, <1>4, <1>5 DEF StandingsOf!StandingsNext

\* Sourcing implements Standings: a bidder never writes over what the committee
\* decided, and a final selection settles everybody at once.
THEOREM StandingsImplemented == Spec => ImplementsStandings
<1>1. Init => StandingsOf!StandingsInit
  BY DEF Init, StandingsOf!StandingsInit
<1> QED
  BY <1>1, InvInit, InvNext, StandingsStep, PTL DEF Spec, ImplementsStandings, StandingsOf!StandingsSpec
=============================================================================
