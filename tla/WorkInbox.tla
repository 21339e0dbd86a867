------------------------------ MODULE WorkInbox -----------------------------
(***************************************************************************)
(* The work inbox of one user: what waits for them is put together anew on *)
(* every look (approvals, records with a date, notifications), and what    *)
(* they put away is remembered by the key of the item.  The key of a dated *)
(* item has its date in it; the key of an approval has not its step.       *)
(***************************************************************************)
EXTENDS Naturals, FiniteSets

CONSTANTS Tasks,        \* records with a date: objects, risks, documents
          ReadBy,       \* the query that reads each of them
          Approvals,    \* approval requests, numbered as they were filed
          Notes,        \* notifications, numbered from the newest
          Queries,      \* what the inbox is put together from
          Limit,        \* LIMIT of each query: 300 objects, 200 of the others, 100 notifications
          Dates,        \* dates of records, all inside the window of the queries
          Steps,        \* the steps of an approval, 0 .. Steps - 1
          MySteps,      \* the steps whose role the user holds
          AtOnce,       \* items put away in one call: 100
          LastInstant   \* instants of the clock (bound)

ASSUME InboxAssumption ==
    /\ {"approval", "notification"} \subseteq Queries
    /\ ReadBy \in [Tasks -> Queries \ {"approval", "notification"}]
    /\ Limit \in [Queries -> Nat \ {0}]
    /\ Approvals \cup Notes \subseteq Nat
    /\ Dates \subseteq Nat \ {0}
    /\ Steps \in Nat /\ MySteps \subseteq 0 .. Steps - 1
    /\ AtOnce \in Nat /\ LastInstant \in Nat

VARIABLES taskDate,   \* date of each record; the finished ones have none
          waiting,    \* step of each approval, Steps when it is decided
          unreadNote, \* the notifications not read
          itemState,  \* user_work_item_states: state and instant until which it is snoozed
          instant,
          putAway     \* ghost: what the user put away, as they saw it

inboxVars == <<taskDate, waiting, unreadNote, itemState, instant, putAway>>

Finished == 0

\* What a user can see: a record with its date, an approval at its step, a notification.
Items == {<<"task", x, d>> : x \in Tasks, d \in Dates}
           \cup {<<"approval", x, s>> : x \in Approvals, s \in 0 .. Steps - 1}
           \cup {<<"notification", x, 0>> : x \in Notes}

\* Mutant: the key of a record without its date.
KeyOf_Undated(item) == <<item[1], item[2], 0>>

\* datedWorkKey, and the keys of approvals and notifications
KeyOf(item) == IF item[1] = "task" THEN item ELSE <<item[1], item[2], 0>>

Keys == {KeyOf(item) : item \in Items}

Active == [state |-> "active", until |-> 0]

Source(item) == IF item[1] = "task" THEN ReadBy[item[2]] ELSE item[1]

\* What a query finds before its LIMIT: also the approvals that wait for others.
Found(q) == {item \in Items : /\ Source(item) = q
                              /\ \/ item[1] = "task" /\ taskDate[item[2]] = item[3]
                                 \/ item[1] = "approval" /\ waiting[item[2]] = item[3]
                                 \/ item[1] = "notification" /\ item[2] \in unreadNote}

\* ORDER BY: the date, or the number; a tie goes either way.
Place(item) == IF item[1] = "task" THEN item[3] ELSE item[2]

\* ... and what it may answer.
Answers(q) == {rows \in SUBSET Found(q) :
    /\ Cardinality(rows) = Limit[q] \/ (Cardinality(rows) < Limit[q] /\ rows = Found(q))
    /\ \A row \in rows, other \in Found(q) \ rows : Place(row) <= Place(other)}

Hidden(k) == itemState[k].state = "done" \/ (itemState[k].state = "snoozed" /\ itemState[k].until > instant)

\* workInbox: of the rows of each query, those that are the user's and not put away.
Shown(rows) == {item \in rows : ~Hidden(KeyOf(item)) /\ (item[1] = "approval" => item[3] \in MySteps)}

-----------------------------------------------------------------------------
\* updateWorkItemState of items on a page that may be old: all in one transaction.
PutAway(items, state, until) ==
    /\ items # {} /\ Cardinality(items) <= AtOnce
    /\ IF state = "snoozed" THEN until > instant ELSE until = 0
    /\ itemState' = [k \in Keys |-> IF \E item \in items : KeyOf(item) = k THEN [state |-> state, until |-> until]
                                                                         ELSE itemState[k]]
    /\ putAway' = IF state = "active" THEN putAway \ items ELSE putAway \cup items
    /\ unreadNote' = IF state = "done" THEN {x \in unreadNote : <<"notification", x, 0>> \notin items} ELSE unreadNote
    /\ UNCHANGED <<taskDate, waiting, instant>>

\* An update of a record moves its date, or finishes it.
MoveDate(x, d) ==
    /\ taskDate[x] # Finished /\ d # taskDate[x]
    /\ taskDate' = [taskDate EXCEPT ![x] = d]
    /\ UNCHANGED <<waiting, unreadNote, itemState, instant, putAway>>

\* A decision takes an approval to its next step, or ends it.
StepOn(x, next) ==
    /\ waiting[x] < Steps /\ next \in {waiting[x] + 1, Steps}
    /\ waiting' = [waiting EXCEPT ![x] = next]
    /\ UNCHANGED <<taskDate, unreadNote, itemState, instant, putAway>>

\* readNotification, readAllNotifications
ReadNotes(notes) ==
    /\ notes # {} /\ notes \subseteq unreadNote
    /\ unreadNote' = unreadNote \ notes
    /\ UNCHANGED <<taskDate, waiting, itemState, instant, putAway>>

InstantPasses ==
    /\ instant < LastInstant
    /\ instant' = instant + 1
    /\ UNCHANGED <<taskDate, waiting, unreadNote, itemState, putAway>>

InboxInit ==
    /\ taskDate \in [Tasks -> Dates]
    /\ waiting = [x \in Approvals |-> 0]
    /\ unreadNote = Notes
    /\ itemState = [k \in Keys |-> Active]
    /\ instant = 0
    /\ putAway = {}

InboxNext ==
    \/ \E items \in SUBSET Items, state \in {"active", "done", "snoozed"}, until \in 0 .. LastInstant :
          PutAway(items, state, until)
    \/ \E x \in Tasks, d \in Dates \cup {Finished} : MoveDate(x, d)
    \/ \E x \in Approvals, next \in 1 .. Steps : StepOn(x, next)
    \/ \E notes \in SUBSET Notes : ReadNotes(notes)
    \/ InstantPasses

InboxSpec == InboxInit /\ [][InboxNext]_inboxVars

-----------------------------------------------------------------------------
\* A record whose present date the user never put away is in their inbox, whatever they
\* did with the same record when it was due on other days, unless its query has no room for
\* it: a full answer of others, put away or not, that are due no later (workInbox).
NewDateShown ==
    \A q \in Queries : \A rows \in Answers(q), item \in Found(q) :
        item[1] = "task" /\ item \notin putAway =>
            \/ item \in Shown(rows)
            \/ \E crowd \in SUBSET (Found(q) \ {item}) :
                  Cardinality(crowd) = Limit[q] /\ \A other \in crowd : Place(other) <= Place(item)
=============================================================================
