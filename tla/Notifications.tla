---------------------------- MODULE Notifications ---------------------------
(***************************************************************************)
(* The background loop of Vendra: every replica, hourly, turns what is due *)
(* into notifications, gives each a delivery per adapter and dispatches    *)
(* pending deliveries in batches, with no row lock.  One SQL statement, or *)
(* one request to an adapter, per step; a replica dies and an UPDATE fails *)
(* at any time, up to a bound.                                             *)
(***************************************************************************)
EXTENDS Naturals, Sequences, FiniteSets

CONSTANTS Events,         \* what becomes due: an object with a title and an owner
          Adapters,       \* names in notification.adapters
          Broken,         \* the ones that never accept a message
          Switched,       \* the ones that are switched on and off (bound)
          Replicas,
          Batch,          \* LIMIT of a dispatch, 50
          MaxAttempts,    \* 5
          FaultBound,     \* crashes and failed UPDATEs in all (bound)
          QueueBound      \* rows of notification_deliveries (bound)

ASSUME NotificationsAssumption ==
    /\ Batch \in Nat \ {0} /\ MaxAttempts \in Nat \ {0} /\ FaultBound \in Nat
    /\ Broken \subseteq Adapters /\ Switched \subseteq Adapters
    /\ IsFiniteSet(Events) /\ IsFiniteSet(Adapters) /\ IsFiniteSet(Replicas)

VARIABLES notice,     \* notifications: the events that have one
          enabled,    \* the adapters that are on in the setting
          queue,      \* notification_deliveries, oldest first
          loop,       \* the background loop of each replica
          faults

noticeVars == <<notice, enabled, queue, loop, faults>>

Asleep == [pc |-> "asleep", on |-> {}, missing |-> {}, batch |-> <<>>, sent |-> FALSE]

Loops(b, fields) == loop' = [loop EXCEPT ![b] = fields]

Delivery(e, a) == [event |-> e, adapter |-> a, status |-> "pending", attempts |-> 0]

-----------------------------------------------------------------------------
\* One INSERT for each adapter that was on, in the order of the setting, which may be any.
Onward(on) == IF on = {} THEN "read" ELSE "look"

\* scheduleNotifications: what the queries find due now; ON CONFLICT DO NOTHING keeps what
\* is there.
Schedule(b, due) ==
    /\ loop[b].pc = "asleep"
    /\ notice' = notice \cup due
    /\ Loops(b, [Asleep EXCEPT !.pc = Onward(enabled), !.on = enabled])
    /\ UNCHANGED <<enabled, queue, faults>>

\* Which notifications have no delivery with the adapter: the sub-select of its INSERT, as
\* the replica sees it ...
Wanting(a) ==
    {d \in notice \X {a} : ~\E i \in DOMAIN queue : <<queue[i].event, queue[i].adapter>> = d}

LookForDeliveries(b, a) ==
    LET q == loop[b] IN
    /\ q.pc = "look" /\ a \in q.on
    /\ Loops(b, [q EXCEPT !.pc = "enqueue", !.on = @ \ {a}, !.missing = Wanting(a)])
    /\ UNCHANGED <<notice, enabled, queue, faults>>

\* ... and the rows it inserts, which another replica may have inserted as well.
Enqueue(b) ==
    LET q == loop[b] IN
    /\ q.pc = "enqueue"
    /\ Len(queue) + Cardinality(q.missing) <= QueueBound
    /\ \E rows \in {s \in [1 .. Cardinality(q.missing) -> q.missing] :
                        \A i, j \in DOMAIN s : i # j => s[i] # s[j]} :
         queue' = queue \o [i \in DOMAIN rows |-> Delivery(rows[i][1], rows[i][2])]
    /\ Loops(b, [q EXCEPT !.pc = Onward(q.on), !.missing = {}])
    /\ UNCHANGED <<notice, enabled, faults>>

\* Mutant: tried for ever.
Eligible_Always == {i \in DOMAIN queue : queue[i].status = "pending" /\ queue[i].adapter \in enabled}

\* dispatchNotifications: the oldest pending ones of the adapters that are on.
Eligible == {i \in DOMAIN queue : /\ queue[i].status = "pending"
                                  /\ queue[i].attempts < MaxAttempts
                                  /\ queue[i].adapter \in enabled}
Oldest == {i \in Eligible : Cardinality({j \in Eligible : j < i}) < Batch}

ReadBatch(b) ==
    /\ loop[b].pc = "read"
    /\ \E s \in {f \in [1 .. Cardinality(Oldest) -> Oldest] : \A i, j \in DOMAIN f : i < j => f[i] < f[j]} :
         Loops(b, [Asleep EXCEPT !.pc = "send", !.batch = s])
    /\ UNCHANGED <<notice, enabled, queue, faults>>

\* deliverNotification: a broken adapter answers with an error or not within its timeout.
Send(b) ==
    LET q == loop[b] IN
    /\ q.pc = "send"
    /\ IF q.batch = <<>> THEN Loops(b, Asleep)
       ELSE Loops(b, [q EXCEPT !.pc = "record", !.sent = queue[Head(q.batch)].adapter \notin Broken])
    /\ UNCHANGED <<notice, enabled, queue, faults>>

\* Mutant: a failure is not counted.
Counted_SuccessOnly(row, sent) ==
    IF sent THEN [row EXCEPT !.attempts = @ + 1, !.status = "delivered"] ELSE row

\* The UPDATE, by id and with no other condition.
Counted(row, sent) ==
    [row EXCEPT !.attempts = @ + 1, !.status = IF sent THEN "delivered" ELSE @]

Record(b, ok) ==
    LET q == loop[b] IN
    /\ q.pc = "record"
    /\ ok \/ faults < FaultBound
    /\ faults' = IF ok THEN faults ELSE faults + 1
    /\ queue' = [queue EXCEPT ![Head(q.batch)] = IF ok THEN Counted(@, q.sent) ELSE @]
    /\ Loops(b, [q EXCEPT !.pc = "send", !.batch = Tail(@), !.sent = FALSE])
    /\ UNCHANGED <<notice, enabled>>

\* A replica dies or a pass runs into its timeout, and the next pass starts anew; when only
\* the scheduling fails, the dispatch follows all the same.
PassEnds(b, onward) ==
    /\ loop[b].pc \in (IF onward THEN {"look", "enqueue"} ELSE {"look", "enqueue", "read", "send", "record"})
    /\ faults < FaultBound
    /\ faults' = faults + 1
    /\ Loops(b, IF onward THEN [Asleep EXCEPT !.pc = "read"] ELSE Asleep)
    /\ UNCHANGED <<notice, enabled, queue>>

-----------------------------------------------------------------------------
\* putSetting on notification.adapters
SwitchAdapter(a) ==
    /\ enabled' = IF a \in enabled THEN enabled \ {a} ELSE enabled \cup {a}
    /\ UNCHANGED <<notice, queue, loop, faults>>

NoticesInit ==
    /\ notice = {}
    /\ enabled = Adapters
    /\ queue = <<>>
    /\ loop = [b \in Replicas |-> Asleep]
    /\ faults = 0

\* One step of a pass.
Pass(b) == \/ \E due \in SUBSET Events : Schedule(b, due)
           \/ \E a \in Adapters : LookForDeliveries(b, a)
           \/ Enqueue(b) \/ ReadBatch(b) \/ Send(b)
           \/ \E ok \in BOOLEAN : Record(b, ok)

NoticesNext ==
    \/ \E b \in Replicas : Pass(b) \/ \E onward \in BOOLEAN : PassEnds(b, onward)
    \/ \E a \in Switched : SwitchAdapter(a)

\* The ticker of a replica that lives goes on, and so does a pass.
NoticesSpec == NoticesInit /\ [][NoticesNext]_noticeVars /\ \A b \in Replicas : WF_noticeVars(Pass(b))

-----------------------------------------------------------------------------
\* Nobody is written to for ever: a delivery is tried five times, and once more for each
\* further replica, as long as its UPDATEs go through (dispatchNotifications).
TriesBounded ==
    \A i \in DOMAIN queue : queue[i].attempts <= MaxAttempts + Cardinality(Replicas) - 1

\* Delivered, or tried often enough.
Settled(e, a) ==
    \E i \in DOMAIN queue : /\ queue[i].event = e /\ queue[i].adapter = a
                            /\ queue[i].status = "delivered" \/ queue[i].attempts >= MaxAttempts

\* Nothing starves: with an adapter that is on for good every notification is delivered to
\* it in the end, or given up, whatever else fills the batch before it (dispatchNotifications:
\* "fifty of them at the head of the queue starved every notification behind them").
NothingStarves ==
    \A e \in Events, a \in Adapters : (<>[](a \in enabled)) => [](e \in notice => <>Settled(e, a))
=============================================================================
