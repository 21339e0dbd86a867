---------------------------- MODULE PolicyReports ---------------------------
(***************************************************************************)
(* Visit tracking of Vendra: the origins that browsers report as blocked,  *)
(* kept in a bounded table of one server, and the allow list of the        *)
(* setting, which a click extends with a read and a write of all of it.    *)
(***************************************************************************)
EXTENDS Naturals, FiniteSets

CONSTANTS Blocked,      \* directive and origin of a report
          MaxViolations,
          Moments,      \* moments of the clock (bound)
          Clicks,       \* requests of allowTrackingHost in flight (bound)
          Snippets,     \* what else the setting holds
          Fresh         \* the snippet of tracking.Default

ASSUME ReportsAssumption == MaxViolations \in Nat \ {0} /\ Moments \in Nat /\ Fresh \in Snippets

VARIABLES violations,   \* the table: last and first moment of each entry; 0 when there is none
          moment,       \* time.Now of the server
          everSeen,     \* ghost: last report of each origin since the table was cleared
          tracking,     \* the setting: its snippet and allowed hosts
          click

reportVars == <<violations, moment, everSeen, tracking, click>>

Nowhere == [last |-> 0, first |-> 0]
NotClicked == [pc |-> "idle", host |-> Fresh, config |-> [snippet |-> Fresh, hosts |-> {}]]

Kept == {k \in Blocked : violations[k] # Nowhere}

\* Mutant: the entry that is there longest goes.
Evicted_First(k) == k \in Kept /\ \A j \in Kept : violations[k].first <= violations[j].first

\* evictOldest: of several as old, the first in the order of the map.
Evicted(k) == k \in Kept /\ \A j \in Kept : violations[k].last <= violations[j].last

-----------------------------------------------------------------------------
\* Record, under the mutex
Report(k) ==
    /\ IF k \in Kept THEN violations' = [violations EXCEPT ![k].last = moment]
       ELSE IF Cardinality(Kept) < MaxViolations
            THEN violations' = [violations EXCEPT ![k] = [last |-> moment, first |-> moment]]
            ELSE \E old \in Blocked :
                   /\ Evicted(old)
                   /\ violations' = [violations EXCEPT ![old] = Nowhere, ![k] = [last |-> moment, first |-> moment]]
    /\ everSeen' = [everSeen EXCEPT ![k] = moment]
    /\ UNCHANGED <<moment, tracking, click>>

Forget ==
    /\ violations' = [k \in Blocked |-> Nowhere]
    /\ everSeen' = [k \in Blocked |-> 0]
    /\ UNCHANGED <<moment, tracking, click>>

MomentPasses ==
    /\ moment < Moments
    /\ moment' = moment + 1
    /\ UNCHANGED <<violations, everSeen, tracking, click>>

\* Any failure of trackingConfig reads as the default configuration.
ReadConfig(found) == IF found THEN tracking ELSE [snippet |-> Fresh, hosts |-> {}]

\* allowTrackingHost reads the setting ...
AllowRead(r, k, found) ==
    /\ click[r].pc = "idle"
    /\ click' = [click EXCEPT ![r] = [pc |-> "write", host |-> k, config |-> ReadConfig(found)]]
    /\ UNCHANGED <<violations, moment, everSeen, tracking>>

\* ... and stores all of it, with one host more, unless the statement fails.
AllowWrite(r, stored) ==
    LET q == click[r] IN
    /\ q.pc = "write"
    /\ tracking' = IF stored THEN [q.config EXCEPT !.hosts = @ \cup {q.host}] ELSE tracking
    /\ click' = [click EXCEPT ![r] = NotClicked]
    /\ UNCHANGED <<violations, moment, everSeen>>

\* putSetting on the tracking setting
SaveTracking(snippet, hosts) ==
    /\ tracking' = [snippet |-> snippet, hosts |-> hosts]
    /\ UNCHANGED <<violations, moment, everSeen, click>>

ReportsInit ==
    /\ violations = [k \in Blocked |-> Nowhere]
    /\ everSeen = [k \in Blocked |-> 0]
    /\ moment = 1
    /\ tracking = [snippet |-> Fresh, hosts |-> {}]
    /\ click = [r \in Clicks |-> NotClicked]

ReportStep == (\E k \in Blocked : Report(k)) \/ Forget \/ MomentPasses

TrackingStep ==
    \/ \E r \in Clicks, k \in Blocked, found \in BOOLEAN : AllowRead(r, k, found)
    \/ \E r \in Clicks, stored \in BOOLEAN : AllowWrite(r, stored)
    \/ \E snippet \in Snippets, hosts \in SUBSET Blocked : SaveTracking(snippet, hosts)

ReportsNext == ReportStep \/ TrackingStep

ReportsSpec == ReportsInit /\ [][ReportsNext]_reportVars

-----------------------------------------------------------------------------
\* The table holds as many origins as fit, the ones that were blocked last: none that was
\* dropped has been reported since one that was kept (Recorder.Record, evictOldest).
LatestKept ==
    /\ Cardinality(Kept) <= MaxViolations
    /\ \A j \in Blocked \ Kept : everSeen[j] > 0 =>
          Cardinality(Kept) = MaxViolations /\ \A k \in Kept : everSeen[j] <= violations[k].last

\* What the guide says of the button: it adds the origin to the allow list (ADMIN_GUIDE,
\* "그 출처가 허용 목록에 더해집니다"; AddAllowedHost: "leaving the existing entries alone").
AllowAddsOne ==
    [][\A r \in Clicks : AllowWrite(r, TRUE) =>
          /\ tracking.hosts \subseteq tracking'.hosts
          /\ tracking'.snippet = tracking.snippet]_reportVars
=============================================================================
