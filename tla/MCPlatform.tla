------------------------------ MODULE MCPlatform -----------------------------
(***************************************************************************)
(* Model checking what runs beside the business of Vendra: the background  *)
(* loop of notifications, the schema migrations, the tracking reports, the *)
(* budget of the language model and the work inbox.  They are checked side *)
(* by side: a behaviour is one of the component it picks at first, and the *)
(* others rest.                                                            *)
(***************************************************************************)
EXTENDS Notifications, Migrate, PolicyReports, AiBudget, WorkInbox

CONSTANT Components  \* those to check

\* Two records of one query that has room for one.
MCReadBy == [t \in Tasks |-> "objects"]
MCLimit == [q \in Queries |-> 1]

VARIABLE component

MCVars == <<noticeVars, migrateVars, reportVars, aiVars, inboxVars, component>>

MCInit ==
    /\ component \in Components
    /\ NoticesInit /\ MigrateInit /\ ReportsInit /\ AiInit /\ InboxInit
    \* What the others start from makes no difference.
    /\ component # "budget" => cap = CHOOSE n \in Caps : TRUE
    /\ component # "inbox" => taskDate = [x \in Tasks |-> CHOOSE d \in Dates : TRUE]

InNotices(Step) == component = "notices" /\ Step /\ UNCHANGED <<migrateVars, reportVars, aiVars, inboxVars, component>>
InMigrate(Step) == component = "migrate" /\ Step /\ UNCHANGED <<noticeVars, reportVars, aiVars, inboxVars, component>>
InReports(name, Step) == component = name /\ Step /\ UNCHANGED <<noticeVars, migrateVars, aiVars, inboxVars, component>>

\* The recorder and the setting share nothing either.
MCNext ==
    \/ InNotices(NoticesNext)
    \/ InMigrate(MigrateNext)
    \/ InReports("recorder", ReportStep)
    \/ InReports("tracking", TrackingStep)
    \/ component = "budget" /\ AiNext /\ UNCHANGED <<noticeVars, migrateVars, reportVars, inboxVars, component>>
    \/ component = "inbox" /\ InboxNext /\ UNCHANGED <<noticeVars, migrateVars, reportVars, aiVars, component>>

\* The fairness of NoticesSpec and of MigrateSpec.
MCSpec ==
    /\ MCInit /\ [][MCNext]_MCVars
    /\ \A b \in Replicas : WF_MCVars(InNotices(Pass(b)))
    /\ \A s \in Servers : WF_MCVars(InMigrate(StartStep(s)))

\* ServersStart, where servers start: every one comes up, on the whole schema.
EveryServerStarts == component = "migrate" => ServersStart
=============================================================================
