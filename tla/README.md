# Vendra: a verification project

Vendra is a supplier-relationship-management server: a Go HTTP API
(`src/internal/httpapi`) over PostgreSQL, a React client, and a background loop
in every replica. All shared state is in the database; the handlers are
stateless and any number of replicas runs them, so what is hard here is what
happens between two SQL statements of one handler when another handler runs
there, or when a statement fails there.

This directory holds TLA+ models of that behaviour, the TLC configurations that
check them and the proofs TLAPS checks.

    tlc -workers 2 -config MCApproval_race.cfg MCApproval
    tlc -workers 2 -config MCRegister_records.cfg MCRegister
    tlapm RegisterProofs.tla

`PROJECT.json` lists, for every definition that models code, the lines it
models; for every property the mutant of the model that breaks it; and the
places of the code (hazards) the properties were written for.

The convention is the same in every module. Tables are variables. A handler is
a record that carries the program counter and the Go locals that later statements
use, and one action is one SQL statement with the checks up to the next one; a
transaction is one action where its row locks or its snapshot make it one, and
several where another handler can be seen between its statements. Statements
fail and replicas die. Definitions named `X_Something` are the mutants of `X`:
bugs that the code does not have.

## 1. Inventory

| Component | State | Operations | What is hard | Module |
|---|---|---|---|---|
| Approval workflow (`workflows.go`, migrations 009, 010) | `workflow_definitions`, `workflow_instances`, `workflow_actions` | createWorkflow, updateWorkflow, workflowAction | two approvers at once; rules edited under approvals in flight; a transaction that dies | `Approval` |
| Business objects (`objects.go`) | `business_objects` | createObject, updateObject, submitObject | a submission is six statements and no transaction; updates are read-then-write | `Approval`, `DataScope` |
| Supplier register, bank changes (`suppliers.go`) | `suppliers`, an object and an instance per change | createSupplier, updateSupplier, the bank branch of workflowAction | two statements open a change; two settings read one after the other; several changes of one supplier | `SupplierRegister` |
| Screenings (`screenings.go`) | `screening_templates`, `supplier_screenings`, the supplier's status | createScreeningTemplate, createScreening, updateScreening | read-then-write of a verdict; bounds and scores at their limits | `Screening` |
| Portal, invitations, verification (`portal.go`) | `invitations`, portal users, `supplier_contacts`, `email_verifications` | createInvitation, revokeInvitation, registerSupplierUser, request and use of a link | single use against recall and expiry; links that age | `Portal` |
| Risks, evaluations, spend (`analytics.go`) | three tables and the figures cached on the supplier | createRisk, createEvaluation, createSpendTransaction | the second statement is lost or meets another one | `Rollups` |
| Documents, signatures (`documents.go`) | rows, files on disk, signatures | uploadDocument, signDocument | file and row are not one; version numbers; a commit whose answer is lost | `Documents` |
| Sourcing (`sourcing.go`) | `sourcing_participants`, `_responses`, `_selections` | invite, respond, decline, select | late saves against decline and award; standings read before the transaction that uses them | `Sourcing` |
| Committee and scores (`sourcing.go`) | `sourcing_evaluations`, `final_score` | addSourcingCommittee, evaluateSourcingResponse, sourcingComparison, recalculateSourcing | scores computed from a snapshot, errors dropped | `BidScores` |
| Login protection (`loginguard.go`, `maintenance.go`) | `login_attempts` | login, recordLoginAttempt, purgeExpired | check-then-act lockout; a sweep over what it counts | `LoginGuard` |
| Sessions and passwords (`auth.go`, `sessions.go`, `passwordapi.go`) | `sessions`, `users.password_hash` | login, logout, changeMyPassword, resetUserPassword, revokeSessions | a login in flight across a password change | `AccountSessions` |
| Single sign-on, OAuth (`oidc.go`, `mcpoauth.go`) | subjects on accounts, the flow cookie | oidcStart, oidcCallback, fromOAuthToken | lookup, provisioning and linking in statements of their own | `SingleSignOn`, `Credentials` |
| API keys, roles (`admin.go`, `auth.go`) | `api_keys`, `roles`, `user_roles` | createAPIKey, rotateAPIKey, revokeAPIKey, createRole, updateRole | two rotations, a rotation against a revocation; lists of words narrowed twice | `Credentials` |
| Data scope (`context.go`, migration 005, `rows.go`) | `organizations`, users' organisations and roles | every list and every single record | one rule written three times | `DataScope` |
| Delegations (`context.go`, `admin.go`) | `access_grants` | createAccessGrant, deleteAccessGrant, require | a delegation that opens a route must not open the scope behind it | `Delegations` |
| Notifications (`notifications.go`) | `notifications`, `notification_deliveries` | scheduleNotifications, dispatchNotifications, hourly in every replica | several replicas without a row lock, at-least-once delivery, a batch that fills up | `Notifications` |
| Migrations (`db.go`) | `schema_migrations`, an advisory lock | Migrate | replicas that start together; a crash between two files; a lock that is lost | `Migrate` |
| Tracking (`tracking/`, `tracking.go`) | the recorder's bounded table, the setting | Record, Forget, allowTrackingHost | eviction at the limit; a setting rewritten as a whole | `PolicyReports` |
| AI analysis (`integrations.go`) | the audit log read back as a counter, the contract's mark | aiAnalyze, aiAnalyzeContract | count, call, then record; the mark against an update | `AiBudget` |
| Work inbox (`productivity.go`) | `user_work_item_states` | workInbox, updateWorkItemState | what was put away comes back with another date | `WorkInbox` |
| Settings (`admin.go`) | `settings` | putSetting | policies switched while requests they govern are in flight | in each module that reads one |
| Connection pool, log store, metrics, vault, plumbing, web client | none shared between requests, or the library's | - | - | section 9 |

How they interact. Handlers call each other's helpers in one process but
interact only through tables: `submitObject` reads the rules that
`createWorkflow`/`updateWorkflow` write and the settings `putSetting` writes;
`workflowAction` reads the instances `submitObject` inserted and writes the
object's status back; `updateSupplier` opens the same kind of instances;
screenings move the status of the company the register keeps, and redeeming an
invitation puts a company on file there (`Screening` and `Portal` extend
`SupplierRegister` and share its tables); `portalConfirmPurchaseOrder` reads what
the workflow approved; the login guard counts rows that the sweep deletes;
notifications, the inbox and the rollups read what the others write.

What makes each component correct, in short:

- *Approval*: one approval in flight for an object; every step decided once, in
  order, by somebody it was routed to; nothing approved without that; nobody
  decides their own request while the policy forbids it; every request answered.
- *Register*: the account in use is the one registered or one that was approved,
  as long as approval is asked for; a change and its approval agree.
- *Screening, rollups, scores*: a cached verdict, figure or score is what the
  rows give, once whoever computed it was alone.
- *Portal, documents*: an invitation ends once; versions are counted without
  gaps; what is listed can be opened.
- *Sourcing*: the standings of the bidders say what the selections say; bidders
  never write over the committee; bids come to rest.
- *Access*: the failures let through are bounded by the limit plus those in
  flight; sessions end with their password; no credential opens more than its
  holder's roles; lists and single records agree; only a delegation of the very
  record reaches past the data scope.
- *Background*: attempts are bounded and nothing starves; every migration runs
  once, in order, and every server comes up; limits hold.

## 2. Plan

Done: `Approval` with `ApprovalCase`, `Sourcing` with `Standings`, and the three
groups that are checked by one sum module each - what is written about suppliers
(`MCRegister`), who gets in and how far (`MCAccess`), and what runs beside the
business (`MCPlatform`) - with the proofs of section 7. Every
safety invariant and every action property of a passing run has a theorem.

Left, in this order:

1. Abstract specifications, with their refinements proved, of the components that
   are stated by invariants only so far: deliveries (from due to settled, once) and
   the life of an invitation.
2. The bank branch of `workflowAction` composed with the steps of `Approval`, of
   which `SupplierRegister` takes the decision as one transaction.
3. Saved views and form drafts (the limit that evicts the oldest), questions and
   answers of a tender, lifecycle states.

## 3. Approval

### State and steps

The tables are variables; a handler is a record in `req[r]` that carries the
program counter and the Go locals that later statements use. One action is one
SQL statement with the checks up to the next one. Reads whose results are used
only before the next statement of the handler are part of that statement.

| Model | Code |
|---|---|
| `status`, `amount` | `business_objects.status`; `amount` stands for every field a rule's conditions look at |
| `def` | `workflow_definitions`; `matches` is the set of amounts that satisfy the conditions, `version` is incremented by each edit |
| `inst`, `trail` | `workflow_instances` with the steps copied into `context`; its `workflow_actions` |
| `lock` | the row lock of `SELECT ... FOR UPDATE OF i` |
| `approvalOn`, `blockSelf` | the settings `workflow.approval_enabled` and `workflow.separation_of_duties` |
| `SubmitRead` ... `SubmitMark`, `SubmitCleanup` | the statements of `submitObject`, in order: object, setting, pending check, rule, INSERT, UPDATE, compensating DELETE |
| `ActionBegin`, `ActionLock`, `ActionCommit` | `workflowAction`: its transaction up to and including the lock and the checks, then its writes, visible together |
| `ReadObject`/`WriteObject`, `ReadWorkflow`/`WriteWorkflow` | the two statements of `updateObject` and `updateWorkflow` |
| `CreateObject`, `CreateWorkflow`, `SetApproval`, `SetBlockSelf`, `ConfirmOrder` | handlers with one statement |
| `StatementFails` | the next statement returns an error: `pendingApproval` reads that as "none", the mark leads to the cleanup, everything else ends the request and rolls its transaction back |
| `Crash` | the replica dies; the handler is gone and its transaction is rolled back |

`SubmitCheck` and `UniquePending` are both there because the code has both: the
check is a fast path, the partial unique index of migration 010 the guarantee.

### What is abstracted

- Roles, permissions and data scopes are constants (`Holds`, `Superusers`,
  `Sees`): changing them while requests are in flight is not modelled here, but
  in `Credentials` and `DataScope`.
- The policy read of `separationOfDuties` and the role read happen in the step
  that takes the row lock. Nothing they depend on but `blockSelf` varies, and a
  switch of `blockSelf` before or after that single read is the same as one
  before or after the step.
- `updated_at`, which orders rules of equal version, is a free choice.
- An instance written before its steps were copied into `context` cannot arise;
  the fallback to the live rule is in `InstanceSteps` but not reachable.
- Objects are of one routed type. Deletion of objects, grants, the audit row
  and the notification that follow a decision are out; the bank branch at the
  end of `workflowAction` is in `SupplierRegister`.
- A COMMIT takes effect or does not; a COMMIT whose answer is lost is the first
  case, followed by a request that ends.

### Runs

| Run | Question | Bounds |
|---|---|---|
| `race` | Do racing submissions and decisions keep to one approval, decided in order by those entitled, under failing statements and crashes? And is every one an `ApprovalCase`? | 1 object, 2 instances, 2 handlers, 2 users, a two-step rule and one that is off |
| `rules` | Do approvals in flight survive edits of their rule, and is separation of duties kept while the settings are switched? | 1 instance, 3 users (one out of scope, one superuser), 3 edits, version <= 2 |
| `bypass` | Can any mixture of writes make an object read approved without approval? | 2 amounts, 2 rules, creates, updates, confirmations, claims of every status |
| `live` | Is every request answered? | 3 handlers on one instance, failures and crashes |
| `overtaken`, `disconnect` | Two statements of comments that the code does not keep (section 6) | 1 object, 2 handlers |

Why these bounds are enough to be interesting: two handlers are what every race
of this code needs (each is of a check against one write of another handler);
two instances let an object be submitted again after its first approval was
settled, returned or withdrawn; a route of two steps has a first, a last and a
"next" step; a rule edited once can be shorter than, or route elsewhere than,
the one an approval was opened with; `live` has three handlers so that two wait
for one lock. The proofs remove the bounds for everything but liveness.
`Requests`, `Instances` (with `RowLeft`) and `MaxVersion` are the bounds; they
are named where they occur in `Approval.tla`.

Every passing property has a mutant of the model in `PROJECT.json`, and TLC finds
it violated there; here they are: no unique index, no row lock, no check for settled requests,
live rules instead of copied steps, a policy for approvals only, statuses not
refused, a compensating DELETE without `status='pending'`, no rollback, the
object's status written to the instance.

### Fairness

`RequestsEnd` assumes, for each handler, weak fairness of its next statement
(the Go scheduler and the database run what can run) and strong fairness of the
two statements that wait for a row lock: PostgreSQL queues the waiters of a row,
so one that the lock becomes free for again and again is granted it. Nothing is
assumed of clients, faults or administrators. A handler is taken to have a
connection when it wants one; an exhausted pool is not modelled (section 9).

## 4. Sourcing

One tender: the suppliers invited to it, their bids, and the committee's
selections. `Standings` says what a bidder is promised about where it stands;
`Sourcing` is the handlers.

| Model | Code |
|---|---|
| `tender`, `past` | `business_objects.status` of the RFQ or RFP; whether its `due_date` is behind the business day (`deadlinePassed`) |
| `part`, `bid` | `sourcing_participants.status`; `sourcing_responses`, where `amount` stands for everything a bid offers |
| `sel`, `latest` | `sourcing_selections`, one row for each type; the type committed last |
| `EditTender` | `updateObject` on the tender: a status or none, and a due date that moves either way |
| `InviteRead`, `InviteCommit` | `addSourcingParticipants`: its checks, then its transaction |
| `SaveRead`, `SaveBid`, `SaveReceipt` | `portalSourcingResponse`: the participant row and all refusals, the upsert of the response, the read receipt |
| `Decline` | `portalDeclineSourcing`, one guarded UPDATE |
| `SelectRead`, `SelectCommit` | `selectSourcingResponse`: the status of the response, then its transaction |
| `Fail` | the next statement fails or the replica dies |

Abstracted: the transaction of a selection is one step, because two of them queue
for the row of the tender before either touches a standing, and no other handler
reads what it writes before that row. `updateObject` reads the whole `data` column of
a tender and later writes it back (`objects.go:415`, `objects.go:438`), so it may
put an older `selectedSupplierId` or `selectionType` there; no handler decides on
these copies, and they are left out: `latest` is a ghost, the type that the last
transaction selected. The same handler's receipt may fail and is
only logged, which is the end of the request here. A tender's own approval
writes only its status, which no guard here reads; it is in `Approval`. Scores,
evaluations and the committee's membership are in `BidScores`; questions and
currencies are not modelled. Several requests of one supplier run at once (it may have several users).

| Run | Question | Bounds |
|---|---|---|
| `bids` | Do the standings agree with the selections and keep bidders and committee apart, and do bids come to rest? | 2 bidders, 2 requests, due dates that move, failures |

Two bidders are a winner and a loser; two requests are two selections, or a
selection and a save, or two saves, and a decline is one statement. The bounds
are `Requests` and `Amounts`; the proofs do without them.

Fairness, for `BidsSettle` only: each handler takes its next statement if it can.
No handler of this component waits for another except inside one step. Nothing is
assumed of clients, the calendar or the committee: the deadline may be moved for
ever, and then the property promises nothing.

## 5. The other components

Seventeen smaller modules, and one abstract specification, in three groups. A group is checked by one sum module:
a behaviour picks a component in its first state (`component`) and takes the
steps of that component only, so the states of a group add up and do not
multiply. Components that share tables are not put side by side but extend each
other: `Screening` and `Portal` extend `SupplierRegister` and write its
`supplier`. In a sum module their own behaviours start with a company on file and
leave the rest of the register alone; the theorems of section 7 about the portal
are of `PortalSpec`, where the whole register runs beside it.

Several properties hold only with an exemption, because the code does not promise
more: what a failing second statement leaves behind, for example. Each exemption
is a ghost variable or field that exactly the step in question sets; the tables
below name them, since they say as much about the code as the property does.

### Suppliers and their records (`MCRegister`)

| Module | Model | Code |
|---|---|---|
| `SupplierRegister` | `RegisterRead`, `RegisterInsert` | `createSupplier`: the search for a similar name, then the INSERT under the unique number |
| | `UpdateRead`, `ReadEnabled`, `ReadBankApproval`, `ReadBankRule`, `OpenChange`, `OpenInstance`, `UpdateWrite` | the statements of `updateSupplier`: row, two settings, rule, the object of the change, its instance, the row |
| | `DecideChange` | the bank branch of `workflowAction`, one transaction (its steps, lock and approvers are in `Approval`) |
| `Screening` | `SaveScreening`, `LookForPaper`, `CommitScreening` | `updateScreening`: the row and the scores, one query per required document, the transaction |
| | `Decide`, `Points`, `Clamped`, `StatusFor` | `decide`, `calculateScreening`, and the status `updateScreening` derives |
| `Portal` | `RecallRead`, `RecallWrite`; `RedeemLock`, `RedeemCommit` | `revokeInvitation`; `registerSupplierUser` with its row lock |
| | `AskVerification`, `VerifyEmail`, `EmailVerified` | the three handlers of a verification link, and what `portalContacts` shows |
| `Rollups` | one action for the row, one or two for the figure | `createRisk`, `createEvaluation`, `createSpendTransaction` |
| `Documents` | `WriteFile`, `LockHistory`, `InsertDocument`, `CommitDocument` | `uploadDocument`: file, advisory lock, INSERT with `max(version)+1`, COMMIT |
| | `SignRead`, `SignCommit` | `signDocument` |
| `BidScores` | `ReadWeights`, `ReadBase`, `WriteScores` | `recalculateSourcing`: setting, snapshot, UPDATE |
| | `SaveRow`, `CheckEvaluator`, `SaveMark`, `Compare`, `ShowRows` | its callers: a submitted bid, an evaluation, a comparison |

Abstracted: names, addresses and document contents are members of small sets; of
a supplier's columns the number, the status and the account (the others are
written the same way as these). Points and averages are integers: hundredths in
`Screening` and `Rollups`, an average is a pair there, and `BidScores` divides
rounding down, where the code divides in floating point. The score that `Rollups`
stores is the average rounded half up to hundredths, as `numeric(7,2)` does, and the grade
is chosen by the average before it is rounded. `ComparisonRanks` allows
ties, so the rounding cannot decide it. Failed statements are in every module.

| Property | What it says | Exemption, or what it does not promise |
|---|---|---|
| `ChangesAgree` | What is in an inbox is a bank change that says it waits; what was decided is what the change reads | a change object without an instance, left when the second statement fails, waits for ever and is in no inbox; nothing approves it |
| `BankGuarded` | With both settings on throughout, an account in use is the registered one or one of an approved change | - |
| `VerdictsEarned` | A verdict follows from what the row itself holds: no required item without an answer, and the answered items of positive weight together worth the threshold | templates whose own failure result passes |
| `OneEnding` | No invitation is both used and recalled | - |
| `VerifiedStays` | A verified address stays verified | - |
| `LevelCovers` | The cached level is at least that of every risk | the UPDATE was lost, or a hand wrote the level (`missed`) |
| `RecomputedExactly` | Score (rounded), grade (of the average as it is) and spend are what the rows give once the last to write was alone | a meeting of two requests, a lost statement, a hand, the calendar (`missed`, `alone`), until the next write |
| `VersionsInOrder` | Versions are 1, 2, 3 and so on without a gap, and each once among the uploads that spell the supplier's id alike | two spellings of one id may get the same version: the lock is taken on the text of the id, the rows compare it as a uuid (section 6); documents without a supplier are all version 1 (`Homeless`) |
| `FilesThere` | A listed document has its file | the answer to its COMMIT was lost, and the handler removed the file (`unknown`) |
| `ComparisonRanks` | A comparison nobody disturbed ranks the bids by what they offer | a save, a mark or other weights between its reads and its writes (`clean`) |

Run `records`: 1 company, 1 number, 1 new account and 1 bank change by 2 requests
with every value of both settings; a screening saved by 2 requests under 3
templates (without thresholds, with a required item, with a required document); 1
invitation, 2 requests, 2 links; 2 records by 2 requests, with weights whose averages lie
just below a bound of the grades and are shown on it; 3 uploads of 2
histories, one of them without a supplier, by 2 requests that spell the other's id in 2 ways; 2 bids, 2 requests and 3
saves. Two requests are what each race here needs, and everything a third could
meet is already met by a second: the guards look at rows, not at how many wrote
them. Two bank changes of one supplier, more companies and more links, longer
histories, any weights and any number of items, rows, bids and judges are in the
theorems.

### Who gets in, and how far (`MCAccess`)

| Module | Model | Code |
|---|---|---|
| `LoginGuard` | the statements of `login` before the password: `recentFailures` by name and by address, `retryAfter`; then `recordLoginAttempt` | `loginguard.go`, `auth.go` |
| | `PurgeAttempts` | `purgeExpired` on `login_attempts` |
| `AccountSessions` | `LookUp`, `OpenSession` | `login` from the hash on |
| | `ChangeRead`, `ResetRead`, `WritePassword`, `RevokeSessions` | `changeMyPassword`, `resetUserPassword`, `revokeSessions` |
| `SingleSignOn` | `StartFlow`, `Callback`, `FindBySubject`, `FindByMail`, `Provision`, `LinkSubject`, `OpenSsoSession` | `oidcStart`, `oidcCallback` |
| | `WebAccount`, `TokenAccount` | which account a sign-in and an access token (`fromOAuthToken`) lead to |
| `Credentials` | `Matches`, `Narrowed`, `KeyWords`, `TokenWords` | `permissionMatches`, `intersectPermissions`, `limitToRolePermissions`, `fromOAuthToken` |
| | `IssueKey`, `RotateRead`, `RotateCommit`, `RevokeKey` | `createAPIKey`, `rotateAPIKey`, `revokeAPIKey` |
| `DataScope` | `OrgInScope`; `ListedOrg`; `CanAccess` | the one rule as a database function, as a condition written out in lists, and as checks of a single record |
| | `CreateOrganization`, `UpdateStaff`, `CreateAsset` | `createOrganization`, `updateUser`, `createObject` with `objectScopeAllowed` |
| `Delegations` | `Enter`, `Gate`, `OpenRecord` | `fromSession`, `require` with `hasGrantPermission`, the handlers of single records |

Abstracted: the password hash and its comparison, tokens and their signatures,
the provider (it answers with any claims). A permission word is the sequence of
its segments, so `supplier.*` is `<<"supplier", "*">>`. Of the conditions a delegation may
have on a request, the method is modelled; those on the path, the caller and the
query narrow it in the same way. A record that a delegation opened for an update may also be
attached to another organisation or supplier by it (`objects.go:169`), which is not
modelled. No operation moves an organisation in the tree, and
none of the modules has one.

| Property | What it says | Exemption, or what it does not promise |
|---|---|---|
| `FailuresBounded` | The failures let through in a window are at most the limit plus, for each lockout that fits into it, the logins in flight together | a count or a record failed, which lets logins pass, or a failed read of the setting put other limits in place of the configured ones (`blind`) |
| `SweepHarmless` | The retention sweep changes no count that a lockout rests on, under the configured guard or the one that replaces it when the setting cannot be read | - |
| `SessionsEnd` | No session outlives the password it was opened with | opened by a login that had compared before the change (`late`); the one a change was made with (`spared`); the revocation failed and the change was answered as made (`unrevoked`) |
| `AddressShown` | An account is opened only for someone who has shown its address on the provider's word | a user name stands in for a missing address and is vouched for by the same claim (`oidc.go:252`; the status of the account is not looked at when the session is opened, but by every request of it) |
| `WithinRoles` | No key and no token opens a door its holder's roles do not open today; while the roles cannot be read, a key opens none that they did not when it was issued (`lent`), and a token none beyond its configuration and its claims | roles, lent words and claims with a wildcard at both ends (`OneEnded`): `*.*` is accepted and grants the word `*.read`, which opens more than it does itself (section 6) |
| `HandedOn` | A rotation hands on scopes and expiry, and the old key is dead | a rotation that races a revocation still hands on: the successor lives |
| `ListsAgree` | A record is listed exactly for those who may open it | - |
| `AuthorSees` | Nobody files a record of their own where they cannot see it | authors without an organisation |
| `RecordNamed` | Past the data scope only by a delegation whose words cover the action and which names that record | what the record is then attached to |

| Run | Question | Bounds |
|---|---|---|
| `access` | Who gets in, how far do they see, and does a credential ever open more than its holder's roles? | 2 names from 1 address and 2 logins over 4 instants; 1 user with 2 passwords, 2 sessions, 2 requests; 2 accounts, 2 subjects, 2 addresses and 1 callback; 2 users, a tree of 3 organisations, 1 record and 5 sets of scopes; 3 records of 2 types under 5 kinds of delegation, with wildcards in either half of the word and a record without a type; 5 doors and 5 lists of words with a wildcard in front, behind, at both ends and in neither place, 2 keys over 2 days |
| `account` | A statement of a comment that the code does not keep (section 6) | 2 accounts, 2 subjects, 2 addresses |

In `access` a sign-in races account creation, switching and the linking of an
earlier one; the limits 1 and 2 of the guard are reached by the second and third
attempt, a limit is cut by its maximum, and the limits in place when the setting cannot be
read differ from the configured ones; a tree of three has a parent, a child and a stranger, or a grandchild.
The theorems do without the bounds.

### What runs beside the business (`MCPlatform`)

| Module | Model | Code |
|---|---|---|
| `Notifications` | `Schedule`, `LookForDeliveries`, `Enqueue` (one INSERT for each adapter), `ReadBatch`, `Send`, `Record` | `scheduleNotifications`, `dispatchNotifications`, `deliverNotification`, in every replica |
| `SchemaUpgrade` | what the migrations promise, with no lock and no failure; `Migrate` implements it | |
| `Migrate` | `TakeLock`, `LookAtFile`, `ApplyFile`, `Unlock`; `LockLost`, `MigrationFails`, `ServerDies` | `db.Migrate`; the faults |
| `PolicyReports` | `Report`, `Forget`; `AllowRead`, `AllowWrite` | `tracking.Recorder`; `allowTrackingHost` |
| `AiBudget` | `LoadAi`, `CheckBudget`, `DispatchCall`, `SaveAnalysis`, `MarkContract` | `loadAI`, `withinAIBudget`, `recordAICall`, `aiAnalyzeContract` |
| | `EditRead`, `EditWrite` | `updateObject` on the contract |
| `WorkInbox` | `Found`, `Answers`, `Shown` | `workInbox`: what each query finds, what it answers within its `LIMIT`, and what is left without the items put away |
| | `KeyOf`, `PutAway` | `datedWorkKey`, `updateWorkItemState` |

Abstracted: messages and prompts; the batch of 50 is a batch of 1, the window of
an hour is two half hours, `maxViolations` is 2.

| Property | What it says | Exemption, or what it does not promise |
|---|---|---|
| `TriesBounded` | Five attempts, and one more for each further replica | attempts whose UPDATE failed are not counted by the code |
| `NothingStarves` | With an adapter that stays on, every notification is delivered or given up | faults are finitely many |
| `ImplementsUpgrade` | The files are applied one after the other, each once and none taken back, also when a server loses its lock, and a server serves on the whole schema only (`SchemaUpgrade`, with `applied <- schema` and the servers that are up as `serving`) | - |
| `EveryServerStarts` | Every server comes up, on the whole schema | faults are finitely many |
| `LatestKept` | The table holds the origins blocked last | - |
| `SpendingBounded` | Calls in an hour are at most the limit, one more per request in flight together, and those the log missed | `unnoted` |
| `ReviewMarked` | A contract whose analysis demands a lawyer says so; a reply that is no object demands one, but for JSON `null` (`integrations.go:330`) | the mark failed, or an update that read before it wrote after it (`dropped`) |
| `NewDateShown` | A date of a record that was never put away is in the inbox | as many others as the query reads are due no later, put away or not: each `LIMIT` comes before what was put away is left out (section 6); approvals: the key has no step, so an approval put away at one step stays away at the next |

Run `background`: 1 event, 2 adapters (one that never accepts a message and one
that is switched), 2 replicas, 2 attempts, a batch of 1 and 1 fault; 2 servers, 2
files, 3 faults; 3 origins in a table of 2; 2 requests under a limit of 0 or 1; 2
records of two dates, 1 approval and 1 notification, with a `LIMIT` of 1 on every query (in
the code 300, 200 and 100) and 2 items put away in one call (100). A batch of 1 is the
hard case of `NothingStarves`: the broken adapter's delivery fills it. A server
that loses its lock to another and then dies is three faults.

Fairness, for the two liveness properties: weak fairness of the passes of each
replica (`Pass`: the ticker fires, and a pass goes on or is ended by its timeout)
and of the start of each server (`StartStep`: the orchestrator starts what is
down, and PostgreSQL hands a free advisory lock to a waiter). Nothing is assumed
of administrators, of faults, or of an adapter's answers.

## 6. What the runs found

Four passages of the source or the guide describe what the code does not do; each
has a run that shows it.

- `overtaken` (`objects.go:523`). "workflowAction settles it" (`objects.go:198`):
  the instance can be found and decided before the submission's last UPDATE, which
  then overwrites the outcome; the object reads `pending_approval` and nothing is
  pending.
- `disconnect` (`objects.go:525`). The comment at `objects.go:519` says an approval
  must not stay open on an object that is still a draft, and the DELETE below it is
  there to prevent that. It uses the request's context, like the UPDATE that failed:
  when the client went away both fail.
- `account` (`mcpoauth.go:336`). "The linked subject first, else the address"
  (`mcpoauth.go:319`): `ORDER BY oidc_subject = $1 DESC` puts accounts *without* a
  subject first, because a comparison with NULL is NULL and NULL is first in
  descending order. If the linked account's address has passed to another account
  that is not linked, the token speaks for that one and the web sign-in for the
  linked one.
- `allowone` (`tracking.go:174`). The button that allows one origin rewrites the
  whole setting from what it read: a change saved in between is lost, and when the
  read failed the defaults are stored in its place.

Other behaviour the models have because the code has it, without a run of its own;
the properties above are stated so that it is allowed:

- `updateObject` lets a request restate the status it read and writes it back
  without a condition (`objects.go:438`): it may put an old status over
  `pending_approval`. With every object routed no object reads approved that never
  was (`NoWayAround`).
- A response is read before the transaction that selects it (`sourcing.go:712`), so
  one that went back to draft can be awarded; a decline fits between a submitted bid
  and its receipt (`sourcing.go:360`); a save that was checked before the award
  replaces the bid after it (`sourcing.go:319`), and its receipt may land on the
  supplier's own decline. No standing that the committee
  wrote goes wrong in any of them (`ImplementsStandings`).
- A policy that is switched while a request is between its reading and its commit
  governs the next request, not this one (`workflows.go:398`, `suppliers.go:491`).
- Uploads of one document "serialise the numbering" (`documents.go:191-194`) only if
  they spell the supplier's id alike: the lock is taken on the text of the request
  (`documents.go:205`), `validUUID` takes both cases, and the INSERT compares
  `::uuid`. Two spellings can store the same version.
- When `security.login` cannot be read, the limits in place are the defaults
  (`loginguard.go:77-84`), whatever was configured: a strict limit is lax for as long.
- The roles of a key or a token "cut" its permissions "down to what the account's
  roles grant today" (`mcpoauth.go:400`), but when their query fails that is only
  logged and every word stays (`auth.go:207`, `mcpoauth.go:350`).
- `createRole` and `updateRole` accept `*.*`, because it opens `*.read` and `portal.*`
  (`permissionGrantsSomething`, `auth.go:395`). When lists are narrowed it grants
  `*.read` as a word, which opens every reading door and not only those two.
- `email_verified` vouches for `preferred_username` too, when the token has no
  address (`oidc.go:252-255`).
- A delegation that names a record for an update also lets its holder attach that
  record to any organisation or supplier (`objects.go:169`, `objects.go:408`).
- A reply of JSON `null` is no object and demands no review (`integrations.go:330`).
- The queries of the inbox stop at their `LIMIT` (`productivity.go:123`, `158`, `195`)
  before the items that were put away are left out (line 259): three hundred contracts
  that are put away and due first hide the next one. The comment at lines 111-114 says
  why the object type is not filtered after the `LIMIT`; the states of items still are.

## 7. Proofs

For `Approval`, proved for every value of the constants that satisfies `ConstantsAssumption`, the
only assumption; TLC evaluates it in every run. It says that `Nil` is no other
value, that free statuses are not the workflow's, and that the constants have
their types. `Objects`, `Instances`, `Requests` and `Users` may be infinite.

| Theorem | Module |
|---|---|
| `TypeCorrect`, `OnePendingAlways`, `LockProtectsAlways`, `NeverStrandedAlways` | `ApprovalProofs` |
| `TrailCompleteAlways`, `CaseImplemented` (`Approval` implements `ApprovalCase`) | `ApprovalRefinement` |
| `DutiesSeparated`, `NobodyWalksAround` | `ApprovalPolicies` |

The argument is an inductive invariant in layers, each used by the next.

- `TypeInv` is `TypeOK` with what each program counter promises of the handler's
  locals (`HandlersOK`) and that no saved rule is without steps (`RulesOK`). It is
  needed because `TypeOK` alone does not say that `req[r].inst` is an instance
  when `inst[req[r].inst]` is written.
- `OnePending` is inductive on top of it: the only step that adds a pending
  instance is guarded by the index.
- `LockInv` adds `LockProtects` and that every instance in use has a copy of its
  steps. `LockProtects` is not inductive without the equivalence in its first
  conjunct: a lock is held exactly by the decision about to commit, so no other
  step can write the row it has read. `NeverStranded` follows from it: a decision
  advances the step only when another one follows.
- `TrailInv` adds `TrailComplete`: `DecisionFits` shows that appending a decision
  whose step is the instance's own keeps the trail in agreement.
  The same facts give the refinement: an INSERT is `Open`, a commit is `Advance`,
  `Approve`, `Reject` or `SendBack`, a DELETE that hits is `Withdraw`, and every
  other statement is a stutter.
- `DutiesInv` says that a decision about to commit is not the requester's own,
  which holds as long as the policy was on when it was checked; `WayInv` says
  that nobody is about to write approved without a decision, which holds as long
  as the workflow is on and every amount is covered. Both are proved under an
  assumption that holds throughout (`[](blockSelf)`, `[](approvalOn /\ Covered)`),
  as the properties are stated.

For `Sourcing`, from `SourcingAssumption` alone (`Nil` is no supplier and no amount,
and the form writes no empty status), `SourcingProofs` proves `TypeCorrect`,
`AwardsAgreeAlways` and `StandingsImplemented`. The inductive invariant `Inv` is
`TypeOK`, what each program counter promises (`HandlersOK`: a save or a selection
is of an invited supplier), that only the invited bid (`BidsOfInvited`), that the
latest selection has a row (`SelectionsOK`), and `AwardsAgree`. Without the second
and third `AwardsAgree` is not inductive: a selection of a supplier with no
participant row would write no standing. `StandingsKept` says that a change that
leaves the committee's standings alone keeps `AwardsAgree`, which covers saves,
receipts, declines and invitations; `SettledStandings` computes what a selection
writes. The refinement maps the receipt to `Answer`, the commit to `Prefer` or
`Select`, and every other step to `Invite`, `Decline` or a stutter.

For the other components, each from the assumption its own module names and for
every value of the constants that satisfies it (the bounds included, so rows,
requests, users and files may be any number):

| Theorem | Module |
|---|---|
| `ChangesAlwaysAgree`, `AccountsAreGuarded` (of `RegisterSpec`), `InvitationsEndOnce`, `VerificationStays` (of `PortalSpec`), `VerdictsAreEarned` (of `ScreeningSpec`), `LevelsCover`, `FiguresAreRecomputed` (of `RollupSpec`), `ListedFilesAreThere`, `VersionsAreInOrder` (of `DocumentsSpec`), `ComparisonsRank` (of `ScoreSpec`) | `RegisterProofs` |
| `SessionsAreEnded`, `RecordIsNamed`, `RotationHandsOn`, `RolesBound`, `AddressIsShown`, `ListsAlwaysAgree`, `AuthorsSee`, `FailuresStayBounded`, `SweepKeepsLockouts` | `AccessProofs` |
| `FilesInOrder`, `UpgradeImplemented`, `LatestAreKept`, `ReviewIsMarked`, `SpendingIsBounded`, `DatesShown`, `TriesStayBounded` | `PlatformProofs` |
| (lemmas only) | `SumTheorems` |

The assumptions beyond types and distinct markers: what is summed or counted over is
finite (the items of a template, the judges of a tender, uploads, names, addresses
and logins in flight, events, adapters and replicas), as tables and processes
are. The weights and thresholds of screening templates are any integers, negative
ones included, because nothing in `screenings.go` refuses them.

`SumTheorems` is about `SumFunctionOnSet`, the sum the models of figures, verdicts,
scores and failures are written with, and about `Max` and `Min` of a set. A fact about a
sum over every finite set needs induction, and the library's induction theorems take
an operator as a parameter, which no installed prover instantiates. `SmallestSet`
gets by without: the proper subsets of a finite set are well-founded, so among the
subsets for which a fact fails, if any, one is smallest, and the fact holds of what
is left when one element is taken away. `LeastNumber` is the same for numbers.
`SumIsAdder`, `AdderOfSmall` and `AdderEquation` show that the recursive function
behind the sum exists and satisfies its equation; the rest follows by taking away
what `CHOOSE` picks (`SumStep`): sums are integers, agree where the functions do
(`SumAgrees`), grow with them (`SumMonotone`), split (`SumSplits`), and one element can be
taken out (`SumTakes`).

`RegisterProofs`:

- `RegisterInv` is the shape of the rows, that every pending change names a
  company, and `Alone`: a request between the two statements of an update is the
  only one on its change, and the change has no instance yet. Without it
  `OpenInstance` could reopen a change that is decided.
- `BankInv` adds `AccountApproved` and `Settled`, that no request gets to the
  UPDATE with an account: `updateSupplier` reads two settings in two statements and
  acts on them later, so this has to hold of what it carries in between. It is
  inductive only while `BankPolicyOn` holds, and is proved under that
  assumption, as the property is stated.
- `PortalInv`: whoever redeems an invitation holds its row, and the row is neither
  used nor recalled; so the recall, which decides on what it read before and has to
  wait for the row, looks again. `VerifiedStays` follows from the shape of the
  rows, step by step.
- `DocumentsInv`: an upload in flight has a file of its own (`Apart`) and no row, so
  that removing a file removes nobody else's.
- `RollupInv` is the shape of the rows and `RisksCovered`: every risk is covered by
  the level, or the request that recorded it is about to raise it, or the level was
  missed. `LevelCovers` speaks of companies with no such request, and is not
  inductive, since it says nothing while one is in flight.
- `FiguresInv` adds `Solitary` (of two requests at the same figure of a company,
  neither is marked as alone) and `Informed` (one that is alone carries what the
  rows give now). `RecomputedExactly` speaks of a figure at rest; it is inductive only
  with what the request that writes it next has read. A step that touches no row
  of the sum keeps the figure (`ScoreIntact`, `SpendIntact`), a new row
  puts its request at the figure (`RowJoins`), and a write ends either alone or in
  `missed` (`OneWrites`).
- `VersionsInv` adds `Numbered`: who is about to insert holds the advisory lock of its spelling,
  and the number it carries at the commit follows the rows without a gap (`Follows`) and is
  above every row of that spelling. `max(version)+1` is such a number because the versions
  are `1..n` (`NextFollows`, with `GreatestUpTo`). Rows of another spelling may join between the
  INSERT and the COMMIT; they can only make the number one that is there already (`CommitNumbers`).
- `ScreeningInv` is `Earned` of every row, in terms of `Points`, and `Saving`: a save
  that found no gap was sent no gap. `PointsAreEarned` turns the points into the
  property: a score is clamped to 0..100, so that the positive items answered
  bound them, item by item (`SumMonotone`), whatever negative weights take away.
- `ScoreInv` (`ReaderOK`): a comparison that is still clean carries the scores of the rows
  as they are. That such scores rank the bids is arithmetic on the operators of the
  model: the shares of price and delivery are between 0 and 100 and do not grow
  with the price or the days (`SharesRank`, `ShareOfCheapest`), the average of the
  marks is in range (`TechnicalInRange`, a sum), and a weighed total divided by the
  weights keeps the order (`TallyMonotone`, `DivMonotone`).

`AccessProofs`:

- `SessionsInv` is `SessionsEnd` with the types: a step that makes a session
  outdated either leaves the request between UPDATE and revocation, or marks the
  user, and a revocation leaves only spared sessions.
- `DelegationsInv` (`CallOK`): a handler reached past the scope has the delegation
  among those the request came with.
- `KeysInv` has `RotationOK`: what a rotation in flight has read of its key is what
  the key says for good. `RolesBound` needs that roles hold words of the lists and that the
  words of every key reach no further than those lent to it (`KeyRow`), through keys issued by keys and
  rotations (`LentReaches`). The rest is `MatchesTransitive`, which fails for a word with a
  wildcard at both ends - hence `OneEnded` in the property - and `NarrowedOpens`.
- `ScopeInv`: every organisation that a user or a record names was made. The lists
  look the organisation up and the checks do not, so they agree because of it, scope by scope
  (`ScopeIsOne`: everybody's is one of the four).
- `GuardInv` is `Paced`, as long as the guard is not `blind`: in any stretch of the window that b lockouts cover, the failures on
  record and those on their way are at most the limit less one and b times the logins
  in flight. `FailuresBounded` counts the whole window at once and is not inductive:
  an admission after a lockout is allowed because of *when* the earlier failures
  were. `PaceOfAdmission` is the heart of it: a login let through either saw fewer than
  the limit, or the last failure lies a lockout back, and the stretch before it is
  one lockout shorter. Names and addresses are the same argument (index 1 and 2).
- `SweepKeepsLockouts` needs the types and that no window in force, configured or default, is longer
  than the retention of the attempts, which `normalized` caps (`GuardInRange`).
- `SsoInv`: every link was made by a trusted address, and so far as a sign-in has
  come, its claims or its link were.

`PlatformProofs`:

- `MigrateInv`: what is applied is `1..n` with its versions (`EachFileOnce`), every server
  is at a file whose predecessors have run, and an `apply` is guarded by the version's
  key - the lock is not needed for this property, only for two servers not to get in
  each other's way.
- `UpgradeInv` adds that no file is ahead of the last one; with it, a file that is
  applied is the next (`AppliedIsNext`), and each step of `Migrate` is one of `SchemaUpgrade`
  or a stutter (`MigrateStep`).
- `NoticesInv` is `TriesLeft`: the attempts of a delivery and the replicas that hold it in a
  batch, together, are at most the limit and the other replicas. `TriesBounded` alone is
  not inductive: it does not say who is about to try. A batch is read in order and
  without repetition (`BatchesOK`), so that a try leaves one holder fewer.
- `ReportsInv` ties the moments of the table to the ghost `everSeen`.
- `SpendIInv` counts: what the log holds of an account within the hour, and the
  requests that were let through and have not called yet, together are at most the
  limit and the requests but one (`CountsBounded`). Each step moves at most one
  element between these sets; the facts about cardinalities are those of
  `FiniteSetTheorems`.
- `InboxInv`: the state of a dated item's key is another one's only if the user put
  away that very item (`OnlyItself`: the key has the date in it). So what is missing was not
  answered by its query, and then the answer itself is the crowd that `NewDateShown` speaks of.

Only model-checked: the liveness properties `RequestsEnd`, `BidsSettle`,
`NothingStarves` and `EveryServerStarts`, since liveness under fairness is out of the
prover's reach. What the four runs of section 6 show is a counterexample each.

## 8. Hazards and mutants

`PROJECT.json` lists where this code is hard to test, each at its line with the
properties that would catch it going wrong, and for every property of a passing
run one mutant: an operator `X_Something` beside the definition `X` it replaces,
a bug that the code could plausibly have. TLC finds the property violated with
it, in the run's own bounds. Six hazards have no property. One is a handler that
holds a connection and asks the pool for another, because the pool is not modelled.
The others are modelled and allowed, because the code does them (section 6): an old
status over `pending_approval`, a policy switched between a check and its commit, a
comparison by scores of different moments, a decline that meets a submission, and the
award of a response that went back to draft.

## 9. Not modelled

- *Connection pool.* Every model treats a statement as always having a connection.
  The limit is the library's; `workflowAction` asks for a second connection while
  it holds one (`workflows.go:391`), which is listed as a hazard.
- *Saved views, form drafts, questions and answers of a tender, lifecycle states.*
  Single statements or planned (section 2). *Currencies*: a tender's bids are taken
  to be in its own.
- *The rest of the portal*: profiles and listings of a company read or write one row.
- *Lists, search, dashboards, exports, MCP tools.* They read. What they may show is
  `DataScope`; what an MCP token may do is `Credentials`.
- *Row helpers and validators* (`rows.go`), *the audit log* except where it is read
  back, *log store, metrics, health*: no state that two requests share, or nothing
  that reads it.
- *Identity provider, mail and message servers, language model.* External; they
  answer anything, or nothing.
- *Configuration, vault, HTTP plumbing, web client.* Start-up, encryption, routing and
  a client of the handlers above.
- *Moving an organisation in the tree*: no operation does it.
