------------------------------ MODULE Approval ------------------------------
(***************************************************************************)
(* The approval workflow of Vendra: business objects, the rules            *)
(* (workflow_definitions) that route their submission, the approval        *)
(* requests (workflow_instances) and the decisions taken on them           *)
(* (workflow_actions).                                                     *)
(*                                                                         *)
(* The tables are the shared state.  An HTTP handler is a process that     *)
(* executes one SQL statement per step; between two statements any other   *)
(* handler, in this replica or in another, may run.  A request slot r of   *)
(* Requests carries what its handler holds in local variables in req[r].   *)
(* Statements that one transaction makes visible together are one step.    *)
(***************************************************************************)
EXTENDS Naturals, Sequences, FiniteSets

CONSTANTS Objects,      \* rows of business_objects, of one routed type
          Instances,    \* rows workflow_instances can ever get (bound)
          Definitions,  \* rows of workflow_definitions for that type
          Requests,     \* HTTP requests in flight at once (bound)
          Users,
          Roles, AnyRole,       \* a step with no role is open to anybody
          Amounts,      \* what of an object its routing depends on
          Rows,         \* the rules administrators save: [on, matches, steps]
          FreeStatus,   \* statuses that are not the workflow's own
          MaxVersion,   \* edits of a rule (bound)
          Holds,        \* Holds[u]: the roles of user u
          Superusers,   \* users whose permissions contain "*"
          Sees,         \* Sees[u]: the objects in the data scope of user u
          Kinds,        \* the handlers that clients call
          Faults,       \* the failures that happen: "statement", "crash"
          Nil

Owned == {"pending_approval", "approved", "rejected", "returned"}
Status == Owned \cup FreeStatus
Actions == {"approve", "reject", "return"}
StepRoles == Roles \cup {AnyRole}
Routes == Seq(StepRoles)

ASSUME ConstantsAssumption ==
    /\ {"draft", "confirmed"} \subseteq FreeStatus
    /\ FreeStatus \cap (Owned \cup {"none", ""}) = {}
    /\ Nil \notin Requests \cup Objects \cup Instances \cup Definitions \cup Users \cup Amounts
    /\ Rows \subseteq [on: BOOLEAN, matches: SUBSET Amounts, steps: Routes]
    /\ MaxVersion \in Nat
    /\ Holds \in [Users -> SUBSET Roles]
    /\ Superusers \subseteq Users
    /\ Sees \in [Users -> SUBSET Objects]
    /\ Faults \subseteq {"statement", "crash"}

VARIABLES status,       \* business_objects.status; "none": no such row
          amount,       \* business_objects.amount, with whatever else routes
          approvalOn,   \* settings: workflow.approval_enabled
          blockSelf,    \* settings: workflow.separation_of_duties
          def,          \* workflow_definitions; version 0: no such row
          inst,         \* workflow_instances
          trail,        \* workflow_actions of each instance, oldest first
          lock,         \* the request holding the row lock of an instance
          req           \* the handlers in flight

settings == <<approvalOn, blockSelf>>
vars == <<status, amount, approvalOn, blockSelf, def, inst, trail, lock, req>>

Idle == [pc |-> "idle", user |-> Nil, object |-> Nil, inst |-> Nil, def |-> Nil,
         status |-> "", amount |-> Nil, on |-> FALSE, matches |-> {},
         steps |-> <<>>, step |-> 0, action |-> ""]

NoInstance == [status |-> "none", object |-> Nil, def |-> Nil, by |-> Nil,
               steps |-> <<>>, step |-> 0]

NoDefinition == [on |-> FALSE, matches |-> {}, steps |-> <<>>, version |-> 0]

Pending(o) == {i \in Instances : inst[i].status = "pending" /\ inst[i].object = o}

Become(r, state) == req' = [req EXCEPT ![r] = state]
Goto(r, pc) == Become(r, [req[r] EXCEPT !.pc = pc])
Finish(r) == Become(r, Idle)

(***************************************************************************)
(* Rules                                                                   *)
(***************************************************************************)
\* validWorkflowSteps: a rule with no step is refused when it is saved.
ValidSteps(steps) == steps # <<>>

\* workflowMatches: every condition of the rule holds of the object as it was
\* read.  A rule's conditions are the set of amounts that satisfy them.
Matches(d, a) == def[d].version > 0 /\ def[d].on /\ a \in def[d].matches

\* matchingWorkflow: the first match by version, newest first.  updated_at,
\* which breaks a tie, is not modelled: either of the tied rules may be first.
FirstMatches(a) ==
    {d \in Definitions : Matches(d, a) /\ \A e \in Definitions : Matches(e, a) => def[e].version <= def[d].version}

\* Mutant: decisions follow the live rule instead of the copied steps.
InstanceSteps_Live(i) == IF inst[i].def = Nil THEN <<>> ELSE def[inst[i].def].steps

\* instanceSteps: the steps copied at submission, the live rule only for a row
\* that has no copy.
InstanceSteps(i) ==
    IF inst[i].steps # <<>> \/ inst[i].def = Nil THEN inst[i].steps ELSE def[inst[i].def].steps

CreateWorkflow(d, row) ==
    /\ "workflow" \in Kinds
    /\ def[d].version = 0
    /\ ValidSteps(row.steps)
    /\ def' = [def EXCEPT ![d] = [on |-> row.on, matches |-> row.matches, steps |-> row.steps, version |-> 1]]
    /\ UNCHANGED <<status, amount, settings, inst, trail, lock, req>>

\* updateWorkflow, first statement: the row is read, and every field the
\* request leaves out is taken from that reading.
ReadWorkflow(r, d, row, fields) ==
    /\ "workflow" \in Kinds
    /\ req[r].pc = "idle"
    /\ def[d].version > 0 /\ def[d].version < MaxVersion    \* bound
    /\ "steps" \in fields => ValidSteps(row.steps)
    /\ Become(r, [Idle EXCEPT !.pc = "workflow", !.def = d,
                    !.on = IF "on" \in fields THEN row.on ELSE def[d].on,
                    !.matches = IF "matches" \in fields THEN row.matches ELSE def[d].matches,
                    !.steps = IF "steps" \in fields THEN row.steps ELSE def[d].steps])
    /\ UNCHANGED <<status, amount, settings, def, inst, trail, lock>>

\* updateWorkflow, second statement: all the fields are written back.
WriteWorkflow(r) ==
    LET q == req[r] IN
    /\ q.pc = "workflow"
    /\ def' = [def EXCEPT ![q.def] = [on |-> q.on, matches |-> q.matches, steps |-> q.steps,
                                      version |-> def[q.def].version + 1]]
    /\ Finish(r)
    /\ UNCHANGED <<status, amount, settings, inst, trail, lock>>

SetApproval(b) ==
    /\ "settings" \in Kinds
    /\ approvalOn' = b
    /\ UNCHANGED <<status, amount, blockSelf, def, inst, trail, lock, req>>

SetBlockSelf(b) ==
    /\ "settings" \in Kinds
    /\ blockSelf' = b
    /\ UNCHANGED <<status, amount, approvalOn, def, inst, trail, lock, req>>

(***************************************************************************)
(* Objects                                                                 *)
(***************************************************************************)
\* Mutant: a request may name any status.
Refused_Never(claim, current) == FALSE

\* refusedWorkflowStatus: a request may not name a status of the workflow,
\* except the one the object was read with.
Refused(claim, current) == claim \in Owned /\ claim # current

\* createObject: one INSERT; an empty status is stored as draft.
CreateObject(u, o, claim, a) ==
    /\ "create" \in Kinds
    /\ status[o] = "none"
    /\ o \in Sees[u]
    /\ ~Refused(claim, "")
    /\ status' = [status EXCEPT ![o] = IF claim = "" THEN "draft" ELSE claim]
    /\ amount' = [amount EXCEPT ![o] = a]
    /\ UNCHANGED <<settings, def, inst, trail, lock, req>>

\* updateObject, first statement and every check.  claim "" and a Nil are
\* fields the request leaves out; routing fields kept in data are written back
\* as they were read, which is the case of an a equal to the amount read.
ReadObject(r, u, o, claim, a) ==
    /\ "update" \in Kinds
    /\ req[r].pc = "idle"
    /\ status[o] # "none"
    /\ o \in Sees[u]
    /\ ~Refused(claim, status[o])
    /\ Become(r, [Idle EXCEPT !.pc = "update", !.user = u, !.object = o, !.status = claim, !.amount = a])
    /\ UNCHANGED <<status, amount, settings, def, inst, trail, lock>>

\* updateObject, second statement: one UPDATE by id, whatever the row says now.
WriteObject(r) ==
    LET q == req[r] IN
    /\ q.pc = "update"
    /\ status' = IF q.status = "" THEN status ELSE [status EXCEPT ![q.object] = q.status]
    /\ amount' = IF q.amount = Nil THEN amount ELSE [amount EXCEPT ![q.object] = q.amount]
    /\ Finish(r)
    /\ UNCHANGED <<settings, def, inst, trail, lock>>

\* portalConfirmPurchaseOrder: one guarded UPDATE by the supplier.
ConfirmOrder(o) ==
    /\ "confirm" \in Kinds
    /\ status[o] \in {"approved", "sent"}
    /\ status' = [status EXCEPT ![o] = "confirmed"]
    /\ UNCHANGED <<amount, settings, def, inst, trail, lock, req>>

(***************************************************************************)
(* Submission: submitObject, one statement per step                        *)
(***************************************************************************)
Submitting == {"setting", "auto", "check", "match", "insert"}

\* Bound: a submission starts only while a row is left for its instance.
RowLeft ==
    Cardinality({i \in Instances : inst[i].status = "none"})
        > Cardinality({r \in Requests : req[r].pc \in Submitting})

\* The object is read, with its routing data, and its scope checked.
SubmitRead(r, u, o) ==
    /\ "submit" \in Kinds
    /\ req[r].pc = "idle"
    /\ RowLeft
    /\ status[o] # "none"
    /\ o \in Sees[u]
    /\ Become(r, [Idle EXCEPT !.pc = "setting", !.user = u, !.object = o, !.amount = amount[o]])
    /\ UNCHANGED <<status, amount, settings, def, inst, trail, lock>>

SubmitSetting(r) ==
    /\ req[r].pc = "setting"
    /\ Goto(r, IF approvalOn THEN "check" ELSE "auto")
    /\ UNCHANGED <<status, amount, settings, def, inst, trail, lock>>

\* With the workflow off, or no rule that matches, the object is approved.
SubmitAuto(r) ==
    /\ req[r].pc = "auto"
    /\ status' = [status EXCEPT ![req[r].object] = "approved"]
    /\ Finish(r)
    /\ UNCHANGED <<amount, settings, def, inst, trail, lock>>

\* pendingApproval: an approval in flight ends the request (alreadySubmitted).
SubmitCheck(r) ==
    /\ req[r].pc = "check"
    /\ IF Pending(req[r].object) # {} THEN Finish(r) ELSE Goto(r, "match")
    /\ UNCHANGED <<status, amount, settings, def, inst, trail, lock>>

SubmitMatch(r) ==
    /\ req[r].pc = "match"
    /\ \/ /\ ~\E d \in Definitions : Matches(d, req[r].amount)
          /\ Goto(r, "auto")
       \/ \E d \in FirstMatches(req[r].amount) : Become(r, [req[r] EXCEPT !.pc = "insert", !.def = d, !.steps = def[d].steps])
    /\ UNCHANGED <<status, amount, settings, def, inst, trail, lock>>

\* Mutant: the partial unique index is missing.
UniquePending_NoIndex(o) == TRUE

\* workflow_instances_one_pending_idx: a second pending row for an object is
\* refused by the database.
UniquePending(o) == Pending(o) = {}

SubmitInsert(r) ==
    LET q == req[r] IN
    /\ q.pc = "insert"
    /\ \/ /\ ~UniquePending(q.object)
          /\ Finish(r)
          /\ UNCHANGED inst
       \/ /\ UniquePending(q.object)
          /\ \E i \in Instances :
                /\ inst[i].status = "none"
                /\ inst' = [inst EXCEPT ![i] = [status |-> "pending", object |-> q.object, def |-> q.def,
                                                by |-> q.user, steps |-> q.steps, step |-> 0]]
                /\ Become(r, [q EXCEPT !.pc = "mark", !.inst = i])
    /\ UNCHANGED <<status, amount, settings, def, trail, lock>>

SubmitMark(r) ==
    /\ req[r].pc = "mark"
    /\ status' = [status EXCEPT ![req[r].object] = "pending_approval"]
    /\ Finish(r)
    /\ UNCHANGED <<amount, settings, def, inst, trail, lock>>

\* Mutant: the cleanup deletes the instance whatever became of it.
SubmitCleanup_AnyStatus(r) ==
    LET i == req[r].inst IN
    /\ req[r].pc = "cleanup"
    /\ lock[i] = Nil
    /\ inst' = [inst EXCEPT ![i].status = "withdrawn"]
    /\ trail' = [trail EXCEPT ![i] = <<>>]
    /\ Finish(r)
    /\ UNCHANGED <<status, amount, settings, def, lock>>

\* The object could not be marked: the instance is deleted if it is still
\* pending, and workflow_actions cascade.  The DELETE waits for the row lock.
SubmitCleanup(r) ==
    LET i == req[r].inst IN
    /\ req[r].pc = "cleanup"
    /\ lock[i] = Nil
    /\ IF inst[i].status = "pending"
       THEN /\ inst' = [inst EXCEPT ![i].status = "withdrawn"]
            /\ trail' = [trail EXCEPT ![i] = <<>>]
       ELSE UNCHANGED <<inst, trail>>
    /\ Finish(r)
    /\ UNCHANGED <<status, amount, settings, def, lock>>

(***************************************************************************)
(* Decision: workflowAction, one transaction                               *)
(***************************************************************************)
MayDecide(u, role) == role = AnyRole \/ u \in Superusers \/ role \in Holds[u]

\* Mutant: the policy is applied to approvals only.
SelfDecisionRefused_ApproveOnly(u, i, action) == action = "approve" /\ inst[i].by = u /\ blockSelf

SelfDecisionRefused(u, i, action) == action # "return" /\ inst[i].by = u /\ blockSelf

\* The id may be of a row that is settled (409) or was deleted since (404).
ActionBegin(r, u, i, action) ==
    /\ "action" \in Kinds
    /\ req[r].pc = "idle"
    /\ inst[i].status # "none"
    /\ Become(r, [Idle EXCEPT !.pc = "lock", !.user = u, !.inst = i, !.action = action])
    /\ UNCHANGED <<status, amount, settings, def, inst, trail, lock>>

\* Mutant: a decision on a settled request is not refused.
ActionAllowed_AnyStatus(u, i, action) ==
    /\ inst[i].object \in Sees[u]
    /\ inst[i].step < Len(InstanceSteps(i))
    /\ MayDecide(u, InstanceSteps(i)[inst[i].step + 1])
    /\ ~SelfDecisionRefused(u, i, action)

\* Every refusal of workflowAction, in the state the row lock was granted in.
ActionAllowed(u, i, action) ==
    /\ inst[i].status = "pending"
    /\ inst[i].object \in Sees[u]
    /\ inst[i].step < Len(InstanceSteps(i))
    /\ MayDecide(u, InstanceSteps(i)[inst[i].step + 1])
    /\ ~SelfDecisionRefused(u, i, action)

\* Mutant: the row is read without FOR UPDATE.
ActionLock_NoRowLock(r) ==
    LET q == req[r] IN
    /\ q.pc = "lock"
    /\ IF ActionAllowed(q.user, q.inst, q.action)
       THEN Become(r, [q EXCEPT !.pc = "commit", !.step = inst[q.inst].step, !.steps = InstanceSteps(q.inst)])
       ELSE Finish(r)
    /\ UNCHANGED <<status, amount, settings, def, inst, trail, lock>>

\* SELECT ... FOR UPDATE OF i, which waits for the row lock, and the checks.
ActionLock(r) ==
    LET q == req[r] IN
    /\ q.pc = "lock"
    /\ lock[q.inst] = Nil
    /\ IF ActionAllowed(q.user, q.inst, q.action)
       THEN /\ lock' = [lock EXCEPT ![q.inst] = r]
            /\ Become(r, [q EXCEPT !.pc = "commit", !.step = inst[q.inst].step, !.steps = InstanceSteps(q.inst)])
       ELSE /\ Finish(r)
            /\ UNCHANGED lock
    /\ UNCHANGED <<status, amount, settings, def, inst, trail>>

\* Mutant: the status meant for the object is written to the instance.
Outcome_ObjectStatus(q) ==
    CASE q.action = "reject" -> "rejected"
      [] q.action = "return" -> "returned"
      [] q.action = "approve" -> IF q.step + 1 >= Len(q.steps) THEN "approved" ELSE "pending_approval"

\* What a decision makes of the instance, from the step and the steps the
\* handler read under the lock.
Outcome(q) ==
    CASE q.action = "reject" -> "rejected"
      [] q.action = "return" -> "returned"
      [] q.action = "approve" -> IF q.step + 1 >= Len(q.steps) THEN "approved" ELSE "pending"

\* The writes of the transaction, visible together at COMMIT.
ActionCommit(r) ==
    LET q == req[r]
        i == q.inst
        outcome == Outcome(q)
    IN
    /\ q.pc = "commit"
    /\ trail' = [trail EXCEPT ![i] = Append(@, [step |-> q.step, action |-> q.action, actor |-> q.user])]
    /\ inst' = IF outcome = "pending"
               THEN [inst EXCEPT ![i].step = @ + 1]
               ELSE [inst EXCEPT ![i].status = outcome]
    /\ status' = [status EXCEPT ![inst[i].object] = IF outcome = "pending" THEN "pending_approval" ELSE outcome]
    /\ lock' = [lock EXCEPT ![i] = Nil]
    /\ Finish(r)
    /\ UNCHANGED <<amount, settings, def>>

(***************************************************************************)
(* Failures                                                                *)
(***************************************************************************)
\* Mutant: no rollback on an error path.
Release_Kept(r) == lock

\* The locks of a request whose transaction is rolled back.
Release(r) == [i \in Instances |-> IF lock[i] = r THEN Nil ELSE lock[i]]

\* The statement a handler is about to execute fails (the database, or the
\* context of a client that went away).  A failed read of pendingApproval reads
\* as "none"; a failed mark leads to the cleanup; a failed cleanup is logged.
StatementFails(r) ==
    /\ "statement" \in Faults
    /\ req[r].pc # "idle"
    /\ CASE req[r].pc = "check" -> Goto(r, "match")
         [] req[r].pc = "mark"  -> Goto(r, "cleanup")
         [] OTHER -> Finish(r)
    /\ lock' = Release(r)
    /\ UNCHANGED <<status, amount, settings, def, inst, trail>>

\* The replica dies: the handler never runs again and its transaction is
\* rolled back.
Crash(r) ==
    /\ "crash" \in Faults
    /\ req[r].pc # "idle"
    /\ Finish(r)
    /\ lock' = Release(r)
    /\ UNCHANGED <<status, amount, settings, def, inst, trail>>

(***************************************************************************)
(* The specification                                                       *)
(***************************************************************************)
\* The settings and the rules are whatever administrators left in the database.
Init ==
    /\ status = [o \in Objects |-> "none"]
    /\ amount = [o \in Objects |-> Nil]
    /\ approvalOn \in BOOLEAN
    /\ blockSelf \in BOOLEAN
    /\ def \in [Definitions -> {NoDefinition} \cup
                  {[on |-> w.on, matches |-> w.matches, steps |-> w.steps, version |-> 1] :
                        w \in {v \in Rows : ValidSteps(v.steps)}}]
    /\ inst = [i \in Instances |-> NoInstance]
    /\ trail = [i \in Instances |-> <<>>]
    /\ lock = [i \in Instances |-> Nil]
    /\ req = [r \in Requests |-> Idle]

\* The next statement of a handler in flight.
Proceed(r) ==
    \/ WriteWorkflow(r) \/ WriteObject(r)
    \/ SubmitSetting(r) \/ SubmitAuto(r) \/ SubmitCheck(r) \/ SubmitMatch(r)
    \/ SubmitInsert(r) \/ SubmitMark(r) \/ SubmitCleanup(r)
    \/ ActionLock(r) \/ ActionCommit(r)

\* A client's call.
Call ==
    \/ \E d \in Definitions, row \in Rows : CreateWorkflow(d, row)
    \/ \E b \in BOOLEAN : SetApproval(b) \/ SetBlockSelf(b)
    \/ \E u \in Users, o \in Objects, c \in Status \cup {""}, a \in Amounts : CreateObject(u, o, c, a)
    \/ \E o \in Objects : ConfirmOrder(o)
    \/ \E r \in Requests :
        \/ \E d \in Definitions, row \in Rows, fields \in SUBSET {"on", "matches", "steps"} :
                ReadWorkflow(r, d, row, fields)
        \/ \E u \in Users, o \in Objects, c \in Status \cup {""}, a \in Amounts \cup {Nil} :
                ReadObject(r, u, o, c, a)
        \/ \E u \in Users, o \in Objects : SubmitRead(r, u, o)
        \/ \E u \in Users, i \in Instances, action \in Actions : ActionBegin(r, u, i, action)

Fault == \E r \in Requests : StatementFails(r) \/ Crash(r)

Next == Call \/ Fault \/ \E r \in Requests : Proceed(r)

Spec == Init /\ [][Next]_vars

\* A handler that can take its next statement takes it; PostgreSQL grants a row
\* lock to those that wait for it in turn.
Fairness == \A r \in Requests : WF_vars(Proceed(r)) /\ SF_vars(ActionLock(r)) /\ SF_vars(SubmitCleanup(r))

FairSpec == Spec /\ Fairness

(***************************************************************************)
(* Properties                                                              *)
(***************************************************************************)
Decision == [step: Nat, action: Actions, actor: Users]

RuleRow == [on: BOOLEAN, matches: SUBSET Amounts, steps: Routes, version: Nat]

InstanceRow == [status: {"none", "pending", "approved", "rejected", "returned", "withdrawn"},
                object: Objects \cup {Nil}, def: Definitions \cup {Nil}, by: Users \cup {Nil},
                steps: Routes, step: Nat]

PCs == Submitting \cup {"idle", "workflow", "update", "mark", "cleanup", "lock", "commit"}

Handler == [pc: PCs, user: Users \cup {Nil}, object: Objects \cup {Nil}, inst: Instances \cup {Nil},
            def: Definitions \cup {Nil}, status: Status \cup {""}, amount: Amounts \cup {Nil},
            on: BOOLEAN, matches: SUBSET Amounts, steps: Routes, step: Nat, action: Actions \cup {""}]

\* The columns and the handlers' variables hold what they are declared to hold.
TypeOK ==
    /\ status \in [Objects -> Status \cup {"none"}]
    /\ amount \in [Objects -> Amounts \cup {Nil}]
    /\ approvalOn \in BOOLEAN
    /\ blockSelf \in BOOLEAN
    /\ def \in [Definitions -> RuleRow]
    /\ inst \in [Instances -> InstanceRow]
    /\ trail \in [Instances -> Seq(Decision)]
    /\ lock \in [Instances -> Requests \cup {Nil}]
    /\ req \in [Requests -> Handler]

\* An object has one approval in flight at most, however many submissions pass
\* the pendingApproval check before any of them inserts (submitObject).
OnePending == \A o \in Objects : \A i, j \in Pending(o) : i = j

\* Whatever administrators make of the rules meanwhile, a pending approval
\* waits on a step that exists: workflowAction never answers invalid_workflow,
\* which would leave the request in nobody's inbox (instanceSteps).
NeverStranded ==
    \A i \in Instances : inst[i].status = "pending" => inst[i].step < Len(InstanceSteps(i))

\* The decisions t agree with the instance they were taken on: one for each
\* step, in order, each by somebody its step was routed to, approvals all but
\* the last one.
DecisionsFit(t, row) ==
    LET n == Len(t)
        LastIs(action) == n > 0 /\ t[n].action = action
    IN
    /\ \A k \in 1 .. n :
        /\ t[k].step = k - 1
        /\ k <= Len(row.steps)
        /\ MayDecide(t[k].actor, row.steps[k])
        /\ k < n => t[k].action = "approve"
    /\ row.status = "pending" => n = row.step /\ (n > 0 => LastIs("approve"))
    /\ row.status = "approved" => n = Len(row.steps) /\ LastIs("approve")
    /\ row.status = "rejected" => LastIs("reject")
    /\ row.status = "returned" => LastIs("return")

\* Only an approval of the last step approves an instance, after an approval of
\* every step before it; two approvers who act on one step at once do not both
\* count, and nothing is recorded once it is settled (workflowAction, FOR UPDATE).
TrailComplete == \A i \in Instances : DecisionsFit(trail[i], inst[i])

\* A decision that was let through is still the right one when it is committed:
\* its instance is pending on the step it was checked for, with the steps it was
\* checked against, and no two decisions hold one instance (FOR UPDATE OF i).
LockProtects ==
    /\ \A i \in Instances, r \in Requests : lock[i] = r <=> req[r].pc = "commit" /\ req[r].inst = i
    /\ \A r \in Requests : req[r].pc = "commit" =>
            LET q == req[r] IN
            /\ inst[q.inst].status = "pending"
            /\ q.step = inst[q.inst].step
            /\ q.steps = inst[q.inst].steps
            /\ q.step < Len(q.steps)
            /\ MayDecide(q.user, q.steps[q.step + 1])

NoSelfDecision ==
    \A i \in Instances : \A k \in 1 .. Len(trail[i]) :
        trail[i][k].action # "return" => trail[i][k].actor # inst[i].by

\* While separation of duties is on nobody approves or rejects a request of
\* their own, at any step (workflowAction).
SeparationOfDuties == []blockSelf => []NoSelfDecision

Covered == \A a \in Amounts : \E d \in Definitions : Matches(d, a)

ApprovedWasDecided ==
    \A o \in Objects :
        status[o] = "approved" => \E i \in Instances : inst[i].object = o /\ inst[i].status = "approved"

\* As long as the workflow is on and some rule matches every object, an object
\* reads approved only if an approval of it went through all of its steps; no
\* sequence of creates, updates, submissions and confirmations gets around it
\* (refusedWorkflowStatus, submitObject).
NoWayAround == [](approvalOn /\ Covered) => []ApprovedWasDecided

\* Every approval request is the abstract one of ApprovalCase: it is decided
\* step by step on the route it was opened with and is final once settled.
Case == INSTANCE ApprovalCase WITH
            Cases <- Instances,
            Roles <- StepRoles,
            phase <- [i \in Instances |-> inst[i].status],
            route <- [i \in Instances |-> inst[i].steps],
            trail <- trail
ImplementsCase == Case!CaseSpec

\* Every request is answered: no handler waits for ever for a row lock another
\* one took (workflowAction rolls back or commits on every path).
RequestsEnd == \A r \in Requests : req[r].pc # "idle" ~> req[r].pc = "idle"

(***************************************************************************)
(* What comments of the source say and the code does not keep              *)
(***************************************************************************)
AllIdle == \A r \in Requests : req[r].pc = "idle"

\* workflowOwnedStatus: "submitObject moves an object to pending_approval, and
\* workflowAction settles it": once every request is answered an object that
\* reads pending_approval has an approval to be settled by.
PendingIsInAnInbox ==
    AllIdle => \A o \in Objects : status[o] = "pending_approval" => Pending(o) # {}

\* submitObject: an open approval never leaves the object unaware of it, or
\* "approvers see a request the object does not know about".
InboxIsKnown ==
    AllIdle => \A o \in Objects : Pending(o) # {} => status[o] = "pending_approval"
=============================================================================
