--------------------------- MODULE ApprovalProofs ---------------------------
(***************************************************************************)
(* Theorems about Approval, for every value of its constants.  The         *)
(* invariant is built in layers: what the handlers hold is well-typed      *)
(* (TypeInv), and the row locks protect what a decision read (LockInv).    *)
(* ApprovalRefinement adds that the recorded decisions agree with their    *)
(* instance, ApprovalPolicies what the administrator's switches buy.       *)
(***************************************************************************)
EXTENDS Approval, TLAPS

(***************************************************************************)
(* Types                                                                   *)
(***************************************************************************)
\* What a handler holds at each of its statements.
HandlerOK(q) ==
    /\ q.pc \in {"lock", "commit"} => q.user \in Users /\ q.inst \in Instances /\ q.action \in Actions
    /\ q.pc \in {"mark", "cleanup"} => q.inst \in Instances
    /\ q.pc \in Submitting \cup {"mark", "cleanup"} => q.user \in Users /\ q.object \in Objects
    /\ q.pc = "insert" => q.def \in Definitions
    /\ q.pc \in {"workflow", "insert"} => q.steps # <<>>

HandlersOK == \A r \in Requests : HandlerOK(req[r])

\* Rules are saved with steps, and so is every copy of them.
RulesOK == \A d \in Definitions : def[d].version > 0 => def[d].steps # <<>>

TypeInv == TypeOK /\ HandlersOK /\ RulesOK

LEMMA IdleTyped == Idle \in Handler /\ HandlerOK(Idle)
  BY DEF Idle, Handler, HandlerOK, PCs, Submitting, Routes, Actions

\* Become(r, state) changes the handler in slot r and no other.
LEMMA BecomeTyped ==
    ASSUME req \in [Requests -> Handler], HandlersOK,
           NEW r \in Requests, NEW state \in Handler, HandlerOK(state), Become(r, state)
    PROVE  /\ req' \in [Requests -> Handler]
           /\ HandlersOK'
           /\ \A s \in Requests : req'[s] = IF s = r THEN state ELSE req[s]
  BY DEF Become, HandlersOK

LEMMA FinishTyped ==
    ASSUME req \in [Requests -> Handler], HandlersOK, NEW r \in Requests, Finish(r)
    PROVE  /\ req' \in [Requests -> Handler]
           /\ HandlersOK'
           /\ \A s \in Requests : req'[s] = IF s = r THEN Idle ELSE req[s]
  BY IdleTyped, BecomeTyped DEF Finish

\* Moving on to another statement keeps every local variable.
LEMMA GotoTyped ==
    ASSUME req \in [Requests -> Handler], HandlersOK,
           NEW r \in Requests, NEW pc \in PCs, HandlerOK([req[r] EXCEPT !.pc = pc]), Goto(r, pc)
    PROVE  /\ req' \in [Requests -> Handler]
           /\ HandlersOK'
           /\ \A s \in Requests : req'[s] = IF s = r THEN [req[r] EXCEPT !.pc = pc] ELSE req[s]
<1>1. [req[r] EXCEPT !.pc = pc] \in Handler
  BY DEF Handler
<1> QED
  BY <1>1, BecomeTyped DEF Goto

LEMMA TypeInit == Init => TypeInv
<1> SUFFICES ASSUME Init PROVE TypeInv
  OBVIOUS
<1>1. def \in [Definitions -> RuleRow] /\ RulesOK
  <2>1. NoDefinition \in RuleRow
    BY DEF NoDefinition, RuleRow, Routes
  <2>2. \A w \in Rows : ValidSteps(w.steps) =>
            [on |-> w.on, matches |-> w.matches, steps |-> w.steps, version |-> 1] \in RuleRow
    BY ConstantsAssumption DEF RuleRow
  <2>3. ASSUME NEW d \in Definitions
        PROVE  def[d] \in RuleRow /\ (def[d].version > 0 => def[d].steps # <<>>)
    <3>1. CASE def[d] = NoDefinition
      BY <2>1, <3>1 DEF NoDefinition
    <3>2. CASE def[d] # NoDefinition
      <4>1. PICK w \in Rows : ValidSteps(w.steps) /\
                def[d] = [on |-> w.on, matches |-> w.matches, steps |-> w.steps, version |-> 1]
        BY <3>2 DEF Init
      <4> QED
        BY <2>2, <4>1 DEF ValidSteps
    <3> QED
      BY <3>1, <3>2
  <2>4. def = [d \in Definitions |-> def[d]]
    BY DEF Init
  <2> QED
    BY <2>3, <2>4 DEF RulesOK
<1>2. inst \in [Instances -> InstanceRow]
  BY DEF Init, NoInstance, InstanceRow, Routes
<1>3. trail \in [Instances -> Seq(Decision)]
  BY DEF Init
<1>4. req \in [Requests -> Handler] /\ HandlersOK
  BY IdleTyped DEF Init, HandlersOK, Idle, Submitting
<1>5. /\ status \in [Objects -> Status \cup {"none"}]
      /\ amount \in [Objects -> Amounts \cup {Nil}]
      /\ lock \in [Instances -> Requests \cup {Nil}]
  BY DEF Init
<1> QED
  BY <1>1, <1>2, <1>3, <1>4, <1>5 DEF Init, TypeInv, TypeOK

(***************************************************************************)
(* Steps that write a table keep its type                                  *)
(***************************************************************************)
LEMMA RulesType ==
    ASSUME TypeInv,
           \/ \E d \in Definitions, row \in Rows : CreateWorkflow(d, row)
           \/ \E r \in Requests : WriteWorkflow(r)
    PROVE  def' \in [Definitions -> RuleRow] /\ RulesOK'
<1>1. CASE \E d \in Definitions, row \in Rows : CreateWorkflow(d, row)
  <2>1. PICK d \in Definitions, row \in Rows : CreateWorkflow(d, row)
    BY <1>1
  <2>2. [on |-> row.on, matches |-> row.matches, steps |-> row.steps, version |-> 1] \in RuleRow
    BY ConstantsAssumption DEF RuleRow
  <2> QED
    BY <2>1, <2>2 DEF CreateWorkflow, ValidSteps, RulesOK, TypeInv, TypeOK
<1>2. CASE \E r \in Requests : WriteWorkflow(r)
  <2>1. PICK r \in Requests : WriteWorkflow(r)
    BY <1>2
  <2>2. req[r] \in Handler /\ req[r].steps # <<>>
    BY <2>1 DEF WriteWorkflow, TypeInv, TypeOK, HandlersOK, HandlerOK
  <2>3. ASSUME NEW d \in Definitions
        PROVE  [on |-> req[r].on, matches |-> req[r].matches, steps |-> req[r].steps,
                version |-> def[d].version + 1] \in RuleRow
    <3>1. def[d].version \in Nat
      BY DEF TypeInv, TypeOK, RuleRow
    <3>2. def[d].version + 1 \in Nat
      BY <3>1
    <3>3. req[r].on \in BOOLEAN /\ req[r].matches \in SUBSET Amounts /\ req[r].steps \in Routes
      BY <2>2 DEF Handler
    <3> QED
      BY <3>2, <3>3 DEF RuleRow
  <2> QED
    BY <2>1, <2>2, <2>3 DEF WriteWorkflow, RulesOK, TypeInv, TypeOK
<1> QED
  BY <1>1, <1>2

\* An update or a commit writes a status of the program's vocabulary.
LEMMA StatusType ==
    ASSUME TypeInv,
           \/ \E u \in Users, o \in Objects, c \in Status \cup {""}, a \in Amounts : CreateObject(u, o, c, a)
           \/ \E o \in Objects : ConfirmOrder(o)
           \/ \E r \in Requests : WriteObject(r) \/ SubmitAuto(r) \/ SubmitMark(r) \/ ActionCommit(r)
    PROVE  status' \in [Objects -> Status \cup {"none"}]
<1> USE DEF TypeInv, TypeOK, Status, Owned
<1>1. ASSUME NEW u \in Users, NEW o \in Objects, NEW c \in Status \cup {""}, NEW a \in Amounts,
             CreateObject(u, o, c, a)
      PROVE  status' \in [Objects -> Status \cup {"none"}]
  BY <1>1, ConstantsAssumption DEF CreateObject
<1>2. ASSUME NEW o \in Objects, ConfirmOrder(o)
      PROVE  status' \in [Objects -> Status \cup {"none"}]
  BY <1>2, ConstantsAssumption DEF ConfirmOrder
<1>3. ASSUME NEW r \in Requests, WriteObject(r)
      PROVE  status' \in [Objects -> Status \cup {"none"}]
  <2>1. req[r].status \in Status \cup {""}
    BY DEF Handler
  <2> QED
    BY <1>3, <2>1 DEF WriteObject
<1>4. ASSUME NEW r \in Requests, SubmitAuto(r) \/ SubmitMark(r)
      PROVE  status' \in [Objects -> Status \cup {"none"}]
  BY <1>4 DEF SubmitAuto, SubmitMark
<1>5. ASSUME NEW r \in Requests, ActionCommit(r)
      PROVE  status' \in [Objects -> Status \cup {"none"}]
  <2>1. req[r].action \in Actions
    BY <1>5 DEF ActionCommit, HandlersOK, HandlerOK
  <2>2. Outcome(req[r]) \in {"approved", "rejected", "returned", "pending"}
    BY <2>1 DEF Outcome, Actions
  <2> QED
    BY <1>5, <2>2 DEF ActionCommit
<1> QED
  BY <1>1, <1>2, <1>3, <1>4, <1>5

(***************************************************************************)
(* Steps that call, finish or move a handler keep the handlers well-typed  *)
(***************************************************************************)
LEMMA CallTyped ==
    ASSUME TypeInv, NEW r \in Requests,
           \/ \E d \in Definitions, row \in Rows, fields \in SUBSET {"on", "matches", "steps"} :
                ReadWorkflow(r, d, row, fields)
           \/ \E u \in Users, o \in Objects, c \in Status \cup {""}, a \in Amounts \cup {Nil} :
                ReadObject(r, u, o, c, a)
           \/ \E u \in Users, o \in Objects : SubmitRead(r, u, o)
           \/ \E u \in Users, i \in Instances, action \in Actions : ActionBegin(r, u, i, action)
    PROVE  req' \in [Requests -> Handler] /\ HandlersOK'
<1> USE DEF TypeInv, TypeOK
<1>1. ASSUME NEW d \in Definitions, NEW row \in Rows, NEW fields \in SUBSET {"on", "matches", "steps"},
             ReadWorkflow(r, d, row, fields)
      PROVE  req' \in [Requests -> Handler] /\ HandlersOK'
  <2> DEFINE on == IF "on" \in fields THEN row.on ELSE def[d].on
             matches == IF "matches" \in fields THEN row.matches ELSE def[d].matches
             steps == IF "steps" \in fields THEN row.steps ELSE def[d].steps
             state == [Idle EXCEPT !.pc = "workflow", !.def = d, !.on = on, !.matches = matches, !.steps = steps]
  <2>1. def[d] \in RuleRow /\ row \in [on: BOOLEAN, matches: SUBSET Amounts, steps: Routes]
    BY ConstantsAssumption
  <2>2. on \in BOOLEAN /\ matches \in SUBSET Amounts /\ steps \in Routes
    BY <2>1 DEF RuleRow
  <2>3. steps # <<>>
    <3>1. def[d].version > 0
      BY <1>1 DEF ReadWorkflow
    <3> QED
      BY <1>1, <3>1 DEF ReadWorkflow, ValidSteps, RulesOK
  <2>4. state \in Handler
    <3> HIDE DEF on, matches, steps
    <3> QED
      BY <2>2, IdleTyped DEF Handler, PCs, Idle
  <2>5. HandlerOK(state)
    <3> HIDE DEF on, matches, steps
    <3> QED
      BY <2>3 DEF HandlerOK, Idle, Submitting
  <2> QED
    BY <1>1, <2>4, <2>5, BecomeTyped DEF ReadWorkflow
<1>2. ASSUME NEW u \in Users, NEW o \in Objects, NEW c \in Status \cup {""}, NEW a \in Amounts \cup {Nil},
             ReadObject(r, u, o, c, a)
      PROVE  req' \in [Requests -> Handler] /\ HandlersOK'
  <2> DEFINE state == [Idle EXCEPT !.pc = "update", !.user = u, !.object = o, !.status = c, !.amount = a]
  <2>1. state \in Handler /\ HandlerOK(state)
    BY IdleTyped DEF Handler, PCs, HandlerOK, Idle, Submitting
  <2> QED
    BY <1>2, <2>1, BecomeTyped DEF ReadObject
<1>3. ASSUME NEW u \in Users, NEW o \in Objects, SubmitRead(r, u, o)
      PROVE  req' \in [Requests -> Handler] /\ HandlersOK'
  <2> DEFINE state == [Idle EXCEPT !.pc = "setting", !.user = u, !.object = o, !.amount = amount[o]]
  <2>1. amount[o] \in Amounts \cup {Nil}
    OBVIOUS
  <2>2. state \in Handler /\ HandlerOK(state)
    BY <2>1, IdleTyped DEF Handler, PCs, HandlerOK, Idle, Submitting
  <2> QED
    BY <1>3, <2>2, BecomeTyped DEF SubmitRead
<1>4. ASSUME NEW u \in Users, NEW i \in Instances, NEW action \in Actions, ActionBegin(r, u, i, action)
      PROVE  req' \in [Requests -> Handler] /\ HandlersOK'
  <2> DEFINE state == [Idle EXCEPT !.pc = "lock", !.user = u, !.inst = i, !.action = action]
  <2>1. state \in Handler /\ HandlerOK(state)
    BY IdleTyped DEF Handler, PCs, HandlerOK, Idle, Submitting
  <2> QED
    BY <1>4, <2>1, BecomeTyped DEF ActionBegin
<1> QED
  BY <1>1, <1>2, <1>3, <1>4

LEMMA ProceedTyped ==
    ASSUME TypeInv, NEW r \in Requests, Proceed(r)
    PROVE  req' \in [Requests -> Handler] /\ HandlersOK'
<1> USE DEF TypeInv, TypeOK
<1>1. CASE Finish(r)
  BY <1>1, FinishTyped
<1>2. CASE SubmitSetting(r) \/ SubmitCheck(r)
  <2>1. HandlerOK(req[r])
    BY DEF HandlersOK
  <2>2. req[r].pc \in {"setting", "check"}
    BY <1>2 DEF SubmitSetting, SubmitCheck
  <2>3. ASSUME NEW pc \in {"auto", "check", "match"}
        PROVE  HandlerOK([req[r] EXCEPT !.pc = pc]) /\ pc \in PCs
    BY <2>1, <2>2 DEF HandlerOK, Handler, Submitting, PCs
  <2> QED
    BY <1>1, <1>2, <2>3, GotoTyped DEF SubmitSetting, SubmitCheck
<1>3. CASE SubmitMatch(r)
  <2>1. HandlerOK(req[r]) /\ req[r].pc = "match" /\ req[r] \in Handler
    BY <1>3 DEF HandlersOK, SubmitMatch
  <2>2. CASE Goto(r, "auto")
    <3>1. HandlerOK([req[r] EXCEPT !.pc = "auto"]) /\ "auto" \in PCs
      BY <2>1 DEF HandlerOK, Handler, Submitting, PCs
    <3> QED
      BY <2>2, <3>1, GotoTyped
  <2>3. ASSUME NEW d \in FirstMatches(req[r].amount),
               Become(r, [req[r] EXCEPT !.pc = "insert", !.def = d, !.steps = def[d].steps])
        PROVE  req' \in [Requests -> Handler] /\ HandlersOK'
    <3>1. d \in Definitions /\ def[d] \in RuleRow /\ def[d].steps # <<>>
      BY DEF FirstMatches, Matches, RulesOK
    <3>2. [req[r] EXCEPT !.pc = "insert", !.def = d, !.steps = def[d].steps] \in Handler
      BY <2>1, <3>1 DEF Handler, RuleRow, PCs, Submitting
    <3>3. HandlerOK([req[r] EXCEPT !.pc = "insert", !.def = d, !.steps = def[d].steps])
      BY <2>1, <3>1 DEF HandlerOK, Handler, Submitting
    <3> QED
      BY <2>3, <3>2, <3>3, BecomeTyped
  <2> QED
    BY <1>3, <2>2, <2>3 DEF SubmitMatch
<1>4. CASE SubmitInsert(r)
  <2>1. HandlerOK(req[r]) /\ req[r].pc = "insert" /\ req[r] \in Handler
    BY <1>4 DEF HandlersOK, SubmitInsert
  <2>2. ASSUME NEW i \in Instances, Become(r, [req[r] EXCEPT !.pc = "mark", !.inst = i])
        PROVE  req' \in [Requests -> Handler] /\ HandlersOK'
    <3>1. [req[r] EXCEPT !.pc = "mark", !.inst = i] \in Handler
      BY <2>1 DEF Handler, PCs
    <3>2. HandlerOK([req[r] EXCEPT !.pc = "mark", !.inst = i])
      BY <2>1 DEF HandlerOK, Handler, Submitting
    <3> QED
      BY <2>2, <3>1, <3>2, BecomeTyped
  <2> QED
    BY <1>1, <1>4, <2>2 DEF SubmitInsert
<1>5. CASE ActionLock(r)
  <2> DEFINE i == req[r].inst
             state == [req[r] EXCEPT !.pc = "commit", !.step = inst[i].step, !.steps = InstanceSteps(i)]
  <2>1. HandlerOK(req[r]) /\ req[r].pc = "lock" /\ req[r] \in Handler
    BY <1>5 DEF HandlersOK, ActionLock
  <2>2. CASE Become(r, state)
    <3>1. inst[i] \in InstanceRow
      BY <2>1 DEF HandlerOK
    <3>2. InstanceSteps(i) \in Routes
      <4>1. CASE inst[i].def = Nil
        BY <3>1, <4>1 DEF InstanceSteps, InstanceRow
      <4>2. CASE inst[i].def # Nil
        <5>1. def[inst[i].def] \in RuleRow
          BY <3>1, <4>2 DEF InstanceRow
        <5> QED
          BY <3>1, <5>1 DEF InstanceSteps, InstanceRow, RuleRow
      <4> QED
        BY <4>1, <4>2
    <3>3. inst[i].step \in Nat
      BY <3>1 DEF InstanceRow
    <3>4. state \in Handler
      BY <2>1, <3>2, <3>3 DEF Handler, PCs
    <3>5. HandlerOK(state)
      BY <2>1 DEF HandlerOK, Handler, Submitting
    <3> QED
      BY <2>2, <3>4, <3>5, BecomeTyped
  <2> QED
    BY <1>1, <1>5, <2>2 DEF ActionLock
<1> QED
  BY <1>1, <1>2, <1>3, <1>4, <1>5
     DEF Proceed, WriteWorkflow, WriteObject, SubmitAuto, SubmitMark, SubmitCleanup, ActionCommit

LEMMA FaultTyped ==
    ASSUME TypeInv, NEW r \in Requests, StatementFails(r) \/ Crash(r)
    PROVE  /\ req' \in [Requests -> Handler] /\ HandlersOK'
           /\ lock' \in [Instances -> Requests \cup {Nil}]
<1> USE DEF TypeInv, TypeOK
<1>1. CASE Finish(r)
  BY <1>1, FinishTyped DEF StatementFails, Crash, Release
<1>2. CASE StatementFails(r) /\ req[r].pc = "check" /\ Goto(r, "match")
  <2>1. HandlerOK([req[r] EXCEPT !.pc = "match"]) /\ "match" \in PCs
    BY <1>2 DEF HandlersOK, HandlerOK, Handler, Submitting, PCs
  <2> QED
    BY <1>2, <2>1, GotoTyped DEF StatementFails, Release
<1>3. CASE StatementFails(r) /\ req[r].pc = "mark" /\ Goto(r, "cleanup")
  <2>1. HandlerOK([req[r] EXCEPT !.pc = "cleanup"]) /\ "cleanup" \in PCs
    BY <1>3 DEF HandlersOK, HandlerOK, Handler, Submitting, PCs
  <2> QED
    BY <1>3, <2>1, GotoTyped DEF StatementFails, Release
<1> QED
  BY <1>1, <1>2, <1>3 DEF StatementFails, Crash

(***************************************************************************)
(* Steps that write an instance, its decisions or its row lock             *)
(***************************************************************************)
LEMMA InstanceTyped ==
    ASSUME TypeInv, NEW r \in Requests,
           SubmitInsert(r) \/ SubmitCleanup(r) \/ ActionLock(r) \/ ActionCommit(r)
    PROVE  /\ inst' \in [Instances -> InstanceRow]
           /\ trail' \in [Instances -> Seq(Decision)]
           /\ lock' \in [Instances -> Requests \cup {Nil}]
<1> USE DEF TypeInv, TypeOK
<1>0. HandlerOK(req[r]) /\ req[r] \in Handler
  BY DEF HandlersOK
<1>1. CASE SubmitInsert(r)
  <2>1. req[r].user \in Users /\ req[r].object \in Objects /\ req[r].def \in Definitions /\ req[r].steps \in Routes
    BY <1>0, <1>1 DEF SubmitInsert, HandlerOK, Handler, Submitting
  <2>2. [status |-> "pending", object |-> req[r].object, def |-> req[r].def,
         by |-> req[r].user, steps |-> req[r].steps, step |-> 0] \in InstanceRow
    BY <2>1 DEF InstanceRow
  <2> QED
    BY <1>1, <2>2 DEF SubmitInsert
<1>2. CASE SubmitCleanup(r)
  <2>1. req[r].inst \in Instances
    BY <1>0, <1>2 DEF SubmitCleanup, HandlerOK
  <2>2. [inst[req[r].inst] EXCEPT !.status = "withdrawn"] \in InstanceRow
    <3>1. inst[req[r].inst] \in InstanceRow
      BY <2>1
    <3> QED
      BY <3>1 DEF InstanceRow
  <2>3. <<>> \in Seq(Decision)
    OBVIOUS
  <2> QED
    BY <1>2, <2>1, <2>2, <2>3 DEF SubmitCleanup
<1>3. CASE ActionLock(r)
  BY <1>3 DEF ActionLock
<1>4. CASE ActionCommit(r)
  <2>1. req[r].inst \in Instances /\ req[r].user \in Users /\ req[r].action \in Actions /\ req[r].step \in Nat
    BY <1>0, <1>4 DEF ActionCommit, HandlerOK, Handler
  <2> DEFINE i == req[r].inst
             decision == [step |-> req[r].step, action |-> req[r].action, actor |-> req[r].user]
  <2>2. decision \in Decision
    BY <2>1 DEF Decision
  <2>3. Append(trail[i], decision) \in Seq(Decision)
    <3>1. trail[i] \in Seq(Decision)
      BY <2>1
    <3> QED
      BY <2>2, <3>1
  <2>4. Outcome(req[r]) \in {"approved", "rejected", "returned", "pending"}
    BY <2>1 DEF Outcome, Actions
  <2>5. inst[i] \in InstanceRow
    BY <2>1
  <2>6. [inst[i] EXCEPT !.step = inst[i].step + 1] \in InstanceRow
    <3>1. inst[i].step + 1 \in Nat
      BY <2>5 DEF InstanceRow
    <3> QED
      BY <2>5, <3>1 DEF InstanceRow
  <2>7. ASSUME NEW s \in {"approved", "rejected", "returned"}
        PROVE  [inst[i] EXCEPT !.status = s] \in InstanceRow
    BY <2>5 DEF InstanceRow
  <2>8. inst' \in [Instances -> InstanceRow]
    BY <1>4, <2>1, <2>4, <2>6, <2>7 DEF ActionCommit
  <2>9. trail' \in [Instances -> Seq(Decision)]
    <3> HIDE DEF decision
    <3> QED
      BY <1>4, <2>1, <2>3 DEF ActionCommit, decision
  <2> QED
    BY <1>4, <2>1, <2>8, <2>9 DEF ActionCommit
<1> QED
  BY <1>1, <1>2, <1>3, <1>4

LEMMA AmountTyped ==
    ASSUME TypeInv,
           \/ \E u \in Users, o \in Objects, c \in Status \cup {""}, a \in Amounts : CreateObject(u, o, c, a)
           \/ \E r \in Requests : WriteObject(r)
    PROVE  amount' \in [Objects -> Amounts \cup {Nil}]
  BY DEF TypeInv, TypeOK, CreateObject, WriteObject, Handler

(***************************************************************************)
(* Type correctness                                                        *)
(***************************************************************************)
LEMMA TypeNext == TypeInv /\ [Next]_vars => TypeInv'
<1> SUFFICES ASSUME TypeInv, [Next]_vars PROVE TypeInv'
  OBVIOUS
<1> USE DEF TypeInv
<1>1. ASSUME NEW d \in Definitions, NEW row \in Rows, CreateWorkflow(d, row) PROVE TypeInv'
  BY <1>1, RulesType DEF CreateWorkflow, TypeOK, settings, HandlersOK
<1>2. ASSUME NEW b \in BOOLEAN, SetApproval(b) \/ SetBlockSelf(b) PROVE TypeInv'
  BY <1>2 DEF SetApproval, SetBlockSelf, TypeOK, settings, HandlersOK, RulesOK
<1>3. ASSUME NEW u \in Users, NEW o \in Objects, NEW c \in Status \cup {""}, NEW a \in Amounts,
             CreateObject(u, o, c, a)
      PROVE  TypeInv'
  BY <1>3, StatusType, AmountTyped DEF CreateObject, TypeOK, settings, HandlersOK, RulesOK
<1>4. ASSUME NEW o \in Objects, ConfirmOrder(o) PROVE TypeInv'
  BY <1>4, StatusType DEF ConfirmOrder, TypeOK, settings, HandlersOK, RulesOK
<1>5. ASSUME NEW r \in Requests,
             \/ \E d \in Definitions, row \in Rows, fields \in SUBSET {"on", "matches", "steps"} :
                   ReadWorkflow(r, d, row, fields)
             \/ \E u \in Users, o \in Objects, c \in Status \cup {""}, a \in Amounts \cup {Nil} :
                   ReadObject(r, u, o, c, a)
             \/ \E u \in Users, o \in Objects : SubmitRead(r, u, o)
             \/ \E u \in Users, i \in Instances, action \in Actions : ActionBegin(r, u, i, action)
      PROVE  TypeInv'
  <2>1. req' \in [Requests -> Handler] /\ HandlersOK'
    BY <1>5, CallTyped
  <2>2. UNCHANGED <<status, amount, settings, def, inst, trail, lock>>
    BY <1>5 DEF ReadWorkflow, ReadObject, SubmitRead, ActionBegin
  <2> QED
    BY <2>1, <2>2 DEF TypeOK, settings, RulesOK
<1>6. ASSUME NEW r \in Requests, StatementFails(r) \/ Crash(r) PROVE TypeInv'
  <2>1. UNCHANGED <<status, amount, settings, def, inst, trail>>
    BY <1>6 DEF StatementFails, Crash
  <2> QED
    BY <1>6, <2>1, FaultTyped DEF TypeOK, settings, RulesOK
<1>7. ASSUME NEW r \in Requests, Proceed(r) PROVE TypeInv'
  <2>1. req' \in [Requests -> Handler] /\ HandlersOK'
    BY <1>7, ProceedTyped
  <2>2. CASE WriteWorkflow(r)
    BY <2>1, <2>2, RulesType DEF WriteWorkflow, TypeOK, settings
  <2>3. CASE WriteObject(r)
    BY <2>1, <2>3, StatusType, AmountTyped DEF WriteObject, TypeOK, settings, RulesOK
  <2>4. CASE SubmitSetting(r) \/ SubmitCheck(r) \/ SubmitMatch(r)
    BY <2>1, <2>4 DEF SubmitSetting, SubmitCheck, SubmitMatch, TypeOK, settings, RulesOK
  <2>5. CASE SubmitAuto(r) \/ SubmitMark(r)
    BY <2>1, <2>5, StatusType DEF SubmitAuto, SubmitMark, TypeOK, settings, RulesOK
  <2>6. CASE SubmitInsert(r) \/ SubmitCleanup(r) \/ ActionLock(r)
    BY <2>1, <2>6, InstanceTyped DEF SubmitInsert, SubmitCleanup, ActionLock, TypeOK, settings, RulesOK
  <2>7. CASE ActionCommit(r)
    BY <2>1, <2>7, InstanceTyped, StatusType DEF ActionCommit, TypeOK, settings, RulesOK
  <2> QED
    BY <1>7, <2>2, <2>3, <2>4, <2>5, <2>6, <2>7 DEF Proceed
<1>8. CASE UNCHANGED vars
  BY <1>8 DEF vars, TypeOK, HandlersOK, RulesOK
<1> QED
  BY <1>1, <1>2, <1>3, <1>4, <1>5, <1>6, <1>7, <1>8 DEF Next, Call, Fault

\* Every column and every handler variable keeps its type, and a handler has at
\* each statement the values that statement uses.
THEOREM TypeCorrect == Spec => []TypeOK
<1>1. TypeInv => TypeOK
  BY DEF TypeInv
<1> QED
  BY <1>1, TypeInit, TypeNext, PTL DEF Spec

(***************************************************************************)
(* One approval in flight for an object                                    *)
(***************************************************************************)
\* No step but SubmitInsert makes an instance pending.
LEMMA PendingOnlyOpens ==
    ASSUME TypeInv, [Next]_vars, NEW i \in Instances, inst'[i].status = "pending"
    PROVE  \/ inst[i].status = "pending" /\ inst'[i].object = inst[i].object
           \/ \E r \in Requests : /\ SubmitInsert(r)
                                  /\ UniquePending(req[r].object)
                                  /\ inst'[i].object = req[r].object
                                  /\ \A j \in Instances \ {i} : inst'[j] = inst[j]
<1>1. CASE UNCHANGED inst
  BY <1>1
<1>2. ASSUME NEW r \in Requests, SubmitInsert(r), ~UNCHANGED inst
      PROVE  \/ inst[i].status = "pending" /\ inst'[i].object = inst[i].object
             \/ /\ UniquePending(req[r].object)
                /\ inst'[i].object = req[r].object
                /\ \A j \in Instances \ {i} : inst'[j] = inst[j]
  <2>1. PICK j \in Instances :
            inst' = [inst EXCEPT ![j] = [status |-> "pending", object |-> req[r].object, def |-> req[r].def,
                                         by |-> req[r].user, steps |-> req[r].steps, step |-> 0]]
    BY <1>2 DEF SubmitInsert
  <2> QED
    BY <1>2, <2>1 DEF SubmitInsert, TypeInv, TypeOK
<1>3. ASSUME NEW r \in Requests, SubmitCleanup(r)
      PROVE  inst[i].status = "pending" /\ inst'[i].object = inst[i].object
  BY <1>3 DEF SubmitCleanup, TypeInv, TypeOK, InstanceRow
<1>4. ASSUME NEW r \in Requests, ActionCommit(r)
      PROVE  inst[i].status = "pending" /\ inst'[i].object = inst[i].object
  <2>1. req[r].inst \in Instances /\ req[r].action \in Actions
    BY <1>4 DEF ActionCommit, TypeInv, HandlersOK, HandlerOK
  <2>2. Outcome(req[r]) \in {"approved", "rejected", "returned", "pending"}
    BY <2>1 DEF Outcome, Actions
  <2> QED
    BY <1>4, <2>1, <2>2 DEF ActionCommit, TypeInv, TypeOK, InstanceRow
<1> QED
  BY <1>1, <1>2, <1>3, <1>4
     DEF Next, Call, Fault, Proceed, vars, CreateWorkflow, SetApproval, SetBlockSelf, CreateObject,
         ConfirmOrder, ReadWorkflow, ReadObject, SubmitRead, ActionBegin, StatementFails, Crash,
         WriteWorkflow, WriteObject, SubmitSetting, SubmitAuto, SubmitCheck, SubmitMatch, SubmitMark, ActionLock

LEMMA OnePendingNext == TypeInv /\ OnePending /\ [Next]_vars => OnePending'
<1> SUFFICES ASSUME TypeInv, OnePending, [Next]_vars,
                    NEW o \in Objects, NEW i \in Instances, NEW j \in Instances,
                    inst'[i].status = "pending", inst'[i].object = o,
                    inst'[j].status = "pending", inst'[j].object = o
             PROVE  i = j
  BY DEF OnePending, Pending
<1>1. CASE inst[i].status = "pending" /\ inst[i].object = o /\ inst[j].status = "pending" /\ inst[j].object = o
  BY <1>1 DEF OnePending, Pending
<1>2. ASSUME NEW r \in Requests, UniquePending(req[r].object), NEW k \in {i, j},
             inst'[k].object = req[r].object,
             \A l \in Instances \ {k} : inst'[l] = inst[l]
      PROVE  i = j
  BY <1>2 DEF UniquePending, Pending
<1> QED
  BY <1>1, <1>2, PendingOnlyOpens

\* submitObject: whatever submissions race, an object never has two approvals
\* in flight.
THEOREM OnePendingAlways == Spec => []OnePending
<1>1. Init => OnePending
  BY DEF Init, OnePending, Pending, NoInstance
<1> QED
  BY <1>1, TypeInit, TypeNext, OnePendingNext, PTL DEF Spec

(***************************************************************************)
(* The row lock protects what a decision read                              *)
(***************************************************************************)
\* An instance has steps, and while it is pending it waits on one of them.
StepsOK ==
    \A i \in Instances :
        /\ inst[i].status # "none" => inst[i].steps # <<>>
        /\ inst[i].status = "pending" => inst[i].step < Len(inst[i].steps)

LockInv == TypeInv /\ StepsOK /\ LockProtects

\* The copied steps are the ones decisions follow.
LEMMA StepsAreCopied ==
    ASSUME StepsOK, NEW i \in Instances, inst[i].status = "pending"
    PROVE  InstanceSteps(i) = inst[i].steps
  BY DEF StepsOK, InstanceSteps

\* A step that touches no instance and no lock, and moves a handler that is not
\* at its commit to a statement that is not its commit.
LEMMA LockFrame ==
    ASSUME LockInv, TypeInv', UNCHANGED <<inst, lock>>, NEW r \in Requests,
           req[r].pc # "commit", req'[r].pc # "commit",
           \A s \in Requests \ {r} : req'[s] = req[s]
    PROVE  LockInv'
<1>1. StepsOK'
  BY DEF LockInv, StepsOK
<1>2. \A s \in Requests : req'[s].pc = "commit" => s # r /\ req[s].pc = "commit" /\ req'[s] = req[s]
  OBVIOUS
<1>3. \A s \in Requests : req[s].pc = "commit" => req'[s] = req[s]
  OBVIOUS
<1> QED
  BY <1>1, <1>2, <1>3 DEF LockInv, LockProtects

\* A request that ends before it holds a lock, at any statement.
LEMMA BecomeFrame ==
    ASSUME LockInv, TypeInv', UNCHANGED <<inst, lock>>, NEW r \in Requests, req[r].pc # "commit",
           NEW state, state.pc # "commit", Become(r, state)
    PROVE  LockInv'
<1>1. req'[r] = state /\ \A s \in Requests \ {r} : req'[s] = req[s]
  BY DEF Become, LockInv, TypeInv, TypeOK
<1> QED
  BY <1>1, LockFrame

LEMMA LockInsert ==
    ASSUME LockInv, TypeInv', NEW r \in Requests, SubmitInsert(r)
    PROVE  LockInv'
<1> USE DEF LockInv
<1>1. CASE UNCHANGED inst /\ Finish(r)
  <2>1. Idle.pc # "commit"
    BY DEF Idle
  <2> QED
    BY <1>1, <2>1, BecomeFrame DEF SubmitInsert, Finish
<1>2. ASSUME NEW i \in Instances, inst[i].status = "none",
             inst' = [inst EXCEPT ![i] = [status |-> "pending", object |-> req[r].object, def |-> req[r].def,
                                          by |-> req[r].user, steps |-> req[r].steps, step |-> 0]],
             Become(r, [req[r] EXCEPT !.pc = "mark", !.inst = i])
      PROVE  LockInv'
  <2>1. req[r].steps # <<>> /\ req[r].steps \in Routes
    BY <1>2 DEF SubmitInsert, TypeInv, TypeOK, HandlersOK, HandlerOK, Handler
  <2>2. 0 < Len(req[r].steps)
    BY <2>1 DEF Routes
  <2>3. StepsOK'
    BY <1>2, <2>1, <2>2 DEF StepsOK, TypeInv, TypeOK
  <2>4. req[r] \in Handler /\ req[r].pc = "insert"
    BY DEF SubmitInsert, TypeInv, TypeOK
  <2>5. req'[r].pc = "mark" /\ \A s \in Requests \ {r} : req'[s] = req[s]
    BY <1>2, <2>4 DEF Become, TypeInv, TypeOK, Handler
  <2>6. \A s \in Requests : req[s].pc = "commit" => req[s].inst # i
    BY <1>2 DEF LockProtects
  <2>7. \A s \in Requests : req[s].pc = "commit" => inst'[req[s].inst] = inst[req[s].inst]
    BY <1>2, <2>6 DEF TypeInv, TypeOK, HandlersOK, HandlerOK
  <2>8. lock' = lock
    BY DEF SubmitInsert
  <2>9. \A s \in Requests : (req'[s].pc = "commit" <=> req[s].pc = "commit")
                            /\ (req[s].pc = "commit" => req'[s] = req[s])
    BY <2>4, <2>5
  <2> QED
    BY <2>3, <2>7, <2>8, <2>9 DEF LockProtects
<1> QED
  BY <1>1, <1>2 DEF SubmitInsert

LEMMA LockCleanup ==
    ASSUME LockInv, TypeInv', NEW r \in Requests, SubmitCleanup(r)
    PROVE  LockInv'
<1> USE DEF LockInv
<1> DEFINE i == req[r].inst
<1>1. i \in Instances /\ req[r].pc = "cleanup" /\ lock[i] = Nil
  BY DEF SubmitCleanup, TypeInv, HandlersOK, HandlerOK
<1>2. \A s \in Requests : req[s].pc = "commit" => req[s].inst # i
  <2>1. \A s \in Requests : s # Nil
    BY ConstantsAssumption
  <2> QED
    BY <1>1, <2>1 DEF LockProtects
<1>3. \A s \in Requests : req[s].pc = "commit" => inst'[req[s].inst] = inst[req[s].inst]
  BY <1>2 DEF SubmitCleanup, TypeInv, TypeOK, HandlersOK, HandlerOK
<1>4. StepsOK'
  <2>1. \A k \in Instances : /\ inst'[k].steps = inst[k].steps
                             /\ inst'[k].step = inst[k].step
                             /\ inst'[k].status \in {inst[k].status, "withdrawn"}
                             /\ inst[k].status = "none" => inst'[k].status = "none"
    <3>1. CASE UNCHANGED inst
      BY <3>1
    <3>2. CASE inst[i].status = "pending" /\ inst' = [inst EXCEPT ![i].status = "withdrawn"]
      <4>1. inst \in [Instances -> InstanceRow] /\ inst[i] \in InstanceRow
        BY <1>1 DEF TypeInv, TypeOK
      <4>2. \A k \in Instances \ {i} : inst'[k] = inst[k]
        BY <3>2, <4>1
      <4>3. inst'[i] = [inst[i] EXCEPT !.status = "withdrawn"]
        BY <1>1, <3>2, <4>1
      <4>4. /\ inst'[i].steps = inst[i].steps /\ inst'[i].step = inst[i].step
            /\ inst'[i].status = "withdrawn" /\ inst[i].status # "none"
        BY <3>2, <4>1, <4>3 DEF InstanceRow
      <4> QED
        BY <4>2, <4>4
    <3> QED
      BY <3>1, <3>2 DEF SubmitCleanup
  <2> QED
    BY <2>1 DEF StepsOK
<1>5. req'[r].pc = "idle" /\ \A s \in Requests \ {r} : req'[s] = req[s]
  BY DEF SubmitCleanup, Finish, Become, TypeInv, TypeOK, Idle
<1>6. \A s \in Requests : (req'[s].pc = "commit" <=> req[s].pc = "commit")
                          /\ (req[s].pc = "commit" => req'[s] = req[s])
  <2> TAKE s \in Requests
  <2>1. CASE s = r
    BY <1>1, <1>5, <2>1
  <2>2. CASE s # r
    BY <1>5, <2>2
  <2> QED
    BY <2>1, <2>2
<1>7. lock' = lock
  BY DEF SubmitCleanup
<1> QED
  BY <1>3, <1>4, <1>6, <1>7 DEF LockProtects

LEMMA LockLock ==
    ASSUME LockInv, TypeInv', NEW r \in Requests, ActionLock(r)
    PROVE  LockInv'
<1> USE DEF LockInv
<1> DEFINE i == req[r].inst
           state == [req[r] EXCEPT !.pc = "commit", !.step = inst[i].step, !.steps = InstanceSteps(i)]
<1>1. i \in Instances /\ req[r].pc = "lock" /\ lock[i] = Nil /\ req[r] \in Handler
  BY DEF ActionLock, TypeInv, TypeOK, HandlersOK, HandlerOK
<1>2. CASE ~ActionAllowed(req[r].user, i, req[r].action)
  <2>1. Idle.pc # "commit"
    BY DEF Idle
  <2>2. UNCHANGED <<inst, lock>> /\ Become(r, Idle)
    BY <1>2 DEF ActionLock, Finish
  <2> QED
    BY <1>1, <2>1, <2>2, BecomeFrame
<1>3. CASE ActionAllowed(req[r].user, i, req[r].action)
  <2>1. inst[i].status = "pending" /\ InstanceSteps(i) = inst[i].steps
    BY <1>1, <1>3, StepsAreCopied DEF ActionAllowed
  <2>2. lock' = [lock EXCEPT ![i] = r] /\ Become(r, state)
    BY <1>3 DEF ActionLock
  <2>3. /\ req'[r] = state
        /\ \A s \in Requests \ {r} : req'[s] = req[s]
    <3> HIDE DEF state
    <3> QED
      BY <2>2 DEF Become, TypeInv, TypeOK
  <2>4. /\ state.pc = "commit" /\ state.inst = i /\ state.user = req[r].user
        /\ state.step = inst[i].step /\ state.steps = inst[i].steps
    BY <1>1, <2>1 DEF Handler
  <2>5. state.step < Len(state.steps) /\ MayDecide(state.user, state.steps[state.step + 1])
    BY <1>3, <2>1, <2>4 DEF ActionAllowed
  <2>6. inst' = inst /\ StepsOK'
    BY DEF ActionLock, StepsOK
  <2>7. \A s \in Requests : req'[s].pc = "commit" =>
            /\ inst'[req'[s].inst].status = "pending"
            /\ req'[s].step = inst'[req'[s].inst].step
            /\ req'[s].steps = inst'[req'[s].inst].steps
            /\ req'[s].step < Len(req'[s].steps)
            /\ MayDecide(req'[s].user, req'[s].steps[req'[s].step + 1])
    <3> HIDE DEF state
    <3> TAKE s \in Requests
    <3>1. CASE s = r
      BY <2>1, <2>3, <2>4, <2>5, <2>6, <3>1
    <3>2. CASE s # r
      BY <2>3, <2>6, <3>2 DEF LockProtects
    <3> QED
      BY <3>1, <3>2
  <2>8. \A k \in Instances, s \in Requests : lock'[k] = s <=> req'[s].pc = "commit" /\ req'[s].inst = k
    <3> HIDE DEF state
    <3> TAKE k \in Instances, s \in Requests
    <3>1. s # Nil
      BY ConstantsAssumption
    <3>2. CASE s = r
      BY <1>1, <2>2, <2>3, <2>4, <3>1, <3>2 DEF LockProtects, TypeInv, TypeOK
    <3>3. CASE s # r
      BY <1>1, <2>2, <2>3, <3>1, <3>3 DEF LockProtects, TypeInv, TypeOK
    <3> QED
      BY <3>2, <3>3
  <2> QED
    BY <2>6, <2>7, <2>8 DEF LockProtects
<1> QED
  BY <1>2, <1>3

LEMMA LockCommit ==
    ASSUME LockInv, TypeInv', NEW r \in Requests, ActionCommit(r)
    PROVE  LockInv'
<1> USE DEF LockInv
<1> DEFINE i == req[r].inst
<1>1. i \in Instances /\ req[r].pc = "commit" /\ lock[i] = r /\ req[r].action \in Actions /\ inst[i] \in InstanceRow
  BY DEF ActionCommit, LockProtects, TypeInv, TypeOK, HandlersOK, HandlerOK
<1>2. \A s \in Requests \ {r} : req[s].pc = "commit" => req[s].inst # i
  BY <1>1 DEF LockProtects
<1>3. req'[r].pc = "idle" /\ \A s \in Requests \ {r} : req'[s] = req[s]
  BY DEF ActionCommit, Finish, Become, TypeInv, TypeOK, Idle
<1>4. lock' = [lock EXCEPT ![i] = Nil]
  BY DEF ActionCommit
<1>5. \A k \in Instances \ {i} : inst'[k] = inst[k]
  BY <1>1 DEF ActionCommit, TypeInv, TypeOK
<1>6. \A s \in Requests : req'[s].pc = "commit" => s # r /\ req[s].pc = "commit" /\ inst'[req[s].inst] = inst[req[s].inst]
  BY <1>2, <1>3, <1>5 DEF TypeInv, TypeOK, HandlersOK, HandlerOK
<1>7. \A k \in Instances, s \in Requests : lock'[k] = s <=> req'[s].pc = "commit" /\ req'[s].inst = k
  <2> TAKE k \in Instances, s \in Requests
  <2>1. s # Nil
    BY ConstantsAssumption
  <2>2. CASE s = r
    BY <1>1, <1>3, <1>4, <2>1, <2>2 DEF LockProtects, TypeInv, TypeOK
  <2>3. CASE s # r
    BY <1>1, <1>2, <1>3, <1>4, <2>1, <2>3 DEF LockProtects, TypeInv, TypeOK
  <2> QED
    BY <2>2, <2>3
<1>8. StepsOK'
  <2>1. /\ inst[i].status = "pending"
        /\ req[r].step = inst[i].step
        /\ req[r].steps = inst[i].steps
    BY <1>1 DEF LockProtects
  <2>2. CASE Outcome(req[r]) = "pending"
    <3>1. inst'[i].step = inst[i].step + 1 /\ inst'[i].steps = inst[i].steps /\ inst'[i].status = "pending"
      BY <1>1, <2>1, <2>2 DEF ActionCommit, TypeInv, TypeOK, InstanceRow
    <3>2. ~(req[r].step + 1 >= Len(req[r].steps))
      BY <1>1, <2>2 DEF Outcome, Actions
    <3>3. inst[i].step \in Nat /\ Len(inst[i].steps) \in Nat
      BY <1>1 DEF InstanceRow, Routes
    <3>4. inst'[i].step < Len(inst'[i].steps)
      BY <2>1, <3>1, <3>2, <3>3
    <3> QED
      BY <1>5, <2>1, <3>1, <3>4 DEF StepsOK
  <2>3. CASE Outcome(req[r]) # "pending"
    <3>1. inst'[i].status # "pending" /\ inst'[i].steps = inst[i].steps
      BY <1>1, <2>3 DEF ActionCommit, TypeInv, TypeOK, InstanceRow
    <3> QED
      BY <1>5, <2>1, <3>1 DEF StepsOK
  <2> QED
    BY <2>2, <2>3
<1> QED
  BY <1>3, <1>6, <1>7, <1>8 DEF LockProtects

\* What the helpers that move a handler make of its program counter.
LEMMA BecomePC ==
    ASSUME TypeInv, NEW r \in Requests, NEW state, Become(r, state)
    PROVE  /\ req'[r] = state
           /\ \A s \in Requests \ {r} : req'[s] = req[s]
BY DEF Become, TypeInv, TypeOK

LEMMA FinishPC ==
    ASSUME TypeInv, NEW r \in Requests, Finish(r)
    PROVE  /\ req'[r].pc = "idle"
           /\ \A s \in Requests \ {r} : req'[s] = req[s]
<1>0. Idle.pc = "idle"
  BY DEF Idle
<1>1. req'[r] = Idle /\ \A s \in Requests \ {r} : req'[s] = req[s]
  BY BecomePC DEF Finish
<1> QED
  BY <1>0, <1>1

LEMMA GotoPC ==
    ASSUME TypeInv, NEW r \in Requests, NEW pc, Goto(r, pc)
    PROVE  /\ req'[r].pc = pc /\ req'[r].amount = req[r].amount /\ req'[r].object = req[r].object
           /\ \A s \in Requests \ {r} : req'[s] = req[s]
<1> DEFINE state == [req[r] EXCEPT !.pc = pc]
<1>1. Become(r, state)
  BY DEF Goto
<1>2. state.pc = pc /\ state.amount = req[r].amount /\ state.object = req[r].object
  BY DEF TypeInv, TypeOK, Handler
<1> HIDE DEF state
<1> QED
  BY <1>1, <1>2, BecomePC

\* What a client's call puts in the slot of its request.
CalledWith(q) ==
    \/ q.pc \in {"workflow", "lock"}
    \/ /\ q.pc = "update"
       /\ q.object \in Objects /\ status[q.object] # "none"
       /\ ~Refused(q.status, status[q.object])
       /\ q.amount \in Amounts \cup {Nil}
    \/ /\ q.pc = "setting"
       /\ q.object \in Objects /\ status[q.object] # "none"
       /\ q.amount = amount[q.object]

LEMMA CallMoves ==
    ASSUME TypeInv, NEW r \in Requests,
           \/ \E d \in Definitions, row \in Rows, fields \in SUBSET {"on", "matches", "steps"} :
                 ReadWorkflow(r, d, row, fields)
           \/ \E u \in Users, o \in Objects, c \in Status \cup {""}, a \in Amounts \cup {Nil} :
                 ReadObject(r, u, o, c, a)
           \/ \E u \in Users, o \in Objects : SubmitRead(r, u, o)
           \/ \E u \in Users, i \in Instances, action \in Actions : ActionBegin(r, u, i, action)
    PROVE  /\ req[r].pc = "idle"
           /\ CalledWith(req'[r])
           /\ \A s \in Requests \ {r} : req'[s] = req[s]
           /\ UNCHANGED <<status, amount, settings, def, inst, trail, lock>>
<1>1. req[r].pc = "idle" /\ UNCHANGED <<status, amount, settings, def, inst, trail, lock>>
  BY DEF ReadWorkflow, ReadObject, SubmitRead, ActionBegin
<1>2. ASSUME NEW state, Become(r, state), CalledWith(state)
      PROVE  CalledWith(req'[r]) /\ \A s \in Requests \ {r} : req'[s] = req[s]
  BY <1>2, BecomePC
<1>3. \E state : Become(r, state) /\ CalledWith(state)
  <2>1. ASSUME NEW d \in Definitions, NEW row \in Rows, NEW fields \in SUBSET {"on", "matches", "steps"},
               ReadWorkflow(r, d, row, fields)
        PROVE  \E state : Become(r, state) /\ CalledWith(state)
    <3> DEFINE st == [Idle EXCEPT !.pc = "workflow", !.def = d,
                        !.on = IF "on" \in fields THEN row.on ELSE def[d].on,
                        !.matches = IF "matches" \in fields THEN row.matches ELSE def[d].matches,
                        !.steps = IF "steps" \in fields THEN row.steps ELSE def[d].steps]
    <3>1. Become(r, st)
      BY <2>1 DEF ReadWorkflow
    <3>2. st.pc = "workflow"
      BY DEF Idle
    <3> QED
      BY <3>1, <3>2 DEF CalledWith
  <2>2. ASSUME NEW u \in Users, NEW o \in Objects, NEW c \in Status \cup {""}, NEW a \in Amounts \cup {Nil},
               ReadObject(r, u, o, c, a)
        PROVE  \E state : Become(r, state) /\ CalledWith(state)
    <3> DEFINE st == [Idle EXCEPT !.pc = "update", !.user = u, !.object = o, !.status = c, !.amount = a]
    <3>1. Become(r, st) /\ status[o] # "none" /\ ~Refused(c, status[o])
      BY <2>2 DEF ReadObject
    <3>2. st.pc = "update" /\ st.object = o /\ st.status = c /\ st.amount = a
      BY DEF Idle
    <3> HIDE DEF st
    <3> QED
      BY <3>1, <3>2 DEF CalledWith
  <2>3. ASSUME NEW u \in Users, NEW o \in Objects, SubmitRead(r, u, o)
        PROVE  \E state : Become(r, state) /\ CalledWith(state)
    <3> DEFINE st == [Idle EXCEPT !.pc = "setting", !.user = u, !.object = o, !.amount = amount[o]]
    <3>1. Become(r, st) /\ status[o] # "none"
      BY <2>3 DEF SubmitRead
    <3>2. st.pc = "setting" /\ st.object = o /\ st.amount = amount[o]
      BY DEF Idle
    <3> HIDE DEF st
    <3> QED
      BY <3>1, <3>2 DEF CalledWith
  <2>4. ASSUME NEW u \in Users, NEW i \in Instances, NEW action \in Actions, ActionBegin(r, u, i, action)
        PROVE  \E state : Become(r, state) /\ CalledWith(state)
    <3> DEFINE st == [Idle EXCEPT !.pc = "lock", !.user = u, !.inst = i, !.action = action]
    <3>1. Become(r, st)
      BY <2>4 DEF ActionBegin
    <3>2. st.pc = "lock"
      BY DEF Idle
    <3> QED
      BY <3>1, <3>2 DEF CalledWith
  <2> QED
    BY <2>1, <2>2, <2>3, <2>4
<1> QED
  BY <1>1, <1>2, <1>3

\* What a statement that takes no row lock makes of its handler p, now q.
MovedOn(p, q) ==
    \/ q.pc = "idle"
    \/ /\ q.object = p.object
       /\ \/ p.pc = "match" /\ q.pc = "insert"
          \/ p.pc \in {"setting", "check"} /\ q.pc \in {"check", "match"} /\ q.amount = p.amount
          \/ p.pc = "setting" /\ q.pc = "auto" /\ ~approvalOn
          \/ p.pc = "match" /\ q.pc = "auto" /\ ~\E d \in Definitions : Matches(d, p.amount)

LEMMA ProceedMoves ==
    ASSUME TypeInv, NEW r \in Requests,
           \/ WriteWorkflow(r) \/ WriteObject(r) \/ SubmitSetting(r) \/ SubmitAuto(r)
           \/ SubmitCheck(r) \/ SubmitMatch(r) \/ SubmitMark(r)
    PROVE  /\ req[r].pc # "commit"
           /\ MovedOn(req[r], req'[r])
           /\ \A s \in Requests \ {r} : req'[s] = req[s]
           /\ UNCHANGED <<inst, trail, lock>>
<1>1. req[r].pc # "commit" /\ UNCHANGED <<inst, trail, lock>>
  BY DEF WriteWorkflow, WriteObject, SubmitSetting, SubmitAuto, SubmitCheck, SubmitMatch, SubmitMark
<1>2. CASE Finish(r)
  BY <1>1, <1>2, FinishPC DEF MovedOn
<1>3. ASSUME NEW pc, Goto(r, pc)
      PROVE  /\ req'[r].pc = pc /\ req'[r].amount = req[r].amount /\ req'[r].object = req[r].object
             /\ \A s \in Requests \ {r} : req'[s] = req[s]
  BY <1>3, GotoPC
<1>4. CASE WriteWorkflow(r) \/ WriteObject(r) \/ SubmitAuto(r) \/ SubmitMark(r)
  BY <1>2, <1>4 DEF WriteWorkflow, WriteObject, SubmitAuto, SubmitMark
<1>5. CASE SubmitSetting(r)
  BY <1>1, <1>3, <1>5 DEF SubmitSetting, MovedOn
<1>6. CASE SubmitCheck(r)
  <2>1. req[r].pc = "check" /\ (Finish(r) \/ Goto(r, "match"))
    BY <1>6 DEF SubmitCheck
  <2> QED
    BY <1>1, <1>2, <1>3, <2>1 DEF MovedOn
<1>7. CASE SubmitMatch(r)
  <2>1. CASE Goto(r, "auto") /\ ~\E d \in Definitions : Matches(d, req[r].amount)
    BY <1>1, <1>3, <1>7, <2>1 DEF SubmitMatch, MovedOn
  <2>2. ASSUME NEW d \in Definitions,
               Become(r, [req[r] EXCEPT !.pc = "insert", !.def = d, !.steps = def[d].steps])
        PROVE  MovedOn(req[r], req'[r]) /\ \A s \in Requests \ {r} : req'[s] = req[s]
    <3> DEFINE st == [req[r] EXCEPT !.pc = "insert", !.def = d, !.steps = def[d].steps]
    <3>1. st.pc = "insert" /\ st.object = req[r].object
      BY DEF TypeInv, TypeOK, Handler
    <3>2. Become(r, st) /\ req[r].pc = "match"
      BY <1>7, <2>2 DEF SubmitMatch
    <3> HIDE DEF st
    <3> QED
      BY <3>1, <3>2, BecomePC DEF MovedOn
  <2>3. (Goto(r, "auto") /\ ~\E d \in Definitions : Matches(d, req[r].amount))
        \/ \E d \in Definitions :
              Become(r, [req[r] EXCEPT !.pc = "insert", !.def = d, !.steps = def[d].steps])
    BY <1>7 DEF SubmitMatch, FirstMatches
  <2> QED
    BY <1>1, <2>1, <2>2, <2>3
<1> QED
  BY <1>4, <1>5, <1>6, <1>7

LEMMA LockFault ==
    ASSUME LockInv, TypeInv', NEW r \in Requests, StatementFails(r) \/ Crash(r)
    PROVE  LockInv'
<1> USE DEF LockInv
<1>1. req'[r].pc # "commit" /\ \A s \in Requests \ {r} : req'[s] = req[s]
  <2>1. Finish(r) \/ Goto(r, "match") \/ Goto(r, "cleanup")
    BY DEF StatementFails, Crash
  <2> QED
    BY <2>1, FinishPC, GotoPC
<1>2. inst' = inst /\ lock' = Release(r)
  BY DEF StatementFails, Crash
<1>3. StepsOK'
  BY <1>2 DEF StepsOK
<1>4. \A s \in Requests : req'[s].pc = "commit" => s # r /\ req'[s] = req[s] /\ req[s].pc = "commit"
  BY <1>1
<1>5. \A k \in Instances, s \in Requests : lock'[k] = s <=> req'[s].pc = "commit" /\ req'[s].inst = k
  <2> TAKE k \in Instances, s \in Requests
  <2>1. s # Nil
    BY ConstantsAssumption
  <2>2. lock'[k] = IF lock[k] = r THEN Nil ELSE lock[k]
    BY <1>2 DEF Release
  <2>3. CASE s = r
    BY <1>1, <2>1, <2>2, <2>3
  <2>4. CASE s # r
    BY <1>1, <2>1, <2>2, <2>4 DEF LockProtects
  <2> QED
    BY <2>3, <2>4
<1> QED
  BY <1>2, <1>3, <1>4, <1>5 DEF LockProtects

LEMMA LockInit == Init => LockInv
<1> SUFFICES ASSUME Init PROVE LockInv
  OBVIOUS
<1>1. StepsOK
  BY DEF Init, StepsOK, NoInstance
<1>2. LockProtects
  BY ConstantsAssumption DEF Init, LockProtects, Idle
<1> QED
  BY <1>1, <1>2, TypeInit DEF LockInv

LEMMA LockNext == LockInv /\ [Next]_vars => LockInv'
<1> SUFFICES ASSUME LockInv, [Next]_vars PROVE LockInv'
  OBVIOUS
<1>0. TypeInv'
  BY TypeNext DEF LockInv
<1>1. CASE UNCHANGED <<inst, lock, req>>
  BY <1>0, <1>1 DEF LockInv, StepsOK, LockProtects
<1>2. ASSUME NEW r \in Requests,
             UNCHANGED <<inst, lock>>, req[r].pc # "commit", req'[r].pc # "commit",
             \A s \in Requests \ {r} : req'[s] = req[s]
      PROVE  LockInv'
  BY <1>0, <1>2, LockFrame
<1>3. ASSUME NEW r \in Requests,
             \/ \E d \in Definitions, row \in Rows, fields \in SUBSET {"on", "matches", "steps"} :
                   ReadWorkflow(r, d, row, fields)
             \/ \E u \in Users, o \in Objects, c \in Status \cup {""}, a \in Amounts \cup {Nil} :
                   ReadObject(r, u, o, c, a)
             \/ \E u \in Users, o \in Objects : SubmitRead(r, u, o)
             \/ \E u \in Users, i \in Instances, action \in Actions : ActionBegin(r, u, i, action)
      PROVE  LockInv'
  <2>1. /\ UNCHANGED <<inst, lock>> /\ req[r].pc # "commit" /\ req'[r].pc # "commit"
        /\ \A s \in Requests \ {r} : req'[s] = req[s]
    BY <1>3, CallMoves DEF LockInv, CalledWith
  <2> QED
    BY <1>2, <2>1
<1>4. ASSUME NEW r \in Requests,
             \/ WriteWorkflow(r) \/ WriteObject(r) \/ SubmitSetting(r) \/ SubmitAuto(r)
             \/ SubmitCheck(r) \/ SubmitMatch(r) \/ SubmitMark(r)
      PROVE  LockInv'
  <2>1. /\ UNCHANGED <<inst, lock>> /\ req[r].pc # "commit" /\ req'[r].pc # "commit"
        /\ \A s \in Requests \ {r} : req'[s] = req[s]
    BY <1>4, ProceedMoves DEF LockInv, MovedOn
  <2> QED
    BY <1>2, <2>1
<1>5. ASSUME NEW r \in Requests, SubmitInsert(r) \/ SubmitCleanup(r) \/ ActionLock(r) \/ ActionCommit(r)
      PROVE  LockInv'
  BY <1>0, <1>5, LockInsert, LockCleanup, LockLock, LockCommit
<1>6. ASSUME NEW r \in Requests, StatementFails(r) \/ Crash(r) PROVE LockInv'
  BY <1>0, <1>6, LockFault
<1>7. ASSUME NEW d \in Definitions, NEW row \in Rows, CreateWorkflow(d, row) PROVE LockInv'
  BY <1>1, <1>7 DEF CreateWorkflow
<1>8. ASSUME NEW b \in BOOLEAN, SetApproval(b) \/ SetBlockSelf(b) PROVE LockInv'
  BY <1>1, <1>8 DEF SetApproval, SetBlockSelf
<1>9. ASSUME NEW u \in Users, NEW o \in Objects, NEW c \in Status \cup {""}, NEW a \in Amounts,
             CreateObject(u, o, c, a) \/ ConfirmOrder(o)
      PROVE  LockInv'
  BY <1>1, <1>9 DEF CreateObject, ConfirmOrder
<1>10. ASSUME NEW o \in Objects, ConfirmOrder(o) PROVE LockInv'
  BY <1>1, <1>10 DEF ConfirmOrder
<1> QED
  BY <1>1, <1>3, <1>4, <1>5, <1>6, <1>7, <1>8, <1>9, <1>10 DEF Next, Call, Fault, Proceed, vars

\* workflowAction: what a decision was checked against still holds when it is
\* committed, however many approvers act at once.
THEOREM LockProtectsAlways == Spec => []LockProtects
<1>1. LockInv => LockProtects
  BY DEF LockInv
<1> QED
  BY <1>1, LockInit, LockNext, PTL DEF Spec

\* instanceSteps: whatever becomes of the rule meanwhile, a pending approval
\* waits on a step that exists.
THEOREM NeverStrandedAlways == Spec => []NeverStranded
<1>1. LockInv => NeverStranded
  BY StepsAreCopied DEF LockInv, StepsOK, NeverStranded
<1> QED
  BY <1>1, LockInit, LockNext, PTL DEF Spec
=============================================================================
