-------------------------- MODULE ApprovalPolicies --------------------------
(***************************************************************************)
(* What the administrator's two switches buy: with separation of duties on *)
(* nobody settles a request of their own, and with the workflow on and     *)
(* every object covered by a rule no object reads approved unless an       *)
(* approval of it went through.                                            *)
(***************************************************************************)
EXTENDS ApprovalRefinement

(***************************************************************************)
(* Separation of duties                                                    *)
(***************************************************************************)
\* The decisions let through but not committed yet respect the policy too.
DutiesInv ==
    /\ NoSelfDecision
    /\ \A r \in Requests :
          req[r].pc = "commit" /\ req[r].action # "return" => req[r].user # inst[req[r].inst].by

\* A handler reaches its commit by taking the row lock, and by nothing else.
LEMMA CommitOnlyByLock ==
    ASSUME LockInv, [Next]_vars, NEW s \in Requests, req'[s].pc = "commit"
    PROVE  \/ req[s].pc = "commit" /\ req'[s] = req[s]
           \/ /\ ActionLock(s)
              /\ req'[s].user = req[s].user /\ req'[s].inst = req[s].inst /\ req'[s].action = req[s].action
              /\ ActionAllowed(req[s].user, req[s].inst, req[s].action)
<1> USE DEF LockInv
<1>1. CASE UNCHANGED req
  BY <1>1
<1>2. ASSUME NEW r \in Requests, req'[r].pc # "commit", \A t \in Requests \ {r} : req'[t] = req[t]
      PROVE  req[s].pc = "commit" /\ req'[s] = req[s]
  BY <1>2
<1>3. ASSUME NEW r \in Requests,
             \/ \E d \in Definitions, row \in Rows, fields \in SUBSET {"on", "matches", "steps"} :
                   ReadWorkflow(r, d, row, fields)
             \/ \E u \in Users, o \in Objects, c \in Status \cup {""}, a \in Amounts \cup {Nil} :
                   ReadObject(r, u, o, c, a)
             \/ \E u \in Users, o \in Objects : SubmitRead(r, u, o)
             \/ \E u \in Users, i \in Instances, action \in Actions : ActionBegin(r, u, i, action)
      PROVE  req[s].pc = "commit" /\ req'[s] = req[s]
  BY <1>2, <1>3, CallMoves DEF CalledWith
<1>4. ASSUME NEW r \in Requests,
             \/ WriteWorkflow(r) \/ WriteObject(r) \/ SubmitSetting(r) \/ SubmitAuto(r)
             \/ SubmitCheck(r) \/ SubmitMatch(r) \/ SubmitMark(r)
      PROVE  req[s].pc = "commit" /\ req'[s] = req[s]
  BY <1>2, <1>4, ProceedMoves DEF MovedOn
<1>5. ASSUME NEW r \in Requests, SubmitInsert(r) PROVE req[s].pc = "commit" /\ req'[s] = req[s]
  <2>1. CASE Finish(r)
    BY <1>2, <2>1, FinishPC
  <2>2. ASSUME NEW i \in Instances, Become(r, [req[r] EXCEPT !.pc = "mark", !.inst = i])
        PROVE  req[s].pc = "commit" /\ req'[s] = req[s]
    <3> DEFINE st == [req[r] EXCEPT !.pc = "mark", !.inst = i]
    <3>1. st.pc = "mark"
      BY DEF TypeInv, TypeOK, Handler
    <3>2. Become(r, st)
      BY <2>2
    <3> HIDE DEF st
    <3> QED
      BY <1>2, <3>1, <3>2, BecomePC
  <2> QED
    BY <1>5, <2>1, <2>2 DEF SubmitInsert
<1>6. ASSUME NEW r \in Requests, SubmitCleanup(r) \/ ActionCommit(r) \/ StatementFails(r) \/ Crash(r)
      PROVE  req[s].pc = "commit" /\ req'[s] = req[s]
  <2>1. Finish(r) \/ Goto(r, "match") \/ Goto(r, "cleanup")
    BY <1>6 DEF SubmitCleanup, ActionCommit, StatementFails, Crash
  <2> QED
    BY <1>2, <2>1, FinishPC, GotoPC
<1>7. ASSUME NEW r \in Requests, ActionLock(r)
      PROVE  \/ req[s].pc = "commit" /\ req'[s] = req[s]
             \/ /\ ActionLock(s)
                /\ req'[s].user = req[s].user /\ req'[s].inst = req[s].inst /\ req'[s].action = req[s].action
                /\ ActionAllowed(req[s].user, req[s].inst, req[s].action)
  <2>1. CASE ~ActionAllowed(req[r].user, req[r].inst, req[r].action)
    <3>1. Finish(r)
      BY <1>7, <2>1 DEF ActionLock
    <3> QED
      BY <1>2, <3>1, FinishPC
  <2>2. CASE ActionAllowed(req[r].user, req[r].inst, req[r].action)
    <3> DEFINE st == [req[r] EXCEPT !.pc = "commit", !.step = inst[req[r].inst].step,
                                    !.steps = InstanceSteps(req[r].inst)]
    <3>1. st.user = req[r].user /\ st.inst = req[r].inst /\ st.action = req[r].action
      BY DEF TypeInv, TypeOK, Handler
    <3>2. Become(r, st)
      BY <1>7, <2>2 DEF ActionLock
    <3> HIDE DEF st
    <3>3. req'[r] = st /\ \A t \in Requests \ {r} : req'[t] = req[t]
      BY <3>2, BecomePC
    <3>4. CASE s = r
      BY <1>7, <2>2, <3>1, <3>3, <3>4
    <3>5. CASE s # r
      BY <3>3, <3>5
    <3> QED
      BY <3>4, <3>5
  <2> QED
    BY <2>1, <2>2
<1> QED
  BY <1>1, <1>3, <1>4, <1>5, <1>6, <1>7
     DEF Next, Call, Fault, Proceed, vars, CreateWorkflow, SetApproval, SetBlockSelf, CreateObject, ConfirmOrder

\* Who asked for an approval never changes, nor does what it is about.
LEMMA RequesterStays ==
    ASSUME LockInv, [Next]_vars, NEW i \in Instances, inst[i].status # "none"
    PROVE  inst'[i].by = inst[i].by
<1>1. CASE UNCHANGED <<inst, trail>>
  BY <1>1
<1>2. ASSUME NEW r \in Requests, SubmitInsert(r) PROVE inst'[i].by = inst[i].by
  BY <1>2, InsertOpens DEF LockInv
<1>3. ASSUME NEW r \in Requests, SubmitCleanup(r) PROVE inst'[i].by = inst[i].by
  BY <1>3, CleanupWithdraws DEF LockInv
<1>4. ASSUME NEW r \in Requests, ActionCommit(r) PROVE inst'[i].by = inst[i].by
  <2>1. PICK k \in Instances : inst'[k].by = inst[k].by /\ \A j \in Instances \ {k} : inst'[j] = inst[j]
    BY <1>4, CommitDecides
  <2> QED
    BY <2>1
<1> QED
  BY <1>1, <1>2, <1>3, <1>4, CaseSteps

LEMMA DutiesNext == TrailInv /\ DutiesInv /\ blockSelf /\ [Next]_vars => DutiesInv'
<1> SUFFICES ASSUME TrailInv, DutiesInv, blockSelf, [Next]_vars PROVE DutiesInv'
  OBVIOUS
<1>0. LockInv /\ TypeInv /\ trail \in [Instances -> Seq(Decision)]
  BY DEF TrailInv, LockInv, TypeInv, TypeOK
<1>1. ASSUME NEW s \in Requests, req'[s].pc = "commit", req'[s].action # "return"
      PROVE  req'[s].user # inst'[req'[s].inst].by
  <2>1. CASE req[s].pc = "commit" /\ req'[s] = req[s]
    <3>1. req[s].inst \in Instances /\ inst[req[s].inst].status = "pending"
      BY <1>0, <2>1 DEF LockInv, LockProtects, TypeInv, HandlersOK, HandlerOK
    <3> QED
      BY <1>0, <1>1, <2>1, <3>1, RequesterStays DEF DutiesInv
  <2>2. CASE /\ ActionLock(s)
             /\ req'[s].user = req[s].user /\ req'[s].inst = req[s].inst /\ req'[s].action = req[s].action
             /\ ActionAllowed(req[s].user, req[s].inst, req[s].action)
    BY <1>1, <2>2 DEF ActionLock, ActionAllowed, SelfDecisionRefused
  <2> QED
    BY <1>0, <1>1, <2>1, <2>2, CommitOnlyByLock
<1>2. ASSUME UNCHANGED <<inst, trail>> PROVE NoSelfDecision'
  BY <1>2 DEF DutiesInv, NoSelfDecision
<1>3. ASSUME NEW r \in Requests, SubmitInsert(r) PROVE NoSelfDecision'
  <2>1. CASE UNCHANGED <<inst, trail>>
    BY <2>1 DEF DutiesInv, NoSelfDecision
  <2>2. ASSUME NEW i \in Instances, inst[i].status = "none", trail' = trail,
               \A j \in Instances \ {i} : inst'[j] = inst[j]
        PROVE  NoSelfDecision'
    <3>1. trail[i] = <<>>
      BY <2>2 DEF TrailInv, UnusedIsEmpty
    <3>2. 1 .. Len(trail'[i]) = {}
      BY <2>2, <3>1
    <3> QED
      BY <2>2, <3>2 DEF DutiesInv, NoSelfDecision
  <2> QED
    BY <1>0, <1>3, <2>1, <2>2, InsertOpens
<1>4. ASSUME NEW r \in Requests, SubmitCleanup(r) PROVE NoSelfDecision'
  <2>1. CASE UNCHANGED <<inst, trail>>
    BY <2>1 DEF DutiesInv, NoSelfDecision
  <2>2. ASSUME NEW i \in Instances, \A j \in Instances \ {i} : inst'[j] = inst[j],
               trail' = [trail EXCEPT ![i] = <<>>]
        PROVE  NoSelfDecision'
    <3>1. trail'[i] = <<>> /\ \A j \in Instances \ {i} : trail'[j] = trail[j]
      BY <1>0, <2>2
    <3>2. 1 .. Len(trail'[i]) = {}
      BY <3>1
    <3> QED
      BY <2>2, <3>1, <3>2 DEF DutiesInv, NoSelfDecision
  <2> QED
    BY <1>0, <1>4, <2>1, <2>2, CleanupWithdraws
<1>5. ASSUME NEW r \in Requests, ActionCommit(r) PROVE NoSelfDecision'
  <2>1. PICK i \in Instances :
        /\ i = req[r].inst /\ inst[i].step \in Nat
        /\ req[r].user \in Users /\ req[r].action \in Actions
        /\ trail' = [trail EXCEPT ![i] = Append(trail[i], [step |-> inst[i].step, action |-> req[r].action,
                                                           actor |-> req[r].user])]
        /\ inst'[i].by = inst[i].by
        /\ \A j \in Instances \ {i} : inst'[j] = inst[j]
    BY <1>0, <1>5, CommitDecides DEF TypeInv, TypeOK, InstanceRow
  <2> DEFINE d == [step |-> inst[i].step, action |-> req[r].action, actor |-> req[r].user]
  <2>2. trail' = [trail EXCEPT ![i] = Append(trail[i], d)]
    BY <2>1
  <2>3. d \in Decision /\ d.action = req[r].action /\ d.actor = req[r].user
    BY <2>1 DEF Decision
  <2>4. req[r].action # "return" => req[r].user # inst[i].by
    BY <1>5, <2>1 DEF DutiesInv, ActionCommit
  <2> HIDE DEF d
  <2>5. /\ Len(trail'[i]) = Len(trail[i]) + 1 /\ trail'[i][Len(trail[i]) + 1] = d
        /\ \A k \in 1 .. Len(trail[i]) : trail'[i][k] = trail[i][k]
        /\ Len(trail[i]) \in Nat
    BY <1>0, <2>2, <2>3
  <2>6. \A j \in Instances \ {i} : trail'[j] = trail[j]
    BY <1>0, <2>2
  <2>7. ASSUME NEW k \in 1 .. Len(trail'[i]), trail'[i][k].action # "return"
        PROVE  trail'[i][k].actor # inst'[i].by
    <3>1. CASE k = Len(trail[i]) + 1
      BY <2>1, <2>3, <2>4, <2>5, <2>7, <3>1
    <3>2. CASE k \in 1 .. Len(trail[i])
      BY <2>1, <2>5, <2>7, <3>2 DEF DutiesInv, NoSelfDecision
    <3> QED
      BY <2>5, <3>1, <3>2
  <2> QED
    BY <2>1, <2>6, <2>7 DEF DutiesInv, NoSelfDecision
<1> QED
  BY <1>1, <1>2, <1>3, <1>4, <1>5, CaseSteps DEF DutiesInv

\* separationOfDuties: while the policy is on, no approval or rejection is by
\* the one who asked for it.
THEOREM DutiesSeparated == Spec => SeparationOfDuties
<1>1. Init => DutiesInv
  <2> SUFFICES ASSUME Init PROVE DutiesInv
    OBVIOUS
  <2>1. \A i \in Instances : 1 .. Len(trail[i]) = {}
    BY DEF Init
  <2>2. \A r \in Requests : req[r].pc = "idle"
    BY DEF Init, Idle
  <2> QED
    BY <2>1, <2>2 DEF DutiesInv, NoSelfDecision
<1>2. DutiesInv => NoSelfDecision
  BY DEF DutiesInv
<1> QED
  BY <1>1, <1>2, DutiesNext, TrailInit, TrailNext, PTL DEF Spec, SeparationOfDuties

(***************************************************************************)
(* No way around the workflow                                              *)
(***************************************************************************)
Exists(o) == o \in Objects /\ status[o] # "none"

\* Handlers and approvals refer to objects that exist.
ExistInv ==
    /\ \A r \in Requests : req[r].pc \in Submitting \cup {"update", "mark"} => Exists(req[r].object)
    /\ \A i \in Instances : inst[i].status # "none" => Exists(inst[i].object)

\* No object is ever removed.
LEMMA ObjectsStay ==
    ASSUME TypeInv, [Next]_vars, NEW o \in Objects, status[o] # "none"
    PROVE  status'[o] # "none"
<1>1. "none" \notin Status
  BY ConstantsAssumption DEF Status, Owned
<1>2. CASE UNCHANGED status
  BY <1>2
<1>3. ASSUME NEW r \in Requests, WriteObject(r) PROVE status'[o] # "none"
  <2>1. req[r].status \in Status \cup {""}
    BY DEF TypeInv, TypeOK, Handler
  <2> QED
    BY <1>1, <1>3, <2>1 DEF WriteObject, TypeInv, TypeOK
<1>4. ASSUME NEW r \in Requests, SubmitAuto(r) \/ SubmitMark(r) PROVE status'[o] # "none"
  BY <1>4 DEF SubmitAuto, SubmitMark, TypeInv, TypeOK
<1>5. ASSUME NEW r \in Requests, ActionCommit(r) PROVE status'[o] # "none"
  <2>1. req[r].action \in Actions
    BY <1>5 DEF ActionCommit, TypeInv, HandlersOK, HandlerOK
  <2>2. Outcome(req[r]) \in {"approved", "rejected", "returned", "pending"}
    BY <2>1 DEF Outcome, Actions
  <2> QED
    BY <1>5, <2>2 DEF ActionCommit, TypeInv, TypeOK
<1>6. CASE Call
  BY <1>2, <1>6 DEF Call, CreateWorkflow, SetApproval, SetBlockSelf, CreateObject, ConfirmOrder,
                    ReadWorkflow, ReadObject, SubmitRead, ActionBegin, TypeInv, TypeOK
<1>7. CASE Fault
  BY <1>2, <1>7 DEF Fault, StatementFails, Crash
<1>8. ASSUME NEW r \in Requests, Proceed(r) PROVE status'[o] # "none"
  <2>1. CASE WriteWorkflow(r) \/ SubmitSetting(r) \/ SubmitCheck(r) \/ SubmitMatch(r) \/ SubmitInsert(r)
             \/ SubmitCleanup(r) \/ ActionLock(r)
    BY <1>2, <2>1 DEF WriteWorkflow, SubmitSetting, SubmitCheck, SubmitMatch, SubmitInsert, SubmitCleanup,
                      ActionLock
  <2> QED
    BY <1>3, <1>4, <1>5, <1>8, <2>1 DEF Proceed
<1> QED
  BY <1>2, <1>6, <1>7, <1>8 DEF Next, vars

LEMMA ExistNext == TrailInv /\ ExistInv /\ [Next]_vars => ExistInv'
<1> SUFFICES ASSUME TrailInv, ExistInv, [Next]_vars PROVE ExistInv'
  OBVIOUS
<1>0. LockInv /\ TypeInv
  BY DEF TrailInv, LockInv
<1>1. \A o \in Objects : status[o] # "none" => status'[o] # "none"
  BY <1>0, ObjectsStay
<1>2. ASSUME NEW i \in Instances, inst'[i].status # "none" PROVE Exists(inst[i].object)'
  <2>1. CASE inst[i].status # "none" /\ inst'[i].object = inst[i].object
    BY <1>1, <2>1 DEF ExistInv, Exists
  <2>2. CASE UNCHANGED <<inst, trail>>
    BY <1>2, <2>1, <2>2
  <2>3. ASSUME NEW r \in Requests, SubmitInsert(r) PROVE Exists(inst[i].object)'
    <3>1. Exists(req[r].object)
      BY <2>3 DEF SubmitInsert, ExistInv, Submitting
    <3>2. inst'[i] = inst[i] \/ inst'[i].object = req[r].object
      BY <1>0, <2>3, InsertOpens
    <3>3. CASE inst'[i] = inst[i]
      BY <1>2, <2>1, <3>3
    <3>4. CASE inst'[i].object = req[r].object
      BY <1>1, <3>1, <3>4 DEF Exists
    <3> QED
      BY <3>2, <3>3, <3>4
  <2>4. ASSUME NEW r \in Requests, SubmitCleanup(r) PROVE Exists(inst[i].object)'
    <3>1. inst'[i] = inst[i] \/ (inst[i].status # "none" /\ inst'[i].object = inst[i].object)
      BY <1>0, <2>4, CleanupWithdraws
    <3> QED
      BY <1>2, <2>1, <3>1
  <2>5. ASSUME NEW r \in Requests, ActionCommit(r) PROVE Exists(inst[i].object)'
    <3>1. inst'[i] = inst[i] \/ (inst[i].status # "none" /\ inst'[i].object = inst[i].object)
      <4>1. PICK k \in Instances : /\ inst[k].status = "pending" /\ inst'[k].object = inst[k].object
                                   /\ \A j \in Instances \ {k} : inst'[j] = inst[j]
        BY <1>0, <2>5, CommitDecides
      <4> QED
        BY <4>1
    <3> QED
      BY <1>2, <2>1, <3>1
  <2> QED
    BY <2>2, <2>3, <2>4, <2>5, CaseSteps
<1>3. ASSUME NEW s \in Requests, req'[s].pc \in Submitting \cup {"update", "mark"}
      PROVE  Exists(req[s].object)'
  <2>1. CASE req[s].pc \in Submitting \cup {"update", "mark"} /\ req'[s].object = req[s].object
    BY <1>1, <2>1 DEF ExistInv, Exists
  <2>2. CASE req'[s] = req[s]
    BY <1>3, <2>1, <2>2
  <2>3. ASSUME NEW r \in Requests, Finish(r) PROVE Exists(req[s].object)'
    BY <1>0, <1>3, <2>2, <2>3, FinishPC DEF Submitting
  <2>4. ASSUME NEW r \in Requests,
             \/ \E d \in Definitions, row \in Rows, fields \in SUBSET {"on", "matches", "steps"} :
                   ReadWorkflow(r, d, row, fields)
             \/ \E u \in Users, o \in Objects, c \in Status \cup {""}, a \in Amounts \cup {Nil} :
                   ReadObject(r, u, o, c, a)
             \/ \E u \in Users, o \in Objects : SubmitRead(r, u, o)
             \/ \E u \in Users, i \in Instances, action \in Actions : ActionBegin(r, u, i, action)
        PROVE  Exists(req[s].object)'
    <3>1. CalledWith(req'[r]) /\ \A t \in Requests \ {r} : req'[t] = req[t]
      BY <1>0, <2>4, CallMoves
    <3>2. CASE s = r
      BY <1>1, <1>3, <3>1, <3>2 DEF CalledWith, Exists, Submitting
    <3> QED
      BY <2>2, <3>1, <3>2
  <2>5. ASSUME NEW r \in Requests,
             \/ WriteWorkflow(r) \/ WriteObject(r) \/ SubmitSetting(r) \/ SubmitAuto(r)
             \/ SubmitCheck(r) \/ SubmitMatch(r) \/ SubmitMark(r)
        PROVE  Exists(req[s].object)'
    <3>1. MovedOn(req[r], req'[r]) /\ \A t \in Requests \ {r} : req'[t] = req[t]
      BY <1>0, <2>5, ProceedMoves
    <3>2. CASE s = r
      BY <1>3, <2>1, <3>1, <3>2 DEF MovedOn, Submitting
    <3> QED
      BY <2>2, <3>1, <3>2
  <2>6. ASSUME NEW r \in Requests, SubmitInsert(r), ~Finish(r) PROVE Exists(req[s].object)'
    <3>1. PICK i \in Instances : Become(r, [req[r] EXCEPT !.pc = "mark", !.inst = i])
      BY <2>6 DEF SubmitInsert
    <3> DEFINE st == [req[r] EXCEPT !.pc = "mark", !.inst = i]
    <3>2. st.object = req[r].object /\ req[r].pc = "insert"
      <4>1. st.object = req[r].object
        BY <1>0 DEF TypeInv, TypeOK, Handler
      <4>2. req[r].pc = "insert"
        BY <2>6 DEF SubmitInsert
      <4> QED
        BY <4>1, <4>2
    <3>3. Become(r, st)
      BY <3>1
    <3> HIDE DEF st
    <3>4. req'[r].object = req[r].object /\ \A t \in Requests \ {r} : req'[t] = req[t]
      BY <1>0, <3>2, <3>3, BecomePC
    <3> QED
      BY <2>1, <2>2, <3>2, <3>4 DEF Submitting
  <2>7. ASSUME NEW r \in Requests, StatementFails(r) \/ Crash(r), ~Finish(r) PROVE Exists(req[s].object)'
    <3>1. \/ req[r].pc = "check" /\ Goto(r, "match")
          \/ req[r].pc = "mark" /\ Goto(r, "cleanup")
      BY <2>7 DEF StatementFails, Crash
    <3>2. req[r].pc \in {"check", "mark"} /\ req'[r].object = req[r].object
          /\ \A t \in Requests \ {r} : req'[t] = req[t]
      BY <1>0, <3>1, GotoPC
    <3> QED
      BY <2>1, <2>2, <3>2 DEF Submitting
  <2>8. ASSUME NEW r \in Requests, ActionLock(r), ~Finish(r) PROVE Exists(req[s].object)'
    <3> DEFINE st == [req[r] EXCEPT !.pc = "commit", !.step = inst[req[r].inst].step,
                                    !.steps = InstanceSteps(req[r].inst)]
    <3>1. st.pc = "commit"
      BY <1>0 DEF TypeInv, TypeOK, Handler
    <3>2. Become(r, st)
      BY <2>8 DEF ActionLock
    <3> HIDE DEF st
    <3>3. req'[r].pc = "commit" /\ \A t \in Requests \ {r} : req'[t] = req[t]
      BY <1>0, <3>1, <3>2, BecomePC
    <3> QED
      BY <1>3, <2>2, <3>3 DEF Submitting
  <2>9. CASE UNCHANGED req
    BY <2>2, <2>9
  <2> QED
    BY <2>3, <2>4, <2>5, <2>6, <2>7, <2>8, <2>9
       DEF Next, Call, Fault, Proceed, vars, CreateWorkflow, SetApproval, SetBlockSelf, CreateObject,
           ConfirmOrder, SubmitCleanup, ActionCommit
<1> QED
  BY <1>2, <1>3 DEF ExistInv

Decided(o) == \E i \in Instances : inst[i].object = o /\ inst[i].status = "approved"

\* With the workflow on and every object covered: no handler is about to
\* approve an object by itself, the ones on their way to a rule carry an amount
\* that a rule matches, and an update that restates "approved" read an object
\* that was decided.
WayInv ==
    /\ ExistInv
    /\ ApprovedWasDecided
    /\ \A o \in Objects : status[o] # "none" => amount[o] \in Amounts
    /\ \A r \in Requests :
          /\ req[r].pc # "auto"
          /\ req[r].pc \in {"setting", "check", "match"} => req[r].amount \in Amounts
          /\ req[r].pc = "update" /\ req[r].status = "approved" => Decided(req[r].object)

\* An approval that went through stays.
LEMMA DecidedStays ==
    ASSUME LockInv, [Next]_vars, NEW o, Decided(o)
    PROVE  \E i \in Instances : inst'[i].object = o /\ inst'[i].status = "approved"
<1>1. PICK i \in Instances : inst[i].object = o /\ inst[i].status = "approved"
  BY DEF Decided
<1>2. CASE UNCHANGED <<inst, trail>>
  BY <1>1, <1>2 DEF Decided
<1>3. ASSUME NEW r \in Requests, SubmitInsert(r) PROVE inst'[i] = inst[i]
  BY <1>1, <1>3, InsertOpens DEF LockInv
<1>4. ASSUME NEW r \in Requests, SubmitCleanup(r) PROVE inst'[i] = inst[i]
  BY <1>1, <1>4, CleanupWithdraws DEF LockInv
<1>5. ASSUME NEW r \in Requests, ActionCommit(r) PROVE inst'[i] = inst[i]
  <2>1. PICK k \in Instances : inst[k].status = "pending" /\ \A j \in Instances \ {k} : inst'[j] = inst[j]
    BY <1>5, CommitDecides
  <2> QED
    BY <1>1, <2>1
<1> QED
  BY <1>1, <1>2, <1>3, <1>4, <1>5, CaseSteps DEF Decided

\* What the handlers carry after a step.
LEMMA WayHandlers ==
    ASSUME TrailInv, WayInv, approvalOn, Covered, [Next]_vars, NEW s \in Requests
    PROVE  /\ req'[s].pc # "auto"
           /\ req'[s].pc \in {"setting", "check", "match"} => req'[s].amount \in Amounts
           /\ req'[s].pc = "update" /\ req'[s].status = "approved" => Decided(req[s].object)'
<1> DEFINE Goal == /\ req'[s].pc # "auto"
                   /\ req'[s].pc \in {"setting", "check", "match"} => req'[s].amount \in Amounts
                   /\ req'[s].pc = "update" /\ req'[s].status = "approved" => Decided(req[s].object)'
<1>0. LockInv /\ TypeInv
  BY DEF TrailInv, LockInv
<1>1. CASE req'[s] = req[s]
  BY <1>0, <1>1, DecidedStays DEF WayInv, Decided
<1>2. CASE req'[s].pc \notin {"auto", "setting", "check", "match", "update"}
  BY <1>2
<1>3. ASSUME NEW r \in Requests,
             \/ \E d \in Definitions, row \in Rows, fields \in SUBSET {"on", "matches", "steps"} :
                   ReadWorkflow(r, d, row, fields)
             \/ \E u \in Users, o \in Objects, c \in Status \cup {""}, a \in Amounts \cup {Nil} :
                   ReadObject(r, u, o, c, a)
             \/ \E u \in Users, o \in Objects : SubmitRead(r, u, o)
             \/ \E u \in Users, i \in Instances, action \in Actions : ActionBegin(r, u, i, action)
      PROVE  Goal
  <2>1. CalledWith(req'[r]) /\ \A t \in Requests \ {r} : req'[t] = req[t]
    BY <1>0, <1>3, CallMoves
  <2>2. CASE s = r /\ req'[s].pc = "update"
    <3>1. ASSUME req'[s].status = "approved" PROVE Decided(req'[s].object)
      <4>1. req'[s].object \in Objects /\ status[req'[s].object] = "approved"
        BY <2>1, <2>2, <3>1 DEF CalledWith, Refused, Owned
      <4> QED
        BY <4>1 DEF WayInv, ApprovedWasDecided, Decided
    <3> QED
      BY <1>0, <2>2, <3>1, DecidedStays DEF Decided
  <2>3. CASE s = r /\ req'[s].pc # "update"
    BY <2>1, <2>3 DEF CalledWith, WayInv
  <2> QED
    BY <1>1, <2>1, <2>2, <2>3
<1>4. ASSUME NEW r \in Requests,
             \/ WriteWorkflow(r) \/ WriteObject(r) \/ SubmitSetting(r) \/ SubmitAuto(r)
             \/ SubmitCheck(r) \/ SubmitMatch(r) \/ SubmitMark(r)
      PROVE  Goal
  <2>1. MovedOn(req[r], req'[r]) /\ \A t \in Requests \ {r} : req'[t] = req[t]
    BY <1>0, <1>4, ProceedMoves
  <2>2. req[r].pc = "match" => \E d \in Definitions : Matches(d, req[r].amount)
    BY DEF WayInv, Covered
  <2>3. CASE s = r
    BY <2>1, <2>2, <2>3 DEF MovedOn, WayInv
  <2> QED
    BY <1>1, <2>1, <2>3
<1>5. ASSUME NEW r \in Requests, SubmitInsert(r) PROVE Goal
  <2>1. CASE Finish(r)
    BY <1>0, <1>1, <1>2, <2>1, FinishPC
  <2>2. ASSUME NEW i \in Instances, Become(r, [req[r] EXCEPT !.pc = "mark", !.inst = i])
        PROVE  Goal
    <3> DEFINE st == [req[r] EXCEPT !.pc = "mark", !.inst = i]
    <3>1. st.pc = "mark"
      BY <1>0 DEF TypeInv, TypeOK, Handler
    <3>2. Become(r, st)
      BY <2>2
    <3> HIDE DEF st
    <3>3. req'[r].pc = "mark" /\ \A t \in Requests \ {r} : req'[t] = req[t]
      BY <1>0, <3>1, <3>2, BecomePC
    <3> QED
      BY <1>1, <1>2, <3>3
  <2> QED
    BY <1>5, <2>1, <2>2 DEF SubmitInsert
<1>6. ASSUME NEW r \in Requests,
             SubmitCleanup(r) \/ ActionCommit(r) \/ StatementFails(r) \/ Crash(r)
      PROVE  Goal
  <2>1. CASE Finish(r) \/ Goto(r, "cleanup")
    BY <1>0, <1>1, <1>2, <2>1, FinishPC, GotoPC
  <2>2. CASE req[r].pc = "check" /\ Goto(r, "match")
    <3>1. /\ req'[r].pc = "match" /\ req'[r].amount = req[r].amount
          /\ \A t \in Requests \ {r} : req'[t] = req[t]
      BY <1>0, <2>2, GotoPC
    <3> QED
      BY <1>1, <2>2, <3>1 DEF WayInv
  <2> QED
    BY <1>6, <2>1, <2>2 DEF SubmitCleanup, ActionCommit, StatementFails, Crash
<1>7. ASSUME NEW r \in Requests, ActionLock(r) PROVE Goal
  <2>1. CASE req'[s].pc = "commit"
    BY <1>2, <2>1
  <2>2. CASE req'[s].pc # "commit"
    <3>1. CASE Finish(r)
      BY <1>0, <1>1, <1>2, <3>1, FinishPC
    <3>2. CASE ~Finish(r)
      <4> DEFINE st == [req[r] EXCEPT !.pc = "commit", !.step = inst[req[r].inst].step,
                                      !.steps = InstanceSteps(req[r].inst)]
      <4>1. st.pc = "commit"
        BY <1>0 DEF TypeInv, TypeOK, Handler
      <4>2. Become(r, st)
        BY <1>7, <3>2 DEF ActionLock
      <4> HIDE DEF st
      <4>3. req'[r].pc = "commit" /\ \A t \in Requests \ {r} : req'[t] = req[t]
        BY <1>0, <4>1, <4>2, BecomePC
      <4> QED
        BY <1>1, <2>2, <4>3
    <3> QED
      BY <3>1, <3>2
  <2> QED
    BY <2>1, <2>2
<1>8. CASE UNCHANGED req
  BY <1>1, <1>8
<1> QED
  BY <1>3, <1>4, <1>5, <1>6, <1>7, <1>8
     DEF Next, Call, Fault, Proceed, vars, CreateWorkflow, SetApproval, SetBlockSelf, CreateObject, ConfirmOrder

\* What the objects read after a step.
LEMMA WayObjects ==
    ASSUME TrailInv, WayInv, approvalOn, Covered, [Next]_vars, NEW o \in Objects
    PROVE  /\ status'[o] = "approved" => \E i \in Instances : inst'[i].object = o /\ inst'[i].status = "approved"
           /\ status'[o] # "none" => amount'[o] \in Amounts
<1> DEFINE Goal == /\ status'[o] = "approved" =>
                          \E i \in Instances : inst'[i].object = o /\ inst'[i].status = "approved"
                   /\ status'[o] # "none" => amount'[o] \in Amounts
<1>0. LockInv /\ TypeInv /\ TypeOK
  BY DEF TrailInv, LockInv, TypeInv
<1>1. Decided(o) => \E i \in Instances : inst'[i].object = o /\ inst'[i].status = "approved"
  BY <1>0, DecidedStays
<1>2. (status[o] = "approved" => Decided(o)) /\ (status[o] # "none" => amount[o] \in Amounts)
  BY DEF WayInv, ApprovedWasDecided, Decided
<1>3. CASE status'[o] = status[o] /\ amount'[o] = amount[o]
  BY <1>1, <1>2, <1>3
<1>4. CASE status'[o] \notin {"none", "approved"} /\ amount'[o] \in Amounts
  BY <1>4
<1>5. ASSUME NEW u \in Users, NEW p \in Objects, NEW c \in Status \cup {""}, NEW a \in Amounts,
             CreateObject(u, p, c, a)
      PROVE  Goal
  <2>1. CASE p = o
    <3>1. amount'[o] = a /\ status'[o] = IF c = "" THEN "draft" ELSE c
      BY <1>0, <1>5, <2>1 DEF CreateObject, TypeOK
    <3>2. c \notin Owned
      BY <1>5 DEF CreateObject, Refused, Owned
    <3>3. c # "none"
      BY <1>5, ConstantsAssumption DEF Status, Owned
    <3> QED
      BY <1>4, <3>1, <3>2, <3>3 DEF Owned
  <2>2. CASE p # o
    BY <1>0, <1>3, <1>5, <2>2 DEF CreateObject, TypeOK
  <2> QED
    BY <2>1, <2>2
<1>6. ASSUME NEW p \in Objects, ConfirmOrder(p) PROVE Goal
  <2>1. CASE p = o
    <3>1. status'[o] = "confirmed" /\ amount' = amount /\ status[o] # "none"
      BY <1>0, <1>6, <2>1 DEF ConfirmOrder, TypeOK
    <3> QED
      BY <1>2, <3>1
  <2>2. CASE p # o
    BY <1>0, <1>3, <1>6, <2>2 DEF ConfirmOrder, TypeOK
  <2> QED
    BY <2>1, <2>2
<1>7. ASSUME NEW r \in Requests, WriteObject(r) PROVE Goal
  <2>1. /\ req[r].pc = "update" /\ req[r].status \in Status \cup {""} /\ req[r].amount \in Amounts \cup {Nil}
        /\ req[r].status = "approved" => Decided(req[r].object)
    BY <1>0, <1>7 DEF WriteObject, TypeOK, Handler, WayInv
  <2>2. CASE req[r].object = o
    <3>1. status'[o] = IF req[r].status = "" THEN status[o] ELSE req[r].status
      BY <1>0, <1>7, <2>2 DEF WriteObject, TypeOK
    <3>2. amount'[o] = IF req[r].amount = Nil THEN amount[o] ELSE req[r].amount
      BY <1>0, <1>7, <2>2 DEF WriteObject, TypeOK
    <3>3. status'[o] = "approved" => Decided(o)
      BY <1>2, <2>1, <2>2, <3>1
    <3>4. status[o] # "none" => amount'[o] \in Amounts
      BY <1>2, <2>1, <3>2
    <3>5. status[o] # "none"
      BY <1>7, <2>1, <2>2 DEF WayInv, ExistInv, Exists
    <3> QED
      BY <1>1, <3>3, <3>4, <3>5
  <2>3. CASE req[r].object # o
    BY <1>0, <1>3, <1>7, <2>3 DEF WriteObject, TypeOK
  <2> QED
    BY <2>2, <2>3
<1>8. ASSUME NEW r \in Requests, SubmitAuto(r) PROVE FALSE
  BY <1>8 DEF SubmitAuto, WayInv
<1>9. ASSUME NEW r \in Requests, SubmitMark(r) PROVE Goal
  <2>1. CASE req[r].object = o
    <3>1. status'[o] = "pending_approval" /\ amount' = amount
      BY <1>0, <1>9, <2>1 DEF SubmitMark, TypeOK
    <3>2. status[o] # "none"
      BY <1>9, <2>1 DEF SubmitMark, WayInv, ExistInv, Exists
    <3> QED
      BY <1>2, <3>1, <3>2
  <2>2. CASE req[r].object # o
    BY <1>0, <1>3, <1>9, <2>2 DEF SubmitMark, TypeOK
  <2> QED
    BY <2>1, <2>2
<1>10. ASSUME NEW r \in Requests, ActionCommit(r) PROVE Goal
  <2>1. PICK i \in Instances :
        /\ i = req[r].inst
        /\ inst[i].status = "pending"
        /\ inst'[i].status = Outcome(req[r]) /\ inst'[i].object = inst[i].object
    BY <1>0, <1>10, CommitDecides
  <2>2. amount' = amount
    BY <1>10 DEF ActionCommit
  <2>3. CASE inst[i].object = o
    <3>1. status'[o] = IF Outcome(req[r]) = "pending" THEN "pending_approval" ELSE Outcome(req[r])
      BY <1>0, <1>10, <2>1, <2>3 DEF ActionCommit, TypeOK
    <3>2. status'[o] = "approved" => Outcome(req[r]) = "approved"
      BY <3>1
    <3>3. status[o] # "none"
      BY <2>1, <2>3 DEF WayInv, ExistInv, Exists
    <3> QED
      BY <1>2, <2>1, <2>2, <2>3, <3>2, <3>3
  <2>4. CASE inst[i].object # o
    BY <1>0, <1>3, <1>10, <2>1, <2>2, <2>4 DEF ActionCommit, TypeOK
  <2> QED
    BY <2>3, <2>4
<1>11. CASE UNCHANGED <<status, amount>>
  BY <1>3, <1>11
<1>12. CASE Call
  BY <1>5, <1>6, <1>11, <1>12 DEF Call, CreateWorkflow, SetApproval, SetBlockSelf, ReadWorkflow, ReadObject,
                                  SubmitRead, ActionBegin
<1>13. CASE Fault
  BY <1>11, <1>13 DEF Fault, StatementFails, Crash
<1>14. ASSUME NEW r \in Requests, Proceed(r) PROVE Goal
  <2>1. CASE WriteWorkflow(r) \/ SubmitSetting(r) \/ SubmitCheck(r) \/ SubmitMatch(r) \/ SubmitInsert(r)
             \/ SubmitCleanup(r) \/ ActionLock(r)
    BY <1>11, <2>1 DEF WriteWorkflow, SubmitSetting, SubmitCheck, SubmitMatch, SubmitInsert, SubmitCleanup,
                       ActionLock
  <2> QED
    BY <1>7, <1>8, <1>9, <1>10, <1>14, <2>1 DEF Proceed
<1> QED
  BY <1>11, <1>12, <1>13, <1>14 DEF Next, vars

LEMMA WayNext == TrailInv /\ WayInv /\ approvalOn /\ Covered /\ [Next]_vars => WayInv'
<1> SUFFICES ASSUME TrailInv, WayInv, approvalOn, Covered, [Next]_vars PROVE WayInv'
  OBVIOUS
<1>1. ExistInv'
  BY ExistNext DEF WayInv
<1>2. ApprovedWasDecided'
  BY WayObjects DEF ApprovedWasDecided
<1>3. (\A o \in Objects : status[o] # "none" => amount[o] \in Amounts)'
  BY WayObjects
<1>4. ASSUME NEW s \in Requests
      PROVE  /\ req'[s].pc # "auto"
             /\ req'[s].pc \in {"setting", "check", "match"} => req'[s].amount \in Amounts
             /\ req'[s].pc = "update" /\ req'[s].status = "approved" => Decided(req[s].object)'
  BY WayHandlers
<1> QED
  BY <1>1, <1>2, <1>3, <1>4 DEF WayInv

\* refusedWorkflowStatus, submitObject: with the workflow on and every object
\* covered, an object that reads approved was approved step by step.
THEOREM NobodyWalksAround == Spec => NoWayAround
<1>1. Init => WayInv
  <2> SUFFICES ASSUME Init PROVE WayInv
    OBVIOUS
  <2>1. \A r \in Requests : req[r].pc = "idle"
    BY DEF Init, Idle
  <2>2. (\A o \in Objects : status[o] = "none") /\ \A i \in Instances : inst[i].status = "none"
    BY DEF Init, NoInstance
  <2> QED
    BY <2>1, <2>2 DEF WayInv, ExistInv, ApprovedWasDecided, Submitting
<1>2. WayInv => ApprovedWasDecided
  BY DEF WayInv
<1> QED
  BY <1>1, <1>2, WayNext, TrailInit, TrailNext, PTL DEF Spec, NoWayAround
=============================================================================
