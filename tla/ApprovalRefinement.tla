------------------------- MODULE ApprovalRefinement -------------------------
(***************************************************************************)
(* The decisions recorded on an approval request agree with the request    *)
(* (TrailComplete), and every request is the abstract one of ApprovalCase  *)
(* (ImplementsCase).  Both rest on the lock invariant of ApprovalProofs.   *)
(***************************************************************************)
EXTENDS ApprovalProofs

\* A row that was never used has no decisions.
UnusedIsEmpty == \A i \in Instances : inst[i].status = "none" => trail[i] = <<>>

TrailInv == LockInv /\ UnusedIsEmpty /\ TrailComplete

\* Three steps of the handlers change an instance or its decisions.
LEMMA CaseSteps ==
    ASSUME [Next]_vars
    PROVE  \/ UNCHANGED <<inst, trail>>
           \/ \E r \in Requests : SubmitInsert(r) \/ SubmitCleanup(r) \/ ActionCommit(r)
<1>1. CASE Call
  BY <1>1 DEF Call, CreateWorkflow, SetApproval, SetBlockSelf, CreateObject, ConfirmOrder,
              ReadWorkflow, ReadObject, SubmitRead, ActionBegin
<1>2. CASE Fault
  BY <1>2 DEF Fault, StatementFails, Crash
<1>3. ASSUME NEW r \in Requests, Proceed(r)
      PROVE  UNCHANGED <<inst, trail>> \/ SubmitInsert(r) \/ SubmitCleanup(r) \/ ActionCommit(r)
  BY <1>3 DEF Proceed, WriteWorkflow, WriteObject, SubmitSetting, SubmitAuto, SubmitCheck, SubmitMatch,
              SubmitMark, ActionLock
<1> QED
  BY <1>1, <1>2, <1>3 DEF Next, vars

\* What an insert makes of the instances: one unused row is opened on the route
\* that was matched.
LEMMA InsertOpens ==
    ASSUME TypeInv, NEW r \in Requests, SubmitInsert(r)
    PROVE  /\ trail' = trail
           /\ \/ inst' = inst
              \/ \E i \in Instances :
                    /\ inst[i].status = "none"
                    /\ inst'[i].status = "pending" /\ inst'[i].step = 0
                    /\ inst'[i].steps = req[r].steps /\ inst'[i].by = req[r].user
                    /\ inst'[i].object = req[r].object /\ req[r].object \in Objects
                    /\ req[r].steps \in Routes /\ req[r].steps # <<>>
                    /\ \A j \in Instances \ {i} : inst'[j] = inst[j]
<1>1. req[r].steps \in Routes /\ req[r].steps # <<>> /\ req[r].object \in Objects
  BY DEF SubmitInsert, TypeInv, TypeOK, HandlersOK, HandlerOK, Handler, Submitting
<1>2. ASSUME NEW i \in Instances, inst[i].status = "none",
             inst' = [inst EXCEPT ![i] = [status |-> "pending", object |-> req[r].object, def |-> req[r].def,
                                          by |-> req[r].user, steps |-> req[r].steps, step |-> 0]]
      PROVE  /\ inst'[i].status = "pending" /\ inst'[i].step = 0
             /\ inst'[i].steps = req[r].steps /\ inst'[i].by = req[r].user /\ inst'[i].object = req[r].object
             /\ \A j \in Instances \ {i} : inst'[j] = inst[j]
  BY <1>2 DEF TypeInv, TypeOK
<1> QED
  BY <1>1, <1>2 DEF SubmitInsert

\* What a cleanup makes of them: a pending row goes, with its decisions.
LEMMA CleanupWithdraws ==
    ASSUME TypeInv, NEW r \in Requests, SubmitCleanup(r)
    PROVE  \/ UNCHANGED <<inst, trail>>
           \/ \E i \in Instances :
                 /\ inst[i].status = "pending"
                 /\ inst'[i].status = "withdrawn" /\ inst'[i].steps = inst[i].steps
                 /\ inst'[i].by = inst[i].by /\ inst'[i].object = inst[i].object
                 /\ \A j \in Instances \ {i} : inst'[j] = inst[j]
                 /\ trail' = [trail EXCEPT ![i] = <<>>]
<1> DEFINE i == req[r].inst
<1>1. i \in Instances /\ inst[i] \in InstanceRow
  BY DEF SubmitCleanup, TypeInv, TypeOK, HandlersOK, HandlerOK
<1>2. CASE inst[i].status = "pending"
  <2>1. inst' = [inst EXCEPT ![i].status = "withdrawn"] /\ trail' = [trail EXCEPT ![i] = <<>>]
    BY <1>2 DEF SubmitCleanup
  <2>2. /\ inst'[i].status = "withdrawn" /\ inst'[i].steps = inst[i].steps
        /\ inst'[i].by = inst[i].by /\ inst'[i].object = inst[i].object
        /\ \A j \in Instances \ {i} : inst'[j] = inst[j]
    BY <1>1, <2>1 DEF TypeInv, TypeOK, InstanceRow
  <2> QED
    BY <1>1, <1>2, <2>1, <2>2
<1>3. CASE inst[i].status # "pending"
  BY <1>3 DEF SubmitCleanup
<1> QED
  BY <1>2, <1>3

\* What a decision makes of them, under the lock: the instance was pending, the
\* step decided is the one it waits on, and the outcome follows the route.
LEMMA CommitDecides ==
    ASSUME LockInv, NEW r \in Requests, ActionCommit(r)
    PROVE  \E i \in Instances :
              /\ inst[i].status = "pending" /\ i = req[r].inst
              /\ req[r].step = inst[i].step /\ req[r].steps = inst[i].steps
              /\ inst[i].step < Len(inst[i].steps)
              /\ req[r].user \in Users /\ req[r].action \in Actions
              /\ MayDecide(req[r].user, inst[i].steps[inst[i].step + 1])
              /\ trail' = [trail EXCEPT ![i] = Append(trail[i], [step |-> inst[i].step, action |-> req[r].action,
                                                                 actor |-> req[r].user])]
              /\ inst'[i].status = Outcome(req[r])
              /\ inst'[i].steps = inst[i].steps /\ inst'[i].by = inst[i].by /\ inst'[i].object = inst[i].object
              /\ inst'[i].step = IF Outcome(req[r]) = "pending" THEN inst[i].step + 1 ELSE inst[i].step
              /\ \A j \in Instances \ {i} : inst'[j] = inst[j]
<1> DEFINE i == req[r].inst
<1>1. i \in Instances /\ inst[i] \in InstanceRow /\ req[r].user \in Users /\ req[r].action \in Actions
  BY DEF ActionCommit, LockInv, TypeInv, TypeOK, HandlersOK, HandlerOK
<1>2. /\ inst[i].status = "pending" /\ req[r].step = inst[i].step /\ req[r].steps = inst[i].steps
      /\ inst[i].step < Len(inst[i].steps) /\ MayDecide(req[r].user, inst[i].steps[inst[i].step + 1])
  BY DEF ActionCommit, LockInv, LockProtects
<1>3. trail' = [trail EXCEPT ![i] = Append(trail[i], [step |-> inst[i].step, action |-> req[r].action,
                                                      actor |-> req[r].user])]
  BY <1>1, <1>2 DEF ActionCommit, LockInv, TypeInv, TypeOK
<1>4. /\ inst'[i].status = Outcome(req[r])
      /\ inst'[i].steps = inst[i].steps /\ inst'[i].by = inst[i].by /\ inst'[i].object = inst[i].object
      /\ inst'[i].step = IF Outcome(req[r]) = "pending" THEN inst[i].step + 1 ELSE inst[i].step
      /\ \A j \in Instances \ {i} : inst'[j] = inst[j]
  <2>1. CASE Outcome(req[r]) = "pending"
    BY <1>1, <1>2, <2>1 DEF ActionCommit, LockInv, TypeInv, TypeOK, InstanceRow
  <2>2. CASE Outcome(req[r]) # "pending"
    BY <1>1, <1>2, <2>2 DEF ActionCommit, LockInv, TypeInv, TypeOK, InstanceRow
  <2> QED
    BY <2>1, <2>2
<1> QED
  BY <1>1, <1>2, <1>3, <1>4

(***************************************************************************)
(* The decisions fit the instance                                          *)
(***************************************************************************)
\* A decision of the step an instance waits on, approved by the lock, fits.
LEMMA DecisionFits ==
    ASSUME NEW t \in Seq(Decision), NEW row \in InstanceRow, NEW next,
           NEW action \in Actions, NEW actor \in Users,
           DecisionsFit(t, row), row.status = "pending", row.step < Len(row.steps),
           MayDecide(actor, row.steps[row.step + 1]),
           next.steps = row.steps,
           next.step = IF next.status = "pending" THEN row.step + 1 ELSE row.step,
           next.status = "pending" => action = "approve",
           next.status = "approved" => action = "approve" /\ row.step + 1 = Len(row.steps),
           next.status = "rejected" => action = "reject",
           next.status = "returned" => action = "return"
    PROVE  DecisionsFit(Append(t, [step |-> row.step, action |-> action, actor |-> actor]), next)
<1> DEFINE d == [step |-> row.step, action |-> action, actor |-> actor]
           n == Len(t)
           new == Append(t, d)
<1>1. n \in Nat /\ n = row.step /\ row.step \in Nat /\ row.steps \in Routes
  BY DEF DecisionsFit, InstanceRow
<1>2. d \in Decision
  BY <1>1 DEF Decision
<1>3. /\ new \in Seq(Decision) /\ Len(new) = n + 1 /\ new[n + 1] = d
      /\ \A k \in 1 .. n : new[k] = t[k]
  <2> HIDE DEF d
  <2> QED
    BY <1>1, <1>2
<1>4. Len(row.steps) \in Nat
  BY <1>1 DEF Routes
<1>5. d.step = row.step /\ d.action = action /\ d.actor = actor
  OBVIOUS
<1> HIDE DEF d, new
<1>6. ASSUME NEW k \in 1 .. n + 1
      PROVE  /\ new[k].step = k - 1
             /\ k <= Len(next.steps)
             /\ MayDecide(new[k].actor, next.steps[k])
             /\ k < n + 1 => new[k].action = "approve"
  <2>1. CASE k = n + 1
    BY <1>1, <1>3, <1>4, <1>5, <2>1
  <2>2. CASE k \in 1 .. n
    <3>1. /\ t[k].step = k - 1 /\ k <= Len(row.steps)
          /\ MayDecide(t[k].actor, row.steps[k])
          /\ k < n => t[k].action = "approve"
      BY <2>2 DEF DecisionsFit
    <3>2. n > 0 => t[n].action = "approve"
      BY DEF DecisionsFit
    <3> QED
      BY <1>1, <1>3, <2>2, <3>1, <3>2
  <2> QED
    BY <1>1, <2>1, <2>2
<1>7. /\ next.status = "pending" => n + 1 = next.step /\ new[n + 1].action = "approve"
      /\ next.status = "approved" => n + 1 = Len(next.steps) /\ new[n + 1].action = "approve"
      /\ next.status = "rejected" => new[n + 1].action = "reject"
      /\ next.status = "returned" => new[n + 1].action = "return"
  BY <1>1, <1>3, <1>5
<1> QED
  BY <1>1, <1>3, <1>6, <1>7 DEF DecisionsFit, d, new

\* What Outcome says of the action and of the step.
LEMMA OutcomeMeaning ==
    ASSUME NEW q, q.action \in Actions, q.step \in Nat, q.steps \in Routes, q.step < Len(q.steps)
    PROVE  /\ Outcome(q) \in {"pending", "approved", "rejected", "returned"}
           /\ Outcome(q) = "pending" => q.action = "approve" /\ q.step + 1 < Len(q.steps)
           /\ Outcome(q) = "approved" => q.action = "approve" /\ q.step + 1 = Len(q.steps)
           /\ Outcome(q) = "rejected" => q.action = "reject"
           /\ Outcome(q) = "returned" => q.action = "return"
<1>1. Len(q.steps) \in Nat
  BY DEF Routes
<1> QED
  BY <1>1 DEF Outcome, Actions

LEMMA TrailInit == Init => TrailInv
<1> SUFFICES ASSUME Init PROVE TrailInv
  OBVIOUS
<1>1. UnusedIsEmpty
  BY DEF Init, UnusedIsEmpty
<1>2. TrailComplete
  BY DEF Init, TrailComplete, DecisionsFit, NoInstance
<1> QED
  BY <1>1, <1>2, LockInit DEF TrailInv

LEMMA TrailNext == TrailInv /\ [Next]_vars => TrailInv'
<1> SUFFICES ASSUME TrailInv, [Next]_vars PROVE UnusedIsEmpty' /\ TrailComplete'
  BY LockNext DEF TrailInv
<1>0. inst \in [Instances -> InstanceRow] /\ trail \in [Instances -> Seq(Decision)] /\ TypeInv /\ LockInv
  BY DEF TrailInv, LockInv, TypeInv, TypeOK
<1>1. CASE UNCHANGED <<inst, trail>>
  BY <1>1 DEF TrailInv, UnusedIsEmpty, TrailComplete
<1>2. ASSUME NEW r \in Requests, SubmitInsert(r) PROVE UnusedIsEmpty' /\ TrailComplete'
  <2>1. CASE UNCHANGED <<inst, trail>>
    BY <1>1, <2>1
  <2>2. ASSUME NEW i \in Instances, inst[i].status = "none", trail' = trail,
               inst'[i].status = "pending", inst'[i].step = 0,
               \A j \in Instances \ {i} : inst'[j] = inst[j]
        PROVE  UnusedIsEmpty' /\ TrailComplete'
    <3>1. trail[i] = <<>>
      BY <2>2 DEF TrailInv, UnusedIsEmpty
    <3>2. DecisionsFit(trail'[i], inst'[i])
      BY <2>2, <3>1 DEF DecisionsFit
    <3>3. \A j \in Instances \ {i} : DecisionsFit(trail'[j], inst'[j])
      BY <2>2 DEF TrailInv, TrailComplete
    <3> QED
      BY <2>2, <3>2, <3>3 DEF TrailInv, UnusedIsEmpty, TrailComplete
  <2> QED
    BY <1>0, <1>2, <2>1, <2>2, InsertOpens
<1>3. ASSUME NEW r \in Requests, SubmitCleanup(r) PROVE UnusedIsEmpty' /\ TrailComplete'
  <2>1. CASE UNCHANGED <<inst, trail>>
    BY <1>1, <2>1
  <2>2. ASSUME NEW i \in Instances, inst'[i].status = "withdrawn",
               \A j \in Instances \ {i} : inst'[j] = inst[j],
               trail' = [trail EXCEPT ![i] = <<>>]
        PROVE  UnusedIsEmpty' /\ TrailComplete'
    <3>1. DecisionsFit(trail'[i], inst'[i])
      BY <1>0, <2>2 DEF DecisionsFit
    <3>2. \A j \in Instances \ {i} : DecisionsFit(trail'[j], inst'[j])
      BY <1>0, <2>2 DEF TrailInv, TrailComplete
    <3> QED
      BY <1>0, <2>2, <3>1, <3>2 DEF TrailInv, UnusedIsEmpty, TrailComplete
  <2> QED
    BY <1>0, <1>3, <2>1, <2>2, CleanupWithdraws
<1>4. ASSUME NEW r \in Requests, ActionCommit(r) PROVE UnusedIsEmpty' /\ TrailComplete'
  <2>1. PICK i \in Instances :
        /\ inst[i].status = "pending"
        /\ req[r].step = inst[i].step /\ req[r].steps = inst[i].steps
        /\ inst[i].step < Len(inst[i].steps)
        /\ req[r].user \in Users /\ req[r].action \in Actions
        /\ MayDecide(req[r].user, inst[i].steps[inst[i].step + 1])
        /\ trail' = [trail EXCEPT ![i] = Append(trail[i], [step |-> inst[i].step, action |-> req[r].action,
                                                           actor |-> req[r].user])]
        /\ inst'[i].status = Outcome(req[r])
        /\ inst'[i].steps = inst[i].steps
        /\ inst'[i].step = IF Outcome(req[r]) = "pending" THEN inst[i].step + 1 ELSE inst[i].step
        /\ \A j \in Instances \ {i} : inst'[j] = inst[j]
    BY <1>0, <1>4, CommitDecides
  <2> DEFINE d == [step |-> inst[i].step, action |-> req[r].action, actor |-> req[r].user]
  <2>2. inst[i] \in InstanceRow /\ trail[i] \in Seq(Decision) /\ DecisionsFit(trail[i], inst[i])
    BY <1>0, <2>1 DEF TrailInv, TrailComplete
  <2>3. inst[i].step \in Nat /\ inst[i].steps \in Routes
    BY <2>2 DEF InstanceRow
  <2>4. /\ Outcome(req[r]) \in {"pending", "approved", "rejected", "returned"}
        /\ Outcome(req[r]) = "pending" => req[r].action = "approve"
        /\ Outcome(req[r]) = "approved" => req[r].action = "approve" /\ inst[i].step + 1 = Len(inst[i].steps)
        /\ Outcome(req[r]) = "rejected" => req[r].action = "reject"
        /\ Outcome(req[r]) = "returned" => req[r].action = "return"
    BY <2>1, <2>3, OutcomeMeaning
  <2>5. DecisionsFit(Append(trail[i], d), inst'[i])
    BY <2>1, <2>2, <2>4, DecisionFits
  <2>6. trail'[i] = Append(trail[i], d) /\ \A j \in Instances \ {i} : trail'[j] = trail[j]
    <3>1. trail' = [trail EXCEPT ![i] = Append(trail[i], d)]
      BY <2>1
    <3> HIDE DEF d
    <3> QED
      BY <1>0, <3>1
  <2>7. \A j \in Instances \ {i} : DecisionsFit(trail'[j], inst'[j])
    BY <2>1, <2>6 DEF TrailInv, TrailComplete
  <2>8. inst'[i].status # "none"
    BY <2>1, <2>4
  <2> QED
    BY <2>1, <2>5, <2>6, <2>7, <2>8 DEF TrailInv, UnusedIsEmpty, TrailComplete
<1> QED
  BY <1>1, <1>2, <1>3, <1>4, CaseSteps

\* workflowAction: the recorded decisions are one for each step, in order, each
\* by somebody entitled to it, whoever else acts at the same time.
THEOREM TrailCompleteAlways == Spec => []TrailComplete
<1>1. TrailInv => TrailComplete
  BY DEF TrailInv
<1> QED
  BY <1>1, TrailInit, TrailNext, PTL DEF Spec

(***************************************************************************)
(* Every approval request is the abstract one                              *)
(***************************************************************************)
LEMMA CaseInitial == Init => Case!CaseInit
  BY DEF Init, Case!CaseInit, NoInstance

LEMMA CaseStep == TrailInv /\ [Next]_vars => [Case!CaseNext]_(Case!caseVars)
<1> SUFFICES ASSUME TrailInv, [Next]_vars PROVE [Case!CaseNext]_(Case!caseVars)
  OBVIOUS
<1>0. inst \in [Instances -> InstanceRow] /\ trail \in [Instances -> Seq(Decision)] /\ TypeInv /\ LockInv
  BY DEF TrailInv, LockInv, TypeInv, TypeOK
<1>1. CASE UNCHANGED <<inst, trail>>
  BY <1>1 DEF Case!caseVars
<1>2. ASSUME NEW r \in Requests, SubmitInsert(r) PROVE [Case!CaseNext]_(Case!caseVars)
  <2>1. CASE UNCHANGED <<inst, trail>>
    BY <1>1, <2>1
  <2>2. ASSUME NEW i \in Instances, trail' = trail, inst[i].status = "none",
               inst'[i].status = "pending", inst'[i].steps \in Routes, inst'[i].steps # <<>>,
               \A j \in Instances \ {i} : inst'[j] = inst[j]
        PROVE  Case!Open(i)
    BY <2>2 DEF Case!Open, Routes
  <2> QED
    BY <1>0, <1>2, <2>1, <2>2, InsertOpens DEF Case!CaseNext
<1>3. ASSUME NEW r \in Requests, SubmitCleanup(r) PROVE [Case!CaseNext]_(Case!caseVars)
  <2>1. CASE UNCHANGED <<inst, trail>>
    BY <1>1, <2>1
  <2>2. ASSUME NEW i \in Instances, inst[i].status = "pending", inst'[i].status = "withdrawn",
               inst'[i].steps = inst[i].steps,
               \A j \in Instances \ {i} : inst'[j] = inst[j],
               trail' = [trail EXCEPT ![i] = <<>>]
        PROVE  Case!Withdraw(i)
    BY <2>2 DEF Case!Withdraw
  <2> QED
    BY <1>0, <1>3, <2>1, <2>2, CleanupWithdraws DEF Case!CaseNext
<1>4. ASSUME NEW r \in Requests, ActionCommit(r) PROVE [Case!CaseNext]_(Case!caseVars)
  <2>1. PICK i \in Instances :
        /\ inst[i].status = "pending"
        /\ req[r].step = inst[i].step /\ req[r].steps = inst[i].steps
        /\ inst[i].step < Len(inst[i].steps)
        /\ req[r].user \in Users /\ req[r].action \in Actions
        /\ MayDecide(req[r].user, inst[i].steps[inst[i].step + 1])
        /\ trail' = [trail EXCEPT ![i] = Append(trail[i], [step |-> inst[i].step, action |-> req[r].action,
                                                           actor |-> req[r].user])]
        /\ inst'[i].status = Outcome(req[r])
        /\ inst'[i].steps = inst[i].steps
        /\ \A j \in Instances \ {i} : inst'[j] = inst[j]
    BY <1>0, <1>4, CommitDecides
  <2>2. inst[i].step = Len(trail[i]) /\ inst[i].step \in Nat /\ inst[i].steps \in Routes
    BY <1>0, <2>1 DEF TrailInv, TrailComplete, DecisionsFit, InstanceRow
  <2>3. Case!Decide(i, req[r].user, req[r].action, Outcome(req[r]))
    BY <2>1, <2>2 DEF Case!Decide
  <2>4. /\ Outcome(req[r]) \in {"pending", "approved", "rejected", "returned"}
        /\ Outcome(req[r]) = "pending" => req[r].action = "approve" /\ inst[i].step + 1 < Len(inst[i].steps)
        /\ Outcome(req[r]) = "approved" => req[r].action = "approve" /\ inst[i].step + 1 = Len(inst[i].steps)
        /\ Outcome(req[r]) = "rejected" => req[r].action = "reject"
        /\ Outcome(req[r]) = "returned" => req[r].action = "return"
    BY <2>1, <2>2, OutcomeMeaning
  <2>5. \/ Case!Advance(i, req[r].user) \/ Case!Approve(i, req[r].user)
        \/ Case!Reject(i, req[r].user) \/ Case!SendBack(i, req[r].user)
    <3>1. CASE Outcome(req[r]) = "pending"
      BY <2>2, <2>3, <2>4, <3>1 DEF Case!Advance, Case!Decide
    <3>2. CASE Outcome(req[r]) = "approved"
      BY <2>2, <2>3, <2>4, <3>2 DEF Case!Approve, Case!Decide
    <3>3. CASE Outcome(req[r]) = "rejected"
      BY <2>3, <2>4, <3>3 DEF Case!Reject, Case!Decide
    <3>4. CASE Outcome(req[r]) = "returned"
      BY <2>3, <2>4, <3>4 DEF Case!SendBack, Case!Decide
    <3> QED
      BY <2>4, <3>1, <3>2, <3>3, <3>4
  <2> QED
    BY <2>1, <2>5 DEF Case!CaseNext
<1> QED
  BY <1>1, <1>2, <1>3, <1>4, CaseSteps

\* Submissions, decisions and cleanups of the handlers, one statement at a time,
\* are the steps of the abstract request, whatever interleaves or fails.
THEOREM CaseImplemented == Spec => ImplementsCase
  BY CaseInitial, CaseStep, TrailInit, TrailNext, PTL DEF Spec, ImplementsCase, Case!CaseSpec
=============================================================================
