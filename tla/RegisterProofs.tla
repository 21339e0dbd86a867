--------------------------- MODULE RegisterProofs ---------------------------
(***************************************************************************)
(* Theorems about the records of Vendra, for any number of companies,      *)
(* changes, invitations, links, documents and requests at once.            *)
(***************************************************************************)
EXTENDS Screening, Portal, Rollups, Documents, BidScores, SumTheorems, TLAPS

(***************************************************************************)
(* SupplierRegister: a request between the two statements of a change is   *)
(* the only one that can open its approval.                                *)
(***************************************************************************)
SupplierRow(x) == DOMAIN x = {"number", "status", "account", "opening"}
ChangeRow(x) == DOMAIN x = {"supplier", "account", "object", "instance"}

SupplierRequest(q) ==
    /\ DOMAIN q = {"pc", "supplier", "number", "status", "account", "change", "enabled"}
    /\ q.pc # "idle" => q.supplier \in Companies
    /\ q.pc = "register" => q.number # NoValue
    /\ q.pc \in {"enabled", "policy", "rule", "object", "instance", "write"} => OnFile(q.supplier)
    /\ q.pc = "instance" => /\ q.change \in Changes
                            /\ change[q.change].supplier = q.supplier
                            /\ change[q.change].object = "pending_approval" /\ change[q.change].instance = "none"

Alone == \A r, o \in SupplierRequests :
             r # o /\ sreq[r].pc = "instance" /\ sreq[o].pc = "instance" => sreq[r].change # sreq[o].change

RegisterInv ==
    /\ DOMAIN supplier = Companies /\ DOMAIN change = Changes /\ DOMAIN sreq = SupplierRequests
    /\ \A s \in Companies : SupplierRow(supplier[s])
    /\ \A c \in Changes : /\ ChangeRow(change[c])
                          /\ change[c].instance = "pending" => change[c].supplier \in Companies
    /\ \A r \in SupplierRequests : SupplierRequest(sreq[r])
    /\ Alone
    /\ ChangesAgree

LEMMA RestingOK == DOMAIN Resting = {"pc", "supplier", "number", "status", "account", "change", "enabled"} /\ Resting.pc = "idle"
  BY DEF Resting

\* A company on file stays there.
FilesStay == /\ DOMAIN supplier' = Companies
             /\ \A s \in Companies : SupplierRow(supplier'[s]) /\ (OnFile(s) => supplier'[s].number # NoValue)

\* A request moves: it leaves its change alone, and the companies on file stay.
LEMMA RequestStep ==
    ASSUME RegisterInv, FilesStay, change' = change, NEW r \in SupplierRequests, NEW q, Continue(r, q),
           SupplierRequest(q), q.pc # "instance"
    PROVE  RegisterInv'
<1>1. DOMAIN sreq' = SupplierRequests /\ sreq'[r] = q /\ \A o \in SupplierRequests \ {r} : sreq'[o] = sreq[o]
  BY DEF RegisterInv, Continue
<1>2. \A s \in Companies : OnFile(s) => OnFile(s)'
  BY DEF FilesStay, OnFile
<1>3. ASSUME NEW o \in SupplierRequests PROVE SupplierRequest(sreq[o])'
  <2>1. SupplierRequest(sreq'[o])
    BY <1>1 DEF RegisterInv
  <2> QED
    BY <1>2, <2>1 DEF SupplierRequest
<1>4. Alone'
  BY <1>1 DEF RegisterInv, Alone
<1>5. ChangesAgree'
  BY <1>2 DEF RegisterInv, ChangesAgree
<1> QED
  BY <1>1, <1>3, <1>4, <1>5 DEF RegisterInv, FilesStay, SupplierRow, ChangeRow

LEMMA FilesUnchanged == ASSUME RegisterInv, supplier' = supplier PROVE FilesStay
  BY DEF RegisterInv, FilesStay, OnFile

LEMMA AnswerStep ==
    ASSUME RegisterInv, FilesStay, change' = change, NEW r \in SupplierRequests, Answer(r)
    PROVE  RegisterInv'
<1>1. SupplierRequest(Resting) /\ Resting.pc # "instance"
  BY RestingOK DEF SupplierRequest
<1> QED
  BY <1>1, RequestStep DEF Answer

LEMMA ReadsKeep ==
    ASSUME RegisterInv, NEW r \in SupplierRequests,
           \/ \E s \in Companies, status \in SupplierStatuses, a \in Accounts \cup {NoValue} :
                \/ \E number \in Numbers : RegisterRead(r, s, number, status, a)
                \/ \E number \in Numbers \cup {NoValue} : UpdateRead(r, s, number, status, a)
           \/ ReadEnabled(r) \/ ReadBankApproval(r) \/ ReadBankRule(r)
    PROVE  RegisterInv'
<1>0. SupplierRequest(sreq[r])
  BY DEF RegisterInv
<1>1. ASSUME NEW s \in Companies, NEW status, NEW a, NEW number \in Numbers, RegisterRead(r, s, number, status, a)
      PROVE  RegisterInv'
  <2>1. PICK q : q = [Resting EXCEPT !.pc = "register", !.supplier = s, !.number = number,
                                     !.status = status, !.account = a]
    OBVIOUS
  <2>2. /\ DOMAIN q = {"pc", "supplier", "number", "status", "account", "change", "enabled"}
        /\ q.pc = "register" /\ q.supplier = s /\ q.number = number
    BY <2>1, RestingOK
  <2>3. SupplierRequest(q) /\ q.pc # "instance"
    BY <2>2, RegisterAssumption DEF SupplierRequest
  <2>4. Continue(r, q) /\ change' = change /\ supplier' = supplier
    BY <1>1, <2>1 DEF RegisterRead
  <2> QED
    BY <2>3, <2>4, FilesUnchanged, RequestStep
<1>2. ASSUME NEW s \in Companies, NEW status, NEW a, NEW number, UpdateRead(r, s, number, status, a)
      PROVE  RegisterInv'
  <2>1. PICK q : q = [Resting EXCEPT !.pc = IF a = NoValue THEN "write" ELSE "enabled", !.supplier = s,
                                     !.number = number, !.status = status, !.account = a]
    OBVIOUS
  <2>2. /\ DOMAIN q = {"pc", "supplier", "number", "status", "account", "change", "enabled"}
        /\ q.pc \in {"write", "enabled"} /\ q.supplier = s
    BY <2>1, RestingOK
  <2>3. SupplierRequest(q) /\ q.pc # "instance"
    BY <1>2, <2>2 DEF SupplierRequest, UpdateRead
  <2>4. Continue(r, q) /\ change' = change /\ supplier' = supplier
    BY <1>2, <2>1 DEF UpdateRead
  <2> QED
    BY <2>3, <2>4, FilesUnchanged, RequestStep
<1>3. ASSUME NEW q, Continue(r, q), UNCHANGED <<supplier, change>>, DOMAIN q = DOMAIN sreq[r], q.supplier = sreq[r].supplier,
             q.pc \in {"policy", "rule", "write", "object"}, sreq[r].pc \in {"enabled", "policy", "rule"}
      PROVE  RegisterInv'
  <2>1. SupplierRequest(q) /\ q.pc # "instance"
    BY <1>0, <1>3 DEF SupplierRequest
  <2> QED
    BY <1>3, <2>1, FilesUnchanged, RequestStep
<1>4. ASSUME ReadEnabled(r) PROVE RegisterInv'
  <2>1. PICK q : q = [sreq[r] EXCEPT !.pc = "policy", !.enabled = WorkflowOn]
    OBVIOUS
  <2>2. DOMAIN q = DOMAIN sreq[r] /\ q.supplier = sreq[r].supplier /\ q.pc = "policy"
    BY <1>0, <2>1 DEF SupplierRequest
  <2> QED
    BY <1>3, <1>4, <2>1, <2>2 DEF ReadEnabled
<1>5. ASSUME ReadBankApproval(r) PROVE RegisterInv'
  <2>1. PICK q : q = [sreq[r] EXCEPT !.pc = IF sreq[r].enabled /\ BankApprovalOn THEN "rule" ELSE "write"]
    OBVIOUS
  <2>2. DOMAIN q = DOMAIN sreq[r] /\ q.supplier = sreq[r].supplier /\ q.pc \in {"rule", "write"}
    BY <1>0, <2>1 DEF SupplierRequest
  <2> QED
    BY <1>3, <1>5, <2>1, <2>2 DEF ReadBankApproval
<1>6. ASSUME ReadBankRule(r) PROVE RegisterInv'
  <2>1. PICK q : q = [sreq[r] EXCEPT !.pc = "object"]
    OBVIOUS
  <2>2. DOMAIN q = DOMAIN sreq[r] /\ q.supplier = sreq[r].supplier /\ q.pc = "object"
    BY <1>0, <2>1 DEF SupplierRequest
  <2> QED
    BY <1>3, <1>6, <2>1, <2>2, FilesUnchanged, AnswerStep DEF ReadBankRule
<1> QED
  BY <1>1, <1>2, <1>4, <1>5, <1>6

LEMMA WritesKeep ==
    ASSUME RegisterInv, NEW r \in SupplierRequests, RegisterInsert(r) \/ UpdateWrite(r) \/ RequestFails(r)
    PROVE  RegisterInv'
<1>0. PICK q : q = sreq[r] /\ SupplierRequest(q)
  BY DEF RegisterInv
<1>1. ASSUME NEW s \in Companies, NEW row, supplier' = [supplier EXCEPT ![s] = row], SupplierRow(row),
             OnFile(s) => row.number # NoValue
      PROVE  FilesStay
  <2>1. DOMAIN supplier = Companies /\ \A x \in Companies : SupplierRow(supplier[x])
    BY DEF RegisterInv
  <2>2. supplier'[s] = row /\ \A x \in Companies \ {s} : supplier'[x] = supplier[x]
    BY <1>1, <2>1
  <2>3. ASSUME NEW x \in Companies PROVE SupplierRow(supplier'[x]) /\ (OnFile(x) => supplier'[x].number # NoValue)
    BY <1>1, <2>1, <2>2 DEF OnFile
  <2>4. DOMAIN supplier' = Companies
    BY <1>1, <2>1
  <2> QED
    BY <2>3, <2>4 DEF FilesStay
<1>2. CASE RegisterInsert(r)
  <2>1. CASE NumberTaken(q.supplier, q.number) \/ OnFile(q.supplier)
    BY <1>0, <1>2, <2>1, FilesUnchanged, AnswerStep DEF RegisterInsert
  <2>2. CASE ~(NumberTaken(q.supplier, q.number) \/ OnFile(q.supplier))
    <3> DEFINE row == [number |-> q.number, status |-> FirstStatus(q.status), account |-> q.account, opening |-> q.account]
    <3>1. SupplierRow(row) /\ supplier' = [supplier EXCEPT ![q.supplier] = row] /\ q.supplier \in Companies
      BY <1>0, <1>2, <2>2 DEF RegisterInsert, SupplierRow, SupplierRequest
    <3>2. ~OnFile(q.supplier)
      BY <2>2
    <3> HIDE DEF row
    <3>3. FilesStay
      BY <1>1, <3>1, <3>2
    <3> QED
      BY <1>2, <3>3, AnswerStep DEF RegisterInsert
  <2> QED
    BY <2>1, <2>2
<1>3. CASE UpdateWrite(r)
  <2>1. CASE q.number # NoValue /\ NumberTaken(q.supplier, q.number)
    BY <1>0, <1>3, <2>1, FilesUnchanged, AnswerStep DEF UpdateWrite
  <2>2. CASE ~(q.number # NoValue /\ NumberTaken(q.supplier, q.number))
    <3> DEFINE s == q.supplier
               old == supplier[s]
    <3>1. SupplierRow(old) /\ old.number # NoValue /\ s \in Companies /\ DOMAIN supplier = Companies
      BY <1>0, <1>3 DEF RegisterInv, SupplierRequest, UpdateWrite, OnFile
    <3>2. supplier' = [supplier EXCEPT ![s] =
                         [old EXCEPT !.number = IF q.number = NoValue THEN old.number ELSE q.number,
                                     !.status = IF q.status = "" THEN old.status ELSE q.status,
                                     !.account = IF q.account = NoValue THEN old.account ELSE q.account]]
      BY <1>0, <1>3, <2>2 DEF UpdateWrite
    <3>3. PICK row : row = [old EXCEPT !.number = IF q.number = NoValue THEN old.number ELSE q.number,
                                       !.status = IF q.status = "" THEN old.status ELSE q.status,
                                       !.account = IF q.account = NoValue THEN old.account ELSE q.account]
      OBVIOUS
    <3>4. supplier' = [supplier EXCEPT ![s] = row]
      BY <3>2, <3>3
    <3>5. SupplierRow(row) /\ row.number # NoValue
      BY <3>1, <3>3 DEF SupplierRow
    <3> HIDE DEF s, old
    <3>6. FilesStay
      BY <1>1, <3>1, <3>4, <3>5
    <3> QED
      BY <1>3, <3>6, AnswerStep DEF UpdateWrite
  <2> QED
    BY <2>1, <2>2
<1>4. CASE RequestFails(r)
  BY <1>4, FilesUnchanged, AnswerStep DEF RequestFails
<1> QED
  BY <1>2, <1>3, <1>4

LEMMA OpenChangeKeeps ==
    ASSUME RegisterInv, NEW r \in SupplierRequests, NEW c \in Changes, OpenChange(r, c)
    PROVE  RegisterInv'
<1>1. PICK q : q = sreq[r] /\ SupplierRequest(q) /\ q.pc = "object"
  BY DEF RegisterInv, OpenChange
<1>2. PICK row : row = [NoChange EXCEPT !.supplier = q.supplier, !.account = q.account, !.object = "pending_approval"]
  OBVIOUS
<1>3. ChangeRow(row) /\ row.supplier = q.supplier /\ row.object = "pending_approval" /\ row.instance = "none"
  BY <1>2 DEF NoChange, ChangeRow
<1>4. PICK next : next = [q EXCEPT !.pc = "instance", !.change = c]
  OBVIOUS
<1>5. DOMAIN next = DOMAIN q /\ next.pc = "instance" /\ next.change = c /\ next.supplier = q.supplier
  BY <1>1, <1>4 DEF SupplierRequest
<1>6. /\ DOMAIN change' = Changes /\ change'[c] = row /\ \A d \in Changes \ {c} : change'[d] = change[d]
      /\ DOMAIN sreq' = SupplierRequests /\ sreq'[r] = next /\ \A o \in SupplierRequests \ {r} : sreq'[o] = sreq[o]
      /\ UNCHANGED supplier
  BY <1>1, <1>2, <1>4 DEF RegisterInv, OpenChange, Continue
<1>7. change[c] = NoChange /\ change[c].object = "none"
  BY DEF OpenChange, NoChange
<1>8. \A o \in SupplierRequests : sreq[o].pc = "instance" => sreq[o].change # c
  BY <1>7 DEF RegisterInv, SupplierRequest
<1>9. ASSUME NEW o \in SupplierRequests PROVE SupplierRequest(sreq[o])'
  <2>1. CASE o = r
    BY <1>1, <1>3, <1>5, <1>6, <2>1 DEF SupplierRequest, OnFile
  <2>2. CASE o # r
    <3>1. SupplierRequest(sreq[o])
      BY DEF RegisterInv
    <3> QED
      BY <1>6, <1>8, <2>2, <3>1 DEF SupplierRequest, OnFile
  <2> QED
    BY <2>1, <2>2
<1>10. Alone'
  BY <1>5, <1>6, <1>8 DEF RegisterInv, Alone
<1>11. ChangesAgree'
  BY <1>3, <1>6 DEF RegisterInv, ChangesAgree, OnFile
<1> QED
  BY <1>3, <1>6, <1>9, <1>10, <1>11 DEF RegisterInv, SupplierRow, ChangeRow

LEMMA OpenInstanceKeeps ==
    ASSUME RegisterInv, NEW r \in SupplierRequests, OpenInstance(r)
    PROVE  RegisterInv'
<1>1. PICK q : q = sreq[r] /\ SupplierRequest(q) /\ q.pc = "instance"
  BY DEF RegisterInv, OpenInstance
<1>2. q.change \in Changes /\ ChangeRow(change[q.change])
  BY <1>1 DEF SupplierRequest, RegisterInv
<1>3. PICK row : row = [change[q.change] EXCEPT !.instance = "pending"]
  OBVIOUS
<1>4. /\ ChangeRow(row) /\ row.instance = "pending" /\ row.object = "pending_approval" /\ row.supplier = q.supplier
      /\ OnFile(q.supplier) /\ q.supplier \in Companies
  BY <1>1, <1>2, <1>3 DEF SupplierRequest, ChangeRow
<1>5. PICK next : next = [q EXCEPT !.pc = "write", !.account = NoValue]
  OBVIOUS
<1>6. DOMAIN next = DOMAIN q /\ next.pc = "write" /\ next.supplier = q.supplier
  BY <1>1, <1>5 DEF SupplierRequest
<1>7. /\ DOMAIN change' = Changes /\ change'[q.change] = row /\ \A d \in Changes \ {q.change} : change'[d] = change[d]
      /\ DOMAIN sreq' = SupplierRequests /\ sreq'[r] = next /\ \A o \in SupplierRequests \ {r} : sreq'[o] = sreq[o]
      /\ UNCHANGED supplier
  <2>1. change' = [change EXCEPT ![q.change] = row] /\ Continue(r, next) /\ UNCHANGED supplier
    BY <1>1, <1>3, <1>5 DEF OpenInstance
  <2> QED
    BY <1>2, <2>1 DEF RegisterInv, Continue
<1>8. \A o \in SupplierRequests \ {r} : sreq[o].pc = "instance" => sreq[o].change # q.change
  BY <1>1 DEF RegisterInv, Alone
<1>9. ASSUME NEW o \in SupplierRequests PROVE SupplierRequest(sreq[o])'
  <2>1. CASE o = r
    BY <1>1, <1>4, <1>6, <1>7, <2>1 DEF SupplierRequest, OnFile
  <2>2. CASE o # r
    <3>1. SupplierRequest(sreq[o])
      BY DEF RegisterInv
    <3> QED
      BY <1>7, <1>8, <2>2, <3>1 DEF SupplierRequest, OnFile
  <2> QED
    BY <2>1, <2>2
<1>10. Alone'
  BY <1>6, <1>7 DEF RegisterInv, Alone
<1>11. ChangesAgree'
  BY <1>4, <1>7 DEF RegisterInv, ChangesAgree, OnFile
<1> QED
  BY <1>4, <1>7, <1>9, <1>10, <1>11 DEF RegisterInv, SupplierRow, ChangeRow

LEMMA DecideKeeps ==
    ASSUME RegisterInv, NEW c \in Changes, NEW outcome \in {"approved", "rejected", "returned"}, DecideChange(c, outcome)
    PROVE  RegisterInv'
<1>1. PICK row : row = [change[c] EXCEPT !.instance = outcome, !.object = outcome]
  OBVIOUS
<1>2. ChangeRow(row) /\ row.instance = outcome /\ row.object = outcome /\ row.supplier = change[c].supplier
  BY <1>1 DEF RegisterInv, ChangeRow
<1>3. DOMAIN change' = Changes /\ change'[c] = row /\ (\A d \in Changes \ {c} : change'[d] = change[d]) /\ sreq' = sreq
  BY <1>1 DEF RegisterInv, DecideChange
<1>4. DOMAIN supplier' = Companies /\ \A s \in Companies : SupplierRow(supplier'[s]) /\ supplier'[s].number = supplier[s].number
  <2>1. CASE Replaces(outcome)
    <3>1. PICK s \in Companies : s = change[c].supplier
      BY DEF DecideChange, RegisterInv
    <3>2. supplier' = [supplier EXCEPT ![s].account = change[c].account]
      BY <2>1, <3>1 DEF DecideChange
    <3> QED
      BY <3>2 DEF RegisterInv, SupplierRow
  <2>2. CASE ~Replaces(outcome)
    BY <2>2 DEF DecideChange, RegisterInv
  <2> QED
    BY <2>1, <2>2
<1>5. ASSUME NEW o \in SupplierRequests PROVE SupplierRequest(sreq[o])'
  <2>1. SupplierRequest(sreq[o])
    BY DEF RegisterInv
  <2>2. sreq[o].pc = "instance" => sreq[o].change # c
    BY <2>1 DEF SupplierRequest, DecideChange
  <2> QED
    BY <1>3, <1>4, <2>1, <2>2 DEF SupplierRequest, OnFile
<1>6. ChangesAgree'
  <2>1. \A d \in Changes : change[d].instance = "pending" => change[d].supplier \in Companies
    BY DEF RegisterInv
  <2> QED
    BY <1>2, <1>3, <1>4, <2>1 DEF RegisterInv, ChangesAgree, OnFile
<1>7. Alone'
  BY <1>3 DEF RegisterInv, Alone
<1> QED
  BY <1>2, <1>3, <1>4, <1>5, <1>6, <1>7 DEF RegisterInv, SupplierRow, ChangeRow

LEMMA RegisterInvNext == RegisterInv /\ [RegisterNext]_registerVars => RegisterInv'
<1> SUFFICES ASSUME RegisterInv, [RegisterNext]_registerVars PROVE RegisterInv'
  OBVIOUS
<1>1. ASSUME UNCHANGED <<supplier, change, sreq>> PROVE RegisterInv'
  BY <1>1 DEF RegisterInv, SupplierRow, ChangeRow, SupplierRequest, OnFile, Alone, ChangesAgree
<1>2. ASSUME NEW r \in SupplierRequests, RegisterStep(r) PROVE RegisterInv'
  BY <1>2, ReadsKeep, WritesKeep, OpenChangeKeeps, OpenInstanceKeeps DEF RegisterStep
<1>3. CASE \E which, value : SetPolicy(which, value)
  BY <1>1, <1>3 DEF SetPolicy
<1>4. CASE SwitchBankRule \/ UNCHANGED registerVars
  BY <1>1, <1>4 DEF SwitchBankRule, registerVars
<1> QED
  BY <1>2, <1>3, <1>4, DecideKeeps DEF RegisterNext

LEMMA RegisterInvInit == RegisterInit => RegisterInv
<1> SUFFICES ASSUME RegisterInit PROVE RegisterInv
  OBVIOUS
<1>1. \A s \in Companies : SupplierRow(supplier[s])
  BY DEF RegisterInit, NotOnFile, SupplierRow
<1>2. \A c \in Changes : ChangeRow(change[c]) /\ change[c].instance = "none"
  BY DEF RegisterInit, NoChange, ChangeRow
<1>3. \A r \in SupplierRequests : SupplierRequest(sreq[r]) /\ sreq[r].pc = "idle"
  BY RestingOK DEF RegisterInit, SupplierRequest
<1> QED
  BY <1>1, <1>2, <1>3 DEF RegisterInit, RegisterInv, Alone, ChangesAgree

\* SupplierRegister: whichever statement fails and whoever races, a bank change and its
\* approval agree.
THEOREM ChangesAlwaysAgree == RegisterSpec => []ChangesAgree
<1>1. RegisterInv => ChangesAgree
  BY DEF RegisterInv
<1> QED
  BY <1>1, RegisterInvInit, RegisterInvNext, PTL DEF RegisterSpec

(***************************************************************************)
(* While the policy is on, a request that goes on to write has given its   *)
(* account to a change, so nothing but an approval replaces one.           *)
(***************************************************************************)
Settled(q) == /\ q.pc = "policy" => q.enabled
              /\ q.pc = "write" => q.account = NoValue

BankInv == RegisterInv /\ AccountApproved /\ \A r \in SupplierRequests : Settled(sreq[r])

\* Accounts stay good when approved changes stay, and each account is kept, the one of
\* the registration, or the one of an approved change.
LEMMA AccountStep ==
    ASSUME AccountApproved,
           \A c \in Changes : change[c].object = "approved" => change'[c] = change[c],
           \A s \in Companies : OnFile(s)' =>
               \/ OnFile(s) /\ supplier'[s].account = supplier[s].account /\ supplier'[s].opening = supplier[s].opening
               \/ supplier'[s].account = supplier'[s].opening
               \/ \E c \in Changes : change'[c].supplier = s /\ change'[c].object = "approved"
                                     /\ change'[c].account = supplier'[s].account
    PROVE  AccountApproved'
  BY DEF AccountApproved

LEMMA SettledStep ==
    ASSUME RegisterInv, \A o \in SupplierRequests : Settled(sreq[o]), NEW r \in SupplierRequests, NEW q,
           Continue(r, q), Settled(q)
    PROVE  \A o \in SupplierRequests : Settled(sreq'[o])
  BY DEF RegisterInv, Continue

LEMMA AnswerSettled ==
    ASSUME RegisterInv, \A o \in SupplierRequests : Settled(sreq[o]), NEW r \in SupplierRequests, Answer(r)
    PROVE  \A o \in SupplierRequests : Settled(sreq'[o])
<1>1. Settled(Resting)
  BY RestingOK DEF Settled
<1> QED
  BY <1>1, SettledStep DEF Answer

LEMMA BankReads ==
    ASSUME BankInv, BankPolicyOn, NEW r \in SupplierRequests,
           \/ \E s \in Companies, status \in SupplierStatuses, a \in Accounts \cup {NoValue} :
                \/ \E number \in Numbers : RegisterRead(r, s, number, status, a)
                \/ \E number \in Numbers \cup {NoValue} : UpdateRead(r, s, number, status, a)
           \/ ReadEnabled(r) \/ ReadBankApproval(r) \/ ReadBankRule(r)
    PROVE  UNCHANGED <<supplier, change>> /\ \A o \in SupplierRequests : Settled(sreq'[o])
<1>0. PICK q : q = sreq[r] /\ SupplierRequest(q) /\ Settled(q)
  BY DEF BankInv, RegisterInv
<1>1. ASSUME NEW s, NEW status, NEW a, NEW number, RegisterRead(r, s, number, status, a)
      PROVE  UNCHANGED <<supplier, change>> /\ \A o \in SupplierRequests : Settled(sreq'[o])
  <2>1. PICK next : next = [Resting EXCEPT !.pc = "register", !.supplier = s, !.number = number,
                                           !.status = status, !.account = a]
    OBVIOUS
  <2>2. Settled(next)
    BY <2>1, RestingOK DEF Settled
  <2> QED
    BY <1>1, <2>1, <2>2, SettledStep DEF RegisterRead, BankInv
<1>2. ASSUME NEW s, NEW status, NEW a, NEW number, UpdateRead(r, s, number, status, a)
      PROVE  UNCHANGED <<supplier, change>> /\ \A o \in SupplierRequests : Settled(sreq'[o])
  <2>1. PICK next : next = [Resting EXCEPT !.pc = IF a = NoValue THEN "write" ELSE "enabled", !.supplier = s,
                                           !.number = number, !.status = status, !.account = a]
    OBVIOUS
  <2>2. Settled(next)
    BY <2>1, RestingOK DEF Settled
  <2> QED
    BY <1>2, <2>1, <2>2, SettledStep DEF UpdateRead, BankInv
<1>3. CASE ReadEnabled(r)
  <2>1. PICK next : next = [q EXCEPT !.pc = "policy", !.enabled = TRUE]
    OBVIOUS
  <2>2. Settled(next)
    BY <1>0, <2>1 DEF Settled, SupplierRequest
  <2>3. WorkflowOn = TRUE
    BY DEF WorkflowOn, BankPolicyOn
  <2> QED
    BY <1>0, <1>3, <2>1, <2>2, <2>3, SettledStep DEF ReadEnabled, BankInv
<1>4. CASE ReadBankApproval(r)
  <2>1. PICK next : next = [q EXCEPT !.pc = "rule"]
    OBVIOUS
  <2>2. Settled(next)
    BY <1>0, <2>1 DEF Settled, SupplierRequest
  <2>3. sreq[r].enabled /\ BankApprovalOn
    BY <1>0, <1>4 DEF BankApprovalOn, BankPolicyOn, Settled, ReadBankApproval
  <2> QED
    BY <1>0, <1>4, <2>1, <2>2, <2>3, SettledStep DEF ReadBankApproval, BankInv
<1>5. CASE ReadBankRule(r)
  <2>1. PICK next : next = [q EXCEPT !.pc = "object"]
    OBVIOUS
  <2>2. Settled(next)
    BY <1>0, <2>1 DEF Settled, SupplierRequest
  <2> QED
    BY <1>0, <1>5, <2>1, <2>2, SettledStep, AnswerSettled DEF ReadBankRule, BankInv
<1> QED
  BY <1>1, <1>2, <1>3, <1>4, <1>5

LEMMA BankWrites ==
    ASSUME BankInv, NEW r \in SupplierRequests, RegisterInsert(r) \/ UpdateWrite(r) \/ RequestFails(r)
    PROVE  AccountApproved' /\ \A o \in SupplierRequests : Settled(sreq'[o])
<1>0. PICK q : q = sreq[r] /\ SupplierRequest(q) /\ Settled(q)
  BY DEF BankInv, RegisterInv
<1>1. Answer(r) /\ change' = change
  BY DEF RegisterInsert, UpdateWrite, RequestFails
<1>2. ASSUME supplier' = supplier PROVE AccountApproved'
  BY <1>1, <1>2, AccountStep DEF BankInv, OnFile
<1>3. ASSUME NEW s, NEW row, supplier' = [supplier EXCEPT ![s] = row], row.account = row.opening
      PROVE  AccountApproved'
  BY <1>1, <1>3, AccountStep DEF BankInv, RegisterInv, OnFile
<1>4. ASSUME RegisterInsert(r) PROVE AccountApproved'
  <2>1. PICK row : row = [number |-> q.number, status |-> FirstStatus(q.status), account |-> q.account, opening |-> q.account]
    OBVIOUS
  <2> QED
    BY <1>0, <1>2, <1>3, <1>4, <2>1 DEF RegisterInsert
<1>5. ASSUME UpdateWrite(r) PROVE AccountApproved'
  <2>1. CASE q.number # NoValue /\ NumberTaken(q.supplier, q.number)
    BY <1>0, <1>2, <1>5, <2>1 DEF UpdateWrite
  <2>2. CASE ~(q.number # NoValue /\ NumberTaken(q.supplier, q.number))
    <3> DEFINE s == q.supplier
               old == supplier[s]
    <3>1. SupplierRow(old) /\ OnFile(s) /\ s \in Companies /\ q.account = NoValue
      BY <1>0, <1>5 DEF BankInv, RegisterInv, SupplierRequest, UpdateWrite, Settled
    <3>2. supplier' = [supplier EXCEPT ![s] =
                         [old EXCEPT !.number = IF q.number = NoValue THEN old.number ELSE q.number,
                                     !.status = IF q.status = "" THEN old.status ELSE q.status,
                                     !.account = IF q.account = NoValue THEN old.account ELSE q.account]]
      BY <1>0, <1>5, <2>2 DEF UpdateWrite
    <3>3. supplier'[s].account = old.account /\ supplier'[s].opening = old.opening
      BY <3>1, <3>2 DEF SupplierRow, BankInv, RegisterInv
    <3>4. \A x \in Companies \ {s} : supplier'[x] = supplier[x]
      BY <3>2 DEF BankInv, RegisterInv
    <3> QED
      BY <1>1, <3>1, <3>3, <3>4, AccountStep DEF BankInv, OnFile
  <2> QED
    BY <2>1, <2>2
<1>6. ASSUME RequestFails(r) PROVE AccountApproved'
  BY <1>2, <1>6 DEF RequestFails
<1> QED
  BY <1>1, <1>4, <1>5, <1>6, AnswerSettled DEF BankInv

LEMMA BankChanges ==
    ASSUME BankInv, NEW r \in SupplierRequests, (\E c \in Changes : OpenChange(r, c)) \/ OpenInstance(r)
    PROVE  AccountApproved' /\ \A o \in SupplierRequests : Settled(sreq'[o])
<1>0. PICK q : q = sreq[r] /\ SupplierRequest(q)
  BY DEF BankInv, RegisterInv
<1>1. ASSUME NEW c \in Changes, change[c].object # "approved", NEW row, change' = [change EXCEPT ![c] = row],
             supplier' = supplier
      PROVE  AccountApproved'
  BY <1>1, AccountStep DEF BankInv, RegisterInv, OnFile
<1>2. ASSUME NEW c \in Changes, OpenChange(r, c)
      PROVE  AccountApproved' /\ \A o \in SupplierRequests : Settled(sreq'[o])
  <2>1. PICK next : next = [q EXCEPT !.pc = "instance", !.change = c]
    OBVIOUS
  <2>2. Settled(next)
    BY <1>0, <2>1 DEF Settled, SupplierRequest
  <2>3. change[c] = NoChange /\ NoChange.object = "none"
    BY <1>2 DEF OpenChange, NoChange
  <2> QED
    BY <1>0, <1>1, <1>2, <2>1, <2>2, <2>3, SettledStep DEF OpenChange, BankInv
<1>3. ASSUME OpenInstance(r)
      PROVE  AccountApproved' /\ \A o \in SupplierRequests : Settled(sreq'[o])
  <2>1. PICK next : next = [q EXCEPT !.pc = "write", !.account = NoValue]
    OBVIOUS
  <2>2. Settled(next)
    BY <1>0, <2>1 DEF Settled, SupplierRequest
  <2>3. q.change \in Changes /\ change[q.change].object # "approved"
    BY <1>0, <1>3 DEF OpenInstance, SupplierRequest
  <2>4. PICK row : row = [change[q.change] EXCEPT !.instance = "pending"]
    OBVIOUS
  <2>5. change' = [change EXCEPT ![q.change] = row] /\ supplier' = supplier /\ Continue(r, next)
    BY <1>0, <1>3, <2>1, <2>4 DEF OpenInstance
  <2> QED
    BY <1>1, <2>2, <2>3, <2>5, SettledStep DEF BankInv
<1> QED
  BY <1>2, <1>3

LEMMA BankDecides ==
    ASSUME BankInv, NEW c \in Changes, NEW outcome \in {"approved", "rejected", "returned"}, DecideChange(c, outcome)
    PROVE  AccountApproved'
<1>1. PICK row : row = [change[c] EXCEPT !.instance = outcome, !.object = outcome]
  OBVIOUS
<1>2. ChangeRow(change[c]) /\ change[c].object = "pending_approval" /\ change[c].supplier \in Companies
  BY DEF BankInv, RegisterInv, ChangesAgree, DecideChange
<1>3. row.object = outcome /\ row.supplier = change[c].supplier /\ row.account = change[c].account
  BY <1>1, <1>2 DEF ChangeRow
<1>4. change'[c] = row /\ \A d \in Changes \ {c} : change'[d] = change[d]
  BY <1>1 DEF BankInv, RegisterInv, DecideChange
<1>5. \A d \in Changes : change[d].object = "approved" => change'[d] = change[d]
  BY <1>2, <1>4
<1>6. CASE Replaces(outcome)
  <2>1. PICK s \in Companies : s = change[c].supplier
    BY <1>2
  <2>2. supplier' = [supplier EXCEPT ![s].account = change[c].account]
    BY <1>6, <2>1 DEF DecideChange
  <2>3. \A x \in Companies \ {s} : supplier'[x] = supplier[x]
    BY <2>2 DEF BankInv, RegisterInv
  <2>4. supplier'[s].account = change[c].account /\ supplier'[s].opening = supplier[s].opening
    BY <2>1, <2>2 DEF BankInv, RegisterInv, SupplierRow
  <2>5. change'[c].supplier = s /\ change'[c].object = "approved" /\ change'[c].account = supplier'[s].account
    BY <1>3, <1>4, <1>6, <2>1, <2>4 DEF Replaces
  <2> QED
    BY <1>5, <2>3, <2>5, AccountStep DEF BankInv, OnFile
<1>7. CASE ~Replaces(outcome)
  <2>1. supplier' = supplier
    BY <1>7 DEF DecideChange
  <2> QED
    BY <1>5, <2>1, AccountStep DEF BankInv, OnFile
<1> QED
  BY <1>6, <1>7

LEMMA BankInvNext == BankInv /\ BankPolicyOn /\ [RegisterNext]_registerVars => BankInv'
<1> SUFFICES ASSUME BankInv, BankPolicyOn, [RegisterNext]_registerVars PROVE BankInv'
  OBVIOUS
<1> DEFINE Goal == AccountApproved' /\ \A o \in SupplierRequests : Settled(sreq'[o])
<1>1. RegisterInv'
  BY RegisterInvNext DEF BankInv
<1>2. ASSUME UNCHANGED <<supplier, change>> PROVE AccountApproved'
  BY <1>2, AccountStep DEF BankInv, OnFile
<1>3. ASSUME UNCHANGED <<supplier, change, sreq>> PROVE Goal
  BY <1>2, <1>3 DEF BankInv
<1>4. ASSUME NEW r \in SupplierRequests, RegisterStep(r) PROVE Goal
  <2>1. CASE RegisterInsert(r) \/ UpdateWrite(r) \/ RequestFails(r)
    BY <2>1, BankWrites
  <2>2. CASE (\E c \in Changes : OpenChange(r, c)) \/ OpenInstance(r)
    BY <2>2, BankChanges
  <2>3. CASE \/ \E s \in Companies, status \in SupplierStatuses, a \in Accounts \cup {NoValue} :
                  \/ \E number \in Numbers : RegisterRead(r, s, number, status, a)
                  \/ \E number \in Numbers \cup {NoValue} : UpdateRead(r, s, number, status, a)
             \/ ReadEnabled(r) \/ ReadBankApproval(r) \/ ReadBankRule(r)
    BY <1>2, <2>3, BankReads
  <2> QED
    BY <1>4, <2>1, <2>2, <2>3 DEF RegisterStep
<1>5. ASSUME NEW c \in Changes, NEW outcome \in {"approved", "rejected", "returned"}, DecideChange(c, outcome) PROVE Goal
  BY <1>5, BankDecides DEF DecideChange, BankInv
<1>6. CASE \E which, value : SetPolicy(which, value)
  BY <1>1, <1>3, <1>6 DEF SetPolicy, BankInv
<1>7. CASE SwitchBankRule \/ UNCHANGED registerVars
  BY <1>1, <1>3, <1>7 DEF SwitchBankRule, registerVars, BankInv
<1> QED
  BY <1>1, <1>4, <1>5, <1>6, <1>7 DEF RegisterNext, BankInv

LEMMA BankInvInit == RegisterInit => BankInv
<1> SUFFICES ASSUME RegisterInit PROVE BankInv
  OBVIOUS
<1>1. \A s \in Companies : ~OnFile(s)
  BY DEF RegisterInit, NotOnFile, OnFile
<1>2. \A r \in SupplierRequests : Settled(sreq[r])
  BY RestingOK DEF RegisterInit, Settled
<1> QED
  BY <1>1, <1>2, RegisterInvInit DEF BankInv, AccountApproved

\* SupplierRegister: while the workflow and the approval of bank changes are on, no
\* account changes without an approved change.
THEOREM AccountsAreGuarded == RegisterSpec => BankGuarded
<1>1. BankInv => AccountApproved
  BY DEF BankInv
<1> QED
  BY <1>1, BankInvInit, BankInvNext, PTL DEF RegisterSpec, BankGuarded

(***************************************************************************)
(* Portal: whoever redeems an invitation holds its row, and links and      *)
(* contacts keep their address.                                            *)
(***************************************************************************)
InvitationRow(x) == DOMAIN x = {"email", "supplier", "by", "expired", "accepted", "revoked", "holder"}
LinkRow(x) == DOMAIN x = {"email", "expired", "verified"}

PortalRequest(r) ==
    LET q == preq[r]
        i == preq[r].invitation
    IN
    /\ q.pc # "idle" => i \in Invitations
    /\ q.pc = "redeem" => /\ Issued(i) /\ invitation[i].holder = r
                          /\ ~invitation[i].accepted /\ ~invitation[i].revoked

PortalInv ==
    /\ DOMAIN invitation = Invitations /\ DOMAIN contact = Contacts /\ DOMAIN link = Links /\ DOMAIN preq = PortalRequests
    /\ \A i \in Invitations : InvitationRow(invitation[i])
    /\ \A l \in Links : LinkRow(link[l])
    /\ \A r \in PortalRequests : PortalRequest(r)
    /\ OneEnding

\* An invitation that nobody else redeems changes, and one request moves or none does.
LEMMA InvitationStep ==
    ASSUME PortalInv, UNCHANGED <<contact, link>>, NEW i \in Invitations, NEW row,
           invitation' = [invitation EXCEPT ![i] = row], InvitationRow(row), ~(row.accepted /\ row.revoked),
           NEW moved, DOMAIN preq' = PortalRequests,
           \A r \in PortalRequests \ {moved} : /\ preq'[r] = preq[r]
                                               /\ preq[r].pc = "redeem" => preq[r].invitation # i,
           moved \in PortalRequests => PortalRequest(moved)'
    PROVE  PortalInv'
<1>1. DOMAIN invitation' = Invitations /\ invitation'[i] = row /\ \A j \in Invitations \ {i} : invitation'[j] = invitation[j]
  BY DEF PortalInv
<1>2. ASSUME NEW r \in PortalRequests PROVE PortalRequest(r)'
  <2>1. CASE r # moved
    BY <1>1, <2>1 DEF PortalInv, PortalRequest, Issued
  <2> QED
    BY <2>1
<1>3. OneEnding'
  BY <1>1 DEF PortalInv, OneEnding
<1> QED
  BY <1>1, <1>2, <1>3 DEF PortalInv, LinkRow

\* A request alone moves.
LEMMA RequestMoves ==
    ASSUME PortalInv, UNCHANGED <<contact, link, invitation>>, NEW r \in PortalRequests, NEW q,
           preq' = [preq EXCEPT ![r] = q], q.pc \in {"idle", "recall"}, q.pc # "idle" => q.invitation \in Invitations
    PROVE  PortalInv'
<1>1. ASSUME NEW o \in PortalRequests PROVE PortalRequest(o)'
  BY DEF PortalInv, PortalRequest, Issued
<1> QED
  BY <1>1 DEF PortalInv, OneEnding, LinkRow, InvitationRow

LEMMA AwayOK == Away.pc = "idle" /\ DOMAIN Away = {"pc", "invitation", "company", "number"}
  BY DEF Away

\* Two requests never redeem one invitation.
LEMMA OneHolder ==
    ASSUME PortalInv, NEW i \in Invitations, NEW r \in PortalRequests, NEW o \in PortalRequests \ {r},
           RowFree(i) \/ invitation[i].holder = r
    PROVE  preq[o].pc = "redeem" => preq[o].invitation # i
  BY PortalAssumption DEF PortalInv, PortalRequest, RowFree

LEMMA InvitationsKeep ==
    ASSUME PortalInv, NEW i \in Invitations,
           \/ \E e \in Emails, s \in Companies \cup {NoValue}, u \in Inviters : Invite(i, e, s, u)
           \/ InvitationExpires(i)
    PROVE  PortalInv'
<1>1. CASE \E e \in Emails, s \in Companies \cup {NoValue}, u \in Inviters : Invite(i, e, s, u)
  <2>1. PICK e \in Emails, s \in Companies \cup {NoValue}, u \in Inviters : Invite(i, e, s, u)
    BY <1>1
  <2>2. PICK row : row = [NotIssued EXCEPT !.email = e, !.supplier = s, !.by = u]
    OBVIOUS
  <2>3. InvitationRow(row) /\ ~row.accepted
    BY <2>2 DEF NotIssued, InvitationRow
  <2>4. invitation' = [invitation EXCEPT ![i] = row] /\ UNCHANGED <<contact, link, preq>> /\ ~Issued(i)
    BY <2>1, <2>2 DEF Invite
  <2>5. \A r \in PortalRequests : preq[r].pc = "redeem" => preq[r].invitation # i
    BY <2>4 DEF PortalInv, PortalRequest
  <2> QED
    BY <2>3, <2>4, <2>5, InvitationStep, PortalAssumption DEF PortalInv
<1>2. CASE InvitationExpires(i)
  <2>1. PICK row : row = [invitation[i] EXCEPT !.expired = TRUE]
    OBVIOUS
  <2>2. /\ InvitationRow(row) /\ row.accepted = invitation[i].accepted /\ row.revoked = invitation[i].revoked
        /\ row.email = invitation[i].email /\ row.holder = invitation[i].holder
    BY <2>1 DEF PortalInv, InvitationRow
  <2>3. invitation' = [invitation EXCEPT ![i] = row] /\ UNCHANGED <<contact, link, preq>>
    BY <1>2, <2>1 DEF InvitationExpires
  <2>4. DOMAIN invitation' = Invitations /\ invitation'[i] = row /\ \A j \in Invitations \ {i} : invitation'[j] = invitation[j]
    BY <2>3 DEF PortalInv
  <2>5. \A j \in Invitations : /\ invitation'[j].accepted = invitation[j].accepted
                               /\ invitation'[j].revoked = invitation[j].revoked
                               /\ invitation'[j].email = invitation[j].email
                               /\ invitation'[j].holder = invitation[j].holder
                               /\ InvitationRow(invitation'[j])
    BY <2>2, <2>4 DEF PortalInv
  <2>6. OneEnding'
    BY <2>5 DEF PortalInv, OneEnding
  <2>7. \A r \in PortalRequests : PortalRequest(r)'
    BY <2>3, <2>5 DEF PortalInv, PortalRequest, Issued
  <2> QED
    BY <2>3, <2>4, <2>5, <2>6, <2>7 DEF PortalInv, LinkRow
<1> QED
  BY <1>1, <1>2

LEMMA RecallsKeep ==
    ASSUME PortalInv, NEW r \in PortalRequests,
           (\E i \in Invitations, u \in Inviters : RecallRead(r, i, u)) \/ RecallWrite(r)
    PROVE  PortalInv'
<1>1. ASSUME NEW i \in Invitations, NEW u, RecallRead(r, i, u) PROVE PortalInv'
  <2>1. PICK q : q = [Away EXCEPT !.pc = "recall", !.invitation = i]
    OBVIOUS
  <2>2. q.pc = "recall" /\ q.invitation = i
    BY <2>1, AwayOK
  <2> QED
    BY <1>1, <2>1, <2>2, RequestMoves DEF RecallRead
<1>2. ASSUME RecallWrite(r) PROVE PortalInv'
  <2>1. PICK i \in Invitations : i = preq[r].invitation
    BY <1>2 DEF PortalInv, PortalRequest, RecallWrite
  <2>2. PICK row : row = [invitation[i] EXCEPT !.revoked = @ \/ ~invitation[i].accepted]
    OBVIOUS
  <2>3. InvitationRow(row) /\ row.accepted = invitation[i].accepted
        /\ row.revoked = (invitation[i].revoked \/ ~invitation[i].accepted)
    BY <2>1, <2>2 DEF PortalInv, InvitationRow
  <2>4. ~(row.accepted /\ row.revoked)
    BY <2>1, <2>3 DEF PortalInv, OneEnding
  <2>5. invitation' = [invitation EXCEPT ![i] = row] /\ RowFree(i)
        /\ UNCHANGED <<contact, link>> /\ preq' = [preq EXCEPT ![r] = Away]
    BY <1>2, <2>1, <2>2 DEF RecallWrite
  <2>6. DOMAIN preq' = PortalRequests /\ PortalRequest(r)'
    BY <2>5, AwayOK DEF PortalInv, PortalRequest
  <2>7. \A o \in PortalRequests \ {r} : preq'[o] = preq[o] /\ (preq[o].pc = "redeem" => preq[o].invitation # i)
    BY <2>1, <2>5, OneHolder DEF PortalInv
  <2> QED
    BY <2>1, <2>3, <2>4, <2>5, <2>6, <2>7, InvitationStep
<1> QED
  BY <1>1, <1>2

LEMMA RedeemLockKeeps ==
    ASSUME PortalInv, NEW r \in PortalRequests, NEW i \in Invitations, NEW s, NEW n, RedeemLock(r, i, s, n)
    PROVE  PortalInv'
<1>1. PICK row : row = [invitation[i] EXCEPT !.holder = r]
  OBVIOUS
<1>2. /\ InvitationRow(row) /\ row.holder = r /\ row.email = invitation[i].email
      /\ row.accepted = invitation[i].accepted /\ row.revoked = invitation[i].revoked
  BY <1>1 DEF PortalInv, InvitationRow
<1>3. PICK q : q = [pc |-> "redeem", invitation |-> i, company |-> s, number |-> n]
  OBVIOUS
<1>4. /\ invitation' = [invitation EXCEPT ![i] = row] /\ preq' = [preq EXCEPT ![r] = q] /\ UNCHANGED <<contact, link>>
      /\ RowFree(i) /\ Issued(i) /\ ~invitation[i].accepted /\ ~invitation[i].revoked
  BY <1>1, <1>3 DEF RedeemLock
<1>5. q.pc = "redeem" /\ q.invitation = i
  BY <1>3
<1>6. invitation'[i] = row /\ preq'[r] = q /\ DOMAIN preq' = PortalRequests
  BY <1>4 DEF PortalInv
<1>7. PortalRequest(r)'
  BY <1>2, <1>4, <1>5, <1>6 DEF PortalRequest, Issued
<1>8. \A o \in PortalRequests \ {r} : preq'[o] = preq[o] /\ (preq[o].pc = "redeem" => preq[o].invitation # i)
  BY <1>4, OneHolder DEF PortalInv
<1>9. InvitationRow(row) /\ ~(row.accepted /\ row.revoked)
  BY <1>2, <1>4
<1>10. invitation' = [invitation EXCEPT ![i] = row] /\ UNCHANGED <<contact, link>> /\ DOMAIN preq' = PortalRequests
  BY <1>4, <1>6
<1> QED
  BY <1>7, <1>8, <1>9, <1>10, InvitationStep

\* The end of a redemption, either way: its row is let go and the request rests.
LEMMA RedeemEnds ==
    ASSUME PortalInv, NEW r \in PortalRequests, preq[r].pc = "redeem", NEW row,
           invitation' = [invitation EXCEPT ![preq[r].invitation] = row], InvitationRow(row), ~row.revoked,
           preq' = [preq EXCEPT ![r] = Away], UNCHANGED <<contact, link>>
    PROVE  PortalInv'
<1>1. PICK i \in Invitations : i = preq[r].invitation /\ invitation[i].holder = r
  BY DEF PortalInv, PortalRequest
<1>2. DOMAIN preq' = PortalRequests /\ PortalRequest(r)'
  BY AwayOK DEF PortalInv, PortalRequest
<1>3. \A o \in PortalRequests \ {r} : preq'[o] = preq[o] /\ (preq[o].pc = "redeem" => preq[o].invitation # i)
  BY <1>1, OneHolder DEF PortalInv
<1> QED
  BY <1>1, <1>2, <1>3, InvitationStep

LEMMA RedeemsKeep ==
    ASSUME PortalInv, NEW r \in PortalRequests, RedeemCommit(r) \/ PortalFails(r)
    PROVE  PortalInv'
<1>1. ASSUME RedeemCommit(r) PROVE PortalInv'
  <2>1. PICK i \in Invitations : i = preq[r].invitation /\ ~invitation[i].revoked
    BY <1>1 DEF PortalInv, PortalRequest, RedeemCommit
  <2>2. PICK s : s = Joined(preq[r])
    OBVIOUS
  <2>3. PICK row : row = [invitation[i] EXCEPT !.accepted = TRUE, !.supplier = s, !.holder = NoValue]
    OBVIOUS
  <2>4. InvitationRow(row) /\ row.revoked = invitation[i].revoked
    BY <2>1, <2>3 DEF PortalInv, InvitationRow
  <2>5. /\ preq[r].pc = "redeem" /\ invitation' = [invitation EXCEPT ![i] = row]
        /\ preq' = [preq EXCEPT ![r] = Away] /\ UNCHANGED <<contact, link>>
    BY <1>1, <2>1, <2>2, <2>3 DEF RedeemCommit
  <2> QED
    BY <2>1, <2>4, <2>5, RedeemEnds
<1>2. ASSUME PortalFails(r), preq[r].pc = "redeem" PROVE PortalInv'
  <2>1. PICK i \in Invitations : i = preq[r].invitation /\ ~invitation[i].revoked
    BY <1>2 DEF PortalInv, PortalRequest
  <2>2. PICK row : row = [invitation[i] EXCEPT !.holder = NoValue]
    OBVIOUS
  <2>3. InvitationRow(row) /\ row.revoked = invitation[i].revoked
    BY <2>1, <2>2 DEF PortalInv, InvitationRow
  <2>4. invitation' = [invitation EXCEPT ![i] = row] /\ preq' = [preq EXCEPT ![r] = Away] /\ UNCHANGED <<contact, link>>
    BY <1>2, <2>1, <2>2 DEF PortalFails
  <2> QED
    BY <1>2, <2>1, <2>3, <2>4, RedeemEnds
<1>3. ASSUME PortalFails(r), preq[r].pc # "redeem" PROVE PortalInv'
  BY <1>3, AwayOK, RequestMoves DEF PortalFails
<1> QED
  BY <1>1, <1>2, <1>3

\* What happens to links and contacts touches no invitation.
LEMMA LinksKeep ==
    ASSUME PortalInv, UNCHANGED <<invitation, preq>>, DOMAIN contact' = Contacts, DOMAIN link' = Links,
           \A l \in Links : LinkRow(link'[l])
    PROVE  PortalInv'
<1>1. \A r \in PortalRequests : PortalRequest(r)'
  BY DEF PortalInv, PortalRequest, Issued
<1> QED
  BY <1>1 DEF PortalInv, OneEnding, InvitationRow

LEMMA ContactsKeep ==
    ASSUME PortalInv,
           \/ \E e, s : OpenAccount(e, s)
           \/ \E k \in Contacts : \E s, e : AddContact(k, s, e)
           \/ \E k \in Contacts, l \in Links : AskVerification(k, l)
           \/ \E l \in Links : LinkExpires(l) \/ VerifyEmail(l)
    PROVE  PortalInv'
<1>1. UNCHANGED <<invitation, preq>> /\ DOMAIN contact' = Contacts /\ DOMAIN link' = Links
  BY DEF PortalInv, OpenAccount, AddContact, AskVerification, AskedAgain, LinkExpires, VerifyEmail
<1>2. CASE UNCHANGED link
  BY <1>1, <1>2, LinksKeep DEF PortalInv
<1>3. ASSUME NEW k, NEW l \in Links, AskVerification(k, l) PROVE PortalInv'
  <2>1. PICK row : row = [NoLink EXCEPT !.email = contact[k].email]
    OBVIOUS
  <2>2. LinkRow(row)
    BY <2>1 DEF NoLink, LinkRow
  <2>3. link' = [link EXCEPT ![l] = row]
    BY <1>3, <2>1 DEF AskVerification, AskedAgain
  <2> QED
    BY <1>1, <2>2, <2>3, LinksKeep DEF PortalInv
<1>4. ASSUME NEW l \in Links, LinkExpires(l) \/ VerifyEmail(l) PROVE PortalInv'
  <2>1. \A m \in Links : LinkRow(link'[m])
    BY <1>4 DEF PortalInv, LinkRow, LinkExpires, VerifyEmail
  <2> QED
    BY <1>1, <2>1, LinksKeep
<1> QED
  BY <1>2, <1>3, <1>4 DEF OpenAccount, AddContact

LEMMA PortalInvNext == PortalInv /\ [PortalNext]_portalAll => PortalInv'
<1> SUFFICES ASSUME PortalInv, [PortalNext]_portalAll PROVE PortalInv'
  OBVIOUS
<1>1. CASE UNCHANGED portalVars
  BY <1>1, LinksKeep DEF portalVars, PortalInv
<1>2. CASE PortalStep
  <2>1. CASE \E i \in Invitations :
                \/ \E e \in Emails, s \in Companies \cup {NoValue}, u \in Inviters : Invite(i, e, s, u)
                \/ InvitationExpires(i)
    BY <2>1, InvitationsKeep
  <2>2. CASE \E r \in PortalRequests :
                \/ \E i \in Invitations, u \in Inviters : RecallRead(r, i, u)
                \/ \E i \in Invitations, s \in Companies, n \in Numbers : RedeemLock(r, i, s, n)
                \/ RecallWrite(r) \/ RedeemCommit(r) \/ PortalFails(r)
    BY <2>2, RecallsKeep, RedeemLockKeeps, RedeemsKeep
  <2>3. CASE \/ \E e, s : OpenAccount(e, s)
             \/ \E k \in Contacts : \E s, e : AddContact(k, s, e)
             \/ \E k \in Contacts, l \in Links : AskVerification(k, l)
             \/ \E l \in Links : LinkExpires(l) \/ VerifyEmail(l)
    BY <2>3, ContactsKeep
  <2> QED
    BY <1>2, <2>1, <2>2, <2>3 DEF PortalStep
<1> QED
  BY <1>1, <1>2 DEF PortalNext, portalAll

LEMMA PortalInvInit == PortalInit => PortalInv
<1> SUFFICES ASSUME PortalInit PROVE PortalInv
  OBVIOUS
<1>1. \A i \in Invitations : InvitationRow(invitation[i]) /\ ~invitation[i].accepted
  BY DEF PortalInit, NotIssued, InvitationRow
<1>2. \A l \in Links : LinkRow(link[l])
  BY DEF PortalInit, NoLink, LinkRow
<1>3. \A r \in PortalRequests : preq[r].pc = "idle"
  BY AwayOK DEF PortalInit
<1> QED
  BY <1>1, <1>2, <1>3 DEF PortalInit, PortalInv, PortalRequest, OneEnding

\* Portal: nobody registers with an invitation that was recalled, whoever else recalls
\* or redeems it at the same time.
THEOREM InvitationsEndOnce == PortalSpec => []OneEnding
<1>1. PortalInv => OneEnding
  BY DEF PortalInv
<1> QED
  BY <1>1, PortalInvInit, PortalInvNext, PTL DEF PortalSpec

LEMMA VerifiedStep ==
    ASSUME PortalInv, [PortalNext]_portalAll, NEW k \in Contacts, EmailVerified(k)
    PROVE  EmailVerified(k)'
<1>1. ASSUME vouched \subseteq vouched', contact'[k] = contact[k],
             \A l \in Links : link[l].email = contact[k].email /\ link[l].verified =>
                              link'[l].email = link[l].email /\ link'[l].verified
      PROVE  EmailVerified(k)'
  BY <1>1 DEF EmailVerified
<1>2. ASSUME vouched \subseteq vouched', UNCHANGED <<contact, link>> PROVE EmailVerified(k)'
  BY <1>1, <1>2
<1>3. CASE UNCHANGED portalVars
  BY <1>2, <1>3 DEF portalVars
<1>4. ASSUME NEW j \in Contacts, NEW s, NEW e, AddContact(j, s, e) PROVE EmailVerified(k)'
  <2>1. j # k
    BY <1>4 DEF AddContact, NoContact, EmailVerified
  <2> QED
    BY <1>1, <1>4, <2>1 DEF AddContact, PortalInv
<1>5. ASSUME NEW j, NEW l \in Links, AskVerification(j, l) PROVE EmailVerified(k)'
  <2>1. link[l].email # contact[k].email
    BY <1>5 DEF AskVerification, NoLink, EmailVerified
  <2>2. \A m \in Links \ {l} : link'[m] = link[m]
    BY <1>5 DEF AskVerification, AskedAgain, PortalInv
  <2> QED
    BY <1>1, <1>5, <2>1, <2>2 DEF AskVerification
<1>6. ASSUME NEW l \in Links, LinkExpires(l) \/ VerifyEmail(l) PROVE EmailVerified(k)'
  <2>1. \A m \in Links \ {l} : link'[m] = link[m]
    BY <1>6 DEF LinkExpires, VerifyEmail, PortalInv
  <2>2. link'[l].email = link[l].email /\ (link[l].verified => link'[l].verified)
    BY <1>6 DEF LinkExpires, VerifyEmail, PortalInv, LinkRow
  <2>3. UNCHANGED <<contact, vouched>>
    BY <1>6 DEF LinkExpires, VerifyEmail
  <2> QED
    BY <1>1, <2>1, <2>2, <2>3
<1>7. CASE \E i \in Invitations :
             \/ \E e \in Emails, s \in Companies \cup {NoValue}, u \in Inviters : Invite(i, e, s, u)
             \/ InvitationExpires(i)
  BY <1>2, <1>7 DEF Invite, InvitationExpires
<1>8. CASE \E r \in PortalRequests :
             \/ \E i \in Invitations, u \in Inviters : RecallRead(r, i, u)
             \/ \E i \in Invitations, s \in Companies, n \in Numbers : RedeemLock(r, i, s, n)
             \/ RecallWrite(r) \/ RedeemCommit(r) \/ PortalFails(r)
  BY <1>2, <1>8 DEF RecallRead, RedeemLock, RecallWrite, RedeemCommit, PortalFails
<1>9. CASE \E e \in Emails, s \in Companies \cup {NoValue} : OpenAccount(e, s)
  BY <1>2, <1>9 DEF OpenAccount
<1> QED
  BY <1>3, <1>4, <1>5, <1>6, <1>7, <1>8, <1>9 DEF PortalNext, PortalStep, portalAll

\* Portal: an address that reads verified keeps doing so, whatever links are asked for
\* or expire.
THEOREM VerificationStays == PortalSpec => VerifiedStays
<1>1. PortalInv /\ [PortalNext]_portalAll => [\A k \in Contacts : EmailVerified(k) => EmailVerified(k)']_portalAll
  BY VerifiedStep
<1> QED
  BY <1>1, PortalInvInit, PortalInvNext, PTL DEF PortalSpec, VerifiedStays

(***************************************************************************)
(* Documents: an upload in flight has a file of its own and no row yet.    *)
(***************************************************************************)
DocumentRow(x) == DOMAIN x = {"history", "spelling", "version", "status"}
Uploading(q) == q.pc \in {"checked", "insert", "commit"}
Filed(d) == document[d].history # Absent

DocRequest(q) ==
    /\ DOMAIN q = {"pc", "doc", "history", "spelling", "version"}
    /\ Uploading(q) => q.doc \in Uploads /\ q.doc \in disk /\ ~Filed(q.doc) /\ q.history # Absent
    /\ q.pc = "sign" => q.doc \in Uploads /\ Filed(q.doc)

Apart == \A r, o \in DocRequests : r # o /\ Uploading(dreq[r]) /\ Uploading(dreq[o]) => dreq[r].doc # dreq[o].doc

DocumentsInv ==
    /\ DOMAIN document = Uploads /\ DOMAIN dreq = DocRequests
    /\ \A d \in Uploads : DocumentRow(document[d])
    /\ \A r \in DocRequests : DocRequest(dreq[r])
    /\ Apart
    /\ FilesThere

LEMMA NoUploadOK == NoUpload.pc = "idle" /\ DOMAIN NoUpload = {"pc", "doc", "history", "spelling", "version"}
  BY DEF NoUpload

LEMMA IdleOK == DocRequest(NoUpload) /\ ~Uploading(NoUpload)
  BY NoUploadOK DEF DocRequest, Uploading

\* A request that touches neither files nor rows goes on with the same document, or rests.
LEMMA DocumentMoves ==
    ASSUME DocumentsInv, UNCHANGED <<document, disk, unknown>>, NEW r \in DocRequests, NEW q, Onto(r, q),
           DocRequest(q), Uploading(q) => Uploading(dreq[r]) /\ q.doc = dreq[r].doc
    PROVE  DocumentsInv'
<1>1. DOMAIN dreq' = DocRequests /\ dreq'[r] = q /\ \A o \in DocRequests \ {r} : dreq'[o] = dreq[o]
  BY DEF DocumentsInv, Onto
<1>2. \A o \in DocRequests : DocRequest(dreq[o])'
  BY <1>1 DEF DocumentsInv, DocRequest, Filed, Uploading
<1>3. Apart'
  BY <1>1 DEF DocumentsInv, Apart, Uploading
<1> QED
  BY <1>1, <1>2, <1>3 DEF DocumentsInv, FilesThere, DocumentRow

\* An upload that ends, however it does, leaves the files of the others.
LEMMA UploadEnds ==
    ASSUME DocumentsInv, NEW r \in DocRequests, Uploading(dreq[r]), Ends(r), UNCHANGED document,
           \A d \in disk : d # dreq[r].doc => d \in disk', unknown' = unknown
    PROVE  DocumentsInv'
<1>1. DOMAIN dreq' = DocRequests /\ dreq'[r] = NoUpload /\ \A o \in DocRequests \ {r} : dreq'[o] = dreq[o]
  BY DEF DocumentsInv, Onto, Ends
<1>2. \A o \in DocRequests : DocRequest(dreq[o])'
  <2>1. ASSUME NEW o \in DocRequests \ {r} PROVE DocRequest(dreq[o])'
    BY <1>1 DEF DocumentsInv, Apart, DocRequest, Filed, Uploading
  <2>2. DocRequest(dreq[r])'
    BY <1>1, NoUploadOK DEF DocRequest, Uploading
  <2> QED
    BY <2>1, <2>2
<1>3. Apart'
  BY <1>1, IdleOK DEF DocumentsInv, Apart, Uploading
<1>4. FilesThere'
  BY DEF DocumentsInv, DocRequest, Filed, FilesThere
<1> QED
  BY <1>1, <1>2, <1>3, <1>4 DEF DocumentsInv, DocumentRow

LEMMA WriteFileKeeps ==
    ASSUME DocumentsInv, NEW r \in DocRequests, NEW d \in Uploads, NEW h \in Histories, NEW s, NEW whole \in BOOLEAN,
           WriteFile(r, d, h, s, whole)
    PROVE  DocumentsInv'
<1>1. PICK q : q = [NoUpload EXCEPT !.pc = "checked", !.doc = d, !.history = h, !.spelling = s]
  OBVIOUS
<1>2. DOMAIN q = {"pc", "doc", "history", "spelling", "version"} /\ q.pc = "checked" /\ q.doc = d /\ q.history # Absent
  BY <1>1, NoUploadOK, DocumentsAssumption
<1>3. CASE whole
  <2>1. disk' = disk \cup {d} /\ Onto(r, q) /\ UNCHANGED <<document, unknown>> /\ ~Used(d)
    BY <1>1, <1>3 DEF WriteFile
  <2>2. ~Filed(d) /\ \A o \in DocRequests : dreq[o].doc # d
    BY <2>1 DEF Used, Filed, NoDocument
  <2>3. DOMAIN dreq' = DocRequests /\ dreq'[r] = q /\ \A o \in DocRequests \ {r} : dreq'[o] = dreq[o]
    BY <2>1 DEF DocumentsInv, Onto
  <2>4. \A o \in DocRequests : DocRequest(dreq[o])'
    BY <1>2, <2>1, <2>2, <2>3 DEF DocumentsInv, DocRequest, Filed, Uploading
  <2>5. Apart'
    BY <1>2, <2>2, <2>3 DEF DocumentsInv, Apart, Uploading
  <2> QED
    BY <2>1, <2>3, <2>4, <2>5 DEF DocumentsInv, FilesThere, DocumentRow
<1>4. CASE ~whole
  <2>1. UNCHANGED <<document, disk, dreq, unknown>>
    BY <1>4 DEF WriteFile
  <2> QED
    BY <2>1 DEF DocumentsInv, DocumentRow, DocRequest, Filed, Uploading, Apart, FilesThere
<1> QED
  BY <1>3, <1>4

LEMMA LocksKeep ==
    ASSUME DocumentsInv, NEW r \in DocRequests, LockHistory(r) \/ InsertDocument(r)
    PROVE  DocumentsInv'
<1>0. PICK q : q = dreq[r] /\ DocRequest(q)
  BY DEF DocumentsInv
<1>1. ASSUME NEW next, Onto(r, next), UNCHANGED <<document, disk, unknown>>, DOMAIN next = DOMAIN q, next.doc = q.doc, next.history = q.history,
             next.pc \in {"insert", "commit"}, q.pc \in {"checked", "insert"}
      PROVE  DocumentsInv'
  <2>1. DocRequest(next) /\ Uploading(q)
    BY <1>0, <1>1 DEF DocRequest, Uploading
  <2> QED
    BY <1>0, <1>1, <2>1, DocumentMoves
<1>2. CASE LockHistory(r)
  <2>1. PICK next : next = [q EXCEPT !.pc = "insert"]
    OBVIOUS
  <2>2. DOMAIN next = DOMAIN q /\ next.doc = q.doc /\ next.history = q.history /\ next.pc = "insert"
    BY <1>0, <2>1 DEF DocRequest
  <2> QED
    BY <1>0, <1>1, <1>2, <2>1, <2>2 DEF LockHistory
<1>3. CASE InsertDocument(r)
  <2>1. PICK v : v = NextVersion(q.history)
    OBVIOUS
  <2>2. PICK next : next = [q EXCEPT !.pc = "commit", !.version = v]
    OBVIOUS
  <2>3. DOMAIN next = DOMAIN q /\ next.doc = q.doc /\ next.history = q.history /\ next.pc = "commit"
    BY <1>0, <2>2 DEF DocRequest
  <2> QED
    BY <1>0, <1>1, <1>3, <2>1, <2>2, <2>3 DEF InsertDocument
<1> QED
  BY <1>2, <1>3

\* A row changes: its file is there, or the answer to its commit was lost, and no other
\* upload is about it.
LEMMA RowStep ==
    ASSUME DocumentsInv, NEW r \in DocRequests, NEW d \in Uploads, NEW row, DocumentRow(row), row.history # Absent,
           document' = [document EXCEPT ![d] = row], Ends(r), \A x \in disk : x # d => x \in disk',
           unknown \subseteq unknown', d \in disk' \/ d \in unknown',
           \A o \in DocRequests \ {r} : Uploading(dreq[o]) => dreq[o].doc # d
    PROVE  DocumentsInv'
<1>1. DOMAIN dreq' = DocRequests /\ dreq'[r] = NoUpload /\ \A o \in DocRequests \ {r} : dreq'[o] = dreq[o]
  BY DEF DocumentsInv, Onto, Ends
<1>2. DOMAIN document' = Uploads /\ document'[d] = row /\ \A x \in Uploads \ {d} : document'[x] = document[x]
  BY DEF DocumentsInv
<1>3. \A o \in DocRequests : DocRequest(dreq[o])'
  <2>1. ASSUME NEW o \in DocRequests \ {r} PROVE DocRequest(dreq[o])'
    BY <1>1, <1>2 DEF DocumentsInv, DocRequest, Filed, Uploading
  <2>2. DocRequest(dreq[r])'
    BY <1>1, NoUploadOK DEF DocRequest, Uploading
  <2> QED
    BY <2>1, <2>2
<1>4. Apart'
  BY <1>1, IdleOK DEF DocumentsInv, Apart, Uploading
<1>5. FilesThere'
  BY <1>2 DEF DocumentsInv, FilesThere
<1> QED
  BY <1>1, <1>2, <1>3, <1>4, <1>5 DEF DocumentsInv, DocumentRow

LEMMA CommitsKeep ==
    ASSUME DocumentsInv, NEW r \in DocRequests,
           \/ \E answered \in BOOLEAN : CommitDocument(r, answered)
           \/ \E u \in Signers, type \in SignatureTypes : SignCommit(r, u, type)
    PROVE  DocumentsInv'
<1>0. PICK q : q = dreq[r] /\ DocRequest(q)
  BY DEF DocumentsInv
<1>1. ASSUME NEW answered \in BOOLEAN, CommitDocument(r, answered) PROVE DocumentsInv'
  <2>1. PICK d \in Uploads : d = q.doc /\ d \in disk /\ Uploading(q)
    BY <1>0, <1>1 DEF DocRequest, Uploading, CommitDocument
  <2>2. PICK row : row = [history |-> q.history, spelling |-> q.spelling, version |-> q.version, status |-> "active"]
    OBVIOUS
  <2>3. DocumentRow(row) /\ row.history # Absent
    BY <1>0, <2>1, <2>2 DEF DocumentRow, DocRequest
  <2>4. /\ document' = [document EXCEPT ![d] = row] /\ Ends(r)
        /\ (\A x \in disk : x # d => x \in disk') /\ unknown \subseteq unknown' /\ (d \in disk' \/ d \in unknown')
    BY <1>0, <1>1, <2>1, <2>2 DEF CommitDocument
  <2>5. \A o \in DocRequests \ {r} : Uploading(dreq[o]) => dreq[o].doc # d
    BY <1>0, <2>1 DEF DocumentsInv, Apart
  <2> QED
    BY <2>3, <2>4, <2>5, RowStep
<1>2. ASSUME NEW u, NEW type, SignCommit(r, u, type) PROVE DocumentsInv'
  <2>1. PICK d \in Uploads : d = q.doc /\ Filed(d)
    BY <1>0, <1>2 DEF DocRequest, SignCommit
  <2>2. UNCHANGED <<disk, unknown>> /\ Ends(r)
    BY <1>2 DEF SignCommit
  <2>3. CASE document' = document
    BY <2>2, <2>3, IdleOK, DocumentMoves DEF Ends
  <2>4. CASE document' # document
    <3>1. PICK row : row = [document[d] EXCEPT !.status = "approved"]
      OBVIOUS
    <3>2. DocumentRow(row) /\ row.history # Absent
      BY <2>1, <3>1 DEF DocumentRow, Filed, DocumentsInv
    <3>3. document' = [document EXCEPT ![d] = row]
      BY <1>0, <1>2, <2>1, <2>4, <3>1 DEF SignCommit
    <3>4. d \in disk \/ d \in unknown
      BY <2>1 DEF DocumentsInv, FilesThere, Filed
    <3>5. \A o \in DocRequests : Uploading(dreq[o]) => dreq[o].doc # d
      BY <2>1 DEF DocumentsInv, DocRequest
    <3> QED
      BY <2>2, <3>2, <3>3, <3>4, <3>5, RowStep
  <2> QED
    BY <2>3, <2>4
<1> QED
  BY <1>1, <1>2

LEMMA EndsKeep ==
    ASSUME DocumentsInv, NEW r \in DocRequests,
           \/ RefuseType(r) \/ UploadFails(r) \/ UploadDies(r) \/ SignFails(r)
           \/ \E d \in Uploads : SignRead(r, d)
    PROVE  DocumentsInv'
<1>1. CASE RefuseType(r) \/ SignFails(r)
  BY <1>1, IdleOK, DocumentMoves DEF RefuseType, SignFails, Ends
<1>2. CASE UploadFails(r) \/ UploadDies(r)
  BY <1>2, UploadEnds DEF UploadFails, UploadDies, Removed, Uploading
<1>3. ASSUME NEW d \in Uploads, SignRead(r, d) PROVE DocumentsInv'
  <2>1. PICK q : q = [NoUpload EXCEPT !.pc = "sign", !.doc = d]
    OBVIOUS
  <2>2. DOMAIN q = {"pc", "doc", "history", "spelling", "version"} /\ q.pc = "sign" /\ q.doc = d
    BY <2>1, NoUploadOK
  <2>3. Filed(d) /\ Onto(r, q) /\ UNCHANGED <<document, disk, unknown>>
    BY <1>3, <2>1 DEF SignRead, DocumentLive, Filed
  <2>4. DocRequest(q) /\ ~Uploading(q)
    BY <2>2, <2>3 DEF DocRequest, Uploading
  <2> QED
    BY <2>3, <2>4, DocumentMoves
<1> QED
  BY <1>1, <1>2, <1>3

LEMMA DocumentsInvNext == DocumentsInv /\ [DocumentsNext]_docVars => DocumentsInv'
<1> SUFFICES ASSUME DocumentsInv, [DocumentsNext]_docVars PROVE DocumentsInv'
  OBVIOUS
<1>1. ASSUME NEW r \in DocRequests, DocumentsStep(r) PROVE DocumentsInv'
  BY <1>1, WriteFileKeeps, LocksKeep, CommitsKeep, EndsKeep DEF DocumentsStep
<1>2. CASE UNCHANGED docVars
  BY <1>2 DEF docVars, DocumentsInv, DocumentRow, DocRequest, Filed, Uploading, Apart, FilesThere
<1> QED
  BY <1>1, <1>2 DEF DocumentsNext

LEMMA DocumentsInvInit == DocumentsInit => DocumentsInv
<1> SUFFICES ASSUME DocumentsInit PROVE DocumentsInv
  OBVIOUS
<1>1. \A d \in Uploads : DocumentRow(document[d]) /\ document[d].history = Absent
  BY DEF DocumentsInit, NoDocument, DocumentRow
<1>2. \A r \in DocRequests : DocRequest(dreq[r]) /\ ~Uploading(dreq[r])
  BY IdleOK DEF DocumentsInit
<1> QED
  BY <1>1, <1>2 DEF DocumentsInit, DocumentsInv, Apart, FilesThere

\* Documents: a document that is listed can be opened, unless the answer to its commit
\* was lost.
THEOREM ListedFilesAreThere == DocumentsSpec => []FilesThere
<1>1. DocumentsInv => FilesThere
  BY DEF DocumentsInv
<1> QED
  BY <1>1, DocumentsInvInit, DocumentsInvNext, PTL DEF DocumentsSpec

(***************************************************************************)
(* Documents: an upload that reads the next version holds the lock of its  *)
(* spelling, so no row of that spelling joins before its own; another      *)
(* spelling may add rows meanwhile, which leaves no gap.                   *)
(***************************************************************************)
RowsOf(h) == {d \in Uploads : document[d].history = h}
VersionsOf(h) == {document[d].version : d \in RowsOf(h)}

KeyOf(q) == <<q.history, q.spelling>>
Locking(q) == q.pc \in {"insert", "commit"}

\* A version that leaves no gap after those of V.
Follows(v, V) == v \in Nat \ {0} /\ \A w \in 1 .. v - 1 : w \in V

Numbering(q) ==
    /\ Follows(q.version, VersionsOf(q.history))
    /\ \A d \in RowsOf(q.history) : document[d].spelling = q.spelling => document[d].version < q.version

Numbered(r) ==
    LET q == dreq[r] IN
    /\ Uploading(q) => q.history \in Histories /\ KeyOf(q) \in LockKeys
    /\ Locking(q) => doclock[KeyOf(q)] = r
    /\ q.pc = "commit" /\ q.history \notin Homeless => Numbering(q)

Ordered(h) ==
    /\ \E n \in Nat : VersionsOf(h) = 1 .. n
    /\ \A d, e \in RowsOf(h) : d # e /\ document[d].version = document[e].version
                            => document[d].spelling # document[e].spelling

VersionsInv ==
    /\ DocumentsInv
    /\ DOMAIN doclock = LockKeys
    /\ \A h \in Histories \ Homeless : Ordered(h)
    /\ \A r \in DocRequests : Numbered(r)

LEMMA GreatestUpTo == ASSUME NEW n \in Nat PROVE Max({0} \cup (1 .. n)) = n
<1> DEFINE All == {0} \cup (1 .. n)
<1>1. All = 0 .. n
  OBVIOUS
<1> HIDE DEF All
<1>2. All \in SUBSET Int /\ IsFiniteSet(All) /\ All # {}
  <2>1. 0 \in Int /\ n \in Int
    OBVIOUS
  <2>2. IsFiniteSet(0 .. n)
    BY <2>1, FS_Interval
  <2> QED
    BY <1>1, <2>2
<1>3. Max(All) \in All /\ \A x \in All : x <= Max(All)
  BY <1>2, MaxIsGreatest
<1>4. Max(All) = n
  BY <1>1, <1>3
<1> QED
  BY <1>4 DEF All

\* The version after the greatest leaves no gap and is above every other.
LEMMA NextFollows ==
    ASSUME NEW h \in Histories \ Homeless, Ordered(h)
    PROVE  /\ Follows(NextVersion(h), VersionsOf(h))
           /\ \A v \in VersionsOf(h) : v < NextVersion(h)
<1>1. PICK n \in Nat : VersionsOf(h) = 1 .. n
  BY DEF Ordered
<1>2. NextVersion(h) = 1 + Max({0} \cup VersionsOf(h))
  BY DEF NextVersion, VersionsOf, RowsOf
<1>3. NextVersion(h) = 1 + n
  BY <1>1, <1>2, GreatestUpTo
<1> QED
  BY <1>1, <1>3 DEF Follows

\* Histories, spellings and versions stay, and so do the locks of the others.
LEMMA NumbersStay ==
    ASSUME VersionsInv, DocumentsInv', NEW r \in DocRequests,
           \A d \in Uploads : /\ document'[d].history = document[d].history
                              /\ document'[d].spelling = document[d].spelling
                              /\ document'[d].version = document[d].version,
           \A o \in DocRequests \ {r} : dreq'[o] = dreq[o],
           DOMAIN doclock' = LockKeys,
           \A key \in LockKeys, o \in DocRequests \ {r} : doclock[key] = o => doclock'[key] = o,
           Numbered(r)'
    PROVE  VersionsInv'
<1>1. \A h : RowsOf(h)' = RowsOf(h) /\ RowsOf(h) \subseteq Uploads
  BY DEF RowsOf
<1>2. \A h : VersionsOf(h)' = VersionsOf(h)
  BY <1>1 DEF VersionsOf
<1>3. \A h : Ordered(h) => Ordered(h)'
  BY <1>1, <1>2 DEF Ordered
<1>4. ASSUME NEW o \in DocRequests \ {r} PROVE Numbered(o)'
  <2>1. Numbered(o) /\ dreq'[o] = dreq[o] /\ KeyOf(dreq[o])' = KeyOf(dreq[o])
    BY DEF VersionsInv, KeyOf
  <2>2. Numbering(dreq[o]) => Numbering(dreq[o])'
    BY <1>1, <1>2, <2>1 DEF Numbering
  <2>3. Locking(dreq[o]) => KeyOf(dreq[o]) \in LockKeys
    BY <2>1 DEF Numbered, Locking, Uploading
  <2> QED
    BY <2>1, <2>2, <2>3 DEF Numbered, Locking, Uploading
<1> QED
  BY <1>3, <1>4 DEF VersionsInv

LEMMA RestNumbered == ASSUME NEW r, dreq[r] = NoUpload PROVE Numbered(r)
  BY DEF Numbered, NoUpload, Uploading, Locking

LEMMA RestNumberedNext == ASSUME NEW r, dreq'[r] = NoUpload PROVE Numbered(r)'
  BY DEF Numbered, NoUpload, Uploading, Locking

\* The row that is committed leaves no gap and is above those of its spelling.
LEMMA CommitNumbers ==
    ASSUME VersionsInv, DocumentsInv', NEW r \in DocRequests, NEW answered \in BOOLEAN, CommitDocument(r, answered)
    PROVE  VersionsInv'
<1>0. PICK q, g, x : q = dreq[r] /\ g = q.history /\ x = q.doc
  OBVIOUS
<1>1. /\ q.pc = "commit" /\ g \in Histories /\ x \in Uploads /\ document[x].history = Absent /\ g # Absent
      /\ KeyOf(q) \in LockKeys /\ doclock[KeyOf(q)] = r /\ (g \notin Homeless => Numbering(q))
      /\ DOMAIN document = Uploads
  BY <1>0, DocumentsAssumption DEF VersionsInv, DocumentsInv, DocRequest, Uploading, Locking, Numbered, CommitDocument, Filed
<1>2. /\ document' = [document EXCEPT ![x] = [history |-> q.history, spelling |-> q.spelling,
                                              version |-> q.version, status |-> "active"]]
      /\ doclock' = Unlocked(r) /\ dreq' = [dreq EXCEPT ![r] = NoUpload]
  BY <1>0 DEF CommitDocument, Ends, Onto
<1>3. /\ document'[x].history = g /\ document'[x].version = q.version /\ document'[x].spelling = q.spelling
      /\ \A d \in Uploads \ {x} : document'[d] = document[d]
  BY <1>0, <1>1, <1>2
<1>4. /\ dreq'[r] = NoUpload /\ \A o \in DocRequests \ {r} : dreq'[o] = dreq[o]
      /\ DOMAIN doclock' = LockKeys /\ \A key \in LockKeys : doclock[key] # r => doclock'[key] = doclock[key]
  BY <1>2 DEF VersionsInv, DocumentsInv, Unlocked
<1>5. x \notin RowsOf(g) /\ RowsOf(g)' = RowsOf(g) \cup {x}
  BY <1>1, <1>3 DEF RowsOf
<1>6. VersionsOf(g)' = VersionsOf(g) \cup {q.version}
  <2>1. VersionsOf(g)' = {document'[d].version : d \in RowsOf(g)'}
    BY DEF VersionsOf
  <2>2. \A d \in RowsOf(g) : document'[d] = document[d]
    BY <1>3, <1>5 DEF RowsOf
  <2>3. VersionsOf(g) = {document[d].version : d \in RowsOf(g)}
    BY DEF VersionsOf
  <2> QED
    BY <1>3, <1>5, <2>1, <2>2, <2>3
<1>7. ASSUME NEW h, h # g, h # Absent
      PROVE  /\ RowsOf(h)' = RowsOf(h) /\ VersionsOf(h)' = VersionsOf(h)
             /\ \A d \in RowsOf(h) : document'[d] = document[d]
  <2>1. RowsOf(h)' = RowsOf(h) /\ x \notin RowsOf(h)
    BY <1>1, <1>3, <1>7 DEF RowsOf
  <2>2. \A d \in RowsOf(h) : document'[d] = document[d]
    BY <1>3, <2>1 DEF RowsOf
  <2> QED
    BY <2>1, <2>2 DEF VersionsOf
<1>8. ASSUME NEW h \in Histories \ Homeless PROVE Ordered(h)'
  <2>0. Ordered(h)
    BY DEF VersionsInv
  <2>1. CASE h = g
    <3>1. /\ Follows(q.version, VersionsOf(g))
          /\ \A d \in RowsOf(g) : document[d].spelling = q.spelling => document[d].version < q.version
      BY <1>0, <1>1, <2>1 DEF Numbering
    <3>2. \E n \in Nat : VersionsOf(g)' = 1 .. n
      <4>1. PICK n \in Nat : VersionsOf(g) = 1 .. n
        BY <2>0, <2>1 DEF Ordered
      <4>2. q.version \in 1 .. n + 1
        BY <3>1, <4>1 DEF Follows
      <4>3. VersionsOf(g)' = 1 .. n \/ VersionsOf(g)' = 1 .. n + 1
        BY <1>6, <4>1, <4>2
      <4> QED
        BY <4>3
    <3>3. \A d \in RowsOf(g) : document'[d] = document[d] /\ d # x
      BY <1>3, <1>5 DEF RowsOf
    <3>4. \A d \in RowsOf(g) : document[d].version = q.version => document[d].spelling # q.spelling
      <4> SUFFICES ASSUME NEW d \in RowsOf(g), document[d].version = q.version, document[d].spelling = q.spelling
                   PROVE  FALSE
        OBVIOUS
      <4>1. q.version < q.version /\ q.version \in Nat
        BY <3>1 DEF Follows
      <4> QED
        BY <4>1
    <3>5. ASSUME NEW d \in RowsOf(g)', NEW e \in RowsOf(g)', d # e, document'[d].version = document'[e].version
          PROVE  document'[d].spelling # document'[e].spelling
      BY <1>3, <1>5, <2>0, <2>1, <3>3, <3>4, <3>5 DEF Ordered
    <3> QED
      BY <2>1, <3>2, <3>5 DEF Ordered
  <2>2. CASE h # g
    <3>1. h # Absent
      BY DocumentsAssumption
    <3> QED
      BY <1>7, <2>0, <2>2, <3>1 DEF Ordered
  <2> QED
    BY <2>1, <2>2
<1>9. Numbered(r)'
  BY <1>4, RestNumberedNext
<1>10. ASSUME NEW o \in DocRequests \ {r} PROVE Numbered(o)'
  <2>0. PICK p : p = dreq[o] /\ dreq'[o] = p
    BY <1>4
  <2>1. Numbered(o) /\ KeyOf(p) = KeyOf(p)'
    BY DEF VersionsInv, KeyOf
  <2>2. ASSUME Locking(p)
        PROVE  doclock[KeyOf(p)] = o /\ doclock'[KeyOf(p)] = o /\ KeyOf(p) # KeyOf(q) /\ p.history \in Histories
    BY <1>1, <1>4, <2>0, <2>1, <2>2 DEF Numbered, Locking, Uploading
  <2>3. ASSUME p.pc = "commit", p.history \notin Homeless PROVE Numbering(p)'
    <3>1. Numbering(p) /\ KeyOf(p) # KeyOf(q) /\ p.history # Absent
      BY <2>0, <2>1, <2>2, <2>3, DocumentsAssumption DEF Numbered, Locking
    <3>2. CASE p.history # g
      BY <1>7, <3>1, <3>2 DEF Numbering
    <3>3. CASE p.history = g
      <4>1. p.spelling # q.spelling
        BY <1>0, <3>1, <3>3 DEF KeyOf
      <4>2. Follows(p.version, VersionsOf(g)')
        BY <1>6, <3>1, <3>3 DEF Numbering, Follows
      <4>3. \A d \in RowsOf(g) : document'[d] = document[d]
        BY <1>3, <1>5 DEF RowsOf
      <4> QED
        BY <1>3, <1>5, <3>1, <3>3, <4>1, <4>2, <4>3 DEF Numbering
    <3> QED
      BY <3>2, <3>3
  <2>4. Uploading(p) => p.history \in Histories /\ KeyOf(p) \in LockKeys
    BY <2>0, <2>1 DEF Numbered
  <2> QED
    BY <2>0, <2>1, <2>2, <2>3, <2>4 DEF Numbered, Locking, Uploading
<1> QED
  BY <1>4, <1>8, <1>9, <1>10 DEF VersionsInv

LEMMA VersionsInvInit == DocumentsInit => VersionsInv
<1> SUFFICES ASSUME DocumentsInit PROVE VersionsInv
  OBVIOUS
<1>1. ASSUME NEW h \in Histories \ Homeless PROVE Ordered(h)
  <2>1. RowsOf(h) = {}
    BY DocumentsAssumption DEF RowsOf, DocumentsInit, NoDocument
  <2>2. VersionsOf(h) = 1 .. 0
    BY <2>1 DEF VersionsOf
  <2> QED
    BY <2>1, <2>2 DEF Ordered
<1>2. \A r \in DocRequests : Numbered(r)
  BY RestNumbered DEF DocumentsInit
<1> QED
  BY <1>1, <1>2, DocumentsInvInit DEF VersionsInv, DocumentsInit

LEMMA VersionsInvNext == VersionsInv /\ [DocumentsNext]_docVars => VersionsInv'
<1> SUFFICES ASSUME VersionsInv, [DocumentsNext]_docVars PROVE VersionsInv'
  OBVIOUS
<1>1. DocumentsInv' /\ DocumentsInv
  BY DocumentsInvNext DEF VersionsInv
<1>2. DOMAIN doclock = LockKeys /\ DOMAIN dreq = DocRequests /\ DOMAIN document = Uploads
  BY DEF VersionsInv, DocumentsInv
<1>3. ASSUME NEW r \in DocRequests,
             \/ RefuseType(r) \/ UploadFails(r) \/ UploadDies(r) \/ SignFails(r)
             \/ \E u \in Signers, type \in SignatureTypes : SignCommit(r, u, type)
      PROVE  VersionsInv'
  <2>1. dreq' = [dreq EXCEPT ![r] = NoUpload] /\ (doclock' = doclock \/ doclock' = Unlocked(r))
    BY <1>3 DEF RefuseType, UploadFails, UploadDies, SignFails, SignCommit, Ends, Onto
  <2>2. /\ dreq'[r] = NoUpload /\ \A o \in DocRequests \ {r} : dreq'[o] = dreq[o]
        /\ DOMAIN doclock' = LockKeys /\ \A key \in LockKeys : doclock[key] # r => doclock'[key] = doclock[key]
    BY <1>2, <2>1 DEF Unlocked
  <2>3. \A d \in Uploads : /\ document'[d].history = document[d].history
                           /\ document'[d].spelling = document[d].spelling
                           /\ document'[d].version = document[d].version
    <3>1. CASE document' = document
      BY <3>1
    <3>2. CASE document' # document
      <4>1. PICK d \in Uploads : document' = [document EXCEPT ![d] = [document[d] EXCEPT !.status = "approved"]]
        BY <1>1, <1>3, <3>2 DEF RefuseType, UploadFails, UploadDies, SignFails, SignCommit, DocumentsInv, DocRequest
      <4>2. DocumentRow(document[d])
        BY <1>1 DEF DocumentsInv
      <4> QED
        BY <1>2, <4>1, <4>2 DEF DocumentRow
    <3> QED
      BY <3>1, <3>2
  <2> QED
    BY <1>1, <2>2, <2>3, RestNumberedNext, NumbersStay
<1>4. ASSUME NEW r \in DocRequests, NEW d \in Uploads, NEW h \in Histories, NEW whole \in BOOLEAN,
             NEW s \in Spelled(h), WriteFile(r, d, h, s, whole)
      PROVE  VersionsInv'
  <2>1. document' = document /\ doclock' = doclock
    BY <1>4 DEF WriteFile
  <2>2. CASE whole
    <3>1. dreq' = [dreq EXCEPT ![r] = [NoUpload EXCEPT !.pc = "checked", !.doc = d, !.history = h, !.spelling = s]]
      BY <1>4, <2>2 DEF WriteFile, Onto
    <3>2. /\ dreq'[r].pc = "checked" /\ dreq'[r].history = h /\ dreq'[r].spelling = s
          /\ \A o \in DocRequests \ {r} : dreq'[o] = dreq[o]
      BY <1>2, <3>1 DEF NoUpload
    <3>3. <<h, s>> \in LockKeys
      BY DEF LockKeys
    <3>4. Numbered(r)'
      BY <3>2, <3>3 DEF Numbered, KeyOf, Locking
    <3> QED
      BY <1>1, <1>2, <2>1, <3>2, <3>4, NumbersStay
  <2>3. CASE ~whole
    <3>1. dreq' = dreq
      BY <1>4, <2>3 DEF WriteFile
    <3>2. Numbered(r)'
      BY <2>1, <3>1 DEF VersionsInv, Numbered, Numbering, Uploading, Locking, KeyOf, RowsOf, VersionsOf
    <3> QED
      BY <1>1, <1>2, <2>1, <3>1, <3>2, NumbersStay
  <2> QED
    BY <2>2, <2>3
<1>5. ASSUME NEW r \in DocRequests, LockHistory(r) PROVE VersionsInv'
  <2> DEFINE q == dreq[r]
  <2>1. /\ q.pc = "checked" /\ doclock[KeyOf(q)] = Absent /\ q.history \in Histories /\ KeyOf(q) \in LockKeys
        /\ DOMAIN q = {"pc", "doc", "history", "spelling", "version"}
    BY <1>1, <1>5 DEF LockHistory, Lockable, VersionsInv, DocumentsInv, DocRequest, Numbered, Uploading, KeyOf
  <2>2. document' = document /\ doclock' = [doclock EXCEPT ![KeyOf(q)] = r]
        /\ dreq' = [dreq EXCEPT ![r] = [q EXCEPT !.pc = "insert"]]
    BY <1>5 DEF LockHistory, Onto, KeyOf
  <2>3. /\ dreq'[r].pc = "insert" /\ dreq'[r].history = q.history /\ dreq'[r].spelling = q.spelling
        /\ \A o \in DocRequests \ {r} : dreq'[o] = dreq[o]
    BY <1>2, <2>1, <2>2
  <2>4. /\ DOMAIN doclock' = LockKeys /\ doclock'[KeyOf(q)] = r
        /\ \A key \in LockKeys, o \in DocRequests \ {r} : doclock[key] = o => doclock'[key] = o
    BY <1>2, <2>1, <2>2, DocumentsAssumption
  <2>5. KeyOf(dreq[r])' = KeyOf(q)
    BY <2>3 DEF KeyOf
  <2>6. Numbered(r)'
    BY <2>1, <2>3, <2>4, <2>5 DEF Numbered
  <2> QED
    BY <1>1, <2>2, <2>3, <2>4, <2>6, NumbersStay
<1>6. ASSUME NEW r \in DocRequests, InsertDocument(r) PROVE VersionsInv'
  <2>0. PICK q, v : q = dreq[r] /\ v = NextVersion(q.history)
    OBVIOUS
  <2>1. /\ q.pc = "insert" /\ doclock[KeyOf(q)] = r /\ q.history \in Histories /\ KeyOf(q) \in LockKeys
        /\ DOMAIN q = {"pc", "doc", "history", "spelling", "version"}
    BY <1>1, <1>6, <2>0 DEF InsertDocument, VersionsInv, DocumentsInv, DocRequest, Numbered, Uploading, Locking
  <2>2. document' = document /\ doclock' = doclock
        /\ dreq' = [dreq EXCEPT ![r] = [q EXCEPT !.pc = "commit", !.version = v]]
    BY <1>6, <2>0 DEF InsertDocument, Onto
  <2>3. PICK p : p = dreq'[r] /\ p.pc = "commit" /\ p.history = q.history /\ p.spelling = q.spelling /\ p.version = v
    <3>1. dreq'[r].pc = "commit" /\ dreq'[r].version = v
      BY <1>2, <2>1, <2>2
    <3>2. dreq'[r].history = q.history /\ dreq'[r].spelling = q.spelling
      BY <1>2, <2>1, <2>2
    <3> QED
      BY <3>1, <3>2
  <2>4. \A o \in DocRequests \ {r} : dreq'[o] = dreq[o]
    BY <1>2, <2>2
  <2>5. ASSUME q.history \notin Homeless PROVE Numbering(p)'
    <3>1. Follows(v, VersionsOf(q.history)) /\ \A w \in VersionsOf(q.history) : w < v
      BY <2>0, <2>1, <2>5, NextFollows DEF VersionsInv
    <3>2. RowsOf(q.history)' = RowsOf(q.history) /\ VersionsOf(q.history)' = VersionsOf(q.history)
      BY <2>2 DEF RowsOf, VersionsOf
    <3>3. \A d \in RowsOf(q.history) : document[d].version < v
      BY <3>1 DEF VersionsOf
    <3> QED
      BY <2>2, <2>3, <3>1, <3>2, <3>3 DEF Numbering
  <2>6. KeyOf(p) = KeyOf(q) /\ KeyOf(p)' = KeyOf(q)
    BY <2>3 DEF KeyOf
  <2>7. Numbered(r)'
    BY <2>1, <2>2, <2>3, <2>5, <2>6 DEF Numbered
  <2> QED
    BY <1>1, <1>2, <2>2, <2>4, <2>7, NumbersStay
<1>7. ASSUME NEW r \in DocRequests, NEW d \in Uploads, SignRead(r, d) PROVE VersionsInv'
  <2>1. document' = document /\ doclock' = doclock
        /\ dreq' = [dreq EXCEPT ![r] = [NoUpload EXCEPT !.pc = "sign", !.doc = d]]
    BY <1>7 DEF SignRead, Onto
  <2>2. dreq'[r].pc = "sign" /\ \A o \in DocRequests \ {r} : dreq'[o] = dreq[o]
    BY <1>2, <2>1 DEF NoUpload
  <2>3. Numbered(r)'
    BY <2>2 DEF Numbered, Uploading, Locking
  <2> QED
    BY <1>1, <1>2, <2>1, <2>2, <2>3, NumbersStay
<1>8. CASE UNCHANGED docVars
  <2>1. UNCHANGED <<document, dreq, doclock>>
    BY <1>8 DEF docVars
  <2>2. \A h : RowsOf(h)' = RowsOf(h) /\ VersionsOf(h)' = VersionsOf(h)
    BY <2>1 DEF RowsOf, VersionsOf
  <2>3. \A r \in DocRequests : Numbered(r)'
    BY <2>1, <2>2 DEF VersionsInv, Numbered, Numbering, Uploading, Locking, KeyOf
  <2>4. \A h : Ordered(h) => Ordered(h)'
    BY <2>1, <2>2 DEF Ordered
  <2> QED
    BY <1>1, <2>1, <2>3, <2>4 DEF VersionsInv
<1> QED
  BY <1>1, <1>3, <1>4, <1>5, <1>6, <1>7, <1>8, CommitNumbers DEF DocumentsNext, DocumentsStep

\* However many uploads of one document race, fail and die, its versions are 1, 2, 3 and so
\* on without a gap, and uploads that spell the id of the supplier alike never get the same
\* one (uploadDocument and its advisory lock).
THEOREM VersionsAreInOrder == DocumentsSpec => []VersionsInOrder
<1>1. ASSUME VersionsInv, NEW h \in Histories \ Homeless
      PROVE  VersionsOf(h) = 1 .. Max({0} \cup VersionsOf(h))
  <2>1. PICK n \in Nat : VersionsOf(h) = 1 .. n
    BY <1>1 DEF VersionsInv, Ordered
  <2> QED
    BY <2>1, GreatestUpTo
<1>2. ASSUME VersionsInv PROVE VersionsInOrder
  BY <1>1, <1>2 DEF VersionsInv, Ordered, VersionsInOrder, VersionsOf, RowsOf
<1> QED
  BY <1>2, VersionsInvInit, VersionsInvNext, PTL DEF DocumentsSpec

(***************************************************************************)
(* Rollups: every risk is covered by the level, or the request that        *)
(* recorded it is about to raise it, or the level was missed.              *)
(***************************************************************************)
Raising(q, s, severity) == q.pc = "raise" /\ q.firm = s /\ q.severity = severity

RisksCovered ==
    \A s \in Firms, k \in Records :
        record[k].kind = "risk" /\ record[k].firm = s =>
            \/ "level" \in missed[s]
            \/ Rank(record[k].severity) <= Rank(figures[s].level)
            \/ \E r \in RollupRequests : Raising(rreq[r], s, record[k].severity)

RollupShapes ==
    /\ DOMAIN figures = Firms /\ DOMAIN record = Records /\ DOMAIN rreq = RollupRequests /\ DOMAIN missed = Firms
    /\ \A s \in Firms : DOMAIN figures[s] = {"level", "score", "grade", "spend"}
    /\ \A k \in Records : "kind" \in DOMAIN record[k]
    /\ \A r \in RollupRequests : DOMAIN rreq[r] = DOMAIN Quiet

RollupInv == RollupShapes /\ RisksCovered

LEMMA RankIsNat == ASSUME NEW severity PROVE Rank(severity) \in 1 .. 4
  BY DEF Rank

LEMMA QuietShape == DOMAIN Quiet = {"pc", "firm", "severity", "rules", "average", "sum", "alone"} /\ Quiet.pc = "idle"
  BY DEF Quiet

\* Levels rise or are missed, and who raises goes on until the level is there.
LEMMA RisksStay ==
    ASSUME RollupInv, RollupShapes',
           \A s \in Firms : "level" \in missed[s] => "level" \in missed'[s],
           \A s \in Firms : "level" \in missed'[s] \/ Rank(figures[s].level) <= Rank(figures'[s].level),
           \A k \in Records : record'[k].kind = "risk" =>
               record'[k] = record[k] \/ \E r \in RollupRequests : Raising(rreq'[r], record'[k].firm, record'[k].severity),
           \A r \in RollupRequests, s \in Firms :
               Raising(rreq[r], s, rreq[r].severity) =>
                  \/ "level" \in missed'[s]
                  \/ Rank(rreq[r].severity) <= Rank(figures'[s].level)
                  \/ Raising(rreq'[r], s, rreq[r].severity)
    PROVE  RollupInv'
<1> SUFFICES ASSUME NEW s \in Firms, NEW k \in Records, record'[k].kind = "risk", record'[k].firm = s
             PROVE  \/ "level" \in missed'[s]
                    \/ Rank(record'[k].severity) <= Rank(figures'[s].level)
                    \/ \E r \in RollupRequests : Raising(rreq'[r], s, record'[k].severity)
  BY DEF RollupInv, RisksCovered
<1>1. CASE record'[k] = record[k]
  <2>1. CASE \E r \in RollupRequests : Raising(rreq[r], s, record[k].severity)
    <3>1. PICK r \in RollupRequests : Raising(rreq[r], s, record[k].severity)
      BY <2>1
    <3>2. rreq[r].severity = record'[k].severity
      BY <1>1, <3>1 DEF Raising
    <3> QED
      BY <3>1, <3>2 DEF Raising
  <2>2. CASE "level" \in missed[s]
    BY <2>2
  <2>3. CASE Rank(record[k].severity) <= Rank(figures[s].level)
    BY <1>1, <2>3, RankIsNat
  <2> QED
    BY <1>1, <2>1, <2>2, <2>3 DEF RollupInv, RisksCovered
<1> QED
  BY <1>1

\* A request goes on, and only it and those it meets change.
LEMMA GoesOn ==
    ASSUME RollupShapes, NEW r \in RollupRequests, NEW s, NEW pc, NEW fields, DOMAIN fields = DOMAIN Quiet,
           Goes(r, s, pc, fields)
    PROVE  /\ DOMAIN rreq' = RollupRequests /\ \A q \in RollupRequests : DOMAIN rreq'[q] = DOMAIN Quiet
           /\ rreq'[r].pc = pc /\ rreq'[r].firm = s /\ rreq'[r].severity = fields.severity
           /\ \A q \in RollupRequests \ {r} : /\ rreq'[q].pc = rreq[q].pc /\ rreq'[q].firm = rreq[q].firm
                                              /\ rreq'[q].severity = rreq[q].severity
<1> DEFINE others == Meets(r, s, Figure(pc))
<1>1. rreq' = [q \in RollupRequests |->
                 IF q = r THEN [fields EXCEPT !.pc = pc, !.firm = s, !.alone = others = {}]
                 ELSE IF q \in others THEN [rreq[q] EXCEPT !.alone = FALSE] ELSE rreq[q]]
  BY DEF Goes
<1> HIDE DEF others
<1>2. rreq'[r] = [fields EXCEPT !.pc = pc, !.firm = s, !.alone = others = {}]
  BY <1>1
<1>3. \A q \in RollupRequests \ {r} : rreq'[q] = rreq[q] \/ rreq'[q] = [rreq[q] EXCEPT !.alone = FALSE]
  BY <1>1
<1>4. DOMAIN rreq'[r] = DOMAIN Quiet /\ rreq'[r].pc = pc /\ rreq'[r].firm = s /\ rreq'[r].severity = fields.severity
  BY <1>2, QuietShape
<1>5. ASSUME NEW q \in RollupRequests \ {r}
      PROVE  /\ DOMAIN rreq'[q] = DOMAIN Quiet /\ rreq'[q].pc = rreq[q].pc /\ rreq'[q].firm = rreq[q].firm
             /\ rreq'[q].severity = rreq[q].severity
  BY <1>3, QuietShape DEF RollupShapes
<1> QED
  BY <1>1, <1>4, <1>5

\* A new record that is no risk, or one that its request is about to look at.
LEMMA RecordJoins ==
    ASSUME RollupInv, UNCHANGED <<figures, missed>>, NEW k \in Records, NEW row, "kind" \in DOMAIN row,
           record' = [record EXCEPT ![k] = row], NEW r \in RollupRequests, rreq[r].pc = "idle",
           NEW s, NEW pc, NEW fields, DOMAIN fields = DOMAIN Quiet, Goes(r, s, pc, fields),
           row.kind = "risk" => pc = "raise" /\ row.firm = s /\ row.severity = fields.severity
    PROVE  RollupInv'
<1>1. RollupShapes' /\ record'[k] = row /\ \A o \in Records \ {k} : record'[o] = record[o]
  BY GoesOn DEF RollupInv, RollupShapes
<1>2. rreq'[r].pc = pc /\ rreq'[r].firm = s /\ rreq'[r].severity = fields.severity
  BY GoesOn DEF RollupInv
<1>3. \A q \in RollupRequests, z \in Firms :
        Raising(rreq[q], z, rreq[q].severity) => Raising(rreq'[q], z, rreq[q].severity)
  BY GoesOn DEF RollupInv, Raising
<1>4. \A o \in Records : record'[o].kind = "risk" =>
        record'[o] = record[o] \/ \E q \in RollupRequests : Raising(rreq'[q], record'[o].firm, record'[o].severity)
  BY <1>1, <1>2 DEF Raising
<1>5. \A z \in Firms : Rank(figures[z].level) <= Rank(figures'[z].level)
  BY RankIsNat
<1> QED
  BY <1>1, <1>3, <1>4, <1>5, RisksStay

\* A request that is not raising a level moves or ends, and no level changes.
LEMMA RequestGoes ==
    ASSUME RollupInv, record' = record, NEW r \in RollupRequests, rreq[r].pc # "raise",
           DOMAIN rreq' = RollupRequests, DOMAIN rreq'[r] = DOMAIN Quiet,
           \A q \in RollupRequests \ {r} : rreq'[q] = rreq[q],
           DOMAIN figures' = Firms, DOMAIN missed' = Firms,
           \A s \in Firms : /\ DOMAIN figures'[s] = {"level", "score", "grade", "spend"}
                            /\ figures'[s].level = figures[s].level
                            /\ "level" \in missed[s] => "level" \in missed'[s]
    PROVE  RollupInv'
<1>1. RollupShapes'
  BY DEF RollupInv, RollupShapes
<1>2. \A q \in RollupRequests, z \in Firms :
        Raising(rreq[q], z, rreq[q].severity) => Raising(rreq'[q], z, rreq[q].severity)
  BY DEF Raising
<1>3. \A z \in Firms : Rank(figures[z].level) <= Rank(figures'[z].level)
  BY RankIsNat
<1> QED
  BY <1>1, <1>2, <1>3, RisksStay

LEMMA RollupInvInit == RollupInit => RollupInv
<1> SUFFICES ASSUME RollupInit PROVE RollupInv
  OBVIOUS
<1>1. RollupShapes
  BY QuietShape DEF RollupInit, RollupShapes, NoRecord
<1>2. \A k \in Records : record[k].kind # "risk"
  BY DEF RollupInit, NoRecord
<1> QED
  BY <1>1, <1>2 DEF RollupInv, RisksCovered

LEMMA RollupInvNext == RollupInv /\ [RollupNext]_rollupVars => RollupInv'
<1> SUFFICES ASSUME RollupInv, [RollupNext]_rollupVars PROVE RollupInv'
  OBVIOUS
<1>1. ASSUME NEW r \in RollupRequests, NEW k \in Records, NEW s \in Firms, NEW severity, CreateRisk(r, k, s, severity)
      PROVE  RollupInv'
  <2>1. PICK fields : fields = [Quiet EXCEPT !.severity = severity]
    OBVIOUS
  <2>2. DOMAIN fields = DOMAIN Quiet /\ fields.severity = severity
    BY <2>1, QuietShape
  <2>3. PICK row : row = [kind |-> "risk", firm |-> s, severity |-> severity]
    OBVIOUS
  <2>4. "kind" \in DOMAIN row /\ row.firm = s /\ row.severity = severity
    BY <2>3
  <2>5. /\ rreq[r].pc = "idle" /\ record' = [record EXCEPT ![k] = row] /\ Goes(r, s, "raise", fields)
        /\ UNCHANGED <<figures, missed>>
    BY <1>1, <2>1, <2>3 DEF CreateRisk
  <2> QED
    BY <2>2, <2>4, <2>5, RecordJoins
<1>2. ASSUME NEW r \in RollupRequests, RaiseLevel(r) PROVE RollupInv'
  <2> DEFINE s == rreq[r].firm
  <2>1. rreq[r].pc = "raise" /\ UNCHANGED <<record, missed>> /\ rreq' = [rreq EXCEPT ![r] = Quiet]
    BY <1>2 DEF RaiseLevel, Finish
  <2>2. PICK level : level = Raised(figures[s].level, rreq[r].severity)
    OBVIOUS
  <2>3. figures' = [figures EXCEPT ![s].level = level]
    BY <1>2, <2>2 DEF RaiseLevel
  <2>4. RollupShapes'
    BY <2>1, <2>3 DEF RollupInv, RollupShapes
  <2>5. Rank(figures[s].level) <= Rank(level) /\ Rank(rreq[r].severity) <= Rank(level)
    BY <2>2, RankIsNat DEF Raised
  <2>6. s \in Firms => figures'[s].level = level
    BY <2>3 DEF RollupInv, RollupShapes
  <2>7. \A z \in Firms \ {s} : figures'[z].level = figures[z].level
    BY <2>3 DEF RollupInv, RollupShapes
  <2>8. \A z \in Firms : Rank(figures[z].level) <= Rank(figures'[z].level)
    BY <2>5, <2>6, <2>7, RankIsNat
  <2>9. \A q \in RollupRequests \ {r} : rreq'[q] = rreq[q]
    BY <2>1 DEF RollupInv, RollupShapes
  <2>10. \A q \in RollupRequests, z \in Firms :
           Raising(rreq[q], z, rreq[q].severity) =>
              Rank(rreq[q].severity) <= Rank(figures'[z].level) \/ Raising(rreq'[q], z, rreq[q].severity)
    BY <2>5, <2>6, <2>9 DEF Raising
  <2> QED
    BY <2>1, <2>4, <2>8, <2>10, RisksStay
<1>3. ASSUME NEW r \in RollupRequests, NEW k \in Records, NEW s \in Firms, NEW card \in Scorecards,
             NEW completed \in BOOLEAN, NEW marks, CreateEvaluation(r, k, s, card, marks, completed)
      PROVE  RollupInv'
  <2>1. PICK fields : fields = [Quiet EXCEPT !.rules = card.rules, !.sum = Total(card, marks)]
    OBVIOUS
  <2>2. DOMAIN fields = DOMAIN Quiet
    BY <2>1, QuietShape
  <2>3. PICK row : row = [kind |-> "evaluation", firm |-> s, completed |-> completed, total |-> Total(card, marks),
                          grade |-> Grade(card.rules, [points |-> Total(card, marks), rows |-> 1])]
    OBVIOUS
  <2>4. "kind" \in DOMAIN row /\ row.kind # "risk"
    BY <2>3
  <2>5. /\ rreq[r].pc = "idle" /\ record' = [record EXCEPT ![k] = row] /\ Goes(r, s, "average", fields)
        /\ UNCHANGED <<figures, missed>>
    BY <1>3, <2>1, <2>3 DEF CreateEvaluation
  <2> QED
    BY <2>2, <2>4, <2>5, RecordJoins
<1>4. ASSUME NEW r \in RollupRequests, ReadAverage(r) \/ ReadSum(r) PROVE RollupInv'
  <2>1. /\ rreq[r].pc # "raise" /\ UNCHANGED <<figures, record, missed>>
        /\ \E q : DOMAIN q = DOMAIN rreq[r] /\ rreq' = [rreq EXCEPT ![r] = q]
    <3>1. CASE ReadAverage(r)
      <4>1. PICK average : average = Average(rreq[r].firm, rreq[r].sum)
        OBVIOUS
      <4>2. rreq' = [rreq EXCEPT ![r] = [rreq[r] EXCEPT !.pc = "grade", !.average = average]]
        BY <3>1, <4>1 DEF ReadAverage, RollupInv, RollupShapes
      <4> QED
        BY <3>1, <4>2 DEF ReadAverage
    <3>2. CASE ReadSum(r)
      <4>1. PICK sum : sum = Spent(rreq[r].firm)
        OBVIOUS
      <4>2. rreq' = [rreq EXCEPT ![r] = [rreq[r] EXCEPT !.pc = "spend", !.sum = sum]]
        BY <3>2, <4>1 DEF ReadSum, RollupInv, RollupShapes
      <4> QED
        BY <3>2, <4>2 DEF ReadSum
    <3> QED
      BY <1>4, <3>1, <3>2
  <2> QED
    BY <2>1, RequestGoes DEF RollupInv, RollupShapes
<1>5. ASSUME NEW r \in RollupRequests, WriteScore(r) \/ WriteSpend(r) PROVE RollupInv'
  <2>1. /\ rreq[r].pc # "raise" /\ record' = record /\ rreq' = [rreq EXCEPT ![r] = Quiet]
    BY <1>5 DEF WriteScore, WriteSpend, Finish
  <2>2. /\ DOMAIN figures' = Firms
        /\ \A s \in Firms : /\ DOMAIN figures'[s] = {"level", "score", "grade", "spend"}
                             /\ figures'[s].level = figures[s].level
    <3>1. CASE WriteScore(r)
      <4>1. PICK average, grade : average = rreq[r].average /\ grade = Grade(rreq[r].rules, rreq[r].average)
        OBVIOUS
      <4>2. figures' = [figures EXCEPT ![rreq[r].firm].score = Rounded(average), ![rreq[r].firm].grade = grade]
        BY <3>1, <4>1 DEF WriteScore
      <4> QED
        BY <4>2 DEF RollupInv, RollupShapes
    <3>2. CASE WriteSpend(r)
      BY <3>2 DEF WriteSpend, RollupInv, RollupShapes
    <3> QED
      BY <1>5, <3>1, <3>2
  <2>3. DOMAIN missed' = Firms /\ \A s \in Firms : "level" \in missed[s] => "level" \in missed'[s]
    BY <1>5 DEF WriteScore, WriteSpend, CaughtUp, RollupInv, RollupShapes
  <2> QED
    BY <2>1, <2>2, <2>3, RequestGoes DEF RollupInv, RollupShapes
<1>6. ASSUME NEW r \in RollupRequests, NEW k \in Records, NEW s \in Firms, NEW amount, NEW recent,
             CreateSpend(r, k, s, amount, recent)
      PROVE  RollupInv'
  <2>1. PICK row : row = [kind |-> "spend", firm |-> s, amount |-> amount, recent |-> recent]
    OBVIOUS
  <2>2. "kind" \in DOMAIN row /\ row.kind # "risk"
    BY <2>1
  <2>3. /\ rreq[r].pc = "idle" /\ record' = [record EXCEPT ![k] = row] /\ Goes(r, s, "sum", Quiet)
        /\ UNCHANGED <<figures, missed>>
    BY <1>6, <2>1 DEF CreateSpend
  <2> QED
    BY <2>2, <2>3, RecordJoins
<1>7. ASSUME NEW r \in RollupRequests, RollupLost(r) PROVE RollupInv'
  <2>1. /\ UNCHANGED <<figures, record>> /\ rreq' = [rreq EXCEPT ![r] = Quiet]
        /\ missed' = [missed EXCEPT ![rreq[r].firm] = missed[rreq[r].firm] \cup {Figure(rreq[r].pc)}]
    BY <1>7 DEF RollupLost, Overtaken, Finish
  <2>2. RollupShapes' /\ \A q \in RollupRequests \ {r} : rreq'[q] = rreq[q]
    BY <2>1 DEF RollupInv, RollupShapes
  <2>3. \A s \in Firms : /\ "level" \in missed[s] => "level" \in missed'[s]
                         /\ Raising(rreq[r], s, rreq[r].severity) => "level" \in missed'[s]
    BY <2>1 DEF RollupInv, RollupShapes, Raising, Figure
  <2>4. \A z \in Firms : Rank(figures[z].level) <= Rank(figures'[z].level)
    BY <2>1, RankIsNat
  <2>5. \A q \in RollupRequests, z \in Firms :
          Raising(rreq[q], z, rreq[q].severity) => "level" \in missed'[z] \/ Raising(rreq'[q], z, rreq[q].severity)
    BY <2>2, <2>3 DEF Raising
  <2> QED
    BY <2>1, <2>2, <2>3, <2>4, <2>5, RisksStay
<1>8. ASSUME NEW s \in Firms, NEW severity, NEW amount, CorrectByHand(s, severity, amount) PROVE RollupInv'
  <2>1. /\ UNCHANGED <<record, rreq>>
        /\ missed' = [missed EXCEPT ![s] = {"level", "score", "spend"}]
    BY <1>8 DEF CorrectByHand
  <2>2. /\ DOMAIN figures' = Firms /\ \A z \in Firms : DOMAIN figures'[z] = {"level", "score", "grade", "spend"}
        /\ \A z \in Firms \ {s} : figures'[z] = figures[z]
    BY <1>8 DEF CorrectByHand, RollupInv, RollupShapes
  <2>3. RollupShapes'
    BY <2>1, <2>2 DEF RollupInv, RollupShapes
  <2>4. "level" \in missed'[s] /\ \A z \in Firms \ {s} : missed'[z] = missed[z]
    BY <2>1 DEF RollupInv, RollupShapes
  <2>5. \A z \in Firms : "level" \in missed'[z] \/ Rank(figures[z].level) <= Rank(figures'[z].level)
    BY <2>2, <2>4, RankIsNat
  <2> QED
    BY <2>1, <2>3, <2>4, <2>5, RisksStay
<1>9. ASSUME NEW k \in Records, SpendAges(k) PROVE RollupInv'
  <2>1. /\ record[k].kind = "spend" /\ figures' = figures
        /\ record' = [record EXCEPT ![k].recent = FALSE]
        /\ missed' = [missed EXCEPT ![record[k].firm] = missed[record[k].firm] \cup {"spend"}]
    BY <1>9 DEF SpendAges, Overtaken
  <2>2. /\ DOMAIN rreq' = RollupRequests
        /\ \A q \in RollupRequests : rreq'[q] = rreq[q] \/ rreq'[q] = [rreq[q] EXCEPT !.alone = FALSE]
    BY <1>9 DEF SpendAges
  <2>3. \A q \in RollupRequests : /\ DOMAIN rreq'[q] = DOMAIN Quiet /\ rreq'[q].pc = rreq[q].pc
                                  /\ rreq'[q].firm = rreq[q].firm /\ rreq'[q].severity = rreq[q].severity
    BY <2>2, QuietShape DEF RollupInv, RollupShapes
  <2>4. /\ DOMAIN record' = Records /\ \A o \in Records \ {k} : record'[o] = record[o]
        /\ "kind" \in DOMAIN record'[k] /\ record'[k].kind = "spend"
    BY <2>1 DEF RollupInv, RollupShapes
  <2>5. RollupShapes'
    BY <2>1, <2>2, <2>3, <2>4 DEF RollupInv, RollupShapes
  <2>6. \A s \in Firms : "level" \in missed[s] => "level" \in missed'[s]
    BY <2>1 DEF RollupInv, RollupShapes
  <2>7. \A q \in RollupRequests, z \in Firms :
          Raising(rreq[q], z, rreq[q].severity) => Raising(rreq'[q], z, rreq[q].severity)
    BY <2>3 DEF Raising
  <2>8. \A z \in Firms : Rank(figures[z].level) <= Rank(figures'[z].level)
    BY <2>1, RankIsNat
  <2> QED
    BY <2>4, <2>5, <2>6, <2>7, <2>8, RisksStay
<1>10. CASE UNCHANGED rollupVars
  BY <1>10 DEF rollupVars, RollupInv, RollupShapes, RisksCovered
<1> QED
  BY <1>1, <1>2, <1>3, <1>4, <1>5, <1>6, <1>7, <1>8, <1>9, <1>10 DEF RollupNext, RollupStep

\* The level a supplier shows covers its risks, however many requests recorded risks at
\* once (createRisk).
THEOREM LevelsCover == RollupSpec => []LevelCovers
<1>1. RollupInv => LevelCovers
  <2> SUFFICES ASSUME RollupInv, NEW s \in Firms, AtRest(s, "level"), "level" \notin missed[s], NEW k \in Of(s, "risk")
               PROVE  Rank(record[k].severity) <= Rank(figures[s].level)
    BY DEF LevelCovers
  <2>1. k \in Records /\ record[k].kind = "risk" /\ record[k].firm = s
    BY DEF Of
  <2>2. \A r \in RollupRequests : ~Raising(rreq[r], s, record[k].severity)
    BY DEF AtRest, Raising, Figure
  <2> QED
    BY <2>1, <2>2 DEF RollupInv, RisksCovered
<1> QED
  BY <1>1, RollupInvInit, RollupInvNext, PTL DEF RollupSpec

-----------------------------------------------------------------------------
(***************************************************************************)
(* Rollups: who is alone with a figure has read what the records give, and *)
(* a figure at rest that nothing overtook is what somebody alone wrote.    *)
(***************************************************************************)
\* The rows that the two figures are computed from.
RowOf(k, s, kind) == record[k].kind = kind /\ record[k].firm = s

Shared == {"score", "spend"}

Solitary ==
    \A r, q \in RollupRequests :
        r # q /\ rreq[r].firm = rreq[q].firm /\ Figure(rreq[r].pc) = Figure(rreq[q].pc) /\ Figure(rreq[r].pc) \in Shared =>
            rreq[r].alone = FALSE

Informed(q) ==
    /\ q.alone \in BOOLEAN
    /\ q.pc # "idle" => q.firm \in Firms
    /\ q.pc \in {"average", "grade"} => \E card \in Scorecards : q.rules = card.rules
    /\ q.pc = "grade" /\ q.alone = TRUE => q.average = Average(q.firm, q.sum)
    /\ q.pc = "spend" /\ q.alone = TRUE => q.sum = Spent(q.firm)

Mean(s) == [points |-> SumFunction([k \in Counted(s) |-> record[k].total]), rows |-> Cardinality(Counted(s))]

ScoreRight(s) ==
    AtRest(s, "score") /\ "score" \notin missed[s] /\ Counted(s) # {} =>
        /\ figures[s].score = Rounded(Mean(s))
        /\ \E card \in Scorecards : figures[s].grade = Grade(card.rules, Mean(s))

SpendRight(s) == AtRest(s, "spend") /\ "spend" \notin missed[s] => figures[s].spend = Spent(s)

FiguresInv ==
    /\ RollupInv
    /\ \A k \in Records : record[k].kind = "spend" => "firm" \in DOMAIN record[k]
    /\ Solitary
    /\ \A r \in RollupRequests : Informed(rreq[r])
    /\ \A s \in Firms : ScoreRight(s) /\ SpendRight(s)

\* No row that the figure is computed from comes, changes or goes.
Intact(s, kind) == \A k \in Records : record'[k] = record[k] \/ (~RowOf(k, s, kind) /\ ~RowOf(k, s, kind)')

LEMMA ScoreIntact ==
    ASSUME NEW s, Intact(s, "evaluation"), NEW own
    PROVE  /\ Counted(s)' = Counted(s) /\ \A k \in Counted(s) : record'[k] = record[k]
           /\ Average(s, own)' = Average(s, own)
           /\ SumFunction([k \in Counted(s) |-> record[k].total])' = SumFunction([k \in Counted(s) |-> record[k].total])
<1>1. Counted(s)' = Counted(s) /\ \A k \in Counted(s) : record'[k] = record[k]
  BY DEF Counted, Of, Intact, RowOf
<1>2. [k \in Counted(s)' |-> record'[k].total] = [k \in Counted(s) |-> record[k].total]
  BY <1>1
<1>3. SumFunction([k \in Counted(s)' |-> record'[k].total]) = SumFunction([k \in Counted(s) |-> record[k].total])
  BY <1>2
<1> QED
  BY <1>1, <1>3 DEF Average

LEMMA SpendIntact ==
    ASSUME NEW s, Intact(s, "spend")
    PROVE  Spent(s)' = Spent(s)
<1>1. Recent(s)' = Recent(s) /\ \A k \in Recent(s) : record'[k] = record[k]
  BY DEF Recent, Of, Intact, RowOf
<1>2. [k \in Recent(s)' |-> record'[k].amount] = [k \in Recent(s) |-> record[k].amount]
  BY <1>1
<1> QED
  BY <1>2 DEF Spent

\* A request that is met is no longer alone; one that still is sees the records it read.
Dims(q) ==
    /\ rreq'[q] = rreq[q] \/ rreq'[q] = [rreq[q] EXCEPT !.alone = FALSE]
    /\ rreq'[q].alone = TRUE /\ rreq[q].pc = "grade" => Intact(rreq[q].firm, "evaluation")
    /\ rreq'[q].alone = TRUE /\ rreq[q].pc = "spend" => Intact(rreq[q].firm, "spend")

LEMMA OthersDim ==
    ASSUME FiguresInv, NEW q \in RollupRequests, Dims(q)
    PROVE  /\ rreq'[q].pc = rreq[q].pc /\ rreq'[q].firm = rreq[q].firm
           /\ rreq[q].alone = FALSE => rreq'[q].alone = FALSE
           /\ Informed(rreq[q])'
<1>1. DOMAIN rreq[q] = DOMAIN Quiet
  BY DEF FiguresInv, RollupInv, RollupShapes
<1>2. /\ rreq'[q].pc = rreq[q].pc /\ rreq'[q].firm = rreq[q].firm /\ rreq'[q].rules = rreq[q].rules
      /\ rreq'[q].average = rreq[q].average /\ rreq'[q].sum = rreq[q].sum
      /\ rreq'[q].alone = rreq[q].alone \/ rreq'[q].alone = FALSE
  BY <1>1, QuietShape DEF Dims
<1>3. Informed(rreq[q])
  BY DEF FiguresInv
<1>4. rreq[q].alone \in BOOLEAN /\ rreq'[q].alone \in BOOLEAN /\ (rreq'[q].alone = TRUE => rreq[q].alone = TRUE)
  BY <1>2, <1>3 DEF Informed
<1>5. ASSUME rreq'[q].pc = "grade", rreq'[q].alone = TRUE
      PROVE  (rreq[q].average = Average(rreq[q].firm, rreq[q].sum))'
  <2>1. PICK s, own : s = rreq[q].firm /\ own = rreq[q].sum
    OBVIOUS
  <2>2. Intact(s, "evaluation")
    BY <1>2, <1>5, <2>1 DEF Dims
  <2>3. Average(s, own)' = Average(s, own)
    BY <2>2, ScoreIntact
  <2>4. rreq[q].average = Average(s, own)
    BY <1>2, <1>3, <1>4, <1>5, <2>1 DEF Informed
  <2> QED
    BY <1>2, <2>1, <2>3, <2>4
<1>6. ASSUME rreq'[q].pc = "spend", rreq'[q].alone = TRUE
      PROVE  (rreq[q].sum = Spent(rreq[q].firm))'
  <2>1. PICK s : s = rreq[q].firm
    OBVIOUS
  <2>2. Intact(s, "spend")
    BY <1>2, <1>6, <2>1 DEF Dims
  <2>3. Spent(s)' = Spent(s)
    BY <2>2, SpendIntact
  <2>4. rreq[q].sum = Spent(s)
    BY <1>2, <1>3, <1>4, <1>6, <2>1 DEF Informed
  <2> QED
    BY <1>2, <2>1, <2>3, <2>4
<1>7. rreq'[q].pc # "idle" => rreq'[q].firm \in Firms
  BY <1>2, <1>3 DEF Informed
<1>8. rreq'[q].pc \in {"average", "grade"} => \E card \in Scorecards : rreq'[q].rules = card.rules
  BY <1>2, <1>3 DEF Informed
<1>9. Informed(rreq[q])'
  BY <1>4, <1>5, <1>6, <1>7, <1>8 DEF Informed
<1> QED
  BY <1>2, <1>4, <1>9

\* A firm whose figure is not touched, or is not at rest, or is missed.
LEMMA ScoreStays ==
    ASSUME FiguresInv, NEW s \in Firms,
           figures'[s].score = figures[s].score, figures'[s].grade = figures[s].grade,
           "score" \in missed[s] => "score" \in missed'[s],
           AtRest(s, "score")' /\ "score" \notin missed'[s] => AtRest(s, "score") /\ Intact(s, "evaluation")
    PROVE  ScoreRight(s)'
<1> SUFFICES ASSUME AtRest(s, "score")', "score" \notin missed'[s], Counted(s)' # {}
             PROVE  /\ figures'[s].score = Rounded(Mean(s)')
                    /\ \E card \in Scorecards : figures'[s].grade = Grade(card.rules, Mean(s)')
  BY DEF ScoreRight, Grade, Rounded
<1>1. AtRest(s, "score") /\ Intact(s, "evaluation") /\ "score" \notin missed[s]
  OBVIOUS
<1>2. Counted(s)' = Counted(s) /\ Mean(s)' = Mean(s)
  BY <1>1, ScoreIntact DEF Mean
<1>3. ScoreRight(s)
  BY DEF FiguresInv
<1> QED
  BY <1>1, <1>2, <1>3 DEF ScoreRight

LEMMA SpendStays ==
    ASSUME FiguresInv, NEW s \in Firms,
           figures'[s].spend = figures[s].spend, "spend" \in missed[s] => "spend" \in missed'[s],
           AtRest(s, "spend")' /\ "spend" \notin missed'[s] => AtRest(s, "spend") /\ Intact(s, "spend")
    PROVE  SpendRight(s)'
<1> SUFFICES ASSUME AtRest(s, "spend")', "spend" \notin missed'[s] PROVE figures'[s].spend = Spent(s)'
  BY DEF SpendRight
<1>1. AtRest(s, "spend") /\ Intact(s, "spend") /\ "spend" \notin missed[s]
  OBVIOUS
<1>2. Spent(s)' = Spent(s)
  BY <1>1, SpendIntact
<1>3. SpendRight(s)
  BY DEF FiguresInv
<1> QED
  BY <1>1, <1>2, <1>3 DEF SpendRight

\* r takes a step; the others see to their own.
LEMMA FiguresStep ==
    ASSUME FiguresInv, RollupInv', NEW r \in RollupRequests,
           \A q \in RollupRequests \ {r} : Dims(q),
           \A q \in RollupRequests \ {r} :
               rreq'[r].firm = rreq[q].firm /\ Figure(rreq'[r].pc) = Figure(rreq[q].pc) /\ Figure(rreq[q].pc) \in Shared =>
                   rreq'[q].alone = FALSE /\ rreq'[r].alone = FALSE,
           Informed(rreq[r])',
           \A k \in Records : record'[k].kind = "spend" => "firm" \in DOMAIN record'[k],
           \A s \in Firms : ScoreRight(s)' /\ SpendRight(s)'
    PROVE  FiguresInv'
<1>1. \A q \in RollupRequests \ {r} : /\ rreq'[q].pc = rreq[q].pc /\ rreq'[q].firm = rreq[q].firm
                                      /\ rreq[q].alone = FALSE => rreq'[q].alone = FALSE
                                      /\ Informed(rreq[q])'
  BY OthersDim
<1>2. \A q \in RollupRequests : Informed(rreq[q])'
  BY <1>1
<1>3. Solitary'
  <2> SUFFICES ASSUME NEW p \in RollupRequests, NEW q \in RollupRequests, p # q, rreq'[p].firm = rreq'[q].firm,
                      Figure(rreq'[p].pc) = Figure(rreq'[q].pc), Figure(rreq'[p].pc) \in Shared
               PROVE  rreq'[p].alone = FALSE
    BY DEF Solitary, Figure
  <2>1. CASE p # r /\ q # r
    BY <1>1, <2>1 DEF FiguresInv, Solitary
  <2>2. CASE p = r \/ q = r
    BY <1>1, <2>2
  <2> QED
    BY <2>1, <2>2
<1> QED
  BY <1>2, <1>3 DEF FiguresInv

LEMMA QuietInformed == ASSUME NEW r, rreq'[r] = Quiet PROVE Informed(rreq[r])' /\ Figure(rreq'[r].pc) = "none"
  BY DEF Informed, Quiet, Figure

\* What q has read stays true when somebody touches another figure, or that of another firm.
Passed(q, s, figure) ==
    /\ rreq[q].pc = "grade" /\ (rreq[q].firm # s \/ figure # "score") => Intact(rreq[q].firm, "evaluation")
    /\ rreq[q].pc = "spend" /\ (rreq[q].firm # s \/ figure # "spend") => Intact(rreq[q].firm, "spend")

MovedOn(r, s, pc, fields) ==
    rreq'[r].pc = pc /\ rreq'[r].firm = s /\ rreq'[r].rules = fields.rules /\ rreq'[r].alone \in BOOLEAN

ComesToRest(s, figure) == AtRest(s, figure)'

\* What Goes does to the requests.
LEMMA GoesDims ==
    ASSUME FiguresInv, NEW r \in RollupRequests, NEW s, NEW pc, NEW fields, DOMAIN fields = DOMAIN Quiet,
           Goes(r, s, pc, fields), rreq[r].pc = "idle",
           \A q \in RollupRequests \ {r} : Passed(q, s, Figure(pc))
    PROVE  /\ \A q \in RollupRequests \ {r} : Dims(q)
           /\ \A q \in RollupRequests \ {r} :
               rreq'[r].firm = rreq[q].firm /\ Figure(rreq'[r].pc) = Figure(rreq[q].pc) /\ Figure(rreq[q].pc) \in Shared =>
                   rreq'[q].alone = FALSE /\ rreq'[r].alone = FALSE
           /\ MovedOn(r, s, pc, fields)
           /\ \A z \in Firms, f \in Shared : ComesToRest(z, f) => AtRest(z, f) /\ ~(z = s /\ Figure(pc) = f)
<1> DEFINE others == Meets(r, s, Figure(pc))
<1>1. rreq' = [q \in RollupRequests |->
                 IF q = r THEN [fields EXCEPT !.pc = pc, !.firm = s, !.alone = others = {}]
                 ELSE IF q \in others THEN [rreq[q] EXCEPT !.alone = FALSE] ELSE rreq[q]]
  BY DEF Goes
<1>2. \A q \in RollupRequests \ {r} : q \in others <=> rreq[q].firm = s /\ Figure(rreq[q].pc) = Figure(pc)
  BY DEF Meets
<1>3. others # {} => (others = {}) = FALSE
  OBVIOUS
<1>4. \A q \in RollupRequests \ {r} : q \in others => others # {}
  OBVIOUS
<1> HIDE DEF others
<1>5. rreq'[r] = [fields EXCEPT !.pc = pc, !.firm = s, !.alone = others = {}]
  BY <1>1
<1>6. \A q \in RollupRequests \ {r} : rreq'[q] = IF q \in others THEN [rreq[q] EXCEPT !.alone = FALSE] ELSE rreq[q]
  BY <1>1
<1>7. /\ rreq'[r].pc = pc /\ rreq'[r].firm = s /\ rreq'[r].rules = fields.rules
      /\ rreq'[r].alone = (others = {})
  BY <1>5, QuietShape
<1>8. \A q \in RollupRequests : DOMAIN rreq[q] = DOMAIN Quiet
  BY DEF FiguresInv, RollupInv, RollupShapes
<1>9. ASSUME NEW q \in RollupRequests \ {r}
      PROVE  /\ rreq'[q].pc = rreq[q].pc /\ rreq'[q].firm = rreq[q].firm
             /\ q \in others => rreq'[q].alone = FALSE
             /\ rreq'[q] = rreq[q] \/ rreq'[q] = [rreq[q] EXCEPT !.alone = FALSE]
  <2>1. CASE q \in others
    BY <1>6, <1>8, <2>1, QuietShape
  <2>2. CASE q \notin others
    BY <1>6, <2>2
  <2> QED
    BY <2>1, <2>2
<1>10. Figure("grade") = "score" /\ Figure("spend") = "spend" /\ Figure("idle") = "none"
  BY DEF Figure
<1>11. \A q \in RollupRequests \ {r} : Dims(q)
  BY <1>2, <1>9, <1>10 DEF Dims, Passed
<1>12. \A q \in RollupRequests \ {r} :
          rreq'[r].firm = rreq[q].firm /\ Figure(rreq'[r].pc) = Figure(rreq[q].pc) /\ Figure(rreq[q].pc) \in Shared =>
             rreq'[q].alone = FALSE /\ rreq'[r].alone = FALSE
  <2> SUFFICES ASSUME NEW q \in RollupRequests \ {r}, rreq'[r].firm = rreq[q].firm, Figure(rreq'[r].pc) = Figure(rreq[q].pc)
               PROVE  rreq'[q].alone = FALSE /\ rreq'[r].alone = FALSE
    OBVIOUS
  <2>1. q \in others
    BY <1>2, <1>7
  <2>2. (others = {}) = FALSE
    BY <1>3, <1>4, <2>1
  <2> QED
    BY <1>7, <1>9, <2>1, <2>2
<1>13. rreq'[r].alone \in BOOLEAN
  BY <1>7
<1>14. \A z \in Firms, f \in Shared : ComesToRest(z, f) => AtRest(z, f) /\ ~(z = s /\ Figure(pc) = f)
  <2> SUFFICES ASSUME NEW z \in Firms, NEW f \in Shared, AtRest(z, f)'
               PROVE  AtRest(z, f) /\ ~(z = s /\ Figure(pc) = f)
    BY DEF ComesToRest
  <2>1. \A q \in RollupRequests : ~(rreq'[q].firm = z /\ Figure(rreq'[q].pc) = f)
    BY DEF AtRest, Figure
  <2>2. \A q \in RollupRequests \ {r} : ~(rreq[q].firm = z /\ Figure(rreq[q].pc) = f)
    BY <1>9, <2>1
  <2>3. ~(rreq[r].firm = z /\ Figure(rreq[r].pc) = f)
    BY <1>10 DEF Shared
  <2> QED
    BY <1>7, <2>1, <2>2, <2>3 DEF AtRest
<1>15. MovedOn(r, s, pc, fields)
  BY <1>7, <1>13 DEF MovedOn
<1> QED
  BY <1>11, <1>12, <1>14, <1>15

\* A record joins and its request goes on.
LEMMA RowJoins ==
    ASSUME FiguresInv, RollupInv', UNCHANGED <<figures, missed>>, NEW k \in Records, record[k] = NoRecord,
           NEW row, record' = [record EXCEPT ![k] = row], NEW r \in RollupRequests, rreq[r].pc = "idle",
           NEW s \in Firms, NEW pc, NEW fields, DOMAIN fields = DOMAIN Quiet, Goes(r, s, pc, fields),
           row.firm = s, row.kind = "spend" => "firm" \in DOMAIN row,
           \/ row.kind = "risk" /\ pc = "raise"
           \/ row.kind = "evaluation" /\ pc = "average" /\ \E card \in Scorecards : fields.rules = card.rules
           \/ row.kind = "spend" /\ pc = "sum"
    PROVE  FiguresInv'
<1>1. record'[k] = row /\ \A o \in Records \ {k} : record'[o] = record[o]
  BY DEF FiguresInv, RollupInv, RollupShapes
<1>2. record[k].kind = "none"
  BY DEF NoRecord
<1>3. \A z, kind : kind \in {"evaluation", "spend"} /\ (z # s \/ row.kind # kind) => Intact(z, kind)
  BY <1>1, <1>2 DEF Intact, RowOf
<1>4. Figure("raise") = "level" /\ Figure("average") = "score" /\ Figure("sum") = "spend"
  BY DEF Figure
<1>5. \A q \in RollupRequests \ {r} : Passed(q, s, Figure(pc))
  BY <1>3, <1>4 DEF Passed
<1>6. \A q \in RollupRequests \ {r} : Dims(q)
  BY <1>5, GoesDims
<1>7. \A q \in RollupRequests \ {r} :
         rreq'[r].firm = rreq[q].firm /\ Figure(rreq'[r].pc) = Figure(rreq[q].pc) /\ Figure(rreq[q].pc) \in Shared =>
             rreq'[q].alone = FALSE /\ rreq'[r].alone = FALSE
  BY <1>5, GoesDims
<1>8. MovedOn(r, s, pc, fields)
  BY <1>5, GoesDims
<1>9. \A z \in Firms, f \in Shared : ComesToRest(z, f) => AtRest(z, f) /\ ~(z = s /\ Figure(pc) = f)
  BY <1>5, GoesDims
<1>10. Informed(rreq[r])'
  BY <1>8 DEF Informed, MovedOn
<1>11. ASSUME NEW z \in Firms PROVE ScoreRight(z)' /\ SpendRight(z)'
  <2>1. AtRest(z, "score")' => AtRest(z, "score") /\ Intact(z, "evaluation")
    <3>1. ComesToRest(z, "score") => AtRest(z, "score") /\ ~(z = s /\ row.kind = "evaluation")
      BY <1>4, <1>9 DEF Shared
    <3> QED
      BY <1>3, <3>1 DEF ComesToRest
  <2>2. AtRest(z, "spend")' => AtRest(z, "spend") /\ Intact(z, "spend")
    <3>1. ComesToRest(z, "spend") => AtRest(z, "spend") /\ ~(z = s /\ row.kind = "spend")
      BY <1>4, <1>9 DEF Shared
    <3> QED
      BY <1>3, <3>1 DEF ComesToRest
  <2>3. ScoreRight(z)'
    BY <2>1, ScoreStays
  <2>4. SpendRight(z)'
    BY <2>2, SpendStays
  <2> QED
    BY <2>3, <2>4
<1>12. \A o \in Records : record'[o].kind = "spend" => "firm" \in DOMAIN record'[o]
  BY <1>1 DEF FiguresInv
<1> QED
  BY <1>6, <1>7, <1>10, <1>11, <1>12, FiguresStep

\* The records and the other requests stay.
LEMMA OneWrites ==
    ASSUME FiguresInv, RollupInv', record' = record, NEW r \in RollupRequests,
           \A q \in RollupRequests \ {r} : rreq'[q] = rreq[q],
           \/ rreq'[r] = Quiet
           \/ /\ rreq'[r].firm = rreq[r].firm /\ Figure(rreq'[r].pc) = Figure(rreq[r].pc)
              /\ rreq'[r].alone = rreq[r].alone /\ Informed(rreq[r])',
           \A s \in Firms : ScoreRight(s)' /\ SpendRight(s)'
    PROVE  FiguresInv'
<1>1. \A s, kind : Intact(s, kind)
  BY DEF Intact
<1>2. \A q \in RollupRequests \ {r} : Dims(q)
  BY <1>1 DEF Dims
<1>3. Informed(rreq[r])'
  BY QuietInformed
<1>4. ASSUME NEW q \in RollupRequests \ {r}, rreq'[r].firm = rreq[q].firm,
             Figure(rreq'[r].pc) = Figure(rreq[q].pc), Figure(rreq[q].pc) \in Shared
      PROVE  rreq'[q].alone = FALSE /\ rreq'[r].alone = FALSE
  <2>1. rreq'[r] # Quiet
    BY <1>4, QuietInformed DEF Shared
  <2> QED
    BY <1>4, <2>1 DEF FiguresInv, Solitary
<1>5. \A k \in Records : record'[k].kind = "spend" => "firm" \in DOMAIN record'[k]
  BY DEF FiguresInv
<1> QED
  BY <1>2, <1>3, <1>4, <1>5, FiguresStep

\* A figure that r does not go for, or that r leaves missed.
LEMMA NotMine ==
    ASSUME FiguresInv, record' = record, NEW r \in RollupRequests, NEW s \in Firms, NEW f \in Shared,
           \A q \in RollupRequests \ {r} : rreq'[q] = rreq[q],
           \/ rreq[r].firm # s \/ Figure(rreq[r].pc) # f
           \/ rreq'[r].firm = rreq[r].firm /\ Figure(rreq'[r].pc) = Figure(rreq[r].pc)
    PROVE  AtRest(s, f)' => AtRest(s, f)
  BY DEF AtRest, Figure

LEMMA FiguresInvInit == RollupInit => FiguresInv
<1> SUFFICES ASSUME RollupInit PROVE FiguresInv
  OBVIOUS
<1>1. \A r \in RollupRequests : rreq[r] = Quiet /\ rreq[r].pc = "idle" /\ rreq[r].alone = TRUE /\ Figure(rreq[r].pc) = "none"
  BY DEF RollupInit, Quiet, Figure
<1>2. \A k \in Records : record[k].kind = "none"
  BY DEF RollupInit, NoRecord
<1>3. Solitary
  BY <1>1 DEF Solitary, Shared
<1>4. \A r \in RollupRequests : Informed(rreq[r])
  BY <1>1 DEF Informed
<1>5. \A s \in Firms : ScoreRight(s)
  BY <1>2 DEF ScoreRight, Counted, Of
<1>6. ASSUME NEW s \in Firms PROVE SpendRight(s)
  <2>1. Recent(s) = {}
    BY <1>2 DEF Recent, Of
  <2>2. DOMAIN [k \in Recent(s) |-> record[k].amount] = {}
    BY <2>1
  <2>3. Spent(s) = 0
    BY <2>2, SumOfNone DEF Spent, SumFunction
  <2> QED
    BY <2>3 DEF SpendRight, RollupInit
<1> QED
  BY <1>2, <1>3, <1>4, <1>5, <1>6, RollupInvInit DEF FiguresInv

LEMMA FiguresInvNext == FiguresInv /\ [RollupNext]_rollupVars => FiguresInv'
<1> SUFFICES ASSUME FiguresInv, [RollupNext]_rollupVars PROVE FiguresInv'
  OBVIOUS
<1>1. RollupInv /\ RollupInv'
  BY RollupInvNext DEF FiguresInv
<1>2. /\ DOMAIN figures = Firms /\ DOMAIN missed = Firms /\ DOMAIN rreq = RollupRequests /\ DOMAIN record = Records
      /\ \A s \in Firms : DOMAIN figures[s] = {"level", "score", "grade", "spend"}
      /\ \A r \in RollupRequests : DOMAIN rreq[r] = DOMAIN Quiet
  BY <1>1 DEF RollupInv, RollupShapes
<1>3. \A s \in Firms : ScoreRight(s) /\ SpendRight(s)
  BY DEF FiguresInv
<1>4. ASSUME NEW r \in RollupRequests, NEW k \in Records, NEW s \in Firms, NEW severity, CreateRisk(r, k, s, severity)
      PROVE  FiguresInv'
  <2>1. PICK fields : fields = [Quiet EXCEPT !.severity = severity]
    OBVIOUS
  <2>2. DOMAIN fields = DOMAIN Quiet
    BY <2>1, QuietShape
  <2>3. PICK row : row = [kind |-> "risk", firm |-> s, severity |-> severity]
    OBVIOUS
  <2>4. row.firm = s /\ row.kind = "risk" /\ "risk" # "spend"
    BY <2>3
  <2>5. /\ rreq[r].pc = "idle" /\ record' = [record EXCEPT ![k] = row] /\ Goes(r, s, "raise", fields)
        /\ UNCHANGED <<figures, missed>> /\ record[k] = NoRecord
    BY <1>4, <2>1, <2>3 DEF CreateRisk
  <2> QED
    BY <1>1, <2>2, <2>4, <2>5, RowJoins
<1>5. ASSUME NEW r \in RollupRequests, NEW k \in Records, NEW s \in Firms, NEW card \in Scorecards,
             NEW completed \in BOOLEAN, NEW marks, CreateEvaluation(r, k, s, card, marks, completed)
      PROVE  FiguresInv'
  <2>1. PICK fields : fields = [Quiet EXCEPT !.rules = card.rules, !.sum = Total(card, marks)]
    OBVIOUS
  <2>2. DOMAIN fields = DOMAIN Quiet /\ fields.rules = card.rules
    BY <2>1, QuietShape
  <2>3. PICK row : row = [kind |-> "evaluation", firm |-> s, completed |-> completed, total |-> Total(card, marks),
                          grade |-> Grade(card.rules, [points |-> Total(card, marks), rows |-> 1])]
    OBVIOUS
  <2>4. row.firm = s /\ row.kind = "evaluation" /\ "evaluation" # "spend"
    BY <2>3
  <2>5. /\ rreq[r].pc = "idle" /\ record' = [record EXCEPT ![k] = row] /\ Goes(r, s, "average", fields)
        /\ UNCHANGED <<figures, missed>> /\ record[k] = NoRecord
    BY <1>5, <2>1, <2>3 DEF CreateEvaluation
  <2> QED
    BY <1>1, <2>2, <2>4, <2>5, RowJoins
<1>6. ASSUME NEW r \in RollupRequests, NEW k \in Records, NEW s \in Firms, NEW amount, NEW recent,
             CreateSpend(r, k, s, amount, recent)
      PROVE  FiguresInv'
  <2>1. PICK row : row = [kind |-> "spend", firm |-> s, amount |-> amount, recent |-> recent]
    OBVIOUS
  <2>2. row.firm = s /\ row.kind = "spend" /\ "firm" \in DOMAIN row
    BY <2>1
  <2>3. /\ rreq[r].pc = "idle" /\ record' = [record EXCEPT ![k] = row] /\ Goes(r, s, "sum", Quiet)
        /\ UNCHANGED <<figures, missed>> /\ record[k] = NoRecord
    BY <1>6, <2>1 DEF CreateSpend
  <2> QED
    BY <1>1, <2>2, <2>3, RowJoins
<1>7. ASSUME NEW r \in RollupRequests, RaiseLevel(r) PROVE FiguresInv'
  <2>1. /\ rreq[r].pc = "raise" /\ UNCHANGED <<record, missed>> /\ rreq' = [rreq EXCEPT ![r] = Quiet]
    BY <1>7 DEF RaiseLevel, Finish
  <2>2. \A q \in RollupRequests \ {r} : rreq'[q] = rreq[q]
    BY <2>1
  <2>3. rreq'[r] = Quiet /\ Figure(rreq[r].pc) = "level"
    BY <1>2, <2>1 DEF Figure
  <2>4. PICK level : figures' = [figures EXCEPT ![rreq[r].firm].level = level]
    BY <1>7 DEF RaiseLevel
  <2>5. \A s \in Firms : /\ figures'[s].score = figures[s].score /\ figures'[s].grade = figures[s].grade
                         /\ figures'[s].spend = figures[s].spend
    BY <1>2, <2>4
  <2>6. \A s \in Firms, f \in Shared : AtRest(s, f)' => AtRest(s, f)
    BY <2>1, <2>2, <2>3, NotMine DEF Shared
  <2>7. \A s, kind : Intact(s, kind)
    BY <2>1 DEF Intact
  <2>8. \A s \in Firms : ScoreRight(s)' /\ SpendRight(s)'
    BY <2>1, <2>5, <2>6, <2>7, ScoreStays, SpendStays DEF Shared
  <2> QED
    BY <1>1, <2>1, <2>2, <2>3, <2>8, OneWrites
<1>8. ASSUME NEW r \in RollupRequests, ReadAverage(r) \/ ReadSum(r) PROVE FiguresInv'
  <2>1. PICK p, s, own : p = rreq[r] /\ s = p.firm /\ own = p.sum
    OBVIOUS
  <2>2. UNCHANGED <<figures, record, missed>> /\ Informed(p) /\ p.pc \in {"average", "sum"}
    BY <1>8, <2>1 DEF ReadAverage, ReadSum, FiguresInv
  <2>3. Average(s, own)' = Average(s, own) /\ Spent(s)' = Spent(s)
    BY <2>2, ScoreIntact, SpendIntact DEF Intact
  <2>4. \A q \in RollupRequests \ {r} : rreq'[q] = rreq[q]
    BY <1>2, <1>8 DEF ReadAverage, ReadSum
  <2>5. /\ rreq'[r].firm = s /\ Figure(rreq'[r].pc) = Figure(p.pc) /\ rreq'[r].alone = p.alone
        /\ Informed(rreq[r])'
    <3>1. CASE ReadAverage(r)
      <4>1. PICK a : a = Average(s, own)
        OBVIOUS
      <4>2. p.pc = "average" /\ rreq' = [rreq EXCEPT ![r] = [p EXCEPT !.pc = "grade", !.average = a]]
        BY <1>2, <2>1, <3>1, <4>1 DEF ReadAverage
      <4>3. /\ rreq'[r].pc = "grade" /\ rreq'[r].average = a /\ rreq'[r].firm = s /\ rreq'[r].sum = own
            /\ rreq'[r].rules = p.rules /\ rreq'[r].alone = p.alone
        BY <1>2, <2>1, <4>2, QuietShape
      <4>4. (rreq[r].average = Average(rreq[r].firm, rreq[r].sum))'
        BY <2>3, <4>1, <4>3
      <4>5. Informed(rreq[r])'
        BY <2>1, <2>2, <4>2, <4>3, <4>4 DEF Informed
      <4> QED
        BY <4>2, <4>3, <4>5 DEF Figure
    <3>2. CASE ReadSum(r)
      <4>1. PICK n : n = Spent(s)
        OBVIOUS
      <4>2. p.pc = "sum" /\ rreq' = [rreq EXCEPT ![r] = [p EXCEPT !.pc = "spend", !.sum = n]]
        BY <1>2, <2>1, <3>2, <4>1 DEF ReadSum
      <4>3. rreq'[r].pc = "spend" /\ rreq'[r].firm = s /\ rreq'[r].sum = n /\ rreq'[r].alone = p.alone
        BY <1>2, <2>1, <4>2, QuietShape
      <4>4. (rreq[r].sum = Spent(rreq[r].firm))'
        BY <2>3, <4>1, <4>3
      <4>5. Informed(rreq[r])'
        BY <2>1, <2>2, <4>2, <4>3, <4>4 DEF Informed
      <4> QED
        BY <4>2, <4>3, <4>5 DEF Figure
    <3> QED
      BY <1>8, <3>1, <3>2
  <2>6. \A z \in Firms, f \in Shared : AtRest(z, f)' => AtRest(z, f)
    BY <2>1, <2>2, <2>4, <2>5, NotMine
  <2>7. \A z, kind : Intact(z, kind)
    BY <2>2 DEF Intact
  <2>8. \A z \in Firms : ScoreRight(z)' /\ SpendRight(z)'
    BY <2>2, <2>6, <2>7, ScoreStays, SpendStays DEF Shared
  <2> QED
    BY <1>1, <2>1, <2>2, <2>4, <2>5, <2>8, OneWrites
<1>9. ASSUME NEW r \in RollupRequests, WriteScore(r) PROVE FiguresInv'
  <2>1. PICK p, s : p = rreq[r] /\ s = p.firm
    OBVIOUS
  <2>2. /\ p.pc = "grade" /\ record' = record /\ rreq' = [rreq EXCEPT ![r] = Quiet]
        /\ missed' = [missed EXCEPT ![s] = IF p.alone THEN missed[s] \ {"score"} ELSE missed[s] \cup {"score"}]
    BY <1>9, <2>1 DEF WriteScore, Finish, CaughtUp
  <2>3. s \in Firms /\ p.alone \in BOOLEAN /\ (\E card \in Scorecards : p.rules = card.rules)
        /\ (p.alone = TRUE => p.average = Average(s, p.sum))
    BY <2>1, <2>2 DEF FiguresInv, Informed
  <2>4. PICK grade : grade = Grade(p.rules, p.average)
    OBVIOUS
  <2>5. figures' = [figures EXCEPT ![s].score = Rounded(p.average), ![s].grade = grade]
    BY <1>9, <2>1, <2>4 DEF WriteScore
  <2>6. /\ figures'[s].score = Rounded(p.average) /\ figures'[s].grade = grade
        /\ \A z \in Firms : figures'[z].spend = figures[z].spend
        /\ \A z \in Firms \ {s} : figures'[z] = figures[z]
    BY <1>2, <2>3, <2>5
  <2>7. /\ \A z \in Firms \ {s} : missed'[z] = missed[z]
        /\ \A z \in Firms : "spend" \in missed[z] => "spend" \in missed'[z]
        /\ "score" \notin missed'[s] => p.alone = TRUE
    BY <1>2, <2>2, <2>3
  <2>8. rreq'[r] = Quiet /\ \A q \in RollupRequests \ {r} : rreq'[q] = rreq[q]
    BY <1>2, <2>2
  <2>9. \A z, kind : Intact(z, kind)
    BY <2>2 DEF Intact
  <2>10. Figure(rreq[r].pc) = "score"
    BY <2>1, <2>2 DEF Figure
  <2>11. \A z \in Firms : AtRest(z, "spend")' => AtRest(z, "spend")
    BY <2>2, <2>8, <2>10, NotMine DEF Shared
  <2>12. \A z \in Firms \ {s} : AtRest(z, "score")' => AtRest(z, "score")
    BY <2>1, <2>2, <2>8, <2>10, NotMine DEF Shared
  <2>13. \A z \in Firms : SpendRight(z)'
    BY <2>6, <2>7, <2>9, <2>11, SpendStays
  <2>14. \A z \in Firms \ {s} : ScoreRight(z)'
    BY <2>6, <2>7, <2>9, <2>12, ScoreStays
  <2>15. ScoreRight(s)'
    <3> SUFFICES ASSUME "score" \notin missed'[s], Counted(s)' # {}
                 PROVE  /\ figures'[s].score = Rounded(Mean(s)')
                        /\ \E card \in Scorecards : figures'[s].grade = Grade(card.rules, Mean(s)')
      BY DEF ScoreRight, Grade, Rounded
    <3>1. p.average = Average(s, p.sum)
      BY <2>3, <2>7
    <3>2. Counted(s)' = Counted(s) /\ Mean(s)' = Mean(s)
      BY <2>9, ScoreIntact DEF Mean
    <3>3. p.average = Mean(s)
      BY <3>1, <3>2 DEF Average, Mean
    <3> QED
      BY <2>3, <2>4, <2>6, <3>2, <3>3
  <2> QED
    BY <1>1, <2>2, <2>8, <2>13, <2>14, <2>15, OneWrites
<1>10. ASSUME NEW r \in RollupRequests, WriteSpend(r) PROVE FiguresInv'
  <2>1. PICK p, s : p = rreq[r] /\ s = p.firm
    OBVIOUS
  <2>2. /\ p.pc = "spend" /\ record' = record /\ rreq' = [rreq EXCEPT ![r] = Quiet]
        /\ missed' = [missed EXCEPT ![s] = IF p.alone THEN missed[s] \ {"spend"} ELSE missed[s] \cup {"spend"}]
        /\ figures' = [figures EXCEPT ![s].spend = p.sum]
    BY <1>10, <2>1 DEF WriteSpend, Finish, CaughtUp
  <2>3. s \in Firms /\ p.alone \in BOOLEAN /\ (p.alone = TRUE => p.sum = Spent(s))
    BY <2>1, <2>2 DEF FiguresInv, Informed
  <2>6. /\ figures'[s].spend = p.sum
        /\ \A z \in Firms : figures'[z].score = figures[z].score /\ figures'[z].grade = figures[z].grade
        /\ \A z \in Firms \ {s} : figures'[z] = figures[z]
    BY <1>2, <2>2, <2>3
  <2>7. /\ \A z \in Firms \ {s} : missed'[z] = missed[z]
        /\ \A z \in Firms : "score" \in missed[z] => "score" \in missed'[z]
        /\ "spend" \notin missed'[s] => p.alone = TRUE
    BY <1>2, <2>2, <2>3
  <2>8. rreq'[r] = Quiet /\ \A q \in RollupRequests \ {r} : rreq'[q] = rreq[q]
    BY <1>2, <2>2
  <2>9. \A z, kind : Intact(z, kind)
    BY <2>2 DEF Intact
  <2>10. Figure(rreq[r].pc) = "spend"
    BY <2>1, <2>2 DEF Figure
  <2>11. \A z \in Firms : AtRest(z, "score")' => AtRest(z, "score")
    BY <2>2, <2>8, <2>10, NotMine DEF Shared
  <2>12. \A z \in Firms \ {s} : AtRest(z, "spend")' => AtRest(z, "spend")
    BY <2>1, <2>2, <2>8, <2>10, NotMine DEF Shared
  <2>13. \A z \in Firms : ScoreRight(z)'
    BY <2>6, <2>7, <2>9, <2>11, ScoreStays
  <2>14. \A z \in Firms \ {s} : SpendRight(z)'
    BY <2>6, <2>7, <2>9, <2>12, SpendStays
  <2>15. SpendRight(s)'
    <3>1. Spent(s)' = Spent(s)
      BY <2>9, SpendIntact
    <3> QED
      BY <2>3, <2>6, <2>7, <3>1 DEF SpendRight
  <2> QED
    BY <1>1, <2>2, <2>8, <2>13, <2>14, <2>15, OneWrites
<1>11. ASSUME NEW r \in RollupRequests, RollupLost(r) PROVE FiguresInv'
  <2>1. PICK p, s, f : p = rreq[r] /\ s = p.firm /\ f = Figure(p.pc)
    OBVIOUS
  <2>2. /\ UNCHANGED <<figures, record>> /\ rreq' = [rreq EXCEPT ![r] = Quiet]
        /\ missed' = [missed EXCEPT ![s] = missed[s] \cup {f}]
    BY <1>11, <2>1 DEF RollupLost, Overtaken, Finish
  <2>3. rreq'[r] = Quiet /\ \A q \in RollupRequests \ {r} : rreq'[q] = rreq[q]
    BY <1>2, <2>2
  <2>4. \A z \in Firms : missed[z] \subseteq missed'[z] /\ (z = s => f \in missed'[z])
    BY <1>2, <2>2
  <2>5. \A z \in Firms, g \in Shared : AtRest(z, g)' /\ g \notin missed'[z] => AtRest(z, g)
    BY <2>1, <2>2, <2>3, <2>4, NotMine
  <2>6. \A z, kind : Intact(z, kind)
    BY <2>2 DEF Intact
  <2>7. \A z \in Firms : ScoreRight(z)' /\ SpendRight(z)'
    BY <2>2, <2>4, <2>5, <2>6, ScoreStays, SpendStays DEF Shared
  <2> QED
    BY <1>1, <2>2, <2>3, <2>7, OneWrites
<1>12. ASSUME NEW s \in Firms, NEW severity, NEW amount, CorrectByHand(s, severity, amount) PROVE FiguresInv'
  <2>1. /\ UNCHANGED <<record, rreq>>
        /\ missed' = [missed EXCEPT ![s] = {"level", "score", "spend"}]
    BY <1>12 DEF CorrectByHand
  <2>2. \A z \in Firms \ {s} : figures'[z] = figures[z] /\ missed'[z] = missed[z]
    BY <1>2, <1>12, <2>1 DEF CorrectByHand
  <2>3. "score" \in missed'[s] /\ "spend" \in missed'[s]
    BY <1>2, <2>1
  <2>4. \A z, kind : Intact(z, kind)
    BY <2>1 DEF Intact
  <2>5. \A z \in Firms, f \in Shared : AtRest(z, f)' => AtRest(z, f)
    BY <2>1 DEF AtRest
  <2>6. \A z \in Firms \ {s} : ScoreRight(z)' /\ SpendRight(z)'
    BY <2>2, <2>4, <2>5, ScoreStays, SpendStays DEF Shared
  <2>7. ScoreRight(s)' /\ SpendRight(s)'
    BY <2>3 DEF ScoreRight, SpendRight
  <2>8. Solitary' /\ \A r \in RollupRequests : Dims(r)
    BY <2>1, <2>4 DEF Solitary, Figure, Dims, FiguresInv
  <2>9. \A r \in RollupRequests : Informed(rreq[r])'
    BY <2>8, OthersDim
  <2> QED
    BY <1>1, <2>1, <2>6, <2>7, <2>8, <2>9 DEF FiguresInv
<1>13. ASSUME NEW k \in Records, SpendAges(k) PROVE FiguresInv'
  <2>1. PICK s : s = record[k].firm
    OBVIOUS
  <2>2. /\ record[k].kind = "spend" /\ figures' = figures
        /\ record' = [record EXCEPT ![k] = [record[k] EXCEPT !.recent = FALSE]]
        /\ missed' = [missed EXCEPT ![s] = missed[s] \cup {"spend"}]
    BY <1>2, <1>13, <2>1 DEF SpendAges, Overtaken
  <2>3. /\ rreq' = [q \in RollupRequests |->
                      IF rreq[q].firm = s /\ Figure(rreq[q].pc) = "spend" THEN [rreq[q] EXCEPT !.alone = FALSE] ELSE rreq[q]]
    BY <1>13, <2>1 DEF SpendAges
  <2>4. /\ \A o \in Records \ {k} : record'[o] = record[o]
        /\ "kind" \in DOMAIN record[k] /\ "firm" \in DOMAIN record[k]
        /\ record'[k].kind = "spend" /\ record'[k].firm = s /\ "firm" \in DOMAIN record'[k]
    BY <1>1, <1>2, <2>1, <2>2 DEF FiguresInv, RollupInv, RollupShapes
  <2>5. \A z : Intact(z, "evaluation") /\ (z # s => Intact(z, "spend"))
    BY <2>1, <2>2, <2>4 DEF Intact, RowOf
  <2>6. ASSUME NEW q \in RollupRequests
        PROVE  /\ rreq'[q].pc = rreq[q].pc /\ rreq'[q].firm = rreq[q].firm
               /\ rreq[q].firm = s /\ rreq[q].pc = "spend" => rreq'[q].alone = FALSE
               /\ rreq'[q] = rreq[q] \/ rreq'[q] = [rreq[q] EXCEPT !.alone = FALSE]
    <3>1. CASE rreq[q].firm = s /\ Figure(rreq[q].pc) = "spend"
      BY <1>2, <2>3, <3>1, QuietShape
    <3>2. CASE ~(rreq[q].firm = s /\ Figure(rreq[q].pc) = "spend")
      BY <2>3, <3>2 DEF Figure
    <3> QED
      BY <3>1, <3>2
  <2>7. \A q \in RollupRequests : Dims(q)
    BY <2>5, <2>6 DEF Dims
  <2>8. \A q \in RollupRequests : (rreq[q].alone = FALSE => rreq'[q].alone = FALSE) /\ Informed(rreq[q])'
    BY <2>7, OthersDim
  <2>9. Solitary'
    <3> SUFFICES ASSUME NEW p \in RollupRequests, NEW q \in RollupRequests, p # q, rreq'[p].firm = rreq'[q].firm,
                        Figure(rreq'[p].pc) = Figure(rreq'[q].pc), Figure(rreq'[p].pc) \in Shared
                 PROVE  rreq'[p].alone = FALSE
      BY DEF Solitary, Figure
    <3>1. rreq[p].firm = rreq[q].firm /\ Figure(rreq[p].pc) = Figure(rreq[q].pc) /\ Figure(rreq[p].pc) \in Shared
      BY <2>6
    <3>2. rreq[p].alone = FALSE
      BY <3>1 DEF Solitary, FiguresInv
    <3> QED
      BY <2>8, <3>2
  <2>10. \A z \in Firms, f \in Shared : AtRest(z, f)' => AtRest(z, f)
    BY <2>6 DEF AtRest, Figure
  <2>11. \A z \in Firms : missed[z] \subseteq missed'[z] /\ (z = s => "spend" \in missed'[z])
    BY <1>2, <2>2
  <2>12. \A z \in Firms : ScoreRight(z)' /\ SpendRight(z)'
    BY <2>2, <2>5, <2>10, <2>11, ScoreStays, SpendStays DEF Shared
  <2>13. \A o \in Records : record'[o].kind = "spend" => "firm" \in DOMAIN record'[o]
    BY <2>4 DEF FiguresInv
  <2> QED
    BY <1>1, <2>8, <2>9, <2>12, <2>13 DEF FiguresInv
<1>14. CASE UNCHANGED rollupVars
  <2>1. UNCHANGED <<figures, record, rreq, missed>>
    BY <1>14 DEF rollupVars
  <2>2. \A z, kind : Intact(z, kind)
    BY <2>1 DEF Intact
  <2>3. Solitary' /\ \A r \in RollupRequests : Dims(r)
    BY <2>1, <2>2 DEF Solitary, Figure, Dims, FiguresInv
  <2>4. \A z \in Firms : ScoreRight(z)' /\ SpendRight(z)'
    BY <2>1, <2>2, ScoreStays, SpendStays DEF AtRest, Figure
  <2>5. \A r \in RollupRequests : Informed(rreq[r])'
    BY <2>3, OthersDim
  <2> QED
    BY <1>1, <2>1, <2>3, <2>4, <2>5 DEF FiguresInv
<1> QED
  BY <1>4, <1>5, <1>6, <1>7, <1>8, <1>9, <1>10, <1>11, <1>12, <1>13, <1>14 DEF RollupNext, RollupStep

\* A figure at rest that nothing overtook is the one the records give, whatever was lost,
\* raced or written by hand before (createEvaluation, createSpendTransaction).
THEOREM FiguresAreRecomputed == RollupSpec => []RecomputedExactly
<1>1. FiguresInv => RecomputedExactly
  <2> SUFFICES ASSUME FiguresInv, NEW s \in Firms
               PROVE  /\ AtRest(s, "score") /\ "score" \notin missed[s] /\ (\E k \in Of(s, "evaluation") : record[k].completed) =>
                           LET done == {k \in Of(s, "evaluation") : record[k].completed}
                               average == [points |-> SumFunction([k \in done |-> record[k].total]), rows |-> Cardinality(done)] IN
                           /\ figures[s].score = Rounded(average)
                           /\ \E card \in Scorecards : figures[s].grade = Grade(card.rules, average)
                      /\ AtRest(s, "spend") /\ "spend" \notin missed[s] =>
                           figures[s].spend =
                             SumFunction([k \in {x \in Of(s, "spend") : record[x].recent} |-> record[k].amount])
    BY DEF RecomputedExactly
  <2>1. ScoreRight(s) /\ SpendRight(s)
    BY DEF FiguresInv
  <2>2. Counted(s) = {k \in Of(s, "evaluation") : record[k].completed}
    BY DEF Counted
  <2>3. (\E k \in Of(s, "evaluation") : record[k].completed) => Counted(s) # {}
    BY DEF Counted
  <2>4. Mean(s) = [points |-> SumFunction([k \in {x \in Of(s, "evaluation") : record[x].completed} |-> record[k].total]),
                   rows |-> Cardinality({k \in Of(s, "evaluation") : record[k].completed})]
    BY <2>2 DEF Mean
  <2>5. Spent(s) = SumFunction([k \in {x \in Of(s, "spend") : record[x].recent} |-> record[k].amount])
    BY DEF Spent, Recent
  <2> QED
    BY <2>1, <2>2, <2>3, <2>4, <2>5 DEF ScoreRight, SpendRight
<1> QED
  BY <1>1, FiguresInvInit, FiguresInvNext, PTL DEF RollupSpec

-----------------------------------------------------------------------------
(***************************************************************************)
(* Screening: a verdict on file is the one its own row gives.              *)
(***************************************************************************)
\* A passing score is made of the positive items that were scored, each of at most 100.
LEMMA PointsAreEarned ==
    ASSUME NEW t \in TemplateRows, NEW responses, \A i \in DOMAIN t.weight : responses[i] \in Int \cup {NoValue}
    PROVE  LET scored == {i \in DOMAIN t.weight : responses[i] \notin {NoValue, 0} /\ t.weight[i] > 0}
           IN  Points(t, responses) <= SumFunction([i \in scored |-> 100 * t.weight[i]])
<1> DEFINE W == DOMAIN t.weight
           scored == {i \in W : responses[i] \notin {NoValue, 0} /\ t.weight[i] > 0}
           got == [i \in W |-> Clamped(responses[i]) * t.weight[i]]
           most == [i \in W |-> IF i \in scored THEN 100 * t.weight[i] ELSE 0]
           full == [i \in scored |-> 100 * t.weight[i]]
<1>1. IsFiniteSet(W) /\ scored \in SUBSET W /\ \A i \in W : t.weight[i] \in Int
  BY ScreeningAssumption, FS_Subset
<1>2. ASSUME NEW i \in W PROVE got[i] \in Int /\ most[i] \in Nat /\ got[i] <= most[i]
  <2>1. PICK c, w : c = Clamped(responses[i]) /\ w = t.weight[i]
    OBVIOUS
  <2>2. w \in Int /\ c \in 0 .. 100 /\ (responses[i] \in {NoValue, 0} => c = 0)
    BY <1>1, <2>1 DEF Clamped
  <2>3. got[i] = c * w /\ most[i] = IF i \in scored THEN 100 * w ELSE 0
    BY <2>1
  <2>4. CASE i \in scored
    <3>1. w > 0 /\ most[i] = 100 * w
      BY <2>1, <2>3, <2>4
    <3>2. c * w \in Int /\ 100 * w \in Nat /\ c * w <= 100 * w
      BY <2>2, <3>1
    <3> QED
      BY <2>3, <3>1, <3>2
  <2>5. CASE i \notin scored
    <3>1. c = 0 \/ w <= 0
      BY <2>1, <2>2, <2>5
    <3>2. c * w \in Int /\ c * w <= 0
      BY <2>2, <3>1
    <3> QED
      BY <2>3, <2>5, <3>2
  <2> QED
    BY <2>4, <2>5
<1>3. SumFunctionOnSet(got, W) <= SumFunctionOnSet(most, W)
  <2>1. \A i \in W : got[i] \in Int /\ most[i] \in Int /\ got[i] <= most[i]
    BY <1>2
  <2> HIDE DEF got, most, W
  <2> QED
    BY <1>1, <2>1, SumMonotone
<1>4. SumFunctionOnSet(most, W) = SumFunctionOnSet(most, scored)
  <2>1. (\A i \in W : most[i] \in Nat) /\ \A i \in W \ scored : most[i] = 0
    BY <1>2
  <2> HIDE DEF most, W, scored
  <2> QED
    BY <1>1, <2>1, SumOfPart
<1>5. SumFunctionOnSet(most, scored) = SumFunctionOnSet(full, scored)
  <2>1. IsFiniteSet(scored) /\ \A i \in scored : most[i] = full[i]
    BY <1>1, FS_Subset
  <2> HIDE DEF most, full, scored
  <2> QED
    BY <2>1, SumAgrees
<1>6. Points(t, responses) = SumFunctionOnSet(got, W) /\ SumFunction(full) = SumFunctionOnSet(full, scored)
  BY DEF Points, SumFunction
<1> HIDE DEF got, most, full
<1>7. SumFunctionOnSet(got, W) <= SumFunction(full)
  BY <1>3, <1>4, <1>5, <1>6
<1> QED
  BY <1>6, <1>7 DEF full

LEMMA PointsAreInt ==
    ASSUME NEW t \in TemplateRows, NEW responses, \A i \in DOMAIN t.weight : responses[i] \in Int \cup {NoValue}
    PROVE  Points(t, responses) \in Int
<1> DEFINE W == DOMAIN t.weight
           got == [i \in W |-> Clamped(responses[i]) * t.weight[i]]
<1>1. IsFiniteSet(W) /\ \A i \in W : t.weight[i] \in Int
  BY ScreeningAssumption, FS_Subset
<1>2. \A i \in W : Clamped(responses[i]) \in Int
  BY DEF Clamped
<1>3. \A i \in W : got[i] \in Int
  BY <1>1, <1>2
<1>4. Points(t, responses) = SumFunctionOnSet(got, W)
  BY DEF Points, SumFunction
<1> HIDE DEF got, W
<1> QED
  BY <1>1, <1>3, <1>4, SumIsInt

\* What a verdict on file says of its row.
Earned(row) ==
    row.result \in Passing \cup {"REJECT"} =>
        /\ row.status = "completed"
        /\ row.template \in TemplateRows
        /\ Decides(row.template)
        /\ row.responses \in [Items -> ScoreInputs]
        /\ row.result \in Passing /\ row.template.failure \notin Passing =>
             /\ ~Unanswered(row.template, row.responses)
             /\ Points(row.template, row.responses) >= row.template.conditional

\* A save has seen at least the gaps in the answers it was sent.
Saving(q) ==
    q.pc = "papers" =>
        /\ q.id \in Screenings
        /\ screening[q.id].status # "none"
        /\ q.responses \in [Items -> ScoreInputs]
        /\ q.missing \in BOOLEAN
        /\ q.missing = FALSE => ~Unanswered(screening[q.id].template, q.responses)

ScreeningInv ==
    /\ DOMAIN screening = Screenings /\ DOMAIN creq = ScreeningRequests
    /\ \A x \in Screenings : DOMAIN screening[x] = DOMAIN NoScreening
    /\ \A r \in ScreeningRequests : DOMAIN creq[r] = DOMAIN NoSave
    /\ template \subseteq TemplateRows
    /\ \A x \in Screenings : screening[x].status # "none" => screening[x].template \in TemplateRows
    /\ \A x \in Screenings : Earned(screening[x])
    /\ \A r \in ScreeningRequests : Saving(creq[r])

LEMMA ScreeningShapes ==
    /\ DOMAIN NoScreening = {"supplier", "template", "status", "result", "responses"}
    /\ DOMAIN NoSave = {"pc", "id", "responses", "complete", "unread", "missing"}
    /\ NoScreening.status = "none" /\ NoScreening.result = "none" /\ NoSave.pc = "idle"
  BY DEF NoScreening, NoSave

\* The verdict of a save that saw every gap is earned.
LEMMA VerdictIsEarned ==
    ASSUME NEW t \in TemplateRows, NEW responses \in [Items -> ScoreInputs], NEW missing \in BOOLEAN,
           missing = FALSE => ~Unanswered(t, responses),
           NEW verdict, verdict = Decide(t, Points(t, responses), missing), verdict \in Passing \cup {"REJECT"}
    PROVE  /\ Decides(t)
           /\ verdict \in Passing /\ t.failure \notin Passing =>
                ~Unanswered(t, responses) /\ Points(t, responses) >= t.conditional
<1>1. Points(t, responses) \in Int /\ t.pass \in Int /\ t.conditional \in Int
  BY ScreeningAssumption, PointsAreInt
<1>2. Decides(t)
  BY DEF Decide, Passing
<1>3. ASSUME verdict \in Passing, t.failure \notin Passing
      PROVE  ~Unanswered(t, responses) /\ Points(t, responses) >= t.conditional
  <2>1. missing = FALSE
    <3> SUFFICES ASSUME missing = TRUE PROVE FALSE
      OBVIOUS
    <3>1. verdict = IF t.failure = "" THEN "REVIEW_REQUIRED" ELSE t.failure
      BY <1>2 DEF Decide
    <3> QED
      BY <1>3, <3>1 DEF Passing
  <2>2. Points(t, responses) >= t.pass \/ Points(t, responses) >= t.conditional
    BY <1>2, <1>3, <2>1 DEF Decide, Passing
  <2>3. t.pass >= t.conditional
    BY <1>2 DEF Decides
  <2> QED
    BY <1>1, <2>1, <2>2, <2>3
<1> QED
  BY <1>2, <1>3

LEMMA ScreeningInvInit == ScreeningInit => ScreeningInv
  BY ScreeningAssumption, ScreeningShapes DEF ScreeningInit, ScreeningInv, Earned, Saving, Passing

LEMMA ScreeningInvNext == ScreeningInv /\ [ScreeningNext]_allVars => ScreeningInv'
<1> SUFFICES ASSUME ScreeningInv, [ScreeningNext]_allVars PROVE ScreeningInv'
  OBVIOUS
<1>1. ASSUME UNCHANGED <<screening, creq>>, template' \subseteq TemplateRows PROVE ScreeningInv'
  BY <1>1 DEF ScreeningInv, Earned, Saving, Unanswered, Points, Decides
<1>2. ASSUME UNCHANGED screeningVars PROVE ScreeningInv'
  BY <1>1, <1>2 DEF ScreeningInv, screeningVars
<1>3. ASSUME NEW t \in TemplateRows, CreateTemplate(t) PROVE ScreeningInv'
  BY <1>1, <1>3 DEF CreateTemplate, ScreeningInv
<1>4. ASSUME NEW s \in Companies, NEW d \in Papers, PaperTurns(s, d) PROVE ScreeningInv'
  BY <1>1, <1>4 DEF PaperTurns, ScreeningInv
\* Another save goes on, or a row that no save has read begins.
<1>5. ASSUME NEW x \in Screenings, NEW s \in Companies, NEW t \in TemplateRows, StartScreening(x, s, t)
      PROVE  ScreeningInv'
  <2>1. /\ screening[x].status = "none" /\ t \in template
        /\ screening' = [screening EXCEPT ![x] = [NoScreening EXCEPT !.supplier = s, !.template = t, !.status = "draft"]]
        /\ template' = template /\ creq' = creq
    BY <1>5 DEF StartScreening
  <2>2. \A y \in Screenings \ {x} : screening'[y] = screening[y]
    BY <2>1 DEF ScreeningInv
  <2>3. /\ DOMAIN screening'[x] = DOMAIN NoScreening /\ screening'[x].template = t
        /\ screening'[x].status = "draft" /\ screening'[x].result = "none"
    BY <2>1, ScreeningShapes DEF ScreeningInv
  <2>4. \A y \in Screenings : Earned(screening[y])'
    BY <2>2, <2>3 DEF ScreeningInv, Earned, Passing, Unanswered, Points, Decides
  <2>5. \A r \in ScreeningRequests : Saving(creq[r])'
    BY <2>1, <2>2 DEF ScreeningInv, Saving, Unanswered
  <2> QED
    BY <2>1, <2>2, <2>3, <2>4, <2>5 DEF ScreeningInv
\* Only creq changes, in one slot.
<1>6. ASSUME NEW r \in ScreeningRequests, UNCHANGED <<screening, template>>, NEW q, creq' = [creq EXCEPT ![r] = q],
             DOMAIN q = DOMAIN NoSave, Saving(q)
      PROVE  ScreeningInv'
  <2>1. creq'[r] = q /\ \A o \in ScreeningRequests \ {r} : creq'[o] = creq[o]
    BY <1>6 DEF ScreeningInv
  <2>2. \A o \in ScreeningRequests : Saving(creq[o])'
    BY <1>6, <2>1 DEF ScreeningInv, Saving, Unanswered
  <2>3. \A y \in Screenings : Earned(screening[y])'
    BY <1>6 DEF ScreeningInv, Earned, Unanswered, Points, Decides
  <2> QED
    BY <1>6, <2>1, <2>2, <2>3 DEF ScreeningInv
<1>7. ASSUME NEW r \in ScreeningRequests, NEW x \in Screenings, NEW responses \in [Items -> ScoreInputs],
             NEW complete \in BOOLEAN, SaveScreening(r, x, responses, complete)
      PROVE  ScreeningInv'
  <2> DEFINE q == [pc |-> "papers", id |-> x, responses |-> responses, complete |-> complete,
                   unread |-> screening[x].template.papers, missing |-> Unanswered(screening[x].template, responses)]
  <2>1. UNCHANGED <<screening, template>> /\ creq' = [creq EXCEPT ![r] = q] /\ screening[x].status # "none"
    BY <1>7 DEF SaveScreening
  <2>2. DOMAIN q = DOMAIN NoSave
    BY ScreeningShapes
  <2>3. Unanswered(screening[x].template, responses) \in BOOLEAN
    BY DEF Unanswered
  <2>4. Saving(q)
    BY <2>1, <2>3 DEF Saving
  <2> HIDE DEF q
  <2> QED
    BY <1>6, <2>1, <2>2, <2>4
<1>8. ASSUME NEW r \in ScreeningRequests, NEW d \in Papers, NEW answered \in BOOLEAN, LookForPaper(r, d, answered)
      PROVE  ScreeningInv'
  <2>1. PICK sees : sees = (answered /\ d \in paper[screening[creq[r].id].supplier])
    OBVIOUS
  <2> DEFINE q == [creq[r] EXCEPT !.unread = @ \ {d}, !.missing = @ \/ ~sees]
  <2>2. UNCHANGED <<screening, template>> /\ creq[r].pc = "papers" /\ DOMAIN creq[r] = DOMAIN NoSave /\ Saving(creq[r])
    BY <1>8 DEF LookForPaper, ScreeningInv
  <2>3. creq' = [creq EXCEPT ![r] = q]
    BY <1>8, <2>1 DEF LookForPaper, ScreeningInv
  <2>4. /\ DOMAIN q = DOMAIN NoSave /\ q.pc = "papers" /\ q.id = creq[r].id /\ q.responses = creq[r].responses
        /\ q.missing = (creq[r].missing \/ ~sees)
    BY <2>2, ScreeningShapes
  <2>5. q.missing \in BOOLEAN /\ (q.missing = FALSE => creq[r].missing = FALSE)
    BY <2>2, <2>4 DEF Saving
  <2> HIDE DEF q
  <2>6. Saving(q)
    BY <2>2, <2>4, <2>5 DEF Saving
  <2> QED
    BY <1>6, <2>2, <2>3, <2>4, <2>6
<1>9. ASSUME NEW r \in ScreeningRequests, SaveFails(r) PROVE ScreeningInv'
  <2>1. UNCHANGED <<screening, template>> /\ creq' = [creq EXCEPT ![r] = NoSave]
    BY <1>9 DEF SaveFails
  <2>2. Saving(NoSave)
    BY ScreeningShapes DEF Saving
  <2> QED
    BY <1>6, <2>1, <2>2
<1>10. ASSUME NEW r \in ScreeningRequests, CommitScreening(r) PROVE ScreeningInv'
  <2>1. PICK q, k, x : q = creq[r] /\ k = q.id /\ x = screening[k]
    OBVIOUS
  <2>2. q.pc = "papers" /\ Saving(q)
    BY <1>10, <2>1 DEF CommitScreening, ScreeningInv
  <2>3. /\ k \in Screenings /\ x.status # "none" /\ x.template \in TemplateRows /\ q.responses \in [Items -> ScoreInputs]
        /\ q.missing \in BOOLEAN /\ (q.missing = FALSE => ~Unanswered(x.template, q.responses))
        /\ DOMAIN x = DOMAIN NoScreening
    BY <2>1, <2>2 DEF Saving, ScreeningInv
  <2> DEFINE row == [x EXCEPT !.responses = q.responses, !.result = Verdict(q, x),
                              !.status = IF q.complete THEN "completed" ELSE "in_progress"]
  <2>4. screening' = [screening EXCEPT ![k] = row] /\ template' = template /\ creq' = [creq EXCEPT ![r] = NoSave]
    BY <1>10, <2>1 DEF CommitScreening
  <2>5. /\ DOMAIN row = DOMAIN NoScreening /\ row.responses = q.responses /\ row.result = Verdict(q, x)
        /\ row.status = (IF q.complete THEN "completed" ELSE "in_progress") /\ row.template = x.template
    BY <2>3, ScreeningShapes
  <2> HIDE DEF row
  <2>6. Earned(row)
    <3> SUFFICES ASSUME row.result \in Passing \cup {"REJECT"} PROVE Earned(row)
      BY DEF Earned
    <3>1. q.complete
      BY <2>5 DEF Verdict, Passing
    <3>2. row.result = Decide(x.template, Points(x.template, q.responses), q.missing) /\ row.status = "completed"
      BY <2>5, <3>1 DEF Verdict
    <3>3. PICK t, responses, missing, verdict :
             t = x.template /\ responses = q.responses /\ missing = q.missing /\ verdict = row.result
      OBVIOUS
    <3>4. /\ Decides(t)
          /\ verdict \in Passing /\ t.failure \notin Passing =>
               ~Unanswered(t, responses) /\ Points(t, responses) >= t.conditional
      <4>1. t \in TemplateRows /\ responses \in [Items -> ScoreInputs] /\ missing \in BOOLEAN
        BY <2>3, <3>3
      <4>2. (missing = FALSE => ~Unanswered(t, responses)) /\ verdict = Decide(t, Points(t, responses), missing)
        BY <2>3, <3>2, <3>3
      <4>3. verdict \in Passing \cup {"REJECT"}
        BY <3>3
      <4> QED
        BY <4>1, <4>2, <4>3, VerdictIsEarned
    <3> QED
      BY <2>3, <2>5, <3>2, <3>3, <3>4 DEF Earned
  <2>7. screening'[k] = row /\ \A y \in Screenings \ {k} : screening'[y] = screening[y]
    BY <2>3, <2>4 DEF ScreeningInv
  <2>8. \A y \in Screenings : screening'[y].template = screening[y].template /\ (screening[y].status # "none" => screening'[y].status # "none")
    BY <2>1, <2>5, <2>7
  <2>9. \A y \in Screenings : Earned(screening[y])'
    <3>1. ASSUME NEW y \in Screenings PROVE Earned(screening'[y])
      BY <2>6, <2>7 DEF ScreeningInv
    <3> QED
      BY <3>1 DEF Earned, Unanswered, Points, Decides
  <2>10. creq'[r] = NoSave /\ \A o \in ScreeningRequests \ {r} : creq'[o] = creq[o]
    BY <2>4 DEF ScreeningInv
  <2>11. \A o \in ScreeningRequests : Saving(creq[o])'
    BY <2>8, <2>10, ScreeningShapes DEF ScreeningInv, Saving, Unanswered
  <2>12. \A y \in Screenings : screening'[y].status # "none" => screening'[y].template \in TemplateRows
    BY <2>1, <2>3, <2>7, <2>8 DEF ScreeningInv
  <2>13. \A y \in Screenings : DOMAIN screening'[y] = DOMAIN NoScreening
    BY <2>5, <2>7 DEF ScreeningInv
  <2> QED
    BY <2>4, <2>9, <2>10, <2>11, <2>12, <2>13 DEF ScreeningInv
<1>11. CASE ScreeningStep
  BY <1>3, <1>4, <1>5, <1>7, <1>8, <1>9, <1>10, <1>11 DEF ScreeningStep, SaveStep
<1>12. CASE RegisterNext /\ UNCHANGED screeningVars
  BY <1>2, <1>12
<1>13. CASE UNCHANGED allVars
  BY <1>2, <1>13 DEF allVars
<1> QED
  BY <1>11, <1>12, <1>13 DEF ScreeningNext

\* A verdict on file was earned by what its row holds: a template that cannot decide
\* never passes or rejects anyone, and a company that passes answered every required
\* item and scored on items that are together worth the threshold (calculateScreening,
\* decide, updateScreening).
THEOREM VerdictsAreEarned == ScreeningSpec => []VerdictsEarned
<1>1. ScreeningInv => VerdictsEarned
  <2> SUFFICES ASSUME ScreeningInv, NEW x \in Screenings, screening[x].result \in Passing \cup {"REJECT"}
               PROVE  LET row == screening[x]
                          t == row.template
                          scored == {i \in DOMAIN t.weight : row.responses[i] \notin {NoValue, 0} /\ t.weight[i] > 0}
                      IN  /\ row.status = "completed"
                          /\ t.pass > 0
                          /\ row.result \in Passing /\ t.failure \notin Passing =>
                               /\ ~Unanswered(t, row.responses)
                               /\ SumFunction([i \in scored |-> 100 * t.weight[i]]) >= t.conditional
    BY DEF VerdictsEarned
  <2>1. PICK row, t, responses : row = screening[x] /\ t = row.template /\ responses = row.responses
    OBVIOUS
  <2>2. /\ row.status = "completed" /\ t \in TemplateRows /\ Decides(t) /\ responses \in [Items -> ScoreInputs]
        /\ row.result \in Passing /\ t.failure \notin Passing =>
             ~Unanswered(t, responses) /\ Points(t, responses) >= t.conditional
    BY <2>1 DEF ScreeningInv, Earned
  <2> DEFINE scored == {i \in DOMAIN t.weight : responses[i] \notin {NoValue, 0} /\ t.weight[i] > 0}
             worth == SumFunction([i \in scored |-> 100 * t.weight[i]])
  <2>3. \A i \in DOMAIN t.weight : responses[i] \in Int \cup {NoValue}
    BY <2>2, ScreeningAssumption
  <2>4. Points(t, responses) <= worth /\ Points(t, responses) \in Int
    BY <2>2, <2>3, PointsAreEarned, PointsAreInt
  <2>5. worth \in Int
    <3>1. IsFiniteSet(scored) /\ \A i \in scored : [j \in scored |-> 100 * t.weight[j]][i] \in Int
      BY <2>2, ScreeningAssumption, FS_Subset
    <3>2. worth = SumFunctionOnSet([j \in scored |-> 100 * t.weight[j]], scored)
      BY DEF SumFunction
    <3> HIDE DEF scored
    <3>3. SumFunctionOnSet([j \in scored |-> 100 * t.weight[j]], scored) \in Int
      BY <3>1, SumIsInt
    <3> QED
      BY <3>2, <3>3
  <2>6. t.conditional \in Int
    BY <2>2, ScreeningAssumption
  <2>7. Points(t, responses) >= t.conditional => worth >= t.conditional
    <3> HIDE DEF worth
    <3> QED
      BY <2>4, <2>5, <2>6
  <2>8. t.pass > 0
    BY <2>2 DEF Decides
  <2> QED
    BY <2>1, <2>2, <2>7, <2>8
<1> QED
  BY <1>1, ScreeningInvInit, ScreeningInvNext, PTL DEF ScreeningSpec

-----------------------------------------------------------------------------
(***************************************************************************)
(* BidScores: a clean comparison shows the scores that one set of weights  *)
(* gives the bids and marks as they are, and those rank the bids.          *)
(***************************************************************************)
LEMMA DivMonotone ==
    ASSUME NEW x \in Nat, NEW y \in Nat, NEW d \in Nat, d > 0, x <= y PROVE x \div d \in Nat /\ x \div d <= y \div d
  OBVIOUS

LEMMA DivAntitone == ASSUME NEW x \in Nat, NEW c \in Nat, NEW d \in Nat, d > 0, d <= c PROVE x \div c <= x \div d
  OBVIOUS

LEMMA DivAtMost == ASSUME NEW x \in Nat, NEW k \in Nat, NEW d \in Nat, d > 0, x <= k * d PROVE x \div d \in 0 .. k
  OBVIOUS

LEMMA TimesMonotone ==
    ASSUME NEW x \in Nat, NEW y \in Nat, NEW d \in Nat, x <= y PROVE d * x \in Nat /\ d * y \in Nat /\ d * x <= d * y
  OBVIOUS

BidRows == [Bids -> [submitted : BOOLEAN, amount : Nat, days : Nat]]
MarkRows == [Bids -> [Judges -> 0 .. 101]]
Weighings == {w \in Nat \X Nat \X Nat \X Nat : w[1] + w[2] + w[3] + w[4] > 0}

\* The share of an amount among those asked: the cheapest gets all of it.
LEMMA ShareOfCheapest ==
    ASSUME NEW T \in SUBSET Nat, NEW a \in T, a > 0, NEW m, m = Min({x \in T : x > 0})
    PROVE  /\ m \in Nat /\ 0 < m /\ m <= a
           /\ (100 * m) \div a \in 0 .. 100
           /\ \A c \in T : a <= c => (100 * m) \div c <= (100 * m) \div a
<1> DEFINE positive == {x \in T : x > 0}
<1>1. positive \in SUBSET Nat /\ a \in positive /\ m = Min(positive)
  OBVIOUS
<1>2. m \in positive /\ m <= a
  <2> HIDE DEF positive
  <2> QED
    BY <1>1, MinIsLeast
<1>3. m \in Nat /\ 0 < m /\ m <= a
  BY <1>2
<1>4. (100 * m) \div a \in 0 .. 100
  <2>1. 100 * m \in Nat /\ 100 * m <= 100 * a /\ a \in Nat
    BY <1>3
  <2> QED
    BY <2>1, DivAtMost
<1>5. ASSUME NEW c \in T, a <= c PROVE (100 * m) \div c <= (100 * m) \div a
  <2>1. 100 * m \in Nat /\ a \in Nat /\ c \in Nat
    BY <1>3
  <2> QED
    BY <1>5, <2>1, DivAntitone
<1> QED
  BY <1>3, <1>4, <1>5

\* An average of marks from 0 to 100 is one as well.
LEMMA TechnicalInRange ==
    ASSUME NEW marks \in MarkRows, NEW b \in Bids
    PROVE  TechnicalShare(marks, b) \in 0 .. 100
<1> DEFINE given == {j \in Judges : marks[b][j] # NoMark}
           f == marks[b]
<1>1. IsFiniteSet(given) /\ \A j \in given : f[j] \in Int /\ 0 <= f[j] /\ f[j] <= 100
  <2>1. f \in [Judges -> 0 .. 101] /\ IsFiniteSet(Judges)
    BY ScoreAssumption DEF MarkRows
  <2>2. IsFiniteSet(given)
    BY <2>1, FS_Subset
  <2> QED
    BY <2>1, <2>2 DEF NoMark
<1>2. TechnicalShare(marks, b) = IF given = {} THEN 50 ELSE SumFunctionOnSet(f, given) \div Cardinality(given)
  BY DEF TechnicalShare
<1> HIDE DEF given, f
<1>3. CASE given = {}
  BY <1>2, <1>3
<1>4. CASE given # {}
  <2>1. PICK n, s : n = Cardinality(given) /\ s = SumFunctionOnSet(f, given)
    OBVIOUS
  <2>2. n \in Nat /\ n > 0
    BY <1>1, <1>4, <2>1, FS_EmptySet, FS_CardinalityType
  <2>3. s \in Int
    BY <1>1, <2>1, SumIsInt
  <2>4. s <= 100 * n
    <3>1. 100 \in Int
      OBVIOUS
    <3> QED
      BY <1>1, <2>1, <3>1, SumAtMost
  <2>5. 0 * n <= s
    <3>1. 0 \in Int
      OBVIOUS
    <3> QED
      BY <1>1, <2>1, <3>1, SumAtLeast
  <2>6. s \in Nat
    BY <2>2, <2>3, <2>5
  <2>7. s \div n \in 0 .. 100
    BY <2>2, <2>4, <2>6, DivAtMost
  <2> QED
    BY <1>2, <1>4, <2>1, <2>7
<1> QED
  BY <1>3, <1>4

\* The four shares of a submitted bid.
Price(bids, b) == PriceShare({bids[x].amount : x \in {y \in Bids : bids[y].submitted}}, bids[b].amount)
Delivery(bids, b) == DeliveryShare({bids[x].days : x \in {y \in Bids : bids[y].submitted}}, bids[b].days)

LEMMA SharesInRange ==
    ASSUME NEW bids \in BidRows, NEW b \in Bids, bids[b].submitted
    PROVE  Price(bids, b) \in 0 .. 100 /\ Delivery(bids, b) \in 0 .. 100
<1> DEFINE sent == {y \in Bids : bids[y].submitted}
           amounts == {bids[x].amount : x \in sent}
           days == {bids[x].days : x \in sent}
<1>1. amounts \in SUBSET Nat /\ days \in SUBSET Nat /\ bids[b].amount \in amounts /\ bids[b].days \in days
  BY DEF BidRows
<1>2. Price(bids, b) = PriceShare(amounts, bids[b].amount) /\ Delivery(bids, b) = DeliveryShare(days, bids[b].days)
  BY DEF Price, Delivery
<1> HIDE DEF amounts, days
<1>3. PriceShare(amounts, bids[b].amount) \in 0 .. 100
  <2>1. CASE bids[b].amount > 0
    BY <1>1, <2>1, ShareOfCheapest DEF PriceShare
  <2>2. CASE ~(bids[b].amount > 0)
    BY <2>2 DEF PriceShare
  <2> QED
    BY <2>1, <2>2
<1>4. DeliveryShare(days, bids[b].days) \in 0 .. 100
  <2>1. CASE bids[b].days > 0
    BY <1>1, <2>1, ShareOfCheapest DEF DeliveryShare
  <2>2. CASE ~(bids[b].days > 0)
    BY <2>2 DEF DeliveryShare
  <2> QED
    BY <2>1, <2>2
<1> QED
  BY <1>2, <1>3, <1>4

LEMMA SharesRank ==
    ASSUME NEW bids \in BidRows, NEW a \in Bids, NEW b \in Bids, bids[a].submitted, bids[b].submitted,
           0 < bids[a].amount, bids[a].amount <= bids[b].amount, 0 < bids[a].days, bids[a].days <= bids[b].days
    PROVE  Price(bids, b) <= Price(bids, a) /\ Delivery(bids, b) <= Delivery(bids, a)
<1> DEFINE sent == {y \in Bids : bids[y].submitted}
           amounts == {bids[x].amount : x \in sent}
           days == {bids[x].days : x \in sent}
<1>1. /\ amounts \in SUBSET Nat /\ bids[a].amount \in amounts /\ bids[b].amount \in amounts
      /\ days \in SUBSET Nat /\ bids[a].days \in days /\ bids[b].days \in days
  BY DEF BidRows
<1>2. /\ Price(bids, a) = PriceShare(amounts, bids[a].amount) /\ Delivery(bids, a) = DeliveryShare(days, bids[a].days)
      /\ Price(bids, b) = PriceShare(amounts, bids[b].amount) /\ Delivery(bids, b) = DeliveryShare(days, bids[b].days)
  BY DEF Price, Delivery
<1> HIDE DEF amounts, days
<1>3. PICK c, e, m : c = bids[a].amount /\ e = bids[b].amount /\ m = Min({x \in amounts : x > 0})
  OBVIOUS
<1>4. (100 * m) \div e <= (100 * m) \div c /\ c > 0 /\ e > 0
  <2>1. c \in amounts /\ e \in amounts /\ c \in Nat /\ e \in Nat /\ c > 0 /\ c <= e
    BY <1>1, <1>3
  <2>2. (100 * m) \div e <= (100 * m) \div c
    BY <1>1, <1>3, <2>1, ShareOfCheapest
  <2> QED
    BY <2>1, <2>2
<1>5. PICK g, h, n : g = bids[a].days /\ h = bids[b].days /\ n = Min({x \in days : x > 0})
  OBVIOUS
<1>6. (100 * n) \div h <= (100 * n) \div g /\ g > 0 /\ h > 0
  <2>1. g \in days /\ h \in days /\ g \in Nat /\ h \in Nat /\ g > 0 /\ g <= h
    BY <1>1, <1>5
  <2>2. (100 * n) \div h <= (100 * n) \div g
    BY <1>1, <1>5, <2>1, ShareOfCheapest
  <2> QED
    BY <2>1, <2>2
<1> QED
  BY <1>2, <1>3, <1>4, <1>5, <1>6 DEF PriceShare, DeliveryShare

\* The score of a submitted bid as a division of natural numbers.
Tally(w, p, d, t, s) == w[1] * p + w[2] * d + w[3] * t + w[4] * s

LEMMA ScoreIsShare ==
    ASSUME NEW w, NEW bids, NEW marks, NEW b \in Bids, bids[b].submitted
    PROVE  Weighed(w, bids, marks)[b] =
             Tally(w, Price(bids, b), Delivery(bids, b), TechnicalShare(marks, b), Standing[b]) \div (w[1] + w[2] + w[3] + w[4])
  BY DEF Weighed, Price, Delivery, Tally

LEMMA TallyMonotone ==
    ASSUME NEW w \in Weighings, NEW p \in Nat, NEW d \in Nat, NEW t \in Nat, NEW s \in Nat,
           NEW q \in Nat, NEW e \in Nat, NEW u \in Nat, NEW v \in Nat, p <= q, d <= e, t <= u, s <= v
    PROVE  /\ Tally(w, p, d, t, s) \in Nat /\ Tally(w, q, e, u, v) \in Nat
           /\ Tally(w, p, d, t, s) <= Tally(w, q, e, u, v)
<1>1. w[1] \in Nat /\ w[2] \in Nat /\ w[3] \in Nat /\ w[4] \in Nat
  BY DEF Weighings
<1>2. /\ w[1] * p \in Nat /\ w[1] * q \in Nat /\ w[1] * p <= w[1] * q
      /\ w[2] * d \in Nat /\ w[2] * e \in Nat /\ w[2] * d <= w[2] * e
      /\ w[3] * t \in Nat /\ w[3] * u \in Nat /\ w[3] * t <= w[3] * u
      /\ w[4] * s \in Nat /\ w[4] * v \in Nat /\ w[4] * s <= w[4] * v
  BY <1>1, TimesMonotone
<1> QED
  BY <1>2 DEF Tally

LEMMA ScoreInRange ==
    ASSUME NEW w \in Weighings, NEW bids \in BidRows, NEW marks \in MarkRows, NEW b \in Bids, bids[b].submitted
    PROVE  Weighed(w, bids, marks)[b] \in 0 .. 100
<1>1. PICK p, d, t, s, n : /\ p = Price(bids, b) /\ d = Delivery(bids, b) /\ t = TechnicalShare(marks, b)
                           /\ s = Standing[b] /\ n = w[1] + w[2] + w[3] + w[4]
  OBVIOUS
<1>2. p \in 0 .. 100 /\ d \in 0 .. 100 /\ t \in 0 .. 100 /\ s \in 0 .. 100
  BY <1>1, SharesInRange, TechnicalInRange, ScoreAssumption
<1>3. n \in Nat /\ n > 0
  BY <1>1 DEF Weighings
<1>4. w[1] \in Nat /\ w[2] \in Nat /\ w[3] \in Nat /\ w[4] \in Nat
  BY DEF Weighings
<1>5. Tally(w, p, d, t, s) \in Nat /\ Tally(w, p, d, t, s) <= 100 * n
  <2>1. PICK f, g, h, k : f = w[1] /\ g = w[2] /\ h = w[3] /\ k = w[4]
    OBVIOUS
  <2>2. PICK fp, gd, ht, ks : fp = f * p /\ gd = g * d /\ ht = h * t /\ ks = k * s
    OBVIOUS
  <2>3. /\ fp \in Nat /\ fp <= f * 100 /\ gd \in Nat /\ gd <= g * 100
        /\ ht \in Nat /\ ht <= h * 100 /\ ks \in Nat /\ ks <= k * 100
    BY <1>2, <1>4, <2>1, <2>2, TimesMonotone
  <2>4. Tally(w, p, d, t, s) = fp + gd + ht + ks /\ n = f + g + h + k
    BY <1>1, <2>1, <2>2 DEF Tally
  <2> QED
    BY <1>4, <2>1, <2>3, <2>4
<1>6. Tally(w, p, d, t, s) \div n \in 0 .. 100
  BY <1>3, <1>5, DivAtMost
<1> QED
  BY <1>1, <1>6, ScoreIsShare

LEMMA ScoresRank ==
    ASSUME NEW w \in Weighings, NEW bids \in BidRows, NEW marks \in MarkRows, NEW a \in Bids, NEW b \in Bids,
           bids[a].submitted, bids[b].submitted, Standing[a] >= Standing[b],
           0 < bids[a].amount, bids[a].amount <= bids[b].amount, 0 < bids[a].days, bids[a].days <= bids[b].days,
           TechnicalShare(marks, a) >= TechnicalShare(marks, b)
    PROVE  Weighed(w, bids, marks)[a] >= Weighed(w, bids, marks)[b]
<1>1. PICK p, d, t, s : p = Price(bids, a) /\ d = Delivery(bids, a) /\ t = TechnicalShare(marks, a) /\ s = Standing[a]
  OBVIOUS
<1>2. PICK q, e, u, v : q = Price(bids, b) /\ e = Delivery(bids, b) /\ u = TechnicalShare(marks, b) /\ v = Standing[b]
  OBVIOUS
<1>3. /\ p \in 0 .. 100 /\ d \in 0 .. 100 /\ t \in 0 .. 100 /\ s \in 0 .. 100
      /\ q \in 0 .. 100 /\ e \in 0 .. 100 /\ u \in 0 .. 100 /\ v \in 0 .. 100
  BY <1>1, <1>2, SharesInRange, TechnicalInRange, ScoreAssumption
<1>4. q <= p /\ e <= d
  BY <1>1, <1>2, SharesRank
<1>5. u <= t /\ v <= s
  BY <1>1, <1>2, <1>3
<1>6. PICK n : n = w[1] + w[2] + w[3] + w[4]
  OBVIOUS
<1>7. n \in Nat /\ n > 0
  BY <1>6 DEF Weighings
<1>8. /\ Tally(w, q, e, u, v) \in Nat /\ Tally(w, p, d, t, s) \in Nat
      /\ Tally(w, q, e, u, v) <= Tally(w, p, d, t, s)
  <2>1. /\ p \in Nat /\ d \in Nat /\ t \in Nat /\ s \in Nat
        /\ q \in Nat /\ e \in Nat /\ u \in Nat /\ v \in Nat
    BY <1>3
  <2> QED
    BY <1>4, <1>5, <2>1, TallyMonotone
<1>9. /\ Tally(w, q, e, u, v) \div n \in Nat /\ Tally(w, p, d, t, s) \div n \in Nat
      /\ Tally(w, q, e, u, v) \div n <= Tally(w, p, d, t, s) \div n
  BY <1>7, <1>8, DivMonotone
<1>10. Weighed(w, bids, marks)[a] = Tally(w, p, d, t, s) \div n
  BY <1>1, <1>6, ScoreIsShare
<1>11. Weighed(w, bids, marks)[b] = Tally(w, q, e, u, v) \div n
  BY <1>2, <1>6, ScoreIsShare
<1> QED
  BY <1>9, <1>10, <1>11

-----------------------------------------------------------------------------
\* What a request holds; one that is still clean holds what the rows give now.
ReaderOK(st, bids, marks, scores) ==
    /\ "pc" \in DOMAIN st
    /\ st.pc # "none" => "clean" \in DOMAIN st /\ st.clean \in BOOLEAN
    /\ st.pc = "mark" => /\ {"bid", "judge", "value"} \subseteq DOMAIN st
                         /\ st.bid \in Bids /\ st.judge \in Judges /\ st.value \in Averages
    /\ st.pc = "base" => "w" \in DOMAIN st /\ st.w \in Weighings
    /\ st.pc = "write" /\ st.clean = TRUE => \E w \in Weighings : st.result = Weighed(w, bids, marks)
    /\ st.pc = "show" /\ st.clean = TRUE =>
         \E w \in Weighings : \A b \in Bids : bids[b].submitted => scores[b] = Weighed(w, bids, marks)[b]

ScoreInv ==
    /\ bid \in BidRows /\ mark \in MarkRows /\ weights \in Nat \X Nat \X Nat \X Nat
    /\ DOMAIN reader = Readers
    /\ \A r \in Readers : ReaderOK(reader[r], bid, mark, score)

LEMMA NotAskedOK == ASSUME NEW bids, NEW marks, NEW scores PROVE ReaderOK(NotAsked, bids, marks, scores)
  BY DEF ReaderOK, NotAsked

LEMMA OnwardOK == ASSUME NEW st, NEW bids, NEW marks, NEW scores PROVE ReaderOK(Onward(st, FALSE), bids, marks, scores)
<1>1. Onward(st, FALSE) = [pc |-> "show", clean |-> FALSE] \/ Onward(st, FALSE) = NotAsked
  BY DEF Onward
<1>2. ReaderOK([pc |-> "show", clean |-> FALSE], bids, marks, scores)
  BY DEF ReaderOK
<1> QED
  BY <1>1, <1>2, NotAskedOK

\* Whoever is disturbed has nothing to answer for.
LEMMA DisturbedOK ==
    ASSUME NEW own, NEW q \in Readers \ own, ReaderOK(reader[q], bid, mark, score), NEW bids, NEW marks, NEW scores
    PROVE  ReaderOK(Disturb(own)[q], bids, marks, scores)
<1>1. CASE reader[q].pc = "none"
  BY <1>1 DEF Disturb, ReaderOK
<1>2. CASE reader[q].pc # "none"
  <2>1. Disturb(own)[q] = [reader[q] EXCEPT !.clean = FALSE]
    BY <1>2 DEF Disturb
  <2>2. PICK st, su : st = reader[q] /\ su = [st EXCEPT !.clean = FALSE]
    OBVIOUS
  <2>3. "pc" \in DOMAIN st /\ "clean" \in DOMAIN st /\ st.pc # "none"
    BY <1>2, <2>2 DEF ReaderOK
  <2>4. su.pc = st.pc /\ su.clean = FALSE /\ DOMAIN su = DOMAIN st
    BY <2>2, <2>3
  <2>5. st.pc = "mark" => /\ {"bid", "judge", "value"} \subseteq DOMAIN st
                          /\ su.bid = st.bid /\ su.judge = st.judge /\ su.value = st.value
    BY <2>2 DEF ReaderOK
  <2>6. st.pc = "base" => "w" \in DOMAIN st /\ su.w = st.w
    BY <2>2 DEF ReaderOK
  <2>7. ReaderOK(st, bid, mark, score)
    BY <2>2
  <2>8. ReaderOK(su, bids, marks, scores)
    BY <2>3, <2>4, <2>5, <2>6, <2>7 DEF ReaderOK
  <2> QED
    BY <2>1, <2>2, <2>8
<1> QED
  BY <1>1, <1>2

\* A step of one request that writes nothing, or disturbs the others.
LEMMA ReaderGoes ==
    ASSUME ScoreInv, NEW r \in Readers, UNCHANGED <<bid, mark, score, weights>>, NEW st,
           reader' = [reader EXCEPT ![r] = st], ReaderOK(st, bid, mark, score)
    PROVE  ScoreInv'
  BY DEF ScoreInv

LEMMA ReaderWrites ==
    ASSUME ScoreInv, NEW r \in Readers, NEW st, reader' = [Disturb({r}) EXCEPT ![r] = st],
           bid' \in BidRows, mark' \in MarkRows, weights' = weights, ReaderOK(st, bid', mark', score')
    PROVE  ScoreInv'
<1>1. DOMAIN Disturb({r}) = Readers
  BY DEF Disturb
<1>2. DOMAIN reader' = Readers /\ reader'[r] = st /\ \A q \in Readers \ {r} : reader'[q] = Disturb({r})[q]
  BY <1>1
<1>3. \A q \in Readers \ {r} : ReaderOK(reader'[q], bid', mark', score')
  BY <1>2, DisturbedOK DEF ScoreInv
<1> QED
  BY <1>2, <1>3 DEF ScoreInv

LEMMA ScoreInvInit == ScoreInit => ScoreInv
<1> SUFFICES ASSUME ScoreInit PROVE ScoreInv
  OBVIOUS
<1>1. bid \in BidRows /\ mark \in MarkRows
  BY DEF ScoreInit, BidRows, MarkRows, NoMark
<1>2. weights \in Nat \X Nat \X Nat \X Nat
  BY DEF ScoreInit, DefaultWeights
<1>3. DOMAIN reader = Readers /\ \A r \in Readers : ReaderOK(reader[r], bid, mark, score)
  BY NotAskedOK DEF ScoreInit
<1> QED
  BY <1>1, <1>2, <1>3 DEF ScoreInv

\* Weights that are not all zero add up to something.
LEMMA WeightsWeigh ==
    ASSUME NEW w \in Nat \X Nat \X Nat \X Nat, w # <<0, 0, 0, 0>>
    PROVE  w \in Weighings
<1>1. PICK a \in Nat, b \in Nat, c \in Nat, d \in Nat : w = <<a, b, c, d>>
  OBVIOUS
<1>2. a + b + c + d > 0
  BY <1>1
<1>3. w[1] + w[2] + w[3] + w[4] = a + b + c + d
  BY <1>1
<1> QED
  BY <1>2, <1>3 DEF Weighings

LEMMA ScoreInvNext == ScoreInv /\ [ScoreNext]_scoreVars => ScoreInv'
<1> SUFFICES ASSUME ScoreInv, [ScoreNext]_scoreVars PROVE ScoreInv'
  OBVIOUS
<1>1. bid \in BidRows /\ mark \in MarkRows /\ weights \in Nat \X Nat \X Nat \X Nat /\ DOMAIN reader = Readers
      /\ \A r \in Readers : ReaderOK(reader[r], bid, mark, score)
  BY DEF ScoreInv
<1>2. ASSUME NEW j \in Judges, AddMember(j) PROVE ScoreInv'
  BY <1>2 DEF AddMember, ScoreInv
<1>3. ASSUME NEW w \in WeightSets, SetWeights(w) PROVE ScoreInv'
  <2>1. weights' = w /\ reader' = Disturb({}) /\ UNCHANGED <<bid, score, mark>>
    BY <1>3 DEF SetWeights
  <2>2. weights' \in Nat \X Nat \X Nat \X Nat
    BY <2>1, ScoreAssumption
  <2>3. DOMAIN reader' = Readers
    BY <2>1 DEF Disturb
  <2>4. \A q \in Readers : ReaderOK(reader'[q], bid, mark, score)
    BY <1>1, <2>1, DisturbedOK
  <2> QED
    BY <1>1, <2>1, <2>2, <2>3, <2>4 DEF ScoreInv
<1>4. ASSUME NEW r \in Readers, NEW b \in Bids, NEW submitted \in BOOLEAN, NEW a \in Quotes, NEW d \in Days,
             SaveRow(r, b, submitted, a, d)
      PROVE  ScoreInv'
  <2> DEFINE st == IF submitted THEN [pc |-> "weigh", shows |-> FALSE, clean |-> TRUE] ELSE NotAsked
  <2>1. /\ bid' = [bid EXCEPT ![b] = [submitted |-> submitted, amount |-> a, days |-> d]]
        /\ reader' = [Disturb({r}) EXCEPT ![r] = st] /\ UNCHANGED <<score, mark, weights>>
    BY <1>4 DEF SaveRow, Enters
  <2>2. bid' \in BidRows
    BY <1>1, <2>1, ScoreAssumption DEF BidRows
  <2>3. ReaderOK(st, bid', mark', score')
    <3>1. ReaderOK([pc |-> "weigh", shows |-> FALSE, clean |-> TRUE], bid', mark', score')
      BY DEF ReaderOK
    <3> QED
      BY <3>1, NotAskedOK
  <2> HIDE DEF st
  <2> QED
    BY <1>1, <2>1, <2>2, <2>3, ReaderWrites
<1>5. ASSUME NEW r \in Readers, NEW j \in Judges, NEW b \in Bids, NEW m \in Averages, CheckEvaluator(r, j, b, m)
      PROVE  ScoreInv'
  <2> DEFINE st == [pc |-> "mark", judge |-> j, bid |-> b, value |-> m, clean |-> TRUE]
  <2>1. reader' = [reader EXCEPT ![r] = st] /\ UNCHANGED <<bid, score, mark, weights>>
    BY <1>5 DEF CheckEvaluator
  <2>2. ReaderOK(st, bid, mark, score)
    BY DEF ReaderOK
  <2> HIDE DEF st
  <2> QED
    BY <2>1, <2>2, ReaderGoes
<1>6. ASSUME NEW r \in Readers, SaveMark(r) PROVE ScoreInv'
  <2> DEFINE st == [pc |-> "weigh", shows |-> FALSE, clean |-> TRUE]
  <2>1. PICK b, j, v : b = reader[r].bid /\ j = reader[r].judge /\ v = reader[r].value
    OBVIOUS
  <2>2. b \in Bids /\ j \in Judges /\ v \in 0 .. 101
    BY <1>1, <1>6, <2>1, ScoreAssumption DEF SaveMark, ReaderOK
  <2>3. /\ mark' = [mark EXCEPT ![b][j] = v] /\ reader' = [Disturb({r}) EXCEPT ![r] = st]
        /\ UNCHANGED <<bid, score, weights>>
    BY <1>6, <2>1 DEF SaveMark
  <2>4. mark' \in MarkRows
    BY <1>1, <2>2, <2>3 DEF MarkRows
  <2>5. ReaderOK(st, bid', mark', score')
    BY DEF ReaderOK
  <2> HIDE DEF st
  <2> QED
    BY <1>1, <2>3, <2>4, <2>5, ReaderWrites
<1>7. ASSUME NEW r \in Readers, Compare(r) PROVE ScoreInv'
  <2> DEFINE st == [pc |-> "weigh", shows |-> TRUE, clean |-> TRUE]
  <2>1. reader' = [reader EXCEPT ![r] = st] /\ UNCHANGED <<bid, score, mark, weights>>
    BY <1>7 DEF Compare
  <2>2. ReaderOK(st, bid, mark, score)
    BY DEF ReaderOK
  <2> HIDE DEF st
  <2> QED
    BY <2>1, <2>2, ReaderGoes
<1>8. ASSUME NEW r \in Readers, NEW read \in BOOLEAN, ReadWeights(r, read) PROVE ScoreInv'
  <2>1. PICK w, shows, clean : /\ w = (IF read /\ weights # <<0, 0, 0, 0>> THEN weights ELSE DefaultWeights)
                               /\ shows = reader[r].shows /\ clean = (reader[r].clean /\ read)
    OBVIOUS
  <2> DEFINE st == [pc |-> "base", w |-> w, shows |-> shows, clean |-> clean]
  <2>2. reader' = [reader EXCEPT ![r] = st] /\ UNCHANGED <<bid, score, mark, weights>>
    BY <1>1, <1>8, <2>1 DEF ReadWeights
  <2>3. w \in Weighings
    <3>1. DefaultWeights \in Weighings
      BY DEF DefaultWeights, Weighings
    <3> QED
      BY <1>1, <2>1, <3>1, WeightsWeigh
  <2>4. clean \in BOOLEAN
    BY <2>1
  <2>5. ReaderOK(st, bid, mark, score)
    BY <2>3, <2>4 DEF ReaderOK
  <2> HIDE DEF st
  <2> QED
    BY <2>2, <2>5, ReaderGoes
<1>9. ASSUME NEW r \in Readers, ReadBase(r) PROVE ScoreInv'
  <2>1. PICK w, shows, clean, result : /\ w = reader[r].w /\ shows = reader[r].shows /\ clean = reader[r].clean
                                       /\ result = Weighed(w, bid, mark)
    OBVIOUS
  <2> DEFINE st == [pc |-> "write", result |-> result, shows |-> shows, clean |-> clean]
  <2>2. reader' = [reader EXCEPT ![r] = st] /\ UNCHANGED <<bid, score, mark, weights>>
    BY <1>1, <1>9, <2>1 DEF ReadBase
  <2>3. w \in Weighings /\ clean \in BOOLEAN
    BY <1>1, <1>9, <2>1 DEF ReadBase, ReaderOK
  <2>4. ReaderOK(st, bid, mark, score)
    BY <2>1, <2>3 DEF ReaderOK
  <2> HIDE DEF st
  <2> QED
    BY <2>2, <2>4, ReaderGoes
<1>10. ASSUME NEW r \in Readers, WriteScores(r) PROVE ScoreInv'
  <2>1. PICK st : st = reader[r]
    OBVIOUS
  <2>2. PICK su : su = Onward(st, st.clean)
    OBVIOUS
  <2>3. /\ score' = [b \in Bids |-> IF b \in DOMAIN st.result THEN st.result[b] ELSE score[b]]
        /\ reader' = [Disturb({r}) EXCEPT ![r] = su] /\ UNCHANGED <<bid, mark, weights>>
        /\ st.pc = "write" /\ ReaderOK(st, bid, mark, score)
    BY <1>1, <1>10, <2>1, <2>2 DEF WriteScores
  <2>4. st.clean \in BOOLEAN
    BY <2>3 DEF ReaderOK
  <2>5. CASE st.clean = FALSE
    <3>1. ReaderOK(su, bid', mark', score')
      BY <2>2, <2>5, OnwardOK
    <3> QED
      BY <1>1, <2>3, <3>1, ReaderWrites
  <2>6. CASE st.clean = TRUE
    <3>1. PICK w \in Weighings : st.result = Weighed(w, bid, mark)
      BY <2>3, <2>6 DEF ReaderOK
    <3>2. DOMAIN st.result = {b \in Bids : bid[b].submitted}
      BY <3>1 DEF Weighed
    <3>3. \A b \in Bids : bid[b].submitted => score'[b] = Weighed(w, bid, mark)[b]
      BY <2>3, <3>1, <3>2
    <3>4. ReaderOK([pc |-> "show", clean |-> TRUE], bid, mark, score')
      BY <3>3 DEF ReaderOK
    <3>5. su = [pc |-> "show", clean |-> TRUE] \/ su = NotAsked
      BY <2>2, <2>6 DEF Onward
    <3>6. ReaderOK(su, bid', mark', score')
      BY <2>3, <3>4, <3>5, NotAskedOK
    <3> QED
      BY <1>1, <2>3, <3>6, ReaderWrites
  <2> QED
    BY <2>4, <2>5, <2>6
<1>11. ASSUME NEW r \in Readers, StatementFails(r) PROVE ScoreInv'
  <2>1. PICK su : su = Onward(reader[r], FALSE)
    OBVIOUS
  <2>2. reader' = [reader EXCEPT ![r] = su] /\ UNCHANGED <<bid, score, mark, weights>>
    BY <1>1, <1>11, <2>1 DEF StatementFails
  <2>3. ReaderOK(su, bid, mark, score)
    BY <2>1, OnwardOK
  <2> QED
    BY <2>2, <2>3, ReaderGoes
<1>12. ASSUME NEW r \in Readers, ShowRows(r) PROVE ScoreInv'
  <2>1. reader' = [reader EXCEPT ![r] = NotAsked] /\ UNCHANGED <<bid, score, mark, weights>>
    BY <1>12 DEF ShowRows
  <2> QED
    BY <2>1, NotAskedOK, ReaderGoes
<1>13. CASE UNCHANGED scoreVars
  BY <1>13 DEF scoreVars, ScoreInv
<1> QED
  BY <1>2, <1>3, <1>4, <1>5, <1>6, <1>7, <1>8, <1>9, <1>10, <1>11, <1>12, <1>13 DEF ScoreNext

\* A comparison that nothing failed in and that nobody wrote during gives every bid it
\* shows a score, and one that is no dearer, no later and no worse scores no less, for
\* any weights, marks and number of bids (recalculateSourcing, sourcingComparison).
THEOREM ComparisonsRank == ScoreSpec => []ComparisonRanks
<1>1. ScoreInv => ComparisonRanks
  <2> SUFFICES ASSUME ScoreInv, NEW r \in Readers, reader[r].pc = "show", reader[r].clean
               PROVE  LET shown == {b \in Bids : bid[b].submitted} IN
                      /\ \A b \in shown : score[b] # NoScore
                      /\ \A a, b \in shown : NoWorse(a, b) => score[a] >= score[b]
    BY DEF ComparisonRanks
  <2>1. bid \in BidRows /\ mark \in MarkRows /\ ReaderOK(reader[r], bid, mark, score)
    BY DEF ScoreInv
  <2>2. PICK w \in Weighings : \A b \in Bids : bid[b].submitted => score[b] = Weighed(w, bid, mark)[b]
    BY <2>1 DEF ReaderOK
  <2>3. ASSUME NEW b \in Bids, bid[b].submitted PROVE score[b] # NoScore
    <3>1. score[b] \in 0 .. 100
      BY <2>1, <2>2, <2>3, ScoreInRange
    <3> QED
      BY <3>1 DEF NoScore
  <2>4. ASSUME NEW a \in Bids, NEW b \in Bids, bid[a].submitted, bid[b].submitted, NoWorse(a, b)
        PROVE  score[a] >= score[b]
    <3>1. /\ 0 < bid[a].amount /\ bid[a].amount <= bid[b].amount /\ 0 < bid[a].days /\ bid[a].days <= bid[b].days
          /\ TechnicalShare(mark, a) >= TechnicalShare(mark, b) /\ Standing[a] >= Standing[b]
      BY <2>4 DEF NoWorse
    <3>2. Weighed(w, bid, mark)[a] >= Weighed(w, bid, mark)[b]
      BY <2>1, <2>4, <3>1, ScoresRank
    <3> QED
      BY <2>2, <2>4, <3>2
  <2> QED
    BY <2>3, <2>4
<1> QED
  BY <1>1, ScoreInvInit, ScoreInvNext, PTL DEF ScoreSpec
=============================================================================
