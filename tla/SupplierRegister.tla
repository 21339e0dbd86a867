-------------------------- MODULE SupplierRegister --------------------------
(***************************************************************************)
(* The supplier register of Vendra: companies are put on file under a      *)
(* unique business number and corrected there, and a new bank account is   *)
(* held back until its change is approved.                                 *)
(*                                                                         *)
(* A handler executes one SQL statement per step.  The approval of a bank  *)
(* change is one transaction here: Approval models its steps, its lock and *)
(* its approvers.                                                          *)
(***************************************************************************)
EXTENDS Naturals, FiniteSets

CONSTANTS Companies,         \* rows of suppliers
          SimilarTo,         \* pairs of companies whose names are too close
          Numbers,           \* business numbers
          Accounts,          \* bank accounts
          Changes,           \* bank-change objects, each with its instance (bound)
          SupplierRequests,  \* HTTP requests in flight at once (bound)
          SupplierStatuses,  \* what a form may write as the status, "" for none
          NoValue

ASSUME RegisterAssumption ==
    /\ NoValue \notin Companies \cup Numbers \cup Accounts
    /\ SimilarTo \subseteq Companies \X Companies

VARIABLES supplier,   \* suppliers
          policy,     \* the two settings: workflow.approval_enabled, bankChangeApproval
          bankRule,   \* an enabled rule for supplier_bank_change exists
          change,     \* business_objects of type supplier_bank_change, with their instance
          sreq        \* handlers in flight

registerVars == <<supplier, policy, bankRule, change, sreq>>

NotOnFile == [number |-> NoValue, status |-> "none", account |-> NoValue, opening |-> NoValue]

NoChange == [supplier |-> NoValue, account |-> NoValue, object |-> "none", instance |-> "none"]

Resting == [pc |-> "idle", supplier |-> NoValue, number |-> NoValue, status |-> "",
            account |-> NoValue, change |-> NoValue, enabled |-> FALSE]

OnFile(s) == supplier[s].number # NoValue
Continue(r, fields) == sreq' = [sreq EXCEPT ![r] = fields]
Answer(r) == Continue(r, Resting)

\* jsonBoolSetting and jsonBool: a value that is missing, or no boolean, reads as
\* "off" for the workflow and as "on" for the approval of bank changes.
WorkflowOn == policy.enabled = "on"

\* Mutant: a missing row scans as false, as the code before the COALESCE did.
BankApprovalOn_MissingIsOff == policy.bank = "on"

BankApprovalOn == policy.bank # "off"

\* The unique key of the register.
NumberTaken(s, n) == \E t \in Companies \ {s} : supplier[t].number = n

FirstStatus(status) == IF status = "" THEN "candidate" ELSE status

-----------------------------------------------------------------------------
\* createSupplier looks for the nearest name first ...
RegisterRead(r, s, number, status, account) ==
    /\ sreq[r].pc = "idle"
    /\ ~OnFile(s)
    /\ \A t \in Companies : OnFile(t) => <<s, t>> \notin SimilarTo
    /\ Continue(r, [Resting EXCEPT !.pc = "register", !.supplier = s, !.number = number,
                                   !.status = status, !.account = account])
    /\ UNCHANGED <<supplier, policy, bankRule, change>>

\* ... and then inserts; the number is checked by its key, the name no more.  The
\* account a company is registered with is its own (opening remembers it).
RegisterInsert(r) ==
    LET q == sreq[r] IN
    /\ q.pc = "register"
    /\ IF NumberTaken(q.supplier, q.number) \/ OnFile(q.supplier)
         THEN UNCHANGED supplier
         ELSE supplier' = [supplier EXCEPT ![q.supplier] =
                 [number |-> q.number, status |-> FirstStatus(q.status),
                  account |-> q.account, opening |-> q.account]]
    /\ Answer(r)
    /\ UNCHANGED <<policy, bankRule, change>>

-----------------------------------------------------------------------------
\* updateSupplier reads the row; only a request with an account has to ask the
\* settings.
UpdateRead(r, s, number, status, account) ==
    /\ sreq[r].pc = "idle"
    /\ OnFile(s)
    /\ Continue(r, [Resting EXCEPT !.pc = IF account = NoValue THEN "write" ELSE "enabled",
                                   !.supplier = s, !.number = number, !.status = status,
                                   !.account = account])
    /\ UNCHANGED <<supplier, policy, bankRule, change>>

ReadEnabled(r) ==
    /\ sreq[r].pc = "enabled"
    /\ Continue(r, [sreq[r] EXCEPT !.pc = "policy", !.enabled = WorkflowOn])
    /\ UNCHANGED <<supplier, policy, bankRule, change>>

ReadBankApproval(r) ==
    /\ sreq[r].pc = "policy"
    /\ Continue(r, [sreq[r] EXCEPT
                      !.pc = IF sreq[r].enabled /\ BankApprovalOn THEN "rule" ELSE "write"])
    /\ UNCHANGED <<supplier, policy, bankRule, change>>

\* Without a rule the whole update is refused.
ReadBankRule(r) ==
    /\ sreq[r].pc = "rule"
    /\ IF bankRule THEN Continue(r, [sreq[r] EXCEPT !.pc = "object"]) ELSE Answer(r)
    /\ UNCHANGED <<supplier, policy, bankRule, change>>

\* Mutant: the instance goes first, as in submitObject.
OpenChange_InstanceFirst(r, c) ==
    LET q == sreq[r] IN
    /\ q.pc = "object"
    /\ change[c] = NoChange
    /\ change' = [change EXCEPT ![c] = [NoChange EXCEPT !.supplier = q.supplier,
                                           !.account = q.account, !.instance = "pending"]]
    /\ Continue(r, [q EXCEPT !.pc = "instance", !.change = c])
    /\ UNCHANGED <<supplier, policy, bankRule>>

\* The change is an object of its own, which carries the account ...
OpenChange(r, c) ==
    LET q == sreq[r] IN
    /\ q.pc = "object"
    /\ change[c] = NoChange
    /\ change' = [change EXCEPT ![c] = [NoChange EXCEPT !.supplier = q.supplier,
                                           !.account = q.account, !.object = "pending_approval"]]
    /\ Continue(r, [q EXCEPT !.pc = "instance", !.change = c])
    /\ UNCHANGED <<supplier, policy, bankRule>>

\* ... and the second statement opens its approval.  The rest of the update goes on
\* without the account.
OpenInstance(r) ==
    LET q == sreq[r] IN
    /\ q.pc = "instance"
    /\ change' = [change EXCEPT ![q.change].instance = "pending"]
    /\ Continue(r, [q EXCEPT !.pc = "write", !.account = NoValue])
    /\ UNCHANGED <<supplier, policy, bankRule>>

\* COALESCE(NULLIF(new, ''), old), column by column, in one UPDATE that the key of
\* the register may refuse.
UpdateWrite(r) ==
    LET q == sreq[r]
        old == supplier[q.supplier]
    IN
    /\ q.pc = "write"
    /\ IF q.number # NoValue /\ NumberTaken(q.supplier, q.number)
         THEN UNCHANGED supplier
         ELSE supplier' = [supplier EXCEPT ![q.supplier] =
                 [old EXCEPT !.number = IF q.number = NoValue THEN old.number ELSE q.number,
                             !.status = IF q.status = "" THEN old.status ELSE q.status,
                             !.account = IF q.account = NoValue THEN old.account ELSE q.account]]
    /\ Answer(r)
    /\ UNCHANGED <<policy, bankRule, change>>

-----------------------------------------------------------------------------
\* Only an approval replaces the account.
Replaces(outcome) == outcome = "approved"

\* workflowAction on the last step of a bank change: one transaction.
DecideChange(c, outcome) ==
    /\ change[c].instance = "pending"
    /\ change' = [change EXCEPT ![c].instance = outcome, ![c].object = outcome]
    /\ supplier' = IF Replaces(outcome)
                     THEN [supplier EXCEPT ![change[c].supplier].account = change[c].account]
                     ELSE supplier
    /\ UNCHANGED <<policy, bankRule, sreq>>

\* putSetting on either setting; an object without the key, or no boolean, is
\* "unset".
SetPolicy(which, value) ==
    /\ policy' = [policy EXCEPT ![which] = value]
    /\ UNCHANGED <<supplier, bankRule, change, sreq>>

\* updateWorkflow switches the rule for bank changes.
SwitchBankRule ==
    /\ bankRule' = ~bankRule
    /\ UNCHANGED <<supplier, policy, change, sreq>>

\* A statement fails, or the replica dies: the request is answered with an error,
\* or not at all, and what it wrote before stays.
RequestFails(r) ==
    /\ sreq[r].pc # "idle"
    /\ Answer(r)
    /\ UNCHANGED <<supplier, policy, bankRule, change>>

RegisterInit ==
    /\ supplier = [s \in Companies |-> NotOnFile]
    /\ policy \in [{"enabled", "bank"} -> {"on", "off", "unset"}]
    /\ bankRule = TRUE
    /\ change = [c \in Changes |-> NoChange]
    /\ sreq = [r \in SupplierRequests |-> Resting]

RegisterStep(r) ==
    \/ \E s \in Companies, status \in SupplierStatuses, account \in Accounts \cup {NoValue} :
         \/ \E number \in Numbers : RegisterRead(r, s, number, status, account)
         \/ \E number \in Numbers \cup {NoValue} : UpdateRead(r, s, number, status, account)
    \/ RegisterInsert(r) \/ ReadEnabled(r) \/ ReadBankApproval(r) \/ ReadBankRule(r)
    \/ \E c \in Changes : OpenChange(r, c)
    \/ OpenInstance(r) \/ UpdateWrite(r) \/ RequestFails(r)

RegisterNext ==
    \/ \E r \in SupplierRequests : RegisterStep(r)
    \/ \E c \in Changes, outcome \in {"approved", "rejected", "returned"} : DecideChange(c, outcome)
    \/ \E which \in {"enabled", "bank"}, value \in {"on", "off", "unset"} : SetPolicy(which, value)
    \/ SwitchBankRule

RegisterSpec == RegisterInit /\ [][RegisterNext]_registerVars

-----------------------------------------------------------------------------
\* A bank change and its approval agree at every moment, whatever statement fails in
\* between: what is in an inbox is a change that says so and names a company on file,
\* and what was decided is what the change reads (updateSupplier, workflowAction).
ChangesAgree ==
    \A c \in Changes :
        /\ change[c].instance = "pending" => change[c].object = "pending_approval" /\ OnFile(change[c].supplier)
        /\ change[c].instance \notin {"none", "pending"} => change[c].object = change[c].instance

BankPolicyOn == policy.enabled = "on" /\ policy.bank # "off"

\* The account of a company on file is the one it was registered with or one that an
\* approved change carries.
AccountApproved ==
    \A s \in Companies :
        OnFile(s) => \/ supplier[s].account = supplier[s].opening
                     \/ \E c \in Changes : /\ change[c].supplier = s
                                           /\ change[c].object = "approved"
                                           /\ change[c].account = supplier[s].account

\* As long as the workflow is on and the approval of bank changes is not switched
\* off, no sequence of registrations, updates, decisions and failing statements
\* replaces an account without an approved change (updateSupplier reads the two
\* settings one after the other and acts on them several statements later).
BankGuarded == []BankPolicyOn => []AccountApproved
=============================================================================
