------------------------------ MODULE AiBudget ------------------------------
(***************************************************************************)
(* The hourly limit on calls to the language model: counted in the audit   *)
(* log, which a call is written to just before it goes out, and checked    *)
(* before that.  And what an analysis of a contract leaves behind: the     *)
(* stored extraction and the contract's mark that lawyers must read it,    *)
(* which an update of the contract writes as well.                         *)
(***************************************************************************)
EXTENDS Naturals, Sequences, FiniteSets

CONSTANTS Callers, AiRequests,
          Caps,           \* values of maxCallsPerHour; 0 is no limit
          Hours,          \* half hours on the clock (bound)
          CallBound,      \* calls of one account in all (bound)
          Uncounted       \* inserts into the audit log that may fail (bound)

ASSUME AiAssumption == /\ IsFiniteSet(AiRequests)
                       /\ Caps \subseteq Nat /\ Hours \in Nat /\ CallBound \in Nat /\ Uncounted \in Nat

VARIABLES cap,        \* maxCallsPerHour in the setting "ai"
          billed,     \* calls that went out, per account: when, and whether the audit log has it
          half,       \* time in half hours
          aireq,
          review,     \* legalReviewRequired of the contract
          demanded,   \* ghost: a stored analysis demands review ...
          dropped,    \* ghost: ... and its mark failed or was overwritten
          unlimited,  \* ghost: there was no limit for a while
          unnoted     \* calls missing from the audit log

aiVars == <<cap, billed, half, aireq, review, demanded, dropped, unlimited, unnoted>>

Silent == [pc |-> "idle", who |-> CHOOSE u \in Callers : TRUE, cap |-> 0, contract |-> FALSE, noted |-> FALSE, data |-> FALSE]

Asks(r, fields) == aireq' = [aireq EXCEPT ![r] = fields]

LastHour(u) == {i \in DOMAIN billed[u] : billed[u][i].at + 2 > half}

\* SELECT count(*) FROM audit_logs ... occurred_at > now()-interval '1 hour'
CallsOf(u) == Cardinality({i \in LastHour(u) : billed[u][i].noted})

\* Mutant: one call too many.
Within_OffByOne(count, limit) == limit = 0 \/ count <= limit

\* withinAIBudget
Within(count, limit) == limit = 0 \/ count < limit

-----------------------------------------------------------------------------
\* aiAnalyze and aiAnalyzeContract read the setting first ...
LoadAi(r, u, contract) ==
    /\ aireq[r].pc = "idle"
    /\ Asks(r, [Silent EXCEPT !.pc = "loaded", !.who = u, !.cap = cap, !.contract = contract])
    /\ UNCHANGED <<cap, billed, half, review, demanded, dropped, unlimited, unnoted>>

\* ... then check the budget ...
CheckBudget(r) ==
    LET q == aireq[r] IN
    /\ q.pc = "loaded"
    /\ Asks(r, IF Within(CallsOf(q.who), q.cap) THEN [q EXCEPT !.pc = "allowed"] ELSE Silent)
    /\ UNCHANGED <<cap, billed, half, review, demanded, dropped, unlimited, unnoted>>

\* ... and note the call as they send it; a failing insert is only logged.
DispatchCall(r, noted) ==
    LET q == aireq[r] IN
    /\ q.pc = "allowed"
    /\ Len(billed[q.who]) < CallBound
    /\ noted \/ unnoted < Uncounted
    /\ unnoted' = IF noted THEN unnoted ELSE unnoted + 1
    /\ billed' = [billed EXCEPT ![q.who] = Append(@, [at |-> half, noted |-> noted])]
    /\ Asks(r, [q EXCEPT !.pc = "asked"])
    /\ UNCHANGED <<cap, half, review, demanded, dropped, unlimited>>

\* The answer, or none within the timeout.
AnswerArrives(r, usable) ==
    LET q == aireq[r] IN
    /\ q.pc = "asked"
    /\ Asks(r, IF usable /\ q.contract THEN [q EXCEPT !.pc = "save"] ELSE Silent)
    /\ UNCHANGED <<cap, billed, half, review, demanded, dropped, unlimited, unnoted>>

\* The answer of the model: an object that asks for review or one that does not, null, or
\* a text that is no JSON object.
Replies == {"asks", "clears", "null", "text"}

\* Mutant: an answer that does not parse demands nothing.
Demands_Parsed(reply) == reply = "asks"

\* A text demands review; null parses, as an object with nothing in it.
Demands(reply) == reply \in {"asks", "text"}

\* INSERT INTO extracted_contract_clauses
SaveAnalysis(r, reply, stored) ==
    LET q == aireq[r] IN
    /\ q.pc = "save"
    /\ demanded' = (demanded \/ (stored /\ reply \notin {"clears", "null"}))
    /\ Asks(r, IF stored /\ Demands(reply) THEN [q EXCEPT !.pc = "mark"] ELSE Silent)
    /\ UNCHANGED <<cap, billed, half, review, dropped, unlimited, unnoted>>

\* The UPDATE of the contract; its failure is only logged.
MarkContract(r, stored) ==
    /\ aireq[r].pc = "mark"
    /\ review' = (review \/ stored)
    /\ dropped' = (dropped \/ ~stored)
    /\ Asks(r, Silent)
    /\ UNCHANGED <<cap, billed, half, demanded, unlimited, unnoted>>

\* updateObject on the contract reads its data ...
EditRead(r) ==
    /\ aireq[r].pc = "idle"
    /\ Asks(r, [Silent EXCEPT !.pc = "edit", !.data = review])
    /\ UNCHANGED <<cap, billed, half, review, demanded, dropped, unlimited, unnoted>>

\* ... and writes all of it back, or the data its client sent.
EditWrite(r, sent) ==
    LET q == aireq[r] IN
    /\ q.pc = "edit"
    /\ review' = (q.data /\ ~sent)
    /\ dropped' = (dropped \/ (review /\ ~review'))
    /\ Asks(r, Silent)
    /\ UNCHANGED <<cap, billed, half, demanded, unlimited, unnoted>>

\* putSetting on "ai"
SetCap(n) ==
    /\ cap' = n
    /\ unlimited' = (unlimited \/ n = 0)
    /\ UNCHANGED <<billed, half, aireq, review, demanded, dropped, unnoted>>

HalfHour ==
    /\ half < Hours
    /\ half' = half + 1
    /\ UNCHANGED <<cap, billed, aireq, review, demanded, dropped, unlimited, unnoted>>

AiInit ==
    /\ cap \in Caps
    /\ unlimited = (cap = 0)
    /\ billed = [u \in Callers |-> <<>>]
    /\ half = 0
    /\ aireq = [r \in AiRequests |-> Silent]
    /\ review = FALSE /\ demanded = FALSE /\ dropped = FALSE
    /\ unnoted = 0

AiRequestStep(r) ==
    \/ \E u \in Callers, contract \in BOOLEAN : LoadAi(r, u, contract)
    \/ CheckBudget(r)
    \/ \E noted \in BOOLEAN : DispatchCall(r, noted)
    \/ \E usable \in BOOLEAN : AnswerArrives(r, usable)
    \/ \E reply \in Replies, stored \in BOOLEAN : SaveAnalysis(r, reply, stored)
    \/ \E stored \in BOOLEAN : MarkContract(r, stored)
    \/ EditRead(r)
    \/ \E sent \in BOOLEAN : EditWrite(r, sent)

AiNext == (\E r \in AiRequests : AiRequestStep(r)) \/ (\E n \in Caps : SetCap(n)) \/ HalfHour

AiSpec == AiInit /\ [][AiNext]_aiVars

-----------------------------------------------------------------------------
\* What an account can spend in an hour: the highest limit there was, and one call more for
\* each request that was checked while another was on its way, and for each that the audit
\* log missed (withinAIBudget, recordAICall).
SpendingBounded ==
    ~unlimited =>
        \A u \in Callers, n \in Caps :
            (\A k \in Caps : k <= n) => Cardinality(LastHour(u)) <= n + Cardinality(AiRequests) - 1 + unnoted

\* A contract with an analysis that asks for a lawyer, or that is no more than a text, says
\* so, unless the mark failed or an update that had read the contract before took it away
\* (aiAnalyzeContract: "a reply that will not parse defaults to requiring review").
ReviewMarked ==
    demanded /\ ~dropped => review \/ \E r \in AiRequests : aireq[r].pc = "mark"
=============================================================================
