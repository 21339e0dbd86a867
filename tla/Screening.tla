----------------------------- MODULE Screening ------------------------------
(***************************************************************************)
(* Screenings of the companies in the register: a template's thresholds    *)
(* turn the reviewer's scores into a verdict, and the verdict moves the    *)
(* company to approved or suspended.                                       *)
(*                                                                         *)
(* The scores of a screening are in percent; points and thresholds are in  *)
(* hundredths of a point, so that score * weight needs no division.        *)
(***************************************************************************)
EXTENDS SupplierRegister, Integers, FiniteSetsExt

CONSTANTS Items,              \* codes of the items of a template
          Papers,             \* document types
          TemplateRows,       \* templates: thresholds, items and required documents
          OldTemplates,       \* those stored before their thresholds were checked
          Screenings,         \* rows of supplier_screenings (bound)
          ScoreInputs,        \* scores a reviewer may send, NoValue for none
          ScreeningRequests   \* saves in flight at once (bound)

Verdicts == {"PASS", "CONDITIONAL_PASS", "REVIEW_REQUIRED", "REJECT"}

\* Nothing checks a weight: it may be negative.
ASSUME ScreeningAssumption ==
    /\ IsFiniteSet(Items) /\ ScoreInputs \subseteq Int \cup {NoValue}
    /\ OldTemplates \subseteq TemplateRows
    /\ NoValue \notin TemplateRows
    /\ \A t \in TemplateRows :
         /\ DOMAIN t.weight \subseteq Items /\ t.required \subseteq DOMAIN t.weight
         /\ \A i \in DOMAIN t.weight : t.weight[i] \in Int
         /\ {t.pass, t.conditional, t.review} \subseteq Int

VARIABLES template,    \* screening_templates
          paper,       \* documents that are in force, for each company
          screening,   \* supplier_screenings
          creq         \* saves in flight

screeningVars == <<template, paper, screening, creq>>
allVars == <<registerVars, screeningVars>>

NoScreening == [supplier |-> NoValue, template |-> NoValue, status |-> "none", result |-> "none",
                responses |-> [i \in Items |-> NoValue]]

NoSave == [pc |-> "idle", id |-> NoValue, responses |-> [i \in Items |-> NoValue],
           complete |-> FALSE, unread |-> {}, missing |-> FALSE]

-----------------------------------------------------------------------------
\* usable: bounds that are positive and ordered.
Decides(t) == t.pass > 0 /\ t.pass >= t.conditional /\ t.conditional >= t.review /\ t.review >= 0

\* Mutant: scores are taken as they come.
Clamped_Not(score) == IF score = NoValue THEN 0 ELSE score

\* A score that is missing, or no number, counts as zero; others are cut to 0 .. 100.
Clamped(score) == IF score = NoValue \/ score < 0 THEN 0 ELSE IF score > 100 THEN 100 ELSE score

\* calculateScreening
Points(t, responses) == SumFunction([i \in DOMAIN t.weight |-> Clamped(responses[i]) * t.weight[i]])
Unanswered(t, responses) == \E i \in t.required : responses[i] = NoValue

\* decide
Decide(t, total, missing) ==
    IF ~Decides(t) THEN "REVIEW_REQUIRED"
    ELSE IF missing THEN (IF t.failure = "" THEN "REVIEW_REQUIRED" ELSE t.failure)
    ELSE IF total >= t.pass THEN "PASS"
    ELSE IF total >= t.conditional THEN "CONDITIONAL_PASS"
    ELSE IF total >= t.review THEN "REVIEW_REQUIRED"
    ELSE "REJECT"

StatusFor(verdict) ==
    CASE verdict \in {"PASS", "CONDITIONAL_PASS"} -> "approved"
      [] verdict = "REJECT" -> "suspended"
      [] OTHER -> "screening"

-----------------------------------------------------------------------------
\* createScreeningTemplate refuses thresholds that cannot decide.
CreateTemplate(t) ==
    /\ Decides(t)
    /\ template' = template \cup {t}
    /\ UNCHANGED <<registerVars, paper, screening, creq>>

\* createScreening: the screening and the company's status in one transaction.  The
\* template may be named, whether it is active or not.
StartScreening(x, s, t) ==
    /\ screening[x].status = "none"
    /\ OnFile(s)
    /\ t \in template
    /\ screening' = [screening EXCEPT ![x] = [NoScreening EXCEPT !.supplier = s, !.template = t,
                                                                 !.status = "draft"]]
    /\ supplier' = [supplier EXCEPT ![s].status = "screening"]
    /\ UNCHANGED <<policy, bankRule, change, sreq, template, paper, creq>>

\* updateScreening reads the screening and its template, whatever its status is, and
\* adds up the scores ...
SaveScreening(r, x, responses, complete) ==
    /\ creq[r].pc = "idle"
    /\ screening[x].status # "none"
    /\ LET t == screening[x].template IN
       creq' = [creq EXCEPT ![r] = [pc |-> "papers", id |-> x, responses |-> responses,
                                    complete |-> complete, unread |-> t.papers,
                                    missing |-> Unanswered(t, responses)]]
    /\ UNCHANGED <<registerVars, template, paper, screening>>

\* ... looks for each required document; a query that fails finds none ...
LookForPaper(r, d, answered) ==
    LET q == creq[r] IN
    /\ q.pc = "papers"
    /\ d \in q.unread
    /\ creq' = [creq EXCEPT ![r].unread = @ \ {d},
                            ![r].missing = @ \/ ~(answered /\ d \in paper[screening[q.id].supplier])]
    /\ UNCHANGED <<registerVars, template, paper, screening>>

\* A save that does not complete the screening clears its verdict.
Verdict(q, x) ==
    IF q.complete THEN Decide(x.template, Points(x.template, q.responses), q.missing) ELSE "none"

\* ... and writes screening and company in one transaction.
CommitScreening(r) ==
    LET q == creq[r]
        x == screening[q.id]
    IN
    /\ q.pc = "papers"
    /\ q.unread = {}
    /\ screening' = [screening EXCEPT ![q.id] =
                       [x EXCEPT !.responses = q.responses, !.result = Verdict(q, x),
                                 !.status = IF q.complete THEN "completed" ELSE "in_progress"]]
    /\ supplier' = IF q.complete THEN [supplier EXCEPT ![x.supplier].status = StatusFor(Verdict(q, x))]
                                 ELSE supplier
    /\ creq' = [creq EXCEPT ![r] = NoSave]
    /\ UNCHANGED <<policy, bankRule, change, sreq, template, paper>>

\* A statement fails or the replica dies; the transaction is rolled back.
SaveFails(r) ==
    /\ creq[r].pc # "idle"
    /\ creq' = [creq EXCEPT ![r] = NoSave]
    /\ UNCHANGED <<registerVars, template, paper, screening>>

\* Documents are uploaded and expire.
PaperTurns(s, d) ==
    /\ OnFile(s)
    /\ paper' = [paper EXCEPT ![s] = IF d \in @ THEN @ \ {d} ELSE @ \cup {d}]
    /\ UNCHANGED <<registerVars, template, screening, creq>>

ScreeningInit ==
    /\ RegisterInit
    /\ template = OldTemplates
    /\ paper = [s \in Companies |-> {}]
    /\ screening = [x \in Screenings |-> NoScreening]
    /\ creq = [r \in ScreeningRequests |-> NoSave]

SaveStep(r) ==
    \/ \E x \in Screenings, responses \in [Items -> ScoreInputs], complete \in BOOLEAN :
         SaveScreening(r, x, responses, complete)
    \/ \E d \in Papers, answered \in BOOLEAN : LookForPaper(r, d, answered)
    \/ CommitScreening(r)
    \/ SaveFails(r)

ScreeningStep ==
    \/ \E t \in TemplateRows : CreateTemplate(t)
    \/ \E x \in Screenings, s \in Companies, t \in TemplateRows : StartScreening(x, s, t)
    \/ \E r \in ScreeningRequests : SaveStep(r)
    \/ \E s \in Companies, d \in Papers : PaperTurns(s, d)

ScreeningNext == (RegisterNext /\ UNCHANGED screeningVars) \/ ScreeningStep

ScreeningSpec == ScreeningInit /\ [][ScreeningNext]_allVars

-----------------------------------------------------------------------------
Passing == {"PASS", "CONDITIONAL_PASS"}

\* A verdict on file was earned by what the row itself holds: a template that cannot
\* decide never passes or rejects anyone, and a company that passes answered every
\* required item and scored on items that together are worth the threshold, so no
\* single score stands in for the others (decide, calculateScreening, updateScreening).
\* A template may itself let a company with gaps pass; such a verdict earns nothing.
VerdictsEarned ==
    \A x \in Screenings :
        LET row == screening[x]
            t == row.template
            scored == {i \in DOMAIN t.weight : row.responses[i] \notin {NoValue, 0} /\ t.weight[i] > 0}
        IN
        row.result \in Passing \cup {"REJECT"} =>
            /\ row.status = "completed"
            /\ t.pass > 0
            /\ row.result \in Passing /\ t.failure \notin Passing =>
                 /\ ~Unanswered(t, row.responses)
                 /\ SumFunction([i \in scored |-> 100 * t.weight[i]]) >= t.conditional
=============================================================================
