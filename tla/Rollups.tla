------------------------------ MODULE Rollups -------------------------------
(***************************************************************************)
(* The figures Vendra caches on a supplier: its risk level, its score and  *)
(* grade, and its annual spend.  Each is derived from records (risks,      *)
(* evaluations, spend transactions) by a handler that inserts the record   *)
(* first and rewrites the figure in a statement of its own, whose failure  *)
(* is only logged.                                                         *)
(*                                                                         *)
(* An average is a pair, points over rows; points are hundredths (score *  *)
(* weight), of whole scores and weights, and so is the score a supplier    *)
(* shows, which is rounded where the grade is not.                         *)
(***************************************************************************)
EXTENDS Naturals, Sequences, FiniteSetsExt

CONSTANTS Firms,             \* rows of suppliers
          Records,           \* rows of risks, evaluations and spend_transactions (bound)
          RollupRequests,    \* HTTP requests in flight at once (bound)
          Severities,        \* risk grades a form may send
          Scorecards,        \* scorecard templates: weights of the criteria, grade rules
          Marks,             \* marks an evaluator may send
          Unmarked,          \* the mark that is not sent
          Amounts            \* amounts of a spend transaction

ASSUME RollupAssumption == Amounts \subseteq Nat

VARIABLES figures,    \* the cached columns of suppliers
          record,     \* the three tables
          rreq,       \* handlers in flight
          missed      \* ghost: figures a lost statement, a hand or the calendar overtook

rollupVars == <<figures, record, rreq, missed>>

NoRecord == [kind |-> "none"]
NoFigure == [points |-> 0, rows |-> 0]
Quiet == [pc |-> "idle", firm |-> "none", severity |-> "none", rules |-> <<>>,
          average |-> NoFigure, sum |-> 0, alone |-> TRUE]

Of(s, kind) == {k \in Records : record[k].kind = kind /\ record[k].firm = s}

\* CASE severity WHEN 'CRITICAL' THEN 4 ...
Rank(severity) ==
    CASE severity = "CRITICAL" -> 4 [] severity = "HIGH" -> 3 [] severity = "MEDIUM" -> 2 [] OTHER -> 1

\* Mutant: the level follows the latest risk, as a plain rollup would.
Raised_Latest(level, severity) == severity

\* The level only ever rises, and only the new risk is looked at.
Raised(level, severity) == IF Rank(severity) > Rank(level) THEN severity ELSE level

\* The first rule whose minimum is reached; D when none is.
Grade(rules, average) ==
    LET reached == {n \in DOMAIN rules : rules[n].min * average.rows <= average.points}
    IN IF reached = {} THEN "D" ELSE rules[Min(reached)].grade

\* Every criterion is marked, from 0 to 100.
Gradable(card, marks) == \A c \in DOMAIN card.weight : marks[c] # Unmarked /\ marks[c] <= 100

Total(card, marks) == SumFunction([c \in DOMAIN card.weight |-> marks[c] * card.weight[c]])

\* Mutant: evaluations that are still drafts count as well.
Counted_All(s) == Of(s, "evaluation")

Counted(s) == {k \in Of(s, "evaluation") : record[k].completed}

\* COALESCE(avg(total_score), own total)
Average(s, own) ==
    IF Counted(s) = {} THEN [points |-> own, rows |-> 1]
    ELSE [points |-> SumFunction([k \in Counted(s) |-> record[k].total]), rows |-> Cardinality(Counted(s))]

\* numeric(7,2): to the next hundredth, a half up.
Rounded(average) == (2 * average.points + average.rows) \div (2 * average.rows)

Recent(s) == {k \in Of(s, "spend") : record[k].recent}

Spent(s) == SumFunction([k \in Recent(s) |-> record[k].amount])

\* Requests that touch the same figure of the same firm at once.
Figure(pc) == CASE pc = "raise" -> "level"
                [] pc \in {"average", "grade"} -> "score"
                [] pc \in {"sum", "spend"} -> "spend"
                [] OTHER -> "none"

Meets(r, s, figure) ==
    {q \in RollupRequests \ {r} : rreq[q].firm = s /\ Figure(rreq[q].pc) = figure}

\* r goes on with its second statement; whoever it meets is no longer alone.
Goes(r, s, pc, fields) ==
    LET others == Meets(r, s, Figure(pc)) IN
    rreq' = [q \in RollupRequests |->
               IF q = r THEN [fields EXCEPT !.pc = pc, !.firm = s, !.alone = others = {}]
               ELSE IF q \in others THEN [rreq[q] EXCEPT !.alone = FALSE]
               ELSE rreq[q]]

\* A figure that was rewritten by somebody who was alone is caught up with.
CaughtUp(r, s, figure) ==
    missed' = [missed EXCEPT ![s] = IF rreq[r].alone THEN @ \ {figure} ELSE @ \cup {figure}]

Overtaken(s, figure) == missed' = [missed EXCEPT ![s] = @ \cup {figure}]

Finish(r) == rreq' = [rreq EXCEPT ![r] = Quiet]

-----------------------------------------------------------------------------
\* createRisk: the row ...
CreateRisk(r, k, s, severity) ==
    /\ rreq[r].pc = "idle"
    /\ record[k] = NoRecord
    /\ record' = [record EXCEPT ![k] = [kind |-> "risk", firm |-> s, severity |-> severity]]
    /\ Goes(r, s, "raise", [Quiet EXCEPT !.severity = severity])
    /\ UNCHANGED <<figures, missed>>

\* ... and the level, guarded inside the UPDATE.
RaiseLevel(r) ==
    LET s == rreq[r].firm IN
    /\ rreq[r].pc = "raise"
    /\ figures' = [figures EXCEPT ![s].level = Raised(@, rreq[r].severity)]
    /\ Finish(r)
    /\ UNCHANGED <<record, missed>>

-----------------------------------------------------------------------------
\* createEvaluation: marks become a total and a grade on the row; the status may say
\* that the evaluation is not complete yet.
CreateEvaluation(r, k, s, card, marks, completed) ==
    /\ rreq[r].pc = "idle"
    /\ record[k] = NoRecord
    /\ Gradable(card, marks)
    /\ LET total == Total(card, marks) IN
       /\ record' = [record EXCEPT ![k] =
                       [kind |-> "evaluation", firm |-> s, completed |-> completed, total |-> total,
                        grade |-> Grade(card.rules, [points |-> total, rows |-> 1])]]
       /\ Goes(r, s, "average", [Quiet EXCEPT !.rules = card.rules, !.sum = total])
    /\ UNCHANGED <<figures, missed>>

\* The average over all completed evaluations, in a statement of its own.
ReadAverage(r) ==
    /\ rreq[r].pc = "average"
    /\ rreq' = [rreq EXCEPT ![r].pc = "grade", ![r].average = Average(rreq[r].firm, rreq[r].sum)]
    /\ UNCHANGED <<figures, record, missed>>

\* Score and grade, the latter from the average before it is rounded, by the rules of this
\* request's scorecard.
WriteScore(r) ==
    LET q == rreq[r] IN
    /\ q.pc = "grade"
    /\ figures' = [figures EXCEPT ![q.firm].score = Rounded(q.average), ![q.firm].grade = Grade(q.rules, q.average)]
    /\ Finish(r)
    /\ CaughtUp(r, q.firm, "score")
    /\ UNCHANGED record

-----------------------------------------------------------------------------
\* createSpendTransaction: the row ...
CreateSpend(r, k, s, amount, recent) ==
    /\ rreq[r].pc = "idle"
    /\ record[k] = NoRecord
    /\ record' = [record EXCEPT ![k] = [kind |-> "spend", firm |-> s, amount |-> amount, recent |-> recent]]
    /\ Goes(r, s, "sum", Quiet)
    /\ UNCHANGED <<figures, missed>>

\* ... and one UPDATE whose subquery sees a snapshot: a row that another request
\* commits while this one waits for the supplier's row is not in it.
ReadSum(r) ==
    /\ rreq[r].pc = "sum"
    /\ rreq' = [rreq EXCEPT ![r].pc = "spend", ![r].sum = Spent(rreq[r].firm)]
    /\ UNCHANGED <<figures, record, missed>>

WriteSpend(r) ==
    LET q == rreq[r] IN
    /\ q.pc = "spend"
    /\ figures' = [figures EXCEPT ![q.firm].spend = q.sum]
    /\ Finish(r)
    /\ CaughtUp(r, q.firm, "spend")
    /\ UNCHANGED record

-----------------------------------------------------------------------------
\* The second statement fails, or the replica dies before it: the record stays.
RollupLost(r) ==
    /\ rreq[r].pc # "idle"
    /\ Overtaken(rreq[r].firm, Figure(rreq[r].pc))
    /\ Finish(r)
    /\ UNCHANGED <<figures, record>>

\* updateSupplier writes level, grade and annual spend by hand.
CorrectByHand(s, severity, amount) ==
    /\ figures' = [figures EXCEPT ![s].level = severity, ![s].grade = "D", ![s].spend = amount]
    /\ missed' = [missed EXCEPT ![s] = {"level", "score", "spend"}]
    /\ UNCHANGED <<record, rreq>>

\* A transaction leaves the window of a year.
SpendAges(k) ==
    /\ record[k].kind = "spend"
    /\ record[k].recent
    /\ record' = [record EXCEPT ![k].recent = FALSE]
    /\ Overtaken(record[k].firm, "spend")
    /\ rreq' = [q \in RollupRequests |->
                  IF rreq[q].firm = record[k].firm /\ Figure(rreq[q].pc) = "spend"
                    THEN [rreq[q] EXCEPT !.alone = FALSE] ELSE rreq[q]]
    /\ UNCHANGED figures

RollupInit ==
    /\ figures = [s \in Firms |-> [level |-> "LOW", score |-> 0, grade |-> "none", spend |-> 0]]
    /\ record = [k \in Records |-> NoRecord]
    /\ rreq = [r \in RollupRequests |-> Quiet]
    /\ missed = [s \in Firms |-> {}]

RollupStep(r) ==
    \/ \E k \in Records, s \in Firms :
         \/ \E severity \in Severities : CreateRisk(r, k, s, severity)
         \/ \E card \in Scorecards, completed \in BOOLEAN :
              \E marks \in [DOMAIN card.weight -> Marks] : CreateEvaluation(r, k, s, card, marks, completed)
         \/ \E amount \in Amounts, recent \in BOOLEAN : CreateSpend(r, k, s, amount, recent)
    \/ RaiseLevel(r) \/ ReadAverage(r) \/ WriteScore(r) \/ ReadSum(r) \/ WriteSpend(r)
    \/ RollupLost(r)

RollupNext ==
    \/ \E r \in RollupRequests : RollupStep(r)
    \/ \E s \in Firms, severity \in Severities, amount \in Amounts : CorrectByHand(s, severity, amount)
    \/ \E k \in Records : SpendAges(k)

RollupSpec == RollupInit /\ [][RollupNext]_rollupVars

-----------------------------------------------------------------------------
AtRest(s, figure) == \A r \in RollupRequests : ~(rreq[r].firm = s /\ Figure(rreq[r].pc) = figure)

\* Unless a statement was lost or the level was set by hand, the level a supplier shows
\* is at least the severity of every risk on file, however many requests recorded
\* risks at once (createRisk; the guard of its UPDATE is what makes the order not
\* matter).
LevelCovers ==
    \A s \in Firms :
        AtRest(s, "level") /\ "level" \notin missed[s] =>
            \A k \in Of(s, "risk") : Rank(record[k].severity) <= Rank(figures[s].level)

\* The next write repairs score and spend: once a request that was alone has rewritten
\* the figure, it is the one the records give, whatever statement was lost and whatever
\* a hand wrote before, and the grade is the one some scorecard gives the average
\* (createEvaluation, createSpendTransaction).
RecomputedExactly ==
    \A s \in Firms :
        /\ AtRest(s, "score") /\ "score" \notin missed[s] /\ (\E k \in Of(s, "evaluation") : record[k].completed) =>
             LET done == {k \in Of(s, "evaluation") : record[k].completed}
                 average == [points |-> SumFunction([k \in done |-> record[k].total]), rows |-> Cardinality(done)] IN
             /\ figures[s].score = Rounded(average)
             /\ \E card \in Scorecards : figures[s].grade = Grade(card.rules, average)
        /\ AtRest(s, "spend") /\ "spend" \notin missed[s] =>
             figures[s].spend =
               SumFunction([k \in {x \in Of(s, "spend") : record[x].recent} |-> record[k].amount])

=============================================================================
