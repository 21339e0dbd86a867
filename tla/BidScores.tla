------------------------------ MODULE BidScores ------------------------------
(***************************************************************************)
(* The scores of the bids of one tender: evaluations by the committee, and *)
(* the recalculation, which weighs the submitted bids of a snapshot and    *)
(* writes their scores when it gets their rows, behind the savers of bids, *)
(* the evaluators and the other recalculations.                            *)
(***************************************************************************)
EXTENDS Naturals, FiniteSetsExt

CONSTANTS Bids,           \* one row of sourcing_responses for each invited supplier
          Quotes, Days,  \* total_amount and delivery_days that suppliers send (0 also stands for none)
          Averages,          \* averages of the scores of an evaluation
          Judges, Chiefs, \* internal users, and those with every permission
          Standing,       \* the quality and risk shares together that the register gives each bidder
          WeightSets,     \* values of sourcing.score_weights: <<price, delivery, technical, register>>
          Readers,        \* requests that end in a recalculation
          SaveBound       \* saves of bids, marks, members and weights in a behaviour

ASSUME ScoreAssumption ==
    /\ Quotes \subseteq Nat /\ Days \subseteq Nat /\ Averages \subseteq 0 .. 100
    /\ Standing \in [Bids -> 0 .. 100] /\ SaveBound \in Nat
    /\ WeightSets \subseteq Nat \X Nat \X Nat \X Nat /\ IsFiniteSet(Judges)

VARIABLES bid,        \* [submitted, amount, days] of each row
          score,      \* final_score of each row
          mark,       \* sourcing_evaluations: total_score of each evaluator for each bid
          committee,
          weights,
          reader,     \* the requests; "clean" is a ghost, see Disturb
          saves       \* how many saves there were, for SaveBound

scoreVars == <<bid, score, mark, committee, weights, reader, saves>>

NoScore == 101
NoMark == 101
NotAsked == [pc |-> "none"]
DefaultWeights == <<30, 15, 20, 35>>

\* Mutant: each bid against the dearest one.
PriceShare_Dearest(amounts, a) == IF a > 0 THEN (100 * a) \div Max(amounts) ELSE 0

\* recalculateSourcing, the shares of the score: a bid without an amount gets nothing
\* for it, one without days half.
PriceShare(amounts, a) == IF a > 0 THEN (100 * Min({x \in amounts : x > 0})) \div a ELSE 0
DeliveryShare(days, d) == IF d > 0 THEN (100 * Min({x \in days : x > 0})) \div d ELSE 50

TechnicalShare(marks, b) ==
    LET given == {j \in Judges : marks[b][j] # NoMark} IN
    IF given = {} THEN 50 ELSE SumFunctionOnSet(marks[b], given) \div Cardinality(given)

\* The scores of the bids of a snapshot; the others keep what they have.
Weighed(w, bids, marks) ==
    LET sent == {b \in Bids : bids[b].submitted}
        amounts == {bids[b].amount : b \in sent}
        days == {bids[b].days : b \in sent}
    IN [b \in sent |-> (w[1] * PriceShare(amounts, bids[b].amount) + w[2] * DeliveryShare(days, bids[b].days)
                         + w[3] * TechnicalShare(marks, b) + w[4] * Standing[b]) \div (w[1] + w[2] + w[3] + w[4])]

\* Ghost: the requests under way have had another one's write between their reads and theirs.
Disturb(own) ==
    [q \in Readers |-> IF q \in own \/ reader[q].pc = "none" THEN reader[q] ELSE [reader[q] EXCEPT !.clean = FALSE]]

Saves == saves < SaveBound /\ saves' = saves + 1
Enters(r, st) == reader[r].pc = "none" /\ reader' = [Disturb({r}) EXCEPT ![r] = st]

-----------------------------------------------------------------------------
\* saveSourcingResponse: the row; a submitted bid is followed by a recalculation.
SaveRow(r, b, submitted, a, d) ==
    /\ Saves
    /\ bid' = [bid EXCEPT ![b] = [submitted |-> submitted, amount |-> a, days |-> d]]
    /\ Enters(r, IF submitted THEN [pc |-> "weigh", shows |-> FALSE, clean |-> TRUE] ELSE NotAsked)
    /\ UNCHANGED <<score, mark, committee, weights>>

\* evaluateSourcingResponse: who may evaluate ...
CheckEvaluator(r, j, b, m) ==
    /\ reader[r].pc = "none"
    /\ committee = {} \/ j \in committee \cup Chiefs
    /\ reader' = [reader EXCEPT ![r] = [pc |-> "mark", judge |-> j, bid |-> b, value |-> m, clean |-> TRUE]]
    /\ UNCHANGED <<bid, score, mark, committee, weights, saves>>

\* ... and then the evaluation.
SaveMark(r) ==
    /\ reader[r].pc = "mark"
    /\ Saves
    /\ mark' = [mark EXCEPT ![reader[r].bid][reader[r].judge] = reader[r].value]
    /\ reader' = [Disturb({r}) EXCEPT ![r] = [pc |-> "weigh", shows |-> FALSE, clean |-> TRUE]]
    /\ UNCHANGED <<bid, score, committee, weights>>

\* addSourcingCommittee: one statement for each user, so a failure leaves the first ones.
AddMember(j) ==
    /\ Saves /\ j \notin committee
    /\ committee' = committee \cup {j}
    /\ UNCHANGED <<bid, score, mark, weights, reader>>

\* putSetting
SetWeights(w) ==
    /\ Saves /\ w # weights
    /\ weights' = w
    /\ reader' = Disturb({})
    /\ UNCHANGED <<bid, score, mark, committee>>

\* sourcingComparison begins with a recalculation.
Compare(r) ==
    /\ reader[r].pc = "none"
    /\ reader' = [reader EXCEPT ![r] = [pc |-> "weigh", shows |-> TRUE, clean |-> TRUE]]
    /\ UNCHANGED <<bid, score, mark, committee, weights, saves>>

\* recalculateSourcing: the weights, the defaults when they cannot be read or add up to nothing ...
ReadWeights(r, read) ==
    /\ reader[r].pc = "weigh"
    /\ LET w == IF read /\ weights # <<0, 0, 0, 0>> THEN weights ELSE DefaultWeights
       IN reader' = [reader EXCEPT ![r] = [pc |-> "base", w |-> w, shows |-> @.shows, clean |-> @.clean /\ read]]
    /\ UNCHANGED <<bid, score, mark, committee, weights, saves>>

\* ... the statement's snapshot ...
ReadBase(r) ==
    /\ reader[r].pc = "base"
    /\ reader' = [reader EXCEPT ![r] = [pc |-> "write", result |-> Weighed(@.w, bid, mark), shows |-> @.shows, clean |-> @.clean]]
    /\ UNCHANGED <<bid, score, mark, committee, weights, saves>>

Onward(st, clean) == IF st.pc # "mark" /\ st.shows THEN [pc |-> "show", clean |-> clean] ELSE NotAsked

\* ... and its writes, once it has the rows.
WriteScores(r) ==
    /\ reader[r].pc = "write"
    /\ LET st == reader[r] IN
       /\ score' = [b \in Bids |-> IF b \in DOMAIN st.result THEN st.result[b] ELSE score[b]]
       /\ reader' = [Disturb({r}) EXCEPT ![r] = Onward(st, st.clean)]
    /\ UNCHANGED <<bid, mark, committee, weights, saves>>

\* A statement fails: the callers of the recalculation drop its error.
StatementFails(r) ==
    /\ reader[r].pc \in {"mark", "base", "write"}
    /\ reader' = [reader EXCEPT ![r] = Onward(@, FALSE)]
    /\ UNCHANGED <<bid, score, mark, committee, weights, saves>>

\* sourcingComparison reads and answers the rows of the submitted bids.
ShowRows(r) ==
    /\ reader[r].pc = "show"
    /\ reader' = [reader EXCEPT ![r] = NotAsked]
    /\ UNCHANGED <<bid, score, mark, committee, weights, saves>>

ScoreInit ==
    /\ bid = [b \in Bids |-> [submitted |-> FALSE, amount |-> 0, days |-> 0]]
    /\ score = [b \in Bids |-> NoScore]
    /\ mark = [b \in Bids |-> [j \in Judges |-> NoMark]]
    /\ committee = {}
    /\ weights = DefaultWeights  \* migration 003
    /\ reader = [r \in Readers |-> NotAsked]
    /\ saves = 0

ScoreNext ==
    \/ \E j \in Judges : AddMember(j)
    \/ \E w \in WeightSets : SetWeights(w)
    \/ \E r \in Readers :
        \/ \E b \in Bids, submitted \in BOOLEAN, a \in Quotes, d \in Days : SaveRow(r, b, submitted, a, d)
        \/ \E j \in Judges, b \in Bids, m \in Averages : CheckEvaluator(r, j, b, m)
        \/ \E read \in BOOLEAN : ReadWeights(r, read)
        \/ SaveMark(r) \/ Compare(r) \/ ReadBase(r) \/ WriteScores(r) \/ StatementFails(r) \/ ShowRows(r)

ScoreSpec == ScoreInit /\ [][ScoreNext]_scoreVars

-----------------------------------------------------------------------------
\* A comparison that nothing failed in and that nobody else wrote during ranks the
\* bids it shows: one with an amount and a delivery time that is no dearer, no later
\* and no worse by the committee and the register than another scores no less, and
\* every bid has a score, whatever recalculations came before.
NoWorse(a, b) ==
    /\ 0 < bid[a].amount /\ bid[a].amount <= bid[b].amount
    /\ 0 < bid[a].days /\ bid[a].days <= bid[b].days
    /\ TechnicalShare(mark, a) >= TechnicalShare(mark, b) /\ Standing[a] >= Standing[b]

ComparisonRanks ==
    \A r \in Readers : reader[r].pc = "show" /\ reader[r].clean =>
      LET shown == {b \in Bids : bid[b].submitted} IN
      /\ \A b \in shown : score[b] # NoScore
      /\ \A a, b \in shown : NoWorse(a, b) => score[a] >= score[b]
=============================================================================
