----------------------------- MODULE SumTheorems -----------------------------
(***************************************************************************)
(* Facts about sums over finite sets, and about the least and the greatest *)
(* of a finite set of numbers.  The sum is a recursive function on sets:   *)
(* induction over it takes a smallest set for which a fact fails.          *)
(***************************************************************************)
EXTENDS FiniteSetsExt, FiniteSetTheorems, WellFoundedInduction, TLAPS

\* Among the subsets of a finite set there is a smallest one.
LEMMA SmallestSet ==
    ASSUME NEW S, IsFiniteSet(S), NEW Family \in SUBSET SUBSET S, Family # {}
    PROVE  \E T \in Family : \A U \in Family : U \subseteq T => U = T
<1>1. IsWellFoundedOn(StrictSubsetOrdering(S), SUBSET S)
  BY FS_FiniteSubsetsOfFinite, FS_StrictSubsetOrderingWellFounded
<1>2. PICK T \in Family : \A U \in Family : ~(<<U, T>> \in StrictSubsetOrdering(S))
  BY <1>1, WFMin
<1> QED
  BY <1>2 DEF StrictSubsetOrdering

\* A set of natural numbers has a least element.
LEMMA LeastNumber ==
    ASSUME NEW T \in SUBSET Nat, T # {}
    PROVE  \E n \in T : \A m \in T : n <= m
<1>1. PICK k \in T : TRUE
  OBVIOUS
<1> DEFINE Family == {0 .. m : m \in {x \in T : x <= k}}
           All == 0 .. k
<1>2. IsFiniteSet(All) /\ Family \in SUBSET SUBSET All /\ Family # {}
  <2>1. k \in Int /\ 0 \in Int
    OBVIOUS
  <2>2. IsFiniteSet(0 .. k)
    BY <2>1, FS_Interval
  <2>3. \A m \in {x \in T : x <= k} : 0 .. m \subseteq 0 .. k
    OBVIOUS
  <2>4. 0 .. k \in Family
    OBVIOUS
  <2> QED
    BY <2>2, <2>3, <2>4
<1> HIDE DEF Family, All
<1>3. PICK F \in Family : \A U \in Family : U \subseteq F => U = F
  BY <1>2, SmallestSet
<1> USE DEF Family, All
<1>4. PICK n \in T : n <= k /\ F = 0 .. n
  BY <1>3
<1>5. ASSUME NEW m \in T, m < n PROVE FALSE
  <2>1. 0 .. m \in Family /\ 0 .. m \subseteq 0 .. n
    BY <1>4, <1>5
  <2>2. 0 .. m = 0 .. n
    BY <2>1, <1>3, <1>4
  <2> QED
    BY <2>2, <1>5
<1> QED
  BY <1>5

-----------------------------------------------------------------------------
Pick(s) == CHOOSE x \in s : TRUE
Others(s) == s \ {Pick(s)}
Adding(f, g, s) == IF s = {} THEN 0 ELSE f[Pick(s)] + g[Others(s)]
IsAdder(g, f, D) == g = [s \in D |-> Adding(f, g, s)]
Adder(f, S) == CHOOSE g : IsAdder(g, f, SUBSET S)
Small(S, n) == {s \in SUBSET S : Cardinality(s) <= n}

LEMMA SumIsAdder == \A f, S : SumFunctionOnSet(f, S) = Adder(f, S)[S]
  BY DEF SumFunctionOnSet, FoldFunctionOnSet, MapThenFoldSet, Adder, IsAdder, Adding, Pick, Others

LEMMA OthersAreFewer ==
    ASSUME NEW S, IsFiniteSet(S), S # {}
    PROVE  /\ Pick(S) \in S /\ Others(S) \subseteq S /\ Others(S) # S /\ IsFiniteSet(Others(S))
           /\ Cardinality(S) \in Nat \ {0} /\ Cardinality(Others(S)) = Cardinality(S) - 1
<1>1. Pick(S) \in S
  BY DEF Pick
<1> QED
  BY <1>1, FS_RemoveElement, FS_CardinalityType, FS_EmptySet DEF Others

\* The recursion has a solution: one set larger at a time.
LEMMA AdderOfSmall ==
    ASSUME NEW f, NEW S, IsFiniteSet(S), NEW n \in Nat
    PROVE  \E g : IsAdder(g, f, Small(S, n))
<1> DEFINE Bad == {k \in Nat : ~\E g : IsAdder(g, f, Small(S, k))}
<1> SUFFICES ASSUME Bad # {} PROVE FALSE
  OBVIOUS
<1>1. PICK k \in Bad : \A m \in Bad : k <= m
  BY LeastNumber
<1>2. CASE k = 0
  <2>1. \A s \in Small(S, 0) : s = {}
    BY FS_Subset, FS_EmptySet, FS_CardinalityType DEF Small
  <2>2. IsAdder([s \in Small(S, 0) |-> 0], f, Small(S, 0))
    BY <2>1 DEF IsAdder, Adding
  <2> QED
    BY <2>2, <1>2
<1>3. CASE k # 0
  <2> DEFINE low == k - 1
  <2>1. low \in Nat /\ low \notin Bad
    BY <1>1, <1>3
  <2>2. PICK g : IsAdder(g, f, Small(S, low))
    BY <2>1
  <2> DEFINE h == [s \in Small(S, k) |-> Adding(f, g, s)]
  <2>3. ASSUME NEW s \in Small(S, k), s # {}
        PROVE  Others(s) \in Small(S, low) /\ Others(s) \in Small(S, k)
    <3>1. IsFiniteSet(s)
      BY FS_Subset DEF Small
    <3> QED
      <4>1. Cardinality(s) <= k /\ Cardinality(s) \in Nat /\ Cardinality(Others(s)) = Cardinality(s) - 1 /\ Others(s) \subseteq s
        BY <2>3, <3>1, OthersAreFewer DEF Small
      <4>2. Cardinality(Others(s)) <= low /\ Cardinality(Others(s)) <= k /\ Others(s) \in SUBSET S
        BY <4>1, <1>1 DEF Small
      <4> QED
        BY <4>2 DEF Small
  <2>4. ASSUME NEW s \in Small(S, low)
        PROVE  g[s] = Adding(f, g, s) /\ s \in Small(S, k) /\ h[s] = g[s]
    <3>1. g[s] = Adding(f, g, s)
      BY <2>2 DEF IsAdder
    <3>2. s \in Small(S, k)
      <4>1. Cardinality(s) \in Nat
        BY FS_Subset, FS_CardinalityType DEF Small
      <4> QED
        BY <4>1 DEF Small
    <3> QED
      BY <3>1, <3>2
  <2>5. \A s \in Small(S, k) : Adding(f, g, s) = Adding(f, h, s)
    BY <2>3, <2>4 DEF Adding
  <2>6. IsAdder(h, f, Small(S, k))
    BY <2>5 DEF IsAdder
  <2> QED
    BY <2>6
<1> QED
  BY <1>2, <1>3

LEMMA AdderEquation ==
    ASSUME NEW f, NEW S, IsFiniteSet(S), NEW s \in SUBSET S
    PROVE  Adder(f, S)[s] = Adding(f, Adder(f, S), s)
<1>1. Cardinality(S) \in Nat /\ Small(S, Cardinality(S)) = SUBSET S
  BY FS_CardinalityType, FS_Subset DEF Small
<1>2. \E g : IsAdder(g, f, SUBSET S)
  <2>1. \E g : IsAdder(g, f, Small(S, Cardinality(S)))
    BY <1>1, AdderOfSmall
  <2> QED
    BY <2>1, <1>1
<1>3. IsAdder(Adder(f, S), f, SUBSET S)
  BY <1>2 DEF Adder
<1> QED
  BY <1>3 DEF IsAdder

\* Where the recursion started makes no difference.
LEMMA AdderAgrees ==
    ASSUME NEW f, NEW S, IsFiniteSet(S), NEW T \in SUBSET S
    PROVE  Adder(f, S)[T] = Adder(f, T)[T]
<1> DEFINE Bad == {s \in SUBSET S : \E R \in SUBSET S : s \subseteq R /\ Adder(f, R)[s] # Adder(f, s)[s]}
<1> SUFFICES ASSUME Bad # {} PROVE FALSE
  OBVIOUS
<1>0. Bad \in SUBSET SUBSET S
  OBVIOUS
<1> HIDE DEF Bad
<1>1. PICK s \in Bad : \A u \in Bad : u \subseteq s => u = s
  BY <1>0, SmallestSet
<1> USE DEF Bad
<1>2. PICK R \in SUBSET S : s \subseteq R /\ Adder(f, R)[s] # Adder(f, s)[s]
  BY <1>1
<1>3. IsFiniteSet(s) /\ IsFiniteSet(R)
  BY <1>1, FS_Subset
<1>4. Adder(f, R)[s] = Adding(f, Adder(f, R), s) /\ Adder(f, s)[s] = Adding(f, Adder(f, s), s)
  BY <1>2, <1>3, AdderEquation
<1>5. s # {}
  BY <1>2, <1>4 DEF Adding
<1>6. Others(s) \notin Bad /\ Others(s) \in SUBSET S /\ Others(s) \subseteq R /\ Others(s) \subseteq s
  BY <1>1, <1>2, <1>3, <1>5, OthersAreFewer
<1>7. Adder(f, R)[Others(s)] = Adder(f, s)[Others(s)]
  BY <1>6
<1> QED
  BY <1>2, <1>4, <1>5, <1>7 DEF Adding

-----------------------------------------------------------------------------
\* A sum takes one element after the other, in the order of Pick.
LEMMA SumStep ==
    ASSUME NEW f, NEW S, IsFiniteSet(S)
    PROVE  SumFunctionOnSet(f, S) = IF S = {} THEN 0 ELSE f[Pick(S)] + SumFunctionOnSet(f, Others(S))
<1>1. SumFunctionOnSet(f, S) = Adding(f, Adder(f, S), S)
  BY SumIsAdder, AdderEquation
<1>2. CASE S = {}
  BY <1>1, <1>2 DEF Adding
<1>3. CASE S # {}
  <2>1. Adder(f, S)[Others(S)] = SumFunctionOnSet(f, Others(S))
    BY <1>3, OthersAreFewer, SumIsAdder, AdderAgrees
  <2> QED
    BY <1>1, <1>3, <2>1 DEF Adding
<1> QED
  BY <1>2, <1>3

LEMMA SumOfNone == ASSUME NEW f PROVE SumFunctionOnSet(f, {}) = 0
  BY SumStep, FS_EmptySet

\* Induction over a finite set, one element at a time, for the sets with a property.
LEMMA OthersInduction ==
    ASSUME NEW S, IsFiniteSet(S), NEW Good,
           \A T \in SUBSET S : T = {} \/ Others(T) \in Good => T \in Good
    PROVE  \A T \in SUBSET S : T \in Good
<1> DEFINE Bad == {T \in SUBSET S : T \notin Good}
<1> SUFFICES ASSUME Bad # {} PROVE FALSE
  OBVIOUS
<1>1. Bad \in SUBSET SUBSET S
  OBVIOUS
<1> HIDE DEF Bad
<1>2. PICK T \in Bad : \A U \in Bad : U \subseteq T => U = T
  BY <1>1, SmallestSet
<1> USE DEF Bad
<1>3. T # {} /\ IsFiniteSet(T)
  BY <1>2, FS_Subset
<1>4. Others(T) \subseteq T /\ Others(T) # T
  BY <1>3, OthersAreFewer
<1> QED
  BY <1>2, <1>4

\* Only the elements that are added matter.
LEMMA SumAgrees ==
    ASSUME NEW f, NEW g, NEW S, IsFiniteSet(S), \A x \in S : f[x] = g[x]
    PROVE  SumFunctionOnSet(f, S) = SumFunctionOnSet(g, S)
<1> DEFINE Good == {T \in SUBSET S : SumFunctionOnSet(f, T) = SumFunctionOnSet(g, T)}
<1>1. ASSUME NEW T \in SUBSET S, T = {} \/ Others(T) \in Good
      PROVE  T \in Good
  <2>1. IsFiniteSet(T)
    BY FS_Subset
  <2>2. CASE T = {}
    BY <2>2, SumOfNone
  <2>3. CASE T # {}
    <3>1. Pick(T) \in S
      BY <2>1, <2>3, OthersAreFewer
    <3> QED
      BY <1>1, <2>1, <2>3, <3>1, SumStep
  <2> QED
    BY <2>2, <2>3
<1> HIDE DEF Good
<1>2. S \in Good
  BY <1>1, OthersInduction
<1> QED
  BY <1>2 DEF Good

\* A sum of integers is one, and of natural numbers.
LEMMA SumIsInt ==
    ASSUME NEW f, NEW S, IsFiniteSet(S), \A x \in S : f[x] \in Int
    PROVE  SumFunctionOnSet(f, S) \in Int
<1> DEFINE Good == {T \in SUBSET S : SumFunctionOnSet(f, T) \in Int}
<1>1. ASSUME NEW T \in SUBSET S, T = {} \/ Others(T) \in Good
      PROVE  T \in Good
  <2>1. IsFiniteSet(T)
    BY FS_Subset
  <2>2. CASE T = {}
    BY <2>2, SumOfNone
  <2>3. CASE T # {}
    <3>1. Pick(T) \in S
      BY <2>1, <2>3, OthersAreFewer
    <3> QED
      BY <1>1, <2>1, <2>3, <3>1, SumStep
  <2> QED
    BY <2>2, <2>3
<1> HIDE DEF Good
<1>2. S \in Good
  BY <1>1, OthersInduction
<1> QED
  BY <1>2 DEF Good

\* What is added to every element, is added to the sum.
LEMMA SumMonotone ==
    ASSUME NEW f, NEW g, NEW S, IsFiniteSet(S), \A x \in S : f[x] \in Int /\ g[x] \in Int /\ f[x] <= g[x]
    PROVE  SumFunctionOnSet(f, S) <= SumFunctionOnSet(g, S)
<1> DEFINE Good == {T \in SUBSET S : SumFunctionOnSet(f, T) <= SumFunctionOnSet(g, T)}
<1>1. ASSUME NEW T \in SUBSET S, T = {} \/ Others(T) \in Good
      PROVE  T \in Good
  <2>1. IsFiniteSet(T)
    BY FS_Subset
  <2>2. CASE T = {}
    BY <2>2, SumOfNone
  <2>3. CASE T # {}
    <3>1. Pick(T) \in S /\ Others(T) \subseteq S /\ IsFiniteSet(Others(T))
      BY <2>1, <2>3, OthersAreFewer
    <3>2. SumFunctionOnSet(f, Others(T)) \in Int /\ SumFunctionOnSet(g, Others(T)) \in Int
      BY <3>1, SumIsInt
    <3>3. SumFunctionOnSet(f, Others(T)) <= SumFunctionOnSet(g, Others(T))
      BY <1>1, <2>3
    <3>4. /\ SumFunctionOnSet(f, T) = f[Pick(T)] + SumFunctionOnSet(f, Others(T))
          /\ SumFunctionOnSet(g, T) = g[Pick(T)] + SumFunctionOnSet(g, Others(T))
      BY <2>1, <2>3, SumStep
    <3> QED
      BY <3>1, <3>2, <3>3, <3>4
  <2> QED
    BY <2>2, <2>3
<1> HIDE DEF Good
<1>2. S \in Good
  BY <1>1, OthersInduction
<1> QED
  BY <1>2 DEF Good

\* Any element may come first.
LEMMA SumTakes ==
    ASSUME NEW f, NEW S, IsFiniteSet(S), \A x \in S : f[x] \in Int, NEW x \in S
    PROVE  SumFunctionOnSet(f, S) = f[x] + SumFunctionOnSet(f, S \ {x})
<1> DEFINE Good == {T \in SUBSET S : \A y \in T : SumFunctionOnSet(f, T) = f[y] + SumFunctionOnSet(f, T \ {y})}
           Bad == {T \in SUBSET S : T \notin Good}
<1>0. Bad \in SUBSET SUBSET S
  OBVIOUS
<1>1. SUFFICES ASSUME Bad # {} PROVE FALSE
  OBVIOUS
<1> HIDE DEF Bad
<1>2. PICK T \in Bad : \A U \in Bad : U \subseteq T => U = T
  BY <1>0, <1>1, SmallestSet
<1> USE DEF Bad
<1>3. PICK y \in T : SumFunctionOnSet(f, T) # f[y] + SumFunctionOnSet(f, T \ {y})
  BY <1>2
<1> DEFINE p == Pick(T)
<1>4. IsFiniteSet(T) /\ T # {} /\ p \in T /\ Others(T) = T \ {p}
  BY <1>3, FS_Subset, OthersAreFewer DEF Others
<1>5. SumFunctionOnSet(f, T) = f[p] + SumFunctionOnSet(f, T \ {p})
  BY <1>4, SumStep
<1>6. p # y
  BY <1>3, <1>5
<1>7. T \ {p} \in Good /\ T \ {y} \in Good
  BY <1>2, <1>3, <1>4
<1> DEFINE R == (T \ {p}) \ {y}
<1>8. SumFunctionOnSet(f, T \ {p}) = f[y] + SumFunctionOnSet(f, R)
  BY <1>3, <1>6, <1>7
<1>9. SumFunctionOnSet(f, T \ {y}) = f[p] + SumFunctionOnSet(f, R)
  <2>1. SumFunctionOnSet(f, T \ {y}) = f[p] + SumFunctionOnSet(f, (T \ {y}) \ {p})
    BY <1>4, <1>6, <1>7
  <2>2. (T \ {y}) \ {p} = R
    OBVIOUS
  <2> QED
    BY <2>1, <2>2
<1>10. IsFiniteSet(R) /\ R \subseteq S
  BY <1>4, FS_RemoveElement
<1>11. SumFunctionOnSet(f, R) \in Int /\ f[p] \in Int /\ f[y] \in Int
  BY <1>3, <1>4, <1>10, SumIsInt
<1> HIDE DEF p, R, Good, Bad
<1>12. SumFunctionOnSet(f, T) = f[y] + SumFunctionOnSet(f, T \ {y})
  BY <1>5, <1>8, <1>9, <1>11
<1> QED
  BY <1>3, <1>12

\* The sum over a set is the sum over a part of it and the one over the rest.
LEMMA SumSplits ==
    ASSUME NEW f, NEW S, IsFiniteSet(S), \A x \in S : f[x] \in Int, NEW T \in SUBSET S
    PROVE  SumFunctionOnSet(f, S) = SumFunctionOnSet(f, T) + SumFunctionOnSet(f, S \ T)
<1> DEFINE Good == {U \in SUBSET S : SumFunctionOnSet(f, U) = SumFunctionOnSet(f, U \cap T) + SumFunctionOnSet(f, U \ T)}
<1>1. ASSUME NEW U \in SUBSET S, U = {} \/ Others(U) \in Good
      PROVE  U \in Good
  <2>1. IsFiniteSet(U) /\ IsFiniteSet(U \cap T) /\ IsFiniteSet(U \ T)
    BY FS_Subset
  <2>2. CASE U = {}
    <3>1. U \cap T = {} /\ U \ T = {}
      BY <2>2
    <3> QED
      BY <2>2, <3>1, SumOfNone
  <2>3. CASE U # {}
    <3> DEFINE p == Pick(U)
               R == Others(U)
    <3>1. p \in U /\ R \subseteq S /\ IsFiniteSet(R) /\ R = U \ {p}
      BY <2>1, <2>3, OthersAreFewer DEF Others
    <3>2. IsFiniteSet(R \cap T) /\ IsFiniteSet(R \ T) /\ R \cap T \subseteq S /\ R \ T \subseteq S
      BY <3>1, FS_Subset
    <3>3. SumFunctionOnSet(f, R \cap T) \in Int /\ SumFunctionOnSet(f, R \ T) \in Int /\ f[p] \in Int
      BY <3>1, <3>2, SumIsInt
    <3>4. SumFunctionOnSet(f, U) = f[p] + SumFunctionOnSet(f, R)
      BY <2>1, <2>3, SumStep
    <3>5. SumFunctionOnSet(f, R) = SumFunctionOnSet(f, R \cap T) + SumFunctionOnSet(f, R \ T)
      BY <1>1, <2>3
    <3>6. CASE p \in T
      <4>1. U \ T = R \ T /\ (U \cap T) \ {p} = R \cap T /\ p \in U \cap T /\ U \cap T \subseteq S
        BY <3>1, <3>6
      <4>2. SumFunctionOnSet(f, U \cap T) = f[p] + SumFunctionOnSet(f, (U \cap T) \ {p})
        BY <2>1, <4>1, SumTakes
      <4>3. SumFunctionOnSet(f, U \cap T) = f[p] + SumFunctionOnSet(f, R \cap T)
        BY <4>1, <4>2
      <4>4. SumFunctionOnSet(f, U) = SumFunctionOnSet(f, U \cap T) + SumFunctionOnSet(f, R \ T)
        BY <3>3, <3>4, <3>5, <4>3
      <4> QED
        BY <4>1, <4>4
    <3>7. CASE p \notin T
      <4>1. U \cap T = R \cap T /\ (U \ T) \ {p} = R \ T /\ p \in U \ T /\ U \ T \subseteq S
        BY <3>1, <3>7
      <4>2. SumFunctionOnSet(f, U \ T) = f[p] + SumFunctionOnSet(f, (U \ T) \ {p})
        BY <2>1, <4>1, SumTakes
      <4>3. SumFunctionOnSet(f, U \ T) = f[p] + SumFunctionOnSet(f, R \ T)
        BY <4>1, <4>2
      <4>4. SumFunctionOnSet(f, U) = SumFunctionOnSet(f, R \cap T) + SumFunctionOnSet(f, U \ T)
        BY <3>3, <3>4, <3>5, <4>3
      <4> QED
        BY <4>1, <4>4
    <3> QED
      BY <3>6, <3>7
  <2> QED
    BY <2>2, <2>3
<1> HIDE DEF Good
<1>2. \A U \in SUBSET S : U = {} \/ Others(U) \in Good => U \in Good
  BY <1>1
<1>3. \A U \in SUBSET S : U \in Good
  BY <1>2, OthersInduction
<1>4. S \in Good
  BY <1>3
<1>5. S \cap T = T
  OBVIOUS
<1> QED
  BY <1>4, <1>5 DEF Good

\* Elements that are at most c add up to at most c for each, and those that are at least c
\* to at least c for each.
LEMMA SumOfSame ==
    ASSUME NEW S, IsFiniteSet(S), NEW c \in Int
    PROVE  SumFunctionOnSet([x \in S |-> c], S) = c * Cardinality(S)
<1> DEFINE f == [x \in S |-> c]
           Good == {T \in SUBSET S : SumFunctionOnSet(f, T) = c * Cardinality(T)}
<1>1. ASSUME NEW T \in SUBSET S, T = {} \/ Others(T) \in Good
      PROVE  T \in Good
  <2>1. IsFiniteSet(T)
    BY FS_Subset
  <2>2. CASE T = {}
    BY <2>2, SumOfNone, FS_EmptySet
  <2>3. CASE T # {}
    <3>1. Pick(T) \in S /\ Cardinality(T) \in Nat /\ Cardinality(Others(T)) = Cardinality(T) - 1
      BY <2>1, <2>3, OthersAreFewer
    <3>2. SumFunctionOnSet(f, T) = f[Pick(T)] + SumFunctionOnSet(f, Others(T))
      BY <2>1, <2>3, SumStep
    <3>3. SumFunctionOnSet(f, Others(T)) = c * (Cardinality(T) - 1) /\ f[Pick(T)] = c
      BY <1>1, <2>3, <3>1
    <3>4. c + c * (Cardinality(T) - 1) = c * Cardinality(T)
      BY <3>1
    <3> QED
      BY <3>2, <3>3, <3>4
  <2> QED
    BY <2>2, <2>3
<1> HIDE DEF Good, f
<1>2. S \in Good
  BY <1>1, OthersInduction
<1> QED
  BY <1>2 DEF Good, f

LEMMA SumAtMost ==
    ASSUME NEW f, NEW S, IsFiniteSet(S), NEW c \in Int, \A x \in S : f[x] \in Int /\ f[x] <= c
    PROVE  SumFunctionOnSet(f, S) <= c * Cardinality(S)
<1> DEFINE g == [x \in S |-> c]
<1>1. \A x \in S : f[x] \in Int /\ g[x] \in Int /\ f[x] <= g[x]
  OBVIOUS
<1>2. SumFunctionOnSet(g, S) = c * Cardinality(S)
  BY SumOfSame
<1> HIDE DEF g
<1>3. SumFunctionOnSet(f, S) <= SumFunctionOnSet(g, S)
  BY <1>1, SumMonotone
<1> QED
  BY <1>2, <1>3

LEMMA SumAtLeast ==
    ASSUME NEW f, NEW S, IsFiniteSet(S), NEW c \in Int, \A x \in S : f[x] \in Int /\ c <= f[x]
    PROVE  c * Cardinality(S) <= SumFunctionOnSet(f, S)
<1> DEFINE g == [x \in S |-> c]
<1>1. \A x \in S : g[x] \in Int /\ f[x] \in Int /\ g[x] <= f[x]
  OBVIOUS
<1>2. SumFunctionOnSet(g, S) = c * Cardinality(S)
  BY SumOfSame
<1> HIDE DEF g
<1>3. SumFunctionOnSet(g, S) <= SumFunctionOnSet(f, S)
  BY <1>1, SumMonotone
<1> QED
  BY <1>2, <1>3

\* Where nothing is negative, a part is no more than the whole, and all of it when the
\* rest is nothing.
LEMMA SumOfPart ==
    ASSUME NEW f, NEW S, IsFiniteSet(S), \A x \in S : f[x] \in Nat, NEW T \in SUBSET S
    PROVE  /\ SumFunctionOnSet(f, T) \in Nat
           /\ SumFunctionOnSet(f, T) <= SumFunctionOnSet(f, S)
           /\ (\A x \in S \ T : f[x] = 0) => SumFunctionOnSet(f, S) = SumFunctionOnSet(f, T)
<1>1. IsFiniteSet(T) /\ IsFiniteSet(S \ T)
  BY FS_Subset
<1>2. Cardinality(T) \in Nat /\ Cardinality(S \ T) \in Nat
  BY <1>1, FS_CardinalityType
<1>3. SumFunctionOnSet(f, T) \in Int /\ SumFunctionOnSet(f, S \ T) \in Int
  BY <1>1, SumIsInt
<1>4. 0 * Cardinality(T) <= SumFunctionOnSet(f, T) /\ 0 * Cardinality(S \ T) <= SumFunctionOnSet(f, S \ T)
  BY <1>1, SumAtLeast
<1>5. SumFunctionOnSet(f, S) = SumFunctionOnSet(f, T) + SumFunctionOnSet(f, S \ T)
  BY SumSplits
<1>6. ASSUME \A x \in S \ T : f[x] = 0
      PROVE  SumFunctionOnSet(f, S \ T) <= 0 * Cardinality(S \ T)
  BY <1>1, <1>6, SumAtMost
<1> QED
  BY <1>2, <1>3, <1>4, <1>5, <1>6

\* Where one element counts for more, the sum grows by as much.
LEMMA SumGrows ==
    ASSUME NEW f, NEW g, NEW S, IsFiniteSet(S), \A x \in S : f[x] \in Int, NEW k, NEW d \in Int,
           \A x \in S : g[x] = IF x = k THEN f[x] + d ELSE f[x]
    PROVE  SumFunctionOnSet(g, S) = SumFunctionOnSet(f, S) + (IF k \in S THEN d ELSE 0)
<1>1. SumFunctionOnSet(f, S) \in Int
  BY SumIsInt
<1>2. CASE k \notin S
  <2>1. SumFunctionOnSet(f, S) = SumFunctionOnSet(g, S)
    BY <1>2, SumAgrees
  <2> QED
    BY <1>1, <1>2, <2>1
<1>3. CASE k \in S
  <2> DEFINE R == S \ {k}
  <2>1. IsFiniteSet(R) /\ \A x \in S : g[x] \in Int
    BY FS_RemoveElement
  <2>2. SumFunctionOnSet(f, S) = f[k] + SumFunctionOnSet(f, R)
    BY <1>3, SumTakes
  <2>3. SumFunctionOnSet(g, S) = g[k] + SumFunctionOnSet(g, R)
    BY <1>3, <2>1, SumTakes
  <2>4. SumFunctionOnSet(f, R) = SumFunctionOnSet(g, R)
    BY <2>1, SumAgrees
  <2>5. SumFunctionOnSet(f, R) \in Int
    BY <2>1, SumIsInt
  <2> QED
    BY <1>3, <2>2, <2>3, <2>4, <2>5
<1> QED
  BY <1>2, <1>3

-----------------------------------------------------------------------------
\* A finite set of integers has a greatest and a least element, which are Max and Min.
LEMMA MaxIsGreatest ==
    ASSUME NEW S \in SUBSET Int, IsFiniteSet(S), S # {}
    PROVE  Max(S) \in S /\ \A x \in S : x <= Max(S)
<1> DEFINE Good == {T \in SUBSET S : T = {} \/ \E m \in T : \A x \in T : m >= x}
<1>1. ASSUME NEW T \in SUBSET S, T = {} \/ Others(T) \in Good
      PROVE  T \in Good
  <2>1. CASE T # {}
    <3>1. Pick(T) \in T /\ Others(T) = T \ {Pick(T)}
      BY <2>1, FS_Subset, OthersAreFewer DEF Others
    <3>2. CASE Others(T) = {}
      BY <3>1, <3>2
    <3>3. CASE Others(T) # {}
      <4>1. PICK m \in Others(T) : \A x \in Others(T) : m >= x
        BY <1>1, <2>1, <3>3
      <4>2. CASE m >= Pick(T)
        BY <3>1, <4>1, <4>2
      <4>3. CASE ~(m >= Pick(T))
        <5> DEFINE p == Pick(T)
        <5>1. p \in Int /\ m \in Int /\ \A x \in T \ {p} : x \in Int /\ m >= x
          BY <3>1, <4>1
        <5> HIDE DEF p
        <5>2. \A x \in T : p >= x
          BY <5>1, <4>3 DEF p
        <5> QED
          BY <3>1, <5>2 DEF p
      <4> QED
        BY <4>2, <4>3
    <3> QED
      BY <3>2, <3>3
  <2> QED
    BY <2>1
<1> HIDE DEF Good
<1>2. \A T \in SUBSET S : T \in Good
  BY <1>1, OthersInduction
<1>3. \E m \in S : \A x \in S : m >= x
  BY <1>2 DEF Good
<1> QED
  BY <1>3 DEF Max

LEMMA MinIsLeast ==
    ASSUME NEW S \in SUBSET Nat, S # {}
    PROVE  Min(S) \in S /\ \A x \in S : Min(S) <= x
  BY LeastNumber DEF Min
=============================================================================
