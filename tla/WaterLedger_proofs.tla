------------------------- MODULE WaterLedger_proofs --------------------------
(***************************************************************************)
(* Proofs about WaterLedger, for any products, days, quantities and        *)
(* numbers of rows.                                                        *)
(*                                                                         *)
(* The balances of the ledger are sums over its allocations and the        *)
(* matching is a fold over the open lots, and over all that waits.  So the *)
(* first part proves induction over finite sets, that a fold is defined,   *)
(* and what sums do; the second what one match, the matching of one        *)
(* distribution and the matching of all preserve and achieve; the third    *)
(* that every service hands the matching a ledger that is ready for it.    *)
(***************************************************************************)
EXTENDS WaterLedger, FiniteSetTheorems, WellFoundedInduction, TLAPS

-----------------------------------------------------------------------------
(* Induction and folds *)

\* A set of naturals with 0 and the successor of each member is all of them.
LEMMA NatSetInduction ==
    ASSUME NEW T \in SUBSET Nat, 0 \in T, \A n \in T : n + 1 \in T
    PROVE  T = Nat
<1> DEFINE U == Nat \ T
<1>1. SUFFICES ASSUME U # {} PROVE FALSE
  OBVIOUS
<1>2. PICK x \in U : \A y \in U : <<y, x>> \notin OpToRel(<, Nat)
  <2>1. IsWellFoundedOn(OpToRel(<, Nat), Nat)
    BY NatLessThanWellFounded
  <2>2. U \subseteq Nat
    OBVIOUS
  <2> QED BY <1>1, <2>1, <2>2, WFMin
<1>3. x \in Nat /\ x - 1 \in Nat
  OBVIOUS
<1>4. <<x - 1, x>> \in OpToRel(<, Nat)
  BY <1>3 DEF OpToRel
<1>5. x - 1 \in T
  BY <1>2, <1>3, <1>4
<1> QED BY <1>3, <1>5

\* A family of subsets of a finite set that holds a set whenever it holds all
\* that lack one element of it is all of them.
LEMMA SubsetInduction ==
    ASSUME NEW S, IsFiniteSet(S), NEW T \in SUBSET SUBSET S,
           \A s \in SUBSET S : (\A x \in s : s \ {x} \in T) => s \in T
    PROVE  T = SUBSET S
<1> DEFINE N == {n \in Nat : \A s \in SUBSET S : Cardinality(s) = n => s \in T}
<1>1. \A s \in SUBSET S : IsFiniteSet(s) /\ Cardinality(s) \in Nat
  BY FS_Subset, FS_CardinalityType
<1>2. 0 \in N
  <2>1. \A s \in SUBSET S : Cardinality(s) = 0 => s = {}
    BY <1>1, FS_EmptySet
  <2>2. {} \in T
    OBVIOUS
  <2> QED BY <2>1, <2>2
<1>3. ASSUME NEW n \in N PROVE n + 1 \in N
  <2>1. ASSUME NEW s \in SUBSET S, Cardinality(s) = n + 1 PROVE s \in T
    <3>1. ASSUME NEW x \in s PROVE s \ {x} \in T
      <4>1. Cardinality(s \ {x}) = Cardinality(s) - 1
        BY <1>1, FS_RemoveElement
      <4>2. Cardinality(s \ {x}) = n
        BY <2>1, <4>1
      <4> QED BY <4>2
    <3> QED BY <3>1
  <2> QED BY <2>1
<1>4. N = Nat
  <2> HIDE DEF N
  <2>1. N \subseteq Nat BY DEF N
  <2> QED BY <1>2, <1>3, <2>1, NatSetInduction
<1>5. \A s \in SUBSET S : Cardinality(s) \in N
  BY <1>1, <1>4
<1> QED BY <1>5

ChoosesFrom(c, S) == \A s \in SUBSET S : s # {} => c[s] \in s

IsFold(g, S, base, F, c) ==
    \A s \in SUBSET S : g[s] = IF s = {} THEN base ELSE F[g[s \ {c[s]}]][c[s]]

\* A fold over a finite set is defined: for a function F that takes one element
\* more into a value, and a choice c of the element that comes last.
LEMMA FoldExists ==
    ASSUME NEW S, IsFiniteSet(S), NEW V, NEW base \in V, NEW F \in [V -> [S -> V]],
           NEW c, ChoosesFrom(c, S)
    PROVE  \E g \in [SUBSET S -> V] : IsFold(g, S, base, F, c)
<1> USE DEF ChoosesFrom
<1> DEFINE D(n) == {s \in SUBSET S : Cardinality(s) <= n}
           Is(g, n) == \A s \in D(n) :
                          g[s] = IF s = {} THEN base ELSE F[g[s \ {c[s]}]][c[s]]
           N == {n \in Nat : \E g \in [D(n) -> V] : Is(g, n)}
<1>1. \A s \in SUBSET S : IsFiniteSet(s) /\ Cardinality(s) \in Nat
  BY FS_Subset, FS_CardinalityType
<1>2. 0 \in N
  <2>1. \A s \in D(0) : s = {}
    BY <1>1, FS_EmptySet
  <2>2. Is([s \in D(0) |-> base], 0) /\ [s \in D(0) |-> base] \in [D(0) -> V]
    BY <2>1
  <2> QED BY <2>2
<1>3. ASSUME NEW n \in N PROVE n + 1 \in N
  <2>1. n \in Nat /\ n + 1 \in Nat
    OBVIOUS
  <2>2. PICK g \in [D(n) -> V] : Is(g, n)
    OBVIOUS
  <2> DEFINE h == [s \in D(n + 1) |-> IF s = {} THEN base ELSE F[g[s \ {c[s]}]][c[s]]]
  <2>3. ASSUME NEW s \in D(n + 1), s # {} PROVE s \ {c[s]} \in D(n) /\ c[s] \in S
    <3>1. s \in SUBSET S /\ Cardinality(s) <= n + 1 /\ c[s] \in s
      BY <2>3
    <3>2. IsFiniteSet(s) /\ Cardinality(s) \in Nat
      BY <1>1, <3>1
    <3>3. Cardinality(s \ {c[s]}) = Cardinality(s) - 1
      <4>1. \A x \in s : Cardinality(s \ {x}) = Cardinality(s) - 1
        BY <3>2, FS_RemoveElement
      <4> QED BY <3>1, <4>1
    <3>4. Cardinality(s \ {c[s]}) <= n
      BY <2>1, <3>1, <3>2, <3>3
    <3> QED BY <3>1, <3>4
  <2>4. h \in [D(n + 1) -> V]
    <3>1. ASSUME NEW s \in D(n + 1), s # {} PROVE F[g[s \ {c[s]}]][c[s]] \in V
      <4>1. g[s \ {c[s]}] \in V /\ c[s] \in S
        BY <2>3, <3>1
      <4>2. \A v \in V, x \in S : F[v][x] \in V
        OBVIOUS
      <4> QED BY <4>1, <4>2
    <3> HIDE DEF D
    <3> QED BY <3>1
  <2>5. \A s \in D(n) : s \in D(n + 1)
    <3>1. ASSUME NEW s \in SUBSET S, Cardinality(s) <= n PROVE Cardinality(s) <= n + 1
      BY <1>1, <2>1, <3>1
    <3> QED BY <3>1
  <2>6. \A s \in D(n) : h[s] = g[s]
    <3> HIDE DEF D
    <3> QED BY <2>2, <2>5
  <2>7. Is(h, n + 1)
    <3>1. \A s \in D(n + 1) : s # {} => h[s \ {c[s]}] = g[s \ {c[s]}]
      BY <2>3, <2>6
    <3> HIDE DEF D
    <3> QED BY <3>1
  <2> HIDE DEF h, Is, D
  <2> QED BY <2>1, <2>4, <2>7
<1>4. N = Nat
  <2> HIDE DEF N
  <2>1. N \subseteq Nat BY DEF N
  <2> QED BY <1>2, <1>3, <2>1, NatSetInduction
<1>5. Cardinality(S) \in N
  BY <1>1, <1>4
<1>6. D(Cardinality(S)) = SUBSET S
  BY <1>1, FS_Subset
<1>7. \E g \in [SUBSET S -> V] : Is(g, Cardinality(S))
  <2> HIDE DEF D
  <2> QED BY <1>5, <1>6
<1> QED BY <1>6, <1>7 DEF IsFold

-----------------------------------------------------------------------------
(* Sums *)

Pick(s) == CHOOSE x \in s : TRUE

\* The function that SumFunctionOnSet(f, S) takes at S.
SumOver(f, S) ==
    CHOOSE g : g = [s \in SUBSET S |-> IF s = {} THEN 0 ELSE f[Pick(s)] + g[s \ {Pick(s)}]]

LEMMA SumIs ==
    ASSUME NEW f, NEW S
    PROVE  SumFunctionOnSet(f, S) = SumOver(f, S)[S]
BY DEF SumFunctionOnSet, FoldFunctionOnSet, MapThenFoldSet, SumOver, Pick

LEMMA PickIn == \A s : s # {} => Pick(s) \in s
BY DEF Pick

LEMMA SumDefined ==
    ASSUME NEW S, IsFiniteSet(S), NEW f, \A x \in S : f[x] \in Int
    PROVE  /\ SumOver(f, S) \in [SUBSET S -> Int]
           /\ \A s \in SUBSET S : SumOver(f, S)[s] =
                 IF s = {} THEN 0 ELSE f[Pick(s)] + SumOver(f, S)[s \ {Pick(s)}]
<1> DEFINE Step(g) == [s \in SUBSET S |-> IF s = {} THEN 0 ELSE f[Pick(s)] + g[s \ {Pick(s)}]]
           F == [v \in Int |-> [x \in S |-> f[x] + v]]
           c == [s \in SUBSET S |-> Pick(s)]
<1>1. F \in [Int -> [S -> Int]]
  OBVIOUS
<1>2. ChoosesFrom(c, S)
  BY PickIn DEF ChoosesFrom
<1>3. PICK g \in [SUBSET S -> Int] : IsFold(g, S, 0, F, c)
  <2>1. 0 \in Int
    OBVIOUS
  <2> HIDE DEF F, c
  <2> QED BY <1>1, <1>2, <2>1, FoldExists
<1>4. \A s \in SUBSET S : s # {} => F[g[s \ {c[s]}]][c[s]] = f[Pick(s)] + g[s \ {Pick(s)}]
  <2>1. ASSUME NEW s \in SUBSET S, s # {} 
        PROVE  F[g[s \ {c[s]}]][c[s]] = f[Pick(s)] + g[s \ {Pick(s)}]
    <3>1. c[s] = Pick(s) /\ Pick(s) \in S /\ s \ {Pick(s)} \in SUBSET S
      BY <2>1, PickIn
    <3>2. g[s \ {Pick(s)}] \in Int
      BY <3>1
    <3> QED BY <3>1, <3>2
  <2> QED BY <2>1
<1>5. g = Step(g)
  <2> HIDE DEF F, c
  <2> QED BY <1>3, <1>4 DEF IsFold
<1>6. SumOver(f, S) = Step(SumOver(f, S))
  <2>1. SumOver(f, S) = CHOOSE h : h = Step(h)
    BY DEF SumOver
  <2> HIDE DEF Step
  <2> QED BY <1>5, <2>1
<1>7. \A s \in SUBSET S : SumOver(f, S)[s] =
         IF s = {} THEN 0 ELSE f[Pick(s)] + SumOver(f, S)[s \ {Pick(s)}]
  BY <1>6
<1>8. DOMAIN SumOver(f, S) = SUBSET S /\ SumOver(f, S) = [s \in SUBSET S |-> SumOver(f, S)[s]]
  BY <1>6
<1> DEFINE T == {s \in SUBSET S : SumOver(f, S)[s] \in Int}
<1>9. \A s \in SUBSET S : (\A x \in s : s \ {x} \in T) => s \in T
  <2>1. ASSUME NEW s \in SUBSET S, \A x \in s : s \ {x} \in T PROVE s \in T
    <3>1. CASE s = {}
      <4>1. SumOver(f, S)[s] = 0
        BY <1>7, <3>1
      <4> QED BY <4>1
    <3>2. CASE s # {}
      <4>1. Pick(s) \in s /\ Pick(s) \in S /\ s \ {Pick(s)} \in T
        BY <2>1, <3>2, PickIn
      <4>2. f[Pick(s)] \in Int /\ SumOver(f, S)[s \ {Pick(s)}] \in Int
        BY <4>1
      <4>3. SumOver(f, S)[s] = f[Pick(s)] + SumOver(f, S)[s \ {Pick(s)}]
        BY <1>7, <3>2
      <4> QED BY <4>2, <4>3
    <3> QED BY <3>1, <3>2
  <2> QED BY <2>1
<1>10. T = SUBSET S
  <2>1. T \in SUBSET SUBSET S
    OBVIOUS
  <2> HIDE DEF T
  <2> QED BY <1>9, <2>1, SubsetInduction
<1> QED BY <1>7, <1>8, <1>10

Sum(f, S) == SumFunctionOnSet(f, S)
Integral(f, S) == IsFiniteSet(S) /\ \A x \in S : f[x] \in Int

LEMMA SumOfPart ==
    ASSUME NEW S, NEW f, Integral(f, S), NEW t \in SUBSET S
    PROVE  Sum(f, t) = SumOver(f, S)[t]
<1>1. Integral(f, t) /\ IsFiniteSet(t)
  BY FS_Subset DEF Integral
<1> DEFINE T == {s \in SUBSET t : SumOver(f, t)[s] = SumOver(f, S)[s]}
<1>2. ASSUME NEW s \in SUBSET t, \A x \in s : s \ {x} \in T PROVE s \in T
  <2>1. s \in SUBSET S
    OBVIOUS
  <2>2. SumOver(f, t)[s] = IF s = {} THEN 0 ELSE f[Pick(s)] + SumOver(f, t)[s \ {Pick(s)}]
    BY <1>1, SumDefined DEF Integral
  <2>3. SumOver(f, S)[s] = IF s = {} THEN 0 ELSE f[Pick(s)] + SumOver(f, S)[s \ {Pick(s)}]
    BY <2>1, SumDefined DEF Integral
  <2>4. s # {} => s \ {Pick(s)} \in T
    BY <1>2, PickIn
  <2> QED BY <2>2, <2>3, <2>4
<1>3. T = SUBSET t
  <2>1. T \in SUBSET SUBSET t
    OBVIOUS
  <2> HIDE DEF T
  <2> QED BY <1>1, <1>2, <2>1, SubsetInduction
<1>4. t \in T
  BY <1>3
<1> QED BY <1>4, SumIs DEF Sum

LEMMA SumEmpty == \A f : Sum(f, {}) = 0
<1>1. ASSUME NEW f PROVE Sum(f, {}) = 0
  <2>1. IsFiniteSet({}) /\ {} \in SUBSET {} /\ \A x \in {} : f[x] \in Int
    BY FS_EmptySet
  <2>2. SumOver(f, {})[{}] = 0
    BY <2>1, SumDefined
  <2> QED BY <2>2, SumIs DEF Sum
<1> QED BY <1>1

LEMMA SumPicked ==
    ASSUME NEW S, NEW f, Integral(f, S), S # {}
    PROVE  Sum(f, S) = f[Pick(S)] + Sum(f, S \ {Pick(S)})
<1>1. S \in SUBSET S /\ S \ {Pick(S)} \in SUBSET S
  OBVIOUS
<1>2. SumOver(f, S)[S] = f[Pick(S)] + SumOver(f, S)[S \ {Pick(S)}]
  BY <1>1, SumDefined DEF Integral
<1>3. Sum(f, S) = SumOver(f, S)[S] /\ Sum(f, S \ {Pick(S)}) = SumOver(f, S)[S \ {Pick(S)}]
  BY <1>1, SumOfPart
<1> QED BY <1>2, <1>3

LEMMA SumInt ==
    ASSUME NEW S, NEW f, Integral(f, S)
    PROVE  Sum(f, S) \in Int
<1>1. SumOver(f, S)[S] \in Int
  BY SumDefined DEF Integral
<1> QED BY <1>1, SumIs DEF Sum

\* Any element may be taken out first.
LEMMA SumWithout ==
    ASSUME NEW S, NEW f, Integral(f, S), NEW x \in S
    PROVE  Sum(f, S) = f[x] + Sum(f, S \ {x})
<1> DEFINE T == {s \in SUBSET S : \A y \in s : Sum(f, s) = f[y] + Sum(f, s \ {y})}
<1>0. \A s \in SUBSET S : Integral(f, s)
  BY FS_Subset DEF Integral
<1>1. ASSUME NEW s \in SUBSET S, \A y \in s : s \ {y} \in T PROVE s \in T
  <2>1. ASSUME NEW y \in s PROVE Sum(f, s) = f[y] + Sum(f, s \ {y})
    <3> DEFINE p == Pick(s)
    <3>1. p \in s
      BY PickIn
    <3> HIDE DEF p
    <3>2. Sum(f, s) = f[p] + Sum(f, s \ {p})
      BY <1>0, SumPicked DEF p
    <3>3. CASE p = y
      BY <3>2, <3>3
    <3>4. CASE p # y
      <4>1. Sum(f, s \ {p}) = f[y] + Sum(f, (s \ {p}) \ {y})
        BY <1>1, <3>1, <3>4
      <4>2. Sum(f, s \ {y}) = f[p] + Sum(f, (s \ {y}) \ {p})
        BY <1>1, <3>1, <3>4
      <4>3. (s \ {y}) \ {p} = (s \ {p}) \ {y}
        OBVIOUS
      <4>4. f[p] \in Int /\ f[y] \in Int
        BY <3>1 DEF Integral
      <4>5. Sum(f, (s \ {p}) \ {y}) \in Int
        <5>1. (s \ {p}) \ {y} \in SUBSET S
          OBVIOUS
        <5> QED BY <1>0, <5>1, SumInt
      <4>6. Sum(f, s \ {y}) = f[p] + Sum(f, (s \ {p}) \ {y})
        BY <4>2, <4>3
      <4>7. Sum(f, s) = f[p] + (f[y] + Sum(f, (s \ {p}) \ {y}))
        BY <3>2, <4>1
      <4> QED BY <4>4, <4>5, <4>6, <4>7
    <3> QED BY <3>3, <3>4
  <2> QED BY <2>1
<1>2. T = SUBSET S
  <2>1. T \in SUBSET SUBSET S
    OBVIOUS
  <2> HIDE DEF T
  <2> QED BY <1>1, <2>1, SubsetInduction DEF Integral
<1>3. S \in T
  BY <1>2
<1> QED BY <1>3

\* Sums see only the values on the set they are taken over, and grow with them.
LEMMA SumSame ==
    ASSUME NEW S, NEW f, NEW g, Integral(f, S), \A x \in S : f[x] = g[x]
    PROVE  Sum(f, S) = Sum(g, S)
<1> DEFINE T == {s \in SUBSET S : Sum(f, s) = Sum(g, s)}
<1>0. \A s \in SUBSET S : Integral(f, s) /\ Integral(g, s)
  BY FS_Subset DEF Integral
<1>1. ASSUME NEW s \in SUBSET S, \A y \in s : s \ {y} \in T PROVE s \in T
  <2>1. CASE s = {}
    BY <2>1, SumEmpty
  <2>2. CASE s # {}
    <3>1. Pick(s) \in s
      BY <2>2, PickIn
    <3>2. Sum(f, s) = f[Pick(s)] + Sum(f, s \ {Pick(s)})
      BY <1>0, <2>2, SumPicked
    <3>3. Sum(g, s) = g[Pick(s)] + Sum(g, s \ {Pick(s)})
      BY <1>0, <2>2, SumPicked
    <3> QED BY <1>1, <3>1, <3>2, <3>3
  <2> QED BY <2>1, <2>2
<1>2. T = SUBSET S
  <2>1. T \in SUBSET SUBSET S
    OBVIOUS
  <2> HIDE DEF T
  <2> QED BY <1>1, <2>1, SubsetInduction DEF Integral
<1>3. S \in T
  BY <1>2
<1> QED BY <1>3

LEMMA SumMonotone ==
    ASSUME NEW S, NEW f, NEW g, Integral(f, S), Integral(g, S), \A x \in S : f[x] <= g[x]
    PROVE  Sum(f, S) <= Sum(g, S)
<1> DEFINE T == {s \in SUBSET S : Sum(f, s) <= Sum(g, s)}
<1>0. \A s \in SUBSET S : /\ Integral(f, s) /\ Sum(f, s) \in Int
                          /\ Integral(g, s) /\ Sum(g, s) \in Int
  BY FS_Subset, SumInt DEF Integral
<1>1. ASSUME NEW s \in SUBSET S, \A y \in s : s \ {y} \in T PROVE s \in T
  <2>1. CASE s = {}
    BY <2>1, SumEmpty
  <2>2. CASE s # {}
    <3>1. Pick(s) \in s
      BY <2>2, PickIn
    <3>2. Sum(f, s) = f[Pick(s)] + Sum(f, s \ {Pick(s)})
      BY <1>0, <2>2, SumPicked
    <3>3. Sum(g, s) = g[Pick(s)] + Sum(g, s \ {Pick(s)})
      BY <1>0, <2>2, SumPicked
    <3>4. f[Pick(s)] \in Int /\ g[Pick(s)] \in Int /\ f[Pick(s)] <= g[Pick(s)]
      BY <3>1 DEF Integral
    <3>5. s \ {Pick(s)} \in T
      BY <1>1, <3>1
    <3>6. /\ Sum(f, s \ {Pick(s)}) \in Int /\ Sum(g, s \ {Pick(s)}) \in Int
          /\ Sum(f, s \ {Pick(s)}) <= Sum(g, s \ {Pick(s)})
      BY <1>0, <3>5
    <3> QED BY <3>2, <3>3, <3>4, <3>6
  <2> QED BY <2>1, <2>2
<1>2. T = SUBSET S
  <2>1. T \in SUBSET SUBSET S
    OBVIOUS
  <2> HIDE DEF T
  <2> QED BY <1>1, <2>1, SubsetInduction DEF Integral
<1>3. S \in T
  BY <1>2
<1> QED BY <1>3

\* One value changes.
LEMMA SumUpdate ==
    ASSUME NEW S, NEW f, NEW g, Integral(f, S), Integral(g, S), NEW x \in S,
           \A y \in S \ {x} : f[y] = g[y]
    PROVE  Sum(g, S) = Sum(f, S) - f[x] + g[x]
<1>1. Integral(f, S \ {x})
  BY FS_Subset DEF Integral
<1>2. Sum(f, S) = f[x] + Sum(f, S \ {x}) /\ Sum(g, S) = g[x] + Sum(g, S \ {x})
  BY SumWithout
<1>3. Sum(f, S \ {x}) = Sum(g, S \ {x}) /\ Sum(f, S \ {x}) \in Int
  BY <1>1, SumSame, SumInt
<1>4. f[x] \in Int /\ g[x] \in Int
  BY DEF Integral
<1> QED BY <1>2, <1>3, <1>4

LEMMA SumZero ==
    ASSUME NEW S, IsFiniteSet(S), NEW f, \A x \in S : f[x] = 0
    PROVE  Sum(f, S) = 0
<1>1. \A s \in SUBSET S : Integral(f, s)
  BY FS_Subset DEF Integral
<1> DEFINE T == {s \in SUBSET S : Sum(f, s) = 0}
<1>2. ASSUME NEW s \in SUBSET S, \A y \in s : s \ {y} \in T PROVE s \in T
  <2>1. CASE s = {}
    BY <2>1, SumEmpty
  <2>2. CASE s # {}
    <3>1. Pick(s) \in s
      BY <2>2, PickIn
    <3>2. Sum(f, s) = f[Pick(s)] + Sum(f, s \ {Pick(s)})
      BY <1>1, <2>2, SumPicked
    <3>3. f[Pick(s)] = 0 /\ Sum(f, s \ {Pick(s)}) = 0
      BY <1>2, <3>1
    <3> QED BY <3>2, <3>3
  <2> QED BY <2>1, <2>2
<1>3. T = SUBSET S
  <2>1. T \in SUBSET SUBSET S
    OBVIOUS
  <2> HIDE DEF T
  <2> QED BY <1>2, <2>1, SubsetInduction
<1>4. S \in T
  BY <1>3
<1> QED BY <1>4

LEMMA SumNat ==
    ASSUME NEW S, IsFiniteSet(S), NEW f, \A x \in S : f[x] \in Nat
    PROVE  Sum(f, S) \in Nat
<1> DEFINE z == [x \in S |-> 0]
<1>1. Integral(f, S) /\ Integral(z, S) /\ \A x \in S : z[x] <= f[x]
  BY DEF Integral
<1>2. Sum(z, S) = 0
  BY SumZero
<1>3. Sum(z, S) <= Sum(f, S) /\ Sum(f, S) \in Int
  <2> HIDE DEF z
  <2> QED BY <1>1, SumMonotone, SumInt
<1> QED BY <1>2, <1>3

\* No value is above a sum of naturals.
LEMMA SumAbovePart ==
    ASSUME NEW S, IsFiniteSet(S), NEW f, \A x \in S : f[x] \in Nat, NEW x \in S
    PROVE  f[x] <= Sum(f, S)
<1>1. IsFiniteSet(S \ {x}) /\ Integral(f, S)
  BY FS_Subset DEF Integral
<1>2. Sum(f, S \ {x}) \in Nat
  BY <1>1, SumNat
<1>3. Sum(f, S) = f[x] + Sum(f, S \ {x})
  BY <1>1, SumWithout
<1> QED BY <1>2, <1>3

\* Two sets without a common element.
LEMMA SumUnion ==
    ASSUME NEW S, NEW R, NEW f, Integral(f, S), Integral(f, R), S \cap R = {}
    PROVE  Sum(f, S \cup R) = Sum(f, S) + Sum(f, R)
<1>1. \A s \in SUBSET S : Integral(f, s) /\ Sum(f, s) \in Int /\ Integral(f, s \cup R)
  BY FS_Subset, FS_Union, SumInt DEF Integral
<1>2. Sum(f, R) \in Int
  BY SumInt
<1> DEFINE T == {s \in SUBSET S : Sum(f, s \cup R) = Sum(f, s) + Sum(f, R)}
<1>3. ASSUME NEW s \in SUBSET S, \A y \in s : s \ {y} \in T PROVE s \in T
  <2>1. CASE s = {}
    <3>1. s \cup R = R /\ Sum(f, s) = 0
      BY <2>1, SumEmpty
    <3>2. Sum(f, s \cup R) = Sum(f, R)
      BY <3>1
    <3> QED BY <1>2, <3>1, <3>2
  <2>2. CASE s # {}
    <3>1. PICK y \in s : TRUE
      BY <2>2
    <3>2. Sum(f, s) = f[y] + Sum(f, s \ {y})
      BY <1>1, SumWithout
    <3>3. Sum(f, s \cup R) = f[y] + Sum(f, (s \cup R) \ {y})
      BY <1>1, SumWithout
    <3>4. (s \cup R) \ {y} = (s \ {y}) \cup R
      OBVIOUS
    <3>5. Sum(f, (s \ {y}) \cup R) = Sum(f, s \ {y}) + Sum(f, R)
      BY <1>3
    <3>6. f[y] \in Int /\ Sum(f, s \ {y}) \in Int
      <4>1. s \ {y} \in SUBSET S OBVIOUS
      <4> QED BY <1>1, <4>1 DEF Integral
    <3>7. Sum(f, s \cup R) = f[y] + (Sum(f, s \ {y}) + Sum(f, R))
      BY <3>3, <3>4, <3>5
    <3>8. Sum(f, s \cup R) = Sum(f, s) + Sum(f, R)
      <4> QED BY <1>2, <3>2, <3>6, <3>7
    <3> QED BY <3>8
  <2> QED BY <2>1, <2>2
<1>4. T = SUBSET S
  <2>1. T \in SUBSET SUBSET S
    OBVIOUS
  <2> HIDE DEF T
  <2> QED BY <1>3, <2>1, SubsetInduction DEF Integral
<1>5. S \in T
  BY <1>4
<1> QED BY <1>5

\* The same values under other names.
LEMMA SumRenamed ==
    ASSUME NEW S, NEW f, Integral(f, S), NEW R, NEW g, NEW h \in [S -> R],
           \A x, y \in S : h[x] = h[y] => x = y, R = {h[x] : x \in S},
           \A x \in S : g[h[x]] = f[x]
    PROVE  Sum(g, R) = Sum(f, S)
<1> DEFINE I(s) == {h[x] : x \in s}
           T == {s \in SUBSET S : IsFiniteSet(I(s)) /\ Sum(g, I(s)) = Sum(f, s)}
<1>0. \A s \in SUBSET S : Integral(f, s)
  BY FS_Subset DEF Integral
<1>1. ASSUME NEW s \in SUBSET S, \A y \in s : s \ {y} \in T PROVE s \in T
  <2>1. CASE s = {}
    <3>1. I(s) = {}
      BY <2>1
    <3> QED BY <2>1, <3>1, SumEmpty, FS_EmptySet
  <2>2. CASE s # {}
    <3>1. PICK y \in s : TRUE
      BY <2>2
    <3>2. Sum(f, s) = f[y] + Sum(f, s \ {y})
      BY <1>0, SumWithout
    <3>3. I(s) \ {h[y]} = I(s \ {y}) /\ I(s) = I(s \ {y}) \cup {h[y]} /\ h[y] \in I(s)
      OBVIOUS
    <3>4. IsFiniteSet(I(s \ {y})) /\ Sum(g, I(s \ {y})) = Sum(f, s \ {y})
      BY <1>1
    <3>5. Integral(g, I(s))
      <4>1. IsFiniteSet(I(s))
        BY <3>3, <3>4, FS_AddElement
      <4>2. \A x \in s : g[h[x]] = f[x] /\ f[x] \in Int
        BY DEF Integral
      <4> QED BY <4>1, <4>2 DEF Integral
    <3>6. Sum(g, I(s)) = g[h[y]] + Sum(g, I(s) \ {h[y]})
      <4> HIDE DEF I
      <4> QED BY <3>3, <3>5, SumWithout
    <3>7. g[h[y]] = f[y]
      OBVIOUS
    <3> HIDE DEF I
    <3>8. Sum(g, I(s)) = Sum(f, s)
      BY <3>2, <3>3, <3>4, <3>6, <3>7
    <3> QED BY <3>5, <3>8 DEF Integral
  <2> QED BY <2>1, <2>2
<1>2. T = SUBSET S
  <2>1. T \in SUBSET SUBSET S
    OBVIOUS
  <2> HIDE DEF T
  <2> QED BY <1>1, <2>1, SubsetInduction DEF Integral
<1>3. S \in T
  BY <1>2
<1>4. I(S) = R
  OBVIOUS
<1> HIDE DEF I
<1> QED BY <1>3, <1>4

-----------------------------------------------------------------------------
(* Ledgers that are in order *)

Tables(I, R) == UNION {[D -> R] : D \in SUBSET I}
Ledgers == [lots : Tables(LotIds, LotRow), outs : Tables(OutIds, OutRow),
            alloc : [OutIds -> [LotIds -> Nat]], start : Starts \cup {NoStart}]

\* A lot and a distribution that the matching may join.
Joinable(w, o, i) ==
    /\ o \in DOMAIN w.outs /\ i \in DOMAIN w.lots
    /\ w.outs[o].product = w.lots[i].product
    /\ w.lots[i].status = "active"
    /\ (w.outs[o].date >= w.start) = (w.lots[i].date >= w.start)

WithinAmounts(w) ==
    /\ \A i \in DOMAIN w.lots : Used(w, i) <= w.lots[i].qty
    /\ \A o \in DOMAIN w.outs : Allocated(w, o) <= w.outs[o].qty

Sound(w) ==
    /\ w \in Ledgers
    /\ \A i \in DOMAIN w.lots : LotAccepted(w.lots[i])
    /\ WithinAmounts(w)
    /\ \A o \in OutIds, i \in LotIds : w.alloc[o][i] > 0 => Joinable(w, o, i)

\* The distribution o does not wait beside water that could meet it.
NotIdle(w, o) ==
    \A i \in DOMAIN w.lots :
        ~ /\ w.outs[o].date >= w.start /\ Unmet(w, o) > 0
          /\ w.lots[i].product = w.outs[o].product
          /\ IsOpen(w, i) /\ CanServe(w.lots[i], w.outs[o].date)

\* Nothing but allocations of the distributions os was added to w.
Later(w, v, os) ==
    /\ v.lots = w.lots /\ v.outs = w.outs /\ v.start = w.start
    /\ \A o \in OutIds, i \in LotIds : w.alloc[o][i] <= v.alloc[o][i]
    /\ \A o \in OutIds \ os : v.alloc[o] = w.alloc[o]

LEMMA IdsFinite == IsFiniteSet(LotIds) /\ IsFiniteSet(OutIds)
<1>1. 1 \in Int /\ MaxLots \in Int /\ MaxOuts \in Int
  BY LedgerAssumption
<1> QED BY <1>1, FS_Interval DEF LotIds, OutIds

LEMMA EnteredValues ==
    /\ Dates \subseteq Int /\ NoExpiry \in Int /\ NoStart \in Int
    /\ Quantities \subseteq Nat \ {0} /\ Expiries \subseteq Int /\ Starts \subseteq Int
<1>1. LastDay \in Int /\ Today \in Int
  BY LedgerAssumption DEF Dates
<1>2. Dates \subseteq Int /\ NoExpiry \in Int /\ NoStart \in Int /\ 1..Today \subseteq Int
  BY <1>1 DEF Dates, NoExpiry, NoStart
<1> QED BY <1>2, LedgerAssumption

LEMMA LedgerRows ==
    ASSUME NEW w \in Ledgers
    PROVE  /\ w.start \in Int
           /\ DOMAIN w.lots \subseteq LotIds /\ DOMAIN w.outs \subseteq OutIds
           /\ w.lots \in [DOMAIN w.lots -> LotRow] /\ w.outs \in [DOMAIN w.outs -> OutRow]
           /\ \A i \in DOMAIN w.lots :
                 /\ w.lots[i] \in LotRow /\ w.lots[i].qty \in Nat
                 /\ w.lots[i].date \in Int /\ w.lots[i].expiry \in Int
                 /\ w.lots[i].product \in Products
           /\ \A o \in DOMAIN w.outs :
                 /\ w.outs[o] \in OutRow /\ w.outs[o].qty \in Nat /\ w.outs[o].date \in Int
                 /\ w.outs[o].approved \in Nat /\ w.outs[o].review \in BOOLEAN
                 /\ w.outs[o].product \in Products
           /\ w.alloc \in [OutIds -> [LotIds -> Nat]]
<1>1. w.start \in Int
  BY EnteredValues DEF Ledgers
<1>2. /\ DOMAIN w.lots \subseteq LotIds /\ w.lots \in [DOMAIN w.lots -> LotRow]
      /\ DOMAIN w.outs \subseteq OutIds /\ w.outs \in [DOMAIN w.outs -> OutRow]
  <2>1. w.lots \in Tables(LotIds, LotRow) /\ w.outs \in Tables(OutIds, OutRow)
    BY DEF Ledgers
  <2>2. \A I, R : \A t \in Tables(I, R) : DOMAIN t \subseteq I /\ t \in [DOMAIN t -> R]
    BY DEF Tables
  <2> QED BY <2>1, <2>2
<1>3. \A r \in LotRow : r.qty \in Nat /\ r.date \in Int /\ r.expiry \in Int /\ r.product \in Products
  BY EnteredValues DEF LotRow
<1>4. \A r \in OutRow : /\ r.qty \in Nat /\ r.date \in Int /\ r.approved \in Nat
                        /\ r.review \in BOOLEAN /\ r.product \in Products
  BY EnteredValues DEF OutRow
<1>5. w.alloc \in [OutIds -> [LotIds -> Nat]]
  BY DEF Ledgers
<1>6. (\A i \in DOMAIN w.lots : w.lots[i] \in LotRow) /\ (\A o \in DOMAIN w.outs : w.outs[o] \in OutRow)
  BY <1>2
<1> QED BY <1>1, <1>2, <1>3, <1>4, <1>5, <1>6

LEMMA Balances ==
    ASSUME NEW w, w.alloc \in [OutIds -> [LotIds -> Nat]]
    PROVE  /\ \A o \in OutIds : /\ Integral(w.alloc[o], LotIds)
                                /\ Allocated(w, o) = Sum(w.alloc[o], LotIds)
                                /\ Allocated(w, o) \in Nat
           /\ \A i \in LotIds : /\ Integral([o \in OutIds |-> w.alloc[o][i]], OutIds)
                                /\ Used(w, i) = Sum([o \in OutIds |-> w.alloc[o][i]], OutIds)
                                /\ Used(w, i) \in Nat
<1>1. ASSUME NEW o \in OutIds
      PROVE  /\ Integral(w.alloc[o], LotIds) /\ Allocated(w, o) = Sum(w.alloc[o], LotIds)
             /\ Allocated(w, o) \in Nat
  <2>1. \A i \in LotIds : w.alloc[o][i] \in Nat
    OBVIOUS
  <2>2. Sum(w.alloc[o], LotIds) \in Nat
    BY <2>1, IdsFinite, SumNat
  <2> QED BY <2>1, <2>2, IdsFinite DEF Allocated, Sum, Integral
<1>2. ASSUME NEW i \in LotIds
      PROVE  /\ Integral([o \in OutIds |-> w.alloc[o][i]], OutIds)
             /\ Used(w, i) = Sum([o \in OutIds |-> w.alloc[o][i]], OutIds)
             /\ Used(w, i) \in Nat
  <2> DEFINE f == [o \in OutIds |-> w.alloc[o][i]]
  <2>1. \A o \in OutIds : f[o] \in Nat
    OBVIOUS
  <2>2. Sum(f, OutIds) \in Nat
    <3> HIDE DEF f
    <3> QED BY <2>1, IdsFinite, SumNat
  <2>3. Used(w, i) = Sum(f, OutIds)
    BY DEF Used, Sum
  <2>4. Integral(f, OutIds)
    BY <2>1, IdsFinite DEF Integral
  <2> QED BY <2>2, <2>3, <2>4
<1> QED BY <1>1, <1>2

\* More allocations leave less.
LEMMA BalancesGrow ==
    ASSUME NEW w, NEW v, w.alloc \in [OutIds -> [LotIds -> Nat]],
           v.alloc \in [OutIds -> [LotIds -> Nat]],
           \A o \in OutIds, i \in LotIds : w.alloc[o][i] <= v.alloc[o][i]
    PROVE  /\ \A o \in OutIds : Allocated(w, o) <= Allocated(v, o)
           /\ \A i \in LotIds : Used(w, i) <= Used(v, i)
<1>1. ASSUME NEW o \in OutIds PROVE Allocated(w, o) <= Allocated(v, o)
  <2>1. \A i \in LotIds : w.alloc[o][i] <= v.alloc[o][i]
    OBVIOUS
  <2>2. /\ Integral(w.alloc[o], LotIds) /\ Allocated(w, o) = Sum(w.alloc[o], LotIds)
        /\ Integral(v.alloc[o], LotIds) /\ Allocated(v, o) = Sum(v.alloc[o], LotIds)
    BY Balances
  <2> QED BY <2>1, <2>2, SumMonotone
<1>2. ASSUME NEW i \in LotIds PROVE Used(w, i) <= Used(v, i)
  <2> DEFINE f == [o \in OutIds |-> w.alloc[o][i]]
             g == [o \in OutIds |-> v.alloc[o][i]]
  <2>1. /\ Integral(f, OutIds) /\ Used(w, i) = Sum(f, OutIds)
        /\ Integral(g, OutIds) /\ Used(v, i) = Sum(g, OutIds)
    BY Balances
  <2>2. \A o \in OutIds : f[o] <= g[o]
    OBVIOUS
  <2> HIDE DEF f, g
  <2> QED BY <2>1, <2>2, SumMonotone
<1> QED BY <1>1, <1>2

-----------------------------------------------------------------------------
(* One lot is taken for one distribution *)

Added(w, o, i, d) == [w EXCEPT !.alloc[o][i] = @ + d]

\* v is w with d more from the lot i for the distribution o.
OneMore(w, v, o, i, d) ==
    /\ v \in Ledgers
    /\ Later(w, v, {o})
    /\ \A p \in OutIds, j \in LotIds :
          v.alloc[p][j] = IF p = o /\ j = i THEN w.alloc[p][j] + d ELSE w.alloc[p][j]
    /\ Allocated(v, o) = Allocated(w, o) + d
    /\ \A p \in OutIds \ {o} : Allocated(v, p) = Allocated(w, p)
    /\ Used(v, i) = Used(w, i) + d
    /\ \A j \in LotIds \ {i} : Used(v, j) = Used(w, j)

LEMMA OneAllocation ==
    ASSUME NEW w \in Ledgers, NEW o \in OutIds, NEW i \in LotIds, NEW d \in Nat
    PROVE  OneMore(w, Added(w, o, i, d), o, i, d)
<1> DEFINE v == Added(w, o, i, d)
<1>1. w.alloc \in [OutIds -> [LotIds -> Nat]] /\ w.alloc[o][i] \in Nat
  BY DEF Ledgers
<1>2. v.alloc = [w.alloc EXCEPT ![o] = [w.alloc[o] EXCEPT ![i] = w.alloc[o][i] + d]]
  BY DEF Ledgers, Added
<1>3. v.lots = w.lots /\ v.outs = w.outs /\ v.start = w.start
  BY DEF Ledgers, Added
<1> HIDE DEF v
<1>4. v.alloc \in [OutIds -> [LotIds -> Nat]]
  BY <1>1, <1>2
<1>5. v \in Ledgers
  BY <1>3, <1>4 DEF Ledgers, Added, v
<1>6. \A p \in OutIds, j \in LotIds :
         v.alloc[p][j] = IF p = o /\ j = i THEN w.alloc[p][j] + d ELSE w.alloc[p][j]
  BY <1>1, <1>2
<1>7. \A p \in OutIds \ {o} : v.alloc[p] = w.alloc[p]
  BY <1>1, <1>2
<1>8. Later(w, v, {o})
  <2>1. \A p \in OutIds, j \in LotIds : w.alloc[p][j] \in Nat
    BY <1>1
  <2>2. \A p \in OutIds, j \in LotIds : w.alloc[p][j] <= v.alloc[p][j]
    BY <1>6, <2>1
  <2> QED BY <1>3, <1>7, <2>2 DEF Later
<1>9. Allocated(v, o) = Allocated(w, o) + d
  <2> DEFINE f == w.alloc[o]
             g == v.alloc[o]
  <2>1. Integral(f, LotIds) /\ Allocated(w, o) = Sum(f, LotIds) /\ Allocated(w, o) \in Nat
    BY <1>1, Balances
  <2>2. Integral(g, LotIds) /\ Allocated(v, o) = Sum(g, LotIds)
    BY <1>4, Balances
  <2>3. \A j \in LotIds \ {i} : f[j] = g[j]
    BY <1>6
  <2>4. f[i] = w.alloc[o][i] /\ g[i] = w.alloc[o][i] + d
    BY <1>6
  <2> HIDE DEF f, g
  <2>5. Sum(g, LotIds) = Sum(f, LotIds) - f[i] + g[i]
    BY <2>1, <2>2, <2>3, SumUpdate
  <2> QED BY <1>1, <2>1, <2>2, <2>4, <2>5
<1>10. \A p \in OutIds \ {o} : Allocated(v, p) = Allocated(w, p)
  BY <1>7 DEF Allocated
<1>11. Used(v, i) = Used(w, i) + d
  <2> DEFINE f == [p \in OutIds |-> w.alloc[p][i]]
             g == [p \in OutIds |-> v.alloc[p][i]]
  <2>1. Integral(f, OutIds) /\ Used(w, i) = Sum(f, OutIds) /\ Used(w, i) \in Nat
    BY <1>1, Balances
  <2>2. Integral(g, OutIds) /\ Used(v, i) = Sum(g, OutIds)
    BY <1>4, Balances
  <2>3. \A p \in OutIds \ {o} : f[p] = g[p]
    BY <1>7
  <2>4. f[o] = w.alloc[o][i] /\ g[o] = w.alloc[o][i] + d
    BY <1>6
  <2> HIDE DEF f, g
  <2>5. Sum(g, OutIds) = Sum(f, OutIds) - f[o] + g[o]
    BY <2>1, <2>2, <2>3, SumUpdate
  <2> QED BY <1>1, <2>1, <2>2, <2>4, <2>5
<1>12. \A j \in LotIds \ {i} : Used(v, j) = Used(w, j)
  <2>1. ASSUME NEW j \in LotIds \ {i} PROVE Used(v, j) = Used(w, j)
    <3>1. \A p \in OutIds : v.alloc[p][j] = w.alloc[p][j]
      BY <1>6
    <3> QED BY <3>1 DEF Used
  <2> QED BY <2>1
<1> QED BY <1>5, <1>6, <1>8, <1>9, <1>10, <1>11, <1>12 DEF OneMore, v

\* The lot gives all it has left, or the distribution has all it needs; neither
\* is exceeded.
LEMMA TakeSound ==
    ASSUME NEW w, Sound(w), NEW o, NEW i, Joinable(w, o, i), NEW v, v = Take(w, o, i)
    PROVE  /\ Sound(v) /\ Later(w, v, {o})
           /\ CanServe(w.lots[i], w.outs[o].date) => Unmet(v, o) <= 0 \/ Left(v, i) <= 0
<1>0. /\ w \in Ledgers /\ o \in DOMAIN w.outs /\ i \in DOMAIN w.lots
      /\ o \in OutIds /\ i \in LotIds
  BY LedgerRows DEF Sound, Joinable
<1>1. CASE ~CanServe(w.lots[i], w.outs[o].date)
  <2>1. v = w
    BY <1>1 DEF Take
  <2>2. \A p \in OutIds, j \in LotIds : w.alloc[p][j] \in Nat
    BY <1>0 DEF Ledgers
  <2> QED BY <1>1, <2>1, <2>2 DEF Later
<1>2. CASE CanServe(w.lots[i], w.outs[o].date)
  <2> DEFINE d == Smaller(Unmet(w, o), Left(w, i))
  <2>1. /\ Allocated(w, o) \in Nat /\ Used(w, i) \in Nat
        /\ w.outs[o].qty \in Nat /\ w.lots[i].qty \in Nat
    BY <1>0, Balances, LedgerRows
  <2>2. Allocated(w, o) <= w.outs[o].qty /\ Used(w, i) <= w.lots[i].qty
    BY <1>0 DEF Sound, WithinAmounts
  <2>3. /\ d \in Nat
        /\ Allocated(w, o) + d <= w.outs[o].qty /\ Used(w, i) + d <= w.lots[i].qty
        /\ Allocated(w, o) + d = w.outs[o].qty \/ Used(w, i) + d = w.lots[i].qty
    BY <2>1, <2>2 DEF Smaller, Unmet, Left
  <2>4. v = Added(w, o, i, d)
    BY <1>2 DEF Take, Added
  <2> HIDE DEF d
  <2>5. /\ v \in Ledgers /\ Later(w, v, {o})
        /\ \A p \in OutIds, j \in LotIds :
              v.alloc[p][j] = IF p = o /\ j = i THEN w.alloc[p][j] + d ELSE w.alloc[p][j]
        /\ Allocated(v, o) = Allocated(w, o) + d
        /\ \A p \in OutIds \ {o} : Allocated(v, p) = Allocated(w, p)
        /\ Used(v, i) = Used(w, i) + d
        /\ \A j \in LotIds \ {i} : Used(v, j) = Used(w, j)
    <3>1. w \in Ledgers /\ o \in OutIds /\ i \in LotIds /\ d \in Nat
      BY <1>0, <2>3
    <3>2. OneMore(w, Added(w, o, i, d), o, i, d)
      BY <3>1, OneAllocation
    <3> QED BY <2>4, <3>2 DEF OneMore
  <2>6. v.lots = w.lots /\ v.outs = w.outs /\ v.start = w.start
    BY <2>5 DEF Later
  <2>7. WithinAmounts(v)
    <3>1. ASSUME NEW j \in DOMAIN v.lots PROVE Used(v, j) <= v.lots[j].qty
      <4>1. j \in LotIds /\ Used(w, j) <= w.lots[j].qty
        BY <1>0, <2>6, LedgerRows DEF Sound, WithinAmounts
      <4> QED BY <2>3, <2>5, <2>6, <4>1
    <3>2. ASSUME NEW p \in DOMAIN v.outs PROVE Allocated(v, p) <= v.outs[p].qty
      <4>1. p \in OutIds /\ Allocated(w, p) <= w.outs[p].qty
        BY <1>0, <2>6, LedgerRows DEF Sound, WithinAmounts
      <4> QED BY <2>3, <2>5, <2>6, <4>1
    <3> QED BY <3>1, <3>2 DEF WithinAmounts
  <2>8. \A p \in OutIds, j \in LotIds : v.alloc[p][j] > 0 => Joinable(v, p, j)
    <3>1. ASSUME NEW p \in OutIds, NEW j \in LotIds, v.alloc[p][j] > 0 PROVE Joinable(w, p, j)
      <4>1. CASE p = o /\ j = i
        BY <4>1
      <4>2. CASE ~(p = o /\ j = i)
        <5>1. w.alloc[p][j] > 0
          BY <2>5, <3>1, <4>2
        <5> QED BY <5>1 DEF Sound
      <4> QED BY <4>1, <4>2
    <3> QED BY <2>6, <3>1 DEF Joinable
  <2>9. \A j \in DOMAIN v.lots : LotAccepted(v.lots[j])
    BY <2>6 DEF Sound
  <2>10. Sound(v)
    BY <2>5, <2>7, <2>8, <2>9 DEF Sound
  <2>11. Unmet(v, o) <= 0 \/ Left(v, i) <= 0
    BY <2>1, <2>3, <2>5, <2>6 DEF Unmet, Left
  <2> QED BY <2>5, <2>10, <2>11
<1> QED BY <1>1, <1>2

-----------------------------------------------------------------------------
(* The orders of the matching have a last element *)

LEMMA LotOrder ==
    ASSUME NEW w \in Ledgers
    PROVE  /\ \A i, j \in DOMAIN w.lots : i # j => LotBefore(w, i, j) \/ LotBefore(w, j, i)
           /\ \A i, j, k \in DOMAIN w.lots :
                 LotBefore(w, i, j) /\ LotBefore(w, j, k) => LotBefore(w, i, k)
           /\ \A i, j \in DOMAIN w.lots : LotBefore(w, i, j) => i # j /\ ~LotBefore(w, j, i)
<1>1. LotIds \subseteq Int
  BY DEF LotIds
<1>2. \A i \in DOMAIN w.lots : i \in Int /\ w.lots[i].date \in Int /\ w.lots[i].expiry \in Int
  BY <1>1, LedgerRows
<1>3. ASSUME NEW i \in DOMAIN w.lots, NEW j \in DOMAIN w.lots, i # j
      PROVE  LotBefore(w, i, j) \/ LotBefore(w, j, i)
  BY <1>2, <1>3 DEF LotBefore
<1>4. ASSUME NEW i \in DOMAIN w.lots, NEW j \in DOMAIN w.lots, NEW k \in DOMAIN w.lots,
             LotBefore(w, i, j), LotBefore(w, j, k)
      PROVE  LotBefore(w, i, k)
  BY <1>2, <1>4 DEF LotBefore
<1>5. ASSUME NEW i \in DOMAIN w.lots, NEW j \in DOMAIN w.lots, LotBefore(w, i, j)
      PROVE  i # j /\ ~LotBefore(w, j, i)
  BY <1>2, <1>5 DEF LotBefore
<1> QED BY <1>3, <1>4, <1>5

LEMMA LastLotIn ==
    ASSUME NEW w \in Ledgers, NEW S \in SUBSET DOMAIN w.lots, S # {}
    PROVE  LastLot(w, S) \in S /\ \A j \in S \ {LastLot(w, S)} : LotBefore(w, j, LastLot(w, S))
<1>1. IsFiniteSet(S)
  BY IdsFinite, LedgerRows, FS_Subset
<1> DEFINE Last(s, i) == \A j \in s \ {i} : LotBefore(w, j, i)
           T == {s \in SUBSET S : s # {} => \E i \in s : Last(s, i)}
<1>2. ASSUME NEW s \in SUBSET S, \A x \in s : s \ {x} \in T PROVE s \in T
  <2>1. ASSUME NEW x \in s PROVE \E i \in s : Last(s, i)
    <3>1. CASE s \ {x} = {}
      BY <3>1
    <3>2. CASE s \ {x} # {}
      <4>1. PICK i \in s \ {x} : Last(s \ {x}, i)
        BY <1>2, <3>2
      <4>2. i \in DOMAIN w.lots /\ x \in DOMAIN w.lots /\ i # x
        OBVIOUS
      <4>3. CASE LotBefore(w, x, i)
        BY <4>1, <4>3
      <4>4. CASE LotBefore(w, i, x)
        <5>1. ASSUME NEW j \in s \ {x} PROVE LotBefore(w, j, x)
          <6>1. CASE j = i
            BY <4>4, <6>1
          <6>2. CASE j # i
            <7>1. LotBefore(w, j, i) /\ j \in DOMAIN w.lots
              BY <4>1, <6>2
            <7> QED BY <4>2, <4>4, <7>1, LotOrder
          <6> QED BY <6>1, <6>2
        <5> QED BY <5>1
      <4> QED BY <4>2, <4>3, <4>4, LotOrder
    <3> QED BY <3>1, <3>2
  <2> HIDE DEF Last
  <2> QED BY <2>1
<1>3. T = SUBSET S
  <2>1. T \in SUBSET SUBSET S
    OBVIOUS
  <2> HIDE DEF T
  <2> QED BY <1>1, <1>2, <2>1, SubsetInduction
<1>4. \E i \in S : \A j \in S \ {i} : LotBefore(w, j, i)
  BY <1>3
<1> QED BY <1>4 DEF LastLot

TurnBefore(turn, p, o) == turn[p] < turn[o] \/ (turn[p] = turn[o] /\ p < o)

LEMMA LastTurnIn ==
    ASSUME NEW os \in SUBSET OutIds, os # {}, NEW turn, \A o \in os : turn[o] \in Int
    PROVE  /\ LastTurn(turn, os) \in os
           /\ \A p \in os \ {LastTurn(turn, os)} : TurnBefore(turn, p, LastTurn(turn, os))
<1>1. IsFiniteSet(os)
  BY IdsFinite, FS_Subset
<1> DEFINE Before(p, o) == turn[p] < turn[o] \/ (turn[p] = turn[o] /\ p < o)
           Last(s, o) == \A p \in s \ {o} : Before(p, o)
           T == {s \in SUBSET os : s # {} => \E o \in s : Last(s, o)}
<1>2. \A o \in os : o \in Int /\ turn[o] \in Int
  BY DEF OutIds
<1>3. /\ \A p, o \in os : p # o => Before(p, o) \/ Before(o, p)
      /\ \A p, o, q \in os : Before(p, o) /\ Before(o, q) => Before(p, q)
  BY <1>2
<1>4. ASSUME NEW s \in SUBSET os, \A x \in s : s \ {x} \in T PROVE s \in T
  <2> HIDE DEF Before
  <2>1. ASSUME NEW x \in s PROVE \E i \in s : Last(s, i)
    <3>1. CASE s \ {x} = {}
      BY <3>1
    <3>2. CASE s \ {x} # {}
      <4>1. PICK i \in s \ {x} : Last(s \ {x}, i)
        BY <1>4, <3>2
      <4>2. i \in os /\ x \in os /\ i # x
        OBVIOUS
      <4>3. CASE Before(x, i)
        BY <4>1, <4>3
      <4>4. CASE Before(i, x)
        <5>1. ASSUME NEW j \in s \ {x} PROVE Before(j, x)
          <6>1. CASE j = i
            BY <4>4, <6>1
          <6>2. CASE j # i
            <7>1. Before(j, i) /\ j \in os
              BY <4>1, <6>2
            <7> QED BY <1>3, <4>2, <4>4, <7>1
          <6> QED BY <6>1, <6>2
        <5> QED BY <5>1
      <4> QED BY <1>3, <4>2, <4>3, <4>4
    <3> QED BY <3>1, <3>2
  <2> HIDE DEF Last
  <2> QED BY <2>1
<1>5. T = SUBSET os
  <2>1. T \in SUBSET SUBSET os
    OBVIOUS
  <2> HIDE DEF T
  <2> QED BY <1>1, <1>4, <2>1, SubsetInduction
<1>6. \E o \in os : \A p \in os \ {o} : turn[p] < turn[o] \/ (turn[p] = turn[o] /\ p < o)
  BY <1>5
<1> QED BY <1>6 DEF LastTurn, TurnBefore

-----------------------------------------------------------------------------
(* One distribution is met *)

LEMMA LaterTwice ==
    ASSUME NEW w, NEW u, NEW v, NEW R, NEW S, Later(w, u, R), Later(u, v, S),
           w.alloc \in [OutIds -> [LotIds -> Nat]], u.alloc \in [OutIds -> [LotIds -> Nat]],
           v.alloc \in [OutIds -> [LotIds -> Nat]]
    PROVE  Later(w, v, R \cup S)
<1>1. ASSUME NEW o \in OutIds, NEW i \in LotIds PROVE w.alloc[o][i] <= v.alloc[o][i]
  <2>1. w.alloc[o][i] <= u.alloc[o][i] /\ u.alloc[o][i] <= v.alloc[o][i]
    BY DEF Later
  <2>2. w.alloc[o][i] \in Nat /\ u.alloc[o][i] \in Nat /\ v.alloc[o][i] \in Nat
    OBVIOUS
  <2> QED BY <2>1, <2>2
<1> QED BY <1>1 DEF Later

LEMMA LaterNow ==
    ASSUME NEW w \in Ledgers, NEW os
    PROVE  Later(w, w, os)
<1>1. \A o \in OutIds, i \in LotIds : w.alloc[o][i] \in Nat
  BY DEF Ledgers
<1> QED BY <1>1 DEF Later

\* What was missing or left can only have become less.
LEMMA LaterLess ==
    ASSUME NEW w \in Ledgers, NEW v \in Ledgers, NEW os, Later(w, v, os)
    PROVE  /\ \A o \in DOMAIN w.outs : /\ Unmet(w, o) \in Int /\ Unmet(v, o) \in Int
                                       /\ Unmet(v, o) <= Unmet(w, o)
                                       /\ o \notin os => Unmet(v, o) = Unmet(w, o)
           /\ \A i \in DOMAIN w.lots : /\ Left(w, i) \in Int /\ Left(v, i) \in Int
                                       /\ Left(v, i) <= Left(w, i)
<1>1. w.alloc \in [OutIds -> [LotIds -> Nat]] /\ v.alloc \in [OutIds -> [LotIds -> Nat]]
  BY DEF Ledgers
<1>2. \A o \in OutIds, i \in LotIds : w.alloc[o][i] <= v.alloc[o][i]
  BY DEF Later
<1>3. ASSUME NEW o \in DOMAIN w.outs
      PROVE  /\ Unmet(w, o) \in Int /\ Unmet(v, o) \in Int /\ Unmet(v, o) <= Unmet(w, o)
             /\ o \notin os => Unmet(v, o) = Unmet(w, o)
  <2>1. o \in OutIds /\ w.outs[o].qty \in Nat /\ v.outs = w.outs
    BY LedgerRows DEF Later
  <2>2. Allocated(w, o) \in Nat /\ Allocated(v, o) \in Nat
    BY <1>1, <2>1, Balances
  <2>3. Allocated(w, o) <= Allocated(v, o)
    BY <1>1, <1>2, <2>1, BalancesGrow
  <2>4. o \notin os => Allocated(v, o) = Allocated(w, o)
    BY <2>1 DEF Later, Allocated
  <2> QED BY <2>1, <2>2, <2>3, <2>4 DEF Unmet
<1>4. ASSUME NEW i \in DOMAIN w.lots
      PROVE  Left(w, i) \in Int /\ Left(v, i) \in Int /\ Left(v, i) <= Left(w, i)
  <2>1. i \in LotIds /\ w.lots[i].qty \in Nat /\ v.lots = w.lots
    BY LedgerRows DEF Later
  <2>2. Used(w, i) \in Nat /\ Used(v, i) \in Nat
    BY <1>1, <2>1, Balances
  <2>3. Used(w, i) <= Used(v, i)
    BY <1>1, <1>2, <2>1, BalancesGrow
  <2> QED BY <2>1, <2>2, <2>3 DEF Left
<1> QED BY <1>3, <1>4

LEMMA LaterNotIdle ==
    ASSUME NEW w \in Ledgers, NEW v \in Ledgers, NEW os, Later(w, v, os),
           NEW o \in DOMAIN w.outs, NotIdle(w, o)
    PROVE  NotIdle(v, o)
<1>1. v.lots = w.lots /\ v.outs = w.outs /\ v.start = w.start
  BY DEF Later
<1>2. Unmet(v, o) > 0 => Unmet(w, o) > 0
  BY LaterLess
<1>3. ASSUME NEW i \in DOMAIN w.lots, IsOpen(v, i) PROVE IsOpen(w, i)
  <2>1. Left(v, i) > 0 => Left(w, i) > 0
    BY LaterLess
  <2> QED BY <1>1, <1>3, <2>1 DEF IsOpen
<1> QED BY <1>1, <1>2, <1>3 DEF NotIdle

\* What the matching of o may make of w.
Served(w, o) == {v \in Ledgers : Sound(v) /\ Later(w, v, {o})}

\* The ledger after the lots of s, for every part s of the open lots.
IsServing(g, w, o) ==
    \A s \in SUBSET OpenLots(w, w.outs[o].product) :
        g[s] = IF s = {} THEN w ELSE Take(g[s \ {LastLot(w, s)}], o, LastLot(w, s))

LEMMA ServeStep ==
    ASSUME NEW w, Sound(w), NEW o \in DOMAIN w.outs, w.outs[o].date >= w.start,
           NEW v \in Served(w, o), NEW i \in OpenLots(w, w.outs[o].product)
    PROVE  /\ Take(v, o, i) \in Served(w, o)
           /\ Sound(Take(v, o, i)) /\ Later(v, Take(v, o, i), {o})
           /\ CanServe(v.lots[i], v.outs[o].date) =>
                 Unmet(Take(v, o, i), o) <= 0 \/ Left(Take(v, o, i), i) <= 0
<1>1. v.lots = w.lots /\ v.outs = w.outs /\ v.start = w.start /\ Sound(v)
  BY DEF Served, Later
<1>2. Joinable(v, o, i)
  <2>1. /\ i \in DOMAIN w.lots /\ w.lots[i].product = w.outs[o].product
        /\ w.lots[i].status = "active" /\ w.lots[i].date >= w.start
    BY DEF OpenLots, IsOpen
  <2> QED BY <1>1, <2>1 DEF Joinable
<1>3. /\ Sound(Take(v, o, i)) /\ Later(v, Take(v, o, i), {o})
      /\ CanServe(v.lots[i], v.outs[o].date) =>
            Unmet(Take(v, o, i), o) <= 0 \/ Left(Take(v, o, i), i) <= 0
  BY <1>1, <1>2, TakeSound
<1>4. Later(w, Take(v, o, i), {o})
  <2>1. Later(w, v, {o})
    BY DEF Served
  <2>2. /\ w.alloc \in [OutIds -> [LotIds -> Nat]] /\ v.alloc \in [OutIds -> [LotIds -> Nat]]
        /\ Take(v, o, i).alloc \in [OutIds -> [LotIds -> Nat]]
    BY <1>1, <1>3 DEF Sound, Ledgers
  <2>3. Later(w, Take(v, o, i), {o} \cup {o})
    BY <1>3, <2>1, <2>2, LaterTwice
  <2>4. {o} \cup {o} = {o}
    OBVIOUS
  <2> QED BY <2>3, <2>4
<1>5. Take(v, o, i) \in Served(w, o)
  BY <1>3, <1>4 DEF Served, Sound
<1> QED BY <1>3, <1>5

LEMMA ServingExists ==
    ASSUME NEW w, Sound(w), NEW o \in DOMAIN w.outs, w.outs[o].date >= w.start
    PROVE  \E g \in [SUBSET OpenLots(w, w.outs[o].product) -> Served(w, o)] : IsServing(g, w, o)
<1> DEFINE S == OpenLots(w, w.outs[o].product)
           V == Served(w, o)
           F == [v \in V |-> [i \in S |-> Take(v, o, i)]]
           c == [s \in SUBSET S |-> LastLot(w, s)]
<1>1. w \in Ledgers /\ S \subseteq DOMAIN w.lots
  BY DEF Sound, OpenLots
<1>2. IsFiniteSet(S)
  BY <1>1, IdsFinite, LedgerRows, FS_Subset
<1>3. w \in V
  BY <1>1, LaterNow DEF Served
<1>4. F \in [V -> [S -> V]]
  BY ServeStep
<1>5. ChoosesFrom(c, S)
  BY <1>1, LastLotIn DEF ChoosesFrom
<1> HIDE DEF S, V
<1>6. PICK g \in [SUBSET S -> V] : IsFold(g, S, w, F, c)
  <2> HIDE DEF F, c
  <2> QED BY <1>2, <1>3, <1>4, <1>5, FoldExists
<1>7. ASSUME NEW s \in SUBSET S
      PROVE  g[s] = IF s = {} THEN w ELSE Take(g[s \ {LastLot(w, s)}], o, LastLot(w, s))
  <2>1. CASE s = {}
    BY <1>6, <2>1 DEF IsFold
  <2>2. CASE s # {}
    <3>1. c[s] = LastLot(w, s) /\ c[s] \in S
      BY <1>5, <2>2 DEF ChoosesFrom
    <3>2. g[s] = F[g[s \ {c[s]}]][c[s]]
      <4> HIDE DEF F, c
      <4> QED BY <1>6, <2>2 DEF IsFold
    <3>3. g[s \ {c[s]}] \in V
      OBVIOUS
    <3> QED BY <2>2, <3>1, <3>2, <3>3
  <2> QED BY <2>1, <2>2
<1>8. IsServing(g, w, o)
  BY <1>7 DEF IsServing, S
<1> QED BY <1>8 DEF S, V

\* The ledger that the fold of Serve ends with is one of these.
LEMMA ServeIs ==
    ASSUME NEW w, Sound(w), NEW o \in DOMAIN w.outs, w.outs[o].date >= w.start
    PROVE  \E g \in [SUBSET OpenLots(w, w.outs[o].product) -> Served(w, o)] :
              /\ IsServing(g, w, o)
              /\ Serve(w, o) = g[OpenLots(w, w.outs[o].product)]
<1> DEFINE S == OpenLots(w, w.outs[o].product)
           Next1(h, s) == IF s = {} THEN w ELSE Take(h[s \ {LastLot(w, s)}], o, LastLot(w, s))
           h == CHOOSE h : h = [s \in SUBSET S |-> Next1(h, s)]
<1>1. PICK g \in [SUBSET S -> Served(w, o)] : IsServing(g, w, o)
  BY ServingExists
<1>2. ~(w.outs[o].date < w.start)
  BY LedgerRows DEF Sound
<1>3. Serve(w, o) = h[S]
  BY <1>2 DEF Serve, MapThenFoldSet
<1>4. g = [s \in SUBSET S |-> Next1(g, s)]
  BY <1>1 DEF IsServing
<1>5. h = [s \in SUBSET S |-> Next1(h, s)]
  <2> HIDE DEF Next1
  <2> QED BY <1>4
<1> HIDE DEF h
<1>6. IsFiniteSet(S) /\ S \subseteq DOMAIN w.lots /\ w \in Ledgers
  BY IdsFinite, LedgerRows, FS_Subset DEF Sound, OpenLots
<1> HIDE DEF S
<1> DEFINE T == {s \in SUBSET S : h[s] = g[s]}
<1>7. ASSUME NEW s \in SUBSET S, \A x \in s : s \ {x} \in T PROVE s \in T
  <2>1. h[s] = Next1(h, s) /\ g[s] = Next1(g, s)
    BY <1>4, <1>5
  <2>2. s # {} => LastLot(w, s) \in s
    BY <1>6, LastLotIn
  <2>3. Next1(h, s) = Next1(g, s)
    BY <1>7, <2>2
  <2> QED BY <2>1, <2>3
<1>8. T = SUBSET S
  <2>1. T \in SUBSET SUBSET S
    OBVIOUS
  <2> HIDE DEF T
  <2> QED BY <1>6, <1>7, <2>1, SubsetInduction
<1>9. h[S] = g[S]
  BY <1>8
<1> QED BY <1>1, <1>3, <1>9 DEF S

\* A distribution that is matched gets nothing it should not, and does not wait
\* beside water.
LEMMA ServeSound ==
    ASSUME NEW w, Sound(w), NEW o \in DOMAIN w.outs
    PROVE  Serve(w, o) \in Served(w, o) /\ NotIdle(Serve(w, o), o)
<1>0. w \in Ledgers /\ w.outs[o].date \in Int /\ w.start \in Int
  BY LedgerRows DEF Sound
<1>1. CASE w.outs[o].date < w.start
  <2>1. Serve(w, o) = w
    BY <1>1 DEF Serve
  <2>2. ~(w.outs[o].date >= w.start)
    BY <1>0, <1>1
  <2> QED BY <1>0, <2>1, <2>2, LaterNow DEF Served, NotIdle
<1>2. CASE w.outs[o].date >= w.start
  <2> DEFINE S == OpenLots(w, w.outs[o].product)
  <2>1. PICK g \in [SUBSET S -> Served(w, o)] : IsServing(g, w, o) /\ Serve(w, o) = g[S]
    BY <1>2, ServeIs
  <2>2. IsFiniteSet(S) /\ S \subseteq DOMAIN w.lots
    BY <1>0, IdsFinite, LedgerRows, FS_Subset DEF OpenLots
  <2>3. \A s \in SUBSET S :
           g[s] = IF s = {} THEN w ELSE Take(g[s \ {LastLot(w, s)}], o, LastLot(w, s))
    BY <2>1 DEF IsServing
  <2> DEFINE Done(v, i) == CanServe(w.lots[i], w.outs[o].date) => Unmet(v, o) <= 0 \/ Left(v, i) <= 0
             T == {s \in SUBSET S : \A i \in s : Done(g[s], i)}
  <2>4. ASSUME NEW s \in SUBSET S, \A x \in s : s \ {x} \in T PROVE s \in T
    <3>1. CASE s = {}
      BY <3>1
    <3>2. CASE s # {}
      <4> DEFINE x == LastLot(w, s)
                 v == g[s \ {x}]
      <4>1. x \in s /\ x \in S
        BY <1>0, <2>2, <3>2, LastLotIn
      <4>2. v \in Served(w, o) /\ g[s] = Take(v, o, x)
        BY <2>3, <3>2
      <4>3. \A i \in s \ {x} : Done(v, i)
        BY <2>4, <4>1
      <4> HIDE DEF S, v, x, Done
      <4>4. /\ Sound(Take(v, o, x)) /\ Later(v, Take(v, o, x), {o})
            /\ CanServe(v.lots[x], v.outs[o].date) =>
                  Unmet(Take(v, o, x), o) <= 0 \/ Left(Take(v, o, x), x) <= 0
        BY <1>2, <4>1, <4>2, ServeStep DEF S
      <4>5. /\ v \in Ledgers /\ g[s] \in Ledgers /\ Later(v, g[s], {o})
            /\ v.lots = w.lots /\ v.outs = w.outs
        BY <4>2, <4>4 DEF Served, Sound, Later
      <4>6. Done(g[s], x)
        BY <4>2, <4>4, <4>5 DEF Done
      <4>7. ASSUME NEW i \in s \ {x} PROVE Done(g[s], i)
        <5>1. Done(v, i) /\ i \in DOMAIN v.lots /\ o \in DOMAIN v.outs
          BY <2>2, <4>3, <4>5
        <5>2. /\ Unmet(v, o) \in Int /\ Unmet(g[s], o) \in Int /\ Unmet(g[s], o) <= Unmet(v, o)
              /\ Left(v, i) \in Int /\ Left(g[s], i) \in Int /\ Left(g[s], i) <= Left(v, i)
          BY <4>5, <5>1, LaterLess
        <5> QED BY <5>1, <5>2 DEF Done
      <4> QED BY <4>6, <4>7
    <3> QED BY <3>1, <3>2
  <2>5. T = SUBSET S
    <3>1. T \in SUBSET SUBSET S
      OBVIOUS
    <3> HIDE DEF T, S
    <3> QED BY <2>2, <2>4, <3>1, SubsetInduction
  <2>6. \A i \in S : Done(g[S], i)
    BY <2>5
  <2> DEFINE v == g[S]
  <2>7. v \in Served(w, o)
    OBVIOUS
  <2> HIDE DEF v
  <2>8. v \in Ledgers /\ Later(w, v, {o}) /\ v.lots = w.lots /\ v.outs = w.outs /\ v.start = w.start
    BY <2>7 DEF Served, Later
  <2>9. ASSUME NEW i \in DOMAIN w.lots, Unmet(v, o) > 0,
               w.lots[i].product = w.outs[o].product, IsOpen(v, i),
               CanServe(w.lots[i], w.outs[o].date)
        PROVE  FALSE
    <3>1. /\ Unmet(v, o) \in Int /\ Left(v, i) \in Int /\ Left(w, i) \in Int
          /\ Left(v, i) <= Left(w, i)
      BY <1>0, <2>8, LaterLess
    <3>2. Left(v, i) > 0 /\ i \in S
      BY <2>8, <2>9, <3>1 DEF IsOpen, OpenLots
    <3>3. Unmet(v, o) <= 0 \/ Left(v, i) <= 0
      BY <2>6, <2>9, <3>2 DEF v
    <3> QED BY <2>9, <3>1, <3>2, <3>3
  <2>10. NotIdle(v, o)
    BY <2>8, <2>9 DEF NotIdle
  <2> QED BY <2>1, <2>7, <2>10 DEF v
<1> QED BY <1>0, <1>1, <1>2

-----------------------------------------------------------------------------
(* One distribution is met from the earliest lots first *)

\* From w to v the distribution o gets more from the lot i.
Gains(w, v, o, i) == v.alloc[o][i] > w.alloc[o][i]

\* Only the lot that is taken gives, and only when the distribution needs some
\* and the lot has some.
LEMMA TakeGains ==
    ASSUME NEW w, Sound(w), NEW o, NEW i, Joinable(w, o, i), NEW v, v = Take(w, o, i)
    PROVE  /\ \A j \in LotIds \ {i} : v.alloc[o][j] = w.alloc[o][j]
           /\ Gains(w, v, o, i) => Unmet(w, o) > 0 /\ Left(w, i) > 0
<1>0. /\ w \in Ledgers /\ o \in DOMAIN w.outs /\ i \in DOMAIN w.lots
      /\ o \in OutIds /\ i \in LotIds /\ w.alloc[o][i] \in Nat
  <2>1. w \in Ledgers /\ o \in DOMAIN w.outs /\ i \in DOMAIN w.lots
    BY DEF Sound, Joinable
  <2>2. o \in OutIds /\ i \in LotIds /\ w.alloc \in [OutIds -> [LotIds -> Nat]]
    BY <2>1, LedgerRows
  <2> QED BY <2>1, <2>2
<1>1. CASE ~CanServe(w.lots[i], w.outs[o].date)
  <2>1. v = w
    BY <1>1 DEF Take
  <2> QED BY <1>0, <2>1 DEF Gains
<1>2. CASE CanServe(w.lots[i], w.outs[o].date)
  <2> DEFINE d == Smaller(Unmet(w, o), Left(w, i))
  <2>1. /\ Unmet(w, o) \in Int /\ Left(w, i) \in Int
        /\ Unmet(w, o) >= 0 /\ Left(w, i) >= 0
    <3>1. /\ Allocated(w, o) \in Nat /\ Used(w, i) \in Nat
          /\ w.outs[o].qty \in Nat /\ w.lots[i].qty \in Nat
      BY <1>0, Balances, LedgerRows
    <3>2. Allocated(w, o) <= w.outs[o].qty /\ Used(w, i) <= w.lots[i].qty
      BY <1>0 DEF Sound, WithinAmounts
    <3> QED BY <3>1, <3>2 DEF Unmet, Left
  <2>2. d \in Nat /\ (d > 0 => Unmet(w, o) > 0 /\ Left(w, i) > 0)
    BY <2>1 DEF Smaller
  <2>3. v = Added(w, o, i, d)
    BY <1>2 DEF Take, Added
  <2> HIDE DEF d
  <2>4. OneMore(w, Added(w, o, i, d), o, i, d)
    BY <1>0, <2>2, OneAllocation
  <2>5. \A j \in LotIds :
           v.alloc[o][j] = IF j = i THEN w.alloc[o][j] + d ELSE w.alloc[o][j]
    BY <1>0, <2>3, <2>4 DEF OneMore
  <2> QED BY <1>0, <2>2, <2>5 DEF Gains
<1> QED BY <1>1, <1>2

\* A distribution gets water from open lots only, and from none while an earlier
\* one that could serve it has some left.
LEMMA ServeInOrder ==
    ASSUME NEW w, Sound(w), NEW o \in DOMAIN w.outs
    PROVE  /\ \A j \in LotIds : Gains(w, Serve(w, o), o, j) =>
                 w.outs[o].date >= w.start /\ j \in OpenLots(w, w.outs[o].product)
           /\ \A i, j \in OpenLots(w, w.outs[o].product) :
                 /\ Gains(w, Serve(w, o), o, j)
                 /\ CanServe(w.lots[i], w.outs[o].date) /\ LotBefore(w, i, j)
                 => Left(Serve(w, o), i) <= 0
<1>0. /\ w \in Ledgers /\ w.outs[o].date \in Int /\ w.start \in Int /\ o \in OutIds
      /\ \A j \in LotIds : w.alloc[o][j] \in Nat
  <2>1. w \in Ledgers
    BY DEF Sound
  <2>2. /\ w.outs[o].date \in Int /\ w.start \in Int /\ o \in OutIds
        /\ w.alloc \in [OutIds -> [LotIds -> Nat]]
    BY <2>1, LedgerRows
  <2> QED BY <2>1, <2>2
<1>1. CASE w.outs[o].date < w.start
  <2>1. Serve(w, o) = w
    BY <1>1 DEF Serve
  <2>2. \A j \in LotIds : ~Gains(w, w, o, j)
    BY <1>0 DEF Gains
  <2>3. OpenLots(w, w.outs[o].product) \subseteq LotIds
    BY <1>0, LedgerRows DEF OpenLots
  <2> QED BY <2>1, <2>2, <2>3
<1>2. CASE w.outs[o].date >= w.start
  <2> DEFINE S == OpenLots(w, w.outs[o].product)
  <2>1. PICK g \in [SUBSET S -> Served(w, o)] : IsServing(g, w, o) /\ Serve(w, o) = g[S]
    BY <1>2, ServeIs
  <2>2. IsFiniteSet(S) /\ S \subseteq DOMAIN w.lots /\ S \subseteq LotIds
    BY <1>0, IdsFinite, LedgerRows, FS_Subset DEF OpenLots
  <2>3. \A s \in SUBSET S :
           g[s] = IF s = {} THEN w ELSE Take(g[s \ {LastLot(w, s)}], o, LastLot(w, s))
    BY <2>1 DEF IsServing
  <2> DEFINE Fits(i) == CanServe(w.lots[i], w.outs[o].date)
             Settles(v, i) == Fits(i) => Unmet(v, o) <= 0 \/ Left(v, i) <= 0
             Only(v, s) == \A j \in LotIds : j \notin s => v.alloc[o][j] = w.alloc[o][j]
             First(v, s) == \A i, j \in s :
                Gains(w, v, o, j) /\ Fits(i) /\ LotBefore(w, i, j) => Left(v, i) <= 0
             T == {s \in SUBSET S : Only(g[s], s) /\ First(g[s], s) /\ \A i \in s : Settles(g[s], i)}
  <2>4. ASSUME NEW s \in SUBSET S, \A x \in s : s \ {x} \in T PROVE s \in T
    <3>1. CASE s = {}
      BY <2>3, <3>1
    <3>2. CASE s # {}
      <4> DEFINE x == LastLot(w, s)
                 v == g[s \ {x}]
                 u == g[s]
      <4>1. x \in s /\ x \in S /\ \A j \in s \ {x} : LotBefore(w, j, x)
        BY <1>0, <2>2, <3>2, LastLotIn
      <4>2. v \in Served(w, o) /\ u = Take(v, o, x)
        BY <2>3, <3>2
      <4>3. /\ Only(v, s \ {x}) /\ First(v, s \ {x})
            /\ \A i \in s \ {x} : Settles(v, i)
        BY <2>4, <4>1
      <4> HIDE DEF S, v, x, u, Only, First, Settles, Fits
      <4>4. /\ Sound(u) /\ Later(v, u, {o})
            /\ CanServe(v.lots[x], v.outs[o].date) => Unmet(u, o) <= 0 \/ Left(u, x) <= 0
        BY <1>2, <4>1, <4>2, ServeStep DEF S
      <4>5. /\ v \in Ledgers /\ u \in Ledgers /\ Sound(v)
            /\ v.lots = w.lots /\ v.outs = w.outs /\ v.start = w.start
        BY <4>2, <4>4 DEF Served, Sound, Later
      <4>6. Joinable(v, o, x)
        <5>1. /\ x \in DOMAIN w.lots /\ w.lots[x].product = w.outs[o].product
              /\ w.lots[x].status = "active" /\ w.lots[x].date >= w.start
          BY <4>1 DEF S, OpenLots, IsOpen
        <5> QED BY <1>2, <4>5, <5>1 DEF Joinable
      <4>7. /\ \A j \in LotIds \ {x} : u.alloc[o][j] = v.alloc[o][j]
            /\ Gains(v, u, o, x) => Unmet(v, o) > 0
        BY <4>2, <4>5, <4>6, TakeGains
      <4>8. ASSUME NEW i \in s
            PROVE  /\ Left(u, i) \in Int /\ Left(v, i) \in Int /\ Left(u, i) <= Left(v, i)
                   /\ Unmet(u, o) \in Int /\ Unmet(v, o) \in Int /\ Unmet(u, o) <= Unmet(v, o)
        <5>1. i \in DOMAIN v.lots /\ o \in DOMAIN v.outs
          BY <2>2, <4>5
        <5> QED BY <4>4, <4>5, <5>1, LaterLess
      <4>9. Only(u, s)
        BY <4>1, <4>3, <4>7 DEF Only
      <4>10. ASSUME NEW i \in s PROVE Settles(u, i)
        <5>1. CASE i = x
          BY <4>4, <4>5, <5>1 DEF Settles, Fits
        <5>2. CASE i # x
          BY <4>3, <4>8, <5>2 DEF Settles
        <5> QED BY <5>1, <5>2
      <4>11. ASSUME NEW i \in s, NEW j \in s, Gains(w, u, o, j), Fits(i), LotBefore(w, i, j)
             PROVE  Left(u, i) <= 0
        <5>1. i \in DOMAIN w.lots /\ j \in DOMAIN w.lots /\ x \in DOMAIN w.lots
              /\ i # j /\ ~LotBefore(w, j, i)
          <6>1. i \in DOMAIN w.lots /\ j \in DOMAIN w.lots /\ x \in DOMAIN w.lots
            BY <2>2, <4>1
          <6> QED BY <1>0, <4>11, <6>1, LotOrder
        <5>2. CASE j = x
          <6>1. x \in LotIds /\ v.alloc[o][x] = w.alloc[o][x]
            BY <2>2, <4>1, <4>3 DEF Only
          <6>2. Unmet(v, o) > 0
            BY <4>7, <4>11, <5>2, <6>1 DEF Gains
          <6>3. Left(v, i) <= 0
            BY <4>3, <4>8, <4>11, <5>1, <5>2, <6>2 DEF Settles
          <6> QED BY <4>8, <6>3
        <5>3. CASE j # x
          <6>1. i # x
            BY <4>1, <5>1, <5>3
          <6>2. j \in LotIds
            BY <2>2
          <6>3. Gains(w, v, o, j)
            BY <4>7, <4>11, <5>3, <6>2 DEF Gains
          <6>4. Left(v, i) <= 0
            BY <4>3, <4>11, <5>3, <6>1, <6>3 DEF First
          <6> QED BY <4>8, <6>4
        <5> QED BY <5>2, <5>3
      <4>12. First(u, s)
        BY <4>11 DEF First
      <4> QED BY <4>9, <4>10, <4>12 DEF u, S
    <3> QED BY <3>1, <3>2
  <2>5. T = SUBSET S
    <3>1. T \in SUBSET SUBSET S
      OBVIOUS
    <3> HIDE DEF T, S
    <3> QED BY <2>2, <2>4, <3>1, SubsetInduction
  <2>6. Only(g[S], S) /\ First(g[S], S)
    BY <2>5
  <2>7. \A j \in LotIds : Gains(w, g[S], o, j) => j \in S
    BY <1>0, <2>6 DEF Gains
  <2> QED BY <1>2, <2>1, <2>6, <2>7
<1> QED BY <1>0, <1>1, <1>2

-----------------------------------------------------------------------------
(* All that wait are met *)

\* What the matching of distributions of os may make of w.
ServedOf(w, os) == {v \in Ledgers : Sound(v) /\ Later(w, v, os)}

IsServingAll(g, w, os, turn) ==
    \A s \in SUBSET os : g[s] = IF s = {} THEN w ELSE Serve(g[s \ {LastTurn(turn, s)}], LastTurn(turn, s))

LEMMA ServeAllStep ==
    ASSUME NEW w, Sound(w), NEW os \in SUBSET DOMAIN w.outs, NEW v \in ServedOf(w, os), NEW o \in os
    PROVE  /\ Serve(v, o) \in ServedOf(w, os)
           /\ v \in Ledgers /\ Serve(v, o) \in Ledgers /\ Later(v, Serve(v, o), {o})
           /\ NotIdle(Serve(v, o), o)
<1>1. v \in Ledgers /\ Sound(v) /\ Later(w, v, os) /\ o \in DOMAIN v.outs
  BY DEF ServedOf, Later
<1>2. Serve(v, o) \in Served(v, o) /\ NotIdle(Serve(v, o), o)
  BY <1>1, ServeSound
<1>3. Serve(v, o) \in Ledgers /\ Sound(Serve(v, o)) /\ Later(v, Serve(v, o), {o})
  BY <1>2 DEF Served
<1>4. Later(w, Serve(v, o), os \cup {o})
  <2>1. /\ w.alloc \in [OutIds -> [LotIds -> Nat]] /\ v.alloc \in [OutIds -> [LotIds -> Nat]]
        /\ Serve(v, o).alloc \in [OutIds -> [LotIds -> Nat]]
    BY <1>1, <1>3 DEF Sound, Ledgers
  <2> QED BY <1>1, <1>3, <2>1, LaterTwice
<1>5. os \cup {o} = os
  OBVIOUS
<1>6. Serve(v, o) \in ServedOf(w, os)
  BY <1>3, <1>4, <1>5 DEF ServedOf
<1> QED BY <1>1, <1>2, <1>3, <1>6

LEMMA ServingAllExists ==
    ASSUME NEW w, Sound(w), NEW os \in SUBSET DOMAIN w.outs, NEW turn, \A o \in os : turn[o] \in Int
    PROVE  \E g \in [SUBSET os -> ServedOf(w, os)] : IsServingAll(g, w, os, turn)
<1> DEFINE V == ServedOf(w, os)
           F == [v \in V |-> [o \in os |-> Serve(v, o)]]
           c == [s \in SUBSET os |-> LastTurn(turn, s)]
<1>1. w \in Ledgers /\ os \subseteq OutIds
  BY LedgerRows DEF Sound
<1>2. IsFiniteSet(os)
  BY <1>1, IdsFinite, FS_Subset
<1>3. w \in V
  BY <1>1, LaterNow DEF ServedOf
<1>4. F \in [V -> [os -> V]]
  BY ServeAllStep
<1>5. ChoosesFrom(c, os)
  <2>1. ASSUME NEW s \in SUBSET os, s # {} PROVE LastTurn(turn, s) \in s
    <3>1. s \in SUBSET OutIds /\ \A o \in s : turn[o] \in Int
      BY <1>1
    <3> QED BY <2>1, <3>1, LastTurnIn
  <2> QED BY <2>1 DEF ChoosesFrom
<1> HIDE DEF V
<1>6. PICK g \in [SUBSET os -> V] : IsFold(g, os, w, F, c)
  <2> HIDE DEF F, c
  <2> QED BY <1>2, <1>3, <1>4, <1>5, FoldExists
<1>7. ASSUME NEW s \in SUBSET os
      PROVE  g[s] = IF s = {} THEN w ELSE Serve(g[s \ {LastTurn(turn, s)}], LastTurn(turn, s))
  <2>1. CASE s = {}
    BY <1>6, <2>1 DEF IsFold
  <2>2. CASE s # {}
    <3>1. c[s] = LastTurn(turn, s) /\ c[s] \in os
      BY <1>5, <2>2 DEF ChoosesFrom
    <3>2. g[s] = F[g[s \ {c[s]}]][c[s]]
      <4> HIDE DEF F, c
      <4> QED BY <1>6, <2>2 DEF IsFold
    <3>3. g[s \ {c[s]}] \in V
      OBVIOUS
    <3> QED BY <2>2, <3>1, <3>2, <3>3
  <2> QED BY <2>1, <2>2
<1>8. IsServingAll(g, w, os, turn)
  BY <1>7 DEF IsServingAll
<1> QED BY <1>8 DEF V

LEMMA ServeAllIs ==
    ASSUME NEW w, Sound(w), NEW os \in SUBSET DOMAIN w.outs, NEW turn, \A o \in os : turn[o] \in Int
    PROVE  \E g \in [SUBSET os -> ServedOf(w, os)] :
              IsServingAll(g, w, os, turn) /\ ServeAll(w, os, turn) = g[os]
<1> DEFINE Next1(h, s) == IF s = {} THEN w ELSE Serve(h[s \ {LastTurn(turn, s)}], LastTurn(turn, s))
           h == CHOOSE h : h = [s \in SUBSET os |-> Next1(h, s)]
<1>1. PICK g \in [SUBSET os -> ServedOf(w, os)] : IsServingAll(g, w, os, turn)
  BY ServingAllExists
<1>2. ServeAll(w, os, turn) = h[os]
  BY DEF ServeAll, MapThenFoldSet
<1>3. g = [s \in SUBSET os |-> Next1(g, s)]
  BY <1>1 DEF IsServingAll
<1>4. h = [s \in SUBSET os |-> Next1(h, s)]
  <2> HIDE DEF Next1
  <2> QED BY <1>3
<1> HIDE DEF h
<1>5. IsFiniteSet(os) /\ os \subseteq OutIds
  BY IdsFinite, LedgerRows, FS_Subset DEF Sound
<1> DEFINE T == {s \in SUBSET os : h[s] = g[s]}
<1>6. ASSUME NEW s \in SUBSET os, \A x \in s : s \ {x} \in T PROVE s \in T
  <2>1. h[s] = Next1(h, s) /\ g[s] = Next1(g, s)
    BY <1>3, <1>4
  <2>2. s # {} => LastTurn(turn, s) \in s
    <3>1. s \in SUBSET OutIds /\ \A o \in s : turn[o] \in Int
      BY <1>5
    <3> QED BY <3>1, LastTurnIn
  <2>3. Next1(h, s) = Next1(g, s)
    BY <1>6, <2>2
  <2> QED BY <2>1, <2>3
<1>7. T = SUBSET os
  <2>1. T \in SUBSET SUBSET os
    OBVIOUS
  <2> HIDE DEF T
  <2> QED BY <1>5, <1>6, <2>1, SubsetInduction
<1>8. h[os] = g[os]
  BY <1>7
<1> QED BY <1>1, <1>2, <1>8

\* Whoever had a turn does not wait beside water, whatever came after.
LEMMA ServeAllSound ==
    ASSUME NEW w, Sound(w), NEW os \in SUBSET DOMAIN w.outs, NEW turn, \A o \in os : turn[o] \in Int
    PROVE  /\ ServeAll(w, os, turn) \in ServedOf(w, os)
           /\ \A o \in os : NotIdle(ServeAll(w, os, turn), o)
<1>1. PICK g \in [SUBSET os -> ServedOf(w, os)] :
         IsServingAll(g, w, os, turn) /\ ServeAll(w, os, turn) = g[os]
  BY ServeAllIs
<1>2. IsFiniteSet(os) /\ os \subseteq OutIds
  BY IdsFinite, LedgerRows, FS_Subset DEF Sound
<1> DEFINE T == {s \in SUBSET os : \A o \in s : NotIdle(g[s], o)}
<1>3. ASSUME NEW s \in SUBSET os, \A x \in s : s \ {x} \in T PROVE s \in T
  <2>1. CASE s = {}
    BY <2>1
  <2>2. CASE s # {}
    <3> DEFINE x == LastTurn(turn, s)
               v == g[s \ {x}]
    <3>1. x \in s /\ x \in os
      <4>1. s \in SUBSET OutIds /\ \A o \in s : turn[o] \in Int
        BY <1>2
      <4> QED BY <2>2, <4>1, LastTurnIn
    <3>2. v \in ServedOf(w, os) /\ g[s] = Serve(v, x)
      BY <1>1, <2>2 DEF IsServingAll
    <3>3. \A o \in s \ {x} : NotIdle(v, o)
      BY <1>3, <3>1
    <3> HIDE DEF v, x
    <3>4. v \in Ledgers /\ g[s] \in Ledgers /\ Later(v, g[s], {x}) /\ NotIdle(g[s], x)
      BY <3>1, <3>2, ServeAllStep
    <3>5. ASSUME NEW o \in s \ {x} PROVE NotIdle(g[s], o)
      <4>1. o \in DOMAIN v.outs
        BY <3>2 DEF ServedOf, Later
      <4> QED BY <3>3, <3>4, <4>1, LaterNotIdle
    <3> QED BY <3>4, <3>5
  <2> QED BY <2>1, <2>2
<1>4. T = SUBSET os
  <2>1. T \in SUBSET SUBSET os
    OBVIOUS
  <2> HIDE DEF T
  <2> QED BY <1>2, <1>3, <2>1, SubsetInduction
<1>5. \A o \in os : NotIdle(g[os], o)
  BY <1>4
<1> QED BY <1>1, <1>5

-----------------------------------------------------------------------------
(* The oldest are met first *)

\* From w to v no distribution gets more from a lot while an earlier one that
\* could serve it has some left ...
EarlierFirst(w, v) ==
    \A o \in DOMAIN v.outs, i, j \in DOMAIN v.lots :
        /\ Gains(w, v, o, j)
        /\ v.lots[i].product = v.outs[o].product
        /\ CanServe(v.lots[i], v.outs[o].date)
        /\ LotBefore(v, i, j)
        => ~IsOpen(v, i)

\* The distribution o could be served by the lot i, and is not met.
Lacks(v, o, i) ==
    /\ v.outs[o].product = v.lots[i].product
    /\ CanServe(v.lots[i], v.outs[o].date)
    /\ v.outs[o].date >= v.start
    /\ Unmet(v, o) > 0

\* ... and among os nobody gets more while one whose turn is before lacks it.
TurnsKept(w, v, os, turn) ==
    \A o, p \in os, i \in DOMAIN v.lots :
        Gains(w, v, p, i) /\ TurnBefore(turn, o, p) => ~Lacks(v, o, i)

\* Who gets more is one of os, and the lot was open.
GainsAreOpen(w, v, os) ==
    \A o \in OutIds, i \in LotIds : Gains(w, v, o, i) =>
        o \in os /\ w.outs[o].date >= w.start /\ i \in OpenLots(w, w.outs[o].product)

LEMMA OpenStays ==
    ASSUME NEW w \in Ledgers, NEW v \in Ledgers, NEW os, Later(w, v, os),
           NEW i \in DOMAIN w.lots, IsOpen(v, i)
    PROVE  IsOpen(w, i)
<1>1. v.lots = w.lots /\ v.start = w.start
  BY DEF Later
<1>2. Left(v, i) > 0 => Left(w, i) > 0
  BY LaterLess
<1> QED BY <1>1, <1>2 DEF IsOpen

LEMMA LackingStays ==
    ASSUME NEW w \in Ledgers, NEW v \in Ledgers, NEW os, Later(w, v, os),
           NEW o \in DOMAIN w.outs, NEW i, Lacks(v, o, i)
    PROVE  Lacks(w, o, i)
<1>1. v.lots = w.lots /\ v.outs = w.outs /\ v.start = w.start
  BY DEF Later
<1>2. Unmet(v, o) > 0 => Unmet(w, o) > 0
  BY LaterLess
<1> QED BY <1>1, <1>2 DEF Lacks

\* The distributions of s had their turns.
InTurn(w, v, s, turn) ==
    /\ \A o \in s : NotIdle(v, o)
    /\ GainsAreOpen(w, v, s) /\ EarlierFirst(w, v) /\ TurnsKept(w, v, s, turn)

\* The distribution x has its turn after those of s.
LEMMA NextTurn ==
    ASSUME NEW w, Sound(w), NEW os \in SUBSET DOMAIN w.outs, NEW turn,
           \A o \in os : turn[o] \in Int,
           NEW s \in SUBSET os, NEW x \in os \ s, \A o \in s : TurnBefore(turn, o, x),
           NEW v \in ServedOf(w, os), InTurn(w, v, s, turn),
           NEW u, u = Serve(v, x)
    PROVE  InTurn(w, u, s \cup {x}, turn)
<1>0. /\ \A o \in s : NotIdle(v, o)
      /\ GainsAreOpen(w, v, s) /\ EarlierFirst(w, v) /\ TurnsKept(w, v, s, turn)
  BY DEF InTurn
<1>1. /\ v \in Ledgers /\ u \in Ledgers /\ Later(v, u, {x}) /\ NotIdle(u, x)
      /\ w \in Ledgers /\ Sound(v) /\ Later(w, v, os)
  BY ServeAllStep DEF ServedOf, Sound
<1>2. /\ v.lots = w.lots /\ v.outs = w.outs /\ v.start = w.start
      /\ u.lots = w.lots /\ u.outs = w.outs /\ u.start = w.start
      /\ DOMAIN w.lots \subseteq LotIds /\ DOMAIN w.outs \subseteq OutIds
      /\ \A o \in os : o \in DOMAIN w.outs /\ o \in Int
  <2>1. OutIds \subseteq Int
    BY DEF OutIds
  <2>2. DOMAIN w.lots \subseteq LotIds /\ DOMAIN w.outs \subseteq OutIds
    BY <1>1, LedgerRows
  <2> QED BY <1>1, <2>1, <2>2 DEF Later
<1>3. \A o \in OutIds, i \in LotIds :
         /\ w.alloc[o][i] \in Nat /\ v.alloc[o][i] \in Nat /\ u.alloc[o][i] \in Nat
         /\ w.alloc[o][i] <= v.alloc[o][i]
         /\ o # x => u.alloc[o][i] = v.alloc[o][i]
  <2>1. /\ w.alloc \in [OutIds -> [LotIds -> Nat]] /\ v.alloc \in [OutIds -> [LotIds -> Nat]]
        /\ u.alloc \in [OutIds -> [LotIds -> Nat]]
    BY <1>1 DEF Ledgers
  <2>2. \A o \in OutIds \ {x} : u.alloc[o] = v.alloc[o]
    BY <1>1 DEF Later
  <2>3. \A o \in OutIds, i \in LotIds : w.alloc[o][i] <= v.alloc[o][i]
    BY <1>1 DEF Later
  <2> QED BY <2>1, <2>2, <2>3
\* What another distribution has more, it had before; what x has more, it got now.
<1>4. ASSUME NEW o \in OutIds, NEW i \in LotIds, Gains(w, u, o, i)
      PROVE  IF o = x THEN Gains(v, u, x, i) ELSE Gains(w, v, o, i)
  <2>1. CASE o # x
    BY <1>3, <1>4, <2>1 DEF Gains
  <2>2. CASE o = x
    <3>1. ~Gains(w, v, x, i)
      BY <1>0, <2>2 DEF GainsAreOpen
    <3> QED BY <1>3, <1>4, <2>2, <3>1 DEF Gains
  <2> QED BY <2>1, <2>2
<1>5. /\ \A j \in LotIds : Gains(v, u, x, j) =>
            w.outs[x].date >= w.start /\ j \in OpenLots(v, w.outs[x].product)
      /\ \A i, j \in OpenLots(v, w.outs[x].product) :
            /\ Gains(v, u, x, j)
            /\ CanServe(w.lots[i], w.outs[x].date) /\ LotBefore(v, i, j)
            => Left(u, i) <= 0
  <2>1. x \in DOMAIN v.outs
    BY <1>2
  <2> QED BY <1>1, <1>2, <2>1, ServeInOrder
<1>6. \A i : i \in OpenLots(v, w.outs[x].product) =>
         /\ i \in DOMAIN w.lots /\ w.lots[i].product = w.outs[x].product
         /\ IsOpen(v, i) /\ i \in OpenLots(w, w.outs[x].product)
  <2>1. ASSUME NEW i \in DOMAIN w.lots, IsOpen(v, i) PROVE IsOpen(w, i)
    BY <1>1, <2>1, OpenStays
  <2> QED BY <1>2, <2>1 DEF OpenLots
<1>7. ASSUME NEW o \in s PROVE NotIdle(u, o)
  <2>1. o \in DOMAIN v.outs /\ NotIdle(v, o)
    BY <1>0, <1>2
  <2> QED BY <1>1, <2>1, LaterNotIdle
<1>8. GainsAreOpen(w, u, s \cup {x})
  <2>1. ASSUME NEW o \in OutIds, NEW i \in LotIds, Gains(w, u, o, i)
        PROVE  /\ o \in s \cup {x} /\ w.outs[o].date >= w.start
               /\ i \in OpenLots(w, w.outs[o].product)
    <3>1. CASE o = x
      BY <1>4, <1>5, <1>6, <2>1, <3>1
    <3>2. CASE o # x
      <4>1. Gains(w, v, o, i)
        BY <1>4, <2>1, <3>2
      <4> QED BY <1>0, <4>1 DEF GainsAreOpen
    <3> QED BY <3>1, <3>2
  <2> QED BY <2>1 DEF GainsAreOpen
<1>9. EarlierFirst(w, u)
  <2>1. ASSUME NEW o \in DOMAIN u.outs, NEW i \in DOMAIN u.lots, NEW j \in DOMAIN u.lots,
               Gains(w, u, o, j), u.lots[i].product = u.outs[o].product,
               CanServe(u.lots[i], u.outs[o].date), LotBefore(u, i, j), IsOpen(u, i)
        PROVE  FALSE
    <3>1. /\ o \in OutIds /\ j \in LotIds /\ IsOpen(v, i)
          /\ i \in DOMAIN w.lots /\ j \in DOMAIN w.lots /\ LotBefore(v, i, j)
      <4>1. LotBefore(v, i, j)
        BY <1>2, <2>1 DEF LotBefore
      <4>2. IsOpen(v, i)
        BY <1>1, <1>2, <2>1, OpenStays
      <4> QED BY <1>2, <4>1, <4>2
    <3>2. CASE o = x
      <4>1. Gains(v, u, x, j)
        BY <1>4, <2>1, <3>1, <3>2
      <4>2. i \in OpenLots(v, w.outs[x].product)
        BY <1>2, <2>1, <3>1, <3>2 DEF OpenLots
      <4>3. Left(u, i) <= 0
        BY <1>2, <1>5, <2>1, <3>1, <3>2, <4>1, <4>2
      <4>4. Left(u, i) \in Int
        BY <1>1, <1>2, <3>1, LaterLess, LaterNow
      <4> QED BY <2>1, <4>3, <4>4 DEF IsOpen
    <3>3. CASE o # x
      <4>1. Gains(w, v, o, j)
        BY <1>4, <2>1, <3>1, <3>3
      <4> QED BY <1>0, <1>2, <2>1, <3>1, <4>1 DEF EarlierFirst
    <3> QED BY <3>2, <3>3
  <2> QED BY <2>1 DEF EarlierFirst
<1>10. TurnsKept(w, u, s \cup {x}, turn)
  <2>1. ASSUME NEW o \in s \cup {x}, NEW p \in s \cup {x}, NEW i \in DOMAIN u.lots,
               Gains(w, u, p, i), TurnBefore(turn, o, p), Lacks(u, o, i)
        PROVE  FALSE
    <3>1. /\ p \in OutIds /\ i \in LotIds /\ i \in DOMAIN w.lots /\ o \in DOMAIN v.outs
          /\ o \in Int /\ p \in Int /\ x \in Int
          /\ turn[o] \in Int /\ turn[p] \in Int /\ turn[x] \in Int
      BY <1>2
    <3>2. Lacks(v, o, i)
      BY <1>1, <2>1, <3>1, LackingStays
    <3>3. CASE p = x
      <4>1. o \in s
        BY <2>1, <3>1, <3>3 DEF TurnBefore
      <4>2. i \in OpenLots(v, w.outs[x].product)
        BY <1>4, <1>5, <2>1, <3>1, <3>3
      <4>3. IsOpen(v, i)
        BY <1>6, <4>2
      <4> QED BY <1>0, <1>2, <3>1, <3>2, <4>1, <4>3 DEF NotIdle, Lacks
    <3>4. CASE p # x
      <4>1. Gains(w, v, p, i)
        BY <1>4, <2>1, <3>1, <3>4
      <4>2. o # x
        <5>1. TurnBefore(turn, p, x)
          BY <3>4
        <5> QED BY <2>1, <3>1, <5>1 DEF TurnBefore
      <4> QED BY <1>0, <1>2, <2>1, <3>2, <3>4, <4>1, <4>2 DEF TurnsKept
    <3> QED BY <3>3, <3>4
  <2> QED BY <2>1 DEF TurnsKept
<1> QED BY <1>1, <1>7, <1>8, <1>9, <1>10 DEF InTurn

LEMMA ServeAllInOrder ==
    ASSUME NEW w, Sound(w), NEW os \in SUBSET DOMAIN w.outs, NEW turn, \A o \in os : turn[o] \in Int
    PROVE  /\ GainsAreOpen(w, ServeAll(w, os, turn), os)
           /\ EarlierFirst(w, ServeAll(w, os, turn))
           /\ TurnsKept(w, ServeAll(w, os, turn), os, turn)
<1>1. PICK g \in [SUBSET os -> ServedOf(w, os)] :
         IsServingAll(g, w, os, turn) /\ ServeAll(w, os, turn) = g[os]
  BY ServeAllIs
<1>2. /\ IsFiniteSet(os) /\ os \subseteq OutIds
      /\ \A o \in OutIds, i \in LotIds : ~Gains(w, w, o, i)
      /\ DOMAIN w.lots \subseteq LotIds /\ DOMAIN w.outs \subseteq OutIds
  <2>1. w.alloc \in [OutIds -> [LotIds -> Nat]] /\ DOMAIN w.lots \subseteq LotIds
        /\ DOMAIN w.outs \subseteq OutIds
    BY LedgerRows DEF Sound
  <2> QED BY <2>1, IdsFinite, FS_Subset DEF Gains
<1> DEFINE T == {s \in SUBSET os : InTurn(w, g[s], s, turn)}
<1>3. ASSUME NEW s \in SUBSET os, \A x \in s : s \ {x} \in T PROVE s \in T
  <2>1. CASE s = {}
    <3>1. g[s] = w
      BY <1>1, <2>1 DEF IsServingAll
    <3>2. InTurn(w, w, {}, turn)
      BY <1>2 DEF InTurn, GainsAreOpen, EarlierFirst, TurnsKept
    <3> QED BY <2>1, <3>1, <3>2
  <2>2. CASE s # {}
    <3> DEFINE x == LastTurn(turn, s)
               r == s \ {x}
    <3>1. x \in s /\ x \in os \ r /\ \A o \in r : TurnBefore(turn, o, x)
      <4>1. s \in SUBSET OutIds /\ \A o \in s : turn[o] \in Int
        BY <1>2
      <4> QED BY <2>2, <4>1, LastTurnIn
    <3>2. g[r] \in ServedOf(w, os) /\ g[s] = Serve(g[r], x)
      BY <1>1, <2>2 DEF IsServingAll
    <3>3. InTurn(w, g[r], r, turn) /\ r \in SUBSET os
      BY <1>3, <3>1
    <3>4. r \cup {x} = s
      BY <3>1
    <3> HIDE DEF r, x
    <3>5. r \in SUBSET os /\ x \in os \ r /\ \A o \in r : TurnBefore(turn, o, x)
      BY <3>1, <3>3
    <3>6. g[r] \in ServedOf(w, os) /\ g[s] = Serve(g[r], x) /\ InTurn(w, g[r], r, turn)
      BY <3>2, <3>3
    <3>7. InTurn(w, g[s], r \cup {x}, turn)
      BY <3>5, <3>6, NextTurn
    <3> QED BY <3>4, <3>7
  <2> QED BY <2>1, <2>2
<1>4. T = SUBSET os
  <2>1. T \in SUBSET SUBSET os /\ IsFiniteSet(os)
    BY <1>2
  <2> HIDE DEF T
  <2> QED BY <1>3, <2>1, SubsetInduction
<1>5. InTurn(w, g[os], os, turn)
  BY <1>4
<1> QED BY <1>1, <1>5 DEF InTurn

-----------------------------------------------------------------------------
(* The review marks *)

\* v is w with other review marks.
Remarked(w, v) ==
    /\ v \in Ledgers
    /\ v.lots = w.lots /\ v.alloc = w.alloc /\ v.start = w.start
    /\ DOMAIN v.outs = DOMAIN w.outs
    /\ \A o \in DOMAIN w.outs :
          /\ v.outs[o].product = w.outs[o].product /\ v.outs[o].date = w.outs[o].date
          /\ v.outs[o].qty = w.outs[o].qty /\ v.outs[o].approved = w.outs[o].approved

\* v is w with the mark flag on the distributions of os.
MarkedAs(w, v, os, flag) ==
    /\ Remarked(w, v)
    /\ \A o \in DOMAIN w.outs : v.outs[o].review = IF o \in os THEN flag ELSE w.outs[o].review

LEMMA WithReviewIs ==
    \A w \in Ledgers, flag \in BOOLEAN : \A os : MarkedAs(w, WithReview(w, os, flag), os, flag)
<1> TAKE w \in Ledgers, flag \in BOOLEAN
<1> TAKE os
<1> DEFINE v == WithReview(w, os, flag)
           D == DOMAIN w.outs
           row(o) == IF o \in os THEN [w.outs[o] EXCEPT !.review = flag] ELSE w.outs[o]
<1>1. /\ v.outs = [o \in D |-> row(o)]
      /\ v.lots = w.lots /\ v.alloc = w.alloc /\ v.start = w.start
      /\ v = [lots |-> w.lots, outs |-> v.outs, alloc |-> w.alloc, start |-> w.start]
  BY DEF WithReview, Ledgers
<1>2. D \subseteq OutIds /\ \A o \in D : w.outs[o] \in OutRow
  BY LedgerRows
<1>3. \A o \in D : /\ row(o) \in OutRow
                   /\ row(o).product = w.outs[o].product /\ row(o).date = w.outs[o].date
                   /\ row(o).qty = w.outs[o].qty /\ row(o).approved = w.outs[o].approved
                   /\ row(o).review = IF o \in os THEN flag ELSE w.outs[o].review
  BY <1>2 DEF OutRow
<1> HIDE DEF row, v
<1>4. v.outs \in [D -> OutRow]
  BY <1>1, <1>3
<1>5. v.outs \in Tables(OutIds, OutRow)
  BY <1>2, <1>4 DEF Tables
<1>6. v \in Ledgers
  BY <1>1, <1>5 DEF Ledgers
<1> QED BY <1>1, <1>3, <1>6 DEF MarkedAs, Remarked, v, D

\* A review mark changes no balance.
LEMMA RemarkedKeeps ==
    ASSUME NEW w \in Ledgers, NEW v, Remarked(w, v)
    PROVE  /\ Sound(w) => Sound(v)
           /\ \A o \in DOMAIN w.outs : /\ Unmet(v, o) = Unmet(w, o)
                                       /\ NotIdle(w, o) => NotIdle(v, o)
<1>1. /\ v \in Ledgers /\ v.lots = w.lots /\ v.alloc = w.alloc /\ v.start = w.start
      /\ DOMAIN v.outs = DOMAIN w.outs
      /\ \A o \in DOMAIN w.outs :
            /\ v.outs[o].product = w.outs[o].product /\ v.outs[o].date = w.outs[o].date
            /\ v.outs[o].qty = w.outs[o].qty
  BY DEF Remarked
<1>2. \A o : Allocated(v, o) = Allocated(w, o)
  BY <1>1 DEF Allocated
<1>3. \A i : Used(v, i) = Used(w, i)
  BY <1>1 DEF Used
<1>4. \A i : Left(v, i) = Left(w, i) /\ (IsOpen(v, i) = IsOpen(w, i))
  BY <1>1, <1>3 DEF Left, IsOpen
<1>5. \A o \in DOMAIN w.outs : Unmet(v, o) = Unmet(w, o)
  BY <1>1, <1>2 DEF Unmet
<1>6. ASSUME NEW o \in DOMAIN w.outs, NotIdle(w, o) PROVE NotIdle(v, o)
  BY <1>1, <1>4, <1>5, <1>6 DEF NotIdle
<1>7. ASSUME Sound(w) PROVE Sound(v)
  <2>1. WithinAmounts(v)
    BY <1>1, <1>2, <1>3, <1>7 DEF Sound, WithinAmounts
  <2>2. \A o \in OutIds, i \in LotIds : v.alloc[o][i] > 0 => Joinable(v, o, i)
    BY <1>1, <1>7 DEF Sound, Joinable
  <2> QED BY <1>1, <1>7, <2>1, <2>2 DEF Sound
<1> QED BY <1>5, <1>6, <1>7

-----------------------------------------------------------------------------
(* A service serves in order *)

\* From w to v nobody gets more while an older one that was there lacks it.
OlderFirst(w, v) ==
    \A o, p \in DOMAIN v.outs, i \in DOMAIN v.lots :
        /\ o \in DOMAIN w.outs
        /\ Gains(w, v, p, i)
        /\ \/ v.outs[o].date < v.outs[p].date
           \/ v.outs[o].date = v.outs[p].date /\ o < p
        => ~Lacks(v, o, i)

ServesInOrder(w, v) == EarlierFirst(w, v) /\ OlderFirst(w, v)

\* A review mark changes nothing of it.
LEMMA MarkedServes ==
    ASSUME NEW w, NEW u \in Ledgers, ServesInOrder(w, u), NEW os, NEW flag \in BOOLEAN
    PROVE  ServesInOrder(w, WithReview(u, os, flag))
<1> DEFINE v == WithReview(u, os, flag)
<1>1. Remarked(u, v)
  <2>1. MarkedAs(u, v, os, flag)
    BY WithReviewIs
  <2> QED BY <2>1 DEF MarkedAs
<1> HIDE DEF v
<1>2. /\ v.lots = u.lots /\ v.alloc = u.alloc /\ v.start = u.start
      /\ DOMAIN v.outs = DOMAIN u.outs
      /\ \A o \in DOMAIN u.outs :
            v.outs[o].product = u.outs[o].product /\ v.outs[o].date = u.outs[o].date
  BY <1>1 DEF Remarked
<1>3. \A i : IsOpen(v, i) = IsOpen(u, i)
  BY <1>2 DEF IsOpen, Left, Used
<1>4. \A o, i : Gains(w, v, o, i) = Gains(w, u, o, i)
  BY <1>2 DEF Gains
<1>5. \A i, j : LotBefore(v, i, j) = LotBefore(u, i, j)
  BY <1>2 DEF LotBefore
<1>6. \A o \in DOMAIN u.outs : \A i : Lacks(v, o, i) = Lacks(u, o, i)
  <2>1. \A o \in DOMAIN u.outs : Unmet(v, o) = Unmet(u, o)
    BY <1>1, RemarkedKeeps
  <2> QED BY <1>2, <2>1 DEF Lacks
<1>7. EarlierFirst(w, v)
  BY <1>2, <1>3, <1>4, <1>5 DEF ServesInOrder, EarlierFirst
<1>8. OlderFirst(w, v)
  BY <1>2, <1>4, <1>6 DEF ServesInOrder, OlderFirst
<1> QED BY <1>7, <1>8 DEF ServesInOrder, v

LEMMA FlaggedServes ==
    ASSUME NEW w, NEW u \in Ledgers, ServesInOrder(w, u), NEW fs
    PROVE  ServesInOrder(w, Flagged(u, fs))
BY MarkedServes DEF Flagged

LEMMA ClearedServes ==
    ASSUME NEW w, NEW u \in Ledgers, ServesInOrder(w, u), NEW start, NEW os
    PROVE  ServesInOrder(w, ReviewsClearedBefore(u, start, os))
BY MarkedServes DEF ReviewsClearedBefore

\* When nobody gets more there is nothing to show.
LEMMA NoGainServes ==
    ASSUME NEW w, NEW v \in Ledgers,
           \A o \in OutIds, i \in LotIds : v.alloc[o][i] = w.alloc[o][i]
    PROVE  ServesInOrder(w, v)
<1>1. \A o \in DOMAIN v.outs, i \in DOMAIN v.lots : ~Gains(w, v, o, i)
  <2>1. /\ DOMAIN v.outs \subseteq OutIds /\ DOMAIN v.lots \subseteq LotIds
        /\ v.alloc \in [OutIds -> [LotIds -> Nat]]
    BY LedgerRows
  <2>2. \A o \in OutIds, i \in LotIds : v.alloc[o][i] \in Nat
    BY <2>1
  <2> QED BY <2>1, <2>2 DEF Gains
<1> QED BY <1>1 DEF ServesInOrder, EarlierFirst, OlderFirst

\* In x some allocations of w are released.
Releases(w, x) ==
    \A o \in OutIds, i \in LotIds : x.alloc[o][i] = 0 \/ x.alloc[o][i] = w.alloc[o][i]

\* Who has more than before the release has more than after it.
LEMMA ReleasedServes ==
    ASSUME NEW w \in Ledgers, NEW x, Releases(w, x), NEW v \in Ledgers,
           DOMAIN v.outs \subseteq DOMAIN x.outs, ServesInOrder(x, v)
    PROVE  ServesInOrder(w, v)
<1>1. ASSUME NEW o \in DOMAIN v.outs, NEW i \in DOMAIN v.lots, Gains(w, v, o, i)
      PROVE  Gains(x, v, o, i)
  <2>1. o \in OutIds /\ i \in LotIds
    BY LedgerRows
  <2>2. w.alloc[o][i] \in Nat /\ v.alloc[o][i] \in Nat
    BY <2>1 DEF Ledgers
  <2>3. x.alloc[o][i] = 0 \/ x.alloc[o][i] = w.alloc[o][i]
    BY <2>1 DEF Releases
  <2> QED BY <1>1, <2>2, <2>3 DEF Gains
<1>2. EarlierFirst(w, v)
  BY <1>1 DEF ServesInOrder, EarlierFirst
<1>3. OlderFirst(w, v)
  BY <1>1 DEF ServesInOrder, OlderFirst
<1> QED BY <1>2, <1>3 DEF ServesInOrder

LEMMA ReconciledServes ==
    ASSUME NEW w, Sound(w), NEW ps
    PROVE  ServesInOrder(w, Reconciled(w, ps))
<1> DEFINE os == OpenNeeds(w, ps)
           turn == [o \in DOMAIN w.outs |-> w.outs[o].date]
           u == ServeAll(w, os, turn)
<1>1. os \in SUBSET DOMAIN w.outs /\ \A o \in os : turn[o] \in Int /\ turn[o] = w.outs[o].date
  BY LedgerRows DEF OpenNeeds, Sound
<1> HIDE DEF turn
<1>2. u \in ServedOf(w, os) /\ GainsAreOpen(w, u, os) /\ EarlierFirst(w, u) /\ TurnsKept(w, u, os, turn)
  BY <1>1, ServeAllSound, ServeAllInOrder
<1> HIDE DEF u
<1>3. /\ w \in Ledgers /\ u \in Ledgers /\ Later(w, u, os)
      /\ u.lots = w.lots /\ u.outs = w.outs /\ u.start = w.start
      /\ DOMAIN w.lots \subseteq LotIds /\ DOMAIN w.outs \subseteq OutIds
  <2>1. w \in Ledgers /\ u \in Ledgers /\ Later(w, u, os)
    BY <1>2 DEF ServedOf, Sound
  <2> QED BY <2>1, LedgerRows DEF Later
<1>4. OlderFirst(w, u)
  <2>1. ASSUME NEW o \in DOMAIN u.outs, NEW p \in DOMAIN u.outs, NEW i \in DOMAIN u.lots,
               Gains(w, u, p, i), Lacks(u, o, i),
               \/ u.outs[o].date < u.outs[p].date
               \/ u.outs[o].date = u.outs[p].date /\ o < p
        PROVE  FALSE
    <3>1. p \in os /\ i \in OpenLots(w, w.outs[p].product)
      <4>1. p \in OutIds /\ i \in LotIds
        BY <1>3
      <4> QED BY <1>2, <2>1, <4>1 DEF GainsAreOpen
    <3>2. Lacks(w, o, i)
      BY <1>3, <2>1, LackingStays
    <3>3. o \in os
      BY <1>3, <3>1, <3>2 DEF OpenLots, Lacks, OpenNeeds
    <3>4. TurnBefore(turn, o, p)
      BY <1>1, <1>3, <2>1, <3>1, <3>3 DEF TurnBefore
    <3> QED BY <1>2, <2>1, <3>1, <3>3, <3>4 DEF TurnsKept
  <2> QED BY <2>1 DEF OlderFirst
<1> DEFINE met == {o \in DOMAIN u.outs : u.outs[o].product \in ps /\ Unmet(u, o) <= 0}
<1>5. Reconciled(w, ps) = WithReview(u, met, FALSE)
  BY DEF Reconciled, ClearResolved, u, turn
<1> HIDE DEF met
<1>6. ServesInOrder(w, u)
  BY <1>2, <1>4 DEF ServesInOrder
<1> QED BY <1>3, <1>5, <1>6, MarkedServes

-----------------------------------------------------------------------------
(* What a service does after it changed the rows *)

\* v is w after all products of ps were matched, and fs flagged.
Settled(w, v, ps, fs) ==
    /\ Sound(v)
    /\ v.lots = w.lots /\ v.start = w.start /\ DOMAIN v.outs = DOMAIN w.outs
    /\ \A o \in DOMAIN w.outs :
          /\ v.outs[o].product = w.outs[o].product /\ v.outs[o].date = w.outs[o].date
          /\ v.outs[o].qty = w.outs[o].qty /\ v.outs[o].approved = w.outs[o].approved
          /\ Unmet(v, o) <= Unmet(w, o)
          /\ w.outs[o].product \notin ps => Unmet(v, o) = Unmet(w, o)
          /\ w.outs[o].product \in ps \/ NotIdle(w, o) => NotIdle(v, o)
          /\ v.outs[o].review =
                \/ o \in fs /\ w.outs[o].date >= w.start /\ Unmet(v, o) > 0
                \/ w.outs[o].review /\ ~(w.outs[o].product \in ps /\ Unmet(v, o) <= 0)

LEMMA UnmetInt ==
    ASSUME NEW w \in Ledgers, NEW o \in DOMAIN w.outs
    PROVE  Unmet(w, o) \in Int
BY LaterLess, LaterNow

LEMMA ReconciledSettles ==
    ASSUME NEW w, Sound(w), NEW ps
    PROVE  Settled(w, Reconciled(w, ps), ps, {})
<1> DEFINE os == OpenNeeds(w, ps)
           turn == [o \in DOMAIN w.outs |-> w.outs[o].date]
           u == ServeAll(w, os, turn)
           met == {o \in DOMAIN u.outs : u.outs[o].product \in ps /\ Unmet(u, o) <= 0}
           v == WithReview(u, met, FALSE)
<1>1. os \in SUBSET DOMAIN w.outs /\ \A o \in os : turn[o] \in Int
  BY LedgerRows DEF OpenNeeds, Sound
<1>2. v = Reconciled(w, ps)
  BY DEF Reconciled, ClearResolved
<1> HIDE DEF turn
<1>3. u \in ServedOf(w, os) /\ \A o \in os : NotIdle(u, o)
  BY <1>1, ServeAllSound
<1> HIDE DEF u, v, met
<1>4. /\ w \in Ledgers /\ u \in Ledgers /\ Sound(u) /\ Later(w, u, os)
      /\ u.lots = w.lots /\ u.outs = w.outs /\ u.start = w.start
  BY <1>3 DEF Sound, ServedOf, Later
<1>5. /\ Remarked(u, v)
      /\ \A o \in DOMAIN u.outs : v.outs[o].review = IF o \in met THEN FALSE ELSE u.outs[o].review
  <2>1. MarkedAs(u, v, met, FALSE)
    BY <1>4, WithReviewIs DEF v
  <2> QED BY <2>1 DEF MarkedAs
<1>6. /\ Sound(v)
      /\ \A o \in DOMAIN u.outs : Unmet(v, o) = Unmet(u, o) /\ (NotIdle(u, o) => NotIdle(v, o))
  BY <1>4, <1>5, RemarkedKeeps
<1>7. ASSUME NEW o \in DOMAIN w.outs
      PROVE  /\ Unmet(w, o) \in Int /\ Unmet(u, o) \in Int /\ Unmet(u, o) <= Unmet(w, o)
             /\ o \notin os => Unmet(u, o) = Unmet(w, o)
  BY <1>4, LaterLess
<1>8. ASSUME NEW o \in DOMAIN w.outs
      PROVE  w.outs[o].product \in ps \/ NotIdle(w, o) => NotIdle(u, o)
  <2>1. NotIdle(w, o) => NotIdle(u, o)
    BY <1>4, LaterNotIdle
  <2>2. w.outs[o].product \in ps /\ o \notin os => NotIdle(u, o)
    <3>1. w.outs[o].product \in ps /\ o \notin os /\ w.outs[o].date >= w.start => ~(Unmet(w, o) > 0)
      BY DEF OpenNeeds
    <3> QED BY <1>4, <1>7, <3>1 DEF NotIdle
  <2> QED BY <1>3, <2>1, <2>2
<1>9. \A o \in DOMAIN w.outs : w.outs[o].product \notin ps => o \notin os
  BY DEF OpenNeeds
<1> HIDE DEF os
<1>10. \A o \in DOMAIN w.outs : v.outs[o].review =
          (w.outs[o].review /\ ~(w.outs[o].product \in ps /\ Unmet(v, o) <= 0))
  <2>1. ASSUME NEW o \in DOMAIN w.outs
        PROVE  v.outs[o].review =
                 (w.outs[o].review /\ ~(w.outs[o].product \in ps /\ Unmet(v, o) <= 0))
    <3>1. o \in met <=> w.outs[o].product \in ps /\ Unmet(v, o) <= 0
      BY <1>4, <1>6 DEF met
    <3>2. v.outs[o].review = IF o \in met THEN FALSE ELSE w.outs[o].review
      BY <1>4, <1>5
    <3>3. w.outs[o].review \in BOOLEAN
      BY <1>4, LedgerRows
    <3> QED BY <3>1, <3>2, <3>3
  <2> QED BY <2>1
<1>11. /\ v.lots = w.lots /\ v.start = w.start /\ DOMAIN v.outs = DOMAIN w.outs
       /\ \A o \in DOMAIN w.outs :
             /\ v.outs[o].product = w.outs[o].product /\ v.outs[o].date = w.outs[o].date
             /\ v.outs[o].qty = w.outs[o].qty /\ v.outs[o].approved = w.outs[o].approved
  BY <1>4, <1>5 DEF Remarked
<1>12. \A o \in DOMAIN w.outs :
          /\ Unmet(v, o) <= Unmet(w, o)
          /\ w.outs[o].product \notin ps => Unmet(v, o) = Unmet(w, o)
          /\ w.outs[o].product \in ps \/ NotIdle(w, o) => NotIdle(v, o)
  BY <1>4, <1>6, <1>7, <1>8, <1>9
<1> QED BY <1>2, <1>6, <1>10, <1>11, <1>12 DEF Settled

LEMMA FlaggedSettles ==
    ASSUME NEW w, NEW u, NEW ps, Sound(w), Settled(w, u, ps, {}), NEW fs
    PROVE  Settled(w, Flagged(u, fs), ps, fs)
<1> DEFINE open == {o \in fs \cap DOMAIN u.outs : u.outs[o].date >= u.start /\ Unmet(u, o) > 0}
           v == WithReview(u, open, TRUE)
<1>1. v = Flagged(u, fs)
  BY DEF Flagged
<1>2. u \in Ledgers /\ w \in Ledgers /\ Sound(u)
  BY DEF Settled, Sound
<1> HIDE DEF v, open
<1>3. /\ Remarked(u, v)
      /\ \A o \in DOMAIN u.outs : v.outs[o].review = IF o \in open THEN TRUE ELSE u.outs[o].review
  <2>1. MarkedAs(u, v, open, TRUE)
    BY <1>2, WithReviewIs DEF v
  <2> QED BY <2>1 DEF MarkedAs
<1>4. /\ Sound(v)
      /\ \A o \in DOMAIN u.outs : Unmet(v, o) = Unmet(u, o) /\ (NotIdle(u, o) => NotIdle(v, o))
  BY <1>2, <1>3, RemarkedKeeps
<1>5. /\ u.lots = w.lots /\ u.start = w.start /\ DOMAIN u.outs = DOMAIN w.outs
      /\ v.lots = w.lots /\ v.start = w.start /\ DOMAIN v.outs = DOMAIN w.outs
  BY <1>3 DEF Settled, Remarked
<1>6. ASSUME NEW o \in DOMAIN w.outs
      PROVE  /\ v.outs[o].product = w.outs[o].product /\ v.outs[o].date = w.outs[o].date
             /\ v.outs[o].qty = w.outs[o].qty /\ v.outs[o].approved = w.outs[o].approved
             /\ Unmet(v, o) <= Unmet(w, o)
             /\ w.outs[o].product \notin ps => Unmet(v, o) = Unmet(w, o)
             /\ w.outs[o].product \in ps \/ NotIdle(w, o) => NotIdle(v, o)
  BY <1>3, <1>4, <1>5 DEF Settled, Remarked
<1>7. ASSUME NEW o \in DOMAIN w.outs
      PROVE  v.outs[o].review =
                (\/ o \in fs /\ w.outs[o].date >= w.start /\ Unmet(v, o) > 0
                 \/ w.outs[o].review /\ ~(w.outs[o].product \in ps /\ Unmet(v, o) <= 0))
  <2>1. u.outs[o].review = (w.outs[o].review /\ ~(w.outs[o].product \in ps /\ Unmet(v, o) <= 0))
    BY <1>4, <1>5 DEF Settled
  <2>2. o \in open <=> o \in fs /\ w.outs[o].date >= w.start /\ Unmet(v, o) > 0
    BY <1>4, <1>5 DEF open, Settled
  <2>3. v.outs[o].review = IF o \in open THEN TRUE ELSE u.outs[o].review
    BY <1>3, <1>5
  <2> QED BY <2>1, <2>2, <2>3
<1> QED BY <1>1, <1>4, <1>5, <1>6, <1>7 DEF Settled

LEMMA NothingSettles ==
    ASSUME NEW w, Sound(w)
    PROVE  Settled(w, w, {}, {})
<1>1. w \in Ledgers /\ \A o \in DOMAIN w.outs : Unmet(w, o) \in Int /\ w.outs[o].review \in BOOLEAN
  BY UnmetInt, LedgerRows DEF Sound
<1>2. \A o \in DOMAIN w.outs : Unmet(w, o) <= Unmet(w, o)
  BY <1>1
<1>3. \A o \in DOMAIN w.outs : w.outs[o].review =
         (\/ o \in {} /\ w.outs[o].date >= w.start /\ Unmet(w, o) > 0
          \/ w.outs[o].review /\ ~(w.outs[o].product \in {} /\ Unmet(w, o) <= 0))
  <2>1. \A o \in DOMAIN w.outs : w.outs[o].review \in BOOLEAN
    BY <1>1
  <2>2. \A o : o \notin {} /\ w.outs[o].product \notin {}
    OBVIOUS
  <2> QED BY <2>1, <2>2
<1> QED BY <1>2, <1>3 DEF Settled

-----------------------------------------------------------------------------
(* What a service does to the rows of a table *)

SameEntry(r, q) == r.product = q.product /\ r.date = q.date /\ r.qty = q.qty

KeepsRows(t, v) == DOMAIN v = DOMAIN t /\ \A i \in DOMAIN t : SameEntry(v[i], t[i])

AddsRows(t, v, rows) ==
    /\ DOMAIN v = DOMAIN t \cup NewIds(t, rows)
    /\ \A i \in DOMAIN t : SameEntry(v[i], t[i])
    /\ \A i \in NewIds(t, rows) : /\ i \notin DOMAIN t /\ i - LastId(t) \in DOMAIN rows
                                  /\ SameEntry(v[i], rows[i - LastId(t)])

ChangesRow(t, v, i, r) ==
    /\ DOMAIN v = DOMAIN t /\ SameEntry(v[i], r)
    /\ \A j \in DOMAIN t : j # i => SameEntry(v[j], t[j])

DropsRows(t, v, D) == DOMAIN v = DOMAIN t \ D /\ \A i \in DOMAIN v : SameEntry(v[i], t[i])

\* v has the rows of w.
SameRows(w, v) == v.lots = w.lots /\ v.start = w.start /\ KeepsRows(w.outs, v.outs)

-----------------------------------------------------------------------------
(* What is left to do before a ledger is in order *)

\* What is missing of a distribution before the step and is not in the queue.
Waived(o) ==
    IF o \in DOMAIN ledger.outs /\ ~ledger.outs[o].review /\ Unmet(ledger, o) \in Nat
    THEN Unmet(ledger, o) ELSE 0

LEMMA WaivedIs ==
    /\ \A o : Waived(o) \in Nat
    /\ \A o \in DOMAIN ledger.outs :
          Unmet(ledger, o) \in Int /\ Unmet(ledger, o) > Waived(o) => ledger.outs[o].review
<1>1. \A o : Waived(o) \in Nat
  BY DEF Waived
<1>2. ASSUME NEW o \in DOMAIN ledger.outs, Unmet(ledger, o) \in Int,
             Unmet(ledger, o) > Waived(o), ~ledger.outs[o].review
      PROVE  FALSE
  <2>1. Unmet(ledger, o) \in Nat
    BY <1>1, <1>2
  <2> QED BY <1>2, <2>1 DEF Waived
<1> QED BY <1>1, <1>2

\* The ledger w is in order but for what the service still does: match the
\* products ps, flag the distributions fs, clear marks before the start of os.
Pending(w, ps, fs, os) ==
    /\ Sound(w)
    /\ \A o \in DOMAIN w.outs : w.outs[o].product \notin ps => NotIdle(w, o)
    /\ \A o \in DOMAIN w.outs : w.outs[o].review =>
          /\ w.outs[o].date >= w.start \/ o \in os
          /\ w.outs[o].product \in ps \/ Unmet(w, o) > 0
    /\ \A o \in DOMAIN w.outs \ fs :
          w.outs[o].date >= w.start /\ Unmet(w, o) > Waived(o) => w.outs[o].review

InOrder(w) == Pending(w, {}, {}, {})

\* A ledger in order but for shortages nobody was asked about: what there is
\* between any two services.
AtRest(w) ==
    /\ Sound(w)
    /\ \A o \in DOMAIN w.outs :
          /\ NotIdle(w, o)
          /\ w.outs[o].review => w.outs[o].date >= w.start /\ Unmet(w, o) > 0

\* v is w after what was left to do was done, but for the marks of os.
Done(w, v, os) == Pending(v, {}, {}, os) /\ SameRows(w, v) /\ ServesInOrder(w, v)

LEMMA SettledIsDone ==
    ASSUME NEW w, NEW v, NEW ps, NEW fs, NEW os, Pending(w, ps, fs, os), Settled(w, v, ps, fs),
           ServesInOrder(w, v)
    PROVE  Done(w, v, os)
<1>1. /\ Sound(v) /\ v.start = w.start /\ DOMAIN v.outs = DOMAIN w.outs
      /\ v \in Ledgers /\ w \in Ledgers
  BY DEF Settled, Pending, Sound
<1>2. ASSUME NEW o \in DOMAIN w.outs
      PROVE  /\ Unmet(w, o) \in Int /\ Unmet(v, o) \in Int /\ Unmet(v, o) <= Unmet(w, o)
             /\ w.outs[o].approved \in Nat /\ v.outs[o].approved = w.outs[o].approved
             /\ v.outs[o].date = w.outs[o].date /\ v.outs[o].product = w.outs[o].product
             /\ w.outs[o].review \in BOOLEAN
             /\ w.outs[o].product \notin ps => Unmet(v, o) = Unmet(w, o)
  BY <1>1, UnmetInt, LedgerRows DEF Settled
<1>3. ASSUME NEW o \in DOMAIN w.outs
      PROVE  v.outs[o].review =
                (\/ o \in fs /\ w.outs[o].date >= w.start /\ Unmet(v, o) > 0
                 \/ w.outs[o].review /\ ~(w.outs[o].product \in ps /\ Unmet(v, o) <= 0))
  BY DEF Settled
<1>4. ASSUME NEW o \in DOMAIN w.outs PROVE NotIdle(v, o)
  BY DEF Settled, Pending
<1>5. ASSUME NEW o \in DOMAIN w.outs, v.outs[o].review
      PROVE  (v.outs[o].date >= v.start \/ o \in os) /\ Unmet(v, o) > 0
  <2>1. CASE o \in fs /\ w.outs[o].date >= w.start /\ Unmet(v, o) > 0
    BY <1>1, <1>2, <2>1
  <2>2. CASE w.outs[o].review /\ ~(w.outs[o].product \in ps /\ Unmet(v, o) <= 0)
    <3>1. /\ w.outs[o].date >= w.start \/ o \in os
          /\ w.outs[o].product \in ps \/ Unmet(w, o) > 0
      BY <2>2 DEF Pending
    <3>2. Unmet(v, o) \in Int /\ (w.outs[o].product \notin ps => Unmet(v, o) = Unmet(w, o))
      BY <1>2
    <3>3. Unmet(v, o) > 0
      BY <2>2, <3>1, <3>2
    <3> QED BY <1>1, <1>2, <3>1, <3>3
  <2> QED BY <1>3, <1>5, <2>1, <2>2
<1>6. ASSUME NEW o \in DOMAIN w.outs, v.outs[o].date >= v.start, Unmet(v, o) > Waived(o)
      PROVE  v.outs[o].review
  <2>1. Unmet(v, o) > 0 /\ ~(Unmet(v, o) <= 0) /\ w.outs[o].date >= w.start
        /\ Unmet(w, o) > Waived(o)
    BY <1>1, <1>2, <1>6, WaivedIs
  <2>2. o \notin fs => w.outs[o].review
    BY <1>6, <2>1 DEF Pending
  <2> QED BY <1>3, <2>1, <2>2
<1>7. Pending(v, {}, {}, os)
  BY <1>1, <1>4, <1>5, <1>6 DEF Pending
<1>8. SameRows(w, v)
  BY DEF Settled, SameRows, KeepsRows, SameEntry
<1> QED BY <1>7, <1>8 DEF Done

LEMMA MatchedIsDone ==
    ASSUME NEW w, NEW ps, NEW fs, NEW os, Pending(w, ps, fs, os)
    PROVE  Done(w, Flagged(Reconciled(w, ps), fs), os)
<1>1. Sound(w)
  BY DEF Pending
<1>2. Settled(w, Reconciled(w, ps), ps, {})
  BY <1>1, ReconciledSettles
<1>3. Settled(w, Flagged(Reconciled(w, ps), fs), ps, fs)
  BY <1>1, <1>2, FlaggedSettles
<1>4. ServesInOrder(w, Flagged(Reconciled(w, ps), fs))
  <2>1. ServesInOrder(w, Reconciled(w, ps)) /\ Reconciled(w, ps) \in Ledgers
    BY <1>1, <1>2, ReconciledServes DEF Settled, Sound
  <2> QED BY <2>1, FlaggedServes
<1> QED BY <1>3, <1>4, SettledIsDone

LEMMA ReconciledIsDone ==
    ASSUME NEW w, NEW ps, NEW os, Pending(w, ps, {}, os)
    PROVE  Done(w, Reconciled(w, ps), os)
<1>1. Sound(w)
  BY DEF Pending
<1>2. Settled(w, Reconciled(w, ps), ps, {}) /\ ServesInOrder(w, Reconciled(w, ps))
  BY <1>1, ReconciledSettles, ReconciledServes
<1> QED BY <1>2, SettledIsDone

LEMMA FlaggedIsDone ==
    ASSUME NEW w, NEW fs, NEW os, Pending(w, {}, fs, os)
    PROVE  Done(w, Flagged(w, fs), os)
<1>1. Sound(w)
  BY DEF Pending
<1>2. Settled(w, w, {}, {})
  BY <1>1, NothingSettles
<1>3. Settled(w, Flagged(w, fs), {}, fs)
  BY <1>1, <1>2, FlaggedSettles
<1>4. ServesInOrder(w, Flagged(w, fs))
  <2>1. w \in Ledgers
    BY <1>1 DEF Sound
  <2> QED BY <2>1, NoGainServes, FlaggedServes
<1> QED BY <1>3, <1>4, SettledIsDone

\* What a service does after it released some allocations is done in order.
LEMMA DoneServes ==
    ASSUME NEW w \in Ledgers, NEW x, Releases(w, x), NEW v, NEW os, Done(x, v, os)
    PROVE  ServesInOrder(w, v)
<1>1. v \in Ledgers /\ DOMAIN v.outs = DOMAIN x.outs /\ ServesInOrder(x, v)
  BY DEF Done, Pending, Sound, SameRows, KeepsRows
<1> QED BY <1>1, ReleasedServes

LEMMA ClearedIsDone ==
    ASSUME NEW w, NEW ps, NEW fs, NEW os, Pending(w, ps, fs, os)
    PROVE  /\ Pending(ReviewsClearedBefore(w, w.start, os), ps, fs, {})
           /\ SameRows(w, ReviewsClearedBefore(w, w.start, os))
<1> DEFINE early == {o \in os \cap DOMAIN w.outs : w.outs[o].date < w.start}
           v == WithReview(w, early, FALSE)
<1>1. v = ReviewsClearedBefore(w, w.start, os)
  BY DEF ReviewsClearedBefore
<1>2. w \in Ledgers /\ Sound(w)
  BY DEF Pending, Sound
<1> HIDE DEF v, early
<1>3. /\ Remarked(w, v)
      /\ \A o \in DOMAIN w.outs : v.outs[o].review = IF o \in early THEN FALSE ELSE w.outs[o].review
  <2>1. MarkedAs(w, v, early, FALSE)
    BY <1>2, WithReviewIs DEF v
  <2> QED BY <2>1 DEF MarkedAs
<1>4. /\ Sound(v)
      /\ \A o \in DOMAIN w.outs : Unmet(v, o) = Unmet(w, o) /\ (NotIdle(w, o) => NotIdle(v, o))
  BY <1>2, <1>3, RemarkedKeeps
<1>5. /\ v.start = w.start /\ DOMAIN v.outs = DOMAIN w.outs
      /\ \A o \in DOMAIN w.outs :
            /\ v.outs[o].product = w.outs[o].product /\ v.outs[o].date = w.outs[o].date
            /\ v.outs[o].approved = w.outs[o].approved
  BY <1>3 DEF Remarked
<1>6. ASSUME NEW o \in DOMAIN w.outs
      PROVE  o \in early <=> o \in os /\ ~(w.outs[o].date >= w.start)
  <2>1. w.outs[o].date \in Int /\ w.start \in Int
    BY <1>2, LedgerRows
  <2> QED BY <2>1 DEF early
<1>7. \A o \in DOMAIN w.outs : w.outs[o].product \notin ps => NotIdle(v, o)
  BY <1>4 DEF Pending
<1>8. ASSUME NEW o \in DOMAIN w.outs, v.outs[o].review
      PROVE  /\ w.outs[o].date >= w.start
             /\ w.outs[o].product \in ps \/ Unmet(v, o) > 0
  <2>1. o \notin early /\ w.outs[o].review
    BY <1>3, <1>8
  <2> QED BY <1>4, <1>6, <2>1 DEF Pending
<1>9. ASSUME NEW o \in DOMAIN w.outs \ fs,
             w.outs[o].date >= w.start, Unmet(v, o) > Waived(o)
      PROVE  v.outs[o].review
  <2>1. w.outs[o].review /\ o \notin early
    BY <1>4, <1>6, <1>9 DEF Pending
  <2> QED BY <1>3, <2>1
<1>10. Pending(v, ps, fs, {})
  BY <1>4, <1>5, <1>7, <1>8, <1>9 DEF Pending
<1>11. SameRows(w, v)
  BY <1>3 DEF Remarked, SameRows, KeepsRows, SameEntry
<1> QED BY <1>1, <1>10, <1>11

-----------------------------------------------------------------------------
(* New rows, removed rows *)

LEMMA LinesAre ==
    ASSUME NEW S, NEW rows \in Lines(S)
    PROVE  /\ Len(rows) \in Nat /\ DOMAIN rows = 1..Len(rows) /\ rows \in [1..Len(rows) -> S]
           /\ \A k \in 1..Len(rows) : rows[k] \in S
           /\ 1 \in DOMAIN rows
<1>1. PICK n \in 1..MaxLines : rows \in [1..n -> S]
  BY DEF Lines
<1>2. n \in Nat /\ n >= 1
  BY <1>1, LedgerAssumption
<1>3. Len(rows) = n
  BY <1>1, <1>2
<1> QED BY <1>1, <1>2, <1>3

LEMMA GreatestIn ==
    ASSUME NEW S, IsFiniteSet(S), S \subseteq Int, S # {}
    PROVE  Max(S) \in S /\ \A x \in S : x <= Max(S)
<1> DEFINE Greatest(s, x) == \A y \in s : x >= y
           T == {s \in SUBSET S : s # {} => \E x \in s : Greatest(s, x)}
<1>1. ASSUME NEW s \in SUBSET S, \A x \in s : s \ {x} \in T PROVE s \in T
  <2>1. ASSUME NEW x \in s PROVE \E z \in s : Greatest(s, z)
    <3>1. x \in Int /\ \A y \in s : y \in Int
      OBVIOUS
    <3>2. CASE s \ {x} = {}
      BY <3>1, <3>2
    <3>3. CASE s \ {x} # {}
      <4>1. PICK z \in s \ {x} : Greatest(s \ {x}, z)
        BY <1>1, <3>3
      <4>2. CASE z >= x
        BY <4>1, <4>2
      <4>3. CASE ~(z >= x)
        BY <3>1, <4>1, <4>3
      <4> QED BY <4>2, <4>3
    <3> QED BY <3>2, <3>3
  <2> QED BY <2>1
<1>2. T \in SUBSET SUBSET S
  OBVIOUS
<1>3. T = SUBSET S
  <2> HIDE DEF T
  <2> QED BY <1>1, <1>2, SubsetInduction
<1>4. \E x \in S : \A y \in S : x >= y
  BY <1>3
<1>5. Max(S) \in S /\ \A y \in S : Max(S) >= y
  BY <1>4 DEF Max
<1> QED BY <1>5

\* The ids of new rows are new, and each new row has one of them.
LEMMA NewIdsAreNew ==
    ASSUME NEW table, IsFiniteSet(DOMAIN table), DOMAIN table \subseteq Nat,
           NEW S, NEW rows \in Lines(S)
    PROVE  /\ LastId(table) \in Nat /\ NewIds(table, rows) \cap DOMAIN table = {}
           /\ \A i : i \in NewIds(table, rows) <=>
                 i \in Int /\ i - LastId(table) \in 1..Len(rows)
<1>1. LastId(table) \in Nat /\ \A x \in DOMAIN table : x <= LastId(table)
  <2>1. CASE DOMAIN table = {}
    BY <2>1 DEF LastId
  <2>2. CASE DOMAIN table # {}
    <3>1. /\ Max(DOMAIN table) \in DOMAIN table
          /\ \A x \in DOMAIN table : x <= Max(DOMAIN table)
      BY <2>2, GreatestIn
    <3> QED BY <2>2, <3>1 DEF LastId
  <2> QED BY <2>1, <2>2
<1>2. Len(rows) \in Nat
  BY LinesAre
<1> HIDE DEF LastId
<1> QED BY <1>1, <1>2 DEF NewIds

LEMMA AppendedRows ==
    ASSUME NEW I, NEW R, NEW table \in Tables(I, R), IsFiniteSet(I), I \subseteq Nat,
           NEW rows \in Lines(R), NewIds(table, rows) \subseteq I
    PROVE  /\ Appended(table, rows) \in Tables(I, R)
           /\ DOMAIN Appended(table, rows) = DOMAIN table \cup NewIds(table, rows)
           /\ \A i \in DOMAIN table : Appended(table, rows)[i] = table[i]
           /\ \A i \in NewIds(table, rows) :
                 /\ i \notin DOMAIN table /\ i - LastId(table) \in DOMAIN rows
                 /\ Appended(table, rows)[i] = rows[i - LastId(table)]
<1>1. DOMAIN table \subseteq I /\ table \in [DOMAIN table -> R]
  BY DEF Tables
<1>2. IsFiniteSet(DOMAIN table) /\ DOMAIN table \subseteq Nat
  BY <1>1, FS_Subset
<1>3. /\ NewIds(table, rows) \cap DOMAIN table = {}
      /\ \A i \in NewIds(table, rows) : i - LastId(table) \in 1..Len(rows)
  BY <1>2, NewIdsAreNew
<1>4. DOMAIN rows = 1..Len(rows) /\ \A k \in 1..Len(rows) : rows[k] \in R
  BY LinesAre
<1>5. \A i \in NewIds(table, rows) : rows[i - LastId(table)] \in R
  BY <1>3, <1>4
<1>6. /\ DOMAIN Appended(table, rows) = DOMAIN table \cup NewIds(table, rows)
      /\ \A i \in DOMAIN table : Appended(table, rows)[i] = table[i]
      /\ \A i \in NewIds(table, rows) : Appended(table, rows)[i] = rows[i - LastId(table)]
  BY <1>3 DEF Appended
<1>7. \A i \in DOMAIN Appended(table, rows) : Appended(table, rows)[i] \in R
  BY <1>1, <1>5, <1>6
<1>8. Appended(table, rows) \in [DOMAIN Appended(table, rows) -> R]
  <2>1. \E D : \E f : Appended(table, rows) = [i \in D |-> f[i]]
    <3> DEFINE f == [i \in DOMAIN table \cup NewIds(table, rows) |->
                       IF i \in DOMAIN table THEN table[i] ELSE rows[i - LastId(table)]]
    <3>1. Appended(table, rows) = [i \in DOMAIN table \cup NewIds(table, rows) |-> f[i]]
      BY DEF Appended
    <3> QED BY <3>1
  <2> HIDE DEF Appended
  <2> QED BY <1>7, <2>1
<1>9. DOMAIN Appended(table, rows) \subseteq I
  BY <1>1, <1>6
<1>10. Appended(table, rows) \in Tables(I, R)
  BY <1>8, <1>9 DEF Tables
<1> QED BY <1>3, <1>4, <1>6, <1>10

\* t is the table without the rows of D.
IsWithout(t, table, D) == /\ DOMAIN t = DOMAIN table \ D
                          /\ \A i \in DOMAIN table \ D : t[i] = table[i]

LEMMA RestrictedRows ==
    ASSUME NEW I, NEW R, NEW table \in Tables(I, R), NEW D
    PROVE  /\ Restrict(table, DOMAIN table \ D) \in Tables(I, R)
           /\ IsWithout(Restrict(table, DOMAIN table \ D), table, D)
<1> DEFINE t == Restrict(table, DOMAIN table \ D)
<1>1. DOMAIN table \subseteq I /\ table \in [DOMAIN table -> R]
  BY DEF Tables
<1>2. /\ t \in [DOMAIN table \ D -> R] /\ DOMAIN t = DOMAIN table \ D
      /\ \A i \in DOMAIN table \ D : t[i] = table[i]
  BY <1>1 DEF Restrict
<1> HIDE DEF t
<1>3. DOMAIN table \ D \in SUBSET I
  BY <1>1
<1>4. t \in Tables(I, R)
  BY <1>2, <1>3 DEF Tables
<1> QED BY <1>2, <1>4 DEF t, IsWithout

-----------------------------------------------------------------------------
(* What a service writes before anything is matched *)

\* x has no allocation that w has not, and those it has are sound.
Kept(w, x) ==
    /\ x \in Ledgers
    /\ \A i \in DOMAIN x.lots : LotAccepted(x.lots[i])
    /\ \A o \in OutIds, i \in LotIds :
          /\ x.alloc[o][i] = 0 \/ x.alloc[o][i] = w.alloc[o][i]
          /\ x.alloc[o][i] > 0 => Joinable(x, o, i)
    /\ \A i \in DOMAIN x.lots : \/ i \in DOMAIN w.lots /\ x.lots[i].qty = w.lots[i].qty
                                \/ \A o \in OutIds : x.alloc[o][i] = 0
    /\ \A o \in DOMAIN x.outs : \/ o \in DOMAIN w.outs /\ x.outs[o].qty = w.outs[o].qty
                                \/ \A i \in LotIds : x.alloc[o][i] = 0

LEMMA NothingUsed ==
    ASSUME NEW x \in Ledgers
    PROVE  /\ \A i \in LotIds : (\A o \in OutIds : x.alloc[o][i] = 0) => Used(x, i) = 0
           /\ \A o \in OutIds : (\A i \in LotIds : x.alloc[o][i] = 0) => Allocated(x, o) = 0
<1>0. x.alloc \in [OutIds -> [LotIds -> Nat]]
  BY DEF Ledgers
<1>1. ASSUME NEW i \in LotIds, \A o \in OutIds : x.alloc[o][i] = 0 PROVE Used(x, i) = 0
  <2> DEFINE f == [o \in OutIds |-> x.alloc[o][i]]
  <2>1. Used(x, i) = Sum(f, OutIds)
    BY <1>0, Balances
  <2>2. \A o \in OutIds : f[o] = 0
    BY <1>1
  <2> HIDE DEF f
  <2> QED BY <2>1, <2>2, IdsFinite, SumZero
<1>2. ASSUME NEW o \in OutIds, \A i \in LotIds : x.alloc[o][i] = 0 PROVE Allocated(x, o) = 0
  <2>1. Allocated(x, o) = Sum(x.alloc[o], LotIds)
    BY <1>0, Balances
  <2> QED BY <1>2, <2>1, IdsFinite, SumZero
<1> QED BY <1>1, <1>2

\* What is missing only grows, and what is left.
LEMMA KeptBalances ==
    ASSUME NEW w, Sound(w), NEW x, Kept(w, x)
    PROVE  /\ \A i \in DOMAIN w.lots \cap DOMAIN x.lots :
                 Used(x, i) <= Used(w, i) /\ Used(x, i) \in Nat /\ Used(w, i) \in Nat
           /\ \A o \in DOMAIN w.outs \cap DOMAIN x.outs :
                 /\ Allocated(x, o) <= Allocated(w, o)
                 /\ Allocated(x, o) \in Nat /\ Allocated(w, o) \in Nat
<1>1. /\ w \in Ledgers /\ x \in Ledgers
      /\ w.alloc \in [OutIds -> [LotIds -> Nat]] /\ x.alloc \in [OutIds -> [LotIds -> Nat]]
  BY DEF Sound, Kept, Ledgers
<1>2. \A o \in OutIds, i \in LotIds : x.alloc[o][i] <= w.alloc[o][i]
  <2>1. ASSUME NEW o \in OutIds, NEW i \in LotIds PROVE x.alloc[o][i] <= w.alloc[o][i]
    <3>1. w.alloc[o][i] \in Nat /\ (x.alloc[o][i] = 0 \/ x.alloc[o][i] = w.alloc[o][i])
      BY <1>1 DEF Kept
    <3> QED BY <3>1
  <2> QED BY <2>1
<1>3. /\ \A o \in OutIds : Allocated(x, o) <= Allocated(w, o)
      /\ \A i \in LotIds : Used(x, i) <= Used(w, i)
  BY <1>1, <1>2, BalancesGrow
<1>4. DOMAIN w.lots \subseteq LotIds /\ DOMAIN w.outs \subseteq OutIds
  BY <1>1, LedgerRows
<1> QED BY <1>1, <1>3, <1>4, Balances

LEMMA KeptSound ==
    ASSUME NEW w, Sound(w), NEW x, Kept(w, x)
    PROVE  Sound(x)
<1>1. /\ w \in Ledgers /\ x \in Ledgers
      /\ DOMAIN x.lots \subseteq LotIds /\ DOMAIN x.outs \subseteq OutIds
      /\ \A i \in DOMAIN x.lots : x.lots[i].qty \in Nat
      /\ \A o \in DOMAIN x.outs : x.outs[o].qty \in Nat
      /\ \A i \in DOMAIN w.lots : w.lots[i].qty \in Nat
      /\ \A o \in DOMAIN w.outs : w.outs[o].qty \in Nat
  BY LedgerRows DEF Sound, Kept
<1>2. ASSUME NEW i \in DOMAIN x.lots PROVE Used(x, i) <= x.lots[i].qty
  <2>1. CASE i \in DOMAIN w.lots /\ x.lots[i].qty = w.lots[i].qty
    <3>1. Used(x, i) <= Used(w, i) /\ Used(x, i) \in Nat /\ Used(w, i) \in Nat
      BY <2>1, KeptBalances
    <3>2. Used(w, i) <= w.lots[i].qty
      BY <2>1 DEF Sound, WithinAmounts
    <3> QED BY <1>1, <2>1, <3>1, <3>2
  <2>2. CASE \A o \in OutIds : x.alloc[o][i] = 0
    <3>1. Used(x, i) = 0
      BY <1>1, <2>2, NothingUsed
    <3> QED BY <1>1, <3>1
  <2> QED BY <2>1, <2>2 DEF Kept
<1>3. ASSUME NEW o \in DOMAIN x.outs PROVE Allocated(x, o) <= x.outs[o].qty
  <2>1. CASE o \in DOMAIN w.outs /\ x.outs[o].qty = w.outs[o].qty
    <3>1. Allocated(x, o) <= Allocated(w, o) /\ Allocated(x, o) \in Nat /\ Allocated(w, o) \in Nat
      BY <2>1, KeptBalances
    <3>2. Allocated(w, o) <= w.outs[o].qty
      BY <2>1 DEF Sound, WithinAmounts
    <3> QED BY <1>1, <2>1, <3>1, <3>2
  <2>2. CASE \A i \in LotIds : x.alloc[o][i] = 0
    <3>1. Allocated(x, o) = 0
      BY <1>1, <2>2, NothingUsed
    <3> QED BY <1>1, <3>1
  <2> QED BY <2>1, <2>2 DEF Kept
<1> QED BY <1>2, <1>3 DEF Sound, Kept, WithinAmounts

\* A distribution that no change concerns: its row and its allocations stay.
Untouched(w, x, o) ==
    /\ o \in DOMAIN w.outs
    /\ x.outs[o].product = w.outs[o].product /\ x.outs[o].date = w.outs[o].date
    /\ x.outs[o].qty = w.outs[o].qty
    /\ x.alloc[o] = w.alloc[o]

LEMMA UntouchedUnmet ==
    ASSUME NEW w, NEW x, NEW o, Untouched(w, x, o)
    PROVE  Unmet(x, o) = Unmet(w, o)
BY DEF Untouched, Unmet, Allocated

\* It does not come to wait beside water: no lot of its product was freed.
LEMMA UntouchedNotIdle ==
    ASSUME NEW w, NEW x, NEW o, Untouched(w, x, o), NotIdle(w, o), x.start = w.start,
           \A i \in DOMAIN x.lots :
              x.lots[i].product = x.outs[o].product /\ IsOpen(x, i) =>
                 /\ i \in DOMAIN w.lots /\ x.lots[i] = w.lots[i]
                 /\ \A p \in OutIds : x.alloc[p][i] = w.alloc[p][i]
    PROVE  NotIdle(x, o)
<1>1. Unmet(x, o) = Unmet(w, o)
  BY UntouchedUnmet
<1>2. ASSUME NEW i \in DOMAIN x.lots, x.lots[i].product = x.outs[o].product, IsOpen(x, i)
      PROVE  i \in DOMAIN w.lots /\ x.lots[i] = w.lots[i] /\ IsOpen(w, i)
  <2>1. /\ i \in DOMAIN w.lots /\ x.lots[i] = w.lots[i]
        /\ \A p \in OutIds : x.alloc[p][i] = w.alloc[p][i]
    BY <1>2
  <2>2. [p \in OutIds |-> x.alloc[p][i]] = [p \in OutIds |-> w.alloc[p][i]]
    BY <2>1
  <2>3. Used(x, i) = Used(w, i)
    BY <2>2 DEF Used
  <2> QED BY <1>2, <2>1, <2>3 DEF IsOpen, Left
<1> QED BY <1>1, <1>2 DEF NotIdle, Untouched

-----------------------------------------------------------------------------
(* Deliveries *)

LEMMA OrderFacts ==
    ASSUME NEW w, InOrder(w)
    PROVE  /\ Sound(w) /\ w \in Ledgers
           /\ \A o \in DOMAIN w.outs :
                 /\ NotIdle(w, o) /\ Unmet(w, o) \in Int
                 /\ w.outs[o].review => w.outs[o].date >= w.start /\ Unmet(w, o) > 0
           /\ \A o \in DOMAIN w.outs :
                 w.outs[o].date >= w.start /\ Unmet(w, o) > Waived(o) => w.outs[o].review
<1>1. Sound(w) /\ w \in Ledgers
  BY DEF InOrder, Pending, Sound
<1>2. \A o \in DOMAIN w.outs : Unmet(w, o) \in Int
  BY <1>1, UnmetInt
<1> QED BY <1>1, <1>2 DEF InOrder, Pending

LEMMA RestFacts ==
    ASSUME NEW w, AtRest(w)
    PROVE  /\ Sound(w) /\ w \in Ledgers
           /\ \A o \in DOMAIN w.outs :
                 /\ NotIdle(w, o) /\ Unmet(w, o) \in Int
                 /\ w.outs[o].review => w.outs[o].date >= w.start /\ Unmet(w, o) > 0
<1>1. Sound(w) /\ w \in Ledgers
  BY DEF AtRest, Sound
<1>2. \A o \in DOMAIN w.outs : Unmet(w, o) \in Int
  BY <1>1, UnmetInt
<1> QED BY <1>1, <1>2 DEF AtRest

\* Before a step the shortages nobody was asked about are the waived ones.
LEMMA RestIsInOrder ==
    ASSUME AtRest(ledger)
    PROVE  InOrder(ledger)
<1>1. \A o \in DOMAIN ledger.outs : Unmet(ledger, o) > Waived(o) => ledger.outs[o].review
  BY RestFacts, WaivedIs
<1> QED BY <1>1 DEF AtRest, InOrder, Pending

LEMMA InOrderIsAtRest ==
    ASSUME NEW w, InOrder(w)
    PROVE  AtRest(w)
BY OrderFacts DEF AtRest

\* A service that leaves the ledger in order loses no shortage.
LEMMA InOrderAsks ==
    ASSUME AtRest(ledger), InOrder(ledger')
    PROVE  AtRest(ledger') /\ ShortageAsked
<1>1. AtRest(ledger')
  BY InOrderIsAtRest
<1>2. ASSUME NEW o \in DOMAIN ledger'.outs, ledger'.outs[o].date >= ledger'.start,
             Unmet(ledger', o) > Unasked(o)
      PROVE  ledger'.outs[o].review
  <2>1. CASE o \in DOMAIN ledger.outs /\ ~ledger.outs[o].review
    <3>1. Unmet(ledger, o) \in Int /\ Unmet(ledger', o) \in Int /\ Unasked(o) = Unmet(ledger, o)
      BY <1>1, <2>1, RestFacts DEF Unasked
    <3>2. Unmet(ledger, o) \in Nat
      <4>1. /\ Allocated(ledger, o) <= ledger.outs[o].qty
            /\ Allocated(ledger, o) \in Int /\ ledger.outs[o].qty \in Int
        BY <2>1, RestFacts, LedgerRows, Balances DEF Sound, WithinAmounts
      <4> QED BY <3>1, <4>1 DEF Unmet
    <3>3. Waived(o) = Unmet(ledger, o)
      BY <2>1, <3>2 DEF Waived
    <3> QED BY <1>2, <3>1, <3>3, OrderFacts
  <2>2. CASE ~(o \in DOMAIN ledger.outs /\ ~ledger.outs[o].review)
    <3>1. Unasked(o) = 0 /\ Waived(o) = 0
      BY <2>2 DEF Unasked, Waived
    <3> QED BY <1>2, <3>1, OrderFacts
  <2> QED BY <2>1, <2>2
<1> QED BY <1>1, <1>2 DEF ShortageAsked

LEMMA IdsNatural == LotIds \subseteq Nat /\ OutIds \subseteq Nat /\ ReturnIds \subseteq Nat
BY DEF LotIds, OutIds, ReturnIds

LEMMA EnteredRows ==
    /\ EnteredLots \subseteq LotRow /\ \A r \in EnteredLots : LotAccepted(r)
    /\ EnteredOuts \subseteq OutRow /\ \A r \in EnteredOuts : ~r.review
    /\ \A S, R : S \subseteq R => Lines(S) \subseteq Lines(R)
<1>1. EnteredLots \subseteq LotRow /\ \A r \in EnteredLots : LotAccepted(r)
  BY DEF EnteredLots
<1>2. EnteredOuts \subseteq OutRow /\ \A r \in EnteredOuts : ~r.review
  <2>1. ASSUME NEW r \in EnteredOuts
        PROVE  r.review = FALSE
    <3>1. r.review \in {FALSE}
      BY DEF EnteredOuts
    <3> QED BY <3>1
  <2>2. {FALSE} \subseteq BOOLEAN /\ {0} \subseteq Nat
    OBVIOUS
  <2>3. \A B, A : B \subseteq BOOLEAN /\ A \subseteq Nat =>
           [product : Products, date : Dates, qty : Quantities, review : B, approved : A]
              \subseteq OutRow
    BY DEF OutRow
  <2>4. EnteredOuts \subseteq OutRow
    BY <2>2, <2>3 DEF EnteredOuts
  <2> QED BY <2>1, <2>4
<1>3. \A S, R : S \subseteq R => Lines(S) \subseteq Lines(R)
  BY DEF Lines
<1> QED BY <1>1, <1>2, <1>3

LEMMA ReceiveInOrder ==
    ASSUME InOrder(ledger), NEW rows \in Lines(EnteredLots), Receive(rows)
    PROVE  /\ InOrder(ledger')
           /\ AddsRows(ledger.lots, ledger'.lots, rows) /\ KeepsRows(ledger.outs, ledger'.outs)
           /\ ServesInOrder(ledger, ledger')
<1> DEFINE w == ledger
           x == [ledger EXCEPT !.lots = Appended(ledger.lots, rows)]
           ps == {rows[k].product : k \in DOMAIN rows}
           ids == NewIds(w.lots, rows)
<1>1. ids \subseteq LotIds /\ ledger' = Reconciled(x, ps)
  BY DEF Receive
<1>2. w \in Ledgers /\ Sound(w)
  BY OrderFacts
<1>3. /\ Appended(w.lots, rows) \in Tables(LotIds, LotRow)
      /\ DOMAIN Appended(w.lots, rows) = DOMAIN w.lots \cup ids
      /\ \A i \in DOMAIN w.lots : Appended(w.lots, rows)[i] = w.lots[i]
      /\ \A i \in ids : /\ i \notin DOMAIN w.lots /\ i - LastId(w.lots) \in DOMAIN rows
                        /\ Appended(w.lots, rows)[i] = rows[i - LastId(w.lots)]
  <2>1. w.lots \in Tables(LotIds, LotRow) /\ rows \in Lines(LotRow)
    BY <1>2, EnteredRows DEF Ledgers
  <2> QED BY <1>1, <2>1, IdsFinite, IdsNatural, AppendedRows
<1>4. /\ x.lots = Appended(w.lots, rows) /\ x.outs = w.outs /\ x.alloc = w.alloc
      /\ x.start = w.start /\ x \in Ledgers
  BY <1>2, <1>3 DEF Ledgers
<1>5. ASSUME NEW i \in ids
      PROVE  i \notin DOMAIN w.lots /\ x.lots[i].product \in ps /\ LotAccepted(x.lots[i])
  <2>1. \A k \in DOMAIN rows : rows[k] \in EnteredLots
    BY LinesAre
  <2> QED BY <1>3, <1>4, <1>5, <2>1, EnteredRows
<1> HIDE DEF x, ps, ids
<1>6. Kept(w, x)
  <2>1. ASSUME NEW o \in OutIds, NEW i \in LotIds
        PROVE  /\ x.alloc[o][i] = w.alloc[o][i]
               /\ x.alloc[o][i] > 0 => Joinable(x, o, i)
               /\ i \in ids => x.alloc[o][i] = 0
    <3>1. w.alloc[o][i] \in Nat /\ (w.alloc[o][i] > 0 => Joinable(w, o, i))
      BY <1>2, LedgerRows DEF Sound
    <3>2. Joinable(w, o, i) => Joinable(x, o, i) /\ i \notin ids
      BY <1>3, <1>4, <1>5 DEF Joinable
    <3> QED BY <1>4, <3>1, <3>2
  <2>2. \A i \in DOMAIN x.lots : LotAccepted(x.lots[i])
    BY <1>2, <1>3, <1>4, <1>5 DEF Sound
  <2>3. DOMAIN x.lots \subseteq LotIds
    BY <1>4, LedgerRows
  <2>4. \A i \in DOMAIN x.lots : \/ i \in DOMAIN w.lots /\ x.lots[i].qty = w.lots[i].qty
                                 \/ \A o \in OutIds : x.alloc[o][i] = 0
    BY <1>3, <1>4, <2>1, <2>3
  <2> QED BY <1>4, <2>1, <2>2, <2>4 DEF Kept
<1>7. Sound(x)
  BY <1>2, <1>6, KeptSound
<1>8. ASSUME NEW o \in DOMAIN w.outs
      PROVE  /\ Unmet(x, o) = Unmet(w, o)
             /\ x.outs[o].product \notin ps => NotIdle(x, o)
  <2>1. Untouched(w, x, o)
    BY <1>4 DEF Untouched
  <2>2. NotIdle(w, o)
    BY OrderFacts
  <2>3. ASSUME x.outs[o].product \notin ps, NEW i \in DOMAIN x.lots,
               x.lots[i].product = x.outs[o].product
        PROVE  /\ i \in DOMAIN w.lots /\ x.lots[i] = w.lots[i]
               /\ \A p \in OutIds : x.alloc[p][i] = w.alloc[p][i]
    BY <1>3, <1>4, <1>5, <2>3
  <2> HIDE DEF w
  <2>4. x.outs[o].product \notin ps => NotIdle(x, o)
    BY <1>4, <2>1, <2>2, <2>3, UntouchedNotIdle
  <2> QED BY <2>1, <2>4, UntouchedUnmet
<1>9. Pending(x, ps, {}, {})
  BY <1>4, <1>7, <1>8, OrderFacts DEF Pending
<1>10. Done(x, ledger', {})
  BY <1>1, <1>9, ReconciledIsDone
<1>11. AddsRows(w.lots, ledger'.lots, rows)
  BY <1>3, <1>4, <1>10 DEF AddsRows, SameEntry, Done, SameRows, ids
<1>12. ServesInOrder(w, ledger')
  BY <1>2, <1>4, <1>10, DoneServes DEF Releases
<1> QED BY <1>4, <1>10, <1>11, <1>12 DEF InOrder, Done, SameRows

\* x is w with another row for the lot i, or none.
LotRewritten(w, x, i) ==
    /\ x \in Ledgers /\ x.outs = w.outs /\ x.start = w.start
    /\ i \in DOMAIN w.lots
    /\ \A j \in DOMAIN x.lots : j # i => j \in DOMAIN w.lots /\ x.lots[j] = w.lots[j]
    /\ \A j \in DOMAIN w.lots : j # i => j \in DOMAIN x.lots
    /\ i \in DOMAIN x.lots => LotAccepted(x.lots[i])

\* When all that the lot supplied is freed, its products are to be matched and
\* the distributions that lost something flagged.
LEMMA FreedLotIsPending ==
    ASSUME NEW w, InOrder(w), NEW x, NEW i, LotRewritten(w, x, i),
           \A o \in OutIds, j \in LotIds : x.alloc[o][j] = IF j = i THEN 0 ELSE w.alloc[o][j],
           NEW ps, w.lots[i].product \in ps, i \in DOMAIN x.lots => x.lots[i].product \in ps
    PROVE  Pending(x, ps, Supplied(w, i), {})
<1>1. /\ w \in Ledgers /\ Sound(w) /\ x \in Ledgers /\ x.outs = w.outs /\ x.start = w.start
      /\ i \in LotIds /\ i \in DOMAIN w.lots
      /\ DOMAIN x.lots \subseteq LotIds
  <2>1. w \in Ledgers /\ Sound(w) /\ x \in Ledgers
    BY OrderFacts DEF LotRewritten
  <2>2. DOMAIN w.lots \subseteq LotIds /\ DOMAIN x.lots \subseteq LotIds
    BY <2>1, LedgerRows
  <2> QED BY <2>1, <2>2 DEF LotRewritten
<1>2. Kept(w, x)
  <2>1. ASSUME NEW o \in OutIds, NEW j \in LotIds
        PROVE  /\ x.alloc[o][j] = 0 \/ x.alloc[o][j] = w.alloc[o][j]
               /\ x.alloc[o][j] > 0 => Joinable(x, o, j)
    <3>1. w.alloc[o][j] > 0 => Joinable(w, o, j)
      BY <1>1 DEF Sound
    <3>2. j # i /\ Joinable(w, o, j) => Joinable(x, o, j)
      BY <1>1 DEF Joinable, LotRewritten
    <3>3. ~(0 > 0)
      OBVIOUS
    <3> QED BY <3>1, <3>2, <3>3
  <2>2. \A j \in DOMAIN x.lots : LotAccepted(x.lots[j])
    BY <1>1 DEF LotRewritten, Sound
  <2>3. ASSUME NEW j \in DOMAIN x.lots
        PROVE  \/ j \in DOMAIN w.lots /\ x.lots[j].qty = w.lots[j].qty
               \/ \A o \in OutIds : x.alloc[o][j] = 0
    BY <1>1 DEF LotRewritten
  <2> QED BY <1>1, <2>1, <2>2, <2>3 DEF Kept
<1>3. Sound(x)
  BY <1>1, <1>2, KeptSound
<1>4. ASSUME NEW o \in DOMAIN w.outs
      PROVE  /\ w.outs[o].qty \in Nat /\ o \in OutIds
             /\ Unmet(x, o) \in Int /\ Unmet(w, o) \in Int /\ Unmet(x, o) >= Unmet(w, o)
  <2>1. Allocated(x, o) <= Allocated(w, o) /\ Allocated(x, o) \in Nat /\ Allocated(w, o) \in Nat
    BY <1>1, <1>2, KeptBalances
  <2>2. w.outs[o].qty \in Nat /\ o \in OutIds
    BY <1>1, LedgerRows
  <2> QED BY <1>1, <2>1, <2>2 DEF Unmet
<1>5. ASSUME NEW o \in DOMAIN w.outs, o \notin Supplied(w, i)
      PROVE  Untouched(w, x, o)
  <2>1. w.alloc[o] \in [LotIds -> Nat] /\ x.alloc[o] \in [LotIds -> Nat]
    BY <1>1, <1>4 DEF Ledgers
  <2>2. w.alloc[o][i] = 0
    BY <1>1, <1>4, <1>5, <2>1 DEF Supplied
  <2>3. \A j \in LotIds : x.alloc[o][j] = w.alloc[o][j]
    BY <1>4, <2>2
  <2>4. x.alloc[o] = w.alloc[o]
    BY <2>1, <2>3
  <2> QED BY <1>1, <2>4 DEF Untouched
<1>6. ASSUME NEW o \in DOMAIN w.outs, w.outs[o].product \notin ps
      PROVE  NotIdle(x, o)
  <2>1. o \notin Supplied(w, i)
    BY <1>1, <1>6 DEF Supplied, Sound, Joinable
  <2>2. Untouched(w, x, o) /\ NotIdle(w, o)
    BY <1>5, <2>1, OrderFacts
  <2>3. ASSUME NEW j \in DOMAIN x.lots, x.lots[j].product = x.outs[o].product
        PROVE  /\ j \in DOMAIN w.lots /\ x.lots[j] = w.lots[j]
               /\ \A p \in OutIds : x.alloc[p][j] = w.alloc[p][j]
    <3>1. j # i
      BY <1>1, <1>6, <2>3
    <3> QED BY <1>1, <3>1 DEF LotRewritten
  <2> QED BY <1>1, <2>2, <2>3, UntouchedNotIdle
<1>7. ASSUME NEW o \in DOMAIN w.outs, w.outs[o].review
      PROVE  w.outs[o].date >= w.start /\ Unmet(x, o) > 0
  <2>1. w.outs[o].date >= w.start /\ Unmet(w, o) > 0
    BY <1>7, OrderFacts
  <2> QED BY <1>4, <2>1
<1>8. ASSUME NEW o \in DOMAIN w.outs, o \notin Supplied(w, i),
             w.outs[o].date >= w.start, Unmet(x, o) > Waived(o)
      PROVE  w.outs[o].review
  <2>1. Unmet(x, o) = Unmet(w, o)
    BY <1>5, <1>8, UntouchedUnmet
  <2> QED BY <1>8, <2>1, OrderFacts
<1> QED BY <1>1, <1>3, <1>6, <1>7, <1>8 DEF Pending

\* When the allocations stay, its product is to be matched, if it is open at all.
LEMMA ChangedLotIsPending ==
    ASSUME NEW w, InOrder(w), NEW x, NEW i, LotRewritten(w, x, i),
           \A o \in OutIds, j \in LotIds : x.alloc[o][j] = w.alloc[o][j],
           \/ Supplied(w, i) = {}
           \/ i \in DOMAIN x.lots /\ x.lots[i].status = "active",
           i \in DOMAIN x.lots => /\ x.lots[i].product = w.lots[i].product
                                  /\ x.lots[i].date = w.lots[i].date
                                  /\ x.lots[i].qty = w.lots[i].qty,
           NEW ps, i \in DOMAIN x.lots => \/ x.lots[i].product \in ps
                                          \/ x.lots[i].status # "active"
    PROVE  Pending(x, ps, {}, {})
<1>1. /\ w \in Ledgers /\ Sound(w) /\ x \in Ledgers /\ x.outs = w.outs /\ x.start = w.start
      /\ DOMAIN x.lots \subseteq LotIds /\ DOMAIN w.outs \subseteq OutIds
      /\ i \in DOMAIN w.lots
  <2>1. w \in Ledgers /\ Sound(w) /\ x \in Ledgers
    BY OrderFacts DEF LotRewritten
  <2>2. DOMAIN w.outs \subseteq OutIds /\ DOMAIN x.lots \subseteq LotIds
    BY <2>1, LedgerRows
  <2> QED BY <2>1, <2>2 DEF LotRewritten
<1>2. Kept(w, x)
  <2>1. ASSUME NEW o \in OutIds, NEW j \in LotIds, x.alloc[o][j] > 0
        PROVE  Joinable(x, o, j)
    <3>1. Joinable(w, o, j)
      BY <1>1, <2>1 DEF Sound
    <3>2. CASE j # i
      BY <1>1, <3>1, <3>2 DEF Joinable, LotRewritten
    <3>3. CASE j = i
      <4>1. o \in Supplied(w, i)
        BY <2>1, <3>3 DEF Supplied
      <4>2. i \in DOMAIN x.lots /\ x.lots[i].status = "active"
        BY <4>1
      <4> QED BY <1>1, <3>1, <3>3, <4>2 DEF Joinable
    <3> QED BY <3>2, <3>3
  <2>2. \A j \in DOMAIN x.lots : LotAccepted(x.lots[j])
    BY <1>1 DEF LotRewritten, Sound
  <2>3. \A j \in DOMAIN x.lots : j \in DOMAIN w.lots /\ x.lots[j].qty = w.lots[j].qty
    BY <1>1 DEF LotRewritten
  <2> QED BY <1>1, <2>1, <2>2, <2>3 DEF Kept
<1>3. Sound(x)
  BY <1>1, <1>2, KeptSound
<1>4. ASSUME NEW o \in DOMAIN w.outs
      PROVE  Untouched(w, x, o) /\ Unmet(x, o) = Unmet(w, o)
  <2>1. o \in OutIds
    BY <1>1
  <2>2. w.alloc[o] \in [LotIds -> Nat] /\ x.alloc[o] \in [LotIds -> Nat]
    BY <1>1, <2>1 DEF Ledgers
  <2>3. x.alloc[o] = w.alloc[o]
    BY <2>1, <2>2
  <2>4. Untouched(w, x, o)
    BY <1>1, <2>3 DEF Untouched
  <2> QED BY <2>4, UntouchedUnmet
<1>5. ASSUME NEW o \in DOMAIN w.outs, w.outs[o].product \notin ps
      PROVE  NotIdle(x, o)
  <2>1. NotIdle(w, o)
    BY OrderFacts
  <2>2. ASSUME NEW j \in DOMAIN x.lots, x.lots[j].product = x.outs[o].product, IsOpen(x, j)
        PROVE  /\ j \in DOMAIN w.lots /\ x.lots[j] = w.lots[j]
               /\ \A p \in OutIds : x.alloc[p][j] = w.alloc[p][j]
    <3>1. j # i
      BY <1>1, <1>5, <2>2 DEF IsOpen
    <3> QED BY <1>1, <3>1 DEF LotRewritten
  <2> QED BY <1>1, <1>4, <2>1, <2>2, UntouchedNotIdle
<1> QED BY <1>1, <1>3, <1>4, <1>5, OrderFacts DEF Pending

LEMMA LotReleasedIs ==
    ASSUME NEW w \in Ledgers, NEW i
    PROVE  /\ LotReleased(w, i) \in Ledgers
           /\ LotReleased(w, i).lots = w.lots /\ LotReleased(w, i).outs = w.outs
           /\ LotReleased(w, i).start = w.start
           /\ \A o \in OutIds, j \in LotIds :
                 LotReleased(w, i).alloc[o][j] = IF j = i THEN 0 ELSE w.alloc[o][j]
<1> DEFINE a == [o \in OutIds |-> [w.alloc[o] EXCEPT ![i] = 0]]
           y == LotReleased(w, i)
<1>1. /\ y = [lots |-> w.lots, outs |-> w.outs, alloc |-> a, start |-> w.start]
      /\ y.lots = w.lots /\ y.outs = w.outs /\ y.alloc = a /\ y.start = w.start
  BY DEF LotReleased, Ledgers
<1>2. ASSUME NEW o \in OutIds
      PROVE  /\ a[o] \in [LotIds -> Nat]
             /\ \A j \in LotIds : a[o][j] = IF j = i THEN 0 ELSE w.alloc[o][j]
  <2>1. w.alloc[o] \in [LotIds -> Nat]
    BY DEF Ledgers
  <2>2. a[o] = [w.alloc[o] EXCEPT ![i] = 0]
    OBVIOUS
  <2> QED BY <2>1, <2>2
<1>3. a \in [OutIds -> [LotIds -> Nat]]
  BY <1>2
<1> HIDE DEF a, y
<1>4. y \in Ledgers
  BY <1>1, <1>3 DEF Ledgers
<1> QED BY <1>1, <1>2, <1>4 DEF y

\* A lot with another row is still a table of lots.
LEMMA RowOfLotIs ==
    ASSUME NEW y \in Ledgers, NEW i \in DOMAIN y.lots, NEW r \in LotRow,
           NEW x, x = [y EXCEPT !.lots = [y.lots EXCEPT ![i] = r]]
    PROVE  /\ x \in Ledgers
           /\ DOMAIN x.lots = DOMAIN y.lots /\ x.lots[i] = r
           /\ \A j \in DOMAIN y.lots : j # i => x.lots[j] = y.lots[j]
           /\ x.outs = y.outs /\ x.alloc = y.alloc /\ x.start = y.start
<1> DEFINE t == [y.lots EXCEPT ![i] = r]
<1>1. y.lots \in [DOMAIN y.lots -> LotRow] /\ DOMAIN y.lots \subseteq LotIds
  BY LedgerRows
<1>2. /\ t \in [DOMAIN y.lots -> LotRow] /\ DOMAIN t = DOMAIN y.lots /\ t[i] = r
      /\ \A j \in DOMAIN y.lots : j # i => t[j] = y.lots[j]
  BY <1>1
<1>3. /\ x = [lots |-> t, outs |-> y.outs, alloc |-> y.alloc, start |-> y.start]
      /\ x.lots = t /\ x.outs = y.outs /\ x.alloc = y.alloc /\ x.start = y.start
  BY DEF Ledgers
<1> HIDE DEF t
<1>4. t \in Tables(LotIds, LotRow)
  BY <1>1, <1>2 DEF Tables
<1>5. x \in Ledgers
  BY <1>3, <1>4 DEF Ledgers
<1> QED BY <1>2, <1>3, <1>5

LEMMA UpdateIntakeInOrder ==
    ASSUME InOrder(ledger), NEW i \in DOMAIN ledger.lots, NEW r \in EnteredLots,
           UpdateIntake(i, r)
    PROVE  /\ InOrder(ledger')
           /\ ChangesRow(ledger.lots, ledger'.lots, i, r) /\ KeepsRows(ledger.outs, ledger'.outs)
           /\ DepositNotWorse(ledger', {ledger.lots[i].product, r.product})
           /\ ServesInOrder(ledger, ledger')
<1> DEFINE w == ledger
           y == LotReleased(w, i)
           row == [r EXCEPT !.status = w.lots[i].status]
           x == [y EXCEPT !.lots = [y.lots EXCEPT ![i] = row]]
           ps == {w.lots[i].product, r.product}
<1>1. ledger' = Flagged(Reconciled(x, ps), Supplied(w, i)) /\ DepositNotWorse(x, ps)
  BY DEF UpdateIntake
<1>2. w \in Ledgers /\ w.lots[i] \in LotRow /\ r \in LotRow /\ LotAccepted(r)
  BY OrderFacts, LedgerRows, EnteredRows
<1>3. row \in LotRow /\ LotAccepted(row) /\ row.product = r.product /\ SameEntry(row, r)
  BY <1>2 DEF LotRow, LotAccepted, SameEntry
<1>4. /\ y \in Ledgers /\ y.lots = w.lots /\ y.outs = w.outs /\ y.start = w.start
      /\ \A o \in OutIds, j \in LotIds : y.alloc[o][j] = IF j = i THEN 0 ELSE w.alloc[o][j]
  BY <1>2, LotReleasedIs
<1> HIDE DEF y, row
<1>5. /\ x \in Ledgers /\ DOMAIN x.lots = DOMAIN w.lots /\ x.lots[i] = row
      /\ \A j \in DOMAIN w.lots : j # i => x.lots[j] = w.lots[j]
      /\ x.outs = w.outs /\ x.alloc = y.alloc /\ x.start = w.start
  BY <1>3, <1>4, RowOfLotIs
<1> HIDE DEF x
<1>6. LotRewritten(w, x, i)
  BY <1>3, <1>5 DEF LotRewritten
<1>7. Pending(x, ps, Supplied(w, i), {})
  BY <1>3, <1>4, <1>5, <1>6, FreedLotIsPending
<1>8. Done(x, ledger', {})
  BY <1>1, <1>7, MatchedIsDone
<1>9. ChangesRow(w.lots, ledger'.lots, i, r)
  BY <1>3, <1>5, <1>8 DEF ChangesRow, SameEntry, Done, SameRows
<1>10. DepositNotWorse(ledger', ps)
  BY <1>1, <1>8 DEF DepositNotWorse, Deposit, Done, SameRows
<1>11. ServesInOrder(w, ledger')
  BY <1>2, <1>4, <1>5, <1>8, DoneServes DEF Releases
<1> QED BY <1>5, <1>8, <1>9, <1>10, <1>11 DEF InOrder, Done, SameRows

LEMMA DeleteIntakeInOrder ==
    ASSUME InOrder(ledger), NEW i \in DOMAIN ledger.lots, NEW force, DeleteIntake(i, force)
    PROVE  /\ InOrder(ledger')
           /\ DropsRows(ledger.lots, ledger'.lots, {i}) /\ KeepsRows(ledger.outs, ledger'.outs)
           /\ DepositNotWorse(ledger', {ledger.lots[i].product})
           /\ ServesInOrder(ledger, ledger')
<1> DEFINE w == ledger
           y == LotReleased(w, i)
           t == Restrict(w.lots, DOMAIN w.lots \ {i})
           x == [y EXCEPT !.lots = t]
           ps == {w.lots[i].product}
<1>1. w \in Ledgers
  BY OrderFacts
<1>2. /\ y \in Ledgers /\ y.lots = w.lots /\ y.outs = w.outs /\ y.start = w.start
      /\ \A o \in OutIds, j \in LotIds : y.alloc[o][j] = IF j = i THEN 0 ELSE w.alloc[o][j]
  BY <1>1, LotReleasedIs
<1>3. /\ t \in Tables(LotIds, LotRow) /\ DOMAIN t = DOMAIN w.lots \ {i}
      /\ \A j \in DOMAIN w.lots \ {i} : t[j] = w.lots[j]
  <2>1. w.lots \in Tables(LotIds, LotRow)
    BY <1>1 DEF Ledgers
  <2>2. t \in Tables(LotIds, LotRow) /\ IsWithout(t, w.lots, {i})
    BY <2>1, RestrictedRows
  <2> QED BY <2>2 DEF IsWithout
<1>4. ledger' = IF Supplied(w, i) = {} THEN x ELSE Flagged(Reconciled(x, ps), Supplied(w, i))
  <2>1. Restrict(y.lots, DOMAIN y.lots \ {i}) = t
    BY <1>2
  <2>2. [y EXCEPT !.lots = Restrict(y.lots, DOMAIN y.lots \ {i})] = x
    BY <2>1
  <2> QED BY <2>2 DEF DeleteIntake
<1>10. DepositNotWorse(x, ps)
  <2>1. Restrict(y.lots, DOMAIN y.lots \ {i}) = t
    BY <1>2
  <2>2. [y EXCEPT !.lots = Restrict(y.lots, DOMAIN y.lots \ {i})] = x
    BY <2>1
  <2> QED BY <2>2 DEF DeleteIntake
<1> HIDE DEF y, t
<1>5. x \in Ledgers /\ x.lots = t /\ x.outs = w.outs /\ x.alloc = y.alloc /\ x.start = w.start
  BY <1>2, <1>3 DEF Ledgers
<1> HIDE DEF x
<1>6. LotRewritten(w, x, i)
  BY <1>3, <1>5 DEF LotRewritten
<1>7. i \notin DOMAIN x.lots
  BY <1>3, <1>5
<1>8. ASSUME Supplied(w, i) = {} PROVE Done(x, ledger', {})
  <2>1. \A o \in OutIds, j \in LotIds : x.alloc[o][j] = w.alloc[o][j]
    <3>1. \A o \in OutIds, j \in LotIds : w.alloc[o][j] \in Nat /\ ~(w.alloc[o][i] > 0)
      BY <1>1, <1>8 DEF Ledgers, Supplied
    <3> QED BY <1>2, <1>5, <3>1
  <2>2. Pending(x, {}, {}, {})
    BY <1>6, <1>7, <1>8, <2>1, ChangedLotIsPending
  <2>3. SameRows(x, x)
    BY DEF SameRows, KeepsRows, SameEntry
  <2>4. ServesInOrder(x, x)
    BY <1>5, NoGainServes
  <2> QED BY <1>4, <1>8, <2>2, <2>3, <2>4 DEF Done
<1>9. ASSUME Supplied(w, i) # {} PROVE Done(x, ledger', {})
  <2>1. Pending(x, ps, Supplied(w, i), {})
    BY <1>2, <1>5, <1>6, <1>7, FreedLotIsPending
  <2> QED BY <1>4, <1>9, <2>1, MatchedIsDone
<1>11. Done(x, ledger', {})
  BY <1>8, <1>9
<1>12. DropsRows(w.lots, ledger'.lots, {i})
  BY <1>3, <1>5, <1>11 DEF DropsRows, SameEntry, Done, SameRows
<1>13. DepositNotWorse(ledger', ps)
  BY <1>10, <1>11 DEF DepositNotWorse, Deposit, Done, SameRows
<1>14. ServesInOrder(w, ledger')
  BY <1>1, <1>2, <1>5, <1>11, DoneServes DEF Releases
<1> QED BY <1>5, <1>11, <1>12, <1>13, <1>14 DEF InOrder, Done, SameRows

LEMMA LotChangedIs ==
    ASSUME ledger \in Ledgers, NEW i \in DOMAIN ledger.lots, NEW e \in Expiries, NEW s \in Statuses,
           NEW x, x = LotChanged(i, e, s)
    PROVE  /\ x \in Ledgers /\ DOMAIN x.lots = DOMAIN ledger.lots
           /\ \A j \in DOMAIN ledger.lots : j # i => x.lots[j] = ledger.lots[j]
           /\ x.lots[i].product = ledger.lots[i].product /\ x.lots[i].date = ledger.lots[i].date
           /\ x.lots[i].qty = ledger.lots[i].qty /\ x.lots[i].status = s
           /\ x.outs = ledger.outs /\ x.alloc = ledger.alloc /\ x.start = ledger.start
<1> DEFINE w == ledger
           row == [w.lots[i] EXCEPT !.expiry = e, !.status = s]
<1>1. w.lots[i] \in LotRow /\ w.lots \in [DOMAIN w.lots -> LotRow]
  BY LedgerRows
<1>2. /\ row \in LotRow /\ row.product = w.lots[i].product /\ row.date = w.lots[i].date
      /\ row.qty = w.lots[i].qty /\ row.status = s
  BY <1>1 DEF LotRow
<1>3. x = [w EXCEPT !.lots = [w.lots EXCEPT ![i] = row]]
  BY <1>1 DEF LotChanged, Ledgers
<1> HIDE DEF row
<1>4. /\ x \in Ledgers /\ DOMAIN x.lots = DOMAIN w.lots /\ x.lots[i] = row
      /\ \A j \in DOMAIN w.lots : j # i => x.lots[j] = w.lots[j]
      /\ x.outs = w.outs /\ x.alloc = w.alloc /\ x.start = w.start
  BY <1>2, <1>3, RowOfLotIs
<1> QED BY <1>2, <1>4

LEMMA UpdateIntakeLotInOrder ==
    ASSUME InOrder(ledger), NEW i \in DOMAIN ledger.lots, NEW e \in Expiries, NEW s \in Statuses,
           UpdateIntakeLot(i, e, s)
    PROVE  /\ InOrder(ledger') /\ ServesInOrder(ledger, ledger')
           /\ KeepsRows(ledger.lots, ledger'.lots) /\ KeepsRows(ledger.outs, ledger'.outs)
<1> DEFINE w == ledger
           x == LotChanged(i, e, s)
           freed == IF EntersQuarantine(i, s) THEN Supplied(w, i) ELSE {}
           ps == {x.lots[i].product}
<1>1. w \in Ledgers /\ Sound(w)
  BY OrderFacts
<1>2. /\ LotAccepted(x.lots[i])
      /\ ledger' = Flagged(IF s = "active" \/ freed # {}
                           THEN Reconciled(IF freed = {} THEN x ELSE LotReleased(x, i), ps)
                           ELSE IF freed = {} THEN x ELSE LotReleased(x, i), freed)
  BY DEF UpdateIntakeLot
<1>3. /\ x \in Ledgers /\ DOMAIN x.lots = DOMAIN w.lots
      /\ \A j \in DOMAIN w.lots : j # i => x.lots[j] = w.lots[j]
      /\ x.lots[i].product = w.lots[i].product /\ x.lots[i].date = w.lots[i].date
      /\ x.lots[i].qty = w.lots[i].qty /\ x.lots[i].status = s
      /\ x.outs = w.outs /\ x.alloc = w.alloc /\ x.start = w.start
  BY <1>1, LotChangedIs
<1> HIDE DEF x
<1>4. ASSUME freed # {} PROVE Done(x, ledger', {})
  <2> DEFINE y == LotReleased(x, i)
  <2>1. freed = Supplied(w, i)
    BY <1>4
  <2>2. /\ y \in Ledgers /\ y.lots = x.lots /\ y.outs = x.outs /\ y.start = x.start
        /\ \A o \in OutIds, j \in LotIds : y.alloc[o][j] = IF j = i THEN 0 ELSE x.alloc[o][j]
    BY <1>3, LotReleasedIs
  <2>3. ledger' = Flagged(Reconciled(y, ps), Supplied(w, i))
    BY <1>2, <1>4, <2>1
  <2> HIDE DEF y
  <2>4. LotRewritten(w, y, i)
    BY <1>2, <1>3, <2>2 DEF LotRewritten
  <2>5. Pending(y, ps, Supplied(w, i), {})
    BY <1>3, <2>2, <2>4, FreedLotIsPending
  <2>6. Done(y, ledger', {})
    BY <2>3, <2>5, MatchedIsDone
  <2>7. ServesInOrder(x, ledger')
    BY <1>3, <2>2, <2>6, DoneServes DEF Releases
  <2> QED BY <2>2, <2>6, <2>7 DEF Done, SameRows, KeepsRows
<1>5. ASSUME freed = {} PROVE Done(x, ledger', {})
  <2>1. LotRewritten(w, x, i)
    BY <1>2, <1>3 DEF LotRewritten
  <2>2. Supplied(w, i) = {} \/ s = "active"
    <3>1. CASE EntersQuarantine(i, s)
      BY <1>5, <3>1
    <3>2. CASE ~EntersQuarantine(i, s) /\ s # "active"
      <4>1. w.lots[i].status # "active"
        BY <3>2, LedgerAssumption DEF EntersQuarantine
      <4>2. i \in LotIds
        BY <1>1, LedgerRows
      <4>3. Supplied(w, i) = {}
        BY <1>1, <4>1, <4>2 DEF Supplied, Sound, Joinable
      <4> QED BY <4>3
    <3> QED BY <3>1, <3>2
  <2>3. CASE s = "active"
    <3>1. Pending(x, ps, {}, {})
      BY <1>3, <2>1, <2>3, ChangedLotIsPending
    <3>2. ledger' = Flagged(Reconciled(x, ps), {})
      BY <1>2, <1>5, <2>3
    <3> QED BY <3>1, <3>2, MatchedIsDone
  <2>4. CASE s # "active"
    <3>1. Supplied(w, i) = {}
      BY <2>2, <2>4
    <3>2. Pending(x, {}, {}, {})
      BY <1>3, <2>1, <2>4, <3>1, ChangedLotIsPending
    <3>3. ledger' = Flagged(x, {})
      BY <1>2, <1>5, <2>4
    <3> QED BY <3>2, <3>3, FlaggedIsDone
  <2> QED BY <2>3, <2>4
<1>6. Done(x, ledger', {})
  BY <1>4, <1>5
<1>7. KeepsRows(w.lots, ledger'.lots)
  BY <1>3, <1>6 DEF KeepsRows, SameEntry, Done, SameRows
<1>8. ServesInOrder(w, ledger')
  BY <1>1, <1>3, <1>6, DoneServes DEF Releases
<1> QED BY <1>3, <1>6, <1>7, <1>8 DEF InOrder, Done, SameRows

-----------------------------------------------------------------------------
(* Distributions *)

\* The first transaction leaves nothing to do but to flag the new rows.
LEMMA HandedOutIsPending ==
    ASSUME InOrder(ledger), NEW rows \in Lines(EnteredOuts), MayDistribute(rows)
    PROVE  /\ Pending(HandedOut(rows), {}, NewIds(ledger.outs, rows), {})
           /\ ServesInOrder(ledger, HandedOut(rows)) /\ HandedOut(rows) \in Ledgers
           /\ HandedOut(rows).lots = ledger.lots
           /\ AddsRows(ledger.outs, HandedOut(rows).outs, rows)
<1> DEFINE w == ledger
           ids == NewIds(w.outs, rows)
           x == [ledger EXCEPT !.outs = Appended(ledger.outs, rows)]
           turn == [o \in ids |-> o]
           u == ServeAll(x, ids, turn)
<1>1. ids \subseteq OutIds /\ HandedOut(rows) = u
  BY DEF MayDistribute, HandedOut
<1>2. w \in Ledgers /\ Sound(w)
  BY OrderFacts
<1>3. /\ Appended(w.outs, rows) \in Tables(OutIds, OutRow)
      /\ DOMAIN Appended(w.outs, rows) = DOMAIN w.outs \cup ids
      /\ \A o \in DOMAIN w.outs : Appended(w.outs, rows)[o] = w.outs[o]
      /\ \A o \in ids : /\ o \notin DOMAIN w.outs /\ o - LastId(w.outs) \in DOMAIN rows
                        /\ Appended(w.outs, rows)[o] = rows[o - LastId(w.outs)]
  <2>1. w.outs \in Tables(OutIds, OutRow) /\ rows \in Lines(OutRow)
    BY <1>2, EnteredRows DEF Ledgers
  <2> QED BY <1>1, <2>1, IdsFinite, IdsNatural, AppendedRows
<1>4. /\ x.outs = Appended(w.outs, rows) /\ x.lots = w.lots /\ x.alloc = w.alloc
      /\ x.start = w.start /\ x \in Ledgers
  BY <1>2, <1>3 DEF Ledgers
<1>5. ASSUME NEW o \in ids
      PROVE  o \notin DOMAIN w.outs /\ ~x.outs[o].review
  <2>1. \A k \in DOMAIN rows : rows[k] \in EnteredOuts
    BY LinesAre
  <2> QED BY <1>3, <1>4, <1>5, <2>1, EnteredRows
<1>6. ids \in SUBSET DOMAIN x.outs /\ \A o \in ids : turn[o] \in Int
  BY <1>1, <1>3, <1>4, IdsNatural
<1> HIDE DEF x, ids, turn
<1>7. Kept(w, x)
  <2>1. ASSUME NEW o \in OutIds, NEW i \in LotIds
        PROVE  /\ x.alloc[o][i] = w.alloc[o][i]
               /\ x.alloc[o][i] > 0 => Joinable(x, o, i)
               /\ o \in ids => x.alloc[o][i] = 0
    <3>1. w.alloc[o][i] \in Nat /\ (w.alloc[o][i] > 0 => Joinable(w, o, i))
      BY <1>2, LedgerRows DEF Sound
    <3>2. Joinable(w, o, i) => Joinable(x, o, i) /\ o \notin ids
      BY <1>3, <1>4, <1>5 DEF Joinable
    <3> QED BY <1>4, <3>1, <3>2
  <2>2. \A i \in DOMAIN x.lots : LotAccepted(x.lots[i])
    BY <1>2, <1>4 DEF Sound
  <2>3. DOMAIN x.outs \subseteq OutIds
    BY <1>4, LedgerRows
  <2>4. \A o \in DOMAIN x.outs : \/ o \in DOMAIN w.outs /\ x.outs[o].qty = w.outs[o].qty
                                 \/ \A i \in LotIds : x.alloc[o][i] = 0
    BY <1>3, <1>4, <2>1, <2>3
  <2> QED BY <1>4, <2>1, <2>2, <2>4 DEF Kept
<1>8. Sound(x)
  BY <1>2, <1>7, KeptSound
<1>9. /\ u \in ServedOf(x, ids) /\ \A o \in ids : NotIdle(u, o)
      /\ GainsAreOpen(x, u, ids) /\ EarlierFirst(x, u)
  BY <1>6, <1>8, ServeAllSound, ServeAllInOrder
<1> HIDE DEF u
<1>10. /\ Sound(u) /\ u \in Ledgers /\ Later(x, u, ids)
       /\ u.lots = x.lots /\ u.outs = x.outs /\ u.start = x.start
  BY <1>9 DEF ServedOf, Later, Sound
<1>11. ASSUME NEW o \in DOMAIN w.outs
       PROVE  /\ x.outs[o] = w.outs[o] /\ Unmet(u, o) = Unmet(w, o)
              /\ NotIdle(u, o)
  <2>1. x.outs[o] = w.outs[o] /\ o \in DOMAIN x.outs /\ o \notin ids
    BY <1>3, <1>4, <1>5
  <2>2. Untouched(w, x, o)
    BY <1>4, <2>1 DEF Untouched
  <2>3. NotIdle(w, o)
    BY OrderFacts
  <2>4. \A i \in DOMAIN x.lots : /\ i \in DOMAIN w.lots /\ x.lots[i] = w.lots[i]
                                 /\ \A p \in OutIds : x.alloc[p][i] = w.alloc[p][i]
    BY <1>4
  <2> HIDE DEF w
  <2>5. NotIdle(x, o) /\ Unmet(x, o) = Unmet(w, o)
    BY <1>4, <2>2, <2>3, <2>4, UntouchedNotIdle, UntouchedUnmet
  <2>6. NotIdle(u, o)
    BY <1>4, <1>10, <2>1, <2>5, LaterNotIdle
  <2>7. Unmet(u, o) = Unmet(x, o)
    BY <1>4, <1>10, <2>1, LaterLess
  <2> QED BY <2>1, <2>5, <2>6, <2>7
<1>12. DOMAIN u.outs = DOMAIN w.outs \cup ids
  BY <1>3, <1>4, <1>10
<1>13. Pending(u, {}, ids, {})
  <2>1. \A o \in DOMAIN u.outs : NotIdle(u, o)
    BY <1>9, <1>11, <1>12
  <2>2. ASSUME NEW o \in DOMAIN u.outs, u.outs[o].review
        PROVE  u.outs[o].date >= u.start /\ Unmet(u, o) > 0
    <3>1. o \in DOMAIN w.outs
      BY <1>5, <1>10, <1>12, <2>2
    <3> QED BY <1>4, <1>10, <1>11, <2>2, <3>1, OrderFacts
  <2>3. ASSUME NEW o \in DOMAIN u.outs \ ids,
               u.outs[o].date >= u.start, Unmet(u, o) > Waived(o)
        PROVE  u.outs[o].review
    <3>1. o \in DOMAIN w.outs
      BY <1>12
    <3> QED BY <1>4, <1>10, <1>11, <2>3, <3>1, OrderFacts
  <2> QED BY <1>10, <2>1, <2>2, <2>3 DEF Pending
<1>14. AddsRows(w.outs, u.outs, rows)
  BY <1>3, <1>4, <1>10 DEF AddsRows, SameEntry, ids
\* An older one that lacks something finds no open lot, so that nobody gains there.
<1>15. OlderFirst(w, u)
  <2>1. ASSUME NEW o \in DOMAIN w.outs, NEW p \in DOMAIN u.outs, NEW i \in DOMAIN u.lots,
               Gains(w, u, p, i), Lacks(u, o, i)
        PROVE  FALSE
    <3>1. i \in OpenLots(x, x.outs[p].product)
      <4>1. p \in OutIds /\ i \in LotIds /\ Gains(x, u, p, i)
        BY <1>4, <1>10, <2>1, LedgerRows DEF Gains
      <4> QED BY <1>9, <4>1 DEF GainsAreOpen
    <3>2. i \in DOMAIN w.lots /\ IsOpen(w, i)
      BY <1>4, <3>1 DEF OpenLots, IsOpen, Left, Used
    <3>3. Lacks(w, o, i)
      BY <1>4, <1>10, <1>11, <2>1 DEF Lacks
    <3>4. NotIdle(w, o)
      BY OrderFacts
    <3> QED BY <3>2, <3>3, <3>4 DEF NotIdle, Lacks
  <2> QED BY <2>1 DEF OlderFirst
<1>16. EarlierFirst(w, u)
  BY <1>4, <1>9 DEF EarlierFirst, Gains
<1> QED BY <1>1, <1>4, <1>10, <1>13, <1>14, <1>15, <1>16 DEF ServesInOrder, ids

LEMMA DistributeInOrder ==
    ASSUME InOrder(ledger), NEW rows \in Lines(EnteredOuts), Distribute(rows)
    PROVE  /\ InOrder(ledger') /\ ServesInOrder(ledger, ledger')
           /\ KeepsRows(ledger.lots, ledger'.lots) /\ AddsRows(ledger.outs, ledger'.outs, rows)
<1> DEFINE u == HandedOut(rows)
           ids == NewIds(ledger.outs, rows)
<1>1. ledger' = Flagged(u, ids) /\ MayDistribute(rows)
  BY DEF Distribute
<1>2. /\ Pending(u, {}, ids, {}) /\ ServesInOrder(ledger, u) /\ u \in Ledgers
      /\ u.lots = ledger.lots /\ AddsRows(ledger.outs, u.outs, rows)
  BY <1>1, HandedOutIsPending
<1> HIDE DEF u, ids
<1>3. Done(u, ledger', {})
  BY <1>1, <1>2, FlaggedIsDone
<1>4. AddsRows(ledger.outs, ledger'.outs, rows)
  BY <1>2, <1>3 DEF AddsRows, SameEntry, Done, SameRows, KeepsRows
<1>5. KeepsRows(ledger.lots, ledger'.lots)
  BY <1>2, <1>3 DEF KeepsRows, SameEntry, Done, SameRows
<1>6. ServesInOrder(ledger, ledger')
  BY <1>1, <1>2, FlaggedServes
<1> QED BY <1>3, <1>4, <1>5, <1>6 DEF InOrder, Done

LEMMA DistributeCutAtRest ==
    ASSUME InOrder(ledger), NEW rows \in Lines(EnteredOuts), DistributeCut(rows)
    PROVE  /\ AtRest(ledger') /\ ServesInOrder(ledger, ledger')
           /\ KeepsRows(ledger.lots, ledger'.lots) /\ AddsRows(ledger.outs, ledger'.outs, rows)
<1>1. ledger' = HandedOut(rows) /\ MayDistribute(rows)
  BY DEF DistributeCut
<1>2. /\ Pending(ledger', {}, NewIds(ledger.outs, rows), {}) /\ ServesInOrder(ledger, ledger')
      /\ ledger'.lots = ledger.lots /\ AddsRows(ledger.outs, ledger'.outs, rows)
  BY <1>1, HandedOutIsPending
<1>3. AtRest(ledger')
  BY <1>2 DEF Pending, AtRest
<1> QED BY <1>2, <1>3 DEF KeepsRows, SameEntry

\* x is w but for the rows of os, which have no allocations any more.
OutsRewritten(w, x, os) ==
    /\ x \in Ledgers /\ x.lots = w.lots /\ x.start = w.start
    /\ os \subseteq DOMAIN w.outs /\ DOMAIN w.outs \ os \subseteq DOMAIN x.outs
    /\ \A o \in DOMAIN x.outs : o \in DOMAIN w.outs /\ (o \notin os => x.outs[o] = w.outs[o])
    /\ \A o \in OutIds : x.alloc[o] = IF o \in os THEN NothingFrom ELSE w.alloc[o]

LEMMA OutsRelease == \A w, x, os : OutsRewritten(w, x, os) => Releases(w, x)
BY DEF OutsRewritten, Releases, NothingFrom

\* What they were met from is matched again, and they are if they are still there.
LEMMA FreedOutsArePending ==
    ASSUME NEW w, InOrder(w), NEW x, NEW os, OutsRewritten(w, x, os), NEW ps,
           \A o \in os : w.outs[o].product \in ps,
           \A o \in os \cap DOMAIN x.outs : x.outs[o].product \in ps
    PROVE  Pending(x, ps, os, os)
<1>1. /\ w \in Ledgers /\ Sound(w) /\ x \in Ledgers /\ x.lots = w.lots /\ x.start = w.start
      /\ os \subseteq DOMAIN w.outs /\ DOMAIN w.outs \subseteq OutIds
  <2>1. w \in Ledgers /\ Sound(w)
    BY OrderFacts
  <2> QED BY <2>1, LedgerRows DEF OutsRewritten
<1>2. ASSUME NEW o \in OutIds, NEW i \in LotIds
      PROVE  /\ x.alloc[o][i] = IF o \in os THEN 0 ELSE w.alloc[o][i]
             /\ w.alloc[o][i] \in Nat /\ (w.alloc[o][i] > 0 => Joinable(w, o, i))
  BY <1>1 DEF OutsRewritten, NothingFrom, Sound, Ledgers
<1>3. ASSUME NEW o \in DOMAIN x.outs, o \notin os
      PROVE  o \in DOMAIN w.outs /\ x.outs[o] = w.outs[o] /\ Untouched(w, x, o)
  <2>1. o \in DOMAIN w.outs /\ x.outs[o] = w.outs[o] /\ o \in OutIds
    BY <1>1, <1>3 DEF OutsRewritten
  <2>2. x.alloc[o] = w.alloc[o]
    BY <1>3, <2>1 DEF OutsRewritten
  <2> QED BY <2>1, <2>2 DEF Untouched
<1>4. Kept(w, x)
  <2>1. ASSUME NEW o \in OutIds, NEW i \in LotIds
        PROVE  /\ x.alloc[o][i] = 0 \/ x.alloc[o][i] = w.alloc[o][i]
               /\ x.alloc[o][i] > 0 => Joinable(x, o, i)
    <3>1. x.alloc[o][i] = IF o \in os THEN 0 ELSE w.alloc[o][i]
      BY <1>2
    <3>2. ASSUME x.alloc[o][i] > 0 PROVE Joinable(x, o, i)
      <4>1. o \notin os
        BY <3>1, <3>2
      <4>2. w.alloc[o][i] > 0 => Joinable(w, o, i)
        BY <1>2
      <4>3. Joinable(w, o, i)
        BY <3>1, <3>2, <4>1, <4>2
      <4>4. o \in DOMAIN x.outs
        BY <4>1, <4>3, <1>1 DEF OutsRewritten, Joinable
      <4> QED BY <1>1, <1>3, <4>1, <4>3, <4>4 DEF Joinable
    <3> QED BY <3>1, <3>2
  <2>2. \A i \in DOMAIN x.lots : LotAccepted(x.lots[i])
    BY <1>1 DEF Sound
  <2>3. ASSUME NEW o \in DOMAIN x.outs
        PROVE  \/ o \in DOMAIN w.outs /\ x.outs[o].qty = w.outs[o].qty
               \/ \A i \in LotIds : x.alloc[o][i] = 0
    <3>1. o \in OutIds
      BY <1>1, LedgerRows
    <3> QED BY <1>2, <1>3, <3>1
  <2> QED BY <1>1, <2>1, <2>2, <2>3 DEF Kept
<1>5. Sound(x)
  BY <1>1, <1>4, KeptSound
<1>6. ASSUME NEW o \in DOMAIN x.outs, x.outs[o].product \notin ps
      PROVE  o \notin os /\ NotIdle(x, o)
  <2>1. o \notin os
    BY <1>6
  <2>2. Untouched(w, x, o) /\ o \in DOMAIN w.outs /\ x.outs[o] = w.outs[o]
    BY <1>3, <2>1
  <2>3. NotIdle(w, o)
    BY <2>2, OrderFacts
  <2>4. ASSUME NEW i \in DOMAIN x.lots, x.lots[i].product = x.outs[o].product
        PROVE  /\ i \in DOMAIN w.lots /\ x.lots[i] = w.lots[i]
               /\ \A p \in OutIds : x.alloc[p][i] = w.alloc[p][i]
    <3>1. ASSUME NEW p \in OutIds PROVE x.alloc[p][i] = w.alloc[p][i]
      <4>1. i \in LotIds
        BY <1>1, LedgerRows
      <4>2. p \in os => ~Joinable(w, p, i)
        BY <1>1, <1>6, <2>4 DEF Joinable
      <4> QED BY <1>2, <4>1, <4>2
    <3> QED BY <1>1, <3>1
  <2>5. NotIdle(x, o)
    BY <1>1, <2>2, <2>3, <2>4, UntouchedNotIdle
  <2> QED BY <2>1, <2>5
<1>7. ASSUME NEW o \in DOMAIN x.outs, o \notin os
      PROVE  Unmet(x, o) = Unmet(w, o) /\ x.outs[o] = w.outs[o] /\ o \in DOMAIN w.outs
  BY <1>3, <1>7, UntouchedUnmet
<1>8. ASSUME NEW o \in DOMAIN x.outs, x.outs[o].review
      PROVE  /\ x.outs[o].date >= x.start \/ o \in os
             /\ x.outs[o].product \in ps \/ Unmet(x, o) > 0
  <2>1. CASE o \in os
    BY <2>1
  <2>2. CASE o \notin os
    BY <1>1, <1>7, <1>8, <2>2, OrderFacts
  <2> QED BY <2>1, <2>2
<1>9. ASSUME NEW o \in DOMAIN x.outs \ os,
             x.outs[o].date >= x.start, Unmet(x, o) > Waived(o)
      PROVE  x.outs[o].review
  BY <1>1, <1>7, <1>9, OrderFacts
<1> QED BY <1>5, <1>6, <1>8, <1>9 DEF Pending

LEMMA OutChangedIs ==
    ASSUME ledger \in Ledgers, NEW o \in DOMAIN ledger.outs, NEW r \in EnteredOuts,
           NEW x, x = OutChanged(o, r)
    PROVE  OutsRewritten(ledger, x, {o}) /\ ChangesRow(ledger.outs, x.outs, o, r)
<1> DEFINE w == ledger
           row == [w.outs[o] EXCEPT !.product = r.product, !.date = r.date, !.qty = r.qty]
           t == [w.outs EXCEPT ![o] = row]
           a == [w.alloc EXCEPT ![o] = NothingFrom]
<1>1. /\ w.outs[o] \in OutRow /\ w.outs \in [DOMAIN w.outs -> OutRow] /\ DOMAIN w.outs \subseteq OutIds
      /\ w.alloc \in [OutIds -> [LotIds -> Nat]] /\ r \in OutRow
  BY LedgerRows, EnteredRows
<1>2. row \in OutRow /\ SameEntry(row, r)
  BY <1>1 DEF OutRow, SameEntry
<1>3. /\ x = [lots |-> w.lots, outs |-> t, alloc |-> a, start |-> w.start]
      /\ x.lots = w.lots /\ x.outs = t /\ x.alloc = a /\ x.start = w.start
  BY DEF OutChanged, Ledgers
<1>4. NothingFrom \in [LotIds -> Nat]
  BY DEF NothingFrom
<1>5. /\ a \in [OutIds -> [LotIds -> Nat]]
      /\ \A p \in OutIds : a[p] = IF p \in {o} THEN NothingFrom ELSE w.alloc[p]
  BY <1>1, <1>4
<1> HIDE DEF row, a
<1>6. /\ t \in [DOMAIN w.outs -> OutRow] /\ t[o] = row
      /\ \A p \in DOMAIN w.outs : p # o => t[p] = w.outs[p]
  BY <1>1, <1>2
<1> HIDE DEF t
<1>7. t \in Tables(OutIds, OutRow)
  BY <1>1, <1>6 DEF Tables
<1>8. x \in Ledgers
  BY <1>3, <1>5, <1>7 DEF Ledgers
<1>9. DOMAIN t = DOMAIN w.outs
  BY <1>6
<1>10. ChangesRow(w.outs, x.outs, o, r)
  BY <1>2, <1>3, <1>6, <1>9 DEF ChangesRow, SameEntry
<1> QED BY <1>3, <1>5, <1>6, <1>8, <1>9, <1>10 DEF OutsRewritten

LEMMA UpdateDistributionInOrder ==
    ASSUME InOrder(ledger), NEW o \in DOMAIN ledger.outs, NEW r \in EnteredOuts,
           UpdateDistribution(o, r)
    PROVE  /\ InOrder(ledger') /\ ServesInOrder(ledger, ledger')
           /\ KeepsRows(ledger.lots, ledger'.lots) /\ ChangesRow(ledger.outs, ledger'.outs, o, r)
<1> DEFINE x == OutChanged(o, r)
           ps == {ledger.outs[o].product, r.product}
           met == Flagged(Reconciled(x, ps), {o})
<1>1. ledger' = ReviewsClearedBefore(met, ledger.start, {o})
  BY DEF UpdateDistribution
<1>2. ledger \in Ledgers
  BY OrderFacts
<1>3. OutsRewritten(ledger, x, {o}) /\ ChangesRow(ledger.outs, x.outs, o, r)
  BY <1>2, OutChangedIs
<1> HIDE DEF x
<1>4. Pending(x, ps, {o}, {o})
  BY <1>3, FreedOutsArePending DEF ChangesRow, SameEntry
<1>5. Done(x, met, {o})
  BY <1>4, MatchedIsDone
<1>6. met.start = ledger.start
  BY <1>3, <1>5 DEF OutsRewritten, Done, SameRows
<1> HIDE DEF met
<1>7. /\ Pending(ReviewsClearedBefore(met, met.start, {o}), {}, {}, {})
      /\ SameRows(met, ReviewsClearedBefore(met, met.start, {o}))
  BY <1>5, ClearedIsDone DEF Done
<1>8. SameRows(met, ledger') /\ SameRows(x, met)
  BY <1>1, <1>5, <1>6, <1>7 DEF Done
<1>9. KeepsRows(ledger.lots, ledger'.lots)
  BY <1>3, <1>8 DEF OutsRewritten, SameRows, KeepsRows, SameEntry
<1>10. ChangesRow(ledger.outs, ledger'.outs, o, r)
  BY <1>3, <1>8 DEF ChangesRow, SameRows, KeepsRows, SameEntry
<1>11. ServesInOrder(ledger, ledger')
  <2>1. ServesInOrder(ledger, met) /\ met \in Ledgers
    BY <1>2, <1>3, <1>5, OutsRelease, DoneServes DEF Done, Pending, Sound
  <2> QED BY <1>1, <2>1, ClearedServes
<1> QED BY <1>1, <1>6, <1>7, <1>9, <1>10, <1>11 DEF InOrder

LEMMA WithoutOutsIs ==
    ASSUME NEW w \in Ledgers, NEW os \in SUBSET DOMAIN w.outs, NEW x, x = WithoutOuts(w, os)
    PROVE  OutsRewritten(w, x, os) /\ DOMAIN x.outs = DOMAIN w.outs \ os
<1> DEFINE t == Restrict(w.outs, DOMAIN w.outs \ os)
           a == [o \in OutIds |-> IF o \in os THEN NothingFrom ELSE w.alloc[o]]
<1>1. w.outs \in Tables(OutIds, OutRow) /\ w.alloc \in [OutIds -> [LotIds -> Nat]]
  BY DEF Ledgers
<1>2. t \in Tables(OutIds, OutRow) /\ IsWithout(t, w.outs, os)
  BY <1>1, RestrictedRows
<1>3. /\ x = [lots |-> w.lots, outs |-> t, alloc |-> a, start |-> w.start]
      /\ x.lots = w.lots /\ x.outs = t /\ x.alloc = a /\ x.start = w.start
  BY DEF WithoutOuts, Ledgers
<1>4. a \in [OutIds -> [LotIds -> Nat]]
  BY <1>1 DEF NothingFrom
<1>5. \A o \in OutIds : a[o] = IF o \in os THEN NothingFrom ELSE w.alloc[o]
  OBVIOUS
<1> HIDE DEF t, a
<1>6. x \in Ledgers
  BY <1>2, <1>3, <1>4 DEF Ledgers
<1> QED BY <1>2, <1>3, <1>5, <1>6 DEF OutsRewritten, IsWithout

OutsRemoved(v, os) ==
    /\ InOrder(v) /\ ServesInOrder(ledger, v)
    /\ KeepsRows(ledger.lots, v.lots) /\ DropsRows(ledger.outs, v.outs, os)

LEMMA RemovedOutsInOrder ==
    ASSUME InOrder(ledger), NEW os \in SUBSET DOMAIN ledger.outs, NEW ps,
           \A o \in os : ledger.outs[o].product \in ps
    PROVE  OutsRemoved(Reconciled(WithoutOuts(ledger, os), ps), os)
<1> DEFINE x == WithoutOuts(ledger, os)
<1>1. ledger \in Ledgers
  BY OrderFacts
<1>2. OutsRewritten(ledger, x, os) /\ DOMAIN x.outs = DOMAIN ledger.outs \ os
  BY <1>1, WithoutOutsIs
<1> HIDE DEF x
<1>3. Pending(x, ps, os, os)
  BY <1>2, FreedOutsArePending
<1>4. Pending(x, ps, {}, {})
  BY <1>2, <1>3 DEF Pending
<1>5. Done(x, Reconciled(x, ps), {})
  BY <1>4, ReconciledIsDone
<1>6. KeepsRows(ledger.lots, Reconciled(x, ps).lots)
  BY <1>2, <1>5 DEF OutsRewritten, Done, SameRows, KeepsRows, SameEntry
<1>7. DropsRows(ledger.outs, Reconciled(x, ps).outs, os)
  BY <1>2, <1>5 DEF OutsRewritten, Done, SameRows, KeepsRows, DropsRows, SameEntry
<1>8. ServesInOrder(ledger, Reconciled(x, ps))
  BY <1>1, <1>2, <1>5, OutsRelease, DoneServes
<1> QED BY <1>5, <1>6, <1>7, <1>8 DEF OutsRemoved, InOrder, Done, x

LEMMA DeleteDistributionInOrder ==
    ASSUME InOrder(ledger), NEW o \in DOMAIN ledger.outs, DeleteDistribution(o)
    PROVE  OutsRemoved(ledger', {o})
<1>1. ledger' = Reconciled(WithoutOuts(ledger, {o}), {ledger.outs[o].product})
  BY DEF DeleteDistribution
<1>2. {o} \in SUBSET DOMAIN ledger.outs
  OBVIOUS
<1>3. \A p \in {o} : ledger.outs[p].product \in {ledger.outs[o].product}
  OBVIOUS
<1>4. OutsRemoved(Reconciled(WithoutOuts(ledger, {o}), {ledger.outs[o].product}), {o})
  BY <1>2, <1>3, RemovedOutsInOrder
<1> QED BY <1>1, <1>4

LEMMA ClearDistributionsInOrder ==
    ASSUME InOrder(ledger), NEW from, NEW to, ClearDistributions(from, to)
    PROVE  OutsRemoved(ledger', {o \in DOMAIN ledger.outs : ledger.outs[o].date \in from..to})
<1> DEFINE os == {o \in DOMAIN ledger.outs : ledger.outs[o].date \in from..to}
           ps == {ledger.outs[o].product : o \in os}
<1>1. ledger' = Reconciled(WithoutOuts(ledger, os), ps)
  BY DEF ClearDistributions
<1>2. os \in SUBSET DOMAIN ledger.outs /\ \A o \in os : ledger.outs[o].product \in ps
  OBVIOUS
<1> HIDE DEF os, ps
<1>3. OutsRemoved(Reconciled(WithoutOuts(ledger, os), ps), os)
  BY <1>2, RemovedOutsInOrder
<1> QED BY <1>1, <1>3 DEF os

LEMMA ApproveReviewsAsks ==
    ASSUME InOrder(ledger), NEW os \in SUBSET DOMAIN ledger.outs, ApproveReviews(os)
    PROVE  /\ AtRest(ledger') /\ ShortageAsked
           /\ SameRows(ledger, ledger') /\ ServesInOrder(ledger, ledger')
<1> DEFINE w == ledger
           x == ledger'
           row(o) == IF o \in os THEN [w.outs[o] EXCEPT !.review = FALSE, !.approved = Unmet(w, o)]
                                 ELSE w.outs[o]
           t == [o \in DOMAIN w.outs |-> row(o)]
<1>1. /\ w \in Ledgers /\ Sound(w) /\ DOMAIN w.outs \subseteq OutIds
      /\ \A o \in DOMAIN w.outs : w.outs[o] \in OutRow
  BY OrderFacts, LedgerRows
<1>2. /\ x = [lots |-> w.lots, outs |-> t, alloc |-> w.alloc, start |-> w.start]
      /\ x.lots = w.lots /\ x.outs = t /\ x.alloc = w.alloc /\ x.start = w.start
  BY <1>1 DEF ApproveReviews, Ledgers
<1>3. ASSUME NEW o \in DOMAIN w.outs
      PROVE  /\ row(o) \in OutRow /\ row(o).product = w.outs[o].product
             /\ row(o).date = w.outs[o].date /\ row(o).qty = w.outs[o].qty
             /\ row(o).review = IF o \in os THEN FALSE ELSE w.outs[o].review
             /\ row(o).approved = IF o \in os THEN Unmet(w, o) ELSE w.outs[o].approved
  <2>1. CASE o \in os
    <3>1. w.outs[o].review
      BY <2>1 DEF ApproveReviews
    <3>2. Unmet(w, o) \in Int /\ Unmet(w, o) > 0
      BY <3>1, OrderFacts
    <3>3. Unmet(w, o) \in Nat
      BY <3>2
    <3> QED BY <1>1, <2>1, <3>3 DEF OutRow
  <2>2. CASE o \notin os
    BY <1>1, <2>2
  <2> QED BY <2>1, <2>2
<1>4. \A o \in DOMAIN w.outs : t[o] = row(o)
  OBVIOUS
<1> HIDE DEF row, x
<1>5. t \in [DOMAIN w.outs -> OutRow] /\ DOMAIN t = DOMAIN w.outs
  BY <1>3
<1> HIDE DEF t
<1>6. t \in Tables(OutIds, OutRow)
  BY <1>1, <1>5 DEF Tables
<1>7. x \in Ledgers
  BY <1>1, <1>2, <1>6 DEF Ledgers
<1>8. ASSUME NEW o \in DOMAIN w.outs
      PROVE  /\ o \in DOMAIN x.outs /\ Untouched(w, x, o) /\ Unmet(x, o) = Unmet(w, o)
             /\ x.outs[o].review = IF o \in os THEN FALSE ELSE w.outs[o].review
             /\ x.outs[o].approved = IF o \in os THEN Unmet(w, o) ELSE w.outs[o].approved
  <2>1. x.outs[o] = row(o) /\ o \in DOMAIN x.outs
    BY <1>2, <1>4, <1>5
  <2>2. Untouched(w, x, o)
    BY <1>2, <1>3, <2>1 DEF Untouched
  <2> QED BY <1>3, <2>1, <2>2, UntouchedUnmet
<1>9. Kept(w, x)
  <2>1. ASSUME NEW o \in OutIds, NEW i \in LotIds, x.alloc[o][i] > 0 PROVE Joinable(x, o, i)
    <3>1. Joinable(w, o, i)
      BY <1>1, <1>2, <2>1 DEF Sound
    <3> QED BY <1>2, <1>8, <3>1 DEF Joinable, Untouched
  <2>2. \A o \in DOMAIN x.outs : o \in DOMAIN w.outs /\ x.outs[o].qty = w.outs[o].qty
    BY <1>2, <1>5, <1>8 DEF Untouched
  <2> QED BY <1>1, <1>2, <1>7, <2>1, <2>2 DEF Kept, Sound
<1>10. Sound(x)
  BY <1>1, <1>9, KeptSound
<1>11. ASSUME NEW o \in DOMAIN w.outs PROVE NotIdle(x, o)
  <2>1. NotIdle(w, o)
    BY OrderFacts
  <2>2. \A i \in DOMAIN x.lots : /\ i \in DOMAIN w.lots /\ x.lots[i] = w.lots[i]
                                 /\ \A p \in OutIds : x.alloc[p][i] = w.alloc[p][i]
    BY <1>2
  <2> HIDE DEF w
  <2> QED BY <1>2, <1>8, <2>1, <2>2, UntouchedNotIdle
<1>12. ASSUME NEW o \in DOMAIN w.outs, x.outs[o].review
       PROVE  x.outs[o].date >= x.start /\ Unmet(x, o) > 0
  BY <1>2, <1>8, <1>12, OrderFacts DEF Untouched
<1>13. ASSUME NEW o \in DOMAIN w.outs, Unmet(x, o) > Unasked(o), ~x.outs[o].review
       PROVE  w.outs[o].review /\ x.outs[o].approved = Unmet(x, o)
  <2>1. Unmet(w, o) \in Int /\ Unmet(x, o) = Unmet(w, o)
    BY <1>8, OrderFacts
  <2>2. w.outs[o].review
    BY <1>13, <2>1 DEF Unasked
  <2> QED BY <1>8, <1>13, <2>1, <2>2
<1>14. DOMAIN x.outs = DOMAIN w.outs
  BY <1>2, <1>5
<1>15. AtRest(x) /\ ShortageAsked
  BY <1>10, <1>11, <1>12, <1>13, <1>14 DEF AtRest, ShortageAsked, x
<1>16. SameRows(w, x)
  BY <1>2, <1>8, <1>14 DEF SameRows, KeepsRows, SameEntry, Untouched
<1>17. ServesInOrder(w, x)
  BY <1>2, <1>7, NoGainServes
<1> QED BY <1>15, <1>16, <1>17 DEF x

-----------------------------------------------------------------------------
(* The FIFO start *)

LEMMA SetFifoStartInOrder ==
    ASSUME InOrder(ledger), NEW start \in Starts, SetFifoStart(start)
    PROVE  /\ InOrder(ledger') /\ ServesInOrder(ledger, ledger')
           /\ KeepsRows(ledger.lots, ledger'.lots) /\ KeepsRows(ledger.outs, ledger'.outs)
<1> DEFINE w == ledger
           written == [ledger EXCEPT !.start = start]
           affected == {o \in DOMAIN w.outs : /\ w.outs[o].date >= start
                                              /\ \E i \in LotIds : Crosses(written, o, i)}
           x == CrossingReleased(written)
           a == [o \in OutIds |-> [i \in LotIds |->
                    IF Crosses(written, o, i) THEN 0 ELSE w.alloc[o][i]]]
<1>1. ledger' = Flagged(Reconciled(ReviewsClearedBefore(x, start, OutIds), Products), affected)
  BY DEF SetFifoStart
<1>2. /\ w \in Ledgers /\ Sound(w) /\ DOMAIN w.outs \subseteq OutIds /\ w.start \in Int
      /\ w.alloc \in [OutIds -> [LotIds -> Nat]]
  BY OrderFacts, LedgerRows
<1>3. /\ written = [lots |-> w.lots, outs |-> w.outs, alloc |-> w.alloc, start |-> start]
      /\ written.lots = w.lots /\ written.outs = w.outs /\ written.alloc = w.alloc
      /\ written.start = start
  BY <1>2 DEF Ledgers
<1>4. /\ x = [lots |-> w.lots, outs |-> w.outs, alloc |-> a, start |-> start]
      /\ x.lots = w.lots /\ x.outs = w.outs /\ x.alloc = a /\ x.start = start
  <2> HIDE DEF written
  <2> QED BY <1>3 DEF CrossingReleased
<1>5. \A o \in OutIds, i \in LotIds : Crosses(written, o, i) <=>
         w.alloc[o][i] > 0 /\ (w.lots[i].date < start) # (w.outs[o].date < start)
  <2> HIDE DEF written
  <2> QED BY <1>3 DEF Crosses
<1> HIDE DEF written
<1>6. /\ a \in [OutIds -> [LotIds -> Nat]]
      /\ \A o \in OutIds, i \in LotIds :
            a[o][i] = IF Crosses(written, o, i) THEN 0 ELSE w.alloc[o][i]
  BY <1>2
<1> HIDE DEF a
<1>7. x \in Ledgers
  BY <1>2, <1>4, <1>6 DEF Ledgers
<1> HIDE DEF x
<1>8. Kept(w, x)
  <2>1. ASSUME NEW o \in OutIds, NEW i \in LotIds, x.alloc[o][i] > 0 PROVE Joinable(x, o, i)
    <3>1. ~Crosses(written, o, i) /\ w.alloc[o][i] > 0
      BY <1>4, <1>6, <2>1
    <3>2. Joinable(w, o, i)
      BY <1>2, <3>1 DEF Sound
    <3>3. w.lots[i].date \in Int /\ w.outs[o].date \in Int /\ start \in Int
      BY <1>2, <3>2, LedgerRows, EnteredValues DEF Joinable
    <3>4. (w.lots[i].date < start) = (w.outs[o].date < start)
      BY <1>5, <3>1
    <3>5. (w.outs[o].date >= start) = (w.lots[i].date >= start)
      <4>1. /\ w.lots[i].date < start <=> ~(w.lots[i].date >= start)
            /\ w.outs[o].date < start <=> ~(w.outs[o].date >= start)
        BY <3>3
      <4> QED BY <3>4, <4>1
    <3> QED BY <1>4, <3>2, <3>5 DEF Joinable
  <2>2. \A o \in OutIds, i \in LotIds : x.alloc[o][i] = 0 \/ x.alloc[o][i] = w.alloc[o][i]
    BY <1>4, <1>6
  <2> QED BY <1>2, <1>4, <1>7, <2>1, <2>2 DEF Kept, Sound
<1>9. Sound(x)
  BY <1>2, <1>8, KeptSound
<1>10. ASSUME NEW o \in DOMAIN w.outs, o \notin affected, w.outs[o].date >= start
       PROVE  Unmet(x, o) = Unmet(w, o)
  <2>1. o \in OutIds /\ \A i \in LotIds : ~Crosses(written, o, i)
    BY <1>2, <1>10
  <2>2. \A i \in LotIds : x.alloc[o][i] = w.alloc[o][i]
    BY <1>4, <1>6, <2>1
  <2>3. x.alloc[o] \in [LotIds -> Nat] /\ w.alloc[o] \in [LotIds -> Nat]
    BY <1>2, <1>4, <1>6, <2>1
  <2>4. x.alloc[o] = w.alloc[o]
    BY <2>2, <2>3
  <2> QED BY <1>4, <2>4 DEF Unmet, Allocated
<1> HIDE DEF affected
<1>11. Pending(x, Products, affected, OutIds)
  <2>1. \A o \in DOMAIN x.outs : x.outs[o].product \in Products /\ o \in OutIds
    BY <1>2, <1>4, LedgerRows
  <2>2. ASSUME NEW o \in DOMAIN x.outs \ affected,
               x.outs[o].date >= x.start, Unmet(x, o) > Waived(o)
        PROVE  x.outs[o].review
    <3>1. o \in DOMAIN w.outs /\ Unmet(w, o) > Waived(o) /\ Unmet(w, o) \in Int
      BY <1>4, <1>10, <2>2, OrderFacts
    <3> QED BY <1>4, <3>1, WaivedIs
  <2> QED BY <1>9, <2>1, <2>2 DEF Pending
<1> DEFINE y == ReviewsClearedBefore(x, start, OutIds)
<1>12. Pending(y, Products, affected, {}) /\ SameRows(x, y) /\ y.alloc = x.alloc
  BY <1>4, <1>11, ClearedIsDone DEF ReviewsClearedBefore, WithReview
<1> HIDE DEF y
<1>13. Done(y, ledger', {})
  BY <1>1, <1>12, MatchedIsDone DEF y
<1>14. KeepsRows(w.lots, ledger'.lots) /\ KeepsRows(w.outs, ledger'.outs)
  BY <1>4, <1>12, <1>13 DEF Done, SameRows, KeepsRows, SameEntry
<1>15. ServesInOrder(w, ledger')
  BY <1>2, <1>4, <1>6, <1>12, <1>13, DoneServes DEF Releases
<1> QED BY <1>13, <1>14, <1>15 DEF InOrder, Done

-----------------------------------------------------------------------------
(* Months that are closed *)

\* The rows of closed months are the same in t and v.
ClosedRows(t, v) ==
    /\ \A i \in DOMAIN t : Frozen(t[i].date) => i \in DOMAIN v /\ SameEntry(v[i], t[i])
    /\ \A i \in DOMAIN v : Frozen(v[i].date) => i \in DOMAIN t /\ t[i].date = v[i].date

LEMMA KeptRowsAreClosed == \A t, v : KeepsRows(t, v) => ClosedRows(t, v)
BY DEF KeepsRows, ClosedRows, SameEntry

LEMMA AddedRowsAreClosed ==
    \A t, v, rows : AddsRows(t, v, rows) /\ (\A k \in DOMAIN rows : Unlocked(rows[k].date))
                       => ClosedRows(t, v)
BY DEF AddsRows, ClosedRows, SameEntry, Unlocked, Frozen

LEMMA ChangedRowIsClosed ==
    \A t, v, r : \A i \in DOMAIN t :
       ChangesRow(t, v, i, r) /\ Unlocked(t[i].date) /\ Unlocked(r.date) => ClosedRows(t, v)
BY DEF ChangesRow, ClosedRows, SameEntry, Unlocked, Frozen

LEMMA DroppedRowsAreClosed ==
    \A t, v, D : DropsRows(t, v, D) /\ (\A i \in D \cap DOMAIN t : Unlocked(t[i].date))
                    => ClosedRows(t, v)
BY DEF DropsRows, ClosedRows, SameEntry, Unlocked, Frozen

-----------------------------------------------------------------------------
(* Empties in circulation *)

Of(t, p) == {i \in DOMAIN t : t[i].product = p}
Qty(t)   == [i \in DOMAIN t |-> t[i].qty]

Counted(t) == IsFiniteSet(DOMAIN t) /\ \A i \in DOMAIN t : t[i].qty \in Nat

LEMMA TotalIs ==
    ASSUME NEW t, Counted(t), NEW p
    PROVE  /\ Integral(Qty(t), Of(t, p)) /\ Total(t, p) = Sum(Qty(t), Of(t, p))
           /\ Total(t, p) \in Nat
<1>1. IsFiniteSet(Of(t, p)) /\ \A i \in Of(t, p) : Qty(t)[i] \in Nat
  BY FS_Subset DEF Counted, Of, Qty
<1>2. Sum(Qty(t), Of(t, p)) \in Nat
  BY <1>1, SumNat
<1>3. Total(t, p) = Sum(Qty(t), Of(t, p))
  BY DEF Total, Sum, Qty, Of
<1> QED BY <1>1, <1>2, <1>3 DEF Integral

LEMMA TotalOfPart ==
    ASSUME NEW t, Counted(t), NEW v, Counted(v), NEW p,
           \A i \in DOMAIN v : v[i].product = p => i \in DOMAIN t /\ SameEntry(v[i], t[i])
    PROVE  Total(v, p) <= Total(t, p)
<1> DEFINE T == Of(t, p)
           V == Of(v, p)
<1>1. /\ Integral(Qty(t), T) /\ Total(t, p) = Sum(Qty(t), T)
      /\ Integral(Qty(v), V) /\ Total(v, p) = Sum(Qty(v), V) /\ Total(v, p) \in Nat
  BY TotalIs
<1>2. V \subseteq T /\ \A i \in V : Qty(v)[i] = Qty(t)[i]
  BY DEF Of, Qty, SameEntry
<1>3. \A i \in T : Qty(t)[i] \in Nat
  BY DEF Of, Qty, Counted
<1> HIDE DEF T, V
<1>4. Integral(Qty(t), V) /\ IsFiniteSet(T \ V) /\ Integral(Qty(t), T \ V)
  BY <1>1, <1>2, FS_Subset DEF Integral
<1>5. Sum(Qty(v), V) = Sum(Qty(t), V)
  BY <1>1, <1>2, SumSame
<1>6. Sum(Qty(t), T \ V) \in Nat
  BY <1>3, <1>4, SumNat
<1>7. Sum(Qty(t), V \cup (T \ V)) = Sum(Qty(t), V) + Sum(Qty(t), T \ V)
  <2> DEFINE R == T \ V
  <2>1. V \cap R = {} /\ Integral(Qty(t), R)
    BY <1>4
  <2> HIDE DEF R
  <2>2. Sum(Qty(t), V \cup R) = Sum(Qty(t), V) + Sum(Qty(t), R)
    BY <1>4, <2>1, SumUnion
  <2> QED BY <2>2 DEF R
<1>8. V \cup (T \ V) = T
  BY <1>2
<1> DEFINE rest == Sum(Qty(t), T \ V)
<1>9. Total(t, p) = Total(v, p) + rest
  BY <1>1, <1>5, <1>7, <1>8
<1>10. rest \in Nat /\ Total(v, p) \in Nat
  BY <1>1, <1>6
<1> HIDE DEF rest
<1> QED BY <1>9, <1>10

LEMMA TotalOfKept ==
    ASSUME NEW t, Counted(t), NEW v, Counted(v), NEW p, KeepsRows(t, v)
    PROVE  Total(v, p) = Total(t, p)
<1>1. \A i \in DOMAIN v : v[i].product = p => i \in DOMAIN t /\ SameEntry(v[i], t[i])
  BY DEF KeepsRows
<1>2. \A i \in DOMAIN t : t[i].product = p => i \in DOMAIN v /\ SameEntry(t[i], v[i])
  BY DEF KeepsRows, SameEntry
<1>3. Total(v, p) <= Total(t, p) /\ Total(t, p) <= Total(v, p)
  BY <1>1, <1>2, TotalOfPart
<1>4. Total(v, p) \in Nat /\ Total(t, p) \in Nat
  BY TotalIs
<1> QED BY <1>3, <1>4

LEMMA TotalOfAdded ==
    ASSUME NEW t, Counted(t), NEW v, Counted(v), NEW p, DOMAIN t \subseteq Nat,
           NEW R, NEW rows \in Lines(R), Counted(rows), AddsRows(t, v, rows)
    PROVE  Total(v, p) = Total(t, p) + Total(rows, p)
<1> DEFINE L == LastId(t)
           T == Of(t, p)
           K == Of(rows, p)
           N == {i \in NewIds(t, rows) : v[i].product = p}
           h == [k \in K |-> k + L]
<1>1. /\ L \in Nat /\ NewIds(t, rows) \cap DOMAIN t = {}
      /\ \A i : i \in NewIds(t, rows) <=> i \in Int /\ i - L \in 1..Len(rows)
  BY NewIdsAreNew DEF Counted
<1>2. Len(rows) \in Nat /\ DOMAIN rows = 1..Len(rows)
  BY LinesAre
<1>3. /\ Integral(Qty(t), T) /\ Total(t, p) = Sum(Qty(t), T)
      /\ Integral(Qty(rows), K) /\ Total(rows, p) = Sum(Qty(rows), K)
      /\ Integral(Qty(v), Of(v, p)) /\ Total(v, p) = Sum(Qty(v), Of(v, p))
  BY TotalIs
<1>4. Of(v, p) = T \cup N /\ T \cap N = {} /\ \A i \in T : Qty(v)[i] = Qty(t)[i]
  BY <1>1 DEF Of, Qty, AddsRows, SameEntry
<1>5. /\ h \in [K -> N] /\ \A k, j \in K : h[k] = h[j] => k = j
      /\ \A k \in K : Qty(v)[h[k]] = Qty(rows)[k]
  <2>1. ASSUME NEW k \in K
        PROVE  /\ k + L \in NewIds(t, rows) /\ k + L \in N /\ k \in Nat
               /\ Qty(v)[k + L] = Qty(rows)[k]
    <3>1. k \in 1..Len(rows) /\ k \in DOMAIN rows /\ rows[k].product = p
      BY <1>2 DEF Of
    <3>2. k + L \in Int /\ (k + L) - L = k
      BY <1>1, <1>2, <3>1
    <3>3. k + L \in NewIds(t, rows)
      BY <1>1, <3>1, <3>2
    <3>4. SameEntry(v[k + L], rows[k]) /\ k + L \in DOMAIN v
      BY <3>2, <3>3 DEF AddsRows
    <3> QED BY <1>2, <3>1, <3>3, <3>4 DEF SameEntry, Qty
  <2>2. \A k \in K : h[k] = k + L
    OBVIOUS
  <2>3. \A k, j \in K : k + L = j + L => k = j
    BY <1>1, <2>1
  <2> HIDE DEF L, K, N
  <2> QED BY <2>1, <2>2, <2>3
<1>6. N = {h[k] : k \in K}
  <2>1. ASSUME NEW i \in N PROVE i - L \in K /\ i = h[i - L]
    <3>1. /\ i \in Int /\ i - L \in DOMAIN rows /\ SameEntry(v[i], rows[i - L]) /\ v[i].product = p
      BY <1>1, <1>2 DEF AddsRows
    <3>2. i - L \in K
      BY <3>1 DEF Of, SameEntry
    <3>3. (i - L) + L = i
      BY <1>1, <3>1
    <3> QED BY <3>2, <3>3
  <2> HIDE DEF h, N, K
  <2> QED BY <1>5, <2>1
<1> HIDE DEF h, N, K, T
<1>7. Sum(Qty(v), N) = Sum(Qty(rows), K)
  BY <1>3, <1>5, <1>6, SumRenamed
<1>8. Integral(Qty(v), T) /\ Integral(Qty(v), N)
  BY <1>3, <1>4, FS_Subset DEF Integral
<1>9. Sum(Qty(v), T \cup N) = Sum(Qty(v), T) + Sum(Qty(v), N)
  BY <1>4, <1>8, SumUnion
<1>10. Sum(Qty(v), T) = Sum(Qty(t), T)
  BY <1>4, <1>8, SumSame
<1> QED BY <1>3, <1>4, <1>7, <1>9, <1>10

DepositKept == \A p \in Returnable : Deposit(ledger, p) >= 0 => Deposit(ledger', p) >= 0

LEMMA TablesAreCounted ==
    /\ \A w \in Ledgers : Counted(w.lots)
    /\ \A t \in Tables(ReturnIds, ReturnRow) : Counted(t) /\ DOMAIN t \subseteq Nat
    /\ \A rows \in Lines(ReturnRow) : Counted(rows) /\ \A k \in DOMAIN rows : rows[k] \in ReturnRow
<1>1. IsFiniteSet(ReturnIds)
  BY LedgerAssumption, FS_Interval DEF ReturnIds
<1>2. \A r \in ReturnRow : r.qty \in Nat
  BY EnteredValues DEF ReturnRow
<1>3. ASSUME NEW w \in Ledgers PROVE Counted(w.lots)
  <2>1. DOMAIN w.lots \subseteq LotIds /\ \A i \in DOMAIN w.lots : w.lots[i].qty \in Nat
    BY LedgerRows
  <2>2. IsFiniteSet(DOMAIN w.lots)
    BY <2>1, IdsFinite, FS_Subset
  <2> QED BY <2>1, <2>2 DEF Counted
<1>4. ASSUME NEW t \in Tables(ReturnIds, ReturnRow)
      PROVE  Counted(t) /\ DOMAIN t \subseteq Nat
  <2>1. DOMAIN t \subseteq ReturnIds /\ t \in [DOMAIN t -> ReturnRow]
    BY DEF Tables
  <2>2. IsFiniteSet(DOMAIN t)
    BY <1>1, <2>1, FS_Subset
  <2> QED BY <1>2, <2>1, <2>2, IdsNatural DEF Counted
<1>5. ASSUME NEW rows \in Lines(ReturnRow)
      PROVE  Counted(rows) /\ \A k \in DOMAIN rows : rows[k] \in ReturnRow
  <2>1. Len(rows) \in Nat /\ DOMAIN rows = 1..Len(rows) /\ \A k \in 1..Len(rows) : rows[k] \in ReturnRow
    BY LinesAre
  <2>2. IsFiniteSet(1..Len(rows))
    <3> DEFINE n == Len(rows)
    <3>1. n \in Int /\ 1 \in Int
      BY <2>1
    <3> HIDE DEF n
    <3>2. IsFiniteSet(1..n)
      BY <3>1, FS_Interval
    <3> QED BY <3>2 DEF n
  <2> QED BY <1>2, <2>1, <2>2 DEF Counted
<1> QED BY <1>3, <1>4, <1>5

LEMMA DepositsAreIntegers ==
    ASSUME NEW w \in Ledgers, Counted(returns), NEW p
    PROVE  Deposit(w, p) \in Int
<1>1. Total(w.lots, p) \in Nat /\ Total(returns, p) \in Nat
  BY TablesAreCounted, TotalIs
<1> QED BY <1>1 DEF Deposit

LEMMA KeptLotsKeepDeposits ==
    ASSUME ledger \in Ledgers, ledger' \in Ledgers, KeepsRows(ledger.lots, ledger'.lots)
    PROVE  DepositKept
<1>1. ASSUME NEW p PROVE Total(ledger'.lots, p) = Total(ledger.lots, p)
  <2> DEFINE t == ledger.lots
             v == ledger'.lots
  <2>1. Counted(t) /\ Counted(v) /\ KeepsRows(t, v)
    BY TablesAreCounted
  <2> HIDE DEF t, v
  <2>2. Total(v, p) = Total(t, p)
    BY <2>1, TotalOfKept
  <2> QED BY <2>2 DEF t, v
<1> QED BY <1>1 DEF DepositKept, Deposit

LEMMA AddedLotsKeepDeposits ==
    ASSUME ledger \in Ledgers, ledger' \in Ledgers, Counted(returns),
           NEW rows, AddsRows(ledger.lots, ledger'.lots, rows)
    PROVE  DepositKept
<1>1. ASSUME NEW p PROVE Total(ledger.lots, p) <= Total(ledger'.lots, p)
  <2> DEFINE t == ledger.lots
             v == ledger'.lots
  <2>1. Counted(t) /\ Counted(v)
    BY TablesAreCounted
  <2>2. \A i \in DOMAIN t : i \in DOMAIN v /\ SameEntry(t[i], v[i])
    BY DEF AddsRows, SameEntry
  <2> HIDE DEF t, v
  <2>3. Total(t, p) <= Total(v, p)
    BY <2>1, <2>2, TotalOfPart
  <2> QED BY <2>3 DEF t, v
<1>2. ASSUME NEW p, Deposit(ledger, p) >= 0 PROVE Deposit(ledger', p) >= 0
  <2>1. /\ Total(ledger.lots, p) \in Nat /\ Total(ledger'.lots, p) \in Nat
        /\ Total(returns, p) \in Nat
    BY TablesAreCounted, TotalIs
  <2> QED BY <1>1, <1>2, <2>1 DEF Deposit
<1> QED BY <1>2 DEF DepositKept

\* A change of deliveries that the guard looked at.
LEMMA GuardedLotsKeepDeposits ==
    ASSUME ledger \in Ledgers, ledger' \in Ledgers, Counted(returns),
           NEW ps, DepositNotWorse(ledger', ps),
           \A p : p \notin ps =>
              /\ \A i \in DOMAIN ledger.lots : ledger.lots[i].product = p =>
                    i \in DOMAIN ledger'.lots /\ SameEntry(ledger.lots[i], ledger'.lots[i])
              /\ \A i \in DOMAIN ledger'.lots : ledger'.lots[i].product = p =>
                    i \in DOMAIN ledger.lots /\ SameEntry(ledger'.lots[i], ledger.lots[i])
    PROVE  DepositKept
<1>1. ASSUME NEW p \in Returnable, p \notin ps
      PROVE  Deposit(ledger', p) = Deposit(ledger, p)
  <2> DEFINE t == ledger.lots
             v == ledger'.lots
  <2>1. Counted(t) /\ Counted(v)
    BY TablesAreCounted
  <2>2. \A i \in DOMAIN t : t[i].product = p => i \in DOMAIN v /\ SameEntry(t[i], v[i])
    BY <1>1
  <2>3. \A i \in DOMAIN v : v[i].product = p => i \in DOMAIN t /\ SameEntry(v[i], t[i])
    BY <1>1
  <2> HIDE DEF t, v
  <2>4. Total(t, p) <= Total(v, p) /\ Total(v, p) <= Total(t, p)
    BY <2>1, <2>2, <2>3, TotalOfPart
  <2>5. Total(t, p) = Total(v, p)
    BY <2>1, <2>4, TotalIs
  <2> QED BY <2>5 DEF Deposit, t, v
<1>2. ASSUME NEW p \in Returnable, p \in ps, Deposit(ledger, p) >= 0
      PROVE  Deposit(ledger', p) >= 0
  <2>1. Deposit(ledger, p) \in Int /\ Deposit(ledger', p) \in Int
    BY DepositsAreIntegers
  <2>2. Deposit(ledger', p) < 0 => Deposit(ledger', p) >= Deposit(ledger, p)
    BY <1>2 DEF DepositNotWorse
  <2> QED BY <1>2, <2>1, <2>2
<1> QED BY <1>1, <1>2 DEF DepositKept

-----------------------------------------------------------------------------
(* Every step *)

CutShort == \E rows \in Lines(EnteredOuts) : DistributeCut(rows)

LedgerStep ==
    /\ AtRest(ledger')
    /\ ShortageAsked \/ CutShort
    /\ ClosedRows(ledger.lots, ledger'.lots) /\ ClosedRows(ledger.outs, ledger'.outs)
    /\ DepositKept
    /\ ServesInOrder(ledger, ledger')

LEMMA OutsStep ==
    ASSUME AtRest(ledger), AtRest(ledger'), ShortageAsked \/ CutShort,
           KeepsRows(ledger.lots, ledger'.lots), ClosedRows(ledger.outs, ledger'.outs),
           ServesInOrder(ledger, ledger')
    PROVE  LedgerStep
<1>1. ledger \in Ledgers /\ ledger' \in Ledgers
  BY RestFacts
<1>2. DepositKept
  BY <1>1, KeptLotsKeepDeposits
<1>3. ClosedRows(ledger.lots, ledger'.lots)
  BY KeptRowsAreClosed
<1> QED BY <1>2, <1>3 DEF LedgerStep

LEMMA ChangeLotsStep ==
    ASSUME AtRest(ledger), Counted(returns), ChangeLots
    PROVE  LedgerStep
<1>0. ledger \in Ledgers /\ InOrder(ledger)
  BY RestFacts, RestIsInOrder
<1>1. ASSUME NEW rows \in Lines(EnteredLots), Receive(rows) PROVE LedgerStep
  <2>1. /\ InOrder(ledger') /\ ServesInOrder(ledger, ledger')
        /\ AddsRows(ledger.lots, ledger'.lots, rows) /\ KeepsRows(ledger.outs, ledger'.outs)
    BY <1>0, <1>1, ReceiveInOrder
  <2>2. ledger' \in Ledgers
    BY <2>1, OrderFacts
  <2>3. \A k \in DOMAIN rows : Unlocked(rows[k].date)
    BY <1>1 DEF Receive
  <2>4. ClosedRows(ledger.lots, ledger'.lots) /\ ClosedRows(ledger.outs, ledger'.outs)
    BY <2>1, <2>3, AddedRowsAreClosed, KeptRowsAreClosed
  <2>5. DepositKept
    BY <1>0, <2>1, <2>2, AddedLotsKeepDeposits
  <2> QED BY <2>1, <2>4, <2>5, InOrderAsks DEF LedgerStep
<1>2. ASSUME NEW i \in DOMAIN ledger.lots, NEW r \in EnteredLots, UpdateIntake(i, r)
      PROVE  LedgerStep
  <2> DEFINE ps == {ledger.lots[i].product, r.product}
  <2>1. /\ InOrder(ledger') /\ ServesInOrder(ledger, ledger')
        /\ ChangesRow(ledger.lots, ledger'.lots, i, r) /\ KeepsRows(ledger.outs, ledger'.outs)
        /\ DepositNotWorse(ledger', ps)
    BY <1>0, <1>2, UpdateIntakeInOrder
  <2>2. ledger' \in Ledgers
    BY <2>1, OrderFacts
  <2>3. Unlocked(ledger.lots[i].date) /\ Unlocked(r.date)
    BY <1>2 DEF UpdateIntake
  <2>4. ClosedRows(ledger.lots, ledger'.lots) /\ ClosedRows(ledger.outs, ledger'.outs)
    BY <2>1, <2>3, ChangedRowIsClosed, KeptRowsAreClosed
  <2>5. ASSUME NEW p, p \notin ps
        PROVE /\ \A j \in DOMAIN ledger.lots : ledger.lots[j].product = p =>
                    j \in DOMAIN ledger'.lots /\ SameEntry(ledger.lots[j], ledger'.lots[j])
              /\ \A j \in DOMAIN ledger'.lots : ledger'.lots[j].product = p =>
                    j \in DOMAIN ledger.lots /\ SameEntry(ledger'.lots[j], ledger.lots[j])
    BY <2>1, <2>5 DEF ChangesRow, SameEntry
  <2> HIDE DEF ps
  <2>6. DepositKept
    BY <1>0, <2>1, <2>2, <2>5, GuardedLotsKeepDeposits
  <2> QED BY <2>1, <2>4, <2>6, InOrderAsks DEF LedgerStep
<1>3. ASSUME NEW i \in DOMAIN ledger.lots, NEW force \in BOOLEAN, DeleteIntake(i, force)
      PROVE  LedgerStep
  <2> DEFINE ps == {ledger.lots[i].product}
  <2>1. /\ InOrder(ledger') /\ ServesInOrder(ledger, ledger')
        /\ DropsRows(ledger.lots, ledger'.lots, {i}) /\ KeepsRows(ledger.outs, ledger'.outs)
        /\ DepositNotWorse(ledger', ps)
    BY <1>0, <1>3, DeleteIntakeInOrder
  <2>2. ledger' \in Ledgers
    BY <2>1, OrderFacts
  <2>3. Unlocked(ledger.lots[i].date)
    BY <1>3 DEF DeleteIntake
  <2>4. ClosedRows(ledger.lots, ledger'.lots) /\ ClosedRows(ledger.outs, ledger'.outs)
    BY <2>1, <2>3, DroppedRowsAreClosed, KeptRowsAreClosed
  <2>5. ASSUME NEW p, p \notin ps
        PROVE /\ \A j \in DOMAIN ledger.lots : ledger.lots[j].product = p =>
                    j \in DOMAIN ledger'.lots /\ SameEntry(ledger.lots[j], ledger'.lots[j])
              /\ \A j \in DOMAIN ledger'.lots : ledger'.lots[j].product = p =>
                    j \in DOMAIN ledger.lots /\ SameEntry(ledger'.lots[j], ledger.lots[j])
    BY <2>1, <2>5 DEF DropsRows, SameEntry
  <2> HIDE DEF ps
  <2>6. DepositKept
    BY <1>0, <2>1, <2>2, <2>5, GuardedLotsKeepDeposits
  <2> QED BY <2>1, <2>4, <2>6, InOrderAsks DEF LedgerStep
<1>4. ASSUME NEW i \in DOMAIN ledger.lots, NEW e \in Expiries, NEW s \in Statuses,
             UpdateIntakeLot(i, e, s)
      PROVE  LedgerStep
  BY <1>0, <1>4, UpdateIntakeLotInOrder, InOrderAsks, KeptRowsAreClosed, OutsStep
<1> QED BY <1>1, <1>2, <1>3, <1>4 DEF ChangeLots

LEMMA ChangeOutsStep ==
    ASSUME AtRest(ledger), ChangeOuts
    PROVE  LedgerStep
<1>0. InOrder(ledger)
  BY RestIsInOrder
<1>1. ASSUME NEW rows \in Lines(EnteredOuts), Distribute(rows) PROVE LedgerStep
  <2>1. \A k \in DOMAIN rows : Unlocked(rows[k].date)
    BY <1>1 DEF Distribute, MayDistribute
  <2> QED BY <1>0, <1>1, <2>1, DistributeInOrder, InOrderAsks, AddedRowsAreClosed, OutsStep
<1>6. ASSUME NEW rows \in Lines(EnteredOuts), DistributeCut(rows) PROVE LedgerStep
  <2>1. (\A k \in DOMAIN rows : Unlocked(rows[k].date)) /\ CutShort
    BY <1>6 DEF DistributeCut, MayDistribute, CutShort
  <2> QED BY <1>0, <1>6, <2>1, DistributeCutAtRest, AddedRowsAreClosed, OutsStep
<1>2. ASSUME NEW o \in DOMAIN ledger.outs, NEW r \in EnteredOuts, UpdateDistribution(o, r)
      PROVE  LedgerStep
  <2>1. Unlocked(ledger.outs[o].date) /\ Unlocked(r.date)
    BY <1>2 DEF UpdateDistribution
  <2> QED BY <1>0, <1>2, <2>1, UpdateDistributionInOrder, InOrderAsks, ChangedRowIsClosed, OutsStep
<1>3. ASSUME NEW o \in DOMAIN ledger.outs, DeleteDistribution(o) PROVE LedgerStep
  <2>1. Unlocked(ledger.outs[o].date)
    BY <1>3 DEF DeleteDistribution
  <2>2. OutsRemoved(ledger', {o})
    BY <1>0, <1>3, DeleteDistributionInOrder
  <2> QED BY <2>1, <2>2, InOrderAsks, DroppedRowsAreClosed, OutsStep
            DEF OutsRemoved
<1>4. ASSUME NEW from \in Dates, NEW to \in Dates, ClearDistributions(from, to) PROVE LedgerStep
  <2> DEFINE os == {o \in DOMAIN ledger.outs : ledger.outs[o].date \in from..to}
  <2>1. \A o \in os : Unlocked(ledger.outs[o].date)
    BY <1>4 DEF ClearDistributions
  <2>2. OutsRemoved(ledger', os)
    BY <1>0, <1>4, ClearDistributionsInOrder
  <2> HIDE DEF os
  <2> QED BY <2>1, <2>2, InOrderAsks, DroppedRowsAreClosed, OutsStep
            DEF OutsRemoved
<1>5. ASSUME NEW os \in SUBSET DOMAIN ledger.outs, ApproveReviews(os) PROVE LedgerStep
  <2>1. /\ AtRest(ledger') /\ ShortageAsked
        /\ SameRows(ledger, ledger') /\ ServesInOrder(ledger, ledger')
    BY <1>0, <1>5, ApproveReviewsAsks
  <2>2. KeepsRows(ledger.lots, ledger'.lots) /\ KeepsRows(ledger.outs, ledger'.outs)
    BY <2>1 DEF SameRows, KeepsRows, SameEntry
  <2> QED BY <2>1, <2>2, KeptRowsAreClosed, OutsStep
<1> QED BY <1>1, <1>2, <1>3, <1>4, <1>5, <1>6 DEF ChangeOuts

LEMMA SetFifoStartStep ==
    ASSUME AtRest(ledger), NEW start \in Starts, SetFifoStart(start)
    PROVE  LedgerStep
BY RestIsInOrder, SetFifoStartInOrder, InOrderAsks, KeptRowsAreClosed, OutsStep

-----------------------------------------------------------------------------
(* The invariant *)

Inv == /\ AtRest(ledger)
       /\ returns \in Tables(ReturnIds, ReturnRow)
       /\ locked \subseteq Months

LEMMA InitIsInOrder == Init => Inv /\ DepositNotNegative
<1> SUFFICES ASSUME Init PROVE Inv /\ DepositNotNegative
  OBVIOUS
<1>1. /\ ledger.lots = << >> /\ ledger.outs = << >> /\ ledger.start = NoStart
      /\ ledger.alloc = [o \in OutIds |-> NothingFrom] /\ returns = << >> /\ locked = {}
      /\ ledger = [lots |-> ledger.lots, outs |-> ledger.outs, alloc |-> ledger.alloc,
                   start |-> ledger.start]
  BY DEF Init
<1>2. \A I, R : << >> \in Tables(I, R)
  <2>1. << >> = [x \in {} |-> x] /\ \A I : {} \in SUBSET I
    OBVIOUS
  <2>2. \A R : [x \in {} |-> x] \in [{} -> R]
    OBVIOUS
  <2> QED BY <2>1, <2>2 DEF Tables
<1>3. ledger.alloc \in [OutIds -> [LotIds -> Nat]]
      /\ \A o \in OutIds, i \in LotIds : ledger.alloc[o][i] = 0
  BY <1>1 DEF NothingFrom
<1>4. ledger \in Ledgers
  <2>1. ledger.lots \in Tables(LotIds, LotRow) /\ ledger.outs \in Tables(OutIds, OutRow)
    BY <1>1, <1>2
  <2> QED BY <1>1, <1>3, <2>1 DEF Ledgers
<1>5. DOMAIN ledger.lots = {} /\ DOMAIN ledger.outs = {} /\ DOMAIN returns = {}
  BY <1>1
<1>6. Sound(ledger)
  BY <1>3, <1>4, <1>5 DEF Sound, WithinAmounts
<1>7. AtRest(ledger)
  BY <1>5, <1>6 DEF AtRest
<1>8. Inv
  BY <1>1, <1>2, <1>7 DEF Inv
<1>9. ASSUME NEW p PROVE Total(ledger.lots, p) = 0 /\ Total(returns, p) = 0
  <2>1. Counted(ledger.lots) /\ Counted(returns)
    BY <1>4, <1>8, TablesAreCounted DEF Inv
  <2>2. Of(ledger.lots, p) = {} /\ Of(returns, p) = {}
    BY <1>5 DEF Of
  <2> QED BY <2>1, <2>2, TotalIs, SumEmpty
<1> QED BY <1>8, <1>9 DEF DepositNotNegative, Deposit

LEMMA ReturnRows ==
    ASSUME returns \in Tables(ReturnIds, ReturnRow), NEW rows \in Lines(ReturnRow), Return(rows)
    PROVE  /\ returns' \in Tables(ReturnIds, ReturnRow) /\ AddsRows(returns, returns', rows)
           /\ \A i \in DOMAIN returns : returns'[i] = returns[i]
<1>1. NewIds(returns, rows) \subseteq ReturnIds /\ returns' = Appended(returns, rows)
  BY DEF Return
<1>2. IsFiniteSet(ReturnIds)
  BY LedgerAssumption, FS_Interval DEF ReturnIds
<1>3. /\ returns' \in Tables(ReturnIds, ReturnRow)
      /\ DOMAIN returns' = DOMAIN returns \cup NewIds(returns, rows)
      /\ \A i \in DOMAIN returns : returns'[i] = returns[i]
      /\ \A i \in NewIds(returns, rows) :
            /\ i \notin DOMAIN returns /\ i - LastId(returns) \in DOMAIN rows
            /\ returns'[i] = rows[i - LastId(returns)]
  <2> DEFINE v == Appended(returns, rows)
  <2>1. ReturnIds \subseteq Nat /\ NewIds(returns, rows) \subseteq ReturnIds
    BY <1>1, IdsNatural
  <2>2. /\ v \in Tables(ReturnIds, ReturnRow)
        /\ DOMAIN v = DOMAIN returns \cup NewIds(returns, rows)
        /\ \A i \in DOMAIN returns : v[i] = returns[i]
        /\ \A i \in NewIds(returns, rows) :
              /\ i \notin DOMAIN returns /\ i - LastId(returns) \in DOMAIN rows
              /\ v[i] = rows[i - LastId(returns)]
    BY <1>2, <2>1, AppendedRows
  <2> HIDE DEF v
  <2>3. returns' = v
    BY <1>1 DEF v
  <2> QED BY <2>2, <2>3
<1> QED BY <1>3 DEF AddsRows, SameEntry

LEMMA DeleteReturnRows ==
    ASSUME returns \in Tables(ReturnIds, ReturnRow), NEW k, DeleteReturn(k)
    PROVE  /\ returns' \in Tables(ReturnIds, ReturnRow)
           /\ DOMAIN returns' = DOMAIN returns \ {k}
           /\ \A j \in DOMAIN returns' : returns'[j] = returns[j]
<1> DEFINE D == {k}
<1>1. returns' = Restrict(returns, DOMAIN returns \ D)
  BY DEF DeleteReturn
<1> HIDE DEF D
<1>2. returns' \in Tables(ReturnIds, ReturnRow) /\ IsWithout(returns', returns, D)
  BY <1>1, RestrictedRows
<1> QED BY <1>2 DEF IsWithout, D

\* What a step does: the invariant stays, and so do the closed months.
LEMMA NextKeepsInv ==
    ASSUME Inv, [Next]_vars
    PROVE  Inv' /\ (ClosedMonthUnchanged \/ UNCHANGED vars)
<1>0. AtRest(ledger) /\ returns \in Tables(ReturnIds, ReturnRow) /\ locked \subseteq Months
      /\ Counted(returns)
  BY TablesAreCounted DEF Inv
<1>1. ASSUME LedgerStep, UNCHANGED <<returns, locked>> PROVE Inv' /\ ClosedMonthUnchanged
  <2>1. Inv'
    BY <1>0, <1>1 DEF LedgerStep, Inv
  <2>2. ClosedMonthUnchanged
    BY <1>1 DEF LedgerStep, ClosedRows, SameEntry, ClosedMonthUnchanged
  <2> QED BY <2>1, <2>2
<1>2. CASE ChangeLots
  <2>1. UNCHANGED <<returns, locked>>
    BY <1>2 DEF ChangeLots, Receive, UpdateIntake, DeleteIntake, UpdateIntakeLot
  <2> QED BY <1>0, <1>1, <1>2, <2>1, ChangeLotsStep
<1>3. CASE ChangeOuts
  <2>1. UNCHANGED <<returns, locked>>
    BY <1>3 DEF ChangeOuts, Distribute, DistributeCut, UpdateDistribution, DeleteDistribution,
                ClearDistributions, ApproveReviews
  <2> QED BY <1>0, <1>1, <1>3, <2>1, ChangeOutsStep
<1>4. ASSUME NEW start \in Starts, SetFifoStart(start) PROVE Inv' /\ ClosedMonthUnchanged
  <2>1. UNCHANGED <<returns, locked>>
    BY <1>4 DEF SetFifoStart
  <2> QED BY <1>0, <1>1, <1>4, <2>1, SetFifoStartStep
<1>5. ASSUME NEW rows \in Lines(ReturnRow), Return(rows) PROVE Inv' /\ ClosedMonthUnchanged
  <2>1. UNCHANGED <<ledger, locked>> /\ \A k \in DOMAIN rows : Unlocked(rows[k].date)
    BY <1>5 DEF Return
  <2>2. /\ returns' \in Tables(ReturnIds, ReturnRow) /\ AddsRows(returns, returns', rows)
        /\ \A i \in DOMAIN returns : returns'[i] = returns[i]
    BY <1>0, <1>5, ReturnRows
  <2>3. ClosedRows(returns, returns')
    BY <2>1, <2>2, AddedRowsAreClosed
  <2>4. Inv'
    BY <1>0, <2>1, <2>2 DEF Inv
  <2>5. ClosedMonthUnchanged
    BY <2>1, <2>2, <2>3 DEF ClosedMonthUnchanged, ClosedRows
  <2> QED BY <2>4, <2>5
<1>6. ASSUME NEW k \in DOMAIN returns, DeleteReturn(k) PROVE Inv' /\ ClosedMonthUnchanged
  <2>1. UNCHANGED <<ledger, locked>> /\ Unlocked(returns[k].date)
    BY <1>6 DEF DeleteReturn
  <2>2. /\ returns' \in Tables(ReturnIds, ReturnRow) /\ DOMAIN returns' = DOMAIN returns \ {k}
        /\ \A j \in DOMAIN returns' : returns'[j] = returns[j]
    BY <1>0, <1>6, DeleteReturnRows
  <2>3. Inv'
    BY <1>0, <2>1, <2>2 DEF Inv
  <2>4. ClosedMonthUnchanged
    BY <2>1, <2>2 DEF ClosedMonthUnchanged, Frozen, Unlocked
  <2> QED BY <2>3, <2>4
<1>7. ASSUME NEW m \in Months, CloseMonth(m) \/ UnlockMonth(m)
      PROVE  Inv' /\ ClosedMonthUnchanged
  <2>1. UNCHANGED <<ledger, returns>> /\ locked' \subseteq Months
    BY <1>0, <1>7 DEF CloseMonth, UnlockMonth
  <2> QED BY <1>0, <2>1 DEF Inv, ClosedMonthUnchanged
<1>8. CASE UNCHANGED vars
  BY <1>0, <1>8 DEF Inv, vars
<1> QED BY <1>2, <1>3, <1>4, <1>5, <1>6, <1>7, <1>8 DEF Next

\* What a step does to the order of service: nothing is served out of it.
LEMMA NextServesInOrder ==
    ASSUME Inv, [Next]_vars
    PROVE  EarlierLotFirst /\ OlderNeedFirst
<1>0. /\ AtRest(ledger) /\ Counted(returns)
      /\ returns \in Tables(ReturnIds, ReturnRow)
  BY TablesAreCounted DEF Inv
<1>1. ASSUME LedgerStep PROVE EarlierLotFirst /\ OlderNeedFirst
  <2>1. EarlierLotFirst
    BY <1>1 DEF LedgerStep, ServesInOrder, EarlierFirst, Gains, EarlierLotFirst
  <2>2. \A o \in DOMAIN ledger'.outs : Unmet(ledger', o) \in Int
    BY <1>1, RestFacts DEF LedgerStep
  <2>3. OlderFirst(ledger, ledger')
    BY <1>1 DEF LedgerStep, ServesInOrder
  <2>4. OlderNeedFirst
    BY <2>2, <2>3 DEF OlderFirst, Gains, Lacks, OlderNeedFirst
  <2> QED BY <2>1, <2>4
<1>2. ASSUME ledger' = ledger PROVE EarlierLotFirst /\ OlderNeedFirst
  <2>1. /\ DOMAIN ledger.outs \subseteq OutIds /\ DOMAIN ledger.lots \subseteq LotIds
        /\ ledger.alloc \in [OutIds -> [LotIds -> Nat]]
    BY <1>0, RestFacts, LedgerRows
  <2>2. \A o \in DOMAIN ledger.outs, i \in DOMAIN ledger.lots :
           ~(ledger'.alloc[o][i] > ledger.alloc[o][i])
    <3> SUFFICES ASSUME NEW o \in DOMAIN ledger.outs, NEW i \in DOMAIN ledger.lots
                 PROVE  ~(ledger'.alloc[o][i] > ledger.alloc[o][i])
      OBVIOUS
    <3>1. ledger.alloc[o][i] \in Nat
      BY <2>1
    <3> QED BY <1>2, <3>1
  <2> QED BY <1>2, <2>2 DEF EarlierLotFirst, OlderNeedFirst
<1>3. CASE ChangeLots
  BY <1>0, <1>1, <1>3, ChangeLotsStep
<1>4. CASE ChangeOuts
  BY <1>0, <1>1, <1>4, ChangeOutsStep
<1>5. ASSUME NEW start \in Starts, SetFifoStart(start)
      PROVE  EarlierLotFirst /\ OlderNeedFirst
  BY <1>0, <1>1, <1>5, SetFifoStartStep
<1>6. ASSUME NEW rows \in Lines(ReturnRow), Return(rows) PROVE ledger' = ledger
  BY <1>6 DEF Return
<1>7. ASSUME NEW k \in DOMAIN returns, DeleteReturn(k) PROVE ledger' = ledger
  BY <1>7 DEF DeleteReturn
<1>8. ASSUME NEW m \in Months, CloseMonth(m) \/ UnlockMonth(m) PROVE ledger' = ledger
  BY <1>8 DEF CloseMonth, UnlockMonth
<1>9. CASE UNCHANGED vars
  BY <1>2, <1>9 DEF vars
<1> QED BY <1>2, <1>3, <1>4, <1>5, <1>6, <1>7, <1>8, <1>9 DEF Next

\* What a step does to the shortages: none is lost.
LEMMA NextAsks ==
    ASSUME Inv, [Next]_vars
    PROVE  ShortageAsked \/ CutShort
<1>0. AtRest(ledger) /\ Counted(returns)
  BY TablesAreCounted DEF Inv
<1>1. ASSUME ledger' = ledger PROVE ShortageAsked
  BY <1>0, <1>1, RestIsInOrder, InOrderAsks
<1>2. CASE ChangeLots
  BY <1>0, <1>2, ChangeLotsStep DEF LedgerStep
<1>3. CASE ChangeOuts
  BY <1>0, <1>3, ChangeOutsStep DEF LedgerStep
<1>4. ASSUME NEW start \in Starts, SetFifoStart(start) PROVE ShortageAsked \/ CutShort
  BY <1>0, <1>4, SetFifoStartStep DEF LedgerStep
<1>5. ASSUME NEW rows \in Lines(ReturnRow), Return(rows) PROVE ledger' = ledger
  BY <1>5 DEF Return
<1>6. ASSUME NEW k \in DOMAIN returns, DeleteReturn(k) PROVE ledger' = ledger
  BY <1>6 DEF DeleteReturn
<1>7. ASSUME NEW m \in Months, CloseMonth(m) \/ UnlockMonth(m) PROVE ledger' = ledger
  BY <1>7 DEF CloseMonth, UnlockMonth
<1>8. CASE UNCHANGED vars
  BY <1>1, <1>8 DEF vars
<1> QED BY <1>1, <1>2, <1>3, <1>4, <1>5, <1>6, <1>7, <1>8 DEF Next

LEMMA NextKeepsDeposits ==
    ASSUME Inv, DepositNotNegative, [Next]_vars
    PROVE  DepositNotNegative'
<1>0. /\ AtRest(ledger) /\ returns \in Tables(ReturnIds, ReturnRow)
      /\ Counted(returns) /\ DOMAIN returns \subseteq Nat /\ ledger \in Ledgers
  BY TablesAreCounted, RestFacts DEF Inv
<1>1. ASSUME LedgerStep, returns' = returns PROVE DepositNotNegative'
  <2>1. \A p \in Returnable : Deposit(ledger', p) >= 0
    BY <1>1 DEF LedgerStep, DepositKept, DepositNotNegative
  <2>2. \A p : Total(returns, p)' = Total(returns, p) /\ Deposit(ledger, p)' = Deposit(ledger', p)
    BY <1>1 DEF Total, Deposit
  <2> QED BY <2>1, <2>2 DEF DepositNotNegative
<1>2. ASSUME NEW p, Total(returns', p) <= Total(returns, p), ledger' = ledger,
             Counted(returns'), Deposit(ledger, p) >= 0
      PROVE  Total(ledger'.lots, p) - Total(returns', p) >= 0
  <2>1. /\ Total(ledger.lots, p) \in Nat /\ Total(returns, p) \in Nat
        /\ Total(returns', p) \in Nat
    BY <1>0, <1>2, TablesAreCounted, TotalIs
  <2> QED BY <1>2, <2>1 DEF Deposit
<1>3. CASE ChangeLots
  <2>1. returns' = returns
    BY <1>3 DEF ChangeLots, Receive, UpdateIntake, DeleteIntake, UpdateIntakeLot
  <2> QED BY <1>0, <1>1, <1>3, <2>1, ChangeLotsStep
<1>4. CASE ChangeOuts
  <2>1. returns' = returns
    BY <1>4 DEF ChangeOuts, Distribute, DistributeCut, UpdateDistribution, DeleteDistribution,
                ClearDistributions, ApproveReviews
  <2> QED BY <1>0, <1>1, <1>4, <2>1, ChangeOutsStep
<1>5. ASSUME NEW start \in Starts, SetFifoStart(start) PROVE DepositNotNegative'
  <2>1. returns' = returns
    BY <1>5 DEF SetFifoStart
  <2> QED BY <1>0, <1>1, <1>5, <2>1, SetFifoStartStep
<1>6. ASSUME NEW rows \in Lines(ReturnRow), Return(rows) PROVE DepositNotNegative'
  <2>1. /\ ledger' = ledger
        /\ \A k \in DOMAIN rows :
              Total(rows, rows[k].product) <= Deposit(ledger, rows[k].product)
    BY <1>6 DEF Return
  <2>2. /\ returns' \in Tables(ReturnIds, ReturnRow) /\ AddsRows(returns, returns', rows)
        /\ Counted(rows)
    BY <1>0, <1>6, ReturnRows, TablesAreCounted
  <2>3. Counted(returns')
    BY <2>2, TablesAreCounted
  <2>4. ASSUME NEW p \in Returnable PROVE Total(ledger'.lots, p) - Total(returns', p) >= 0
    <3>1. Deposit(ledger, p) >= 0
      BY DEF DepositNotNegative
    <3>2. Total(rows, p) <= Deposit(ledger, p)
      <4>1. CASE \E k \in DOMAIN rows : rows[k].product = p
        BY <2>1, <4>1
      <4>2. CASE ~\E k \in DOMAIN rows : rows[k].product = p
        <5>1. Of(rows, p) = {}
          BY <4>2 DEF Of
        <5>2. Total(rows, p) = 0
          BY <2>2, <5>1, TotalIs, SumEmpty
        <5> QED BY <3>1, <5>2
      <4> QED BY <4>1, <4>2
    <3>3. Total(returns', p) = Total(returns, p) + Total(rows, p)
      <4> DEFINE v == returns'
      <4>1. Counted(v) /\ AddsRows(returns, v, rows)
        BY <2>2, <2>3
      <4> HIDE DEF v
      <4>2. Total(v, p) = Total(returns, p) + Total(rows, p)
        BY <1>0, <2>2, <4>1, TotalOfAdded
      <4> QED BY <4>2 DEF v
    <3>4. Total(ledger.lots, p) \in Nat /\ Total(returns, p) \in Nat /\ Total(rows, p) \in Nat
      BY <1>0, <2>2, TablesAreCounted, TotalIs
    <3> QED BY <2>1, <3>2, <3>3, <3>4 DEF Deposit
  <2> QED BY <2>4 DEF DepositNotNegative, Deposit
<1>7. ASSUME NEW k \in DOMAIN returns, DeleteReturn(k) PROVE DepositNotNegative'
  <2>1. ledger' = ledger
    BY <1>7 DEF DeleteReturn
  <2>2. /\ returns' \in Tables(ReturnIds, ReturnRow) /\ DOMAIN returns' = DOMAIN returns \ {k}
        /\ \A j \in DOMAIN returns' : returns'[j] = returns[j]
    BY <1>0, <1>7, DeleteReturnRows
  <2>3. Counted(returns')
    BY <2>2, TablesAreCounted
  <2>4. ASSUME NEW p PROVE Total(returns', p) <= Total(returns, p)
    <3> DEFINE v == returns'
    <3>1. Counted(v) /\ \A i \in DOMAIN v : i \in DOMAIN returns /\ SameEntry(v[i], returns[i])
      BY <2>2, <2>3 DEF SameEntry
    <3> HIDE DEF v
    <3>2. Total(v, p) <= Total(returns, p)
      BY <1>0, <3>1, TotalOfPart
    <3> QED BY <3>2 DEF v
  <2> QED BY <1>2, <2>1, <2>3, <2>4 DEF DepositNotNegative, Deposit
<1>8. CASE UNCHANGED <<ledger, returns>>
  BY <1>8 DEF DepositNotNegative, Deposit, Total
<1>9. ASSUME NEW m \in Months, CloseMonth(m) \/ UnlockMonth(m) PROVE DepositNotNegative'
  BY <1>8, <1>9 DEF CloseMonth, UnlockMonth
<1> QED BY <1>3, <1>4, <1>5, <1>6, <1>7, <1>8, <1>9 DEF Next, vars

-----------------------------------------------------------------------------
(* Theorems *)

\* The invariant the theorems follow from: the ledger is at rest between any two
\* services, whatever the services, their inputs and their order.
THEOREM InvHolds == Spec => []Inv
<1>1. Init => Inv
  BY InitIsInOrder
<1>2. Inv /\ [Next]_vars => Inv'
  BY NextKeepsInv
<1> QED BY <1>1, <1>2, PTL DEF Spec

\* The rows of the four tables have the values the schema and the entry checks
\* allow, and an allocation joins rows that exist.
THEOREM TypeCorrect == Spec => []TypeOK
<1>1. Inv => TypeOK
  <2> SUFFICES ASSUME Inv PROVE TypeOK
    OBVIOUS
  <2>1. /\ ledger \in Ledgers /\ Sound(ledger) /\ locked \subseteq Months
        /\ returns \in Tables(ReturnIds, ReturnRow)
    BY RestFacts DEF Inv
  <2>2. DOMAIN returns \subseteq ReturnIds /\ returns \in [DOMAIN returns -> ReturnRow]
    BY <2>1 DEF Tables
  <2>3. ledger.start \in Starts \cup {NoStart}
    BY <2>1 DEF Ledgers
  <2>4. \A i \in DOMAIN ledger.lots : LotAccepted(ledger.lots[i])
    BY <2>1 DEF Sound
  <2>5. \A o \in OutIds, i \in LotIds :
           ledger.alloc[o][i] > 0 => o \in DOMAIN ledger.outs /\ i \in DOMAIN ledger.lots
    BY <2>1 DEF Sound, Joinable
  <2>6. /\ DOMAIN ledger.lots \subseteq LotIds /\ DOMAIN ledger.outs \subseteq OutIds
        /\ \A i \in DOMAIN ledger.lots : ledger.lots[i] \in LotRow
        /\ \A o \in DOMAIN ledger.outs : ledger.outs[o] \in OutRow
        /\ ledger.alloc \in [OutIds -> [LotIds -> Nat]]
    BY <2>1, LedgerRows
  <2> QED BY <2>1, <2>2, <2>3, <2>4, <2>5, <2>6 DEF TypeOK
<1> QED BY <1>1, InvHolds, PTL

\* No lot supplies more than was delivered, no distribution gets more than was
\* handed out, after any edit, deletion, quarantine or move of the FIFO start.
THEOREM NeverAllocatedTwice == Spec => []NothingAllocatedTwice
<1>1. Inv => NothingAllocatedTwice
  BY RestFacts DEF Inv, Sound, WithinAmounts, NothingAllocatedTwice
<1> QED BY <1>1, InvHolds, PTL

\* Every allocation stays one the matching could make: same product, a lot not in
\* quarantine, both on one side of the FIFO start.
THEOREM AllocationsStayMeetable == Spec => []AllocationsAreMeetable
<1>1. Inv => AllocationsAreMeetable
  <2> SUFFICES ASSUME Inv PROVE AllocationsAreMeetable
    OBVIOUS
  <2>1. Sound(ledger) /\ ledger \in Ledgers
    BY RestFacts DEF Inv
  <2>2. DOMAIN ledger.lots \subseteq LotIds /\ DOMAIN ledger.outs \subseteq OutIds
    BY <2>1, LedgerRows
  <2>3. \A o \in OutIds, i \in LotIds : ledger.alloc[o][i] > 0 => Joinable(ledger, o, i)
    BY <2>1 DEF Sound
  <2> QED BY <2>2, <2>3 DEF Joinable, AllocationsAreMeetable
<1> QED BY <1>1, InvHolds, PTL

\* After every service, no distribution waits beside an open lot that could meet it.
THEOREM NeverIdleStock == Spec => []NoIdleStock
<1>1. Inv => NoIdleStock
  <2> SUFFICES ASSUME Inv PROVE NoIdleStock
    OBVIOUS
  <2>1. \A o \in DOMAIN ledger.outs : NotIdle(ledger, o)
    BY RestFacts DEF Inv
  <2> QED BY <2>1 DEF NotIdle, NoIdleStock
<1> QED BY <1>1, InvHolds, PTL

\* A row of the review queue has an open shortage after the start, so that a
\* decision on it is never refused.
THEOREM ReviewsHaveShortage == Spec => []ReviewHasShortage
<1>1. Inv => ReviewHasShortage
  BY RestFacts DEF Inv, ReviewHasShortage
<1> QED BY <1>1, InvHolds, PTL

\* No service loses a shortage after the start: what it opens, makes larger or takes
\* out of the queue is in the queue after it, or was just approved.  Only the end of
\* the process between the two transactions of a distribution loses one.
THEOREM ShortagesAreAsked == Spec => AlwaysShortageAsked
<1>1. Inv /\ [Next]_vars => [ShortageAsked \/ \E rows \in Lines(EnteredOuts) : DistributeCut(rows)]_vars
  BY NextAsks DEF CutShort
<1> QED BY <1>1, InvHolds, PTL DEF Spec, AlwaysShortageAsked

\* No more empties are returned than were delivered.
THEOREM DepositsNotNegative == Spec => []DepositNotNegative
<1>1. Init => DepositNotNegative
  BY InitIsInOrder
<1>2. Inv /\ DepositNotNegative /\ [Next]_vars => DepositNotNegative'
  BY NextKeepsDeposits
<1> QED BY <1>1, <1>2, InvHolds, PTL DEF Spec

\* The deliveries, distributions and returns of a closed month stay as they were.
THEOREM ClosedMonthsStay == Spec => AlwaysClosedMonthUnchanged
<1>1. Inv /\ [Next]_vars => [ClosedMonthUnchanged]_vars
  BY NextKeepsInv
<1> QED BY <1>1, InvHolds, PTL DEF Spec, AlwaysClosedMonthUnchanged

\* A service gives nothing out of order: no lot while an earlier one that could
\* serve the distribution has some left, nobody while an older distribution that
\* the lot could serve is left waiting.
THEOREM MatchedInOrder == Spec => AlwaysMatchedInOrder
<1>1. Inv /\ [Next]_vars => [EarlierLotFirst /\ OlderNeedFirst]_vars
  BY NextServesInOrder
<1> QED BY <1>1, InvHolds, PTL DEF Spec, AlwaysMatchedInOrder
=============================================================================
