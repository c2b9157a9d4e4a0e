----------------------------- MODULE SumTheorems -----------------------------
(***************************************************************************)
(* Sums of functions over finite sets (SumFunctionOnSet of Functions): the *)
(* facts the proofs about balances, counters and rewards need.             *)
(*                                                                         *)
(* Induction is stated for sets, not for operators: a set that holds 0 and *)
(* with every number the next one holds all numbers.  It follows from      *)
(* WFMin, and with it a sum is shown to satisfy its recursive definition.  *)
(***************************************************************************)
EXTENDS Integers, FiniteSets, Functions, FiniteSetTheorems, WellFoundedInduction, TLAPS

\* Induction over the natural numbers.
LEMMA SetInduction ==
    ASSUME NEW T, 0 \in T, \A n \in Nat : n \in T => n + 1 \in T
    PROVE  Nat \subseteq T
<1> SUFFICES ASSUME Nat \ T # {}
             PROVE  FALSE
  OBVIOUS
<1> DEFINE U == Nat \ T
<1> DEFINE R == OpToRel(<, Nat)
<1>1. IsWellFoundedOn(R, Nat)
  BY NatLessThanWellFounded
<1>2. U \subseteq Nat /\ U # {}
  OBVIOUS
<1> HIDE DEF R, U
<1>3. PICK n \in U : \A m \in U : ~(<<m, n>> \in R)
  BY <1>1, <1>2, WFMin, Zenon
<1>4. n \in Nat /\ n # 0 /\ n - 1 \in Nat
  BY DEF U
<1>5. n - 1 \in U
  BY <1>4 DEF U
<1>6. <<n - 1, n>> \in R
  BY <1>4 DEF R, OpToRel
<1> QED
  BY <1>3, <1>5, <1>6

\* Induction over the subsets of a finite set: one is good if its proper subsets
\* are.
LEMMA SubsetInduction ==
    ASSUME NEW S, IsFiniteSet(S), NEW Good,
           \A s \in SUBSET S : (\A t \in SUBSET s : t # s => t \in Good) => s \in Good
    PROVE  \A s \in SUBSET S : s \in Good
<1> DEFINE T == {n \in Nat : \A s \in SUBSET S : Cardinality(s) <= n => s \in Good}
<1>1. \A s \in SUBSET S : Cardinality(s) \in Nat /\ IsFiniteSet(s)
  BY FS_Subset, FS_CardinalityType
<1>2. \A s \in SUBSET S : \A t \in SUBSET s : t # s => Cardinality(t) < Cardinality(s)
  <2> SUFFICES ASSUME NEW s \in SUBSET S, NEW t \in SUBSET s, t # s
               PROVE  Cardinality(t) < Cardinality(s)
    OBVIOUS
  <2>1. t \in SUBSET S
    OBVIOUS
  <2>2. Cardinality(t) <= Cardinality(s) /\ Cardinality(s) # Cardinality(t)
    BY <1>1, FS_Subset
  <2> QED
    BY <1>1, <2>1, <2>2
<1>3. 0 \in T
  BY <1>1, <1>2
<1>4. ASSUME NEW n \in Nat, n \in T
      PROVE  n + 1 \in T
  <2> SUFFICES ASSUME NEW s \in SUBSET S, Cardinality(s) <= n + 1
               PROVE  s \in Good
    OBVIOUS
  <2>1. ASSUME NEW t \in SUBSET s, t # s
        PROVE  t \in Good
    BY <1>1, <1>2, <1>4, <2>1
  <2> QED
    BY <2>1
<1>5. Nat \subseteq T
  <2> HIDE DEF T
  <2> QED
    BY <1>3, <1>4, SetInduction
<1> QED
  BY <1>1, <1>5

-----------------------------------------------------------------------------
\* The element a sum takes out of a set first.
First(s) == CHOOSE x \in s : TRUE

\* A set that is not empty has one.
LEMMA FirstIsAnElement == \A s : s # {} => First(s) \in s
  BY DEF First

\* The right-hand side of the definition of a sum.
SumStep(f, g, s) == IF s = {} THEN 0 ELSE f[First(s)] + g[s \ {First(s)}]

\* g has the sums of f over all subsets of S.
Sums(f, g, S) ==
    /\ g \in [SUBSET S -> Int]
    /\ \A s \in SUBSET S : g[s] = SumStep(f, g, s)

\* The definition has a solution: it is right for the sets of at most n elements
\* after n replacements of g by the right-hand side.
LEMMA SumsExist ==
    ASSUME NEW S, IsFiniteSet(S), NEW f, \A x \in S : f[x] \in Int
    PROVE  \E g : Sums(f, g, S)
<1> DEFINE Right(g, n) == \A s \in SUBSET S : Cardinality(s) <= n => g[s] = SumStep(f, g, s)
<1> DEFINE T == {n \in Nat : \E g \in [SUBSET S -> Int] : Right(g, n)}
<1>1. \A s \in SUBSET S : Cardinality(s) \in Nat /\ IsFiniteSet(s) /\ (Cardinality(s) = 0 => s = {})
  BY FS_Subset, FS_CardinalityType, FS_EmptySet
<1>2. 0 \in T
  <2> DEFINE g == [s \in SUBSET S |-> 0]
  <2>1. g \in [SUBSET S -> Int]
    OBVIOUS
  <2>2. Right(g, 0)
    BY <1>1 DEF SumStep
  <2> HIDE DEF g
  <2> QED
    BY <2>1, <2>2
<1>3. ASSUME NEW n \in Nat, n \in T
      PROVE  n + 1 \in T
  <2>1. PICK g \in [SUBSET S -> Int] : Right(g, n)
    BY <1>3
  <2> DEFINE h == [s \in SUBSET S |-> SumStep(f, g, s)]
  <2>2. \A s \in SUBSET S : s # {} => First(s) \in S /\ s \ {First(s)} \in SUBSET S
    BY FirstIsAnElement
  <2>3. h \in [SUBSET S -> Int]
    BY <2>2 DEF SumStep
  <2>4. \A s \in SUBSET S : h[s] = SumStep(f, g, s)
    OBVIOUS
  <2>5. \A s \in SUBSET S : Cardinality(s) <= n => h[s] = g[s]
    BY <2>1, <2>4
  <2> HIDE DEF h
  <2>6. ASSUME NEW s \in SUBSET S, Cardinality(s) <= n + 1
        PROVE  h[s] = SumStep(f, h, s)
    <3>1. CASE s = {}
      BY <2>4, <3>1 DEF SumStep
    <3>2. CASE s # {}
      <4>1. Cardinality(s \ {First(s)}) <= n
        <5>1. IsFiniteSet(s) /\ Cardinality(s) \in Nat /\ First(s) \in s
          BY <1>1, <3>2, FirstIsAnElement
        <5>2. Cardinality(s \ {First(s)}) = Cardinality(s) - 1
          BY <5>1, FS_RemoveElement
        <5> QED
          BY <2>6, <5>1, <5>2
      <4>2. h[s \ {First(s)}] = g[s \ {First(s)}]
        BY <2>2, <2>5, <3>2, <4>1
      <4> QED
        BY <2>4, <3>2, <4>2 DEF SumStep
    <3> QED
      BY <3>1, <3>2
  <2> QED
    BY <2>3, <2>6
<1>4. Cardinality(S) \in T
  <2> HIDE DEF T
  <2> QED
    BY <1>1, <1>2, <1>3, SetInduction
<1>5. PICK g \in [SUBSET S -> Int] : Right(g, Cardinality(S))
  BY <1>4
<1>6. \A s \in SUBSET S : Cardinality(s) <= Cardinality(S)
  BY FS_Subset
<1> QED
  BY <1>5, <1>6 DEF Sums

\* A sum is the value of a solution.
LEMMA SumIsASolution ==
    ASSUME NEW S, IsFiniteSet(S), NEW f, \A x \in S : f[x] \in Int
    PROVE  \E g : Sums(f, g, S) /\ SumFunctionOnSet(f, S) = g[S]
<1> DEFINE Solves(g) ==
        g = [s \in SUBSET S |-> IF s = {} THEN 0 ELSE LET x == CHOOSE x \in s : TRUE
                                                      IN  f[x] + g[s \ {x}]]
<1>1. PICK g : Sums(f, g, S)
  BY SumsExist
<1>2. Solves(g)
  BY <1>1 DEF Sums, SumStep, First
<1>3. SumFunctionOnSet(f, S) = (CHOOSE h : Solves(h))[S]
  BY DEF SumFunctionOnSet, FoldFunctionOnSet, MapThenFoldSet
<1>4. PICK h : Solves(h) /\ SumFunctionOnSet(f, S) = h[S]
  BY <1>2, <1>3
<1>5. \A s \in SUBSET S : h[s] = SumStep(f, h, s)
  BY <1>4 DEF SumStep, First
<1>6. \A s \in SUBSET S : s \in {t \in SUBSET S : h[t] = g[t]}
  <2> DEFINE Good == {t \in SUBSET S : h[t] = g[t]}
  <2>1. ASSUME NEW s \in SUBSET S, \A t \in SUBSET s : t # s => t \in Good
        PROVE  s \in Good
    <3>1. CASE s = {}
      BY <1>1, <1>5, <3>1 DEF Sums, SumStep
    <3>2. CASE s # {}
      <4>1. First(s) \in s
        BY <3>2, FirstIsAnElement
      <4>2. h[s \ {First(s)}] = g[s \ {First(s)}]
        BY <2>1, <4>1
      <4> QED
        BY <1>1, <1>5, <3>2, <4>2 DEF Sums, SumStep
    <3> QED
      BY <3>1, <3>2
  <2> HIDE DEF Good
  <2>2. \A s \in SUBSET S : s \in Good
    BY <2>1, SubsetInduction
  <2> QED
    BY <2>2 DEF Good
<1> QED
  BY <1>1, <1>4, <1>6

\* Solutions of functions that agree agree: so there is one sum.
LEMMA SumsAgree ==
    ASSUME NEW S, IsFiniteSet(S), NEW f, NEW g, NEW h, NEW k, NEW U, U \subseteq S,
           Sums(f, g, S), Sums(h, k, U), \A x \in U : f[x] = h[x]
    PROVE  \A s \in SUBSET U : g[s] = k[s]
<1> DEFINE Good == {t \in SUBSET U : g[t] = k[t]}
<1>1. ASSUME NEW s \in SUBSET U, \A t \in SUBSET s : t # s => t \in Good
      PROVE  s \in Good
  <2>1. CASE s = {}
    BY <2>1 DEF Sums, SumStep
  <2>2. CASE s # {}
    <3>1. First(s) \in s
      BY <2>2, FirstIsAnElement
    <3>2. g[s \ {First(s)}] = k[s \ {First(s)}]
      BY <1>1, <3>1
    <3> QED
      BY <2>2, <3>1, <3>2 DEF Sums, SumStep
  <2> QED
    BY <2>1, <2>2
<1>2. IsFiniteSet(U)
  BY FS_Subset
<1> HIDE DEF Good
<1>3. \A s \in SUBSET U : s \in Good
  BY <1>1, <1>2, SubsetInduction
<1> QED
  BY <1>3 DEF Good

-----------------------------------------------------------------------------
\* A sum over a finite set of integers is an integer.
LEMMA SumType ==
    ASSUME NEW S, IsFiniteSet(S), NEW f, \A x \in S : f[x] \in Int
    PROVE  SumFunctionOnSet(f, S) \in Int
<1>1. PICK g : Sums(f, g, S) /\ SumFunctionOnSet(f, S) = g[S]
  BY SumIsASolution
<1> QED
  BY <1>1 DEF Sums

\* The sum over nothing.
LEMMA SumEmpty == \A f : SumFunctionOnSet(f, {}) = 0
<1> SUFFICES ASSUME NEW f
             PROVE  SumFunctionOnSet(f, {}) = 0
  OBVIOUS
<1>1. PICK g : Sums(f, g, {}) /\ SumFunctionOnSet(f, {}) = g[{}]
  BY SumIsASolution, FS_EmptySet
<1> QED
  BY <1>1 DEF Sums, SumStep

\* A sum depends on the values on its set alone.
LEMMA SumCongruent ==
    ASSUME NEW S, IsFiniteSet(S), NEW f, NEW h, \A x \in S : f[x] \in Int /\ h[x] = f[x]
    PROVE  SumFunctionOnSet(h, S) = SumFunctionOnSet(f, S)
<1>1. PICK g : Sums(f, g, S) /\ SumFunctionOnSet(f, S) = g[S]
  BY SumIsASolution
<1>2. PICK k : Sums(h, k, S) /\ SumFunctionOnSet(h, S) = k[S]
  BY SumIsASolution
<1>3. \A s \in SUBSET S : g[s] = k[s]
  BY <1>1, <1>2, SumsAgree
<1> QED
  BY <1>1, <1>2, <1>3

\* A solution has the sums over all subsets.
LEMMA SolutionHasSums ==
    ASSUME NEW S, IsFiniteSet(S), NEW f, NEW g, Sums(f, g, S), \A x \in S : f[x] \in Int
    PROVE  \A s \in SUBSET S : SumFunctionOnSet(f, s) = g[s]
<1> SUFFICES ASSUME NEW s \in SUBSET S
             PROVE  SumFunctionOnSet(f, s) = g[s]
  OBVIOUS
<1>1. IsFiniteSet(s) /\ \A x \in s : f[x] \in Int
  BY FS_Subset
<1>2. PICK k : Sums(f, k, s) /\ SumFunctionOnSet(f, s) = k[s]
  BY <1>1, SumIsASolution
<1>3. \A t \in SUBSET s : g[t] = k[t]
  BY <1>2, SumsAgree
<1> QED
  BY <1>2, <1>3

\* Any element can be taken out of a sum first.
LEMMA SumRemove ==
    ASSUME NEW S, IsFiniteSet(S), NEW f, \A x \in S : f[x] \in Int, NEW x \in S
    PROVE  SumFunctionOnSet(f, S) = f[x] + SumFunctionOnSet(f, S \ {x})
<1>1. PICK g : Sums(f, g, S)
  BY SumsExist
<1> DEFINE Good == {s \in SUBSET S : \A y \in s : g[s] = f[y] + g[s \ {y}]}
<1>2. ASSUME NEW s \in SUBSET S, \A t \in SUBSET s : t # s => t \in Good
      PROVE  s \in Good
  <2> SUFFICES ASSUME NEW y \in s
               PROVE  g[s] = f[y] + g[s \ {y}]
    OBVIOUS
  <2> DEFINE z == First(s)
  <2>1. z \in s /\ g[s] = f[z] + g[s \ {z}]
    BY <1>1, FirstIsAnElement DEF Sums, SumStep
  <2> HIDE DEF z
  <2>2. CASE y = z
    BY <2>1, <2>2
  <2>3. CASE y # z
    <3> DEFINE r == (s \ {z}) \ {y}
    <3>1. r = (s \ {y}) \ {z} /\ r \in SUBSET S
      OBVIOUS
    <3>2. g[s \ {z}] = f[y] + g[r]
      BY <1>2, <2>1, <2>3
    <3>3. s \ {y} \in Good /\ z \in s \ {y}
      BY <1>2, <2>1, <2>3
    <3>4. g[s \ {y}] = f[z] + g[r]
      BY <3>1, <3>3
    <3>5. g[r] \in Int /\ f[y] \in Int /\ f[z] \in Int
      BY <1>1, <2>1, <3>1 DEF Sums
    <3> HIDE DEF r
    <3> QED
      BY <2>1, <3>2, <3>4, <3>5
  <2> QED
    BY <2>2, <2>3
<1> HIDE DEF Good
<1>3. S \in Good
  BY <1>2, SubsetInduction
<1>4. g[S] = f[x] + g[S \ {x}]
  BY <1>3 DEF Good
<1>5. SumFunctionOnSet(f, S) = g[S] /\ SumFunctionOnSet(f, S \ {x}) = g[S \ {x}]
  BY <1>1, SolutionHasSums
<1> QED
  BY <1>4, <1>5

\* Adding an element.
LEMMA SumAdd ==
    ASSUME NEW S, IsFiniteSet(S), NEW x, x \notin S, NEW f, \A y \in S \cup {x} : f[y] \in Int
    PROVE  SumFunctionOnSet(f, S \cup {x}) = SumFunctionOnSet(f, S) + f[x]
<1>1. IsFiniteSet(S \cup {x})
  BY FS_AddElement
<1> DEFINE U == S \cup {x}
<1>2. U \ {x} = S /\ x \in U /\ IsFiniteSet(U) /\ \A y \in U : f[y] \in Int
  BY <1>1
<1> HIDE DEF U
<1>4. SumFunctionOnSet(f, U) = f[x] + SumFunctionOnSet(f, U \ {x})
  BY <1>2, SumRemove
<1>5. SumFunctionOnSet(f, U) = f[x] + SumFunctionOnSet(f, S)
  BY <1>2, <1>4
<1>6. SumFunctionOnSet(f, S) \in Int /\ f[x] \in Int
  BY SumType
<1> QED
  BY <1>5, <1>6 DEF U

\* A sum in which one term changes.
LEMMA SumChange ==
    ASSUME NEW S, IsFiniteSet(S), NEW f, NEW h, NEW x \in S,
           \A y \in S : f[y] \in Int /\ h[y] \in Int,
           \A y \in S \ {x} : h[y] = f[y]
    PROVE  SumFunctionOnSet(h, S) = SumFunctionOnSet(f, S) + h[x] - f[x]
<1>1. IsFiniteSet(S \ {x})
  BY FS_RemoveElement
<1>2. SumFunctionOnSet(h, S \ {x}) = SumFunctionOnSet(f, S \ {x})
  BY <1>1, SumCongruent
<1>3. SumFunctionOnSet(f, S \ {x}) \in Int
  BY <1>1, SumType
<1>4. SumFunctionOnSet(f, S) = f[x] + SumFunctionOnSet(f, S \ {x})
  BY SumRemove
<1>5. SumFunctionOnSet(h, S) = h[x] + SumFunctionOnSet(h, S \ {x})
  BY SumRemove
<1> QED
  BY <1>2, <1>3, <1>4, <1>5

\* Larger terms make larger sums.
LEMMA SumMonotone ==
    ASSUME NEW S, IsFiniteSet(S), NEW f, NEW h,
           \A x \in S : f[x] \in Int /\ h[x] \in Int /\ f[x] <= h[x]
    PROVE  SumFunctionOnSet(f, S) <= SumFunctionOnSet(h, S)
<1> DEFINE Good == {s \in SUBSET S : SumFunctionOnSet(f, s) <= SumFunctionOnSet(h, s)}
<1>1. ASSUME NEW s \in SUBSET S, \A t \in SUBSET s : t # s => t \in Good
      PROVE  s \in Good
  <2>1. CASE s = {}
    BY <2>1, SumEmpty
  <2>2. ASSUME NEW x \in s
        PROVE  s \in Good
    <3>1. IsFiniteSet(s) /\ IsFiniteSet(s \ {x})
      BY FS_Subset
    <3>2. SumFunctionOnSet(f, s \ {x}) <= SumFunctionOnSet(h, s \ {x})
      BY <1>1
    <3>3. SumFunctionOnSet(f, s \ {x}) \in Int /\ SumFunctionOnSet(h, s \ {x}) \in Int
      BY <3>1, SumType
    <3>4. SumFunctionOnSet(f, s) = f[x] + SumFunctionOnSet(f, s \ {x})
      BY <3>1, SumRemove
    <3>5. SumFunctionOnSet(h, s) = h[x] + SumFunctionOnSet(h, s \ {x})
      BY <3>1, SumRemove
    <3>6. f[x] \in Int /\ h[x] \in Int /\ f[x] <= h[x]
      OBVIOUS
    <3> QED
      BY <3>2, <3>3, <3>4, <3>5, <3>6
  <2> QED
    BY <2>1, <2>2
<1> HIDE DEF Good
<1>2. S \in Good
  BY <1>1, SubsetInduction
<1> QED
  BY <1>2 DEF Good

\* A sum over more elements, none of them negative, is no smaller.
LEMMA SumSubset ==
    ASSUME NEW S, IsFiniteSet(S), NEW f, \A x \in S : f[x] \in Nat, NEW U \in SUBSET S
    PROVE  SumFunctionOnSet(f, U) \in Nat /\ SumFunctionOnSet(f, U) <= SumFunctionOnSet(f, S)
<1> DEFINE Good == {s \in SUBSET S : \A t \in SUBSET s :
                        /\ SumFunctionOnSet(f, t) \in Nat
                        /\ SumFunctionOnSet(f, t) <= SumFunctionOnSet(f, s)}
<1>1. ASSUME NEW s \in SUBSET S, \A t \in SUBSET s : t # s => t \in Good
      PROVE  s \in Good
  <2>1. SumFunctionOnSet(f, s) \in Nat
    <3>1. CASE s = {}
      BY <3>1, SumEmpty
    <3>2. ASSUME NEW x \in s
          PROVE  SumFunctionOnSet(f, s) \in Nat
      <4>1. SumFunctionOnSet(f, s \ {x}) \in Nat
        BY <1>1
      <4>2. SumFunctionOnSet(f, s) = f[x] + SumFunctionOnSet(f, s \ {x})
        BY FS_Subset, SumRemove
      <4> QED
        BY <4>1, <4>2
    <3> QED
      BY <3>1, <3>2
  <2>2. ASSUME NEW t \in SUBSET s, t # s
        PROVE  SumFunctionOnSet(f, t) \in Nat /\ SumFunctionOnSet(f, t) <= SumFunctionOnSet(f, s)
    <3>1. PICK x \in s : x \notin t
      BY <2>2
    <3>2. SumFunctionOnSet(f, s) = f[x] + SumFunctionOnSet(f, s \ {x})
      BY FS_Subset, SumRemove
    <3>3. s \ {x} \in Good /\ t \in SUBSET (s \ {x})
      BY <1>1, <3>1
    <3>4. /\ SumFunctionOnSet(f, t) \in Nat
          /\ SumFunctionOnSet(f, t) <= SumFunctionOnSet(f, s \ {x})
          /\ SumFunctionOnSet(f, s \ {x}) \in Nat
      BY <3>3
    <3>5. f[x] \in Nat
      OBVIOUS
    <3> QED
      BY <3>2, <3>4, <3>5
  <2> QED
    BY <2>1, <2>2
<1> HIDE DEF Good
<1>2. S \in Good
  BY <1>1, SubsetInduction
<1> QED
  BY <1>2 DEF Good

\* A sum of zeroes.
LEMMA SumZero ==
    ASSUME NEW S, IsFiniteSet(S), NEW f, \A x \in S : f[x] = 0
    PROVE  SumFunctionOnSet(f, S) = 0
<1> DEFINE Good == {s \in SUBSET S : SumFunctionOnSet(f, s) = 0}
<1>1. ASSUME NEW s \in SUBSET S, \A t \in SUBSET s : t # s => t \in Good
      PROVE  s \in Good
  <2>1. CASE s = {}
    BY <2>1, SumEmpty
  <2>2. ASSUME NEW x \in s
        PROVE  s \in Good
    <3>1. IsFiniteSet(s) /\ \A y \in s : f[y] \in Int
      BY FS_Subset
    <3>2. SumFunctionOnSet(f, s \ {x}) = 0
      BY <1>1
    <3>3. SumFunctionOnSet(f, s) = f[x] + SumFunctionOnSet(f, s \ {x})
      BY <3>1, SumRemove
    <3> QED
      BY <3>2, <3>3
  <2> QED
    BY <2>1, <2>2
<1> HIDE DEF Good
<1>2. S \in Good
  BY <1>1, SubsetInduction
<1> QED
  BY <1>2 DEF Good

==============================================================================
