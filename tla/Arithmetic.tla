----------------------------- MODULE Arithmetic -----------------------------
(***************************************************************************)
(* What the proofs need of numbers.                                        *)
(*                                                                         *)
(* A set of naturals that is not empty has a least element, and a greatest *)
(* one if it is bounded.  The topo file is read with both: Count looks for *)
(* the last record that is used, and Rewind_Chain stops at the first count *)
(* that one of its conditions stops.  The least element also stands in for *)
(* induction: a smallest counterexample has none below it.                 *)
(*                                                                         *)
(* The sum of a function over a finite set does what a sum does: balances  *)
(* are added up with it.                                                   *)
(***************************************************************************)
EXTENDS Integers, Functions, WellFoundedInduction, FiniteSetTheorems, TLAPS

\* A set of naturals that is not empty has a least element.
LEMMA LeastElement ==
    ASSUME NEW S \in SUBSET Nat, S # {}
    PROVE  \E x \in S : \A y \in S : x <= y
<1>1. IsWellFoundedOn(OpToRel(<, Nat), Nat)
  BY NatLessThanWellFounded
<1>2. \E x \in S : \A y \in S : <<y, x>> \notin OpToRel(<, Nat)
  BY <1>1, WFMin
<1>3. \A x \in Nat, y \in Nat : y < x => <<y, x>> \in OpToRel(<, Nat)
  BY DEF OpToRel
<1>4. PICK x \in S : \A y \in S : <<y, x>> \notin OpToRel(<, Nat)
  BY <1>2
<1>5. \A y \in S : ~ (y < x)
  BY <1>3, <1>4
<1> QED
  BY <1>5

\* A bounded set of naturals that is not empty has a greatest element.
LEMMA GreatestElement ==
    ASSUME NEW S \in SUBSET Nat, S # {},
           NEW bound \in Nat, \A y \in S : y <= bound
    PROVE  \E x \in S : \A y \in S : y <= x
<1> DEFINE T == {n \in Nat : \A y \in S : y <= n}
<1>1. PICK m \in T : \A n \in T : m <= n
  BY LeastElement
<1>2. m \in S
  <2>1. SUFFICES ASSUME m \notin S PROVE FALSE
    OBVIOUS
  <2>2. \A y \in S : y <= m /\ y # m /\ y \in Nat
    BY <1>1, <2>1
  <2>3. PICK y \in S : TRUE
    OBVIOUS
  <2>4. m # 0
    BY <2>2, <2>3
  <2>5. m - 1 \in Nat /\ \A z \in S : z <= m - 1
    BY <2>2, <2>4
  <2> QED
    BY <1>1, <2>5
<1> QED
  BY <1>1, <1>2

-----------------------------------------------------------------------------
(***************************************************************************)
(* The sum of a function over a finite set, SumFunction of Functions: it   *)
(* is defined by a recursion that takes out one index after another, each  *)
(* by a choice.  That the order makes no difference is what the lemmas     *)
(* about it rest on.                                                       *)
(***************************************************************************)

FoldStep(fold, f, S) == IF S = {} THEN 0
                    ELSE LET x == CHOOSE x \in S : TRUE IN f[x] + fold[S \ {x}]

\* The recursion of MapThenFoldSet.
IsFold(fold, f, D) == fold = [S \in SUBSET D |-> FoldStep(fold, f, S)]

\* What is meant by a sum: taking out any index takes out its value.
SumsOf(sum, f, D) ==
    /\ sum \in [SUBSET D -> Int] /\ sum[{}] = 0
    /\ \A S \in SUBSET D : \A x \in S : sum[S] = f[x] + sum[S \ {x}]

LEMMA SubsetFacts ==
    ASSUME NEW D, IsFiniteSet(D), NEW S \in SUBSET D
    PROVE  /\ Cardinality(S) \in Nat /\ (Cardinality(S) = 0 <=> S = {})
           /\ \A x \in S : S \ {x} \in SUBSET D /\ Cardinality(S \ {x}) = Cardinality(S) - 1
<1>1. IsFiniteSet(S)
  BY FS_Subset
<1> QED
  BY <1>1, FS_CardinalityType, FS_EmptySet, FS_RemoveElement

\* The recursion has a solution: one for the sets of at most n indices extends to
\* the sets of n + 1.
LEMMA FoldExists ==
    ASSUME NEW D, IsFiniteSet(D), NEW f \in [D -> Int]
    PROVE  \E fold \in [SUBSET D -> Int] : IsFold(fold, f, D)
<1> DEFINE Small(n)     == {S \in SUBSET D : Cardinality(S) <= n}
           Solves(g, n) == g \in [Small(n) -> Int] /\ \A S \in Small(n) : g[S] = FoldStep(g, f, S)
           Bad          == {n \in Nat : ~ \E g : Solves(g, n)}
<1>1. Bad = {}
  <2>1. SUFFICES ASSUME Bad # {} PROVE FALSE
    OBVIOUS
  <2>2. PICK n \in Bad : \A m \in Bad : n <= m
    BY <2>1, LeastElement
  <2>3. CASE n = 0
    <3>1. Small(0) = {{}}
      BY SubsetFacts, FS_EmptySet
    <3>2. Solves([S \in {{}} |-> 0], 0)
      BY <3>1 DEF FoldStep
    <3> QED
      BY <2>2, <2>3, <3>2
  <2>4. CASE n # 0
    <3>1. PICK g : Solves(g, n - 1)
      <4>1. n - 1 \in Nat /\ n - 1 \notin Bad
        <5> HIDE DEF Bad
        <5>1. n \in Nat
          BY <2>2 DEF Bad
        <5> QED
          BY <2>2, <2>4, <5>1
      <4> QED
        BY <4>1
    <3> DEFINE h == [S \in Small(n) |-> FoldStep(g, f, S)]
    <3>2. \A S \in Small(n) : S # {} =>
              LET x == CHOOSE x \in S : TRUE IN x \in S /\ f[x] \in Int /\ S \ {x} \in Small(n - 1)
      BY SubsetFacts
    <3>3. h \in [Small(n) -> Int]
      <4> SUFFICES ASSUME NEW S \in Small(n) PROVE FoldStep(g, f, S) \in Int
        OBVIOUS
      <4>1. CASE S # {}
        <5> DEFINE x == CHOOSE x \in S : TRUE
        <5>1. f[x] \in Int /\ S \ {x} \in Small(n - 1)
          BY <3>2, <4>1
        <5>2. FoldStep(g, f, S) = f[x] + g[S \ {x}]
          BY <4>1 DEF FoldStep
        <5> HIDE DEF x, Small
        <5>3. g[S \ {x}] \in Int
          BY <3>1, <5>1
        <5> QED
          BY <5>1, <5>2, <5>3
      <4>2. CASE S = {}
        BY <4>2 DEF FoldStep
      <4> QED
        BY <4>1, <4>2
    <3>4. \A S \in Small(n - 1) : S \in Small(n) /\ h[S] = g[S]
      <4>1. \A S \in Small(n - 1) : S \in Small(n)
        BY SubsetFacts
      <4> QED
        BY <3>1, <4>1
    <3>5. ASSUME NEW S \in Small(n) PROVE FoldStep(g, f, S) = FoldStep(h, f, S)
      <4> DEFINE x == CHOOSE x \in S : TRUE
      <4>1. S # {} => S \ {x} \in Small(n - 1)
        BY <3>2
      <4>2. S # {} => g[S \ {x}] = h[S \ {x}]
        BY <3>4, <4>1
      <4> HIDE DEF h, Small
      <4> QED
        BY <4>2 DEF FoldStep
    <3>6. Solves(h, n)
      BY <3>3, <3>5
    <3> QED
      BY <2>2, <3>6
  <2> QED
    BY <2>3, <2>4
<1>2. PICK g : Solves(g, Cardinality(D))
  BY <1>1, FS_CardinalityType
<1>3. Small(Cardinality(D)) = SUBSET D
  BY FS_Subset
<1>4. g \in [SUBSET D -> Int] /\ \A S \in SUBSET D : g[S] = FoldStep(g, f, S)
  BY <1>2, <1>3
<1> QED
  BY <1>4 DEF IsFold

\* The choice of the index that goes first makes no difference.
LEMMA FoldSums ==
    ASSUME NEW D, IsFiniteSet(D), NEW f \in [D -> Int],
           NEW fold \in [SUBSET D -> Int], IsFold(fold, f, D)
    PROVE  SumsOf(fold, f, D)
<1> DEFINE Any(S) == \A x \in S : fold[S] = f[x] + fold[S \ {x}]
           Bad    == {n \in Nat : \E S \in SUBSET D : Cardinality(S) = n /\ ~ Any(S)}
<1>1. \A S \in SUBSET D : fold[S] = FoldStep(fold, f, S)
  BY DEF IsFold
<1>2. Bad = {}
  <2>1. SUFFICES ASSUME Bad # {} PROVE FALSE
    OBVIOUS
  <2>2. PICK n \in Bad : \A m \in Bad : n <= m
    BY <2>1, LeastElement
  <2>3. PICK S \in SUBSET D : Cardinality(S) = n /\ ~ Any(S)
    BY <2>2
  <2>4. PICK x \in S : fold[S] # f[x] + fold[S \ {x}]
    BY <2>3
  <2> DEFINE y == CHOOSE y \in S : TRUE
  <2>5. y \in S /\ fold[S] = f[y] + fold[S \ {y}] /\ x # y
    BY <1>1, <2>4 DEF FoldStep
  <2> HIDE DEF y
  <2>6. \A T \in SUBSET D : Cardinality(T) < n => Any(T)
    BY <2>2, SubsetFacts
  <2>7. /\ S \ {x} \in SUBSET D /\ Cardinality(S \ {x}) < n /\ y \in S \ {x}
        /\ S \ {y} \in SUBSET D /\ Cardinality(S \ {y}) < n /\ x \in S \ {y}
    BY <2>3, <2>5, SubsetFacts
  <2>8. /\ fold[S \ {x}] = f[y] + fold[(S \ {x}) \ {y}]
        /\ fold[S \ {y}] = f[x] + fold[(S \ {y}) \ {x}]
    BY <2>6, <2>7, Zenon
  <2>9. (S \ {x}) \ {y} = (S \ {y}) \ {x} /\ (S \ {x}) \ {y} \in SUBSET D
    OBVIOUS
  <2> DEFINE rest == fold[(S \ {x}) \ {y}]
  <2>10. f[x] \in Int /\ f[y] \in Int /\ rest \in Int
    BY <2>5, <2>9
  <2>11. fold[S \ {x}] = f[y] + rest /\ fold[S \ {y}] = f[x] + rest
    BY <2>8, <2>9
  <2> HIDE DEF rest
  <2> QED
    BY <2>4, <2>5, <2>10, <2>11
<1>3. \A S \in SUBSET D : Any(S)
  <2> SUFFICES ASSUME NEW S \in SUBSET D PROVE Any(S)
    OBVIOUS
  <2>1. Cardinality(S) \in Nat /\ Cardinality(S) \notin Bad
    BY <1>2, SubsetFacts
  <2> HIDE DEF Any
  <2> QED
    BY <2>1
<1>4. fold[{}] = 0
  BY <1>1 DEF FoldStep
<1> QED
  BY <1>3, <1>4 DEF SumsOf

LEMMA SumFunctionSums ==
    ASSUME NEW D, IsFiniteSet(D), NEW f \in [D -> Int]
    PROVE  \E sum : SumsOf(sum, f, D) /\ SumFunction(f) = sum[D]
<1> DEFINE fold == CHOOSE fold : IsFold(fold, f, D)
<1>1. SumFunction(f) = fold[D]
  <2>1. DOMAIN f = D
    OBVIOUS
  <2>2. SumFunctionOnSet(f, D) = fold[D]
    BY Zenon DEF SumFunctionOnSet, FoldFunctionOnSet, MapThenFoldSet, IsFold, FoldStep
  <2> QED
    BY <2>1, <2>2 DEF SumFunction
<1>2. PICK g \in [SUBSET D -> Int] : IsFold(g, f, D)
  BY FoldExists
<1>3. IsFold(fold, f, D)
  BY <1>2
<1> HIDE DEF fold
<1>4. fold \in [SUBSET D -> Int]
  <2> DEFINE Bad == {n \in Nat : \E S \in SUBSET D : Cardinality(S) = n /\ fold[S] # g[S]}
  <2>1. /\ \A S \in SUBSET D : fold[S] = FoldStep(fold, f, S)
        /\ \A S \in SUBSET D : g[S] = FoldStep(g, f, S)
    BY <1>2, <1>3, Zenon DEF IsFold
  <2>2. Bad = {}
    <3>1. SUFFICES ASSUME Bad # {} PROVE FALSE
      OBVIOUS
    <3>2. PICK n \in Bad : \A m \in Bad : n <= m
      BY <3>1, LeastElement
    <3>3. PICK S \in SUBSET D : Cardinality(S) = n /\ fold[S] # g[S]
      BY <3>2
    <3> DEFINE x == CHOOSE x \in S : TRUE
    <3>4. S # {} /\ x \in S /\ fold[S] = f[x] + fold[S \ {x}] /\ g[S] = f[x] + g[S \ {x}]
      BY <2>1, <3>3 DEF FoldStep
    <3> HIDE DEF x
    <3>5. fold[S \ {x}] = g[S \ {x}]
      BY <3>2, <3>3, <3>4, SubsetFacts
    <3> QED
      BY <3>3, <3>4, <3>5
  <2>3. \A S \in SUBSET D : fold[S] = g[S]
    BY <2>2, SubsetFacts
  <2>4. fold = [S \in SUBSET D |-> FoldStep(fold, f, S)]
    BY <1>3 DEF IsFold
  <2> QED
    BY <2>3, <2>4
<1> QED
  BY <1>1, <1>3, <1>4, FoldSums

LEMMA SumType ==
    ASSUME NEW D, IsFiniteSet(D), NEW f \in [D -> Int]
    PROVE  SumFunction(f) \in Int
<1>1. PICK sum : SumsOf(sum, f, D) /\ SumFunction(f) = sum[D]
  BY SumFunctionSums
<1> QED
  BY <1>1 DEF SumsOf

LEMMA SumOfNothing == ASSUME NEW f \in [{} -> Int] PROVE SumFunction(f) = 0
BY SumFunctionSums, FS_EmptySet DEF SumsOf

\* A sum looks at nothing but the values it adds.
LEMMA SumsAgree ==
    ASSUME NEW D, IsFiniteSet(D), NEW f, NEW sum, SumsOf(sum, f, D),
           NEW E, NEW g, NEW total, SumsOf(total, g, E),
           NEW R \in SUBSET D, R \in SUBSET E, \A x \in R : f[x] = g[x]
    PROVE  sum[R] = total[R]
<1> DEFINE Bad == {n \in Nat : \E S \in SUBSET R : Cardinality(S) = n /\ sum[S] # total[S]}
<1>1. IsFiniteSet(R)
  BY FS_Subset
<1>2. Bad = {}
  <2>1. SUFFICES ASSUME Bad # {} PROVE FALSE
    OBVIOUS
  <2>2. PICK n \in Bad : \A m \in Bad : n <= m
    BY <2>1, LeastElement
  <2>3. PICK S \in SUBSET R : Cardinality(S) = n /\ sum[S] # total[S]
    BY <2>2
  <2>4. S # {}
    BY <2>3 DEF SumsOf
  <2>5. PICK x \in S : TRUE
    BY <2>4
  <2>6. sum[S] = f[x] + sum[S \ {x}] /\ total[S] = g[x] + total[S \ {x}] /\ f[x] = g[x]
    BY <2>5 DEF SumsOf
  <2>7. Cardinality(S \ {x}) \notin Bad /\ Cardinality(S \ {x}) \in Nat /\ S \ {x} \in SUBSET R
    <3>1. n \in Nat /\ Cardinality(S \ {x}) = n - 1 /\ Cardinality(S \ {x}) \in Nat
      BY <1>1, <2>3, <2>5, SubsetFacts
    <3> HIDE DEF Bad
    <3> QED
      BY <2>2, <3>1
  <2> QED
    BY <2>3, <2>6, <2>7
<1> QED
  BY <1>1, <1>2, SubsetFacts

\* One index more.
LEMMA SumExtends ==
    ASSUME NEW D, IsFiniteSet(D), NEW f \in [D -> Int], NEW x, x \notin D,
           NEW g \in [D \cup {x} -> Int], \A y \in D : g[y] = f[y]
    PROVE  SumFunction(g) = SumFunction(f) + g[x]
<1> DEFINE E == D \cup {x}
<1>1. IsFiniteSet(E)
  BY FS_AddElement
<1>2. PICK sum : SumsOf(sum, f, D) /\ SumFunction(f) = sum[D]
  BY SumFunctionSums
<1>3. PICK total : SumsOf(total, g, E) /\ SumFunction(g) = total[E]
  BY <1>1, SumFunctionSums
<1>4. total[E] = g[x] + total[D]
  <2>1. E \in SUBSET E /\ x \in E /\ E \ {x} = D
    OBVIOUS
  <2> QED
    BY <1>3, <2>1 DEF SumsOf
<1>5. sum[D] = total[D]
  BY <1>2, <1>3, SumsAgree
<1>6. g[x] \in Int /\ sum[D] \in Int
  BY <1>2 DEF SumsOf
<1> QED
  BY <1>2, <1>3, <1>4, <1>5, <1>6

LEMMA SumToNext ==
    ASSUME NEW n \in Nat, NEW f \in [1..n -> Int], NEW g \in [1..(n + 1) -> Int],
           \A i \in 1..n : g[i] = f[i]
    PROVE  SumFunction(g) = SumFunction(f) + g[n + 1]
<1> DEFINE D == 1..n
           x == n + 1
<1>1. IsFiniteSet(D) /\ x \notin D
  BY FS_Interval
<1>2. D \cup {x} = 1..(n + 1)
  OBVIOUS
<1>3. f \in [D -> Int] /\ g \in [D \cup {x} -> Int]
  BY <1>2
<1>4. \A i \in D : g[i] = f[i]
  OBVIOUS
<1> HIDE DEF D, x
<1>5. SumFunction(g) = SumFunction(f) + g[x]
  <2>1. ASSUME NEW h \in [D -> Int], NEW k \in [D \cup {x} -> Int], \A i \in D : k[i] = h[i]
        PROVE  SumFunction(k) = SumFunction(h) + k[x]
    BY <1>1, <2>1, SumExtends, SMTT(30)
  <2> QED
    BY <1>3, <1>4, <2>1, Zenon
<1> QED
  BY <1>5 DEF x

\* One value changed.
LEMMA SumUpdates ==
    ASSUME NEW D, IsFiniteSet(D), NEW f \in [D -> Int], NEW x \in D,
           NEW g \in [D -> Int], \A y \in D \ {x} : g[y] = f[y]
    PROVE  SumFunction(g) = SumFunction(f) - f[x] + g[x]
<1> DEFINE E == D \ {x}
           h == [y \in E |-> f[y]]
<1>1. IsFiniteSet(E) /\ E \cup {x} = D /\ x \notin E /\ h \in [E -> Int]
  BY FS_RemoveElement
<1>2. f \in [E \cup {x} -> Int] /\ g \in [E \cup {x} -> Int]
  BY <1>1
<1>3. \A y \in E : f[y] = h[y] /\ g[y] = h[y]
  OBVIOUS
<1> HIDE DEF E, h
<1>4. SumFunction(f) = SumFunction(h) + f[x]
  BY <1>1, <1>2, <1>3, SumExtends
<1>5. SumFunction(g) = SumFunction(h) + g[x]
  BY <1>1, <1>2, <1>3, SumExtends
<1>6. SumFunction(h) \in Int /\ f[x] \in Int /\ g[x] \in Int
  BY <1>1, SumType
<1> QED
  BY <1>4, <1>5, <1>6

\* Adding the values adds the sums.
LEMMA SumsAdd ==
    ASSUME NEW D, IsFiniteSet(D), NEW f \in [D -> Int], NEW g \in [D -> Int], NEW h \in [D -> Int],
           \A x \in D : h[x] = f[x] + g[x]
    PROVE  SumFunction(h) = SumFunction(f) + SumFunction(g)
<1>1. PICK sf : SumsOf(sf, f, D) /\ SumFunction(f) = sf[D]
  BY SumFunctionSums
<1>2. PICK sg : SumsOf(sg, g, D) /\ SumFunction(g) = sg[D]
  BY SumFunctionSums
<1>3. PICK sh : SumsOf(sh, h, D) /\ SumFunction(h) = sh[D]
  BY SumFunctionSums
<1> DEFINE sum == [S \in SUBSET D |-> sf[S] + sg[S]]
<1>4. SumsOf(sum, h, D)
  <2>1. sum \in [SUBSET D -> Int] /\ sum[{}] = 0
    BY <1>1, <1>2 DEF SumsOf
  <2>2. ASSUME NEW S \in SUBSET D, NEW x \in S
        PROVE  sum[S] = h[x] + sum[S \ {x}]
    <3>1. sf[S] = f[x] + sf[S \ {x}] /\ sg[S] = g[x] + sg[S \ {x}] /\ h[x] = f[x] + g[x]
      BY <1>1, <1>2 DEF SumsOf
    <3>2. /\ sf[S \ {x}] \in Int /\ sg[S \ {x}] \in Int /\ f[x] \in Int /\ g[x] \in Int
          /\ sum[S] = sf[S] + sg[S] /\ sum[S \ {x}] = sf[S \ {x}] + sg[S \ {x}]
      BY <1>1, <1>2 DEF SumsOf
    <3> HIDE DEF sum
    <3> QED
      BY <3>1, <3>2
  <2> QED
    BY <2>1, <2>2 DEF SumsOf
<1>5. sum[D] = sh[D]
  <2> HIDE DEF sum
  <2> QED
    BY <1>3, <1>4, SumsAgree
<1> QED
  BY <1>1, <1>2, <1>3, <1>5

LEMMA SumOfZeros ==
    ASSUME NEW D, IsFiniteSet(D), NEW f \in [D -> Int], \A x \in D : f[x] = 0
    PROVE  SumFunction(f) = 0
<1>1. SumFunction(f) = SumFunction(f) + SumFunction(f)
  BY SumsAdd
<1> QED
  BY <1>1, SumType

\* Shares of one size, a holder's as often as v names him: all of them together.
LEMMA SumOfShares ==
    ASSUME NEW A, IsFiniteSet(A), NEW N \in Nat, NEW v \in [1..N -> A], NEW share \in Int
    PROVE  SumFunction([a \in A |-> share * Cardinality({i \in 1..N : v[i] = a})]) = share * N
<1> DEFINE won(n, a) == {i \in 1..n : v[i] = a}
           held(n)   == [a \in A |-> share * Cardinality(won(n, a))]
           Bad       == {n \in 0..N : SumFunction(held(n)) # share * n}
<1>1. ASSUME NEW n \in 0..N, NEW a \in A
      PROVE  IsFiniteSet(won(n, a)) /\ Cardinality(won(n, a)) \in Nat
  <2>1. IsFiniteSet(1..n) /\ won(n, a) \in SUBSET (1..n)
    BY FS_Interval
  <2> HIDE DEF won
  <2> QED
    BY <2>1, FS_Subset, FS_CardinalityType
<1>2. \A n \in 0..N : held(n) \in [A -> Int]
  <2> HIDE DEF won
  <2> QED
    BY <1>1
<1>3. Bad = {}
  <2>1. SUFFICES ASSUME Bad # {} PROVE FALSE
    OBVIOUS
  <2>2. PICK n \in Bad : \A m \in Bad : n <= m
    <3>1. Bad \in SUBSET Nat
      OBVIOUS
    <3> HIDE DEF Bad
    <3> QED
      BY <2>1, <3>1, LeastElement
  <2>3. n \in 0..N /\ SumFunction(held(n)) # share * n
    BY <2>2
  <2>4. CASE n = 0
    <3>1. \A a \in A : won(0, a) = {}
      OBVIOUS
    <3>2. \A a \in A : held(0)[a] = 0
      BY <3>1, FS_EmptySet
    <3>3. SumFunction(held(0)) = 0
      <4>1. held(0) \in [A -> Int]
        BY <1>2, <2>3, <2>4
      <4> HIDE DEF held
      <4> QED
        BY <3>2, <4>1, SumOfZeros
    <3> QED
      BY <2>3, <2>4, <3>3
  <2>5. CASE n # 0
    <3>1. n - 1 \in 0..N /\ SumFunction(held(n - 1)) = share * (n - 1)
      <4>1. n - 1 \in 0..N /\ n - 1 \notin Bad
        <5> HIDE DEF Bad
        <5> QED
          BY <2>2, <2>3, <2>5
      <4> QED
        BY <4>1
    <3> DEFINE b == v[n]
    <3>2. b \in A /\ n \in 1..N
      BY <2>3, <2>5
    <3>3. \A a \in A \ {b} : won(n, a) = won(n - 1, a)
      BY <2>3, <2>5
    <3>4. won(n, b) = won(n - 1, b) \cup {n} /\ n \notin won(n - 1, b)
      BY <2>3, <2>5
    <3>5. Cardinality(won(n, b)) = Cardinality(won(n - 1, b)) + 1
      <4> HIDE DEF won
      <4> QED
        BY <1>1, <3>1, <3>2, <3>4, FS_AddElement
    <3>6. \A a \in A \ {b} : held(n)[a] = held(n - 1)[a]
      BY <3>3
    <3>7. held(n)[b] = held(n - 1)[b] + share
      <4> DEFINE k == Cardinality(won(n - 1, b))
      <4>1. k \in Nat /\ held(n)[b] = share * (k + 1) /\ held(n - 1)[b] = share * k
        BY <1>1, <3>1, <3>2, <3>5
      <4> HIDE DEF k, held, won, b
      <4> QED
        BY <4>1
    <3>8. SumFunction(held(n)) = SumFunction(held(n - 1)) - held(n - 1)[b] + held(n)[b]
      <4> DEFINE f == held(n - 1)
                 g == held(n)
      <4>1. f \in [A -> Int] /\ g \in [A -> Int]
        BY <1>2, <2>3, <3>1
      <4>2. \A a \in A \ {b} : g[a] = f[a]
        BY <3>6
      <4> HIDE DEF f, g, b
      <4>3. SumFunction(g) = SumFunction(f) - f[b] + g[b]
        BY <3>2, <4>1, <4>2, SumUpdates
      <4> QED
        BY <4>3 DEF f, g
    <3>9. held(n - 1)[b] \in Int /\ SumFunction(held(n - 1)) \in Int
      <4> HIDE DEF held
      <4> QED
        BY <1>2, <3>1, <3>2, SumType
    <3> HIDE DEF held, b
    <3>10. SumFunction(held(n)) = share * (n - 1) + share
      BY <3>1, <3>7, <3>8, <3>9
    <3> QED
      BY <2>3, <3>10
  <2> QED
    BY <2>4, <2>5
<1> HIDE DEF held, won
<1>4. SumFunction(held(N)) = share * N
  BY <1>3
<1> QED
  BY <1>4 DEF held, won
=============================================================================
