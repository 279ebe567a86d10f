--------------------------- MODULE EconomyProofs ---------------------------
(***************************************************************************)
(* Theorems about the three readers of the ledger that Economy composes,   *)
(* for every value of the constants: what resolving a market pays and who  *)
(* has a say in it, where a market stands and what it brings, how a gate   *)
(* is shut down.                                                           *)
(***************************************************************************)
EXTENDS Economy, SequenceTheorems, FiniteSetTheorems, WellFoundedInduction, TLAPS

------------------------------------------------------------------------------
(* Natural numbers *)

\* What holds of zero and of a number when it holds of the one before holds up to n.
LEMMA UpTo ==
  ASSUME NEW n \in Nat, NEW T, 0 \in T, \A i \in 1 .. n : i - 1 \in T => i \in T
  PROVE  \A i \in 0 .. n : i \in T
<1> DEFINE R == OpToRel(<, Nat)
           D == {i \in 0 .. n : i \notin T}
<1>1. SUFFICES ASSUME D # {} PROVE FALSE
  OBVIOUS
<1>2. PICK x \in D : \A y \in D : ~ (<<y, x>> \in R)
  <2>1. IsWellFoundedOn(R, Nat)
    BY NatLessThanWellFounded
  <2>2. D \in SUBSET Nat
    OBVIOUS
  <2> HIDE DEF R, D
  <2> QED BY <1>1, <2>1, <2>2, WFMin
<1>3. x # 0 /\ x \in 1 .. n
  OBVIOUS
<1>4. x - 1 \in D
  BY <1>3
<1>5. <<x - 1, x>> \in R
  BY <1>3 DEF OpToRel
<1> QED BY <1>2, <1>4, <1>5

\* Every nonempty set of naturals has a least element.
LEMMA LeastNat ==
  ASSUME NEW T \in SUBSET Nat, T # {}
  PROVE  \E x \in T : \A y \in T : x <= y
<1> DEFINE R == OpToRel(<, Nat)
<1>1. PICK x \in T : \A y \in T : ~ (<<y, x>> \in R)
  <2>1. IsWellFoundedOn(R, Nat)
    BY NatLessThanWellFounded
  <2> HIDE DEF R
  <2> QED BY <2>1, WFMin
<1>2. \A y \in T : y < x => <<y, x>> \in R
  BY DEF OpToRel
<1> HIDE DEF R
<1>3. \A y \in T : ~ (y < x)
  BY <1>1, <1>2
<1> QED BY <1>3

\* Every nonempty bounded set of naturals has a greatest element.
LEMMA GreatestNat ==
  ASSUME NEW T \in SUBSET Nat, T # {}, NEW b \in Nat, \A x \in T : x <= b
  PROVE  \E x \in T : \A y \in T : y <= x
<1> DEFINE D == {y \in Nat : \E x \in T : x + y = b}
<1>1. PICK x0 \in T : TRUE
  OBVIOUS
<1>2. b - x0 \in D
  <2>1. x0 \in Nat /\ x0 <= b
    OBVIOUS
  <2> QED BY <2>1
<1>3. PICK d \in D : \A y \in D : d <= y
  <2> HIDE DEF D
  <2>1. D \in SUBSET Nat
    BY DEF D
  <2> QED BY <1>2, <2>1, LeastNat
<1>4. PICK x1 \in T : x1 + d = b
  OBVIOUS
<1>5. ASSUME NEW y \in T PROVE y <= x1
  <2>1. y \in Nat /\ x1 \in Nat /\ d \in Nat /\ y <= b
    OBVIOUS
  <2>2. b - y \in D
    BY <2>1
  <2>3. d <= b - y
    BY <1>3, <2>2
  <2> QED BY <1>4, <2>1, <2>3
<1> QED BY <1>5

\* The lesser of two.
LEMMA MinOfTwo ==
  ASSUME NEW a \in Nat, NEW b \in Nat
  PROVE  Min({a, b}) = IF a <= b THEN a ELSE b
<1>1. \E x \in {a, b} : \A y \in {a, b} : x <= y
  OBVIOUS
<1>2. Min({a, b}) \in {a, b} /\ \A y \in {a, b} : Min({a, b}) <= y
  BY <1>1, Zenon DEF Min
<1> QED BY <1>2

------------------------------------------------------------------------------
(* Recursion over the naturals up to a bound *)

\* A step for each number, folded from a first value, is a function.
Steps(n, S) == [1 .. n -> [S -> S]]
Folded(first, step, n, S) ==
  \E f : /\ f[0] = first
         /\ \A i \in 1 .. n : f[i - 1] \in S /\ f[i] = step[i][f[i - 1]]

LEMMA Folding ==
  ASSUME NEW S, NEW first \in S, NEW n \in Nat, NEW step \in Steps(n, S)
  PROVE  Folded(first, step, n, S)
<1> DEFINE Folds(m, f) == /\ f[0] = first /\ f[m] \in S
                          /\ \A i \in 1 .. m : f[i - 1] \in S /\ f[i] = step[i][f[i - 1]]
           T == {m \in 0 .. n : \E f : Folds(m, f)}
<1>1. 0 \in T
  <2>1. Folds(0, [i \in 0 .. 0 |-> first])
    OBVIOUS
  <2> HIDE DEF Folds
  <2> QED BY <2>1
<1>2. ASSUME NEW m \in 1 .. n, m - 1 \in T PROVE m \in T
  <2>1. PICK g : Folds(m - 1, g)
    BY <1>2
  <2> DEFINE h == [i \in 0 .. m |-> IF i = m THEN step[m][g[m - 1]] ELSE g[i]]
  <2>2. h[0] = first /\ h[m] = step[m][g[m - 1]] /\ h[m] \in S
    BY <2>1 DEF Steps
  <2>3. ASSUME NEW i \in 1 .. m PROVE h[i - 1] \in S /\ h[i] = step[i][h[i - 1]]
    <3>1. i - 1 \in 0 .. m /\ i - 1 # m /\ h[i - 1] = g[i - 1]
      OBVIOUS
    <3>2. CASE i = m
      BY <2>1, <3>1, <3>2
    <3>3. CASE i # m
      <4>1. i \in 1 .. m - 1 /\ h[i] = g[i]
        BY <3>3
      <4> QED BY <2>1, <3>1, <4>1
    <3> QED BY <3>2, <3>3
  <2>5. Folds(m, h)
    <3> HIDE DEF h
    <3> QED BY <2>2, <2>3
  <2>6. m \in 0 .. n
    OBVIOUS
  <2> HIDE DEF Folds, h
  <2> QED BY <2>5, <2>6
<1>3. PICK f : Folds(n, f)
  <2>1. \A i \in 1 .. n : i - 1 \in T => i \in T
    BY <1>2
  <2> HIDE DEF T
  <2>2. \A i \in 0 .. n : i \in T
    BY <1>1, <2>1, UpTo
  <2> QED BY <2>2 DEF T
<1> QED BY <1>3 DEF Folded

------------------------------------------------------------------------------
(* Finite sets *)

\* A part of a finite set and its elements.
LEMMA PartIs ==
  ASSUME NEW S, IsFiniteSet(S), NEW T \in SUBSET S
  PROVE  /\ IsFiniteSet(T) /\ Cardinality(T) \in Nat /\ Cardinality(T) <= Cardinality(S)
         /\ T = {} <=> Cardinality(T) = 0
         /\ \A x \in T : T \ {x} \in SUBSET S /\ Cardinality(T \ {x}) = Cardinality(T) - 1
<1>1. IsFiniteSet(T) /\ Cardinality(T) <= Cardinality(S)
  BY FS_Subset
<1>2. Cardinality(T) \in Nat
  BY <1>1, FS_CardinalityType
<1>3. T = {} <=> Cardinality(T) = 0
  BY <1>1, FS_EmptySet
<1>4. \A x \in T : Cardinality(T \ {x}) = Cardinality(T) - 1
  BY <1>1, FS_RemoveElement
<1> QED BY <1>1, <1>2, <1>3, <1>4

\* What holds of a part when it holds of the part without any of its elements
\* holds of all parts.
LEMMA PartByPart ==
  ASSUME NEW S, IsFiniteSet(S), NEW D,
         \A T \in SUBSET S : (\A x \in T : T \ {x} \in D) => T \in D
  PROVE  \A T \in SUBSET S : T \in D
<1> DEFINE N == Cardinality(S)
           Sizes == {m \in 0 .. N : \A T \in SUBSET S : Cardinality(T) = m => T \in D}
<1>1. N \in Nat
  BY FS_CardinalityType
<1>2. 0 \in Sizes
  <2>1. ASSUME NEW T \in SUBSET S, Cardinality(T) = 0 PROVE T \in D
    <3>1. T = {}
      BY <2>1, PartIs
    <3> QED BY <3>1
  <2> QED BY <1>1, <2>1
<1>3. ASSUME NEW m \in 1 .. N, m - 1 \in Sizes PROVE m \in Sizes
  <2>1. ASSUME NEW T \in SUBSET S, Cardinality(T) = m PROVE T \in D
    <3>1. \A x \in T : T \ {x} \in SUBSET S /\ Cardinality(T \ {x}) = m - 1
      BY <2>1, PartIs
    <3> QED BY <1>3, <3>1
  <2> QED BY <2>1
<1>4. \A m \in 0 .. N : m \in Sizes
  <2>1. \A i \in 1 .. N : i - 1 \in Sizes => i \in Sizes
    BY <1>3
  <2> HIDE DEF N, Sizes
  <2> QED BY <1>1, <1>2, <2>1, UpTo
<1>5. ASSUME NEW T \in SUBSET S PROVE T \in D
  <2>1. Cardinality(T) \in 0 .. N
    BY <1>1, PartIs
  <2> QED BY <1>4, <2>1
<1> QED BY <1>5

------------------------------------------------------------------------------
(* Sums over finite sets *)

Weighs(f, S) == \A x \in S : f[x] \in Nat

\* g holds the sum of f over every part of S, taken as SumFunctionOnSet takes it.
Sums(f, g, S) ==
  \A T \in SUBSET S :
    g[T] = IF T = {} THEN 0
           ELSE f[CHOOSE y \in T : TRUE] + g[T \ {CHOOSE y \in T : TRUE}]

\* The same, whichever element is taken first.
Adds(f, g, S) ==
  /\ g[{}] = 0
  /\ \A T \in SUBSET S : g[T] \in Nat /\ \A x \in T : g[T] = f[x] + g[T \ {x}]

\* The sums of the parts up to some size, each from one smaller.
LEMMA SumsExist ==
  ASSUME NEW S, IsFiniteSet(S), NEW f
  PROVE  \E g : Sums(f, g, S)
<1> DEFINE Pick(T) == CHOOSE y \in T : TRUE
           Next1(g, T) == IF T = {} THEN 0 ELSE f[Pick(T)] + g[T \ {Pick(T)}]
           Upto(m, g) == \A T \in SUBSET S : Cardinality(T) <= m => g[T] = Next1(g, T)
           N == Cardinality(S)
           D == {m \in 0 .. N : \E g : Upto(m, g)}
<1>1. N \in Nat
  BY FS_CardinalityType
<1>2. \A T \in SUBSET S : T # {} => Pick(T) \in T
  OBVIOUS
<1> HIDE DEF Pick
<1>3. 0 \in D
  <2> DEFINE g == [T \in SUBSET S |-> 0]
  <2>1. Upto(0, g)
    BY PartIs
  <2> HIDE DEF Upto, N
  <2> QED BY <1>1, <2>1
<1>4. ASSUME NEW m \in 1 .. N, m - 1 \in D PROVE m \in D
  <2>1. PICK g : Upto(m - 1, g)
    BY <1>4
  <2> DEFINE h == [T \in SUBSET S |-> IF Cardinality(T) <= m - 1 THEN g[T] ELSE Next1(g, T)]
  <2>2. Upto(m, h)
    <3> SUFFICES ASSUME NEW T \in SUBSET S, Cardinality(T) <= m PROVE h[T] = Next1(h, T)
      OBVIOUS
    <3>1. Cardinality(T) \in Nat /\ (T = {} <=> Cardinality(T) = 0) /\ m \in Nat /\ m >= 1
      BY PartIs
    <3>2. h[T] = Next1(g, T)
      <4>1. CASE Cardinality(T) <= m - 1
        <5>1. h[T] = g[T]
          BY <4>1
        <5> QED BY <2>1, <4>1, <5>1
      <4>2. CASE ~ (Cardinality(T) <= m - 1)
        BY <4>2
      <4> QED BY <4>1, <4>2
    <3>3. CASE T = {}
      BY <3>2, <3>3
    <3>4. CASE T # {}
      <4> DEFINE R == T \ {Pick(T)}
      <4>1. R \in SUBSET S /\ Cardinality(R) = Cardinality(T) - 1
        <5>1. Pick(T) \in T
          BY <1>2, <3>4
        <5> QED BY <5>1, PartIs
      <4>2. Cardinality(R) <= m - 1
        BY <3>1, <4>1
      <4>3. h[R] = g[R]
        <5> HIDE DEF R
        <5> QED BY <4>1, <4>2
      <4> HIDE DEF h
      <4> QED BY <3>2, <3>4, <4>3
    <3> QED BY <3>3, <3>4
  <2>3. m \in 0 .. N
    OBVIOUS
  <2> HIDE DEF Upto, h, N
  <2> QED BY <2>2, <2>3
<1>5. N \in D
  <2>1. \A i \in 1 .. N : i - 1 \in D => i \in D
    BY <1>4
  <2> HIDE DEF D, N
  <2> QED BY <1>1, <1>3, <2>1, UpTo
<1>6. PICK g : Upto(N, g)
  BY <1>5
<1>7. \A T \in SUBSET S : Cardinality(T) <= N
  BY PartIs
<1> QED BY <1>6, <1>7 DEF Sums, Pick

\* The order in which the elements are taken does not matter.
AddsInts(f, g, S) ==
  /\ g[{}] = 0
  /\ \A T \in SUBSET S : g[T] \in Int /\ \A x \in T : g[T] = f[x] + g[T \ {x}]

LEMMA SumsAddInts ==
  ASSUME NEW S, IsFiniteSet(S), NEW f, \A x \in S : f[x] \in Int, NEW g, Sums(f, g, S)
  PROVE  AddsInts(f, g, S)
<1>1. g[{}] = 0
  BY DEF Sums
<1>2. ASSUME NEW T \in SUBSET S, T # {}
      PROVE  \E c \in T : f[c] \in Int /\ g[T] = f[c] + g[T \ {c}]
  <2>1. (CHOOSE y \in T : TRUE) \in T
    BY <1>2
  <2> QED BY <1>2, <2>1 DEF Sums
<1>3. \A T \in SUBSET S : g[T] \in Int
  <2> DEFINE D == {T \in SUBSET S : g[T] \in Int}
  <2>1. ASSUME NEW T \in SUBSET S, \A x \in T : T \ {x} \in D PROVE T \in D
    <3>1. CASE T = {}
      BY <1>1, <3>1
    <3>2. CASE T # {}
      <4>1. PICK c \in T : f[c] \in Int /\ g[T] = f[c] + g[T \ {c}]
        BY <1>2, <3>2
      <4>2. g[T \ {c}] \in Int
        BY <2>1
      <4> QED BY <4>1, <4>2
    <3> QED BY <3>1, <3>2
  <2>2. \A T \in SUBSET S : T \in D
    <3> HIDE DEF D
    <3> QED BY <2>1, PartByPart
  <2> QED BY <2>2
<1>4. \A T \in SUBSET S : \A x \in T : g[T] = f[x] + g[T \ {x}]
  <2> DEFINE D == {T \in SUBSET S : \A x \in T : g[T] = f[x] + g[T \ {x}]}
  <2>1. ASSUME NEW T \in SUBSET S, \A x \in T : T \ {x} \in D PROVE T \in D
    <3>1. ASSUME NEW x \in T PROVE g[T] = f[x] + g[T \ {x}]
      <4>1. PICK c \in T : f[c] \in Int /\ g[T] = f[c] + g[T \ {c}]
        BY <1>2
      <4>2. CASE x = c
        BY <4>1, <4>2
      <4>3. CASE x # c
        <5> DEFINE R == (T \ {c}) \ {x}
        <5>1. g[T \ {c}] = f[x] + g[R]
          BY <2>1, <4>3
        <5>2. g[T \ {x}] = f[c] + g[R]
          <6>1. R = (T \ {x}) \ {c}
            OBVIOUS
          <6> HIDE DEF R
          <6> QED BY <2>1, <4>3, <6>1
        <5>3. f[x] \in Int /\ g[R] \in Int
          BY <1>3
        <5> HIDE DEF R
        <5> QED BY <4>1, <5>1, <5>2, <5>3
      <4> QED BY <4>2, <4>3
    <3> QED BY <3>1
  <2>2. \A T \in SUBSET S : T \in D
    <3> HIDE DEF D
    <3> QED BY <2>1, PartByPart
  <2> QED BY <2>2
<1> QED BY <1>1, <1>3, <1>4 DEF AddsInts

LEMMA SumsAdd ==
  ASSUME NEW S, IsFiniteSet(S), NEW f, Weighs(f, S), NEW g, Sums(f, g, S)
  PROVE  Adds(f, g, S)
<1>1. AddsInts(f, g, S)
  <2>1. \A x \in S : f[x] \in Int
    BY DEF Weighs
  <2> QED BY <2>1, SumsAddInts
<1> DEFINE D == {T \in SUBSET S : g[T] \in Nat}
<1>2. ASSUME NEW T \in SUBSET S, \A x \in T : T \ {x} \in D PROVE T \in D
  <2>1. CASE T = {}
    BY <1>1, <2>1 DEF AddsInts
  <2>2. CASE T # {}
    <3>1. PICK c \in T : TRUE
      BY <2>2
    <3>2. g[T] = f[c] + g[T \ {c}] /\ f[c] \in Nat /\ g[T \ {c}] \in Nat
      BY <1>1, <1>2 DEF AddsInts, Weighs
    <3> QED BY <3>2
  <2> QED BY <2>1, <2>2
<1>3. \A T \in SUBSET S : T \in D
  <2> HIDE DEF D
  <2> QED BY <1>2, PartByPart
<1> QED BY <1>1, <1>3 DEF AddsInts, Adds

\* What f comes to on S.
Total(f, S) == SumFunction([x \in S |-> f[x]])

\* One function holds the totals of all parts.
LEMMA TotalIs ==
  ASSUME NEW S, IsFiniteSet(S), NEW f, Weighs(f, S)
  PROVE  \E g : Adds(f, g, S) /\ \A T \in SUBSET S : Total(f, T) = g[T]
<1>1. PICK g : Sums(f, g, S)
  BY SumsExist
<1>2. Adds(f, g, S)
  BY <1>1, SumsAdd
<1>3. ASSUME NEW T \in SUBSET S PROVE Total(f, T) = g[T]
  <2> DEFINE e == [x \in T |-> f[x]]
             Is(h) == h = [s \in SUBSET T |->
                             IF s = {} THEN 0
                             ELSE e[CHOOSE y \in s : TRUE] + h[s \ {CHOOSE y \in s : TRUE}]]
             c == CHOOSE h : Is(h)
  <2>1. Total(f, T) = c[T]
    BY DEF Total, SumFunction, SumFunctionOnSet, FoldFunctionOnSet, MapThenFoldSet
  <2>2. Is([s \in SUBSET T |-> g[s]])
    <3> DEFINE h == [s \in SUBSET T |-> g[s]]
    <3>1. ASSUME NEW s \in SUBSET T
          PROVE  h[s] = IF s = {} THEN 0
                        ELSE e[CHOOSE y \in s : TRUE] + h[s \ {CHOOSE y \in s : TRUE}]
      BY <1>1 DEF Sums
    <3> QED BY <3>1
  <2>3. Is(c)
    <3> HIDE DEF Is
    <3> QED BY <2>2
  <2> HIDE DEF c
  <2> DEFINE D == {R \in SUBSET T : c[R] = g[R]}
  <2>4. ASSUME NEW R \in SUBSET T, \A x \in R : R \ {x} \in D PROVE R \in D
    <3>1. CASE R = {}
      BY <1>1, <2>3, <3>1 DEF Sums
    <3>2. CASE R # {}
      <4> DEFINE x == CHOOSE y \in R : TRUE
      <4>1. x \in R /\ e[x] = f[x]
        BY <3>2
      <4>2. c[R] = e[x] + c[R \ {x}]
        BY <2>3, <3>2
      <4>3. g[R] = f[x] + g[R \ {x}]
        BY <1>1, <3>2 DEF Sums
      <4> HIDE DEF x, e
      <4> QED BY <2>4, <4>1, <4>2, <4>3
    <3> QED BY <3>1, <3>2
  <2>5. \A R \in SUBSET T : R \in D
    <3>1. IsFiniteSet(T)
      BY FS_Subset
    <3> HIDE DEF D
    <3> QED BY <2>4, <3>1, PartByPart
  <2> QED BY <2>1, <2>5
<1> QED BY <1>2, <1>3

\* A total is a natural, nothing comes to nothing, and a new element adds its own.
LEMMA TotalGrows ==
  ASSUME NEW S, IsFiniteSet(S), NEW f, Weighs(f, S)
  PROVE  /\ Total(f, {}) = 0
         /\ \A T \in SUBSET S : Total(f, T) \in Nat
         /\ \A T \in SUBSET S : \A x \in S \ T : Total(f, T \union {x}) = Total(f, T) + f[x]
<1>1. PICK g : Adds(f, g, S) /\ \A T \in SUBSET S : Total(f, T) = g[T]
  BY TotalIs
<1>2. ASSUME NEW T \in SUBSET S, NEW x \in S \ T
      PROVE  Total(f, T \union {x}) = Total(f, T) + f[x]
  <2> DEFINE U == T \union {x}
  <2>1. U \in SUBSET S /\ x \in U /\ U \ {x} = T
    OBVIOUS
  <2> HIDE DEF U
  <2>2. g[U] = f[x] + g[T] /\ g[T] \in Nat /\ f[x] \in Nat
    BY <1>1, <2>1 DEF Adds, Weighs
  <2> QED BY <1>1, <2>1, <2>2 DEF U
<1> QED BY <1>1, <1>2 DEF Adds

\* The total of a combination is the combination of the totals.
LEMMA TotalLinear ==
  ASSUME NEW S, IsFiniteSet(S), NEW f, Weighs(f, S), NEW g, Weighs(g, S), NEW h,
         NEW p \in Nat, NEW q \in Nat, \A x \in S : h[x] = p * f[x] + q * g[x]
  PROVE  Total(h, S) = p * Total(f, S) + q * Total(g, S)
<1>1. Weighs(h, S)
  BY DEF Weighs
<1>2. PICK F : Adds(f, F, S) /\ \A T \in SUBSET S : Total(f, T) = F[T]
  BY TotalIs
<1>3. PICK G : Adds(g, G, S) /\ \A T \in SUBSET S : Total(g, T) = G[T]
  BY TotalIs
<1>4. PICK H : Adds(h, H, S) /\ \A T \in SUBSET S : Total(h, T) = H[T]
  BY <1>1, TotalIs
<1> DEFINE D == {T \in SUBSET S : H[T] = p * F[T] + q * G[T]}
<1>5. ASSUME NEW T \in SUBSET S, \A x \in T : T \ {x} \in D PROVE T \in D
  <2>1. CASE T = {}
    BY <1>2, <1>3, <1>4, <2>1 DEF Adds
  <2>2. CASE T # {}
    <3>1. PICK x \in T : TRUE
      BY <2>2
    <3> DEFINE R == T \ {x}
    <3>2. H[T] = h[x] + H[R] /\ F[T] = f[x] + F[R] /\ G[T] = g[x] + G[R]
      BY <1>2, <1>3, <1>4 DEF Adds
    <3>3. H[R] = p * F[R] + q * G[R] /\ h[x] = p * f[x] + q * g[x]
      BY <1>5, <3>1
    <3>4. F[R] \in Nat /\ G[R] \in Nat /\ f[x] \in Nat /\ g[x] \in Nat
      BY <1>2, <1>3 DEF Adds, Weighs
    <3> HIDE DEF R
    <3>5. p * (f[x] + F[R]) = p * f[x] + p * F[R] /\ q * (g[x] + G[R]) = q * g[x] + q * G[R]
      BY <3>4
    <3> QED BY <3>2, <3>3, <3>4, <3>5
  <2> QED BY <2>1, <2>2
<1>6. \A T \in SUBSET S : T \in D
  <2> HIDE DEF D
  <2> QED BY <1>5, PartByPart
<1> QED BY <1>2, <1>3, <1>4, <1>6

\* What counts nothing outside of a part comes to what the part comes to.
LEMMA TotalOfPart ==
  ASSUME NEW S, IsFiniteSet(S), NEW T \in SUBSET S, NEW f, NEW h, Weighs(h, S),
         \A x \in S : h[x] = IF x \in T THEN f[x] ELSE 0
  PROVE  Total(h, S) = Total(f, T)
<1>1. PICK H : Adds(h, H, S) /\ \A R \in SUBSET S : Total(h, R) = H[R]
  BY TotalIs
<1> DEFINE D == {R \in SUBSET S : H[R] = H[R \intersect T]}
<1>2. ASSUME NEW R \in SUBSET S, \A x \in R : R \ {x} \in D PROVE R \in D
  <2>1. CASE R \in SUBSET T
    <3>1. R \intersect T = R
      BY <2>1
    <3> QED BY <3>1
  <2>2. ASSUME NEW x \in R, x \notin T PROVE R \in D
    <3> HIDE DEF D
    <3>1. H[R] = H[R \ {x}]
      <4>1. H[R] = h[x] + H[R \ {x}] /\ h[x] = 0 /\ H[R \ {x}] \in Nat
        BY <1>1, <2>2 DEF Adds
      <4> QED BY <4>1
    <3>2. H[R \ {x}] = H[(R \ {x}) \intersect T]
      BY <1>2 DEF D
    <3>3. (R \ {x}) \intersect T = R \intersect T
      BY <2>2
    <3>4. H[R] = H[R \intersect T]
      BY <3>1, <3>2, <3>3
    <3> QED BY <3>4 DEF D
  <2> QED BY <2>1, <2>2
<1>3. \A R \in SUBSET S : R \in D
  <2> HIDE DEF D
  <2> QED BY <1>2, PartByPart
<1>4. H[S] = H[T]
  <2>1. S \intersect T = T
    OBVIOUS
  <2> QED BY <1>3, <2>1
<1>5. Total(h, T) = Total(f, T)
  <2>1. [x \in T |-> h[x]] = [x \in T |-> f[x]]
    OBVIOUS
  <2> QED BY <2>1 DEF Total
<1> QED BY <1>1, <1>4, <1>5

\* The same for each comes to as much as there are.
LEMMA TotalOfSame ==
  ASSUME NEW S, IsFiniteSet(S), NEW c \in Nat, NEW f, \A x \in S : f[x] = c
  PROVE  Total(f, S) = c * Cardinality(S)
<1>1. Weighs(f, S)
  BY DEF Weighs
<1>2. PICK F : Adds(f, F, S) /\ \A T \in SUBSET S : Total(f, T) = F[T]
  BY <1>1, TotalIs
<1> DEFINE D == {T \in SUBSET S : F[T] = c * Cardinality(T)}
<1>3. ASSUME NEW T \in SUBSET S, \A x \in T : T \ {x} \in D PROVE T \in D
  <2>1. CASE T = {}
    <3>1. F[T] = 0 /\ Cardinality(T) = 0
      BY <1>2, <2>1, FS_EmptySet DEF Adds
    <3> QED BY <3>1
  <2>2. CASE T # {}
    <3>1. PICK x \in T : TRUE
      BY <2>2
    <3>2. F[T] = c + F[T \ {x}]
      BY <1>2 DEF Adds
    <3>3. F[T \ {x}] = c * Cardinality(T \ {x})
      BY <1>3
    <3>4. Cardinality(T) \in Nat /\ Cardinality(T \ {x}) = Cardinality(T) - 1
      BY PartIs
    <3>5. c * (Cardinality(T) - 1) = c * Cardinality(T) - c
      BY <3>4
    <3>6. c * Cardinality(T) \in Nat
      BY <3>4
    <3> QED BY <3>2, <3>3, <3>4, <3>5, <3>6
  <2> QED BY <2>1, <2>2
<1>4. \A T \in SUBSET S : T \in D
  <2> HIDE DEF D
  <2> QED BY <1>3, PartByPart
<1> QED BY <1>2, <1>4

\* A part comes to no more than the whole.
LEMMA TotalOrder ==
  ASSUME NEW S, IsFiniteSet(S), NEW f, Weighs(f, S), NEW T \in SUBSET S
  PROVE  Total(f, T) <= Total(f, S)
<1>1. PICK g : Adds(f, g, S) /\ \A R \in SUBSET S : Total(f, R) = g[R]
  BY TotalIs
<1> DEFINE D == {R \in SUBSET S : \A Q \in SUBSET R : g[Q] <= g[R]}
<1>2. ASSUME NEW R \in SUBSET S, \A x \in R : R \ {x} \in D PROVE R \in D
  <2>1. ASSUME NEW Q \in SUBSET R PROVE g[Q] <= g[R]
    <3>1. CASE Q = R
      <4>1. g[R] \in Nat
        BY <1>1 DEF Adds
      <4> QED BY <3>1, <4>1
    <3>2. CASE Q # R
      <4>1. PICK x \in R : x \notin Q
        BY <3>2
      <4>2. g[R] = f[x] + g[R \ {x}] /\ g[R \ {x}] \in Nat /\ f[x] \in Nat /\ g[Q] \in Nat
        <5>1. Q \in SUBSET S /\ R \ {x} \in SUBSET S
          OBVIOUS
        <5> QED BY <1>1, <5>1 DEF Adds, Weighs
      <4>3. g[Q] <= g[R \ {x}]
        <5>1. Q \in SUBSET (R \ {x})
          BY <4>1
        <5> QED BY <1>2, <5>1
      <4> QED BY <4>2, <4>3
    <3> QED BY <3>1, <3>2
  <2> QED BY <2>1
<1>3. S \in D
  <2> HIDE DEF D
  <2> QED BY <1>2, PartByPart
<1> QED BY <1>1, <1>3

\* The same for some and nothing for the others.
LEMMA TotalOfChosen ==
  ASSUME NEW S, IsFiniteSet(S), NEW T \in SUBSET S, NEW c \in Nat, NEW h,
         \A x \in S : h[x] = IF x \in T THEN c ELSE 0
  PROVE  Total(h, S) = c * Cardinality(T)
<1> DEFINE f == [x \in T |-> c]
<1>1. Weighs(h, S) /\ IsFiniteSet(T) /\ \A x \in T : f[x] = c
  BY FS_Subset DEF Weighs
<1>2. \A x \in S : h[x] = IF x \in T THEN f[x] ELSE 0
  OBVIOUS
<1> HIDE DEF f
<1>3. Total(h, S) = Total(f, T)
  BY <1>1, <1>2, TotalOfPart
<1>4. Total(f, T) = c * Cardinality(T)
  BY <1>1, TotalOfSame
<1> QED BY <1>3, <1>4

------------------------------------------------------------------------------
(* Money *)

LEMMA MoneyIs ==
  /\ Unit \in Nat \ {0} /\ Unit = 50 * Parts /\ BurnPct = Parts /\ BurnPct \in Nat
  /\ Bond \in Nat /\ Unit - BurnPct \in Nat /\ Unit - BurnPct = 49 * Parts
  /\ FirstBonus \in Nat
<1>1. Parts \in Nat \ {0}
  BY PartsAssumption
<1> QED BY <1>1 DEF Unit, BurnPct, Bond, FirstBonus

\* What leaves no rest is a multiple.
LEMMA Divided ==
  ASSUME NEW a \in Nat, NEW b \in Nat \ {0}, a % b = 0
  PROVE  \E q \in Nat : a = b * q
<1> DEFINE q == a \div b
<1>1. q \in Int
  OBVIOUS
<1>2. a = b * q + (a % b)
  OBVIOUS
<1> HIDE DEF q
<1>3. b * q = a
  BY <1>1, <1>2
<1>4. q >= 0
  <2> SUFFICES ASSUME q <= -1 PROVE FALSE
    BY <1>1
  <2>1. b * q <= -b
    BY <1>1
  <2> QED BY <1>3, <2>1
<1> QED BY <1>1, <1>3, <1>4

\* What is won of a pool can be shared among its winners.
LEMMA SharesAreWhole ==
  ASSUME NEW lost \in Nat, NEW won \in 1 .. MaxPool
  PROVE  /\ ((Unit - BurnPct) * lost) \div won \in Nat
         /\ (((Unit - BurnPct) * lost) \div won) * won = (Unit - BurnPct) * lost
<1>1. PICK q \in Nat : Parts = won * q
  <2>1. Parts % won = 0 /\ Parts \in Nat /\ won \in Nat \ {0}
    BY PartsAssumption
  <2> QED BY <2>1, Divided
<1> DEFINE k == (49 * q) * lost
<1>2. k \in Nat /\ won \in Nat \ {0}
  BY PartsAssumption
<1>3. (Unit - BurnPct) * lost = won * k
  <2>1. Unit - BurnPct = 49 * (won * q)
    BY <1>1, MoneyIs
  <2> QED BY <2>1, <1>2
<1> HIDE DEF k
<1>4. (won * k) \div won = k
  BY <1>2
<1>5. k * won = won * k
  BY <1>2
<1> QED BY <1>2, <1>3, <1>4, <1>5

------------------------------------------------------------------------------
(* The inductive invariant *)

\* What is in the chain has its type, and there are finitely many of everything;
\* a hash names one vote of a node; the pools are small enough to be shared.
Inv ==
  /\ boot \in BOOLEAN /\ frozen \in BOOLEAN
  /\ links \subseteq Nodes \X Nodes /\ IsFiniteSet(links)
  /\ evidence \in Seq(Sides)
  /\ stakes \subseteq StakeType /\ IsFiniteSet(stakes)
  /\ votes \subseteq VoteType /\ IsFiniteSet(votes)
  /\ \A v, w \in votes : v.node = w.node /\ v.hash = w.hash => v = w
  /\ ~boot => Amount(stakes) <= MaxPool

\* Reputation by stake.
Amounts(S) == [s \in S |-> s.amount]

\* What a set of stakes amounts to.
LEMMA AmountIs ==
  ASSUME NEW S \in SUBSET StakeType, IsFiniteSet(S)
  PROVE  /\ Weighs(Amounts(S), S)
         /\ \A T \in SUBSET S : Amount(T) = Total(Amounts(S), T)
         /\ Amount({}) = 0
         /\ \A T \in SUBSET S : Amount(T) \in Nat /\ Amount(T) <= Amount(S)
         /\ \A T \in SUBSET S : T # {} => Amount(T) > 0
<1> DEFINE f == Amounts(S)
<1>1. Weighs(f, S) /\ \A x \in S : f[x] \in Nat \ {0}
  BY DEF Weighs, StakeType, Amounts
<1>2. ASSUME NEW T \in SUBSET S PROVE Amount(T) = Total(f, T)
  <2>1. [s \in T |-> s.amount] = [s \in T |-> f[s]]
    BY DEF Amounts
  <2> QED BY <2>1 DEF Amount, Total
<1> HIDE DEF f
<1>3. /\ Total(f, {}) = 0
      /\ \A T \in SUBSET S : Total(f, T) \in Nat
      /\ \A T \in SUBSET S : \A x \in S \ T : Total(f, T \union {x}) = Total(f, T) + f[x]
  BY <1>1, TotalGrows
<1>4. \A T \in SUBSET S : Total(f, T) <= Total(f, S)
  BY <1>1, TotalOrder
<1>5. ASSUME NEW T \in SUBSET S, T # {} PROVE Total(f, T) > 0
  <2>1. PICK x \in T : TRUE
    BY <1>5
  <2> DEFINE R == T \ {x}
  <2>2. R \in SUBSET S /\ x \in S \ R /\ T = R \union {x}
    OBVIOUS
  <2> HIDE DEF R
  <2>3. Total(f, T) = Total(f, R) + f[x]
    BY <1>3, <2>2
  <2>4. Total(f, R) \in Nat /\ f[x] \in Nat \ {0}
    BY <1>1, <1>3, <2>2
  <2> QED BY <2>3, <2>4
<1>6. {} \in SUBSET S /\ S \in SUBSET S
  OBVIOUS
<1> QED BY <1>1, <1>2, <1>3, <1>4, <1>5, <1>6 DEF f

\* A stake adds its amount, once.
LEMMA AmountGrows ==
  ASSUME NEW S \in SUBSET StakeType, IsFiniteSet(S), NEW x \in StakeType
  PROVE  /\ IsFiniteSet(S \union {x})
         /\ Amount(S \union {x}) = IF x \in S THEN Amount(S) ELSE Amount(S) + x.amount
<1>1. IsFiniteSet(S \union {x})
  BY FS_AddElement
<1>2. CASE x \in S
  <2>1. S \union {x} = S
    BY <1>2
  <2> QED BY <1>1, <1>2, <2>1
<1>3. CASE x \notin S
  <2> DEFINE U == S \union {x}
             f == Amounts(U)
  <2>1. /\ U \in SUBSET StakeType /\ IsFiniteSet(U) /\ S \in SUBSET U
        /\ U \in SUBSET U /\ x \in U \ S /\ f[x] = x.amount
    BY <1>1, <1>3 DEF Amounts
  <2> HIDE DEF U, f
  <2>2. Weighs(f, U) /\ \A T \in SUBSET U : Amount(T) = Total(f, T)
    BY <2>1, AmountIs DEF f
  <2>3. Total(f, S \union {x}) = Total(f, S) + f[x]
    BY <2>1, <2>2, TotalGrows
  <2> QED BY <1>1, <1>3, <2>1, <2>2, <2>3 DEF U
<1> QED BY <1>2, <1>3

LEMMA StakesHaveTypes ==
  ASSUME NEW offer \in Offers, NEW side \in Sides \union {"data_unavailable"}
  PROVE  StakeOf(offer, side) \in StakeType /\ StakeOf(offer, side).amount = offer.amount
BY OffersAssumption DEF StakeOf, StakeType

LEMMA InitOK == ResolutionInit => Inv
<1> SUFFICES ASSUME ResolutionInit PROVE Inv
  OBVIOUS
<1>1. IsFiniteSet({})
  BY FS_EmptySet
<1>2. Amount({}) = 0
  BY <1>1, AmountIs
<1>3. MaxPool \in Nat
  BY PartsAssumption
<1>4. /\ boot \in BOOLEAN /\ frozen = FALSE /\ links = {}
      /\ evidence = <<>> /\ stakes = {} /\ votes = {}
  BY DEF ResolutionInit
<1>5. evidence \in Seq(Sides)
  BY <1>4
<1>6. Amount(stakes) <= MaxPool
  BY <1>2, <1>3, <1>4
<1> QED BY <1>1, <1>4, <1>5, <1>6 DEF Inv

LEMMA ResolutionOK == Inv /\ ResolutionNext => Inv'
<1> SUFFICES ASSUME Inv, ResolutionNext PROVE Inv'
  OBVIOUS
<1>1. ASSUME NEW side \in Sides, Submit(side) PROVE Inv'
  BY <1>1 DEF Inv, Submit
<1>2. ASSUME NEW offer \in Offers, NEW side \in Sides \union {"data_unavailable"},
             Stake(offer, side)
      PROVE  Inv'
  <2> DEFINE s == StakeOf(offer, side)
  <2>1. s \in StakeType /\ s.amount = offer.amount /\ s.amount \in Nat
    BY StakesHaveTypes DEF StakeType
  <2> HIDE DEF s
  <2>2. stakes' = stakes \union {s} /\ UNCHANGED <<boot, frozen, links, evidence, votes>>
    BY <1>2 DEF Stake, s
  <2>3. stakes \subseteq StakeType /\ IsFiniteSet(stakes)
    BY DEF Inv
  <2>4. /\ IsFiniteSet(stakes')
        /\ Amount(stakes') = IF s \in stakes THEN Amount(stakes) ELSE Amount(stakes) + s.amount
    BY <2>1, <2>2, <2>3, AmountGrows
  <2>5. ~boot => Amount(stakes) + s.amount <= MaxPool
    BY <1>2, <2>1 DEF Stake
  <2>6. ~boot => Amount(stakes) <= MaxPool
    BY DEF Inv
  <2>7. ~boot' => Amount(stakes') <= MaxPool
    BY <2>2, <2>4, <2>5, <2>6
  <2> QED BY <2>1, <2>2, <2>4, <2>7 DEF Inv
<1>3. ASSUME NEW n \in Nodes, NEW side \in Sides, NEW hash \in 1 .. 2,
             VoteBootstrap(n, side, hash)
      PROVE  Inv'
  <2> DEFINE v == [node |-> n, side |-> side, hash |-> hash]
  <2>1. v \in VoteType /\ v.node = n /\ v.hash = hash
    BY DEF VoteType
  <2> HIDE DEF v
  <2>2. votes' = votes \union {v} /\ UNCHANGED <<boot, frozen, links, evidence, stakes>>
    BY <1>3 DEF VoteBootstrap, v
  <2>3. IsFiniteSet(votes')
    BY <2>2, FS_AddElement DEF Inv
  <2>4. \A w \in votes : ~ (w.node = v.node /\ w.hash = v.hash)
    BY <1>3, <2>1 DEF VoteBootstrap
  <2>5. \A u, w \in votes' : u.node = w.node /\ u.hash = w.hash => u = w
    <3> SUFFICES ASSUME NEW u \in votes', NEW w \in votes', u.node = w.node, u.hash = w.hash
                 PROVE  u = w
      OBVIOUS
    <3>1. CASE u \in votes /\ w \in votes
      BY <3>1 DEF Inv
    <3>2. CASE u = v \/ w = v
      BY <2>2, <2>4, <3>2
    <3> QED BY <2>2, <3>1, <3>2
  <2> QED BY <2>1, <2>2, <2>3, <2>5 DEF Inv
<1>4. ASSUME NEW link \in Rotations, Rotate(link[1], link[2]) PROVE Inv'
  <2>1. /\ links' = links \union {<<link[1], link[2]>>}
        /\ UNCHANGED <<boot, frozen, evidence, stakes, votes>>
    BY <1>4 DEF Rotate
  <2>2. <<link[1], link[2]>> \in Nodes \X Nodes
    BY NodesAssumption
  <2>3. IsFiniteSet(links')
    BY <2>1, FS_AddElement DEF Inv
  <2> QED BY <2>1, <2>2, <2>3 DEF Inv
<1>5. ASSUME Freeze PROVE Inv'
  BY <1>5 DEF Inv, Freeze
<1> QED BY <1>1, <1>2, <1>3, <1>4, <1>5 DEF ResolutionNext

LEMMA StepOK == Inv /\ [Next]_vars => Inv'
<1>1. ASSUME Inv, UNCHANGED resolutionVars PROVE Inv'
  BY <1>1 DEF Inv, resolutionVars
<1> QED BY <1>1, ResolutionOK DEF Next, vars

LEMMA Invariance == Spec => []Inv
<1>1. Init => Inv
  BY InitOK DEF Init
<1> QED BY <1>1, StepOK, PTL DEF Spec

------------------------------------------------------------------------------
(* What is decided *)

LEMMA LeadingIs ==
  ASSUME NEW cast
  PROVE  LET total == cast["yes"] + cast["no"]
             Leads(side) == total > 0 /\ 4 * cast[side] >= 3 * total
             leader == Leading(cast) IN
         /\ leader \in Sides \union {"none"}
         /\ leader # "none" => Leads(leader)
         /\ leader = "none" => \A side \in Sides : ~ Leads(side)
<1> DEFINE total == cast["yes"] + cast["no"]
           Leads(side) == total > 0 /\ 4 * cast[side] >= 3 * total
           leads == {side \in Sides : Leads(side)}
<1>1. Leading(cast) = IF leads = {} THEN "none" ELSE CHOOSE side \in Sides : side \in leads
  BY DEF Leading
<1>2. "none" \notin Sides
  BY DEF Sides
<1>3. leads # {} => (CHOOSE side \in Sides : side \in leads) \in leads
  OBVIOUS
<1> QED BY <1>1, <1>2, <1>3

\* Who has not decided a market has not won it.
LEMMA DecisionIs ==
  /\ Winner \in Sides \union {"none"}
  /\ Outcome # "invalid" <=> Reason = "supermajority"
  /\ Reason = "supermajority" =>
       /\ Outcome = Winner /\ Winner \in Sides /\ Claims(Winner) # {}
       /\ evidence # <<>> /\ Invalidity = "none"
  /\ Reason = "no_evidence" <=> evidence = <<>>
  /\ boot => Reason \in {"no_evidence", "bootstrap_below_min_participation",
                         "bootstrap_no_supermajority", "no_winning_side_evidence",
                         "supermajority"}
  /\ ~boot => Reason \in {"no_evidence", "data_unavailable", "below_min_resolution_stake",
                          "no_supermajority", "no_winning_side_evidence", "supermajority"}
<1>1. Winner \in Sides \union {"none"}
  BY LeadingIs DEF Winner
<1>2. Invalidity = "none" => Winner # "none"
  BY DEF Invalidity
<1>3. boot => Invalidity \in {"none", "bootstrap_below_min_participation",
                              "bootstrap_no_supermajority"}
  BY DEF Invalidity
<1>4. ~boot => Invalidity \in {"none", "data_unavailable", "below_min_resolution_stake",
                               "no_supermajority"}
  BY DEF Invalidity
<1>5. Invalidity \notin {"no_evidence", "no_winning_side_evidence", "supermajority"}
  BY <1>3, <1>4
<1>6. "invalid" \notin Sides /\ "none" \notin Sides
  BY DEF Sides
<1>7. Reason = "supermajority" =>
        Winner \in Sides /\ Claims(Winner) # {} /\ evidence # <<>> /\ Invalidity = "none"
  BY <1>1, <1>2, <1>5 DEF Reason
<1>8. Reason = "no_evidence" <=> evidence = <<>>
  BY <1>5 DEF Reason
<1>9. Outcome = IF Reason = "supermajority" THEN Winner ELSE "invalid"
  BY DEF Outcome
<1>10. Reason \in {"no_evidence", "no_winning_side_evidence", "supermajority", Invalidity}
       /\ Reason # "none"
  BY DEF Reason
<1> HIDE DEF Winner, Reason, Invalidity, Outcome, Claims
<1> QED BY <1>1, <1>3, <1>4, <1>6, <1>7, <1>8, <1>9, <1>10

------------------------------------------------------------------------------
(* Bonds *)

LEMMA EvidenceIs ==
  ASSUME Inv
  PROVE  /\ DOMAIN evidence = 1 .. Len(evidence) /\ Len(evidence) \in Nat
         /\ IsFiniteSet(DOMAIN evidence) /\ Cardinality(DOMAIN evidence) = Len(evidence)
         /\ \A side : /\ Claims(side) \in SUBSET DOMAIN evidence
                      /\ Cardinality(Claims(side)) \in Nat
                      /\ Cardinality(DOMAIN evidence \ Claims(side))
                           = Len(evidence) - Cardinality(Claims(side))
                      /\ Cardinality(DOMAIN evidence \ Claims(side)) \in Nat
<1>1. DOMAIN evidence = 1 .. Len(evidence) /\ Len(evidence) \in Nat
  BY DEF Inv
<1>2. IsFiniteSet(DOMAIN evidence) /\ Cardinality(DOMAIN evidence) = Len(evidence)
  <2>1. \A n \in Nat : IsFiniteSet(1 .. n) /\ Cardinality(1 .. n) = n
    <3>1. ASSUME NEW n \in Nat PROVE IsFiniteSet(1 .. n) /\ Cardinality(1 .. n) = n
      <4>1. /\ IsFiniteSet(1 .. n)
            /\ Cardinality(1 .. n) = IF 1 > n THEN 0 ELSE n - 1 + 1
        BY FS_Interval
      <4> QED BY <4>1
    <3> QED BY <3>1
  <2> QED BY <1>1, <2>1
<1>3. ASSUME NEW side
      PROVE  /\ Claims(side) \in SUBSET DOMAIN evidence
             /\ Cardinality(Claims(side)) \in Nat
             /\ Cardinality(DOMAIN evidence \ Claims(side))
                  = Len(evidence) - Cardinality(Claims(side))
             /\ Cardinality(DOMAIN evidence \ Claims(side)) \in Nat
  <2> DEFINE C == Claims(side)
             R == DOMAIN evidence \ C
  <2>1. C \in SUBSET DOMAIN evidence
    BY DEF Claims
  <2> HIDE DEF C
  <2>2. Cardinality(C) \in Nat /\ Cardinality(R) \in Nat
    BY <1>2, <2>1, PartIs
  <2>3. Cardinality(R) = Cardinality(DOMAIN evidence) - Cardinality(DOMAIN evidence \intersect C)
    BY <1>2, FS_Difference
  <2>4. DOMAIN evidence \intersect C = C
    BY <2>1
  <2> QED BY <1>2, <2>1, <2>2, <2>3, <2>4 DEF C
<1> QED BY <1>1, <1>2, <1>3

\* Who was wrong loses the bond, and everybody where nothing could be known.
LEMMA BondsAre ==
  ASSUME Inv, evidence # <<>>
  PROVE  /\ LosingBonds \in Nat
         /\ LosingBonds = Bond * (Len(evidence) - Cardinality(Claims(Winner)))
         /\ Bond * Len(evidence) \in Nat
         /\ Bond * Len(evidence) = LosingBonds + Bond * Cardinality(Claims(Winner))
         /\ Sum(BondReturned, DOMAIN evidence)
              = IF Reason = "data_unavailable" THEN 0
                ELSE IF Outcome # "invalid" THEN Bond * Cardinality(Claims(Winner))
                ELSE Bond * Len(evidence)
<1> DEFINE E == DOMAIN evidence
           N == Len(evidence)
           C == Claims(Winner)
           f == [i \in E |-> BondReturned(i)]
<1>1. /\ IsFiniteSet(E) /\ Cardinality(E) = N /\ N \in Nat
      /\ C \in SUBSET E /\ Cardinality(C) \in Nat
      /\ Cardinality(E \ C) = N - Cardinality(C) /\ Cardinality(E \ C) \in Nat
  BY EvidenceIs
<1>2. Bond \in Nat
  BY MoneyIs
<1>3. LosingBonds = Bond * (N - Cardinality(C)) /\ LosingBonds \in Nat
  BY <1>1, <1>2 DEF LosingBonds
<1>4. Bond * N \in Nat /\ Bond * N = LosingBonds + Bond * Cardinality(C)
  <2>1. Bond * (N - Cardinality(C)) = Bond * N - Bond * Cardinality(C)
    BY <1>1, <1>2
  <2>2. Bond * N \in Nat /\ Bond * Cardinality(C) \in Nat
    BY <1>1, <1>2
  <2> HIDE DEF N, C
  <2> QED BY <1>3, <2>1, <2>2
<1>5. Sum(BondReturned, E) = Total(f, E)
  <2>1. [i \in E |-> BondReturned(i)] = [i \in E |-> f[i]]
    OBVIOUS
  <2> QED BY <2>1 DEF Sum, Total
<1>6. ASSUME NEW chosen \in SUBSET E, \A i \in E : BondReturned(i) = IF i \in chosen THEN Bond ELSE 0
      PROVE  Total(f, E) = Bond * Cardinality(chosen)
  <2>1. \A i \in E : f[i] = IF i \in chosen THEN Bond ELSE 0
    BY <1>6
  <2> HIDE DEF f, E
  <2> QED BY <1>1, <1>2, <2>1, TotalOfChosen
<1>7. Reason # "no_evidence"
  BY DecisionIs
<1>8. CASE Reason = "data_unavailable"
  <2>1. \A i \in E : BondReturned(i) = IF i \in {} THEN Bond ELSE 0
    BY <1>8 DEF BondReturned
  <2>2. Total(f, E) = Bond * Cardinality({})
    BY <1>6, <2>1
  <2>3. Bond * Cardinality({}) = 0
    BY <1>2, FS_EmptySet
  <2> QED BY <1>3, <1>4, <1>5, <1>8, <2>2, <2>3
<1>9. CASE Reason # "data_unavailable" /\ Outcome # "invalid"
  <2>1. Outcome = Winner
    BY <1>9, DecisionIs
  <2>2. \A i \in E : BondReturned(i) = IF i \in C THEN Bond ELSE 0
    BY <1>7, <1>9, <2>1 DEF BondReturned, Claims
  <2>3. Total(f, E) = Bond * Cardinality(C)
    BY <1>1, <1>6, <2>2
  <2> QED BY <1>3, <1>4, <1>5, <1>9, <2>3
<1>10. CASE Reason # "data_unavailable" /\ Outcome = "invalid"
  <2>1. \A i \in E : BondReturned(i) = IF i \in E THEN Bond ELSE 0
    BY <1>7, <1>10 DEF BondReturned
  <2>2. Total(f, E) = Bond * N
    BY <1>1, <1>6, <2>1
  <2> QED BY <1>3, <1>4, <1>5, <1>10, <2>2
<1> QED BY <1>8, <1>9, <1>10

\* The bonus goes to one, out of the bonds that are lost.
LEMMA BonusIs ==
  ASSUME Inv, evidence # <<>>
  PROVE  /\ Sum(Bonus, DOMAIN evidence) \in Nat
         /\ Sum(Bonus, DOMAIN evidence) <= LosingBonds
         /\ Outcome = "invalid" \/ boot => Sum(Bonus, DOMAIN evidence) = 0
<1> DEFINE E == DOMAIN evidence
           C == Claims(Winner)
           f == [i \in E |-> Bonus(i)]
<1>1. IsFiniteSet(E) /\ C \in SUBSET E /\ E \in SUBSET Nat /\ LosingBonds \in Nat
  <2>1. E \in SUBSET Nat
    BY EvidenceIs
  <2> QED BY <2>1, EvidenceIs, BondsAre
<1>2. Sum(Bonus, E) = Total(f, E)
  <2>1. [i \in E |-> Bonus(i)] = [i \in E |-> f[i]]
    OBVIOUS
  <2> QED BY <2>1 DEF Sum, Total
<1>3. ASSUME NEW chosen \in SUBSET E, NEW c \in Nat,
             \A i \in E : Bonus(i) = IF i \in chosen THEN c ELSE 0
      PROVE  Total(f, E) = c * Cardinality(chosen)
  <2>1. \A i \in E : f[i] = IF i \in chosen THEN c ELSE 0
    BY <1>3
  <2> HIDE DEF f, E
  <2> QED BY <1>1, <2>1, TotalOfChosen
<1>4. CASE Outcome = "invalid" \/ boot
  <2>1. \A i \in E : Bonus(i) = IF i \in {} THEN 0 ELSE 0
    BY <1>4 DEF Bonus
  <2>2. Total(f, E) = 0 * Cardinality({}) /\ Cardinality({}) = 0
    BY <1>3, <2>1, FS_EmptySet
  <2> QED BY <1>1, <1>2, <2>2
<1>5. CASE Outcome # "invalid" /\ ~boot
  <2> DEFINE first == Min(C)
             c == Min({FirstBonus, LosingBonds})
  <2>1. c \in Nat /\ c <= LosingBonds
    BY <1>1, MoneyIs, MinOfTwo
  <2>2. first \in C
    <3>1. C # {} /\ C \in SUBSET Nat
      BY <1>1, <1>5, DecisionIs
    <3>2. \E x \in C : \A y \in C : x <= y
      BY <3>1, LeastNat
    <3> HIDE DEF C
    <3> QED BY <3>2, Zenon DEF Min
  <2>3. \A i \in E : Bonus(i) = IF i \in {first} THEN c ELSE 0
    BY <1>5 DEF Bonus
  <2>4. {first} \in SUBSET E
    BY <1>1, <2>2
  <2> HIDE DEF c, first
  <2>5. Total(f, E) = c * Cardinality({first}) /\ Cardinality({first}) = 1
    BY <1>3, <2>1, <2>3, <2>4, FS_Singleton
  <2> QED BY <1>2, <1>5, <2>1, <2>5
<1> QED BY <1>4, <1>5

------------------------------------------------------------------------------
(* Stakes *)

LEMMA CountedIs ==
  ASSUME Inv
  PROVE  Counted \in SUBSET StakeType /\ Counted \in SUBSET stakes /\ IsFiniteSet(Counted)
<1>1. Counted \in SUBSET stakes /\ stakes \in SUBSET StakeType /\ IsFiniteSet(stakes)
  BY DEF Counted, Inv
<1> QED BY <1>1, FS_Subset

\* One rate for some stakes and another for the others.
LEMMA TwoRates ==
  ASSUME NEW S \in SUBSET StakeType, IsFiniteSet(S), NEW T \in SUBSET S,
         NEW p \in Nat, NEW q \in Nat, NEW h,
         \A s \in S : h[s] = IF s \in T THEN p * s.amount ELSE q * s.amount
  PROVE  Total(h, S) = p * Amount(T) + q * Amount(S \ T)
<1> DEFINE a == Amounts(S)
           f == [s \in S |-> IF s \in T THEN s.amount ELSE 0]
           g == [s \in S |-> IF s \in S \ T THEN s.amount ELSE 0]
<1>1. \A s \in S : s.amount \in Nat /\ a[s] = s.amount
  BY DEF StakeType, Amounts
<1>2. Weighs(f, S) /\ Weighs(g, S)
  BY <1>1 DEF Weighs
<1>3. \A s \in S : h[s] = p * f[s] + q * g[s]
  <2>1. ASSUME NEW s \in S PROVE h[s] = p * f[s] + q * g[s]
    <3>1. CASE s \in T
      <4>1. f[s] = s.amount /\ g[s] = 0 /\ h[s] = p * s.amount /\ p * s.amount \in Nat /\ q * 0 = 0
        BY <1>1, <3>1
      <4> HIDE DEF f, g
      <4> QED BY <4>1
    <3>2. CASE s \notin T
      <4>1. f[s] = 0 /\ g[s] = s.amount /\ h[s] = q * s.amount /\ q * s.amount \in Nat /\ p * 0 = 0
        BY <1>1, <3>2
      <4> HIDE DEF f, g
      <4> QED BY <4>1
    <3> QED BY <3>1, <3>2
  <2> QED BY <2>1
<1>4. \A s \in S : /\ f[s] = IF s \in T THEN a[s] ELSE 0
                   /\ g[s] = IF s \in S \ T THEN a[s] ELSE 0
  BY <1>1
<1> HIDE DEF a, f, g
<1>5. Total(h, S) = p * Total(f, S) + q * Total(g, S)
  BY <1>2, <1>3, TotalLinear
<1>6. Total(f, S) = Total(a, T) /\ Total(g, S) = Total(a, S \ T)
  BY <1>2, <1>4, TotalOfPart
<1>7. Total(a, T) = Amount(T) /\ Total(a, S \ T) = Amount(S \ T)
  BY AmountIs DEF a
<1> QED BY <1>5, <1>6, <1>7

\* Amounts of what is apart add up.
LEMMA AmountsAdd ==
  ASSUME NEW S \in SUBSET StakeType, IsFiniteSet(S), NEW T \in SUBSET S
  PROVE  Amount(S) = Amount(T) + Amount(S \ T)
<1> DEFINE a == Amounts(S)
<1>1. \A s \in S : a[s] = IF s \in T THEN 1 * s.amount ELSE 1 * s.amount
  BY DEF StakeType, Amounts
<1>2. Amount(S) = Total(a, S) /\ Amount(T) \in Nat /\ Amount(S \ T) \in Nat
  BY AmountIs
<1> HIDE DEF a
<1>3. Total(a, S) = 1 * Amount(T) + 1 * Amount(S \ T)
  BY <1>1, TwoRates
<1> QED BY <1>2, <1>3

LEMMA ApartAdd ==
  ASSUME NEW S \in SUBSET StakeType, IsFiniteSet(S), NEW T \in SUBSET S, NEW U \in SUBSET S,
         T \intersect U = {}
  PROVE  Amount(T \union U) = Amount(T) + Amount(U)
<1> DEFINE V == T \union U
<1>1. V \in SUBSET StakeType /\ T \in SUBSET V /\ V \ T = U
  OBVIOUS
<1>2. IsFiniteSet(V)
  <2>1. V \in SUBSET S
    OBVIOUS
  <2> HIDE DEF V
  <2> QED BY <2>1, FS_Subset
<1> HIDE DEF V
<1>3. Amount(V) = Amount(T) + Amount(V \ T)
  BY <1>1, <1>2, AmountsAdd
<1> QED BY <1>1, <1>3 DEF V

\* What the stakes come to where each is paid back at one of two rates.
LEMMA ReturnsAre ==
  ASSUME Inv, NEW T \in SUBSET Counted, NEW p \in Nat, NEW q \in Nat,
         \A s \in Counted : Returned(s) = IF s \in T THEN p * s.amount ELSE q * s.amount
  PROVE  Sum(Returned, Counted) = p * Amount(T) + q * Amount(Counted \ T)
<1> DEFINE f == [s \in Counted |-> Returned(s)]
<1>1. Sum(Returned, Counted) = Total(f, Counted)
  <2>1. [s \in Counted |-> Returned(s)] = [s \in Counted |-> f[s]]
    OBVIOUS
  <2> QED BY <2>1 DEF Sum, Total
<1>2. \A s \in Counted : f[s] = IF s \in T THEN p * s.amount ELSE q * s.amount
  OBVIOUS
<1> HIDE DEF f
<1>3. Total(f, Counted) = p * Amount(T) + q * Amount(Counted \ T)
  BY <1>2, CountedIs, TwoRates
<1> QED BY <1>1, <1>3

LEMMA BurntIs ==
  ASSUME Inv, NEW T \in SUBSET Counted
  PROVE  Sum(Burnt, T) = BurnPct * Amount(T)
<1> DEFINE f == [s \in T |-> Burnt(s)]
<1>1. Sum(Burnt, T) = Total(f, T)
  <2>1. [s \in T |-> Burnt(s)] = [s \in T |-> f[s]]
    OBVIOUS
  <2> QED BY <2>1 DEF Sum, Total
<1>2. \A s \in T : f[s] = IF s \in T THEN BurnPct * s.amount ELSE 0 * s.amount
  BY DEF Burnt
<1>3. T \in SUBSET StakeType /\ IsFiniteSet(T) /\ T \in SUBSET T /\ T \ T = {}
  BY CountedIs, FS_Subset
<1> HIDE DEF f
<1>4. Total(f, T) = BurnPct * Amount(T) + 0 * Amount(T \ T)
  BY <1>2, <1>3, MoneyIs, TwoRates
<1>5. Amount(T) \in Nat /\ Amount(T \ T) = 0
  BY <1>3, AmountIs
<1>6. BurnPct * Amount(T) \in Nat
  BY <1>5, MoneyIs
<1> QED BY <1>1, <1>4, <1>5, <1>6

\* Nobody wins anything but by a supermajority of reputation.
LEMMA NothingWon ==
  ASSUME Inv, Outcome = "invalid" \/ boot
  PROVE  Sum(Won, Counted) = 0
<1> DEFINE f == [s \in Counted |-> Won(s)]
<1>1. Sum(Won, Counted) = Total(f, Counted)
  <2>1. [s \in Counted |-> Won(s)] = [s \in Counted |-> f[s]]
    OBVIOUS
  <2> QED BY <2>1 DEF Sum, Total
<1>2. \A s \in Counted : f[s] = 0
  BY DEF Won
<1>3. IsFiniteSet(Counted) /\ Cardinality(Counted) \in Nat
  BY CountedIs, FS_CardinalityType
<1> HIDE DEF f
<1>4. Total(f, Counted) = 0 * Cardinality(Counted)
  BY <1>2, <1>3, TotalOfSame
<1> QED BY <1>1, <1>3, <1>4

Reps == {"oracle", "common"}

\* What has been staked of one kind of reputation on the winner and against it.
LEMMA SidesAre ==
  ASSUME Inv, NEW rep \in Reps
  PROVE  /\ For(Winner, rep) \in SUBSET Counted /\ Losing(rep) \in SUBSET Counted
         /\ Amount(For(Winner, rep)) \in Nat /\ Amount(Losing(rep)) \in Nat
         /\ rep \in Pools <=> For(Winner, rep) # {} /\ Losing(rep) # {}
         /\ rep \in Pools /\ ~boot => Amount(For(Winner, rep)) \in 1 .. MaxPool
<1>1. For(Winner, rep) \in SUBSET Counted /\ Losing(rep) \in SUBSET Counted
  BY DEF For, Losing, Of
<1>2. Amount(For(Winner, rep)) \in Nat /\ Amount(Losing(rep)) \in Nat
  BY <1>1, CountedIs, AmountIs
<1>3. rep \in Pools <=> For(Winner, rep) # {} /\ Losing(rep) # {}
  BY DEF Pools, Reps
<1>4. ASSUME rep \in Pools, ~boot PROVE Amount(For(Winner, rep)) \in 1 .. MaxPool
  <2>1. /\ For(Winner, rep) \in SUBSET stakes /\ For(Winner, rep) # {}
        /\ stakes \in SUBSET StakeType /\ IsFiniteSet(stakes) /\ Amount(stakes) <= MaxPool
    BY <1>1, <1>3, <1>4, CountedIs DEF Inv
  <2>2. Amount(For(Winner, rep)) > 0 /\ Amount(For(Winner, rep)) <= Amount(stakes)
    BY <2>1, AmountIs
  <2>3. Amount(stakes) \in Nat /\ MaxPool \in Nat
    BY <2>1, AmountIs, PartsAssumption
  <2> QED BY <1>2, <2>1, <2>2, <2>3
<1> QED BY <1>1, <1>2, <1>3, <1>4

\* What a unit on the winner wins of a pool.
Rate(rep) ==
  IF rep \in Pools
    THEN ((Unit - BurnPct) * Amount(Losing(rep))) \div Amount(For(Winner, rep)) ELSE 0

TaxOf(rep) == IF rep \in Pools THEN Tax(rep) ELSE 0
Orphaned(rep) == IF rep \in Pools THEN {} ELSE Losing(rep)

\* Of every kind of reputation: what is lost is won, burned, or lost for good.
LEMMA PoolIsShared ==
  ASSUME Inv, ~boot, NEW rep \in Reps
  PROVE  /\ Rate(rep) \in Nat /\ TaxOf(rep) \in Nat /\ Amount(Orphaned(rep)) \in Nat
         /\ Rate(rep) * Amount(For(Winner, rep)) \in Nat
         /\ Unit * Amount(Losing(rep))
              = Rate(rep) * Amount(For(Winner, rep)) + TaxOf(rep) + Unit * Amount(Orphaned(rep))
<1> DEFINE L == Amount(Losing(rep))
           F == Amount(For(Winner, rep))
<1>1. /\ L \in Nat /\ F \in Nat /\ Unit \in Nat /\ BurnPct \in Nat /\ Unit - BurnPct \in Nat
      /\ Losing(rep) \in SUBSET Counted
  BY SidesAre, MoneyIs
<1>2. Amount({}) = 0
  BY CountedIs, AmountIs
<1>3. CASE rep \in Pools
  <2>1. F \in 1 .. MaxPool
    BY <1>3, SidesAre
  <2> DEFINE r == ((Unit - BurnPct) * L) \div F
  <2>2. r \in Nat /\ r * F = (Unit - BurnPct) * L
    <3> HIDE DEF L, F
    <3> QED BY <1>1, <2>1, SharesAreWhole
  <2>3. Rate(rep) = r /\ TaxOf(rep) = BurnPct * L /\ Amount(Orphaned(rep)) = 0
    BY <1>2, <1>3 DEF Rate, TaxOf, Tax, Orphaned
  <2>4. (Unit - BurnPct) * L = Unit * L - BurnPct * L /\ BurnPct * L \in Nat /\ Unit * L \in Nat
    BY <1>1
  <2>5. (Unit - BurnPct) * L \in Nat
    BY <1>1
  <2> HIDE DEF r, L, F
  <2> QED BY <1>1, <2>2, <2>3, <2>4, <2>5 DEF L, F
<1>4. CASE rep \notin Pools
  <2>1. Rate(rep) = 0 /\ TaxOf(rep) = 0 /\ Orphaned(rep) = Losing(rep)
    BY <1>4 DEF Rate, TaxOf, Orphaned
  <2>2. Unit * L \in Nat /\ 0 * F = 0
    BY <1>1
  <2> QED BY <1>1, <2>1, <2>2
<1> QED BY <1>3, <1>4

\* The winners take their shares of the pools that somebody has won.
LEMMA WonIs ==
  ASSUME Inv, ~boot, Outcome # "invalid"
  PROVE  Sum(Won, Counted) = Rate("oracle") * Amount(For(Winner, "oracle"))
                               + Rate("common") * Amount(For(Winner, "common"))
<1> DEFINE a == Amounts(Counted)
           w == [s \in Counted |-> Won(s)]
           O == For(Winner, "oracle")
           C == For(Winner, "common")
           f == [s \in Counted |-> IF s \in O THEN s.amount ELSE 0]
           g == [s \in Counted |-> IF s \in C THEN s.amount ELSE 0]
<1>1. Sum(Won, Counted) = Total(w, Counted)
  <2>1. [s \in Counted |-> Won(s)] = [s \in Counted |-> w[s]]
    OBVIOUS
  <2> QED BY <2>1 DEF Sum, Total
<1>2. \A s \in Counted : s.amount \in Nat /\ a[s] = s.amount /\ s.rep \in Reps
  BY CountedIs DEF StakeType, Amounts, Reps
<1>3. Weighs(f, Counted) /\ Weighs(g, Counted) /\ IsFiniteSet(Counted)
  BY <1>2, CountedIs DEF Weighs
<1>4. Rate("oracle") \in Nat /\ Rate("common") \in Nat
  BY PoolIsShared DEF Reps
<1>5. ASSUME NEW s \in Counted
      PROVE  w[s] = Rate("oracle") * f[s] + Rate("common") * g[s]
  <2>1. /\ s \in O <=> s.side = Winner /\ s.rep = "oracle"
        /\ s \in C <=> s.side = Winner /\ s.rep = "common"
    BY DEF For, Of
  <2>2. w[s] = IF s.side = Winner THEN s.amount * Rate(s.rep) ELSE 0
    <3>1. s.rep \notin Pools => s.amount * Rate(s.rep) = 0
      BY <1>2 DEF Rate
    <3>2. s.rep \in Pools /\ s.side = Winner => w[s] = s.amount * Rate(s.rep)
      BY DEF Won, Rate
    <3>3. s.rep \notin Pools \/ s.side # Winner => w[s] = 0
      BY DEF Won
    <3> QED BY <3>1, <3>2, <3>3
  <2>3. Rate("oracle") * 0 = 0 /\ Rate("common") * 0 = 0
    BY <1>4
  <2>4. CASE s.side = Winner /\ s.rep = "oracle"
    <3>1. f[s] = s.amount /\ g[s] = 0 /\ w[s] = s.amount * Rate("oracle")
      BY <2>1, <2>2, <2>4
    <3> HIDE DEF f, g, w
    <3>2. s.amount * Rate("oracle") \in Nat /\ s.amount * Rate("oracle") = Rate("oracle") * s.amount
      BY <1>2, <1>4
    <3> QED BY <2>3, <3>1, <3>2
  <2>5. CASE s.side = Winner /\ s.rep = "common"
    <3>1. f[s] = 0 /\ g[s] = s.amount /\ w[s] = s.amount * Rate("common")
      BY <2>1, <2>2, <2>5
    <3> HIDE DEF f, g, w
    <3>2. s.amount * Rate("common") \in Nat /\ s.amount * Rate("common") = Rate("common") * s.amount
      BY <1>2, <1>4
    <3> QED BY <2>3, <3>1, <3>2
  <2>6. CASE s.side # Winner
    <3>1. f[s] = 0 /\ g[s] = 0 /\ w[s] = 0
      BY <2>1, <2>2, <2>6
    <3> HIDE DEF f, g, w
    <3> QED BY <2>3, <3>1
  <2> QED BY <1>2, <2>4, <2>5, <2>6 DEF Reps
<1>6. /\ O \in SUBSET Counted /\ \A s \in Counted : f[s] = IF s \in O THEN a[s] ELSE 0
      /\ C \in SUBSET Counted /\ \A s \in Counted : g[s] = IF s \in C THEN a[s] ELSE 0
  BY <1>2, SidesAre DEF Reps
<1> HIDE DEF a, f, g, w, O, C
<1>7. Total(w, Counted) = Rate("oracle") * Total(f, Counted) + Rate("common") * Total(g, Counted)
  BY <1>3, <1>4, <1>5, TotalLinear
<1>8. Total(f, Counted) = Total(a, O) /\ Total(g, Counted) = Total(a, C)
  BY <1>3, <1>6, TotalOfPart
<1>9. Total(a, O) = Amount(O) /\ Total(a, C) = Amount(C)
  BY <1>6, CountedIs, AmountIs DEF a
<1> QED BY <1>1, <1>7, <1>8, <1>9 DEF O, C

LEMMA TaxesAre ==
  ASSUME Inv, ~boot
  PROVE  Sum(Tax, Pools) = TaxOf("oracle") + TaxOf("common")
<1> DEFINE t == [rep \in Reps |-> TaxOf(rep)]
           e == [rep \in Pools |-> Tax(rep)]
<1>1. Sum(Tax, Pools) = Total(e, Pools)
  <2>1. [rep \in Pools |-> Tax(rep)] = [rep \in Pools |-> e[rep]]
    OBVIOUS
  <2> QED BY <2>1 DEF Sum, Total
<1>2. Pools \in SUBSET Reps
  BY DEF Pools, Reps
<1>3. \A rep \in Reps : t[rep] = IF rep \in Pools THEN e[rep] ELSE 0
  BY DEF TaxOf
<1>4. Weighs(t, Reps)
  BY PoolIsShared DEF Weighs
<1>5. t["oracle"] = TaxOf("oracle") /\ t["common"] = TaxOf("common")
  BY DEF Reps
<1>6. IsFiniteSet(Reps)
  <2>1. IsFiniteSet({"oracle"})
    BY FS_Singleton
  <2>2. IsFiniteSet({"oracle"} \union {"common"})
    BY <2>1, FS_AddElement
  <2>3. {"oracle"} \union {"common"} = Reps
    BY DEF Reps
  <2> QED BY <2>2, <2>3
<1> HIDE DEF t, e
<1>7. Total(t, Reps) = Total(e, Pools)
  BY <1>2, <1>3, <1>4, <1>6, TotalOfPart
<1>8. /\ Total(t, {}) = 0
      /\ \A T \in SUBSET Reps : Total(t, T) \in Nat
      /\ \A T \in SUBSET Reps : \A x \in Reps \ T : Total(t, T \union {x}) = Total(t, T) + t[x]
  BY <1>4, <1>6, TotalGrows
<1>9. Total(t, {"oracle"}) = t["oracle"]
  <2>1. "oracle" \in Reps \ {} /\ {} \in SUBSET Reps /\ {} \union {"oracle"} = {"oracle"}
    BY DEF Reps
  <2>2. Total(t, {"oracle"}) = Total(t, {}) + t["oracle"]
    BY <1>8, <2>1
  <2>3. t["oracle"] \in Nat
    BY <1>4, <2>1 DEF Weighs
  <2> QED BY <1>8, <2>2, <2>3
<1>10. Total(t, Reps) = t["oracle"] + t["common"]
  <2>1. "common" \in Reps \ {"oracle"} /\ {"oracle"} \in SUBSET Reps
    BY DEF Reps
  <2>2. {"oracle"} \union {"common"} = Reps
    BY DEF Reps
  <2>3. Total(t, {"oracle"} \union {"common"}) = Total(t, {"oracle"}) + t["common"]
    BY <1>8, <2>1
  <2> QED BY <1>9, <2>2, <2>3
<1> QED BY <1>1, <1>5, <1>7, <1>10

\* The stakes of different kinds of reputation are apart.
LEMMA KindsApart ==
  ASSUME Inv
  PROVE  /\ Amount(Losing("oracle") \union Losing("common"))
              = Amount(Losing("oracle")) + Amount(Losing("common"))
         /\ Amount(UNION {Losing(rep) : rep \in Reps \ Pools})
              = Amount(Orphaned("oracle")) + Amount(Orphaned("common"))
<1>1. /\ Losing("oracle") \in SUBSET Counted /\ Losing("common") \in SUBSET Counted
      /\ Losing("oracle") \intersect Losing("common") = {}
  BY DEF Losing, Of
<1>2. /\ Orphaned("oracle") \in SUBSET Counted /\ Orphaned("common") \in SUBSET Counted
      /\ Orphaned("oracle") \intersect Orphaned("common") = {}
  BY <1>1 DEF Orphaned
<1>3. UNION {Losing(rep) : rep \in Reps \ Pools} = Orphaned("oracle") \union Orphaned("common")
  BY DEF Orphaned, Reps
<1>4. Amount(Losing("oracle") \union Losing("common"))
        = Amount(Losing("oracle")) + Amount(Losing("common"))
  BY <1>1, CountedIs, ApartAdd
<1>5. Amount(Orphaned("oracle") \union Orphaned("common"))
        = Amount(Orphaned("oracle")) + Amount(Orphaned("common"))
  BY <1>2, CountedIs, ApartAdd
<1> QED BY <1>3, <1>4, <1>5

------------------------------------------------------------------------------
(* The settlement *)

\* The stakes on one side, what became of them on the other.
StakesBalance ==
  LET taken ==
        CASE Reason = "data_unavailable" -> Sum(Burnt, {s \in Counted : s.side \in Sides})
          [] Reason = "no_supermajority" -> Sum(Burnt, Counted)
          [] Reason = "supermajority" /\ ~boot -> Sum(Tax, Pools)
          [] OTHER -> 0
      gone ==
        IF boot THEN Unit * Amount(Counted)
        ELSE IF Outcome = "invalid" THEN 0
        ELSE Unit * Amount(UNION {Losing(rep) : rep \in Reps \ Pools})
  IN /\ {Sum(Returned, Counted), Sum(Won, Counted), taken, gone} \subseteq Nat
     /\ Unit * Amount(Counted) = Sum(Returned, Counted) + Sum(Won, Counted) + taken + gone

LEMMA AllIsReturned ==
  ASSUME Inv, NEW q \in Nat, \A s \in Counted : Returned(s) = q * s.amount
  PROVE  Sum(Returned, Counted) = q * Amount(Counted)
<1>1. Sum(Returned, Counted) = 0 * Amount({}) + q * Amount(Counted \ {})
  <2>1. {} \in SUBSET Counted /\ \A s \in Counted : s \notin {}
    OBVIOUS
  <2> QED BY <2>1, ReturnsAre
<1>2. Amount({}) = 0 /\ Amount(Counted) \in Nat
  BY CountedIs, AmountIs
<1>3. Counted \ {} = Counted
  OBVIOUS
<1>4. q * Amount(Counted) \in Nat
  BY <1>2
<1> QED BY <1>1, <1>2, <1>3, <1>4

LEMMA WonStakesBalance ==
  ASSUME Inv, ~boot, Reason = "supermajority"
  PROVE  StakesBalance
<1> DEFINE T == Losing("oracle") \union Losing("common")
           Lo == Amount(Losing("oracle"))
           Lc == Amount(Losing("common"))
           rest == Amount(Counted \ T)
           Wo == Rate("oracle") * Amount(For(Winner, "oracle"))
           Wc == Rate("common") * Amount(For(Winner, "common"))
           Vo == Amount(Orphaned("oracle"))
           Vc == Amount(Orphaned("common"))
<1>1. T \in SUBSET Counted /\ Outcome # "invalid"
  BY SidesAre, DecisionIs DEF Reps
<1>2. \A s \in Counted : Returned(s) = IF s \in T THEN 0 * s.amount ELSE Unit * s.amount
  <2>1. ASSUME NEW s \in Counted
        PROVE  Returned(s) = IF s \in T THEN 0 * s.amount ELSE Unit * s.amount
    <3>1. s \in T <=> s \in Losing(s.rep)
      BY CountedIs DEF Losing, Of, StakeType
    <3>2. Returned(s) = IF s \in Losing(s.rep) THEN 0 ELSE Unit * s.amount
      BY DEF Returned
    <3>3. 0 * s.amount = 0
      BY CountedIs DEF StakeType
    <3> QED BY <3>1, <3>2, <3>3
  <2> QED BY <2>1
<1>3. Amount(T) \in Nat /\ rest \in Nat /\ Amount(Counted) = Amount(T) + rest
  BY <1>1, CountedIs, AmountIs, AmountsAdd
<1>4. Sum(Returned, Counted) = Unit * rest
  <2>1. Sum(Returned, Counted) = 0 * Amount(T) + Unit * rest
    <3> HIDE DEF T
    <3> QED BY <1>1, <1>2, MoneyIs, ReturnsAre
  <2>2. Unit * rest \in Nat
    BY <1>3, MoneyIs
  <2> QED BY <1>3, <2>1, <2>2
<1>5. Amount(T) = Lo + Lc /\ Lo \in Nat /\ Lc \in Nat
  BY KindsApart, SidesAre DEF Reps
<1>6. Sum(Won, Counted) = Wo + Wc
  BY <1>1, WonIs
<1>7. Sum(Tax, Pools) = TaxOf("oracle") + TaxOf("common")
  BY TaxesAre
<1>8. Amount(UNION {Losing(rep) : rep \in Reps \ Pools}) = Vo + Vc
  BY KindsApart
<1>9. /\ Unit * Lo = Wo + TaxOf("oracle") + Unit * Vo
      /\ Wo \in Nat /\ TaxOf("oracle") \in Nat /\ Vo \in Nat
  BY PoolIsShared DEF Reps
<1>10. /\ Unit * Lc = Wc + TaxOf("common") + Unit * Vc
       /\ Wc \in Nat /\ TaxOf("common") \in Nat /\ Vc \in Nat
  BY PoolIsShared DEF Reps
<1> HIDE DEF T, Lo, Lc, rest, Wo, Wc, Vo, Vc
<1>11. Unit \in Nat
  BY MoneyIs
<1>12. /\ Unit * ((Lo + Lc) + rest) = Unit * Lo + Unit * Lc + Unit * rest
       /\ Unit * (Vo + Vc) = Unit * Vo + Unit * Vc
       /\ Unit * Vo \in Nat /\ Unit * Vc \in Nat /\ Unit * rest \in Nat
  BY <1>3, <1>5, <1>9, <1>10, <1>11
<1>13. Unit * Amount(Counted)
         = Unit * rest + (Wo + Wc) + (TaxOf("oracle") + TaxOf("common")) + Unit * (Vo + Vc)
  BY <1>3, <1>5, <1>9, <1>10, <1>12
<1>14. {Unit * rest, Wo + Wc, TaxOf("oracle") + TaxOf("common"), Unit * (Vo + Vc)} \subseteq Nat
  BY <1>3, <1>9, <1>10, <1>11, <1>12
<1> QED BY <1>1, <1>4, <1>6, <1>7, <1>8, <1>13, <1>14 DEF StakesBalance

LEMMA BootStakesBalance ==
  ASSUME Inv, boot, evidence # <<>>
  PROVE  StakesBalance
<1>1. /\ Reason \notin {"no_evidence", "data_unavailable", "no_supermajority"}
      /\ Reason # "below_min_resolution_stake"
  BY DecisionIs
<1>2. Sum(Returned, Counted) = 0 * Amount(Counted)
  <2>1. \A s \in Counted : Returned(s) = 0 * s.amount
    <3>1. ASSUME NEW s \in Counted PROVE Returned(s) = 0 * s.amount
      <4>1. Returned(s) = 0
        BY <1>1 DEF Returned
      <4>2. s.amount \in Nat
        BY CountedIs DEF StakeType
      <4> QED BY <4>1, <4>2
    <3> QED BY <3>1
  <2> QED BY <2>1, AllIsReturned
<1>3. Sum(Won, Counted) = 0
  BY NothingWon
<1>4. Amount(Counted) \in Nat /\ Unit * Amount(Counted) \in Nat
  BY CountedIs, AmountIs, MoneyIs
<1> QED BY <1>1, <1>2, <1>3, <1>4 DEF StakesBalance

\* Without a decision everything comes back, or all but the burn.
LEMMA LostStakesBalance ==
  ASSUME Inv, ~boot, evidence # <<>>, Reason # "supermajority"
  PROVE  StakesBalance
<1> DEFINE A == Amount(Counted)
           T == {s \in Counted : s.side \in Sides}
<1>1. Reason \in {"data_unavailable", "below_min_resolution_stake", "no_supermajority",
                  "no_winning_side_evidence"}
  BY DecisionIs
<1>2. Outcome = "invalid" /\ Sum(Won, Counted) = 0
  BY DecisionIs, NothingWon
<1>3. /\ A \in Nat /\ Unit \in Nat /\ BurnPct \in Nat /\ Unit - BurnPct \in Nat
      /\ Unit * A \in Nat /\ T \in SUBSET Counted /\ Amount(T) \in Nat
  BY CountedIs, AmountIs, MoneyIs
<1>4. \A s \in Counted : s.amount \in Nat /\ Kept(s) = (Unit - BurnPct) * s.amount
  <2>1. ASSUME NEW s \in Counted PROVE s.amount \in Nat /\ Kept(s) = (Unit - BurnPct) * s.amount
    <3>1. s.amount \in Nat
      BY CountedIs DEF StakeType
    <3>2. (Unit - BurnPct) * s.amount = Unit * s.amount - BurnPct * s.amount
      BY <1>3, <3>1
    <3> QED BY <3>1, <3>2 DEF Kept, Burnt
  <2> QED BY <2>1
<1>5. CASE Reason \in {"below_min_resolution_stake", "no_winning_side_evidence"}
  <2>1. \A s \in Counted : Returned(s) = Unit * s.amount
    BY <1>5 DEF Returned
  <2>2. Sum(Returned, Counted) = Unit * A
    BY <1>3, <2>1, AllIsReturned
  <2> QED BY <1>2, <1>3, <1>5, <2>2 DEF StakesBalance
<1>6. CASE Reason = "no_supermajority"
  <2>1. \A s \in Counted : Returned(s) = (Unit - BurnPct) * s.amount
    BY <1>4, <1>6 DEF Returned
  <2>2. Sum(Returned, Counted) = (Unit - BurnPct) * A
    BY <1>3, <2>1, AllIsReturned
  <2>3. Sum(Burnt, Counted) = BurnPct * A
    BY BurntIs
  <2>4. (Unit - BurnPct) * A = Unit * A - BurnPct * A /\ BurnPct * A \in Nat
    BY <1>3
  <2> HIDE DEF A
  <2>5. /\ Sum(Returned, Counted) + 0 + Sum(Burnt, Counted) + 0 = Unit * A
        /\ Sum(Returned, Counted) \in Nat /\ Sum(Burnt, Counted) \in Nat
    <3>1. (Unit - BurnPct) * A \in Nat
      BY <1>3
    <3> QED BY <1>3, <2>2, <2>3, <2>4, <3>1
  <2> QED BY <1>2, <1>6, <2>5 DEF StakesBalance, A
<1>7. CASE Reason = "data_unavailable"
  <2> DEFINE V == Counted \ T
  <2>1. \A s \in Counted : Returned(s) = IF s \in T THEN (Unit - BurnPct) * s.amount
                                          ELSE Unit * s.amount
    BY <1>4, <1>7 DEF Returned
  <2>2. Sum(Returned, Counted) = (Unit - BurnPct) * Amount(T) + Unit * Amount(V)
    <3> HIDE DEF T
    <3> QED BY <1>3, <2>1, ReturnsAre
  <2>3. Sum(Burnt, T) = BurnPct * Amount(T)
    BY <1>3, BurntIs
  <2>4. A = Amount(T) + Amount(V) /\ Amount(V) \in Nat
    BY <1>3, CountedIs, AmountIs, AmountsAdd
  <2> HIDE DEF A, T, V
  <2>5. /\ (Unit - BurnPct) * Amount(T) = Unit * Amount(T) - BurnPct * Amount(T)
        /\ Unit * (Amount(T) + Amount(V)) = Unit * Amount(T) + Unit * Amount(V)
        /\ Unit * Amount(T) \in Nat /\ Unit * Amount(V) \in Nat /\ BurnPct * Amount(T) \in Nat
    BY SMTT(30), <1>3, <2>4
  <2>6. /\ Sum(Returned, Counted) + 0 + Sum(Burnt, T) + 0 = Unit * A
        /\ Sum(Returned, Counted) \in Nat /\ Sum(Burnt, T) \in Nat
    <3>1. (Unit - BurnPct) * Amount(T) \in Nat
      BY <1>3
    <3> QED BY <2>2, <2>3, <2>4, <2>5, <3>1
  <2> QED BY <1>2, <1>7, <2>6 DEF StakesBalance, A, T
<1> QED BY <1>1, <1>5, <1>6, <1>7

\* The stakes and the bonds together.
LEMMA Settled == Inv => SettlementBalances
<1> SUFFICES ASSUME Inv, evidence # <<>>
             PROVE  /\ Burned >= 0
                    /\ Unit * Amount(Counted) + Bond * Len(evidence)
                         = Sum(Returned, Counted) + Sum(Won, Counted)
                             + Sum(BondReturned, DOMAIN evidence) + Sum(Bonus, DOMAIN evidence)
                             + Burned + Vanished
  BY DEF SettlementBalances
<1> DEFINE U == Unit * Amount(Counted)
           N == Bond * Len(evidence)
           C == Bond * Cardinality(Claims(Winner))
           X == LosingBonds
           R == Sum(Returned, Counted)
           W == Sum(Won, Counted)
           G == Sum(BondReturned, DOMAIN evidence)
           P == Sum(Bonus, DOMAIN evidence)
           K == Sum(Burnt, {s \in Counted : s.side \in Sides})
           J == Sum(Burnt, Counted)
           Y == Sum(Tax, Pools)
           O == Unit * Amount(UNION {Losing(rep) : rep \in Reps \ Pools})
<1>1. StakesBalance
  BY BootStakesBalance, LostStakesBalance, WonStakesBalance DEF Inv
<1>2. PICK taken \in Nat, gone \in Nat :
        /\ R \in Nat /\ W \in Nat /\ U = R + W + taken + gone
        /\ taken = CASE Reason = "data_unavailable" -> K
                     [] Reason = "no_supermajority" -> J
                     [] Reason = "supermajority" /\ ~boot -> Y
                     [] OTHER -> 0
        /\ gone = IF boot THEN U ELSE IF Outcome = "invalid" THEN 0 ELSE O
  BY <1>1 DEF StakesBalance
<1>3. /\ X \in Nat /\ N \in Nat /\ N = X + C
      /\ G = IF Reason = "data_unavailable" THEN 0 ELSE IF Outcome # "invalid" THEN C ELSE N
  BY BondsAre
<1>4. P \in Nat /\ P <= X /\ (Outcome = "invalid" \/ boot => P = 0)
  BY BonusIs
<1>5. Burned = CASE Reason = "data_unavailable" -> K + N
                 [] Reason = "no_supermajority" -> J
                 [] Reason = "supermajority" /\ ~boot -> Y + X - P
                 [] OTHER -> 0
  BY DEF Burned
<1>6. Vanished = IF boot THEN U + IF Outcome = "invalid" THEN 0 ELSE X
                 ELSE IF Outcome = "invalid" THEN 0 ELSE O
  BY DEF Vanished, Reps
<1>7. /\ Outcome # "invalid" <=> Reason = "supermajority"
      /\ boot => Reason \notin {"data_unavailable", "no_supermajority"}
  BY DecisionIs
<1>8. U \in Nat /\ C \in Nat
  <2>1. Amount(Counted) \in Nat /\ Cardinality(Claims(Winner)) \in Nat
    BY CountedIs, AmountIs, EvidenceIs
  <2> QED BY <2>1, MoneyIs
<1> HIDE DEF U, N, C, X, R, W, G, P, K, J, Y, O
<1>9. CASE Reason = "data_unavailable"
  BY SMTT(30), <1>2, <1>3, <1>4, <1>5, <1>6, <1>7, <1>8, <1>9 DEF U, N, R, W, G, P
<1>10. CASE Reason = "no_supermajority"
  BY SMTT(30), <1>2, <1>3, <1>4, <1>5, <1>6, <1>7, <1>8, <1>10 DEF U, N, R, W, G, P
<1>11. CASE Reason = "supermajority"
  <2>1. /\ Outcome # "invalid" /\ Reason # "data_unavailable" /\ Reason # "no_supermajority"
        /\ G = C /\ N = X + C /\ U = R + W + taken + gone
        /\ {R, W, U, C, X, P, taken, gone} \subseteq Nat /\ P <= X
    BY <1>2, <1>3, <1>4, <1>7, <1>8, <1>11
  <2>2. Burned >= 0 /\ U + N = R + W + G + P + Burned + Vanished
    <3>1. CASE boot
      <4>1. taken = 0 /\ gone = U /\ Burned = 0 /\ Vanished = U + X /\ P = 0
        BY <1>2, <1>4, <1>5, <1>6, <1>11, <2>1, <3>1
      <4> QED BY SMTT(30), <2>1, <4>1
    <3>2. CASE ~ boot
      <4>1. taken = Y /\ gone = O /\ Burned = Y + X - P /\ Vanished = O
        BY <1>2, <1>5, <1>6, <1>11, <2>1, <3>2
      <4>2. /\ R \in Nat /\ W \in Nat /\ Y \in Nat /\ O \in Nat /\ C \in Nat /\ X \in Nat
            /\ P \in Nat /\ P <= X /\ U = R + W + Y + O
        BY <2>1, <4>1
      <4>3. Y + X - P >= 0 /\ U + (X + C) = R + W + C + P + (Y + X - P) + O
        BY <4>2
      <4> QED BY <2>1, <4>1, <4>3
    <3> QED BY <3>1, <3>2
  <2> QED BY <2>2 DEF U, N, R, W, G, P
<1>12. CASE Reason \notin {"data_unavailable", "no_supermajority", "supermajority"}
  BY SMTT(30), <1>2, <1>3, <1>4, <1>5, <1>6, <1>7, <1>8, <1>12 DEF U, N, R, W, G, P
<1> QED BY <1>9, <1>10, <1>11, <1>12

\* resolution.py: whoever reads the chain, and whenever: what the market pays
\* out, burns and drops is what was staked and bonded, and nothing is minted.
THEOREM SettlementsBalance == Spec => []SettlementBalances
BY Invariance, Settled, PTL

------------------------------------------------------------------------------
(* Who has no say *)

LEMMA SuccessorsAre ==
  ASSUME Inv, NEW S
  PROVE  /\ Successors(S) \subseteq Nodes
         /\ \A link \in links : link[1] \in S => link[2] \in Successors(S)
         /\ \A n \in Successors(S) : \E link \in links : link[1] \in S /\ link[2] = n
<1>1. \A link \in links : link[2] \in Nodes
  BY DEF Inv
<1> QED BY <1>1 DEF Successors

LEMMA RenamedIs ==
  ASSUME Inv
  PROVE  LET n == Cardinality(links) IN
         /\ n \in Nat
         /\ \A k \in 0 .. n : Renamed[k] \in SUBSET Nodes
         /\ Renamed[0] = Predictors
         /\ \A k \in 1 .. n : Renamed[k] = Renamed[k - 1] \union Successors(Renamed[k - 1])
<1> DEFINE n == Cardinality(links)
           All == SUBSET Nodes
           Is(g) == g = [k \in 0 .. n |->
                           IF k = 0 THEN Predictors ELSE g[k - 1] \union Successors(g[k - 1])]
           step == [i \in 1 .. n |-> [S \in All |-> S \union Successors(S)]]
<1>1. n \in Nat /\ Predictors \in All
  BY FS_CardinalityType, NodesAssumption DEF Inv
<1>2. step \in Steps(n, All)
  <2>1. [S \in All |-> S \union Successors(S)] \in [All -> All]
    BY SuccessorsAre
  <2> QED BY <2>1 DEF Steps
<1>3. \A i \in 1 .. n : \A S \in All : step[i][S] = S \union Successors(S)
  OBVIOUS
<1> HIDE DEF step
<1>4. PICK f : f[0] = Predictors /\ \A i \in 1 .. n : f[i - 1] \in All /\ f[i] = step[i][f[i - 1]]
  <2>1. Folded(Predictors, step, n, All)
    <3> HIDE DEF n, All
    <3> QED BY <1>1, <1>2, Folding
  <2> QED BY <2>1 DEF Folded
<1>5. \A i \in 1 .. n : f[i - 1] \in All /\ f[i] = f[i - 1] \union Successors(f[i - 1])
  BY <1>3, <1>4
<1>6. Is([k \in 0 .. n |-> f[k]])
  <2> DEFINE h == [k \in 0 .. n |-> f[k]]
  <2>1. ASSUME NEW k \in 0 .. n
        PROVE  h[k] = IF k = 0 THEN Predictors ELSE h[k - 1] \union Successors(h[k - 1])
    <3>1. CASE k = 0
      BY <1>4, <3>1
    <3>2. CASE k # 0
      <4>1. k \in 1 .. n /\ k - 1 \in 0 .. n
        BY <1>1, <3>2
      <4> HIDE DEF n
      <4> QED BY <1>5, <3>2, <4>1
    <3> QED BY <3>1, <3>2
  <2> QED BY <2>1
<1>7. Is(CHOOSE g : Is(g))
  <2> HIDE DEF Is
  <2> QED BY <1>6
<1>8. Is(Renamed)
  BY <1>7 DEF Renamed
<1>9. /\ Renamed[0] = Predictors
      /\ \A k \in 1 .. n : Renamed[k] = Renamed[k - 1] \union Successors(Renamed[k - 1])
  <2>1. \A k \in 0 .. n : Renamed[k] = IF k = 0 THEN Predictors
                                       ELSE Renamed[k - 1] \union Successors(Renamed[k - 1])
    BY <1>8
  <2> HIDE DEF n, Is
  <2>2. 0 \in 0 .. n /\ \A k \in 1 .. n : k \in 0 .. n /\ k # 0
    BY <1>1
  <2> QED BY <2>1, <2>2
<1> HIDE DEF Is
<1> DEFINE D == {k \in 0 .. n : Renamed[k] \in All}
<1>10. 0 \in D /\ \A i \in 1 .. n : i - 1 \in D => i \in D
  <2>1. \A i \in 1 .. n : i \in 0 .. n /\ Successors(Renamed[i - 1]) \in All
    BY <1>1, SuccessorsAre
  <2> HIDE DEF n
  <2> QED BY <1>1, <1>9, <2>1
<1>11. \A i \in 0 .. n : i \in D
  <2> HIDE DEF D, n
  <2> QED BY <1>1, <1>10, UpTo
<1> QED BY <1>1, <1>9, <1>11

Closed(S) == Successors(S) \subseteq S

\* Every rotation is followed: one that is not yet would need a link of its own
\* for every round before.
LEMMA AllAreFound ==
  ASSUME Inv
  PROVE  Predictors \subseteq Descendants /\ Closed(Descendants) /\ Descendants \subseteq Nodes
<1> DEFINE n == Cardinality(links)
           Inside(S) == {link \in links : link[1] \in S /\ link[2] \in S}
           Round(k) == /\ Predictors \subseteq Renamed[k]
                       /\ Closed(Renamed[k]) \/ Cardinality(Inside(Renamed[k])) >= k
           D == {k \in 0 .. n : Round(k)}
<1>1. /\ n \in Nat
      /\ \A k \in 0 .. n : Renamed[k] \in SUBSET Nodes
      /\ Renamed[0] = Predictors
      /\ \A k \in 1 .. n : Renamed[k] = Renamed[k - 1] \union Successors(Renamed[k - 1])
  BY RenamedIs
<1>2. \A S : /\ Inside(S) \in SUBSET links /\ IsFiniteSet(Inside(S))
             /\ Cardinality(Inside(S)) \in Nat /\ Cardinality(Inside(S)) <= n
  <2>1. IsFiniteSet(links)
    BY DEF Inv
  <2> HIDE DEF Inside
  <2>2. \A S : Inside(S) \in SUBSET links
    BY DEF Inside
  <2> QED BY <2>1, <2>2, PartIs
<1>3. ASSUME NEW S, ~ Closed(S)
      PROVE  \E link \in links : link[1] \in S /\ link[2] \notin S
  BY <1>3, SuccessorsAre DEF Closed
<1>4. 0 \in D
  BY <1>1, <1>2
<1>5. ASSUME NEW k \in 1 .. n, k - 1 \in D PROVE k \in D
  <2> DEFINE S == Renamed[k - 1]
             T == Renamed[k]
  <2>1. T = S \union Successors(S) /\ Predictors \subseteq T
    BY <1>1, <1>5
  <2>2. CASE Closed(S)
    <3>1. T = S
      BY <2>1, <2>2 DEF Closed
    <3> QED BY <2>1, <2>2, <3>1
  <2>3. CASE ~ Closed(S)
    <3>1. Cardinality(Inside(S)) >= k - 1
      BY <1>5, <2>3
    <3>2. PICK link \in links : link[1] \in S /\ link[2] \notin S
      BY <1>3, <2>3
    <3>3. link[2] \in T
      BY <2>1, <3>2, SuccessorsAre
    <3> HIDE DEF S, T
    <3>4. Inside(S) \union {link} \subseteq Inside(T) /\ link \notin Inside(S)
      BY <2>1, <3>2, <3>3
    <3> HIDE DEF Inside
    <3>5. Cardinality(Inside(S) \union {link}) = Cardinality(Inside(S)) + 1
      BY <1>2, <3>4, FS_AddElement
    <3>6. Cardinality(Inside(S) \union {link}) <= Cardinality(Inside(T))
      BY <1>2, <3>4, PartIs
    <3>7. Cardinality(Inside(T)) >= k
      BY <1>2, <3>1, <3>5, <3>6
    <3> QED BY <2>1, <3>7 DEF T
  <2> QED BY <2>2, <2>3
<1>6. n \in D
  <2>1. \A k \in 1 .. n : k - 1 \in D => k \in D
    BY <1>5
  <2> HIDE DEF D, n
  <2> QED BY <1>1, <1>4, <2>1, UpTo
<1>7. Closed(Renamed[n])
  <2> SUFFICES ASSUME ~ Closed(Renamed[n]) PROVE FALSE
    OBVIOUS
  <2> DEFINE S == Renamed[n]
  <2>1. Cardinality(Inside(S)) >= n
    BY <1>6
  <2>2. PICK link \in links : link[1] \in S /\ link[2] \notin S
    BY <1>3
  <2>3. link \notin Inside(S)
    BY <2>2
  <2> HIDE DEF S, Inside
  <2>4. Inside(S) = links
    <3>1. Cardinality(Inside(S)) = Cardinality(links) /\ IsFiniteSet(links)
      BY <1>1, <1>2, <2>1 DEF Inv
    <3> QED BY <1>2, <3>1, FS_Subset
  <2> QED BY <2>2, <2>3, <2>4
<1> QED BY <1>1, <1>6, <1>7 DEF Descendants

LEMMA InterestedHaveNoSay ==
  ASSUME Inv, frozen
  PROVE  Interested \subseteq Excluded
<1>1. Descendants \in SUBSET Nodes /\ Predictors \subseteq Descendants
      /\ Successors(Descendants) \subseteq Descendants
  BY AllAreFound DEF Closed
<1> QED BY <1>1 DEF Interested, Excluded

\* The outcome depends on the evidence, on the stakes that count and on the ballot.
LEMMA SameOutcome ==
  ASSUME boot' = boot, evidence' = evidence, Counted' = Counted, Ballot' = Ballot
  PROVE  Outcome' = Outcome
<1>1. \A rep : Of(rep)' = Of(rep)
  BY DEF Of
<1>2. \A side, rep : For(side, rep)' = For(side, rep)
  BY <1>1 DEF For
<1>3. \A side : OracleStake(side)' = OracleStake(side)
  BY <1>2 DEF OracleStake
<1>4. \A side : VotesFor(side)' = VotesFor(side) /\ Claims(side)' = Claims(side)
  BY DEF VotesFor, Claims
<1>5. Winner' = Winner
  BY <1>3, <1>4 DEF Winner
<1>6. DataUnavailable' = DataUnavailable
  BY <1>1, <1>3 DEF DataUnavailable
<1>7. Invalidity' = Invalidity
  BY <1>3, <1>5, <1>6 DEF Invalidity
<1>8. Reason' = Reason
  BY <1>4, <1>5, <1>7 DEF Reason
<1> QED BY <1>5, <1>8 DEF Outcome

LEMMA SameExcluded ==
  ASSUME UNCHANGED <<links, frozen>>
  PROVE  Excluded' = Excluded
<1>1. Renamed' = Renamed
  BY DEF Renamed, Successors
<1> QED BY <1>1 DEF Excluded, Descendants

\* A stake leaves the ballot, a vote the stakes.
LEMMA StakeCounts ==
  ASSUME Inv, NEW offer \in Offers, NEW side \in Sides \union {"data_unavailable"},
         Stake(offer, side)
  PROVE  LET s == StakeOf(offer, side) IN
         /\ Ballot' = Ballot /\ Excluded' = Excluded /\ UNCHANGED <<boot, evidence>>
         /\ stakes' = stakes \union {s} /\ s \in StakeType
         /\ Counted' = IF s.node \in Excluded THEN Counted ELSE Counted \union {s}
<1> DEFINE s == StakeOf(offer, side)
<1>1. stakes' = stakes \union {s} /\ UNCHANGED <<boot, frozen, links, evidence, votes>>
  BY DEF Stake
<1>2. Excluded' = Excluded
  BY <1>1, SameExcluded
<1>3. Ballot' = Ballot
  BY <1>1, <1>2 DEF Ballot, Canonical
<1>4. s \in StakeType
  BY StakesHaveTypes
<1> HIDE DEF s
<1>5. Counted' = IF s.node \in Excluded THEN Counted ELSE Counted \union {s}
  BY <1>1, <1>2 DEF Counted
<1> QED BY <1>1, <1>2, <1>3, <1>4, <1>5 DEF s

LEMMA VoteCounts ==
  ASSUME Inv, NEW n \in Nodes, NEW side \in Sides, NEW hash \in 1 .. 2,
         VoteBootstrap(n, side, hash)
  PROVE  LET v == [node |-> n, side |-> side, hash |-> hash] IN
         /\ Counted' = Counted /\ Excluded' = Excluded
         /\ UNCHANGED <<boot, frozen, evidence, stakes>>
         /\ votes' = votes \union {v} /\ v \notin votes
         /\ \A u \in votes : u.node = n => u.hash # hash
<1>1. UNCHANGED <<boot, frozen, links, evidence, stakes>>
  BY DEF VoteBootstrap
<1>2. Excluded' = Excluded
  BY <1>1, SameExcluded
<1>3. Counted' = Counted
  BY <1>1, <1>2 DEF Counted
<1> QED BY <1>1, <1>2, <1>3 DEF VoteBootstrap

\* Which action has added something.
LEMMA WhoAdds ==
  ASSUME [Next]_vars
  PROVE  /\ \A s \in stakes' \ stakes :
              \E offer \in Offers, side \in Sides \union {"data_unavailable"} :
                Stake(offer, side) /\ s = StakeOf(offer, side)
         /\ \A v \in votes' \ votes :
              \E n \in Nodes, side \in Sides, hash \in 1 .. 2 :
                /\ VoteBootstrap(n, side, hash)
                /\ v = [node |-> n, side |-> side, hash |-> hash]
         /\ evidence' # evidence => \E side \in Sides : Submit(side)
<1>1. UNCHANGED resolutionVars \/ ResolutionNext
  BY DEF Next, vars
<1>2. CASE UNCHANGED resolutionVars
  BY <1>2 DEF resolutionVars
<1>3. CASE ResolutionNext
  <2>1. ASSUME NEW side \in Sides, Submit(side)
        PROVE  stakes' = stakes /\ votes' = votes
    BY <2>1 DEF Submit
  <2>2. ASSUME NEW offer \in Offers, NEW side \in Sides \union {"data_unavailable"},
               Stake(offer, side)
        PROVE  stakes' = stakes \union {StakeOf(offer, side)} /\ UNCHANGED <<votes, evidence>>
    BY <2>2 DEF Stake
  <2>3. ASSUME NEW n \in Nodes, NEW side \in Sides, NEW hash \in 1 .. 2,
               VoteBootstrap(n, side, hash)
        PROVE  /\ votes' = votes \union {[node |-> n, side |-> side, hash |-> hash]}
               /\ UNCHANGED <<stakes, evidence>>
    BY <2>3 DEF VoteBootstrap
  <2>4. ASSUME NEW link \in Rotations, Rotate(link[1], link[2])
        PROVE  UNCHANGED <<stakes, votes, evidence>>
    BY <2>4 DEF Rotate
  <2>5. ASSUME Freeze PROVE UNCHANGED <<stakes, votes, evidence>>
    BY <2>5 DEF Freeze
  <2>6. ASSUME NEW s \in stakes' \ stakes
        PROVE  \E offer \in Offers, side \in Sides \union {"data_unavailable"} :
                 Stake(offer, side) /\ s = StakeOf(offer, side)
    BY <1>3, <2>1, <2>2, <2>3, <2>4, <2>5 DEF ResolutionNext
  <2>7. ASSUME NEW v \in votes' \ votes
        PROVE  \E n \in Nodes, side \in Sides, hash \in 1 .. 2 :
                 /\ VoteBootstrap(n, side, hash)
                 /\ v = [node |-> n, side |-> side, hash |-> hash]
    BY <1>3, <2>1, <2>2, <2>3, <2>4, <2>5 DEF ResolutionNext
  <2>8. evidence' # evidence => \E side \in Sides : Submit(side)
    BY <1>3, <2>2, <2>3, <2>4, <2>5 DEF ResolutionNext
  <2> QED BY <2>6, <2>7, <2>8
<1> QED BY <1>1, <1>2, <1>3

\* A vote of an excluded node is not in the ballot, and does not push one out.
LEMMA ExcludedVote ==
  ASSUME Inv, NEW n \in Nodes, NEW side \in Sides, NEW hash \in 1 .. 2,
         VoteBootstrap(n, side, hash), n \in Excluded
  PROVE  Ballot' = Ballot
<1> DEFINE v == [node |-> n, side |-> side, hash |-> hash]
<1>1. /\ votes' = votes \union {v} /\ UNCHANGED frozen /\ Excluded' = Excluded
      /\ v.node = n
  BY VoteCounts
<1> HIDE DEF v
<1>2. \A u \in votes : u.node # n => (u \in Canonical' <=> u \in Canonical)
  BY <1>1 DEF Canonical
<1>3. \A u \in Ballot \union Ballot' : u.node # n
  BY <1>1 DEF Ballot
<1>4. \A u : u \in Ballot' <=> u \in Ballot
  <2>1. Canonical \subseteq votes /\ Canonical' \subseteq votes'
    BY DEF Canonical
  <2> QED BY <1>1, <1>2, <1>3, <2>1 DEF Ballot
<1> QED BY <1>4

\* resolution.py, identity_rotation.py: a stake or a vote of somebody who has
\* predicted, or of any identity such a one has become by rotations, does not
\* change the outcome.
THEOREM PredictorsAreOut == Spec => PredictorsHaveNoSay
<1>1. ASSUME Inv, [Next]_vars, frozen,
             \/ \E s \in stakes' \ stakes : s.node \in Interested
             \/ \E v \in votes' \ votes : v.node \in Interested
      PROVE  Outcome' = Outcome
  <2>1. Interested \subseteq Excluded
    BY <1>1, InterestedHaveNoSay
  <2>2. CASE \E s \in stakes' \ stakes : s.node \in Interested
    <3>1. PICK s \in stakes' \ stakes : s.node \in Interested
      BY <2>2
    <3>2. PICK offer \in Offers, side \in Sides \union {"data_unavailable"} :
            Stake(offer, side) /\ s = StakeOf(offer, side)
      BY <1>1, WhoAdds
    <3>3. Counted' = Counted /\ Ballot' = Ballot /\ boot' = boot /\ evidence' = evidence
      BY <1>1, <2>1, <3>1, <3>2, StakeCounts
    <3> QED BY <3>3, SameOutcome
  <2>3. CASE \E v \in votes' \ votes : v.node \in Interested
    <3>1. PICK v \in votes' \ votes : v.node \in Interested
      BY <2>3
    <3>2. PICK n \in Nodes, side \in Sides, hash \in 1 .. 2 :
            VoteBootstrap(n, side, hash) /\ v = [node |-> n, side |-> side, hash |-> hash]
      BY <1>1, WhoAdds
    <3>3. Counted' = Counted /\ boot' = boot /\ evidence' = evidence
      BY <1>1, <3>2, VoteCounts
    <3>4. Ballot' = Ballot
      BY <1>1, <2>1, <3>1, <3>2, ExcludedVote
    <3> QED BY <3>3, <3>4, SameOutcome
  <2> QED BY <1>1, <2>2, <2>3
<1>2. Inv /\ [Next]_vars =>
        [/\ frozen
         /\ \/ \E s \in stakes' \ stakes : s.node \in Interested
            \/ \E v \in votes' \ votes : v.node \in Interested
         => Outcome' = Outcome]_resolutionVars
  BY <1>1
<1> QED BY <1>2, Invariance, PTL DEF Spec, PredictorsHaveNoSay

------------------------------------------------------------------------------
(* Support *)

\* Who leads leads on with more, against no more.
LEMMA LeaderStays ==
  ASSUME NEW c, NEW d, NEW W \in Sides, Leading(c) = W,
         \A side \in Sides : c[side] \in Nat /\ d[side] \in Nat,
         d[W] >= c[W], \A side \in Sides \ {W} : d[side] <= c[side]
  PROVE  Leading(d) = W
<1> DEFINE t == c["yes"] + c["no"]
           u == d["yes"] + d["no"]
<1>1. PICK o \in Sides : o # W /\ Sides = {W, o}
  BY DEF Sides
<1>2. t = c[W] + c[o] /\ u = d[W] + d[o]
  BY <1>1 DEF Sides
<1>3. t > 0 /\ 4 * c[W] >= 3 * t
  <2>1. W # "none"
    BY DEF Sides
  <2> QED BY <2>1, LeadingIs
<1>4. c[W] \in Nat /\ c[o] \in Nat /\ d[W] \in Nat /\ d[o] \in Nat /\ d[W] >= c[W] /\ d[o] <= c[o]
  BY <1>1
<1>5. u > 0 /\ 4 * d[W] >= 3 * u /\ ~ (4 * d[o] >= 3 * u)
  BY <1>2, <1>3, <1>4
<1>6. /\ Leading(d) \in Sides \union {"none"}
      /\ Leading(d) # "none" => u > 0 /\ 4 * d[Leading(d)] >= 3 * u
      /\ Leading(d) = "none" => \A side \in Sides : ~ (u > 0 /\ 4 * d[side] >= 3 * u)
  BY LeadingIs
<1> HIDE DEF u
<1> QED BY <1>1, <1>5, <1>6

\* What it takes for the outcome to stay.
LEMMA OutcomeStays ==
  ASSUME Outcome # "invalid", Winner' = Winner, Invalidity' = "none", evidence' # <<>>,
         Claims(Winner)' # {}
  PROVE  Outcome' = Outcome
<1>1. Outcome = Winner
  BY DecisionIs
<1>2. Reason' = "supermajority"
  BY DEF Reason
<1>3. Outcome' = Winner'
  BY <1>2 DEF Outcome
<1> QED BY <1>1, <1>3

LEMMA EvidenceHelps ==
  ASSUME Inv, Outcome # "invalid", NEW side \in Sides, Submit(side)
  PROVE  Outcome' = Outcome
<1>1. evidence' = Append(evidence, side) /\ UNCHANGED <<boot, frozen, links, stakes, votes>>
  BY DEF Submit
<1>2. Excluded' = Excluded
  BY <1>1, SameExcluded
<1>3. Counted' = Counted /\ Ballot' = Ballot
  BY <1>1, <1>2 DEF Counted, Ballot, Canonical
<1>4. /\ \A s, rep : For(s, rep)' = For(s, rep)
      /\ \A rep : Of(rep)' = Of(rep)
      /\ \A s : OracleStake(s)' = OracleStake(s) /\ VotesFor(s)' = VotesFor(s)
  BY <1>3 DEF For, Of, OracleStake, VotesFor
<1>5. Winner' = Winner
  BY <1>1, <1>4 DEF Winner
<1>6. Invalidity' = Invalidity
  BY <1>1, <1>3, <1>4, <1>5 DEF Invalidity, DataUnavailable
<1>7. Invalidity = "none" /\ Claims(Winner) # {} /\ evidence # <<>>
  BY DecisionIs
<1>8. evidence \in Seq(Sides)
  BY DEF Inv
<1>9. DOMAIN evidence' = 1 .. Len(evidence) + 1 /\ \A i \in DOMAIN evidence : evidence'[i] = evidence[i]
  BY <1>1, <1>8
<1>10. PICK i \in DOMAIN evidence : evidence[i] = Winner
  BY <1>7 DEF Claims
<1>11. i \in DOMAIN evidence' /\ evidence'[i] = Winner
  BY <1>8, <1>9, <1>10
<1>12. Claims(Winner)' # {}
  BY <1>5, <1>11 DEF Claims
<1>13. evidence' # <<>>
  BY <1>11
<1> QED BY <1>5, <1>6, <1>7, <1>12, <1>13, OutcomeStays

LEMMA StakeHelps ==
  ASSUME Inv, Outcome # "invalid",
         NEW offer \in Offers, NEW side \in Sides \union {"data_unavailable"},
         Stake(offer, side), StakeOf(offer, side) \notin stakes,
         StakeOf(offer, side).side = Outcome
  PROVE  Outcome' = Outcome
<1> DEFINE s == StakeOf(offer, side)
<1>1. /\ Ballot' = Ballot /\ UNCHANGED <<boot, evidence>>
      /\ s \in StakeType /\ s \notin Counted
      /\ Counted' = IF s.node \in Excluded THEN Counted ELSE Counted \union {s}
  BY StakeCounts, CountedIs
<1>2. /\ Outcome = Winner /\ Winner \in Sides /\ Claims(Winner) # {}
      /\ evidence # <<>> /\ Invalidity = "none" /\ s.side = Winner
  BY DecisionIs
<1> HIDE DEF s
<1>3. \A x : VotesFor(x)' = VotesFor(x) /\ Claims(x)' = Claims(x)
  BY <1>1 DEF VotesFor, Claims
<1>4. CASE Counted' = Counted
  BY <1>1, <1>4, SameOutcome
<1>5. CASE boot
  <2>1. Winner' = Winner
    BY <1>1, <1>3, <1>5 DEF Winner
  <2>2. Invalidity' = Invalidity
    BY <1>1, <1>5, <2>1 DEF Invalidity
  <2> QED BY <1>1, <1>2, <1>3, <2>1, <2>2, OutcomeStays
<1>6. CASE ~boot /\ Counted' = Counted \union {s}
  <2> DEFINE O == Of("oracle")
             F(x) == For(x, "oracle")
  <2>1. /\ O \in SUBSET StakeType /\ IsFiniteSet(O) /\ s \notin O /\ Amount(O) \in Nat
        /\ \A x : F(x) \in SUBSET StakeType /\ IsFiniteSet(F(x)) /\ s \notin F(x)
                  /\ Amount(F(x)) \in Nat
        /\ O = {} => F("data_unavailable") = {}
    <3>1. O \in SUBSET Counted /\ \A x : F(x) \in SUBSET Counted
      BY DEF Of, For
    <3>2. \A T \in SUBSET Counted : IsFiniteSet(T) /\ Amount(T) \in Nat
      BY CountedIs, AmountIs, FS_Subset
    <3>3. O = {} => F("data_unavailable") = {}
      BY DEF For
    <3> HIDE DEF O, F
    <3> QED BY <1>1, <3>1, <3>2, <3>3, CountedIs
  <2>2. O' = IF s.rep = "oracle" THEN O \union {s} ELSE O
    BY <1>6 DEF Of
  <2>3. \A x : F(x)' = IF s.rep = "oracle" /\ x = Winner THEN F(x) \union {s} ELSE F(x)
    BY <1>2, <2>2 DEF For
  <2> HIDE DEF O, F
  <2>4. s.amount \in Nat /\ s.amount > 0
    BY <1>1 DEF StakeType
  <2>5. Amount(O') = IF s.rep = "oracle" THEN Amount(O) + s.amount ELSE Amount(O)
    BY <1>1, <2>1, <2>2, AmountGrows
  <2>6. \A x : Amount(F(x)') = IF s.rep = "oracle" /\ x = Winner THEN Amount(F(x)) + s.amount
                               ELSE Amount(F(x))
    BY <1>1, <2>1, <2>3, AmountGrows
  <2>7. \A x : OracleStake(x) = Amount(F(x)) /\ OracleStake(x)' = Amount(F(x)')
    BY DEF OracleStake, F
  <2>8. "data_unavailable" \notin Sides /\ "data_unavailable" # Winner
    BY <1>2 DEF Sides
  <2>9. Winner' = Winner
    <3> DEFINE c == [x \in Sides |-> IF boot THEN VotesFor(x) ELSE OracleStake(x)]
               d == [x \in Sides |-> OracleStake(x)']
    <3>1. Winner = Leading(c) /\ Winner' = Leading(d)
      BY <1>1, <1>6 DEF Winner
    <3>2. \A x \in Sides : /\ c[x] = Amount(F(x))
                           /\ d[x] = IF s.rep = "oracle" /\ x = Winner THEN Amount(F(x)) + s.amount
                                     ELSE Amount(F(x))
      BY <1>6, <2>6, <2>7
    <3> HIDE DEF c, d
    <3>3. /\ \A x \in Sides : c[x] \in Nat /\ d[x] \in Nat
          /\ d[Winner] >= c[Winner] /\ \A x \in Sides \ {Winner} : d[x] <= c[x]
      BY <1>2, <2>1, <2>4, <3>2
    <3> QED BY <1>2, <3>1, <3>3, LeaderStays
  <2>10. ~ DataUnavailable'
    <3> DEFINE a == Amount(F("data_unavailable"))
               w == Amount(O)
    <3>1. DataUnavailable <=> O # {} /\ 100 * a >= 33 * w
      BY <2>7 DEF DataUnavailable, O
    <3>2. DataUnavailable' <=> O' # {} /\ 100 * OracleStake("data_unavailable")' >= 33 * Amount(O')
      BY DEF DataUnavailable, O
    <3>3. OracleStake("data_unavailable")' = a /\ a \in Nat /\ w \in Nat
      BY <2>1, <2>6, <2>7, <2>8
    <3>4. ~ DataUnavailable
      BY <1>2, <1>6 DEF Invalidity
    <3>5. O = {} => a = 0 /\ w = 0
      BY <2>1, AmountIs, CountedIs
    <3> HIDE DEF a, w
    <3>6. Amount(O') = IF s.rep = "oracle" THEN w + s.amount ELSE w
      BY <2>5 DEF w
    <3>7. CASE s.rep = "oracle"
      BY <2>4, <3>1, <3>2, <3>3, <3>4, <3>5, <3>6, <3>7
    <3>8. CASE s.rep # "oracle"
      BY <2>2, <3>1, <3>2, <3>3, <3>4, <3>6, <3>8
    <3> QED BY <3>7, <3>8
  <2>11. OracleStake("yes")' + OracleStake("no")' >= MinStake
    <3>1. OracleStake("yes") + OracleStake("no") >= MinStake
      <4>1. ~ (OracleStake("yes") + OracleStake("no") < MinStake)
        BY <1>2, <1>6 DEF Invalidity
      <4> QED BY <2>1, <2>7, <4>1, MinimaAssumption
    <3>2. \A x : OracleStake(x) \in Nat /\ OracleStake(x)' \in Nat /\ OracleStake(x)' >= OracleStake(x)
      BY <2>1, <2>4, <2>6, <2>7
    <3> QED BY <3>1, <3>2, MinimaAssumption
  <2>12. Invalidity' = "none"
    <3>1. \A x : OracleStake(x)' \in Nat
      BY <2>1, <2>4, <2>6, <2>7
    <3>2. ~ (OracleStake("yes")' + OracleStake("no")' < MinStake)
      BY <2>11, <3>1, MinimaAssumption
    <3>3. Winner' # "none" /\ ~boot'
      BY <1>1, <1>2, <1>6, <2>9 DEF Sides
    <3> QED BY <2>10, <3>2, <3>3 DEF Invalidity
  <2> QED BY <1>1, <1>2, <1>3, <2>9, <2>12, OutcomeStays
<1> QED BY <1>1, <1>4, <1>5, <1>6

\* Where one comes for one at most, there are no fewer.
LEMMA OneForOne ==
  ASSUME NEW S, IsFiniteSet(S), NEW u, NEW v, v \notin S
  PROVE  /\ IsFiniteSet(S \ {u}) /\ Cardinality(S) \in Nat
         /\ Cardinality((S \ {u}) \union {v}) \in Nat
         /\ Cardinality((S \ {u}) \union {v}) >= Cardinality(S)
         /\ Cardinality(S \ {u}) \in Nat /\ Cardinality(S \ {u}) <= Cardinality(S)
<1> DEFINE R == S \ {u}
<1>1. R \in SUBSET S /\ v \notin R
  OBVIOUS
<1>2. Cardinality(S) \in Nat
  BY FS_CardinalityType
<1>3. IsFiniteSet(R) /\ Cardinality(R) \in Nat /\ Cardinality(R) <= Cardinality(S)
  BY <1>1, PartIs
<1>4. Cardinality(R) >= Cardinality(S) - 1
  <2>1. CASE u \in S
    <3>1. Cardinality(R) = Cardinality(S) - 1
      BY <2>1, FS_RemoveElement
    <3> QED BY <1>2, <3>1
  <2>2. CASE u \notin S
    <3>1. R = S
      BY <2>2
    <3> HIDE DEF R
    <3>2. Cardinality(R) = Cardinality(S)
      BY <3>1
    <3> QED BY <1>2, <3>2
  <2> QED BY <2>1, <2>2
<1> HIDE DEF R
<1>5. Cardinality(R \union {v}) = Cardinality(R) + 1
  BY <1>1, <1>3, FS_AddElement
<1> QED BY <1>2, <1>3, <1>4, <1>5 DEF R

\* A new vote is dropped, or it takes the place of the voter's vote, if any.
BallotTakes(v) ==
  \/ Ballot' = Ballot
  \/ v \notin Ballot /\ \E u : Ballot' = (Ballot \ {u}) \union {v}

LEMMA BallotMoves ==
  ASSUME Inv, NEW n \in Nodes, NEW side \in Sides, NEW hash \in 1 .. 2,
         VoteBootstrap(n, side, hash)
  PROVE  BallotTakes([node |-> n, side |-> side, hash |-> hash])
<1> DEFINE v == [node |-> n, side |-> side, hash |-> hash]
           Eligible(x) == frozen /\ x.node \in Aged \ Excluded
<1>1. /\ votes' = votes \union {v} /\ UNCHANGED frozen /\ Excluded' = Excluded
      /\ v \notin votes /\ v.node = n /\ v.hash = hash
      /\ \A u \in votes : u.node = n => u.hash # v.hash
  BY VoteCounts
<1> HIDE DEF v
<1>2. /\ votes \subseteq VoteType /\ \A u \in votes : u.hash \in Nat /\ v.hash \in Nat
      /\ \A u, w \in votes : u.node = w.node /\ u.hash = w.hash => u = w
  BY <1>1 DEF Inv, VoteType
<1>3. /\ Ballot = {x \in Canonical : Eligible(x)}
      /\ Ballot' = {x \in Canonical' : Eligible(x)}
  BY <1>1 DEF Ballot
<1>4. /\ Canonical \subseteq votes /\ Canonical' \subseteq votes \union {v}
      /\ \A u \in votes : u.node # n => (u \in Canonical' <=> u \in Canonical)
      /\ \A u \in votes : u \in Canonical' => u \in Canonical
  BY <1>1 DEF Canonical
<1> HIDE DEF Eligible
<1>5. CASE v \notin Canonical'
  <2>1. PICK u \in votes : u.node = n /\ u.hash < v.hash
    BY <1>1, <1>2, <1>5 DEF Canonical
  <2>2. ASSUME NEW w \in votes, w.node = n, w \in Canonical PROVE w \in Canonical'
    <3>1. w.hash <= u.hash
      BY <2>1, <2>2 DEF Canonical
    <3>2. w.hash <= v.hash
      BY <1>2, <2>1, <3>1
    <3> QED BY <1>1, <2>2, <3>2 DEF Canonical
  <2>3. \A x : x \in Canonical' <=> x \in Canonical
    BY <1>4, <1>5, <2>2
  <2>4. Ballot' = Ballot
    BY <1>3, <2>3
  <2> QED BY <2>4 DEF BallotTakes
<1>6. CASE v \in Canonical'
  <2>1. \A u \in votes : u.node = n => u \notin Canonical'
    <3>1. ASSUME NEW u \in votes, u.node = n PROVE u \notin Canonical'
      <4>1. v.hash <= u.hash /\ u.hash # v.hash
        BY <1>1, <1>6, <3>1 DEF Canonical
      <4>2. ~ (u.hash <= v.hash)
        BY <1>2, <4>1
      <4> QED BY <1>1, <3>1, <4>2 DEF Canonical
    <3> QED BY <3>1
  <2>2. CASE ~ Eligible(v)
    <3>1. \A u \in votes : u.node = n => ~ Eligible(u)
      BY <1>1, <2>2 DEF Eligible
    <3>2. \A x : x \in Ballot' <=> x \in Ballot
      BY <1>3, <1>4, <2>2, <3>1
    <3>3. Ballot' = Ballot
      BY <1>3, <3>2
    <3> QED BY <3>3 DEF BallotTakes
  <2>3. CASE Eligible(v)
    <3>1. \E u : \A w \in Ballot : w.node = n => w = u
      <4>1. ASSUME NEW u \in Ballot, NEW w \in Ballot, u.node = n, w.node = n PROVE u = w
        <5>1. u \in votes /\ w \in votes /\ u.hash <= w.hash /\ w.hash <= u.hash
          BY <4>1 DEF Ballot, Canonical
        <5>2. u.hash = w.hash
          BY <1>2, <5>1
        <5> QED BY <1>2, <4>1, <5>1, <5>2
      <4>2. CASE \E u \in Ballot : u.node = n
        BY <4>1, <4>2
      <4>3. CASE \A u \in Ballot : u.node # n
        BY <4>3
      <4> QED BY <4>2, <4>3
    <3>2. PICK one : \A w \in Ballot : w.node = n => w = one
      BY <3>1
    <3> DEFINE u == IF one \in Ballot /\ one.node = n THEN one ELSE v
    <3>3. \A w \in Ballot : w = u <=> w.node = n
      BY <1>1, <1>3, <1>4, <3>2
    <3> HIDE DEF u
    <3>4. v \notin Ballot /\ v \in Ballot'
      BY <1>1, <1>3, <1>4, <1>6, <2>3
    <3>5. \A x \in votes : x.node = n => x \notin Ballot'
      BY <1>3, <2>1
    <3>6. \A x \in votes : x.node # n => (x \in Ballot' <=> x \in Ballot)
      BY <1>3, <1>4
    <3>7. Ballot \subseteq votes /\ Ballot' \subseteq votes \union {v}
      BY <1>3, <1>4
    <3>8. \A x : x \in Ballot' <=> x \in (Ballot \ {u}) \union {v}
      BY <3>3, <3>4, <3>5, <3>6, <3>7
    <3>9. Ballot' = (Ballot \ {u}) \union {v}
      BY <3>8
    <3>10. BallotTakes(v)
      BY <3>4, <3>9, Zenon DEF BallotTakes
    <3> QED BY <3>10, Zenon DEF v
  <2> QED BY <2>2, <2>3
<1> QED BY <1>5, <1>6

LEMMA VoteHelps ==
  ASSUME Inv, Outcome # "invalid", NEW n \in Nodes, NEW side \in Sides, NEW hash \in 1 .. 2,
         VoteBootstrap(n, side, hash), side = Outcome
  PROVE  Outcome' = Outcome
<1> DEFINE v == [node |-> n, side |-> side, hash |-> hash]
<1>1. /\ Counted' = Counted /\ UNCHANGED <<boot, frozen, evidence, stakes>>
      /\ boot /\ v.side = side
  BY VoteCounts DEF VoteBootstrap
<1>2. /\ Outcome = Winner /\ Winner \in Sides /\ Claims(Winner) # {}
      /\ evidence # <<>> /\ Invalidity = "none"
  BY DecisionIs
<1>3. \A x : Claims(x)' = Claims(x)
  BY <1>1 DEF Claims
<1>4. BallotTakes(v)
  BY BallotMoves
<1> HIDE DEF v
<1>5. CASE Ballot' = Ballot
  BY <1>1, <1>5, SameOutcome
<1>6. CASE v \notin Ballot /\ \E u : Ballot' = (Ballot \ {u}) \union {v}
  <2>1. PICK u : Ballot' = (Ballot \ {u}) \union {v}
    BY <1>6
  <2> DEFINE B(x) == {b \in Ballot : b.side = x}
  <2>2. /\ IsFiniteSet(Ballot) /\ v \notin Ballot
        /\ \A x : IsFiniteSet(B(x)) /\ v \notin B(x)
    <3>1. Ballot \in SUBSET votes /\ IsFiniteSet(votes)
      BY DEF Ballot, Canonical, Inv
    <3>2. \A x : B(x) \in SUBSET votes
      BY <3>1
    <3> HIDE DEF B
    <3>3. IsFiniteSet(Ballot) /\ \A x : IsFiniteSet(B(x))
      BY <3>1, <3>2, FS_Subset
    <3> QED BY <1>6, <3>3 DEF B
  <2>3. \A x : /\ VotesFor(x) = Cardinality(B(x))
               /\ VotesFor(x)' = IF x = side THEN Cardinality((B(x) \ {u}) \union {v})
                                 ELSE Cardinality(B(x) \ {u})
    <3>1. \A x : {b \in Ballot' : b.side = x} = IF x = side THEN (B(x) \ {u}) \union {v}
                                                ELSE B(x) \ {u}
      BY <1>1, <2>1
    <3> HIDE DEF B
    <3>2. \A x : VotesFor(x)' = Cardinality({b \in Ballot' : b.side = x})
      BY DEF VotesFor
    <3> QED BY <3>1, <3>2 DEF VotesFor, B
  <2> HIDE DEF B
  <2>4. \A x : /\ VotesFor(x) \in Nat /\ VotesFor(x)' \in Nat
               /\ x = side => VotesFor(x)' >= VotesFor(x)
               /\ x # side => VotesFor(x)' <= VotesFor(x)
    BY <2>2, <2>3, OneForOne
  <2>5. Winner' = Winner
    <3> DEFINE c == [x \in Sides |-> IF boot THEN VotesFor(x) ELSE OracleStake(x)]
               d == [x \in Sides |-> VotesFor(x)']
    <3>1. Winner = Leading(c) /\ Winner' = Leading(d)
      BY <1>1 DEF Winner
    <3>2. \A x \in Sides : c[x] = VotesFor(x) /\ d[x] = VotesFor(x)'
      BY <1>1
    <3> HIDE DEF c, d
    <3>3. /\ \A x \in Sides : c[x] \in Nat /\ d[x] \in Nat
          /\ d[Winner] >= c[Winner] /\ \A x \in Sides \ {Winner} : d[x] <= c[x]
      BY <1>2, <2>4, <3>2
    <3> QED BY <1>2, <3>1, <3>3, LeaderStays
  <2>6. Invalidity' = "none"
    <3>1. ~ (Cardinality(Ballot) < MinVotes)
      BY <1>1, <1>2 DEF Invalidity
    <3>2. /\ Cardinality(Ballot) \in Nat /\ Cardinality(Ballot') \in Nat
          /\ Cardinality(Ballot') >= Cardinality(Ballot)
      BY <2>1, <2>2, OneForOne
    <3>3. ~ (Cardinality(Ballot') < MinVotes)
      BY <3>1, <3>2, MinimaAssumption
    <3>4. Winner' # "none" /\ boot'
      BY <1>1, <1>2, <2>5 DEF Sides
    <3> QED BY <3>3, <3>4 DEF Invalidity
  <2> QED BY <1>1, <1>2, <1>3, <2>5, <2>6, OutcomeStays
<1> QED BY <1>4, <1>5, <1>6 DEF BallotTakes

\* resolution.py: a stake, a vote or a piece of evidence for the side that wins
\* does not take the win from it, whatever the shares and the minima.
THEOREM SupportIsSafe == Spec => SupportNeverHurts
<1>1. ASSUME Inv, [Next]_vars, Outcome # "invalid",
             \/ \E s \in stakes' \ stakes : s.side = Outcome
             \/ \E v \in votes' \ votes : v.side = Outcome
             \/ evidence' # evidence /\ Last(evidence') = Outcome
      PROVE  Outcome' = Outcome
  <2>1. CASE \E s \in stakes' \ stakes : s.side = Outcome
    BY <1>1, <2>1, WhoAdds, StakeHelps
  <2>2. CASE \E v \in votes' \ votes : v.side = Outcome
    <3>1. PICK v \in votes' \ votes : v.side = Outcome
      BY <2>2
    <3>2. PICK n \in Nodes, side \in Sides, hash \in 1 .. 2 :
            VoteBootstrap(n, side, hash) /\ v = [node |-> n, side |-> side, hash |-> hash]
      BY <1>1, WhoAdds
    <3>3. side = Outcome
      BY <3>1, <3>2
    <3> QED BY <1>1, <3>2, <3>3, VoteHelps
  <2>3. CASE evidence' # evidence
    BY <1>1, <2>3, WhoAdds, EvidenceHelps
  <2> QED BY <1>1, <2>1, <2>2, <2>3
<1>2. Inv /\ [Next]_vars =>
        [/\ Outcome # "invalid"
         /\ \/ \E s \in stakes' \ stakes : s.side = Outcome
            \/ \E v \in votes' \ votes : v.side = Outcome
            \/ evidence' # evidence /\ Last(evidence') = Outcome
         => Outcome' = Outcome]_resolutionVars
  BY <1>1
<1> QED BY <1>2, Invariance, PTL DEF Spec, SupportNeverHurts

\* resolution.py: what resolve_market reads has its type, and it always answers.
THEOREM ResolutionTypeCorrect == Spec => []ResolutionTypeOK
<1>1. Inv => ResolutionTypeOK
  BY DecisionIs DEF Inv, ResolutionTypeOK
<1> QED BY <1>1, Invariance, PTL

------------------------------------------------------------------------------
(* The events of a market *)

\* Least and greatest positions.
LEMMA MinIs ==
  ASSUME NEW T \in SUBSET Nat, T # {}
  PROVE  Market!Min(T) \in T /\ \A y \in T : Market!Min(T) <= y
<1>1. \E x \in T : \A y \in T : x <= y
  BY LeastNat
<1> QED BY <1>1, Zenon DEF Market!Min

LEMMA MaxIs ==
  ASSUME NEW T \in SUBSET Nat, T # {}, NEW b \in Nat, \A x \in T : x <= b
  PROVE  Market!Max(T) \in T /\ \A y \in T : y <= Market!Max(T)
<1>1. \E x \in T : \A y \in T : y <= x
  BY GreatestNat
<1>2. \E x \in T : \A y \in T : x >= y
  BY <1>1
<1>3. Market!Max(T) \in T /\ \A y \in T : Market!Max(T) >= y
  BY <1>2, Zenon DEF Market!Max
<1> QED BY <1>3

\* d is c with the event e behind it.
IsChain(c) == \E S : c \in Seq(S)
Longer(c, d, e) ==
  /\ Len(c) \in Nat /\ DOMAIN c = 1 .. Len(c)
  /\ Len(d) = Len(c) + 1 /\ DOMAIN d = 1 .. Len(c) + 1
  /\ d[Len(c) + 1] = e /\ \A i \in 1 .. Len(c) : d[i] = c[i]

LEMMA EventJoins ==
  ASSUME NEW c, IsChain(c), NEW e
  PROVE  IsChain(Append(c, e)) /\ Longer(c, Append(c, e), e)
<1>1. PICK S : c \in Seq(S)
  BY DEF IsChain
<1> DEFINE R == S \union {e}
<1>2. c \in Seq(R)
  BY <1>1
<1>3. e \in R
  OBVIOUS
<1> HIDE DEF R
<1>4. Append(c, e) \in Seq(R)
  BY <1>2, <1>3
<1>5. Longer(c, Append(c, e), e)
  BY <1>2, <1>3 DEF Longer
<1> QED BY <1>4, <1>5 DEF IsChain

\* What was the first of its kind stays the first.
LEMMA FirstStays ==
  ASSUME NEW c, NEW d, NEW e, Longer(c, d, e), NEW type
  PROVE  /\ Market!At(c, type) \in SUBSET Nat /\ Market!At(d, type) \in SUBSET Nat
         /\ Market!At(d, type) = Market!At(c, type)
              \union (IF e.type = type THEN {Len(c) + 1} ELSE {})
         /\ Market!Has(c, type) => /\ Market!Has(d, type)
                                   /\ Market!FirstOf(d, type) = Market!FirstOf(c, type)
         /\ e.type # type => Market!Has(d, type) = Market!Has(c, type)
<1> DEFINE A == Market!At(c, type)
           B == Market!At(d, type)
<1>1. A \in SUBSET (1 .. Len(c)) /\ B \in SUBSET Nat /\ Len(c) \in Nat
  BY DEF Market!At, Longer
<1>2. B = A \union (IF e.type = type THEN {Len(c) + 1} ELSE {})
  BY DEF Market!At, Longer
<1>3. ASSUME A # {} PROVE Market!Min(B) = Market!Min(A) /\ Market!Min(A) \in 1 .. Len(c)
  <2> HIDE DEF A, B
  <2>1. /\ Market!Min(A) \in A /\ \A y \in A : Market!Min(A) <= y
        /\ Market!Min(B) \in B /\ \A y \in B : Market!Min(B) <= y
    BY <1>1, <1>2, <1>3, MinIs
  <2> DEFINE a == Market!Min(A)
             b == Market!Min(B)
  <2>2. a \in 1 .. Len(c) /\ a \in B
    BY <1>1, <1>2, <2>1
  <2>3. b \in Nat /\ (b \in A \/ b = Len(c) + 1)
    BY <1>1, <1>2, <2>1
  <2>4. b <= a
    BY <2>1, <2>2
  <2>5. b \in A
    BY <1>1, <2>2, <2>3, <2>4
  <2>6. a <= b
    BY <2>1, <2>5
  <2> HIDE DEF a, b
  <2>7. a = b
    BY <1>1, <2>2, <2>3, <2>4, <2>6
  <2> QED BY <2>2, <2>7 DEF a, b
<1>4. ASSUME A # {} PROVE Market!FirstOf(d, type) = Market!FirstOf(c, type)
  BY <1>3, <1>4 DEF Market!FirstOf, Longer
<1> QED BY <1>1, <1>2, <1>4 DEF Market!Has

------------------------------------------------------------------------------
(* What is written on the chain *)

MarketKinds == {"bet", "snapshot", "finalize", "dispute_open", "dispute_stake", "dispute_resolve"}

\* A market is finalized after its first snapshot, which is well formed.
Opened(c, i) ==
  \E j \in 1 .. i - 1 : /\ c[j].type = "snapshot" /\ c[j].ok
                        /\ \A k \in 1 .. j - 1 : c[k].type # "snapshot"
EventOK(c, i) ==
  c[i].type \in MarketKinds =>
    /\ subject = "market" /\ c[i].ts \in Nat
    /\ c[i].type = "bet" => c[i].side \in Sides
    /\ c[i].type = "finalize" => Opened(c, i)

MarketInv ==
  /\ IsChain(chain) /\ now \in Nat
  /\ \A i \in DOMAIN chain : EventOK(chain, i)

\* An event with what its author has seen.
ByMarket(e, v) ==
  /\ e.ts = Market!Clock
  /\ \/ e.type = "bet" /\ e.side \in Sides /\ Market!Status(v, Market!Clock) = "predicting"
     \/ e.type = "snapshot" /\ Market!Due(v, Market!Clock) = "evidence"
     \/ e.type = "finalize" /\ Market!Due(v, Market!Clock) = "final"
     \/ e.type \in {"dispute_open", "dispute_stake", "dispute_resolve"}
\* The same for a gate, whose petitions are numbered on the whole chain.
ByGate(e, v) ==
  /\ e.ts = Gate!Clock
  /\ \/ e.type \in {"enter", "exit", "lock"} /\ e.node \in Members
     \/ e.type \in {"suspend", "unsuspend"}
     \/ /\ e.type = "file" /\ e.id = Gate!Cardinality(Gate!Filed(chain)) + 1
        /\ Gate!MayFile(v, Gate!Clock)
     \/ /\ e.type = "vote" /\ e.vote \in {"passed", "failed"}
        /\ e.id \in Gate!Filed(v) /\ Gate!Petition(v, e.id).status = "filed"
     \/ e.type = "appeal" /\ Gate!MayAppeal(v, Gate!Clock, e.id)
     \/ /\ e.type = "resolve" /\ e.outcome \in {"voided", "resumed"}
        /\ e.id \in Gate!Filed(v) /\ Gate!Petition(v, e.id).status = "appealed"
        /\ e.at = Gate!Clock + Gate!Remaining(v, e.id, v[Gate!Max(Gate!Appeals(v, e.id))].ts)
     \/ /\ e.type = "execute" /\ e.id \in Gate!Filed(v)
        /\ Gate!Petition(v, e.id).status = "executing"
        /\ Gate!Clock >= Gate!Petition(v, e.id).at
LateBy(v) == late' = IF v = chain THEN late ELSE late + 1
Written(e) ==
  /\ chain' = Append(chain, e) /\ now' = now
  /\ \/ /\ subject = "gate" /\ e.type \notin MarketKinds /\ Len(chain) < GateLength
        /\ \E v \in Gate!Views : ByGate(e, v) /\ LateBy(v)
     \/ /\ subject = "market" /\ Len(chain) < MarketLength
        /\ \E v \in Market!Views : ByMarket(e, v) /\ LateBy(v)

LEMMA MarketWrites ==
  ASSUME NEW v \in Market!Views, subject = "market",
         \/ \E pick \in Picks : Market!Bet(v, pick)
         \/ \E ok \in BOOLEAN : Market!Snapshot(v, ok)
         \/ \E ok, provisional \in BOOLEAN, outcome \in {"yes", "invalid"} :
              Market!Finalize(v, ok, outcome, provisional)
         \/ \E d \in DisputeIds :
              \/ Market!OpenDispute(v, d) \/ Market!ResolveDispute(v, d)
              \/ \E side \in {"confirm", "reverse"} : Market!StakeDispute(v, d, side)
  PROVE  \E e : Written(e)
<1> DEFINE Puts(e) == chain' = Append(chain, e) /\ now' = now /\ ByMarket(e, v)
<1>1. SUFFICES \E e : Puts(e)
  <2>1. Len(chain) < MarketLength /\ LateBy(v)
    BY DEF Market!Bet, Market!Snapshot, Market!Finalize, Market!OpenDispute,
           Market!ResolveDispute, Market!StakeDispute, Market!Write, LateBy
  <2> QED BY <2>1 DEF Written
<1>2. ASSUME NEW pick \in Picks, Market!Bet(v, pick) PROVE \E e : Puts(e)
  <2> DEFINE e == [type |-> "bet", ts |-> Market!Clock, node |-> pick.node, side |-> pick.side,
                   paid |-> pick.paid]
  <2>1. pick.side \in Sides
    BY MarketAssumption
  <2>2. e.type = "bet" /\ e.ts = Market!Clock /\ e.side = pick.side
    OBVIOUS
  <2>3. /\ chain' = Append(chain, e) /\ now' = now
        /\ Market!Status(v, Market!Clock) = "predicting"
    BY <1>2 DEF Market!Bet, Market!Write
  <2> HIDE DEF e
  <2> QED BY <2>1, <2>2, <2>3 DEF ByMarket
<1>3. ASSUME NEW ok \in BOOLEAN, Market!Snapshot(v, ok) PROVE \E e : Puts(e)
  <2> DEFINE e == [type |-> "snapshot", ts |-> Market!Clock, ok |-> ok,
                   frozen |-> Market!Frozen(v),
                   stake |-> Market!Pool(v, "yes") + Market!Pool(v, "no")]
  <2>1. e.type = "snapshot" /\ e.ts = Market!Clock
    OBVIOUS
  <2>2. /\ chain' = Append(chain, e) /\ now' = now
        /\ Market!Due(v, Market!Clock) = "evidence"
    BY <1>3 DEF Market!Snapshot, Market!Write
  <2> HIDE DEF e
  <2> QED BY <2>1, <2>2 DEF ByMarket
<1>4. ASSUME NEW ok \in BOOLEAN, NEW provisional \in BOOLEAN, NEW outcome,
             Market!Finalize(v, ok, outcome, provisional)
      PROVE  \E e : Puts(e)
  <2> DEFINE e == [type |-> "finalize", ts |-> Market!Clock, ok |-> ok, outcome |-> outcome,
                   provisional |-> provisional]
  <2>1. e.type = "finalize" /\ e.ts = Market!Clock
    OBVIOUS
  <2>2. /\ chain' = Append(chain, e) /\ now' = now
        /\ Market!Due(v, Market!Clock) = "final"
    BY <1>4 DEF Market!Finalize, Market!Write
  <2> HIDE DEF e
  <2> QED BY <2>1, <2>2 DEF ByMarket
<1>5. ASSUME NEW d, Market!OpenDispute(v, d) PROVE \E e : Puts(e)
  <2> DEFINE e == [type |-> "dispute_open", ts |-> Market!Clock, id |-> d]
  <2>1. e.type = "dispute_open" /\ e.ts = Market!Clock
    OBVIOUS
  <2>2. chain' = Append(chain, e) /\ now' = now
    BY <1>5 DEF Market!OpenDispute, Market!Write
  <2> HIDE DEF e
  <2> QED BY <2>1, <2>2 DEF ByMarket
<1>6. ASSUME NEW d, Market!ResolveDispute(v, d) PROVE \E e : Puts(e)
  <2> DEFINE e == [type |-> "dispute_resolve", ts |-> Market!Clock, id |-> d,
                   outcome |-> Market!Verdict(v, d)]
  <2>1. e.type = "dispute_resolve" /\ e.ts = Market!Clock
    OBVIOUS
  <2>2. chain' = Append(chain, e) /\ now' = now
    BY <1>6 DEF Market!ResolveDispute, Market!Write
  <2> HIDE DEF e
  <2> QED BY <2>1, <2>2 DEF ByMarket
<1>7. ASSUME NEW d, NEW side, Market!StakeDispute(v, d, side) PROVE \E e : Puts(e)
  <2> DEFINE e == [type |-> "dispute_stake", ts |-> Market!Clock, id |-> d, side |-> side]
  <2>1. e.type = "dispute_stake" /\ e.ts = Market!Clock
    OBVIOUS
  <2>2. chain' = Append(chain, e) /\ now' = now
    BY <1>7 DEF Market!StakeDispute, Market!Write
  <2> HIDE DEF e
  <2> QED BY <2>1, <2>2 DEF ByMarket
<1> QED BY <1>2, <1>3, <1>4, <1>5, <1>6, <1>7

LEMMA GateWrites ==
  ASSUME NEW v \in Gate!Views, subject = "gate",
         \/ \E n \in Members : Gate!Enter(v, n) \/ Gate!Exit(v, n) \/ Gate!Lock(v, n)
         \/ Gate!Suspend(v) \/ Gate!Unsuspend(v)
         \/ \E id \in 1..MaxPetitions :
              \/ Gate!File(v, id) \/ Gate!Appeal(v, id) \/ Gate!Execute(v, id)
              \/ \E vote \in {"passed", "failed"} : Gate!Tally(v, id, vote)
              \/ \E outcome \in {"voided", "resumed"} : Gate!ResolveAppeal(v, id, outcome)
  PROVE  \E e : Written(e)
<1> DEFINE Puts(e) == Gate!Write(v, e) /\ ByGate(e, v)
<1>1. ASSUME NEW e, Puts(e) PROVE \E x : Written(x)
  <2>1. e.type \notin MarketKinds
    BY <1>1 DEF ByGate, MarketKinds
  <2>2. chain' = Append(chain, e) /\ now' = now /\ Len(chain) < GateLength /\ LateBy(v)
    BY <1>1 DEF Gate!Write, LateBy
  <2> QED BY <1>1, <2>1, <2>2 DEF Written
<1>2. ASSUME NEW n \in Members, NEW type \in {"enter", "exit", "lock"},
             Gate!Write(v, [type |-> type, ts |-> Gate!Clock, node |-> n])
      PROVE  \E e : Puts(e)
  <2> DEFINE e == [type |-> type, ts |-> Gate!Clock, node |-> n]
  <2>1. e.type = type /\ e.ts = Gate!Clock /\ e.node = n
    OBVIOUS
  <2> HIDE DEF e
  <2>2. ByGate(e, v)
    BY <2>1 DEF ByGate
  <2> QED BY <1>2, <2>2 DEF e
<1>3. ASSUME NEW type \in {"suspend", "unsuspend"},
             Gate!Write(v, [type |-> type, ts |-> Gate!Clock])
      PROVE  \E e : Puts(e)
  <2> DEFINE e == [type |-> type, ts |-> Gate!Clock]
  <2>1. e.type = type /\ e.ts = Gate!Clock
    OBVIOUS
  <2> HIDE DEF e
  <2>2. ByGate(e, v)
    BY <2>1 DEF ByGate
  <2> QED BY <1>3, <2>2 DEF e
<1>4. ASSUME NEW id, Gate!File(v, id) PROVE \E e : Puts(e)
  <2> DEFINE e == [type |-> "file", ts |-> Gate!Clock, id |-> id]
  <2>1. e.type = "file" /\ e.ts = Gate!Clock /\ e.id = id
    OBVIOUS
  <2>2. /\ Gate!Write(v, e) /\ id = Gate!Cardinality(Gate!Filed(chain)) + 1
        /\ Gate!MayFile(v, Gate!Clock)
    BY <1>4 DEF Gate!File
  <2> HIDE DEF e
  <2> QED BY <2>1, <2>2 DEF ByGate
<1>5. ASSUME NEW id, Gate!Appeal(v, id) PROVE \E e : Puts(e)
  <2> DEFINE e == [type |-> "appeal", ts |-> Gate!Clock, id |-> id]
  <2>1. e.type = "appeal" /\ e.ts = Gate!Clock /\ e.id = id
    OBVIOUS
  <2>2. Gate!Write(v, e) /\ Gate!MayAppeal(v, Gate!Clock, id)
    BY <1>5 DEF Gate!Appeal
  <2> HIDE DEF e
  <2> QED BY <2>1, <2>2 DEF ByGate
<1>6. ASSUME NEW id, Gate!Execute(v, id) PROVE \E e : Puts(e)
  <2> DEFINE e == [type |-> "execute", ts |-> Gate!Clock, id |-> id]
  <2>1. e.type = "execute" /\ e.ts = Gate!Clock /\ e.id = id
    OBVIOUS
  <2>2. /\ Gate!Write(v, e) /\ id \in Gate!Filed(v)
        /\ Gate!Petition(v, id).status = "executing" /\ Gate!Clock >= Gate!Petition(v, id).at
    BY <1>6 DEF Gate!Execute
  <2> HIDE DEF e
  <2> QED BY <2>1, <2>2 DEF ByGate
<1>7. ASSUME NEW id, NEW vote \in {"passed", "failed"}, Gate!Tally(v, id, vote)
      PROVE  \E e : Puts(e)
  <2> DEFINE e == [type |-> "vote", ts |-> Gate!Clock, id |-> id, vote |-> vote]
  <2>1. e.type = "vote" /\ e.ts = Gate!Clock /\ e.id = id /\ e.vote = vote
    OBVIOUS
  <2>2. Gate!Write(v, e) /\ id \in Gate!Filed(v) /\ Gate!Petition(v, id).status = "filed"
    BY <1>7 DEF Gate!Tally
  <2> HIDE DEF e
  <2> QED BY <2>1, <2>2 DEF ByGate
<1>8. ASSUME NEW id, NEW outcome \in {"voided", "resumed"}, Gate!ResolveAppeal(v, id, outcome)
      PROVE  \E e : Puts(e)
  <2> DEFINE rest == Gate!Remaining(v, id, v[Gate!Max(Gate!Appeals(v, id))].ts)
             e == [type |-> "resolve", ts |-> Gate!Clock, id |-> id, outcome |-> outcome,
                   at |-> Gate!Clock + rest]
  <2>1. /\ e.type = "resolve" /\ e.ts = Gate!Clock /\ e.id = id /\ e.outcome = outcome
        /\ e.at = Gate!Clock + rest
    OBVIOUS
  <2>2. Gate!Write(v, e) /\ id \in Gate!Filed(v) /\ Gate!Petition(v, id).status = "appealed"
    BY <1>8 DEF Gate!ResolveAppeal
  <2> HIDE DEF e
  <2> QED BY <2>1, <2>2 DEF ByGate
<1>9. \E e : Puts(e)
  <2> HIDE DEF Puts
  <2>1. ASSUME NEW n \in Members, Gate!Enter(v, n) \/ Gate!Exit(v, n) \/ Gate!Lock(v, n)
        PROVE  \E e : Puts(e)
    <3>1. \/ Gate!Write(v, [type |-> "enter", ts |-> Gate!Clock, node |-> n])
          \/ Gate!Write(v, [type |-> "exit", ts |-> Gate!Clock, node |-> n])
          \/ Gate!Write(v, [type |-> "lock", ts |-> Gate!Clock, node |-> n])
      BY <2>1, Zenon DEF Gate!Enter, Gate!Exit, Gate!Lock
    <3> QED BY <1>2, <3>1
  <2>2. ASSUME Gate!Suspend(v) \/ Gate!Unsuspend(v) PROVE \E e : Puts(e)
    <3>1. \/ Gate!Write(v, [type |-> "suspend", ts |-> Gate!Clock])
          \/ Gate!Write(v, [type |-> "unsuspend", ts |-> Gate!Clock])
      BY <2>2, Zenon DEF Gate!Suspend, Gate!Unsuspend
    <3> QED BY <1>3, <3>1
  <2> QED BY <1>4, <1>5, <1>6, <1>7, <1>8, <2>1, <2>2
<1> QED BY <1>1, <1>9

OtherDay ==
  \/ /\ now' = now + 1
     /\ (subject = "market" => now < MarketTime) /\ (subject = "gate" => now < GateTime)
  \/ subject = "market" /\ now > 0 /\ now' = now - 1

\* A step writes one event, moves the time by a day, or does neither.
LEMMA StepWrites ==
  ASSUME [Next]_vars
  PROVE  /\ subject' = subject
         /\ \/ chain' = chain /\ late' = late /\ (now' = now \/ OtherDay)
            \/ \E e : Written(e)
<1>1. CASE subject = "market" /\ Market!MarketNext /\ UNCHANGED <<subject, resolutionVars>>
  <2>1. CASE Market!DayPasses \/ Market!DayReturns
    BY <1>1, <2>1 DEF Market!DayPasses, Market!DayReturns, OtherDay
  <2>2. CASE ~ (Market!DayPasses \/ Market!DayReturns)
    <3>1. PICK v \in Market!Views :
            \/ \E pick \in Picks : Market!Bet(v, pick)
            \/ \E ok \in BOOLEAN : Market!Snapshot(v, ok)
            \/ \E ok, provisional \in BOOLEAN, outcome \in {"yes", "invalid"} :
                 Market!Finalize(v, ok, outcome, provisional)
            \/ \E d \in DisputeIds :
                 \/ Market!OpenDispute(v, d) \/ Market!ResolveDispute(v, d)
                 \/ \E side \in {"confirm", "reverse"} : Market!StakeDispute(v, d, side)
      BY <1>1, <2>2, Zenon DEF Market!MarketNext
    <3>2. \E e : Written(e)
      BY <1>1, <3>1, MarketWrites
    <3> QED BY <1>1, <3>2
  <2> QED BY <2>1, <2>2
<1>2. CASE subject = "gate" /\ Gate!GateNext /\ UNCHANGED <<subject, resolutionVars>>
  <2>1. CASE Gate!DayPasses
    BY <1>2, <2>1 DEF Gate!DayPasses, OtherDay
  <2>2. CASE ~ Gate!DayPasses
    <3>1. PICK v \in Gate!Views :
            \/ \E n \in Members : Gate!Enter(v, n) \/ Gate!Exit(v, n) \/ Gate!Lock(v, n)
            \/ Gate!Suspend(v) \/ Gate!Unsuspend(v)
            \/ \E id \in 1..MaxPetitions :
                 \/ Gate!File(v, id) \/ Gate!Appeal(v, id) \/ Gate!Execute(v, id)
                 \/ \E vote \in {"passed", "failed"} : Gate!Tally(v, id, vote)
                 \/ \E outcome \in {"voided", "resumed"} : Gate!ResolveAppeal(v, id, outcome)
      BY <1>2, <2>2, Zenon DEF Gate!GateNext
    <3>2. \E e : Written(e)
      BY <1>2, <3>1, GateWrites
    <3> QED BY <1>2, <3>2
  <2> QED BY <2>1, <2>2
<1>3. CASE subject = "resolution" /\ ResolutionNext /\ UNCHANGED <<subject, chainVars>>
  BY <1>3 DEF chainVars
<1>4. CASE UNCHANGED vars
  BY <1>4 DEF vars, chainVars
<1> QED BY <1>1, <1>2, <1>3, <1>4 DEF Next

\* What an author has seen: all, or all but the last event.
LEMMA SeenIs ==
  ASSUME IsChain(chain), NEW v \in Market!Views
  PROVE  \E m \in Nat : /\ m <= Len(chain) /\ m >= Len(chain) - 1
                        /\ DOMAIN v = 1 .. m /\ \A i \in 1 .. m : v[i] = chain[i]
<1>1. PICK S : chain \in Seq(S)
  BY DEF IsChain
<1>2. Len(chain) \in Nat /\ DOMAIN chain = 1 .. Len(chain)
  BY <1>1
<1> DEFINE Sees(m) == /\ m <= Len(chain) /\ m >= Len(chain) - 1
                      /\ DOMAIN v = 1 .. m /\ \A i \in 1 .. m : v[i] = chain[i]
<1>3. CASE v = chain
  <2>1. Sees(Len(chain))
    BY <1>2, <1>3
  <2> HIDE DEF Sees
  <2>2. \E m \in Nat : Sees(m)
    BY <1>2, <2>1
  <2> QED BY <2>2 DEF Sees
<1>4. CASE chain # <<>> /\ v = Market!Front(chain)
  <2>1. v = SubSeq(chain, 1, Len(chain) - 1) /\ Len(chain) > 0
    BY <1>1, <1>4 DEF Market!Front
  <2>2. v = [i \in 1 .. Len(chain) - 1 |-> chain[i]]
    BY <1>1, <2>1
  <2>3. Len(chain) - 1 \in Nat
    BY <1>2, <2>1
  <2>4. Sees(Len(chain) - 1)
    BY <1>2, <2>2, <2>3
  <2> HIDE DEF Sees
  <2>5. \E m \in Nat : Sees(m)
    BY <2>3, <2>4
  <2> QED BY <2>5 DEF Sees
<1> QED BY <1>3, <1>4 DEF Market!Views

\* The clock follows the time of the chain.
LEMMA ClockIs ==
  ASSUME MarketInv
  PROVE  /\ Market!Day \in Nat \ {0} /\ Market!Clock \in Nat
         /\ Market!Clock = now * Market!Day + Len(chain)
<1>1. Market!Day \in Nat \ {0}
  BY MarketAssumption DEF Market!Day
<1>2. now \in Nat /\ Len(chain) \in Nat
  BY DEF MarketInv, IsChain
<1>3. now * Market!Day \in Nat
  BY <1>1, <1>2
<1> QED BY <1>1, <1>2, <1>3 DEF Market!Clock

\* Where the first snapshot is.
LEMMA SnapshotAt ==
  ASSUME NEW c, NEW m \in Nat, DOMAIN c = 1 .. m
  PROVE  /\ \A j \in 1 .. m : c[j].type = "snapshot" /\ (\A k \in 1 .. j - 1 : c[k].type # "snapshot")
              => Market!Has(c, "snapshot") /\ Market!SnapshotOf(c) = c[j]
         /\ Market!Has(c, "snapshot") =>
              \E j \in 1 .. m : /\ c[j].type = "snapshot" /\ Market!SnapshotOf(c) = c[j]
                                /\ \A k \in 1 .. j - 1 : c[k].type # "snapshot"
<1> DEFINE A == Market!At(c, "snapshot")
           a == Market!Min(A)
<1>1. A \in SUBSET Nat /\ \A j : j \in A <=> j \in 1 .. m /\ c[j].type = "snapshot"
  BY DEF Market!At
<1>2. A # {} => a \in A /\ \A y \in A : a <= y
  <2> HIDE DEF A
  <2> QED BY <1>1, MinIs
<1>3. Market!SnapshotOf(c) = c[a] /\ (Market!Has(c, "snapshot") <=> A # {})
  BY DEF Market!SnapshotOf, Market!FirstOf, Market!Has
<1> HIDE DEF A, a
<1>4. ASSUME NEW j \in 1 .. m, c[j].type = "snapshot", \A k \in 1 .. j - 1 : c[k].type # "snapshot"
      PROVE  a = j /\ A # {}
  <2>1. j \in A /\ a \in A /\ a <= j
    BY <1>1, <1>2, <1>4
  <2>2. a \in 1 .. m /\ c[a].type = "snapshot"
    BY <1>1, <2>1
  <2>3. ~ (a \in 1 .. j - 1)
    BY <1>4, <2>2
  <2> QED BY <2>1, <2>2, <2>3
<1>5. ASSUME A # {} PROVE \A k \in 1 .. a - 1 : c[k].type # "snapshot"
  <2>1. a \in 1 .. m /\ \A y \in A : a <= y
    BY <1>1, <1>2, <1>5
  <2>2. ASSUME NEW k \in 1 .. a - 1, c[k].type = "snapshot" PROVE FALSE
    <3>1. k \in A
      BY <1>1, <2>1, <2>2
    <3> QED BY <2>1, <2>2, <3>1
  <2> QED BY <2>2
<1> QED BY <1>1, <1>2, <1>3, <1>4, <1>5

LEMMA MarketStep ==
  ASSUME MarketInv, [Next]_vars
  PROVE  MarketInv'
<1>1. subject' = subject
  BY StepWrites
<1>2. CASE chain' = chain /\ (now' = now \/ OtherDay)
  <2>1. now' \in Nat
    BY <1>2 DEF MarketInv, OtherDay
  <2> QED BY <1>1, <1>2, <2>1 DEF MarketInv, EventOK
<1>3. CASE \E e : Written(e)
  <2>1. PICK e : Written(e)
    BY <1>3
  <2> DEFINE n == Len(chain)
  <2>2. IsChain(chain') /\ Longer(chain, chain', e)
    BY <2>1, EventJoins DEF Written, MarketInv
  <2>3. now' \in Nat
    BY <2>1 DEF Written, MarketInv
  <2>4. ASSUME NEW i \in 1 .. n PROVE EventOK(chain', i)
    <3>1. EventOK(chain, i) /\ chain'[i] = chain[i]
      BY <2>2 DEF Longer, MarketInv
    <3>2. Opened(chain, i) => Opened(chain', i)
      <4>1. \A j \in 1 .. i - 1 : j \in 1 .. n /\ \A k \in 1 .. j - 1 : k \in 1 .. n
        BY <2>2 DEF Longer
      <4> QED BY <2>2, <4>1 DEF Longer, Opened
    <3> QED BY <3>1, <3>2 DEF EventOK
  <2>5. EventOK(chain', n + 1)
    <3>1. chain'[n + 1] = e /\ n \in Nat
      BY <2>2 DEF Longer
    <3>2. CASE subject = "gate" /\ e.type \notin MarketKinds
      BY <3>1, <3>2 DEF EventOK
    <3>3. ASSUME NEW v \in Market!Views, subject = "market", ByMarket(e, v)
          PROVE  EventOK(chain', n + 1)
      <4>1. e.ts \in Nat /\ (e.type = "bet" => e.side \in Sides)
        BY <3>3, ClockIs DEF ByMarket
      <4>2. ASSUME e.type = "finalize" PROVE Opened(chain', n + 1)
        <5>1. Market!Has(v, "snapshot") /\ Market!SnapshotOf(v).ok
          BY <3>3, <4>2 DEF ByMarket, Market!Due
        <5>2. PICK m \in Nat : /\ m <= n /\ DOMAIN v = 1 .. m
                               /\ \A i \in 1 .. m : v[i] = chain[i]
          BY SeenIs DEF MarketInv
        <5>3. PICK j \in 1 .. m : /\ v[j].type = "snapshot" /\ Market!SnapshotOf(v) = v[j]
                                  /\ \A k \in 1 .. j - 1 : v[k].type # "snapshot"
          <6>1. DOMAIN v = 1 .. m
            BY <5>2
          <6> QED BY <5>1, <6>1, SnapshotAt
        <5>4. \A i \in 1 .. m : chain'[i] = v[i]
          BY <2>2, <5>2 DEF Longer
        <5>5. j \in 1 .. (n + 1) - 1 /\ \A k \in 1 .. j - 1 : k \in 1 .. m
          BY <3>1, <5>2
        <5> QED BY <5>1, <5>3, <5>4, <5>5 DEF Opened
      <4> QED BY <3>1, <3>3, <4>1, <4>2 DEF EventOK
    <3> QED BY <2>1, <3>2, <3>3 DEF Written
  <2> HIDE DEF n
  <2>6. \A i \in DOMAIN chain' : i \in 1 .. n \/ i = n + 1
    BY <2>2 DEF Longer, n
  <2>7. \A i : EventOK(chain', i) => EventOK(chain, i)'
    BY <1>1 DEF EventOK, Opened
  <2> QED BY <2>2, <2>3, <2>4, <2>5, <2>6, <2>7 DEF MarketInv
<1> QED BY <1>2, <1>3, StepWrites

LEMMA MarketInvariance == Spec => []MarketInv
<1>1. Init => MarketInv
  <2>1. IsChain(<<>>)
    <3>1. <<>> \in Seq({})
      OBVIOUS
    <3> QED BY <3>1 DEF IsChain
  <2> QED BY <2>1 DEF Init, MarketInv
<1> QED BY <1>1, MarketStep, PTL DEF Spec

------------------------------------------------------------------------------
(* The status goes forward *)

\* What is final or has its first snapshot stays so.
LEMMA FirstsStay ==
  ASSUME MarketInv, [Next]_vars
  PROVE  \A type : Market!Has(chain, type) =>
           /\ Market!Has(chain', type)
           /\ Market!FirstOf(chain', type) = Market!FirstOf(chain, type)
<1>1. CASE chain' = chain
  BY <1>1
<1>2. CASE chain' # chain
  <2>1. PICK e : Longer(chain, chain', e)
    BY <1>2, StepWrites, EventJoins DEF Written, MarketInv
  <2> QED BY <2>1, FirstStays
<1> QED BY <1>1, <1>2

Ends == {"final", "invalid"}

LEMMA StatusIs ==
  ASSUME NEW c, NEW t
  PROVE  /\ Market!Status(c, t) \in Ends =>
              /\ Market!Has(c, "finalize") /\ Market!FinalizeOf(c).ok
              /\ Market!Status(c, t) =
                   IF Market!FinalizeOf(c).outcome = "invalid" THEN "invalid" ELSE "final"
         /\ Market!Has(c, "finalize") /\ Market!FinalizeOf(c).ok => Market!Status(c, t) \in Ends
         /\ Market!Status(c, t) \notin Ends \union {"predicting"} =>
              /\ Market!Has(c, "snapshot") /\ Market!SnapshotOf(c).ok
              /\ Market!Status(c, t) =
                   IF t < Market!EvidenceClose(c) THEN "evidence" ELSE "resolving"
         /\ Market!Has(c, "snapshot") /\ Market!SnapshotOf(c).ok
              => Market!Status(c, t) # "predicting"
BY DEF Market!Status, Ends

\* The time of the first snapshot.
LEMMA EvidenceCloses ==
  ASSUME MarketInv, Market!Has(chain, "snapshot")
  PROVE  Market!EvidenceClose(chain) \in Nat
<1>1. Len(chain) \in Nat /\ DOMAIN chain = 1 .. Len(chain)
  BY DEF MarketInv, IsChain
<1>2. PICK j \in 1 .. Len(chain) :
        chain[j].type = "snapshot" /\ Market!SnapshotOf(chain) = chain[j]
  BY <1>1, SnapshotAt
<1>3. Market!SnapshotOf(chain).ts \in Nat
  BY <1>1, <1>2 DEF MarketInv, EventOK, MarketKinds
<1>4. EvidenceWindow * Market!Day \in Nat
  BY ClockIs, MarketAssumption
<1> QED BY <1>3, <1>4 DEF Market!EvidenceClose

\* The clock goes on as long as the time of the chain does not go back.
LEMMA ClockGoesOn ==
  ASSUME MarketInv, [Next]_vars, now' >= now
  PROVE  Market!Clock \in Nat /\ Market!Clock' \in Nat /\ Market!Clock <= Market!Clock'
<1>1. /\ Market!Day \in Nat /\ now \in Nat /\ Len(chain) \in Nat
      /\ Market!Clock = now * Market!Day + Len(chain)
  BY ClockIs DEF MarketInv, IsChain
<1>2. Market!Clock' = now' * Market!Day + Len(chain')
  BY DEF Market!Clock, Market!Day
<1>3. Len(chain') \in Nat /\ Len(chain') >= Len(chain)
  BY <1>1, StepWrites, EventJoins DEF Written, MarketInv, Longer
<1>4. now' = now \/ now' = now + 1
  BY <1>1, StepWrites DEF Written, OtherDay
<1>5. (now + 1) * Market!Day = now * Market!Day + Market!Day /\ now * Market!Day \in Nat
  BY <1>1
<1> QED BY <1>1, <1>2, <1>3, <1>4, <1>5

\* lifecycle.py: a market never comes back to a phase that it has left, and its
\* end is the end, whatever is late, malformed or repeated.
THEOREM StatusGoesForward == Spec => StatusForward
<1> DEFINE before == Market!Status(chain, Market!Clock)
           after == Market!Status(chain', Market!Clock')
<1>1. ASSUME MarketInv, [Next]_vars, before \in Ends
      PROVE  after = before
  <2>1. /\ Market!Has(chain, "finalize") /\ Market!FinalizeOf(chain).ok
        /\ before = IF Market!FinalizeOf(chain).outcome = "invalid" THEN "invalid" ELSE "final"
    BY <1>1, StatusIs
  <2>2. Market!Has(chain', "finalize") /\ Market!FinalizeOf(chain') = Market!FinalizeOf(chain)
    BY <1>1, <2>1, FirstsStay DEF Market!FinalizeOf
  <2>3. after \in Ends
    BY <2>1, <2>2, StatusIs
  <2> QED BY <2>1, <2>2, <2>3, StatusIs
<1>2. ASSUME MarketInv, [Next]_vars, now' >= now, {before, after} \subseteq DOMAIN Market!Phase
      PROVE  Market!Phase[before] <= Market!Phase[after]
  <2>1. /\ before \in {"predicting", "evidence", "resolving"} /\ before \notin Ends
        /\ after \in {"predicting", "evidence", "resolving"} /\ after \notin Ends
    BY <1>2 DEF Market!Phase, Ends
  <2>2. CASE before = "predicting"
    BY <2>1, <2>2 DEF Market!Phase
  <2>3. CASE before # "predicting"
    <3> DEFINE T == Market!EvidenceClose(chain)
               t == Market!Clock
               u == Market!Clock'
    <3>1. /\ Market!Has(chain, "snapshot") /\ Market!SnapshotOf(chain).ok
          /\ before = IF t < T THEN "evidence" ELSE "resolving"
      BY <2>1, <2>3, StatusIs
    <3>2. Market!Has(chain', "snapshot") /\ Market!SnapshotOf(chain') = Market!SnapshotOf(chain)
      BY <1>2, <3>1, FirstsStay DEF Market!SnapshotOf
    <3>3. Market!EvidenceClose(chain') = T
      BY <3>2 DEF Market!EvidenceClose
    <3>4. after # "predicting"
      BY <3>1, <3>2, StatusIs
    <3>5. after = IF u < T THEN "evidence" ELSE "resolving"
      BY <2>1, <3>3, <3>4, StatusIs
    <3>6. t \in Nat /\ u \in Nat /\ t <= u /\ T \in Nat
      BY <1>2, <3>1, ClockGoesOn, EvidenceCloses
    <3> HIDE DEF before, after, T, t, u
    <3>7. u < T => t < T
      BY <3>6
    <3> QED BY <3>1, <3>5, <3>7 DEF Market!Phase
  <2> QED BY <2>2, <2>3
<1>3. MarketInv /\ [Next]_vars =>
        [(before \in {"final", "invalid"}) => after = before]_(Market!marketVars)
  BY <1>1 DEF Ends
<1>4. MarketInv /\ [Next]_vars =>
        [now' >= now /\ {before, after} \subseteq DOMAIN Market!Phase
           => Market!Phase[before] <= Market!Phase[after]]_(Market!marketVars)
  BY <1>2
<1> QED BY <1>3, <1>4, MarketInvariance, PTL
     DEF Spec, StatusForward, Market!StatusForward, Market!TerminalStays, Market!PhasesForward

------------------------------------------------------------------------------
(* What a market brings *)

\* An event of another kind leaves the events of a kind alone.
LEMMA OthersStay ==
  ASSUME NEW c, NEW d, NEW e, Longer(c, d, e), NEW type, e.type # type
  PROVE  /\ Market!At(d, type) = Market!At(c, type)
         /\ Market!Of(d, type) = Market!Of(c, type)
         /\ Market!Has(d, type) <=> Market!Has(c, type)
         /\ Market!Latest(d, type) = Market!Latest(c, type)
<1>1. Market!At(d, type) = Market!At(c, type) /\ Market!At(c, type) \subseteq 1 .. Len(c)
  BY DEF Market!At, Longer
<1>2. Market!Of(d, type) = Market!Of(c, type)
  <2> DEFINE A == Market!At(c, type)
  <2>1. \A i \in A : d[i] = c[i]
    BY <1>1 DEF Longer
  <2> HIDE DEF A
  <2>2. {d[i] : i \in A} = {c[i] : i \in A}
    BY <2>1
  <2> QED BY <1>1, <2>2 DEF Market!Of, A
<1> QED BY <1>1, <1>2 DEF Market!Has, Market!Latest

\* Only the resolution of a dispute may reverse a market.
LEMMA ReversalsStay ==
  ASSUME NEW c, NEW d, NEW e, Longer(c, d, e), e.type # "dispute_resolve"
  PROVE  Market!Reversals(d) = Market!Reversals(c)
<1>1. ASSUME NEW id
      PROVE  /\ Market!Resolves(d, id) = Market!Resolves(c, id)
             /\ Market!Resolves(c, id) # {} =>
                  d[Market!Max(Market!Resolves(c, id))] = c[Market!Max(Market!Resolves(c, id))]
  <2> DEFINE R == Market!Resolves(c, id)
  <2>1. /\ Market!At(d, "dispute_resolve") = Market!At(c, "dispute_resolve")
        /\ Market!At(c, "dispute_resolve") \subseteq 1 .. Len(c)
    BY OthersStay DEF Market!At, Longer
  <2>2. Market!Resolves(d, id) = R /\ R \in SUBSET (1 .. Len(c)) /\ Len(c) \in Nat
    BY <2>1 DEF Market!Resolves, Longer
  <2>3. ASSUME R # {} PROVE Market!Max(R) \in 1 .. Len(c)
    <3> HIDE DEF R
    <3>1. R \in SUBSET Nat /\ \A x \in R : x <= Len(c)
      BY <2>2
    <3>2. Market!Max(R) \in R
      BY <2>2, <2>3, <3>1, MaxIs
    <3> QED BY <2>2, <3>2
  <2> QED BY <2>2, <2>3 DEF Longer
<1> QED BY <1>1 DEF Market!Reversals

\* What a market brings hangs on bets, snapshots, final events and reversals.
SameEvents(c, d) ==
  /\ \A type \in {"bet", "snapshot", "finalize"} :
       /\ Market!Of(d, type) = Market!Of(c, type)
       /\ Market!Has(d, type) <=> Market!Has(c, type)
       /\ Market!Latest(d, type) = Market!Latest(c, type)

LEMMA SameGain ==
  ASSUME NEW c, NEW d, SameEvents(c, d)
  PROVE  /\ Market!Bets(d) = Market!Bets(c)
         /\ Market!Mintable(d) <=> Market!Mintable(c)
         /\ \A b, outcome : Market!Gain(d, b, outcome) = Market!Gain(c, b, outcome)
<1>1. Market!Bets(d) = Market!Bets(c)
  BY DEF SameEvents, Market!Bets
<1>2. Market!Mintable(d) <=> Market!Mintable(c)
  BY DEF SameEvents, Market!Mintable
<1>3. \A side : Market!Pool(d, side) = Market!Pool(c, side)
  BY <1>1 DEF Market!Pool
<1> QED BY <1>1, <1>2, <1>3 DEF Market!Gain

LEMMA SameRep ==
  ASSUME NEW c, NEW d, SameEvents(c, d), Market!Reversals(d) = Market!Reversals(c), NEW n
  PROVE  Market!Rep(d, n) = Market!Rep(c, n)
<1>1. Market!EffectiveEnd(d) = Market!EffectiveEnd(c)
  BY DEF SameEvents, Market!EffectiveEnd, Market!Effective
<1>2. Market!Gains(d, n) = Market!Gains(c, n)
  <2> DEFINE own == {o \in Market!Bets(c) : o.node = n}
             x == Market!EffectiveEnd(c)
  <2>1. \A b : Market!Gain(d, b, x) = Market!Gain(c, b, x)
    BY SameGain
  <2> HIDE DEF own, x
  <2>2. {[bet |-> b, gain |-> Market!Gain(d, b, x)] : b \in own}
          = {[bet |-> b, gain |-> Market!Gain(c, b, x)] : b \in own}
    BY <2>1
  <2> QED BY <1>1, <2>2, SameGain DEF Market!Gains, own, x
<1> QED BY <1>2 DEF Market!Rep

\* Behind the end of a market nobody sees it without its snapshot.
LEMMA AfterTheEnd ==
  ASSUME MarketInv, Market!Has(chain, "finalize")
  PROVE  /\ subject = "market"
         /\ \A v \in Market!Views : /\ Market!Status(v, Market!Clock) # "predicting"
                                    /\ Market!Due(v, Market!Clock) # "evidence"
<1>1. Len(chain) \in Nat /\ DOMAIN chain = 1 .. Len(chain)
  BY DEF MarketInv, IsChain
<1>2. PICK i \in 1 .. Len(chain) : chain[i].type = "finalize"
  BY <1>1 DEF Market!Has, Market!At
<1>3. subject = "market" /\ Opened(chain, i)
  BY <1>1, <1>2 DEF MarketInv, EventOK, MarketKinds
<1>4. ASSUME NEW v \in Market!Views
      PROVE  Market!Has(v, "snapshot") /\ Market!SnapshotOf(v).ok
  <2>1. PICK m \in Nat : /\ m >= Len(chain) - 1 /\ m <= Len(chain) /\ DOMAIN v = 1 .. m
                         /\ \A k \in 1 .. m : v[k] = chain[k]
    BY SeenIs DEF MarketInv
  <2>2. PICK j \in 1 .. i - 1 : /\ chain[j].type = "snapshot" /\ chain[j].ok
                                /\ \A k \in 1 .. j - 1 : chain[k].type # "snapshot"
    BY <1>3 DEF Opened
  <2>3. j \in 1 .. m /\ \A k \in 1 .. j - 1 : k \in 1 .. m
    BY <1>1, <1>2, <2>1
  <2>4. v[j].type = "snapshot" /\ v[j].ok /\ \A k \in 1 .. j - 1 : v[k].type # "snapshot"
    BY <2>1, <2>2, <2>3
  <2>5. DOMAIN v = 1 .. m
    BY <2>1
  <2> QED BY <2>3, <2>4, <2>5, SnapshotAt
<1>5. ASSUME NEW v \in Market!Views
      PROVE  /\ Market!Status(v, Market!Clock) # "predicting"
             /\ Market!Due(v, Market!Clock) # "evidence"
  BY <1>4, StatusIs DEF Market!Due
<1> QED BY <1>3, <1>5

\* Both modules count alike.
LEMMA CountAlike ==
  ASSUME NEW S
  PROVE  Market!Cardinality(S) = Cardinality(S)
BY DEF Market!Cardinality, Cardinality

\* There are finitely many bets.
LEMMA BetsAreFinite ==
  ASSUME MarketInv
  PROVE  IsFiniteSet(Market!Bets(chain))
<1> DEFINE A == Market!At(chain, "bet")
<1>1. Len(chain) \in Nat /\ DOMAIN chain = 1 .. Len(chain)
  BY DEF MarketInv, IsChain
<1>2. A \in SUBSET (1 .. Len(chain)) /\ IsFiniteSet(1 .. Len(chain))
  BY <1>1, FS_Interval DEF Market!At
<1> HIDE DEF A
<1>3. IsFiniteSet(A)
  BY <1>2, FS_Subset
<1> DEFINE B == {chain[i] : i \in A}
           f == [i \in A |-> chain[i]]
<1>4. f \in Surjection(A, B)
  BY DEF Surjection
<1> HIDE DEF B, f
<1>5. IsFiniteSet(B)
  BY <1>3, <1>4, FS_Surjection
<1> QED BY <1>5 DEF Market!Bets, Market!Of, A, B

\* A bet brings something exactly when its side is right.
LEMMA GainSign ==
  ASSUME MarketInv, NEW b \in Market!Bets(chain), NEW outcome
  PROVE  /\ Market!Gain(chain, b, outcome) > 0 <=> b.side = outcome
         /\ Market!Gain(chain, b, outcome) \in Int
<1> DEFINE P(side) == {o \in Market!Bets(chain) : o.paid /\ o.side = side}
<1>2. IsFiniteSet(Market!Bets(chain))
  BY BetsAreFinite
<1>3. \A side : Market!Pool(chain, side) \in Nat
  <2>1. \A side : P(side) \in SUBSET Market!Bets(chain)
    OBVIOUS
  <2> HIDE DEF P
  <2>2. \A side : Cardinality(P(side)) \in Nat
    BY <1>2, <2>1, PartIs
  <2> QED BY <2>2, CountAlike DEF Market!Pool, P
<1>4. ASSUME b.paid, b.side = outcome PROVE Market!Pool(chain, outcome) > 0
  <2>1. P(outcome) \in SUBSET Market!Bets(chain) /\ P(outcome) # {}
    BY <1>4
  <2> HIDE DEF P
  <2>2. Cardinality(P(outcome)) # 0 /\ Cardinality(P(outcome)) \in Nat
    BY <1>2, <2>1, PartIs
  <2> QED BY <2>2, CountAlike DEF Market!Pool, P
<1> DEFINE p == Market!Pool(chain, outcome)
           q == Market!Pool(chain, Market!Flip(outcome))
<1>5. /\ Market!Gain(chain, b, outcome) =
           IF b.side = outcome THEN IF b.paid THEN 2 + (2 * q) \div p ELSE 2
           ELSE IF b.paid THEN -2 ELSE 0
  BY DEF Market!Gain, Market!Worth
<1>6. p \in Nat /\ q \in Nat /\ (b.paid /\ b.side = outcome => p > 0)
  BY <1>3, <1>4
<1> HIDE DEF p, q
<1>7. p > 0 => (2 * q) \div p \in Nat
  BY <1>6
<1> QED BY <1>5, <1>6, <1>7

\* Final is the status only when somebody has finalized.
LEMMA FinalIs ==
  ASSUME NEW c, NEW t, Market!Status(c, t) = "final"
  PROVE  Market!Has(c, "finalize")
BY StatusIs DEF Ends

LEMMA SettledStep ==
  ASSUME MarketInv, [Next]_vars, NEW n, Market!Status(chain, Market!Clock) = "final",
         Market!Rep(chain', n) # Market!Rep(chain, n)
  PROVE  Market!Last(chain').type \in {"dispute_resolve", "finalize"}
<1>1. chain' # chain
  OBVIOUS
<1>2. PICK e : Written(e)
  BY <1>1, StepWrites
<1>3. IsChain(chain') /\ Longer(chain, chain', e)
  BY <1>2, EventJoins DEF Written, MarketInv
<1>4. Market!Last(chain') = e
  BY <1>3 DEF Longer, Market!Last
<1>5. Market!Has(chain, "finalize")
  BY FinalIs
<1>6. PICK v \in Market!Views : ByMarket(e, v)
  BY <1>2, <1>5, AfterTheEnd DEF Written
<1>7. e.type \notin {"bet", "snapshot"}
  BY <1>5, <1>6, AfterTheEnd DEF ByMarket
<1>8. ASSUME e.type \notin {"dispute_resolve", "finalize"} PROVE FALSE
  <2>1. SameEvents(chain, chain')
    BY <1>3, <1>7, <1>8, OthersStay DEF SameEvents
  <2>2. Market!Reversals(chain') = Market!Reversals(chain)
    BY <1>3, <1>8, ReversalsStay
  <2> QED BY <2>1, <2>2, SameRep
<1> QED BY <1>4, <1>8

\* One reversal more turns the end round.
LEMMA EndFlips ==
  ASSUME NEW c, NEW d, NEW outcome \in Sides, NEW id \in DisputeIds,
         id \notin Market!Reversals(c),
         Market!Reversals(d) = Market!Reversals(c) \union {id}
  PROVE  /\ Market!Effective(c, outcome) \in Sides /\ Market!Effective(d, outcome) \in Sides
         /\ Market!Effective(c, outcome) # Market!Effective(d, outcome)
<1> DEFINE R == Market!Reversals(c)
           k == Cardinality(R)
<1>1. IsFiniteSet(R) /\ k \in Nat
  <2>1. R \in SUBSET DisputeIds /\ IsFiniteSet(DisputeIds)
    BY MarketAssumption DEF Market!Reversals
  <2> HIDE DEF R
  <2> QED BY <2>1, PartIs
<1>2. Cardinality(R \union {id}) = k + 1
  BY <1>1, FS_AddElement
<1>3. /\ Market!Effective(c, outcome) = IF k % 2 = 1 THEN Market!Flip(outcome) ELSE outcome
      /\ Market!Effective(d, outcome) = IF (k + 1) % 2 = 1 THEN Market!Flip(outcome) ELSE outcome
  BY <1>2, CountAlike DEF Market!Effective, Sides
<1> HIDE DEF k
<1>4. (k + 1) % 2 = 1 <=> ~ (k % 2 = 1)
  BY <1>1
<1>5. Market!Flip(outcome) \in Sides /\ Market!Flip(outcome) # outcome
  BY DEF Market!Flip, Sides
<1> QED BY <1>3, <1>4, <1>5

LEMMA ReversalStep ==
  ASSUME MarketInv, [Next]_vars, NEW b \in Market!Bets(chain), Market!Mintable(chain),
         NEW id \in DisputeIds, id \notin Market!Reversals(chain),
         Market!Reversals(chain') = Market!Reversals(chain) \union {id}
  PROVE  (Market!Gain(chain, b, Market!EffectiveEnd(chain)) > 0)
           # (Market!Gain(chain', b, Market!EffectiveEnd(chain')) > 0)
<1> DEFINE outcome == Market!Latest(chain, "finalize").outcome
           x == Market!Effective(chain, outcome)
           y == Market!Effective(chain', outcome)
<1>1. chain' # chain
  OBVIOUS
<1>2. PICK e : Written(e)
  BY <1>1, StepWrites
<1>3. IsChain(chain') /\ Longer(chain, chain', e)
  BY <1>2, EventJoins DEF Written, MarketInv
<1>4. e.type = "dispute_resolve"
  BY <1>3, ReversalsStay
<1>5. SameEvents(chain, chain')
  BY <1>3, <1>4, OthersStay DEF SameEvents
<1>6. outcome \in Sides
  BY DEF Market!Mintable, Sides
<1>7. Market!EffectiveEnd(chain) = x /\ Market!EffectiveEnd(chain') = y
  BY <1>5 DEF Market!EffectiveEnd, SameEvents
<1>8. x \in Sides /\ y \in Sides /\ x # y
  <2> HIDE DEF outcome
  <2> QED BY <1>6, EndFlips
<1> HIDE DEF x, y
<1>9. /\ Market!Gain(chain, b, x) > 0 <=> b.side = x
      /\ Market!Gain(chain', b, y) = Market!Gain(chain, b, y)
      /\ Market!Gain(chain, b, y) > 0 <=> b.side = y
  BY <1>5, <1>8, GainSign, SameGain
<1>10. b.side \in Sides
  <2>1. PICK i \in DOMAIN chain : chain[i].type = "bet" /\ b = chain[i]
    BY DEF Market!Bets, Market!Of, Market!At
  <2> QED BY <2>1 DEF MarketInv, EventOK, MarketKinds
<1>11. (b.side = x) # (b.side = y)
  BY <1>8, <1>10 DEF Sides
<1> QED BY <1>7, <1>9, <1>11

\* dispute.py, oracle_rep.py: after the end of a market its reputation moves
\* with a reversal or a late finalize only, and a reversal moves it from those
\* who were right to those who were wrong.
THEOREM ReversalsMove == Spec => OnlyReversalsMove
<1>1. MarketInv /\ [Next]_vars =>
        [\A n \in Bettors :
           Market!Status(chain, Market!Clock) = "final" /\ Market!Rep(chain', n) # Market!Rep(chain, n)
             => Market!Last(chain').type \in {"dispute_resolve", "finalize"}]_(Market!marketVars)
  BY SettledStep
<1>2. MarketInv /\ [Next]_vars =>
        [\A b \in Market!Bets(chain) :
           /\ Market!Mintable(chain)
           /\ \E d \in DisputeIds : Market!Reversals(chain') = Market!Reversals(chain) \union {d}
                                      /\ d \notin Market!Reversals(chain)
           => (Market!Gain(chain, b, Market!EffectiveEnd(chain)) > 0)
                # (Market!Gain(chain', b, Market!EffectiveEnd(chain')) > 0)]_(Market!marketVars)
  BY ReversalStep
<1> QED BY <1>1, <1>2, MarketInvariance, PTL
     DEF Spec, OnlyReversalsMove, Market!OnlyReversalsMove, Market!SettledStays, Market!ReversalSwaps

------------------------------------------------------------------------------
(* The events of a gate *)

\* The other module's names for the same.
LEMMA AlikeInGates ==
  ASSUME NEW S
  PROVE  /\ Gate!Cardinality(S) = Cardinality(S)
         /\ Gate!Min(S) = Market!Min(S) /\ Gate!Max(S) = Market!Max(S)
BY DEF Gate!Cardinality, Cardinality, Gate!Min, Gate!Max, Market!Min, Market!Max

\* A new event joins those of its kind.
LEMMA KindGrows ==
  ASSUME NEW c, NEW d, NEW e, Longer(c, d, e), NEW type
  PROVE  /\ Gate!At(c, type) \in SUBSET (1 .. Len(c))
         /\ Gate!At(d, type) =
              Gate!At(c, type) \union (IF e.type = type THEN {Len(c) + 1} ELSE {})
BY DEF Gate!At, Longer

\* A chain as the function it is.
LEMMA ChainIs ==
  ASSUME NEW c, IsChain(c)
  PROVE  Len(c) \in Nat /\ DOMAIN c = 1 .. Len(c)
BY DEF IsChain

\* Petition comes to what its steps, one after the other, make of it.
Filed0 == [status |-> "filed", at |-> Gate!None]
Turn(c, id, i, p) == IF Gate!Concerns(c[i], id) THEN Gate!Step(c[i], p) ELSE p
Turns(c, id, f) == f[0] = Filed0 /\ \A i \in 1 .. Len(c) : f[i] = Turn(c, id, i, f[i - 1])

\* There is such a sequence of petitions, and it ends in Petition.
LEMMA PetitionTurns ==
  ASSUME NEW c, IsChain(c), NEW id
  PROVE  \E f : Turns(c, id, f) /\ Gate!Petition(c, id) = f[Len(c)]
<1> DEFINE n == Len(c)
           Statuses == {"filed", "executing", "failed", "appealed", "voided_appeal", "executed"}
           Ats == {Gate!None} \union {c[i].ts + DelayDays * Gate!Day : i \in 1 .. n}
                    \union {c[i].at : i \in 1 .. n}
           S == [status : Statuses, at : Ats]
           step == [i \in 1 .. n |-> [p \in S |-> Turn(c, id, i, p)]]
           Is(f) == f = [i \in 0 .. n |-> IF i = 0 THEN Filed0
                                          ELSE IF Gate!Concerns(c[i], id) THEN Gate!Step(c[i], f[i - 1])
                                          ELSE f[i - 1]]
<1>1. n \in Nat
  BY ChainIs
<1>2. ASSUME NEW i \in 1 .. n, NEW p \in S PROVE Turn(c, id, i, p) \in S
  <2>1. c[i].ts + DelayDays * Gate!Day \in Ats /\ c[i].at \in Ats /\ Gate!None \in Ats
    OBVIOUS
  <2> HIDE DEF Ats
  <2> QED BY <2>1 DEF Turn, Gate!Step
<1>3. Filed0 \in S
  BY DEF Filed0
<1>4. PICK f : /\ f[0] = Filed0
               /\ \A i \in 1 .. n : f[i - 1] \in S /\ f[i] = step[i][f[i - 1]]
  <2>1. step \in Steps(n, S)
    <3> HIDE DEF S, n
    <3> QED BY <1>2 DEF Steps
  <2> HIDE DEF step, S, n
  <2>2. Folded(Filed0, step, n, S)
    BY <1>1, <1>3, <2>1, Folding
  <2> QED BY <2>2 DEF Folded
<1>5. \A i \in 1 .. n : f[i] = Turn(c, id, i, f[i - 1])
  <2> HIDE DEF S, n
  <2> QED BY <1>4
<1> DEFINE g == [i \in 0 .. n |-> f[i]]
           h == CHOOSE k : Is(k)
<1>6. Is(g)
  <2> DEFINE r == [i \in 0 .. n |-> IF i = 0 THEN Filed0
                                    ELSE IF Gate!Concerns(c[i], id) THEN Gate!Step(c[i], g[i - 1])
                                    ELSE g[i - 1]]
  <2>1. ASSUME NEW i \in 0 .. n PROVE g[i] = r[i]
    <3>1. CASE i = 0
      BY <1>4, <3>1
    <3>2. CASE i # 0
      <4>1. i \in 1 .. n /\ i - 1 \in 0 .. n /\ g[i - 1] = f[i - 1] /\ g[i] = f[i]
        BY <1>1, <3>2
      <4>2. r[i] = Turn(c, id, i, g[i - 1])
        BY <3>2 DEF Turn
      <4> HIDE DEF g, r
      <4> QED BY <1>5, <4>1, <4>2
    <3> QED BY <3>1, <3>2
  <2>2. g = r
    BY <2>1
  <2> HIDE DEF g
  <2> QED BY <2>2
<1>7. Is(h)
  <2> HIDE DEF Is, g
  <2> QED BY <1>6
<1>8. Gate!Petition(c, id) = h[n]
  BY DEF Gate!Petition, Filed0
<1>9. Turns(c, id, h)
  <2> HIDE DEF h
  <2>1. h[0] = Filed0
    BY <1>1, <1>7
  <2>2. ASSUME NEW i \in 1 .. n PROVE h[i] = Turn(c, id, i, h[i - 1])
    BY <1>1, <1>7, SMTT(30) DEF Turn
  <2> QED BY <2>1, <2>2 DEF Turns
<1> HIDE DEF h
<1> QED BY <1>8, <1>9

\* A petition before any event, and with one event more.
LEMMA PetitionBegins ==
  ASSUME NEW id
  PROVE  Gate!Petition(<<>>, id) = Filed0
<1>1. IsChain(<<>>) /\ Len(<<>>) = 0
  <2>1. <<>> \in Seq({})
    OBVIOUS
  <2> QED BY <2>1 DEF IsChain
<1> QED BY <1>1, PetitionTurns DEF Turns

LEMMA PetitionGrows ==
  ASSUME NEW c, IsChain(c), NEW d, IsChain(d), NEW e, Longer(c, d, e), NEW id
  PROVE  Gate!Petition(d, id) = IF Gate!Concerns(e, id) THEN Gate!Step(e, Gate!Petition(c, id))
                                ELSE Gate!Petition(c, id)
<1> DEFINE n == Len(c)
<1>1. PICK f : Turns(c, id, f) /\ Gate!Petition(c, id) = f[n]
  BY PetitionTurns
<1>2. PICK g : Turns(d, id, g) /\ Gate!Petition(d, id) = g[n + 1]
  BY PetitionTurns DEF Longer
<1>3. n \in Nat /\ Len(d) = n + 1 /\ d[n + 1] = e /\ \A i \in 1 .. n : d[i] = c[i]
  BY DEF Longer
<1> DEFINE T == {i \in 0 .. n : g[i] = f[i]}
<1> HIDE DEF n
<1>4. 0 \in T
  BY <1>1, <1>2, <1>3 DEF Turns
<1>5. ASSUME NEW i \in 1 .. n, i - 1 \in T PROVE i \in T
  <2>1. f[i] = Turn(c, id, i, f[i - 1])
    BY <1>1 DEF Turns, n
  <2>2. i \in 1 .. n + 1
    BY <1>3
  <2>3. g[i] = Turn(d, id, i, g[i - 1])
    BY <1>2, <1>3, <2>2 DEF Turns
  <2>4. Turn(d, id, i, g[i - 1]) = Turn(c, id, i, f[i - 1])
    BY <1>3, <1>5 DEF Turn
  <2>5. i \in 0 .. n
    BY <1>3
  <2> QED BY <2>1, <2>3, <2>4, <2>5
<1>6. \A i \in 0 .. n : i \in T
  <2>1. \A i \in 1 .. n : i - 1 \in T => i \in T
    BY <1>5
  <2> HIDE DEF T
  <2> QED BY <1>3, <1>4, <2>1, UpTo
<1>7. g[n] = f[n]
  BY <1>3, <1>6
<1>8. g[n + 1] = Turn(d, id, n + 1, g[n])
  <2>1. n + 1 \in 1 .. Len(d) /\ (n + 1) - 1 = n
    BY <1>3
  <2> QED BY <1>2, <2>1 DEF Turns
<1> QED BY <1>1, <1>2, <1>3, <1>7, <1>8 DEF Turn

\* Who is in comes to what the events, one after the other, make of it.
Among(c, i, M) ==
  IF i \in Gate!At(c, "execute") THEN {}
  ELSE IF i \in Gate!At(c, "exit") THEN M \ {c[i].node}
  ELSE IF Gate!Admits(c, i) THEN M \union {c[i].node}
  ELSE M
Comings(c, f) == f[0] = {} /\ \A i \in 1 .. Len(c) : f[i] = Among(c, i, f[i - 1])

\* There is such a sequence of member sets, and it ends in MemberSet.
LEMMA MembersCome ==
  ASSUME NEW c, IsChain(c)
  PROVE  \E f : Comings(c, f) /\ Gate!MemberSet(c) = f[Len(c)]
<1> DEFINE n == Len(c)
           S == SUBSET {c[i].node : i \in 1 .. n}
           step == [i \in 1 .. n |-> [M \in S |-> Among(c, i, M)]]
           Is(f) == f = [i \in 0 .. n |-> IF i = 0 \/ i \in Gate!At(c, "execute") THEN {}
                                          ELSE IF i \in Gate!At(c, "exit") THEN f[i - 1] \ {c[i].node}
                                          ELSE IF Gate!Admits(c, i) THEN f[i - 1] \union {c[i].node}
                                          ELSE f[i - 1]]
<1>1. n \in Nat
  BY ChainIs
<1>2. ASSUME NEW i \in 1 .. n, NEW M \in S PROVE Among(c, i, M) \in S
  BY DEF Among
<1>3. {} \in S
  OBVIOUS
<1>4. PICK f : f[0] = {} /\ \A i \in 1 .. n : f[i - 1] \in S /\ f[i] = step[i][f[i - 1]]
  <2>1. step \in Steps(n, S)
    <3> HIDE DEF S, n
    <3> QED BY <1>2 DEF Steps
  <2> HIDE DEF step, S, n
  <2>2. Folded({}, step, n, S)
    BY <1>1, <1>3, <2>1, Folding
  <2> QED BY <2>2 DEF Folded
<1>5. \A i \in 1 .. n : f[i] = Among(c, i, f[i - 1])
  <2> HIDE DEF S, n
  <2> QED BY <1>4
<1> DEFINE g == [i \in 0 .. n |-> f[i]]
           h == CHOOSE k : Is(k)
<1>6. Is(g)
  <2> DEFINE r == [i \in 0 .. n |-> IF i = 0 \/ i \in Gate!At(c, "execute") THEN {}
                                    ELSE IF i \in Gate!At(c, "exit") THEN g[i - 1] \ {c[i].node}
                                    ELSE IF Gate!Admits(c, i) THEN g[i - 1] \union {c[i].node}
                                    ELSE g[i - 1]]
  <2>1. ASSUME NEW i \in 0 .. n PROVE g[i] = r[i]
    <3>1. CASE i = 0
      BY <1>4, <3>1
    <3>2. CASE i # 0
      <4>1. i \in 1 .. n /\ i - 1 \in 0 .. n /\ g[i - 1] = f[i - 1] /\ g[i] = f[i]
        BY <1>1, <3>2
      <4>2. r[i] = Among(c, i, g[i - 1])
        BY <3>2 DEF Among
      <4> HIDE DEF g, r
      <4> QED BY <1>5, <4>1, <4>2
    <3> QED BY <3>1, <3>2
  <2>2. g = r
    BY <2>1
  <2> HIDE DEF g
  <2> QED BY <2>2
<1>7. Is(h)
  <2> HIDE DEF Is, g
  <2> QED BY <1>6
<1>8. Gate!MemberSet(c) = h[n]
  BY DEF Gate!MemberSet
<1>9. Comings(c, h)
  <2> HIDE DEF h
  <2>1. h[0] = {}
    BY <1>1, <1>7
  <2>2. ASSUME NEW i \in 1 .. n PROVE h[i] = Among(c, i, h[i - 1])
    <3>1. i \in 0 .. n /\ i # 0
      BY <1>1
    <3>2. h[i] = IF i = 0 \/ i \in Gate!At(c, "execute") THEN {}
                 ELSE IF i \in Gate!At(c, "exit") THEN h[i - 1] \ {c[i].node}
                 ELSE IF Gate!Admits(c, i) THEN h[i - 1] \union {c[i].node}
                 ELSE h[i - 1]
      <4> HIDE DEF n
      <4> QED BY <1>7, <3>1
    <3> QED BY <3>1, <3>2 DEF Among
  <2> QED BY <2>1, <2>2 DEF Comings
<1> HIDE DEF h
<1> QED BY <1>8, <1>9

\* sacrifice.py: members are nodes that have entered.
LEMMA MembersAre ==
  ASSUME NEW c, IsChain(c), \A i \in 1 .. Len(c) : c[i].type = "enter" => c[i].node \in Members
  PROVE  Gate!MemberSet(c) \subseteq Members
<1> DEFINE n == Len(c)
<1>1. PICK f : Comings(c, f) /\ Gate!MemberSet(c) = f[n]
  BY MembersCome
<1> DEFINE T == {i \in 0 .. n : f[i] \subseteq Members}
<1>2. n \in Nat
  BY ChainIs
<1>3. 0 \in T
  BY <1>1, <1>2 DEF Comings
<1>4. ASSUME NEW i \in 1 .. n, i - 1 \in T PROVE i \in T
  <2>1. f[i] = Among(c, i, f[i - 1])
    BY <1>1 DEF Comings
  <2>2. Gate!Admits(c, i) => c[i].node \in Members
    BY DEF Gate!Admits
  <2> QED BY <1>4, <2>1, <2>2 DEF Among
<1>5. \A i \in 0 .. n : i \in T
  <2>1. \A i \in 1 .. n : i - 1 \in T => i \in T
    BY <1>4
  <2> HIDE DEF T, n
  <2> QED BY <1>2, <1>3, <2>1, UpTo
<1> QED BY <1>1, <1>2, <1>5

\* sacrifice.py: a gate that is shut is empty.
LEMMA ShutIsEmpty ==
  ASSUME NEW c, IsChain(c), Gate!IsShutDown(c)
  PROVE  Gate!MemberSet(c) = {}
<1> DEFINE n == Len(c)
<1>1. PICK f : Comings(c, f) /\ Gate!MemberSet(c) = f[n]
  BY MembersCome
<1>2. n \in Nat /\ DOMAIN c = 1 .. n
  BY ChainIs
<1>3. PICK x \in 1 .. n : x \in Gate!At(c, "execute")
  BY <1>2 DEF Gate!IsShutDown, Gate!At
<1> DEFINE T == {i \in 0 .. n : i >= x => f[i] = {}}
<1>4. 0 \in T
  BY <1>2
<1>5. ASSUME NEW i \in 1 .. n, i - 1 \in T PROVE i \in T
  <2>1. f[i] = Among(c, i, f[i - 1])
    BY <1>1 DEF Comings
  <2>2. CASE i = x
    BY <1>3, <2>1, <2>2 DEF Among
  <2>3. CASE i # x
    <3>1. i >= x => f[i - 1] = {} /\ ~ Gate!Admits(c, i)
      BY <1>3, <1>5, <2>3 DEF Gate!Admits
    <3> QED BY <2>1, <3>1 DEF Among
  <2> QED BY <2>2, <2>3
<1>6. \A i \in 0 .. n : i \in T
  <2>1. \A i \in 1 .. n : i - 1 \in T => i \in T
    BY <1>5
  <2> HIDE DEF T, n
  <2> QED BY <1>2, <1>4, <2>1, UpTo
<1> QED BY <1>1, <1>2, <1>6

------------------------------------------------------------------------------
(* What petitions go through *)

GateKinds ==
  {"enter", "exit", "lock", "suspend", "unsuspend", "file", "vote", "appeal", "resolve", "execute"}
Executes(c, id) == {i \in Gate!At(c, "execute") : c[i].id = id}

\* Which events of each kind a petition has, with one more event on the chain.
LEMMA OfPetitionGrow ==
  ASSUME NEW c, NEW d, NEW e, Longer(c, d, e), NEW id
  PROVE  /\ Gate!PassedVotes(c, id) \in SUBSET (1 .. Len(c))
         /\ Gate!Appeals(c, id) \in SUBSET (1 .. Len(c))
         /\ Gate!Resumed(c, id) \in SUBSET (1 .. Len(c))
         /\ Executes(c, id) \in SUBSET (1 .. Len(c))
         /\ Gate!PassedVotes(d, id) = Gate!PassedVotes(c, id) \union
              (IF e.type = "vote" /\ e.id = id /\ e.vote = "passed" THEN {Len(c) + 1} ELSE {})
         /\ Gate!Appeals(d, id) = Gate!Appeals(c, id) \union
              (IF e.type = "appeal" /\ e.id = id THEN {Len(c) + 1} ELSE {})
         /\ Gate!Resumed(d, id) = Gate!Resumed(c, id) \union
              (IF e.type = "resolve" /\ e.id = id /\ e.outcome = "resumed" THEN {Len(c) + 1} ELSE {})
         /\ Executes(d, id) = Executes(c, id) \union
              (IF e.type = "execute" /\ e.id = id THEN {Len(c) + 1} ELSE {})
<1> DEFINE A(type) == Gate!At(c, type)
           B(type) == Gate!At(d, type)
<1>1. ASSUME NEW type
      PROVE  A(type) \in SUBSET (1 .. Len(c)) /\ B(type) = A(type) \union
               (IF e.type = type THEN {Len(c) + 1} ELSE {})
  BY KindGrows
<1>2. Len(c) \in Nat /\ d[Len(c) + 1] = e /\ \A i \in 1 .. Len(c) : d[i] = c[i]
  BY DEF Longer
<1> HIDE DEF A, B
<1>3. /\ Gate!PassedVotes(c, id) = {i \in A("vote") : c[i].id = id /\ c[i].vote = "passed"}
      /\ Gate!PassedVotes(d, id) = {i \in B("vote") : d[i].id = id /\ d[i].vote = "passed"}
  BY DEF Gate!PassedVotes, A, B
<1>4. /\ Gate!Appeals(c, id) = {i \in A("appeal") : c[i].id = id}
      /\ Gate!Appeals(d, id) = {i \in B("appeal") : d[i].id = id}
  BY DEF Gate!Appeals, A, B
<1>5. /\ Gate!Resumed(c, id) = {i \in A("resolve") : c[i].id = id /\ c[i].outcome = "resumed"}
      /\ Gate!Resumed(d, id) = {i \in B("resolve") : d[i].id = id /\ d[i].outcome = "resumed"}
  BY DEF Gate!Resumed, A, B
<1>6. /\ Executes(c, id) = {i \in A("execute") : c[i].id = id}
      /\ Executes(d, id) = {i \in B("execute") : d[i].id = id}
  BY DEF Executes, A, B
<1>7. Gate!PassedVotes(d, id) = Gate!PassedVotes(c, id) \union
        (IF e.type = "vote" /\ e.id = id /\ e.vote = "passed" THEN {Len(c) + 1} ELSE {})
  BY <1>1, <1>2, <1>3
<1>8. Gate!Appeals(d, id) = Gate!Appeals(c, id) \union
        (IF e.type = "appeal" /\ e.id = id THEN {Len(c) + 1} ELSE {})
  BY <1>1, <1>2, <1>4
<1>9. Gate!Resumed(d, id) = Gate!Resumed(c, id) \union
        (IF e.type = "resolve" /\ e.id = id /\ e.outcome = "resumed" THEN {Len(c) + 1} ELSE {})
  BY <1>1, <1>2, <1>5
<1>10. Executes(d, id) = Executes(c, id) \union
         (IF e.type = "execute" /\ e.id = id THEN {Len(c) + 1} ELSE {})
  BY <1>1, <1>2, <1>6
<1>11. /\ Gate!PassedVotes(c, id) \in SUBSET (1 .. Len(c))
       /\ Gate!Appeals(c, id) \in SUBSET (1 .. Len(c))
       /\ Gate!Resumed(c, id) \in SUBSET (1 .. Len(c))
       /\ Executes(c, id) \in SUBSET (1 .. Len(c))
  BY <1>1, <1>3, <1>4, <1>5, <1>6
<1> QED BY <1>7, <1>8, <1>9, <1>10, <1>11

\* What the status of a petition says of its events, whoever has missed what.
Sound(c) ==
  \A id :
    LET p == Gate!Petition(c, id) IN
    /\ p.status = "filed" => Gate!PassedVotes(c, id) = {} /\ Gate!Appeals(c, id) = {}
    /\ p.status = "executing" => p.at \in Int /\ Gate!Waited(c, id, p.at)
    /\ p.status = "appealed" => Gate!Appeals(c, id) # {} /\ Gate!PassedVotes(c, id) # {}
    /\ p.status = "voided_appeal" => Gate!Appeals(c, id) # {}
    /\ p.status = "executed" => Executes(c, id) # {}

\* An event is written after those it needs, of which its author may have missed the
\* last, once events have been late.
Missing(l) == IF l = 0 THEN {0} ELSE {0, 1}
Paid(c, i, l) ==
  \E k \in 0 .. i - 1 :
    i - 1 - k \in Missing(l) /\ Gate!Waited(SubSeq(c, 1, k), c[i].id, c[i].ts)
Suspended(c, i, l) ==
  \E k \in 1 .. i - 1 :
    /\ c[k].type = "suspend" /\ c[i].ts < c[k].ts + SuspendDays * Gate!Day
    /\ \A u \in k + 1 .. i - 1 : c[u].type = "unsuspend" => l > 0 /\ u = i - 1
KnowsPetition(c, i) == \E k \in 1 .. i - 1 : c[k].type = "file" /\ c[k].id = c[i].id
HadPassed(c, i) ==
  \E k \in 1 .. i - 1 : c[k].type = "vote" /\ c[k].vote = "passed" /\ c[k].id = c[i].id
GateEventOK(c, i, l) ==
  /\ c[i].type \in GateKinds
  /\ c[i].ts \in Nat
  /\ \A j \in 1 .. i - 1 : c[j].ts < c[i].ts
  /\ c[i].type = "enter" => c[i].node \in Members
  /\ c[i].type = "file" => Suspended(c, i, l)
  /\ c[i].type = "appeal" => HadPassed(c, i)
  /\ c[i].type = "execute" => KnowsPetition(c, i) /\ Paid(c, i, l)

\* What it says when nobody has missed anything.
Untouched(c, id) ==
  Gate!PassedVotes(c, id) = {} /\ Gate!Appeals(c, id) = {} /\ Executes(c, id) = {}
Watched(c, id) ==
  LET status == Gate!Petition(c, id).status IN
  \/ status \in {"filed", "failed"} /\ Untouched(c, id)
  \/ status \in {"executing", "appealed"} /\ Executes(c, id) = {}
  \/ status = "voided_appeal" /\ Executes(c, id) = {} /\ Gate!Appeals(c, id) # {}
  \/ status = "executed" /\ Executes(c, id) # {}
OnePending(c) ==
  /\ \A i, j \in Gate!Pending(c) : i = j
  /\ Gate!IsShutDown(c) => Gate!Pending(c) = {}

Before == Gate!Front(chain)
GateChainInv ==
  /\ \A i \in DOMAIN chain : GateEventOK(chain, i, late) /\ chain[i].ts < Gate!Clock
  /\ \E n \in Nat : Gate!Filed(chain) = 1 .. n
  /\ Sound(chain) /\ (chain # <<>> => Sound(Before))
  /\ late = 0 =>
       /\ \A id : Watched(chain, id)
       /\ OnePending(chain)
       /\ chain # <<>> => \A id : Gate!Petition(chain, id).status = "executed"
                           => Gate!Petition(Before, id).status \in {"executing", "executed"}
GateInv ==
  /\ IsChain(chain) /\ now \in Nat /\ late \in 0 .. MaxLate
  /\ subject = "gate" => now <= GateTime /\ Len(chain) <= GateLength /\ GateChainInv
  /\ subject # "gate" => \A i \in DOMAIN chain : chain[i].type \in MarketKinds

Statuses == {"filed", "executing", "failed", "appealed", "voided_appeal", "executed"}
IsPetition(p) == p = [status |-> p.status, at |-> p.at] /\ p.status \in Statuses

\* What each event makes of its petition.
LEMMA StepIs ==
  ASSUME NEW e, NEW p, IsPetition(p)
  PROVE  /\ e.type = "vote" /\ e.vote = "passed" =>
              Gate!Step(e, p) = [status |-> "executing", at |-> e.ts + DelayDays * Gate!Day]
         /\ e.type = "vote" /\ e.vote = "failed" =>
              Gate!Step(e, p) = [status |-> "failed", at |-> p.at]
         /\ e.type = "appeal" => Gate!Step(e, p) = [status |-> "appealed", at |-> Gate!None]
         /\ e.type = "resolve" /\ e.outcome = "voided" =>
              Gate!Step(e, p) = [status |-> "voided_appeal", at |-> p.at]
         /\ e.type = "resolve" /\ e.outcome = "resumed" =>
              Gate!Step(e, p) = [status |-> "executing", at |-> e.at]
         /\ e.type = "execute" => Gate!Step(e, p) = [status |-> "executed", at |-> p.at]
         /\ e.type = "file" => Gate!Step(e, p) = p
         /\ IsPetition(Gate!Step(e, p))
<1>1. p = [status |-> p.status, at |-> p.at] /\ p.status \in Statuses
  BY DEF IsPetition
<1> DEFINE q == Gate!Step(e, p)
<1>2. /\ e.type = "vote" /\ e.vote = "passed" =>
           q = [status |-> "executing", at |-> e.ts + DelayDays * Gate!Day]
      /\ e.type = "vote" /\ e.vote = "failed" => q = [status |-> "failed", at |-> p.at]
      /\ e.type = "appeal" => q = [status |-> "appealed", at |-> Gate!None]
  BY <1>1 DEF Gate!Step
<1>3. /\ e.type = "resolve" /\ e.outcome = "voided" => q = [status |-> "voided_appeal", at |-> p.at]
      /\ e.type = "resolve" /\ e.outcome = "resumed" => q = [status |-> "executing", at |-> e.at]
      /\ e.type = "execute" => q = [status |-> "executed", at |-> p.at]
      /\ e.type = "file" => q = p
  BY <1>1 DEF Gate!Step
<1>4. \/ e.type = "vote" /\ e.vote \in {"passed", "failed"}
      \/ e.type = "appeal"
      \/ e.type = "resolve" /\ e.outcome \in {"voided", "resumed"}
      \/ e.type = "execute"
      \/ q = p
  BY DEF Gate!Step
<1> HIDE DEF q
<1>5. ASSUME NEW s \in Statuses, NEW t, q = [status |-> s, at |-> t] PROVE IsPetition(q)
  BY <1>5 DEF IsPetition
<1>6. IsPetition(q)
  <2>1. CASE q = p
    BY <2>1
  <2>2. CASE (e.type = "vote" /\ e.vote \in {"passed", "failed"}) \/ e.type = "appeal"
    <3>1. "executing" \in Statuses /\ "failed" \in Statuses /\ "appealed" \in Statuses
      BY DEF Statuses
    <3> QED BY <1>2, <1>5, <2>2, <3>1
  <2>3. CASE (e.type = "resolve" /\ e.outcome \in {"voided", "resumed"}) \/ e.type = "execute"
    <3>1. "voided_appeal" \in Statuses /\ "executing" \in Statuses /\ "executed" \in Statuses
      BY DEF Statuses
    <3> QED BY <1>3, <1>5, <2>3, <3>1
  <2> QED BY <1>4, <2>1, <2>2, <2>3
<1> QED BY <1>2, <1>3, <1>6 DEF q

\* A petition has a status and a time.
LEMMA PetitionHas ==
  ASSUME NEW c, IsChain(c), NEW id
  PROVE  IsPetition(Gate!Petition(c, id))
<1> DEFINE n == Len(c)
<1>1. PICK f : Turns(c, id, f) /\ Gate!Petition(c, id) = f[n]
  BY PetitionTurns
<1> DEFINE T == {i \in 0 .. n : IsPetition(f[i])}
<1>2. n \in Nat
  BY ChainIs
<1>3. 0 \in T
  BY <1>1, <1>2 DEF Turns, Filed0, IsPetition, Statuses
<1>4. ASSUME NEW i \in 1 .. n, i - 1 \in T PROVE i \in T
  <2>1. f[i] = Turn(c, id, i, f[i - 1])
    BY <1>1 DEF Turns
  <2>2. IsPetition(Gate!Step(c[i], f[i - 1]))
    BY <1>4, StepIs
  <2> QED BY <1>4, <2>1, <2>2 DEF Turn
<1>5. \A i \in 0 .. n : i \in T
  <2>1. \A i \in 1 .. n : i - 1 \in T => i \in T
    BY <1>4
  <2> HIDE DEF T, n
  <2> QED BY <1>2, <1>3, <2>1, UpTo
<1> QED BY <1>1, <1>2, <1>5

\* A petition is moved by the events about it.
LEMMA PetitionMoves ==
  ASSUME NEW c, IsChain(c), NEW d, IsChain(d), NEW e, Longer(c, d, e), NEW id
  PROVE  LET p == Gate!Petition(c, id)
             q == Gate!Petition(d, id) IN
         /\ IsPetition(p) /\ IsPetition(q)
         /\ e.type \notin {"vote", "appeal", "resolve", "execute"} \/ e.id # id => q = p
         /\ e.id = id /\ e.type = "vote" /\ e.vote = "passed" =>
              q.status = "executing" /\ q.at = e.ts + DelayDays * Gate!Day
         /\ e.id = id /\ e.type = "vote" /\ e.vote = "failed" => q.status = "failed"
         /\ e.id = id /\ e.type = "appeal" => q.status = "appealed"
         /\ e.id = id /\ e.type = "resolve" /\ e.outcome = "voided" => q.status = "voided_appeal"
         /\ e.id = id /\ e.type = "resolve" /\ e.outcome = "resumed" =>
              q.status = "executing" /\ q.at = e.at
         /\ e.id = id /\ e.type = "execute" => q.status = "executed"
<1> DEFINE p == Gate!Petition(c, id)
           q == Gate!Petition(d, id)
<1>1. IsPetition(p) /\ IsPetition(q)
  BY PetitionHas
<1>2. q = IF Gate!Concerns(e, id) THEN Gate!Step(e, p) ELSE p
  BY PetitionGrows
<1>3. Gate!Concerns(e, id) <=>
        e.id = id /\ e.type \in {"file", "vote", "appeal", "resolve", "execute"}
  BY DEF Gate!Concerns
<1> HIDE DEF p, q
<1>4. e.type = "file" => q = p
  BY <1>1, <1>2, StepIs
<1>5. e.id = id /\ e.type \in {"vote", "appeal", "resolve", "execute"} => q = Gate!Step(e, p)
  BY <1>2, <1>3
<1>6. e.type \notin {"vote", "appeal", "resolve", "execute"} \/ e.id # id => q = p
  BY <1>2, <1>3, <1>4
<1>7. /\ e.id = id /\ e.type = "vote" /\ e.vote = "passed" =>
           q.status = "executing" /\ q.at = e.ts + DelayDays * Gate!Day
      /\ e.id = id /\ e.type = "vote" /\ e.vote = "failed" => q.status = "failed"
      /\ e.id = id /\ e.type = "appeal" => q.status = "appealed"
  BY <1>1, <1>5, StepIs
<1>8. /\ e.id = id /\ e.type = "resolve" /\ e.outcome = "voided" => q.status = "voided_appeal"
      /\ e.id = id /\ e.type = "resolve" /\ e.outcome = "resumed" =>
           q.status = "executing" /\ q.at = e.at
      /\ e.id = id /\ e.type = "execute" => q.status = "executed"
  BY <1>1, <1>5, StepIs
<1> QED BY <1>1, <1>6, <1>7, <1>8 DEF p, q

\* An event as its author may write it.
Regular(e) ==
  /\ e.type \in GateKinds
  /\ e.type = "vote" => e.vote \in {"passed", "failed"}
  /\ e.type = "resolve" => e.outcome \in {"voided", "resumed"}

------------------------------------------------------------------------------
(* Nobody has missed anything *)

\* What an author asks of the chain who has seen all of it.
Asked(c, e) ==
  /\ Regular(e)
  /\ e.type = "file" => Gate!Pending(c) = {} /\ ~ Gate!IsShutDown(c)
  /\ e.type \in {"vote", "appeal", "resolve", "execute"} => e.id \in Gate!Filed(c)
  /\ e.type = "vote" => Gate!Petition(c, e.id).status = "filed"
  /\ e.type = "appeal" => /\ Gate!Appeals(c, e.id) = {} /\ Gate!PassedVotes(c, e.id) # {}
                          /\ Gate!Pending(c) # {}
  /\ e.type = "resolve" => Gate!Petition(c, e.id).status = "appealed"
  /\ e.type = "execute" => Gate!Petition(c, e.id).status = "executing"

\* Days, counted in events.
LEMMA DaysAre ==
  /\ Gate!Day \in Nat \ {0} /\ DelayDays * Gate!Day \in Nat
  /\ AppealDays * Gate!Day \in Nat /\ SuspendDays * Gate!Day \in Nat
  /\ AppealDays <= DelayDays => AppealDays * Gate!Day <= DelayDays * Gate!Day
<1>1. Gate!Day \in Nat \ {0} /\ DelayDays \in Nat /\ AppealDays \in Nat /\ SuspendDays \in Nat
  BY GateAssumption DEF Gate!Day
<1>2. ASSUME NEW a \in Nat, NEW b \in Nat PROVE a * b \in Nat
  OBVIOUS
<1>3. ASSUME NEW a \in Nat, NEW b \in Nat, NEW x \in Nat, a <= b PROVE a * x <= b * x
  <2>1. (b - a) * x = b * x - a * x /\ b - a \in Nat
    BY <1>3
  <2>2. (b - a) * x \in Nat /\ a * x \in Nat /\ b * x \in Nat
    BY <1>2, <2>1
  <2> QED BY <2>1, <2>2
<1> QED BY <1>1, <1>2, <1>3

\* What each status says of the events of a petition.
LEMMA WatchedIs ==
  ASSUME NEW c, NEW id, Watched(c, id)
  PROVE  LET s == Gate!Petition(c, id).status IN
         /\ s = "filed" => Untouched(c, id)
         /\ s \in {"executing", "appealed"} => Executes(c, id) = {}
         /\ s = "executed" <=> Executes(c, id) # {}
         /\ Gate!PassedVotes(c, id) # {} /\ Gate!Appeals(c, id) = {}
              => s \in {"executing", "appealed", "executed"}
BY DEF Watched, Untouched

\* A gate one of whose petitions has been executed is shut.
LEMMA ExecutedIsShut ==
  ASSUME NEW c, NEW id, Executes(c, id) # {}
  PROVE  Gate!IsShutDown(c)
BY DEF Executes, Gate!IsShutDown

\* Only what waits for its execution is appealed against.
LEMMA AppealedWaits ==
  ASSUME NEW c, NEW e, Asked(c, e), e.type = "appeal", Watched(c, e.id), OnePending(c), Sound(c)
  PROVE  Gate!Petition(c, e.id).status = "executing"
<1>1. Gate!Petition(c, e.id).status \in {"executing", "appealed", "executed"}
  BY WatchedIs DEF Asked
<1>2. Gate!Petition(c, e.id).status # "executed"
  BY WatchedIs, ExecutedIsShut DEF Asked, OnePending
<1>3. Gate!Petition(c, e.id).status # "appealed"
  BY DEF Sound, Asked
<1> QED BY <1>1, <1>2, <1>3

\* ... and goes on saying it, with every event that asks for what the rules ask.
LEMMA WatchedGrows ==
  ASSUME NEW c, IsChain(c), NEW d, IsChain(d), NEW e, Longer(c, d, e), Asked(c, e),
         OnePending(c), Sound(c), NEW id, Watched(c, id)
  PROVE  Watched(d, id)
<1> DEFINE n == Len(c)
           p == Gate!Petition(c, id)
           q == Gate!Petition(d, id)
           V(x) == Gate!PassedVotes(x, id)
           A(x) == Gate!Appeals(x, id)
           X(x) == Executes(x, id)
<1>1. /\ V(d) = V(c) \union (IF e.type = "vote" /\ e.id = id /\ e.vote = "passed" THEN {n + 1} ELSE {})
      /\ A(d) = A(c) \union (IF e.type = "appeal" /\ e.id = id THEN {n + 1} ELSE {})
      /\ X(d) = X(c) \union (IF e.type = "execute" /\ e.id = id THEN {n + 1} ELSE {})
  BY OfPetitionGrow
<1>2. /\ e.type \notin {"vote", "appeal", "resolve", "execute"} \/ e.id # id => q = p
      /\ e.id = id /\ e.type = "vote" /\ e.vote = "passed" => q.status = "executing"
      /\ e.id = id /\ e.type = "vote" /\ e.vote = "failed" => q.status = "failed"
      /\ e.id = id /\ e.type = "appeal" => q.status = "appealed"
      /\ e.id = id /\ e.type = "resolve" /\ e.outcome = "voided" => q.status = "voided_appeal"
      /\ e.id = id /\ e.type = "resolve" /\ e.outcome = "resumed" => q.status = "executing"
      /\ e.id = id /\ e.type = "execute" => q.status = "executed"
  BY PetitionMoves
<1>3. /\ p.status = "filed" => Untouched(c, id)
      /\ p.status \in {"executing", "appealed"} => X(c) = {}
      /\ p.status = "appealed" => A(c) # {}
  BY WatchedIs DEF Sound
<1> HIDE DEF n, p, q, V, A, X
<1>4. CASE e.type \notin {"vote", "appeal", "resolve", "execute"} \/ e.id # id
  <2>1. q = p /\ V(d) = V(c) /\ A(d) = A(c) /\ X(d) = X(c)
    BY <1>1, <1>2, <1>4
  <2> QED BY <2>1 DEF Watched, Untouched, p, q, V, A, X
<1>5. CASE e.id = id /\ e.type = "vote"
  <2>1. V(c) = {} /\ A(c) = {} /\ X(c) = {}
    BY <1>3, <1>5 DEF Asked, Untouched, p, V, A, X
  <2>2. A(d) = {} /\ X(d) = {} /\ (e.vote # "passed" => V(d) = {})
    BY <1>1, <1>5, <2>1
  <2>3. e.vote \in {"passed", "failed"}
    BY <1>5 DEF Asked, Regular
  <2> QED BY <1>2, <1>5, <2>2, <2>3 DEF Watched, Untouched, q, V, A, X
<1>6. CASE e.id = id /\ e.type = "appeal"
  <2>1. p.status = "executing"
    BY <1>6, AppealedWaits DEF p
  <2>2. X(d) = {}
    BY <1>1, <1>3, <1>6, <2>1
  <2> QED BY <1>2, <1>6, <2>2 DEF Watched, q, X
<1>7. CASE e.id = id /\ e.type = "resolve"
  <2>1. p.status = "appealed"
    BY <1>7 DEF Asked, p
  <2>2. X(d) = {} /\ A(d) # {}
    BY <1>1, <1>3, <1>7, <2>1
  <2>3. e.outcome \in {"voided", "resumed"}
    BY <1>7 DEF Asked, Regular
  <2> QED BY <1>2, <1>7, <2>2, <2>3 DEF Watched, q, A, X
<1>8. CASE e.id = id /\ e.type = "execute"
  <2>1. X(d) # {}
    BY <1>1, <1>8
  <2> QED BY <1>2, <1>8, <2>1 DEF Watched, q, X
<1> QED BY <1>4, <1>5, <1>6, <1>7, <1>8

\* One more event files at most one petition, and shuts the gate or does not.
LEMMA FiledGrows ==
  ASSUME NEW c, NEW d, NEW e, Longer(c, d, e)
  PROVE  Gate!Filed(d) = Gate!Filed(c) \union (IF e.type = "file" THEN {e.id} ELSE {})
<1> DEFINE F == Gate!At(c, "file")
           G == Gate!At(d, "file")
<1>1. F \in SUBSET (1 .. Len(c)) /\ G = F \union (IF e.type = "file" THEN {Len(c) + 1} ELSE {})
  BY KindGrows
<1>2. d[Len(c) + 1] = e /\ \A i \in F : d[i] = c[i]
  BY <1>1 DEF Longer
<1> HIDE DEF F, G
<1>3. {d[i].id : i \in G} = {c[i].id : i \in F} \union (IF e.type = "file" THEN {e.id} ELSE {})
  BY <1>1, <1>2
<1> QED BY <1>3 DEF Gate!Filed, F, G

LEMMA ShutGrows ==
  ASSUME NEW c, NEW d, NEW e, Longer(c, d, e)
  PROVE  Gate!IsShutDown(d) <=> Gate!IsShutDown(c) \/ e.type = "execute"
<1> DEFINE F == Gate!At(c, "execute")
           G == Gate!At(d, "execute")
<1>1. G = F \union (IF e.type = "execute" THEN {Len(c) + 1} ELSE {})
  BY KindGrows
<1> HIDE DEF F, G
<1>2. G # {} <=> F # {} \/ e.type = "execute"
  BY <1>1
<1> QED BY <1>2 DEF Gate!IsShutDown, F, G

\* shutdown.py: one petition at a time.
LEMMA OnePendingGrows ==
  ASSUME NEW c, IsChain(c), NEW d, IsChain(d), NEW e, Longer(c, d, e), Asked(c, e),
         OnePending(c), Sound(c), \A id : Watched(c, id)
  PROVE  OnePending(d)
<1> DEFINE P(x) == Gate!Pending(x)
           s(x, id) == Gate!Petition(x, id).status
<1>1. ASSUME NEW x, NEW id
      PROVE  id \in P(x) <=> id \in Gate!Filed(x) /\ s(x, id) \in Gate!PendingStatus
  BY DEF Gate!Pending
<1>2. Gate!Filed(d) = Gate!Filed(c) \union (IF e.type = "file" THEN {e.id} ELSE {})
  BY FiledGrows
<1>3. Gate!IsShutDown(d) <=> Gate!IsShutDown(c) \/ e.type = "execute"
  BY ShutGrows
<1>4. ASSUME NEW id
      PROVE  /\ e.type \notin {"vote", "appeal", "resolve", "execute"} \/ e.id # id => s(d, id) = s(c, id)
             /\ e.id = id /\ e.type = "execute" => s(d, id) = "executed"
  BY PetitionMoves
<1>5. /\ e.type = "vote" => s(c, e.id) = "filed"
      /\ e.type = "appeal" => s(c, e.id) = "executing"
      /\ e.type = "resolve" => s(c, e.id) = "appealed"
      /\ e.type = "execute" => s(c, e.id) = "executing"
  BY AppealedWaits DEF Asked
<1>6. /\ \A i, j \in P(c) : i = j
      /\ Gate!IsShutDown(c) => P(c) = {}
  BY DEF OnePending
<1>7. e.type \in {"vote", "appeal", "resolve", "execute"} => e.id \in Gate!Filed(c)
  BY DEF Asked
<1> HIDE DEF s, P
<1>8. e.type \in {"vote", "appeal", "resolve", "execute"} => e.id \in P(c)
  BY <1>1, <1>5, <1>7 DEF Gate!PendingStatus
<1>9. ASSUME NEW id \in P(d), e.type # "file" PROVE id \in P(c)
  <2>1. id \in Gate!Filed(c) /\ s(d, id) \in Gate!PendingStatus
    BY <1>1, <1>2, <1>9
  <2>2. CASE e.type \notin {"vote", "appeal", "resolve", "execute"} \/ e.id # id
    BY <1>1, <1>4, <2>1, <2>2
  <2>3. CASE e.type \in {"vote", "appeal", "resolve", "execute"} /\ e.id = id
    BY <1>8, <2>3
  <2> QED BY <2>2, <2>3
<1>10. CASE e.type = "file"
  <2>1. P(c) = {} /\ ~ Gate!IsShutDown(c)
    BY <1>10 DEF Asked, P
  <2>2. ASSUME NEW id \in P(d) PROVE id = e.id
    <3>1. s(d, id) = s(c, id) /\ s(d, id) \in Gate!PendingStatus
      BY <1>1, <1>4, <1>10
    <3>2. id \notin Gate!Filed(c)
      BY <1>1, <2>1, <3>1
    <3>3. id \in Gate!Filed(d)
      BY <1>1
    <3> QED BY <1>2, <1>10, <3>2, <3>3
  <2> QED BY <1>3, <1>10, <2>1, <2>2 DEF OnePending, P
<1>11. CASE e.type = "execute"
  <2>1. s(d, e.id) = "executed" /\ e.id \in P(c)
    BY <1>4, <1>8, <1>11
  <2>2. ASSUME NEW id \in P(d) PROVE FALSE
    <3>1. id \in P(c) /\ s(d, id) \in Gate!PendingStatus
      BY <1>1, <1>9, <1>11
    <3>2. id = e.id
      BY <1>6, <2>1, <3>1
    <3> QED BY <2>1, <3>1, <3>2 DEF Gate!PendingStatus
  <2> QED BY <2>2 DEF OnePending, P
<1>12. CASE e.type \notin {"file", "execute"}
  <2>1. \A id \in P(d) : id \in P(c)
    BY <1>9, <1>12
  <2>2. Gate!IsShutDown(d) => Gate!IsShutDown(c)
    BY <1>3, <1>12
  <2> QED BY <1>6, <2>1, <2>2 DEF OnePending, P
<1> QED BY <1>10, <1>11, <1>12

------------------------------------------------------------------------------
(* What the author of an event has seen of the gate *)

\* All but the last event, and a chain again.
LEMMA FrontIs ==
  ASSUME NEW c, IsChain(c)
  PROVE  /\ c # <<>> => IsChain(Gate!Front(c)) /\ Longer(Gate!Front(c), c, c[Len(c)])
         /\ \A e : Gate!Front(Append(c, e)) = c
<1>1. PICK S : c \in Seq(S)
  BY DEF IsChain
<1>2. ASSUME c # <<>>
      PROVE  IsChain(Gate!Front(c)) /\ Longer(Gate!Front(c), c, c[Len(c)])
  <2> DEFINE n == Len(c)
  <2>1. n \in Nat /\ n > 0 /\ DOMAIN c = 1 .. n
    BY <1>1, <1>2
  <2>2. Gate!Front(c) = SubSeq(c, 1, n - 1)
    BY DEF Gate!Front
  <2>3. SubSeq(c, 1, n - 1) = [i \in 1 .. n - 1 |-> c[i]]
    BY <1>1, <2>1
  <2>4. [i \in 1 .. n - 1 |-> c[i]] \in Seq(S) /\ Len([i \in 1 .. n - 1 |-> c[i]]) = n - 1
    BY <1>1, <2>1
  <2> DEFINE b == Gate!Front(c)
  <2>5. b = [i \in 1 .. n - 1 |-> c[i]] /\ b \in Seq(S) /\ Len(b) = n - 1
    BY <2>2, <2>3, <2>4
  <2>6. DOMAIN b = 1 .. n - 1 /\ \A i \in 1 .. n - 1 : b[i] = c[i]
    BY <2>5
  <2> HIDE DEF b
  <2>7. Longer(b, c, c[n])
    BY <2>1, <2>5, <2>6 DEF Longer
  <2> QED BY <2>5, <2>7 DEF IsChain, b
<1>3. ASSUME NEW e PROVE Gate!Front(Append(c, e)) = c
  <2> DEFINE R == S \union {e}
             n == Len(c)
  <2>1. c \in Seq(R) /\ e \in R
    BY <1>1
  <2> HIDE DEF R
  <2>2. Append(c, e) \in Seq(R) /\ Len(Append(c, e)) = n + 1 /\ n \in Nat
    BY <2>1
  <2>3. Gate!Front(Append(c, e)) = SubSeq(Append(c, e), 1, n)
    BY <2>2 DEF Gate!Front
  <2>4. SubSeq(Append(c, e), 1, n) = [i \in 1 .. n |-> Append(c, e)[i]]
    BY <2>2
  <2>5. \A i \in 1 .. n : Append(c, e)[i] = c[i]
    BY <2>1
  <2>6. c = [i \in 1 .. n |-> c[i]]
    BY <2>1
  <2>7. [i \in 1 .. n |-> Append(c, e)[i]] = [i \in 1 .. n |-> c[i]]
    BY <2>5
  <2> HIDE DEF n
  <2> QED BY <2>3, <2>4, <2>6, <2>7
<1> QED BY <1>2, <1>3

\* A chain whose times go on, and one that begins another.
Timed(c) ==
  \A i \in 1 .. Len(c) : c[i].ts \in Nat /\ \A j \in 1 .. i - 1 : c[j].ts < c[i].ts
Begins(v, c) ==
  /\ Len(v) \in Nat /\ Len(v) <= Len(c) /\ DOMAIN v = 1 .. Len(v)
  /\ \A i \in 1 .. Len(v) : v[i] = c[i]

\* What a chain begins with, up to a length.
LEMMA BeginningOf ==
  ASSUME NEW c, IsChain(c), NEW k \in 0 .. Len(c)
  PROVE  /\ SubSeq(c, 1, k) = [i \in 1 .. k |-> c[i]]
         /\ IsChain(SubSeq(c, 1, k)) /\ Len(SubSeq(c, 1, k)) = k /\ Begins(SubSeq(c, 1, k), c)
<1>1. PICK S : c \in Seq(S)
  BY DEF IsChain
<1>2. DOMAIN c = 1 .. Len(c) /\ Len(c) \in Nat /\ k \in Nat /\ k <= Len(c)
  BY <1>1
<1>3. SubSeq(c, 1, k) = [i \in 1 .. k |-> c[i]]
  BY <1>1, <1>2
<1> DEFINE b == [i \in 1 .. k |-> c[i]]
<1>4. b \in Seq(S) /\ Len(b) = k /\ DOMAIN b = 1 .. k /\ \A i \in 1 .. k : b[i] = c[i]
  BY <1>1, <1>2
<1> HIDE DEF b
<1>5. IsChain(b) /\ Begins(b, c)
  BY <1>2, <1>4 DEF IsChain, Begins
<1>6. SubSeq(c, 1, k) = b
  BY <1>3 DEF b
<1> QED BY <1>3, <1>4, <1>5, <1>6

LEMMA BeginningIs ==
  ASSUME NEW c, IsChain(c), NEW v, IsChain(v), Begins(v, c)
  PROVE  v = SubSeq(c, 1, Len(v)) /\ Len(v) \in 0 .. Len(c)
<1> DEFINE k == Len(v)
<1>1. k \in 0 .. Len(c) /\ DOMAIN v = 1 .. k /\ \A i \in 1 .. k : v[i] = c[i]
  BY ChainIs DEF Begins
<1>2. PICK S : v \in Seq(S)
  BY DEF IsChain
<1>3. v = [i \in 1 .. k |-> v[i]]
  BY <1>2
<1> HIDE DEF k
<1>4. [i \in 1 .. k |-> v[i]] = [i \in 1 .. k |-> c[i]]
  BY <1>1
<1>5. SubSeq(c, 1, k) = [i \in 1 .. k |-> c[i]]
  BY <1>1, BeginningOf
<1> QED BY <1>1, <1>3, <1>4, <1>5 DEF k

LEMMA BeginningStays ==
  ASSUME NEW c, IsChain(c), NEW d, IsChain(d), NEW e, Longer(c, d, e), NEW k \in 0 .. Len(c)
  PROVE  SubSeq(d, 1, k) = SubSeq(c, 1, k)
<1>1. k \in 0 .. Len(d) /\ \A i \in 1 .. k : d[i] = c[i]
  BY DEF Longer
<1>2. [i \in 1 .. k |-> d[i]] = [i \in 1 .. k |-> c[i]]
  BY <1>1
<1> QED BY <1>1, <1>2, BeginningOf

\* The first vote that passed and the last appeal.
LEMMA PassedIs ==
  ASSUME NEW c, IsChain(c), NEW id, Gate!PassedVotes(c, id) # {}
  PROVE  \E k \in Gate!PassedVotes(c, id) :
           /\ k \in 1 .. Len(c) /\ Gate!PassedAt(c, id) = c[k].ts
           /\ \A j \in Gate!PassedVotes(c, id) : k <= j
<1> DEFINE V == Gate!PassedVotes(c, id)
<1>1. V \in SUBSET (1 .. Len(c)) /\ V \in SUBSET Nat
  BY ChainIs DEF Gate!PassedVotes, Gate!At
<1>2. Gate!PassedAt(c, id) = c[Gate!Min(V)].ts
  BY DEF Gate!PassedAt
<1> HIDE DEF V
<1>3. V # {}
  BY DEF V
<1>4. Gate!Min(V) \in V /\ \A j \in V : Gate!Min(V) <= j
  BY <1>1, <1>3, MinIs, AlikeInGates
<1> QED BY <1>1, <1>2, <1>4 DEF V

LEMMA AppealsEnd ==
  ASSUME NEW c, IsChain(c), NEW id, Gate!Appeals(c, id) # {}
  PROVE  \E a \in Gate!Appeals(c, id) :
           /\ a \in 1 .. Len(c) /\ Gate!Max(Gate!Appeals(c, id)) = a
           /\ \A j \in Gate!Appeals(c, id) : j <= a
<1> DEFINE A == Gate!Appeals(c, id)
<1>1. A \in SUBSET (1 .. Len(c)) /\ A \in SUBSET Nat /\ Len(c) \in Nat /\ \A j \in A : j <= Len(c)
  BY ChainIs DEF Gate!Appeals, Gate!At
<1> HIDE DEF A
<1>2. A # {}
  BY DEF A
<1>3. Gate!Max(A) \in A /\ \A j \in A : j <= Gate!Max(A)
  BY <1>1, <1>2, MaxIs, AlikeInGates
<1> QED BY <1>1, <1>3 DEF A

\* Whoever sees the beginning sees the same events of it.
LEMMA BegunWith ==
  ASSUME NEW v, NEW c, IsChain(c), Begins(v, c), NEW id
  PROVE  /\ Gate!PassedVotes(v, id) = Gate!PassedVotes(c, id) \intersect (1 .. Len(v))
         /\ Gate!Appeals(v, id) = Gate!Appeals(c, id) \intersect (1 .. Len(v))
<1>1. DOMAIN v = 1 .. Len(v) /\ Len(v) \in Nat /\ \A i \in 1 .. Len(v) : v[i] = c[i]
  BY DEF Begins
<1>2. \A i \in 1 .. Len(v) : i \in DOMAIN c
  BY ChainIs DEF Begins
<1> QED BY <1>1, <1>2 DEF Gate!PassedVotes, Gate!Appeals, Gate!At

LEMMA PassedStays ==
  ASSUME NEW v, IsChain(v), NEW c, IsChain(c), Begins(v, c), NEW id,
         Gate!PassedVotes(v, id) # {}
  PROVE  Gate!PassedVotes(c, id) # {} /\ Gate!PassedAt(c, id) = Gate!PassedAt(v, id)
<1>1. Gate!PassedVotes(v, id) = Gate!PassedVotes(c, id) \intersect (1 .. Len(v))
  BY BegunWith
<1>2. PICK k \in Gate!PassedVotes(v, id) :
        /\ k \in 1 .. Len(v) /\ Gate!PassedAt(v, id) = v[k].ts
        /\ \A j \in Gate!PassedVotes(v, id) : k <= j
  BY PassedIs
<1>3. Gate!PassedVotes(c, id) # {}
  BY <1>1, <1>2
<1>4. PICK j \in Gate!PassedVotes(c, id) :
        /\ j \in 1 .. Len(c) /\ Gate!PassedAt(c, id) = c[j].ts
        /\ \A i \in Gate!PassedVotes(c, id) : j <= i
  BY <1>3, PassedIs
<1>5. j <= k /\ j \in Nat /\ k \in Nat /\ Len(v) \in Nat
  BY <1>1, <1>2, <1>4, ChainIs
<1>6. j \in 1 .. Len(v) /\ k <= j
  BY <1>1, <1>2, <1>4, <1>5
<1>7. j = k /\ v[k] = c[k]
  BY <1>2, <1>5, <1>6 DEF Begins
<1> QED BY <1>2, <1>3, <1>4, <1>7

\* Whoever has waited for a delay has waited for it at any later time, too.
LEMMA WaitedStays ==
  ASSUME NEW c, IsChain(c), NEW d, IsChain(d), Begins(c, d), Timed(c), NEW id,
         NEW t \in Int, NEW u \in Int, u >= t, Gate!Waited(c, id, t),
         Gate!Appeals(d, id) = Gate!Appeals(c, id), Gate!Resumed(d, id) = Gate!Resumed(c, id)
  PROVE  Gate!Waited(d, id, u)
<1> DEFINE wait == DelayDays * Gate!Day
           A == Gate!Appeals(c, id)
           R == Gate!Resumed(c, id)
           from == Gate!PassedAt(c, id)
           paused(x, i) == x[i].ts - x[Gate!Max(A)].ts
<1>1. /\ Gate!PassedVotes(c, id) # {} /\ t - from >= wait
      /\ A # {} => R # {} /\ \A i \in R : t - from >= wait + paused(c, i)
  BY Zenon DEF Gate!Waited
<1>2. /\ wait \in Int /\ \A i \in 1 .. Len(c) : d[i] = c[i] /\ c[i].ts \in Int
  BY DaysAre DEF Begins, Timed
<1>3. Gate!PassedVotes(d, id) # {} /\ Gate!PassedAt(d, id) = from
  BY <1>1, PassedStays
<1>4. from \in Int
  BY <1>1, <1>2, PassedIs
<1>5. R \in SUBSET (1 .. Len(c))
  BY ChainIs DEF Gate!Resumed, Gate!At
<1>6. A # {} => Gate!Max(A) \in 1 .. Len(c)
  BY AppealsEnd
<1> HIDE DEF wait, A, R, from
<1>7. ASSUME A # {}, NEW i \in R
      PROVE  u - from >= wait + paused(d, i)
  <2>1. /\ d[i] = c[i] /\ c[i].ts \in Int
        /\ d[Gate!Max(A)] = c[Gate!Max(A)] /\ c[Gate!Max(A)].ts \in Int
    BY <1>2, <1>5, <1>6, <1>7
  <2>2. t - from >= wait + paused(c, i) /\ paused(d, i) = paused(c, i) /\ paused(c, i) \in Int
    BY <1>1, <1>7, <2>1
  <2> HIDE DEF paused
  <2> QED BY <1>2, <1>4, <2>2
<1>8. u - from >= wait
  BY <1>1, <1>2, <1>4
<1> QED BY <1>1, <1>3, <1>7, <1>8, Zenon DEF Gate!Waited, A, R, wait

\* An author has seen all, or all but the last event, of a chain that says the truth
\* of its petitions.
LEMMA GateSeen ==
  ASSUME GateInv, subject = "gate", NEW v \in Gate!Views
  PROVE  /\ IsChain(v) /\ Sound(v) /\ Begins(v, chain)
         /\ v # chain => chain # <<>> /\ v = Before
         /\ Len(v) = Len(chain) \/ (v # chain /\ Len(v) = Len(chain) - 1)
<1>1. IsChain(chain) /\ Sound(chain) /\ (chain # <<>> => Sound(Before))
  BY DEF GateInv, GateChainInv
<1>2. Len(chain) \in Nat /\ DOMAIN chain = 1 .. Len(chain)
  BY <1>1, ChainIs
<1>3. v = chain \/ (chain # <<>> /\ v = Before)
  BY DEF Gate!Views, Before
<1>4. CASE v = chain
  BY <1>1, <1>2, <1>4 DEF Begins
<1>5. CASE chain # <<>> /\ v = Before
  <2>1. IsChain(v) /\ Longer(v, chain, chain[Len(chain)])
    BY <1>1, <1>5, FrontIs DEF Before
  <2> HIDE DEF Before
  <2>2. Begins(v, chain) /\ Len(v) = Len(chain) - 1
    BY <1>2, <2>1 DEF Longer, Begins
  <2>3. v # chain
    BY <1>2, <2>2
  <2> QED BY <1>1, <1>5, <2>1, <2>2, <2>3
<1> QED BY <1>3, <1>4, <1>5

\* The clock follows the time of the chain.
LEMMA GateClockIs ==
  ASSUME GateInv
  PROVE  /\ Gate!Day \in Nat \ {0} /\ Gate!Clock \in Nat
         /\ Gate!Clock = now * Gate!Day + Len(chain)
<1>1. now \in Nat /\ Len(chain) \in Nat
  BY DEF GateInv, IsChain
<1>2. now * Gate!Day \in Nat
  BY <1>1, DaysAre
<1> QED BY <1>1, <1>2, DaysAre DEF Gate!Clock

\* The greatest of two.
LEMMA MaxOfTwo ==
  ASSUME NEW a \in Int, NEW b \in Int
  PROVE  Gate!Max({a, b}) = IF a >= b THEN a ELSE b
<1>1. CASE a >= b
  BY <1>1 DEF Gate!Max
<1>2. CASE ~ (a >= b)
  BY <1>2 DEF Gate!Max
<1> QED BY <1>1, <1>2

\* The times of a gate's events go on, and have not come to the clock.
LEMMA GateTimed ==
  ASSUME GateInv, subject = "gate"
  PROVE  /\ Timed(chain) /\ Gate!Clock \in Nat
         /\ \A i \in 1 .. Len(chain) : GateEventOK(chain, i, late) /\ chain[i].ts < Gate!Clock
<1>1. \A i \in 1 .. Len(chain) : GateEventOK(chain, i, late) /\ chain[i].ts < Gate!Clock
  BY ChainIs DEF GateInv, GateChainInv
<1>2. Timed(chain)
  BY <1>1 DEF Timed, GateEventOK
<1> QED BY <1>1, <1>2, GateClockIs

\* An author writes what is known, and now.
LEMMA RegularEvent ==
  ASSUME GateInv, subject = "gate", NEW v \in Gate!Views, NEW e, ByGate(e, v)
  PROVE  /\ Regular(e) /\ e.ts = Gate!Clock /\ e.ts \in Nat
         /\ e.type = "enter" => e.node \in Members
<1>1. Regular(e)
  BY DEF ByGate, Regular, GateKinds
<1>2. e.ts = Gate!Clock /\ (e.type = "enter" => e.node \in Members)
  BY DEF ByGate
<1> QED BY <1>1, <1>2, GateClockIs

\* suspend.py, shutdown.py: whoever files has seen a suspension that has not run out
\* and that nothing has lifted.
LEMMA FiledWhenSuspended ==
  ASSUME GateInv, subject = "gate", NEW v \in Gate!Views, NEW e, ByGate(e, v), e.type = "file"
  PROVE  /\ \E k \in 1 .. Len(v) :
              /\ chain[k].type = "suspend" /\ e.ts < chain[k].ts + SuspendDays * Gate!Day
              /\ \A u \in k + 1 .. Len(v) : chain[u].type # "unsuspend"
         /\ Gate!Pending(v) = {} /\ ~ Gate!IsShutDown(v)
<1> DEFINE A == Gate!At(v, "suspend")
           B == Gate!At(v, "unsuspend")
           k == Gate!Max(A)
<1>1. Gate!MayFile(v, Gate!Clock) /\ e.ts = Gate!Clock
  BY DEF ByGate
<1>2. /\ ~ Gate!IsShutDown(v) /\ Gate!Pending(v) = {} /\ Gate!LastTime(v, "suspend") # Gate!None
      /\ ~ (Gate!LastTime(v, "unsuspend") > Gate!LastTime(v, "suspend"))
      /\ ~ (Gate!Clock >= Gate!LastTime(v, "suspend") + SuspendDays * Gate!Day)
  BY <1>1 DEF Gate!MayFile, Gate!Suspension
<1>3. A # {} /\ Gate!LastTime(v, "suspend") = v[k].ts
  BY <1>2 DEF Gate!LastTime
<1>4. /\ A \in SUBSET (1 .. Len(v)) /\ B \in SUBSET (1 .. Len(v)) /\ Len(v) \in Nat
      /\ Len(v) <= Len(chain) /\ Len(chain) \in Nat
      /\ \A i \in 1 .. Len(v) : v[i] = chain[i] /\ i \in 1 .. Len(chain)
  BY GateSeen, ChainIs DEF Gate!At, Begins, GateInv
<1>5. k \in A
  <2> HIDE DEF A
  <2>1. A \in SUBSET Nat /\ \A x \in A : x <= Len(v)
    BY <1>4
  <2> QED BY <1>3, <1>4, <2>1, MaxIs, AlikeInGates
<1>6. k \in 1 .. Len(v) /\ v[k] = chain[k] /\ v[k].type = "suspend"
  <2>1. v[k].type = "suspend" /\ k \in 1 .. Len(v)
    BY <1>4, <1>5 DEF Gate!At
  <2> QED BY <1>4, <2>1
<1>7. Timed(chain) /\ \A i \in 1 .. Len(v) : chain[i].ts \in Nat
  BY <1>4, GateTimed DEF Timed
<1>8. ASSUME NEW u \in k + 1 .. Len(v), chain[u].type = "unsuspend" PROVE FALSE
  <2> DEFINE m == Gate!Max(B)
  <2> HIDE DEF k
  <2>1. u \in 1 .. Len(v) /\ u \in B /\ k \in 1 .. u - 1
    BY <1>4, <1>6, <1>8, GateSeen DEF Gate!At, Begins
  <2>2. Gate!LastTime(v, "unsuspend") = v[m].ts
    BY <2>1 DEF Gate!LastTime
  <2>3. m \in B /\ u <= m
    <3> HIDE DEF B
    <3>1. B \in SUBSET Nat /\ B # {} /\ \A x \in B : x <= Len(v)
      BY <1>4, <2>1
    <3> QED BY <1>4, <2>1, <3>1, MaxIs, AlikeInGates
  <2> HIDE DEF m, B
  <2>4. m \in 1 .. Len(chain) /\ k \in 1 .. m - 1 /\ v[m] = chain[m] /\ m \in 1 .. Len(v)
    BY <1>4, <2>1, <2>3
  <2>5. chain[k].ts < chain[m].ts /\ chain[k].ts \in Nat /\ chain[m].ts \in Nat
    BY <1>6, <1>7, <2>4 DEF Timed
  <2> QED BY <1>2, <1>3, <1>6, <2>2, <2>4, <2>5 DEF k
<1>9. e.ts < chain[k].ts + SuspendDays * Gate!Day
  <2> HIDE DEF k
  <2> DEFINE most == SuspendDays * Gate!Day
             at == chain[k].ts
             t == Gate!Clock
  <2>1. at \in Nat /\ most \in Nat /\ t \in Nat
    BY <1>6, <1>7, GateClockIs, DaysAre
  <2>2. Gate!LastTime(v, "suspend") = at
    BY <1>3, <1>6 DEF k
  <2>3. ~ (t >= at + most)
    BY <1>2, <2>2
  <2> HIDE DEF most, at, t
  <2>4. t < at + most
    BY <2>1, <2>3
  <2> QED BY <1>1, <2>4 DEF most, at, t
<1> HIDE DEF k
<1> QED BY <1>2, <1>6, <1>8, <1>9

\* appeal.py: whoever appeals has seen a vote that passed.
LEMMA AppealedWhenPassed ==
  ASSUME GateInv, subject = "gate", NEW v \in Gate!Views, NEW e, ByGate(e, v), e.type = "appeal"
  PROVE  \E k \in 1 .. Len(chain) :
           chain[k].type = "vote" /\ chain[k].vote = "passed" /\ chain[k].id = e.id
<1>1. Gate!PassedVotes(v, e.id) # {}
  BY DEF ByGate, Gate!MayAppeal
<1>2. Gate!PassedVotes(v, e.id) \in SUBSET Gate!PassedVotes(chain, e.id)
  BY GateSeen, BegunWith DEF GateInv
<1>3. PICK k \in Gate!PassedVotes(chain, e.id) : TRUE
  BY <1>1, <1>2
<1> QED BY <1>3, ChainIs DEF Gate!PassedVotes, Gate!At, GateInv

\* shutdown.py: whoever executes has seen the petition, and all of its delay.
LEMMA ExecutedWhenPaid ==
  ASSUME GateInv, subject = "gate", NEW v \in Gate!Views, NEW e, ByGate(e, v), e.type = "execute"
  PROVE  /\ \E k \in 1 .. Len(chain) : chain[k].type = "file" /\ chain[k].id = e.id
         /\ Gate!Waited(v, e.id, e.ts)
<1>1. /\ e.id \in Gate!Filed(v) /\ Gate!Petition(v, e.id).status = "executing"
      /\ e.ts >= Gate!Petition(v, e.id).at
  BY DEF ByGate
<1>2. IsChain(v) /\ Sound(v) /\ Begins(v, chain)
  BY GateSeen
<1>3. \E k \in 1 .. Len(chain) : chain[k].type = "file" /\ chain[k].id = e.id
  <2>1. PICK k \in Gate!At(v, "file") : v[k].id = e.id
    BY <1>1 DEF Gate!Filed
  <2>2. k \in 1 .. Len(v) /\ v[k].type = "file"
    BY <1>2, <2>1 DEF Gate!At, Begins
  <2>3. k \in 1 .. Len(chain) /\ chain[k] = v[k]
    BY <1>2, <2>2, ChainIs DEF Begins, GateInv
  <2> QED BY <2>1, <2>2, <2>3
<1>4. Gate!Petition(v, e.id).at \in Int /\ Gate!Waited(v, e.id, Gate!Petition(v, e.id).at)
  BY <1>1, <1>2 DEF Sound
<1>5. Timed(v) /\ Begins(v, v)
  <2>1. Len(v) \in Nat /\ Len(chain) \in Nat /\ Timed(chain)
    BY <1>2, GateTimed, ChainIs DEF GateInv
  <2>2. \A i \in 1 .. Len(v) : i \in 1 .. Len(chain) /\ v[i] = chain[i]
    BY <1>2, <2>1 DEF Begins
  <2>3. \A i \in 1 .. Len(v) : \A j \in 1 .. i - 1 : v[j] = chain[j]
    BY <2>1, <2>2
  <2>4. \A i \in 1 .. Len(v) : v[i].ts \in Nat /\ \A j \in 1 .. i - 1 : v[j].ts < v[i].ts
    BY <2>1, <2>2, <2>3 DEF Timed
  <2>5. DOMAIN v = 1 .. Len(v)
    BY <1>2 DEF Begins
  <2> QED BY <2>1, <2>4, <2>5 DEF Timed, Begins
<1>6. Gate!Waited(v, e.id, e.ts)
  BY <1>1, <1>2, <1>4, <1>5, RegularEvent, WaitedStays
<1> QED BY <1>3, <1>6

\* Whoever has seen everything has asked what the rules ask, of the whole chain.
LEMMA AskedWhenSeen ==
  ASSUME GateInv, subject = "gate", NEW e, ByGate(e, chain), chain \in Gate!Views
  PROVE  Asked(chain, e)
<1>1. Regular(e)
  BY RegularEvent
<1>2. e.type = "file" => Gate!Pending(chain) = {} /\ ~ Gate!IsShutDown(chain)
  BY FiledWhenSuspended
<1>3. /\ e.type = "vote" => e.id \in Gate!Filed(chain) /\ Gate!Petition(chain, e.id).status = "filed"
      /\ e.type = "appeal" => e.id \in Gate!Filed(chain) /\ Gate!Appeals(chain, e.id) = {}
                              /\ Gate!PassedVotes(chain, e.id) # {} /\ Gate!Pending(chain) # {}
      /\ e.type = "resolve" => e.id \in Gate!Filed(chain) /\ Gate!Petition(chain, e.id).status = "appealed"
      /\ e.type = "execute" => e.id \in Gate!Filed(chain) /\ Gate!Petition(chain, e.id).status = "executing"
  BY DEF ByGate, Gate!MayAppeal
<1> QED BY <1>1, <1>2, <1>3 DEF Asked

\* appeal.py: when an appeal is resolved what is left of the delay begins again, and
\* it is counted from the first appeal that has been seen.
LEMMA ResumedWaits ==
  ASSUME GateInv, subject = "gate", NEW v \in Gate!Views, NEW e, ByGate(e, v), e.type = "resolve",
         e.outcome = "resumed", NEW d, IsChain(d), Longer(chain, d, e)
  PROVE  e.at \in Int /\ Gate!Waited(d, e.id, e.at)
<1> DEFINE id == e.id
           wait == DelayDays * Gate!Day
           from == Gate!PassedAt(v, id)
           first == v[Gate!Max(Gate!Appeals(v, id))].ts
           rest == from + wait - first
           t == Gate!Clock
<1>1. /\ Gate!Petition(v, id).status = "appealed"
      /\ e.at = t + Gate!Max({0, rest}) /\ e.ts = t
  BY Zenon DEF ByGate, Gate!Remaining
<1>2. IsChain(v) /\ Sound(v) /\ Begins(v, chain) /\ IsChain(chain)
  BY GateSeen DEF GateInv
<1>3. Gate!Appeals(v, id) # {} /\ Gate!PassedVotes(v, id) # {}
  BY <1>1, <1>2 DEF Sound
<1>4. /\ Timed(chain) /\ t \in Nat /\ Len(chain) \in Nat
      /\ \A i \in 1 .. Len(chain) : chain[i].ts \in Nat /\ chain[i].ts < t
  BY <1>2, GateTimed, ChainIs DEF Timed
<1>5. /\ Len(d) = Len(chain) + 1 /\ d[Len(d)] = e
      /\ \A i \in 1 .. Len(chain) : d[i] = chain[i]
  BY DEF Longer
<1>6. \A i \in 1 .. Len(d) : d[i].ts \in Nat /\ d[i].ts <= t
  <2>1. ASSUME NEW i \in 1 .. Len(d) PROVE i \in 1 .. Len(chain) \/ i = Len(d)
    BY <1>4, <1>5
  <2> QED BY <1>1, <1>4, <1>5, <2>1
<1>7. Begins(v, d)
  BY <1>2, <1>4, <1>5 DEF Begins
<1>8. Gate!PassedVotes(d, id) # {} /\ Gate!PassedAt(d, id) = from
  BY <1>2, <1>3, <1>7, PassedStays
<1>9. from \in Nat
  <2>1. PICK k \in 1 .. Len(d) : Gate!PassedAt(d, id) = d[k].ts
    BY <1>8, PassedIs
  <2> QED BY <1>6, <1>8, <2>1
<1>10. PICK a \in Gate!Appeals(v, id) :
         a \in 1 .. Len(v) /\ Gate!Max(Gate!Appeals(v, id)) = a
  BY <1>2, <1>3, AppealsEnd
<1>11. a \in 1 .. Len(chain) /\ first = chain[a].ts /\ a \in Gate!Appeals(d, id)
  <2>1. a \in 1 .. Len(chain) /\ v[a] = chain[a]
    BY <1>2, <1>4, <1>10 DEF Begins
  <2>2. Gate!Appeals(v, id) = Gate!Appeals(d, id) \intersect (1 .. Len(v))
    BY <1>7, BegunWith
  <2> HIDE DEF id
  <2> QED BY <1>10, <2>1, <2>2
<1>12. PICK b \in Gate!Appeals(d, id) :
         /\ b \in 1 .. Len(d) /\ Gate!Max(Gate!Appeals(d, id)) = b
         /\ \A j \in Gate!Appeals(d, id) : j <= b
  BY <1>11, AppealsEnd
<1>13. b \in 1 .. Len(chain)
  <2>1. d[b].type = "appeal"
    BY <1>12 DEF Gate!Appeals, Gate!At
  <2>2. b # Len(d)
    BY <1>5, <2>1
  <2> QED BY <1>4, <1>5, <1>12, <2>2
<1>14. first \in Nat /\ first <= t /\ d[b].ts \in Nat /\ first <= d[b].ts
  <2>1. a <= b /\ d[b] = chain[b]
    BY <1>5, <1>11, <1>12, <1>13
  <2>2. a = b \/ a \in 1 .. b - 1
    BY <1>11, <1>13, <2>1
  <2>3. chain[a].ts <= chain[b].ts
    <3>1. chain[a].ts \in Nat /\ chain[b].ts \in Nat
      BY <1>4, <1>11, <1>13
    <3>2. a \in 1 .. b - 1 => chain[a].ts < chain[b].ts
      BY <1>4, <1>13 DEF Timed
    <3> QED BY <2>2, <3>1, <3>2
  <2> HIDE DEF first
  <2> QED BY <1>4, <1>11, <1>13, <2>1, <2>3
<1>15. wait \in Nat
  BY DaysAre
<1> HIDE DEF wait, from, first
<1>16. rest \in Int
  BY <1>9, <1>14, <1>15
<1> HIDE DEF rest
<1>17. e.at \in Int /\ e.at >= t + rest
  <2>1. Gate!Max({0, rest}) \in Int /\ Gate!Max({0, rest}) >= rest
    BY <1>16, MaxOfTwo
  <2> HIDE DEF t
  <2> QED BY <1>1, <1>4, <1>16, <2>1
<1> HIDE DEF t, id
<1>18. ASSUME NEW x \in Int, NEW y \in Nat, NEW f \in Nat, NEW w \in Nat, NEW m \in Nat,
               x >= m + (f + w - y), NEW z \in Nat, y <= z, NEW u \in Nat, u <= m, y <= m
       PROVE  x - f >= w /\ x - f >= w + (u - z)
  BY <1>18
<1>19. /\ e.at - from >= wait
       /\ \A i \in Gate!Resumed(d, id) : e.at - from >= wait + (d[i].ts - d[b].ts)
  <2>1. \A i \in Gate!Resumed(d, id) : i \in 1 .. Len(d)
    BY ChainIs DEF Gate!Resumed, Gate!At
  <2>2. \A i \in Gate!Resumed(d, id) : d[i].ts \in Nat /\ d[i].ts <= t
    BY <1>6, <2>1 DEF t
  <2>3. e.at >= t + (from + wait - first)
    BY <1>17 DEF rest
  <2> DEFINE x == e.at
             z == d[b].ts
  <2>4. /\ x \in Int /\ first \in Nat /\ from \in Nat /\ wait \in Nat /\ t \in Nat
        /\ x >= t + (from + wait - first) /\ z \in Nat /\ first <= z /\ first <= t
    BY <1>4, <1>9, <1>14, <1>15, <1>17, <2>3 DEF t
  <2> HIDE DEF x, z
  <2>5. ASSUME NEW u \in Nat, u <= t PROVE x - from >= wait /\ x - from >= wait + (u - z)
    BY <1>18, <2>4, <2>5
  <2>6. x - from >= wait
    BY <2>4, <2>5
  <2> QED BY <2>2, <2>5, <2>6 DEF x, z
<1>20. Gate!Resumed(d, id) # {}
  <2>1. Len(d) \in DOMAIN d
    BY <1>4, <1>5, ChainIs
  <2> QED BY <1>5, <2>1 DEF Gate!Resumed, Gate!At, id
<1>21. Gate!Waited(d, id, e.at)
  BY <1>8, <1>12, <1>19, <1>20, Zenon DEF Gate!Waited, wait
<1> QED BY <1>17, <1>21 DEF id

\* shutdown.py: when a vote has passed the whole delay begins, and nobody has appealed.
LEMMA PassedWaits ==
  ASSUME GateInv, subject = "gate", NEW v \in Gate!Views, NEW e, ByGate(e, v), e.type = "vote",
         e.vote = "passed", NEW d, IsChain(d), Longer(chain, d, e)
  PROVE  Gate!Waited(d, e.id, e.ts + DelayDays * Gate!Day)
<1> DEFINE id == e.id
           wait == DelayDays * Gate!Day
<1>1. Gate!Petition(v, id).status = "filed" /\ e.ts = Gate!Clock
  BY DEF ByGate
<1>2. IsChain(v) /\ Sound(v) /\ Begins(v, chain) /\ IsChain(chain) /\ Len(v) >= Len(chain) - 1
  <2>1. Len(chain) \in Nat
    BY ChainIs DEF GateInv
  <2> QED BY <2>1, GateSeen DEF GateInv
<1>3. Gate!PassedVotes(v, id) = {}
  BY <1>1, <1>2 DEF Sound
<1>4. Gate!Appeals(chain, id) = {}
  <2> SUFFICES ASSUME NEW a \in Gate!Appeals(chain, id) PROVE FALSE
    OBVIOUS
  <2>1. a \in 1 .. Len(chain) /\ chain[a].type = "appeal" /\ chain[a].id = id
    BY <1>2, ChainIs DEF Gate!Appeals, Gate!At
  <2>2. PICK k \in 1 .. a - 1 : chain[k].type = "vote" /\ chain[k].vote = "passed" /\ chain[k].id = id
    BY <2>1, GateTimed DEF GateEventOK, HadPassed
  <2>3. k \in 1 .. Len(chain) /\ k \in 1 .. Len(v)
    BY <1>2, <2>1, <2>2, ChainIs DEF Begins
  <2>4. k \in Gate!PassedVotes(chain, id)
    BY <1>2, <2>2, <2>3, ChainIs DEF Gate!PassedVotes, Gate!At
  <2> QED BY <1>2, <1>3, <2>3, <2>4, BegunWith
<1>5. Gate!Appeals(d, id) = {} /\ Len(chain) + 1 \in Gate!PassedVotes(d, id)
  BY <1>4, OfPetitionGrow
<1>6. PICK k \in Gate!PassedVotes(d, id) : k \in 1 .. Len(d) /\ Gate!PassedAt(d, id) = d[k].ts
  BY <1>5, PassedIs
<1>7. d[k].ts \in Nat /\ d[k].ts <= e.ts /\ e.ts \in Nat
  <2>1. k \in 1 .. Len(chain) \/ d[k] = e
    BY <1>6 DEF Longer
  <2> QED BY <1>1, <2>1, GateTimed DEF Timed, Longer
<1>8. wait \in Nat
  BY DaysAre
<1> HIDE DEF wait
<1>9. (e.ts + wait) - Gate!PassedAt(d, id) >= wait
  BY <1>6, <1>7, <1>8
<1> HIDE DEF id
<1>10. Gate!Waited(d, id, e.ts + wait)
  BY <1>5, <1>6, <1>9, Zenon DEF Gate!Waited, wait
<1> QED BY <1>10 DEF id, wait

\* The status goes on saying what has happened, whatever the author has missed.
LEMMA SoundGrows ==
  ASSUME GateInv, subject = "gate", NEW v \in Gate!Views, NEW e, ByGate(e, v),
         NEW d, IsChain(d), Longer(chain, d, e)
  PROVE  Sound(d)
<1> DEFINE P(x, i) == Gate!Petition(x, i)
           V(x, i) == Gate!PassedVotes(x, i)
           A(x, i) == Gate!Appeals(x, i)
           R(x, i) == Gate!Resumed(x, i)
           X(x, i) == Executes(x, i)
           Right(x, i) ==
             /\ P(x, i).status = "filed" => V(x, i) = {} /\ A(x, i) = {}
             /\ P(x, i).status = "executing" => P(x, i).at \in Int /\ Gate!Waited(x, i, P(x, i).at)
             /\ P(x, i).status = "appealed" => A(x, i) # {} /\ V(x, i) # {}
             /\ P(x, i).status = "voided_appeal" => A(x, i) # {}
             /\ P(x, i).status = "executed" => X(x, i) # {}
<1> SUFFICES ASSUME NEW id PROVE Right(d, id)
  BY DEF Sound
<1> DEFINE n == Len(chain)
<1>1. /\ IsChain(chain) /\ IsChain(v) /\ Sound(chain) /\ Sound(v) /\ Begins(v, chain)
      /\ Timed(chain) /\ Regular(e) /\ e.ts \in Nat
  BY GateSeen, GateTimed, RegularEvent DEF GateInv, GateChainInv
<1>2. Right(chain, id) /\ Right(v, id)
  BY <1>1 DEF Sound
<1>3. /\ V(d, id) = V(chain, id) \union
           (IF e.type = "vote" /\ e.id = id /\ e.vote = "passed" THEN {n + 1} ELSE {})
      /\ A(d, id) = A(chain, id) \union (IF e.type = "appeal" /\ e.id = id THEN {n + 1} ELSE {})
      /\ R(d, id) = R(chain, id) \union
           (IF e.type = "resolve" /\ e.id = id /\ e.outcome = "resumed" THEN {n + 1} ELSE {})
      /\ X(d, id) = X(chain, id) \union (IF e.type = "execute" /\ e.id = id THEN {n + 1} ELSE {})
  BY OfPetitionGrow
<1>4. /\ e.type \notin {"vote", "appeal", "resolve", "execute"} \/ e.id # id => P(d, id) = P(chain, id)
      /\ e.id = id /\ e.type = "vote" /\ e.vote = "passed" =>
           P(d, id).status = "executing" /\ P(d, id).at = e.ts + DelayDays * Gate!Day
      /\ e.id = id /\ e.type = "vote" /\ e.vote = "failed" => P(d, id).status = "failed"
      /\ e.id = id /\ e.type = "appeal" => P(d, id).status = "appealed"
      /\ e.id = id /\ e.type = "resolve" /\ e.outcome = "voided" => P(d, id).status = "voided_appeal"
      /\ e.id = id /\ e.type = "resolve" /\ e.outcome = "resumed" =>
           P(d, id).status = "executing" /\ P(d, id).at = e.at
      /\ e.id = id /\ e.type = "execute" => P(d, id).status = "executed"
  BY <1>1, PetitionMoves
<1>5. /\ V(v, id) \in SUBSET V(chain, id) /\ A(v, id) \in SUBSET A(chain, id)
  BY <1>1, BegunWith
<1> HIDE DEF P, V, A, R, X, n
<1>6. CASE e.type \notin {"vote", "appeal", "resolve", "execute"} \/ e.id # id
  <2>1. /\ P(d, id) = P(chain, id) /\ V(d, id) = V(chain, id) /\ A(d, id) = A(chain, id)
        /\ R(d, id) = R(chain, id) /\ X(d, id) = X(chain, id)
    BY <1>3, <1>4, <1>6
  <2>2. ASSUME P(chain, id).at \in Int, Gate!Waited(chain, id, P(chain, id).at)
        PROVE  Gate!Waited(d, id, P(chain, id).at)
    <3>1. Begins(chain, d)
      BY DEF Begins, Longer
    <3> QED BY <1>1, <2>1, <2>2, <3>1, WaitedStays DEF A, R
  <2> QED BY <1>2, <2>1, <2>2
<1>7. CASE e.id = id /\ e.type = "vote"
  <2>1. CASE e.vote = "passed"
    <3>1. Gate!Waited(d, id, e.ts + DelayDays * Gate!Day)
      BY <1>7, <2>1, PassedWaits
    <3>2. e.ts + DelayDays * Gate!Day \in Int
      BY <1>1, DaysAre
    <3> QED BY <1>4, <1>7, <2>1, <3>1, <3>2
  <2>2. CASE e.vote = "failed"
    BY <1>4, <1>7, <2>2
  <2> QED BY <1>1, <1>7, <2>1, <2>2 DEF Regular
<1>8. CASE e.id = id /\ e.type = "appeal"
  <2>1. V(v, id) # {}
    BY <1>8 DEF ByGate, Gate!MayAppeal, V
  <2>2. V(d, id) # {} /\ A(d, id) # {}
    BY <1>3, <1>5, <1>8, <2>1
  <2> QED BY <1>4, <1>8, <2>2
<1>9. CASE e.id = id /\ e.type = "resolve"
  <2>1. P(v, id).status = "appealed"
    BY <1>9 DEF ByGate, P
  <2>2. A(d, id) # {}
    BY <1>2, <1>3, <1>5, <2>1
  <2>3. CASE e.outcome = "voided"
    BY <1>4, <1>9, <2>2, <2>3
  <2>4. CASE e.outcome = "resumed"
    <3>1. e.at \in Int /\ Gate!Waited(d, id, e.at)
      BY <1>9, <2>4, ResumedWaits
    <3> QED BY <1>4, <1>9, <2>4, <3>1
  <2> QED BY <1>1, <1>9, <2>3, <2>4 DEF Regular
<1>10. CASE e.id = id /\ e.type = "execute"
  BY <1>3, <1>4, <1>10
<1> QED BY <1>6, <1>7, <1>8, <1>9, <1>10

------------------------------------------------------------------------------
(* The invariant of a gate *)

\* An event keeps what made it right: nothing before it changes.
LEMMA EventStays ==
  ASSUME NEW c, IsChain(c), NEW d, IsChain(d), NEW e, Longer(c, d, e), NEW i \in 1 .. Len(c),
         NEW l \in Nat, NEW m \in Nat, l <= m, GateEventOK(c, i, l)
  PROVE  GateEventOK(d, i, m)
<1>1. d[i] = c[i] /\ \A j \in 1 .. i - 1 : d[j] = c[j]
  <2>1. \A j \in 1 .. i : j \in 1 .. Len(c)
    BY DEF Longer
  <2> QED BY <2>1 DEF Longer
<1>2. Suspended(c, i, l) => Suspended(d, i, m)
  <2>1. ASSUME NEW k \in 1 .. i - 1, NEW u \in k + 1 .. i - 1 PROVE u \in 1 .. i - 1
    OBVIOUS
  <2> QED BY <1>1, <2>1 DEF Suspended
<1>3. KnowsPetition(c, i) => KnowsPetition(d, i)
  BY <1>1 DEF KnowsPetition
<1>4. HadPassed(c, i) => HadPassed(d, i)
  BY <1>1 DEF HadPassed
<1>5. ASSUME Paid(c, i, l) PROVE Paid(d, i, m)
  <2>1. PICK k \in 0 .. i - 1 :
          i - 1 - k \in Missing(l) /\ Gate!Waited(SubSeq(c, 1, k), c[i].id, c[i].ts)
    BY <1>5 DEF Paid
  <2>2. i - 1 - k \in Missing(m)
    BY <2>1 DEF Missing
  <2>3. SubSeq(d, 1, k) = SubSeq(c, 1, k)
    <3>1. k \in 0 .. Len(c)
      BY <2>1, ChainIs
    <3> QED BY <3>1, BeginningStays
  <2> QED BY <1>1, <2>1, <2>2, <2>3 DEF Paid
<1> QED BY <1>1, <1>2, <1>3, <1>4, <1>5 DEF GateEventOK

\* A new event is right, too, when it counts as late that misses the last.
LEMMA EventFits ==
  ASSUME GateInv, subject = "gate", NEW v \in Gate!Views, NEW e, ByGate(e, v),
         NEW d, IsChain(d), Longer(chain, d, e), NEW m, m = Len(chain) + 1,
         NEW l \in Nat, v # chain => l > 0
  PROVE  GateEventOK(d, m, l) /\ d[m].ts = Gate!Clock
<1> DEFINE n == Len(chain)
<1>1. /\ n \in Nat /\ d[m] = e /\ m - 1 = n /\ \A i \in 1 .. n : d[i] = chain[i]
      /\ Len(d) = n + 1
  BY DEF Longer
<1>2. Regular(e) /\ e.ts = Gate!Clock /\ e.ts \in Nat /\ (e.type = "enter" => e.node \in Members)
  BY RegularEvent
<1>3. \A j \in 1 .. m - 1 : d[j].ts < d[m].ts
  BY <1>1, <1>2, GateTimed
<1>4. /\ IsChain(v) /\ Begins(v, chain) /\ Len(v) \in Nat
      /\ Len(v) = n \/ (l > 0 /\ Len(v) = n - 1)
  BY GateSeen DEF Begins
<1>5. ASSUME e.type = "file" PROVE Suspended(d, m, l)
  <2>1. PICK k \in 1 .. Len(v) :
          /\ chain[k].type = "suspend" /\ e.ts < chain[k].ts + SuspendDays * Gate!Day
          /\ \A u \in k + 1 .. Len(v) : chain[u].type # "unsuspend"
    BY <1>5, FiledWhenSuspended
  <2> HIDE DEF n
  <2>2. k \in 1 .. m - 1 /\ k \in 1 .. n
    BY <1>1, <1>4, <2>1
  <2>3. ASSUME NEW u \in k + 1 .. m - 1, d[u].type = "unsuspend" PROVE l > 0 /\ u = m - 1
    <3>1. u \in 1 .. n /\ d[u] = chain[u]
      BY <1>1, <2>2, <2>3
    <3>2. u \notin k + 1 .. Len(v)
      BY <2>1, <2>3, <3>1
    <3> QED BY <1>1, <1>4, <2>2, <2>3, <3>2
  <2>4. d[k] = chain[k]
    BY <1>1, <2>2
  <2> QED BY <1>1, <2>1, <2>2, <2>3, <2>4 DEF Suspended
<1>6. e.type = "appeal" => HadPassed(d, m)
  BY <1>1, AppealedWhenPassed DEF HadPassed
<1>7. ASSUME e.type = "execute" PROVE KnowsPetition(d, m) /\ Paid(d, m, l)
  <2>1. \E k \in 1 .. n : chain[k].type = "file" /\ chain[k].id = e.id
    BY <1>7, ExecutedWhenPaid
  <2>2. KnowsPetition(d, m)
    BY <1>1, <2>1 DEF KnowsPetition
  <2>3. Gate!Waited(v, e.id, e.ts)
    BY <1>7, ExecutedWhenPaid
  <2> HIDE DEF n
  <2>4. Begins(v, d)
    <3>1. /\ Len(v) \in Nat /\ Len(v) <= n /\ DOMAIN v = 1 .. Len(v)
          /\ \A i \in 1 .. Len(v) : v[i] = chain[i]
      BY <1>4 DEF Begins, n
    <3>2. \A i \in 1 .. Len(v) : i \in 1 .. n
      BY <1>1, <3>1
    <3> QED BY <1>1, <3>1, <3>2 DEF Begins
  <2>5. v = SubSeq(d, 1, Len(v))
    BY <1>4, <2>4, BeginningIs
  <2>6. Len(v) \in 0 .. m - 1 /\ m - 1 - Len(v) \in Missing(l)
    BY <1>1, <1>4 DEF Missing
  <2> QED BY <1>1, <2>2, <2>3, <2>5, <2>6 DEF Paid
<1> QED BY <1>1, <1>2, <1>3, <1>5, <1>6, <1>7 DEF GateEventOK, Regular

\* Petitions are numbered without gaps.
LEMMA FiledUpTo ==
  ASSUME NEW c, NEW d, NEW e, Longer(c, d, e), NEW n \in Nat, Gate!Filed(c) = 1 .. n,
         e.type = "file" => e.id = Gate!Cardinality(Gate!Filed(c)) + 1
  PROVE  \E k \in Nat : Gate!Filed(d) = 1 .. k
<1>1. Gate!Cardinality(1 .. n) = n
  BY FS_Interval, AlikeInGates
<1>2. Gate!Filed(d) = (1 .. n) \union (IF e.type = "file" THEN {n + 1} ELSE {})
  BY <1>1, FiledGrows
<1>3. Gate!Filed(d) = 1 .. (IF e.type = "file" THEN n + 1 ELSE n)
  BY <1>2
<1> QED BY <1>3

\* An event written on a gate's chain keeps the invariant.
LEMMA GateWritten ==
  ASSUME GateInv, subject = "gate", NEW e, Written(e), subject' = subject
  PROVE  GateInv'
<1> DEFINE n == Len(chain)
<1>1. PICK v \in Gate!Views : ByGate(e, v) /\ LateBy(v)
  BY DEF Written
<1>2. IsChain(chain) /\ n \in Nat /\ DOMAIN chain = 1 .. n /\ now \in Nat /\ late \in 0 .. MaxLate
  BY ChainIs DEF GateInv
<1>3. chain' = Append(chain, e) /\ now' = now /\ n < GateLength
  BY DEF Written
<1>4. IsChain(chain') /\ Longer(chain, chain', e) /\ Gate!Front(chain') = chain
  BY <1>2, <1>3, EventJoins, FrontIs
<1>5. Len(chain') = n + 1 /\ DOMAIN chain' = 1 .. n + 1 /\ chain'[n + 1] = e
  BY <1>4 DEF Longer
<1>6. Gate!Clock \in Nat /\ Gate!Clock' = Gate!Clock + 1
  <2>1. Gate!Clock = now * Gate!Day + n /\ Gate!Clock' = now' * Gate!Day + Len(chain')
    BY DEF Gate!Clock, Gate!Day
  <2>2. now * Gate!Day \in Nat
    BY <1>2, DaysAre
  <2>3. now' * Gate!Day = now * Gate!Day
    BY <1>3
  <2> HIDE DEF n
  <2> QED BY <1>2, <1>5, <2>1, <2>2, <2>3
<1>7. ASSUME NEW i \in 1 .. n + 1 PROVE GateEventOK(chain', i, late') /\ chain'[i].ts < Gate!Clock'
  <2>1. late \in Nat /\ late' \in Nat /\ late <= late' /\ (v # chain => late' > 0)
    BY <1>1, <1>2 DEF LateBy
  <2>2. CASE i \in 1 .. n
    <3>1. GateEventOK(chain, i, late) /\ chain[i].ts < Gate!Clock /\ chain[i].ts \in Nat
      BY <1>2, <2>2 DEF GateInv, GateChainInv, GateEventOK
    <3>2. GateEventOK(chain', i, late') /\ chain'[i] = chain[i]
      BY <1>2, <1>4, <2>1, <2>2, <3>1, EventStays DEF Longer
    <3> QED BY <1>6, <3>1, <3>2
  <2>3. CASE i = n + 1
    <3>1. GateEventOK(chain', i, late') /\ chain'[i].ts = Gate!Clock
      BY <1>1, <1>4, <2>1, <2>3, EventFits
    <3> QED BY <1>6, <3>1
  <2> QED BY <1>2, <2>2, <2>3
<1>8. \E k \in Nat : Gate!Filed(chain') = 1 .. k
  <2>1. PICK k \in Nat : Gate!Filed(chain) = 1 .. k
    BY DEF GateInv, GateChainInv
  <2>2. e.type = "file" => e.id = Gate!Cardinality(Gate!Filed(chain)) + 1
    BY <1>1 DEF ByGate
  <2> QED BY <1>4, <2>1, <2>2, FiledUpTo
<1>9. Sound(chain) /\ Sound(chain')
  BY <1>1, <1>4, SoundGrows DEF GateInv, GateChainInv
<1>10. late' \in 0 .. MaxLate
  BY <1>1, <1>2, LateAssumption DEF LateBy, Gate!Views
<1>11. ASSUME late' = 0
       PROVE  /\ \A id : Watched(chain', id)
              /\ OnePending(chain')
              /\ \A id : Gate!Petition(chain', id).status = "executed"
                   => Gate!Petition(chain, id).status \in {"executing", "executed"}
  <2>1. v = chain /\ late = 0
    BY <1>1, <1>2, <1>11 DEF LateBy
  <2>2. Asked(chain, e)
    BY <1>1, <2>1, AskedWhenSeen
  <2>3. OnePending(chain) /\ \A id : Watched(chain, id)
    BY <2>1 DEF GateInv, GateChainInv
  <2>4. \A id : Watched(chain', id)
    BY <1>2, <1>4, <1>9, <2>2, <2>3, WatchedGrows
  <2>5. OnePending(chain')
    BY <1>2, <1>4, <1>9, <2>2, <2>3, OnePendingGrows
  <2>6. ASSUME NEW id, Gate!Petition(chain', id).status = "executed"
        PROVE  Gate!Petition(chain, id).status \in {"executing", "executed"}
    <3> DEFINE p == Gate!Petition(chain, id)
               q == Gate!Petition(chain', id)
    <3>1. /\ e.type \notin {"vote", "appeal", "resolve", "execute"} \/ e.id # id => q = p
          /\ e.id = id /\ e.type = "vote" /\ e.vote = "passed" => q.status = "executing"
          /\ e.id = id /\ e.type = "vote" /\ e.vote = "failed" => q.status = "failed"
          /\ e.id = id /\ e.type = "appeal" => q.status = "appealed"
          /\ e.id = id /\ e.type = "resolve" /\ e.outcome = "voided" => q.status = "voided_appeal"
          /\ e.id = id /\ e.type = "resolve" /\ e.outcome = "resumed" => q.status = "executing"
      BY <1>2, <1>4, PetitionMoves
    <3>2. e.type = "execute" /\ e.id = id => p.status = "executing"
      BY <2>2 DEF Asked
    <3> HIDE DEF p, q
    <3>3. q.status = "executed"
      BY <2>6 DEF q
    <3>4. Regular(e)
      BY <2>2 DEF Asked
    <3> QED BY <3>1, <3>2, <3>3, <3>4 DEF Regular, p
  <2> QED BY <2>4, <2>5, <2>6
<1> HIDE DEF n
<1>12. GateChainInv'
  <2>1. \A i \in DOMAIN chain' : GateEventOK(chain', i, late') /\ chain'[i].ts < Gate!Clock'
    BY <1>5, <1>7
  <2>2. Before' = chain
    BY <1>4 DEF Before
  <2> QED BY <1>8, <1>9, <1>11, <2>1, <2>2 DEF GateChainInv
<1>13. now' <= GateTime /\ Len(chain') <= GateLength
  BY <1>2, <1>3, <1>5, GateAssumption DEF GateInv
<1> QED BY <1>2, <1>3, <1>4, <1>10, <1>12, <1>13 DEF GateInv

\* The invariant holds of every step.
LEMMA GateInvariance == Spec => []GateInv
<1>1. Init => GateInv
  <2>1. IsChain(<<>>) /\ Len(<<>>) = 0 /\ DOMAIN <<>> = {}
    <3>1. <<>> \in Seq({})
      OBVIOUS
    <3> QED BY <3>1 DEF IsChain
  <2>2. ASSUME NEW type PROVE Gate!At(<<>>, type) = {}
    BY <2>1 DEF Gate!At
  <2>3. ASSUME NEW id
        PROVE  /\ Gate!Petition(<<>>, id).status = "filed" /\ Untouched(<<>>, id)
    BY <2>2, PetitionBegins
       DEF Filed0, Untouched, Gate!PassedVotes, Gate!Appeals, Executes
  <2>4. Gate!Filed(<<>>) = {} /\ Gate!Pending(<<>>) = {}
    BY <2>2 DEF Gate!Filed, Gate!Pending
  <2>5. Sound(<<>>) /\ OnePending(<<>>) /\ \A id : Watched(<<>>, id)
    <3>1. Sound(<<>>)
      BY <2>3 DEF Sound, Untouched
    <3>2. OnePending(<<>>)
      BY <2>4 DEF OnePending
    <3>3. \A id : Watched(<<>>, id)
      BY <2>3 DEF Watched
    <3> QED BY <3>1, <3>2, <3>3
  <2>6. Gate!Filed(<<>>) = 1 .. 0 /\ 0 \in Nat
    BY <2>4
  <2>7. ASSUME chain = <<>> PROVE GateChainInv
    <3>1. \A i \in DOMAIN chain : GateEventOK(chain, i, late) /\ chain[i].ts < Gate!Clock
      BY <2>1, <2>7
    <3> QED BY <2>5, <2>6, <2>7, <3>1 DEF GateChainInv
  <2>8. ASSUME Init PROVE chain = <<>> /\ now = 0 /\ late = 0
    BY <2>8 DEF Init
  <2>9. 0 <= GateTime /\ 0 <= GateLength /\ 0 \in 0 .. MaxLate /\ 0 \in Nat
    BY GateAssumption, LateAssumption
  <2> QED BY <2>1, <2>7, <2>8, <2>9 DEF GateInv
<1>2. GateInv /\ [Next]_vars => GateInv'
  <2> SUFFICES ASSUME GateInv, [Next]_vars PROVE GateInv'
    OBVIOUS
  <2>1. subject' = subject
    BY StepWrites
  <2>2. CASE chain' = chain /\ late' = late /\ (now' = now \/ OtherDay)
    <3>1. now' \in Nat
      BY <2>2 DEF GateInv, OtherDay
    <3>2. ASSUME subject = "gate" 
          PROVE  /\ now' <= GateTime /\ Gate!Clock <= Gate!Clock'
                 /\ Gate!Clock \in Nat /\ Gate!Clock' \in Nat
      <4>1. now' \in Nat /\ now \in Nat /\ now <= GateTime /\ (now' = now \/ now' = now + 1)
              /\ (now' = now \/ now < GateTime)
        BY <2>2, <3>1, <3>2 DEF OtherDay, GateInv
      <4>2. Gate!Clock' = now' * Gate!Day + Len(chain)
        BY <2>2 DEF Gate!Clock, Gate!Day
      <4>3. Gate!Day \in Nat \ {0} /\ Gate!Clock = now * Gate!Day + Len(chain) /\ Len(chain) \in Nat
        BY GateClockIs, ChainIs DEF GateInv
      <4>4. (now + 1) * Gate!Day = now * Gate!Day + Gate!Day /\ now * Gate!Day \in Nat
        <5> DEFINE D == Gate!Day
        <5>1. D \in Nat
          BY <4>3
        <5> HIDE DEF D
        <5>2. (now + 1) * D = now * D + D /\ now * D \in Nat
          BY <4>1, <5>1
        <5> QED BY <5>2 DEF D
      <4>5. Gate!Clock' = Gate!Clock \/ Gate!Clock' = Gate!Clock + Gate!Day
        <5> DEFINE D == Gate!Day
                   l == Len(chain)
                   days == now * D
        <5>1. CASE now' = now
          BY <4>2, <4>3, <5>1
        <5>2. CASE now' = now + 1
          <6>1. D \in Nat /\ l \in Nat /\ days \in Nat
            BY <4>3, <4>4
          <6>2. Gate!Clock' = (days + D) + l /\ Gate!Clock = days + l
            BY <4>2, <4>3, <4>4, <5>2
          <6> HIDE DEF D, l, days
          <6>3. Gate!Clock' = Gate!Clock + D
            BY <6>1, <6>2
          <6> QED BY <6>3 DEF D
        <5> QED BY <4>1, <5>1, <5>2
      <4>6. Gate!Clock \in Nat
        BY GateClockIs
      <4> QED BY <4>1, <4>3, <4>5, <4>6, GateAssumption
    <3>3. ASSUME subject = "gate" PROVE GateChainInv'
      <4>1. \A i \in DOMAIN chain : GateEventOK(chain, i, late) /\ chain[i].ts < Gate!Clock'
        <5>1. ASSUME NEW i \in DOMAIN chain
              PROVE  GateEventOK(chain, i, late) /\ chain[i].ts \in Nat /\ chain[i].ts < Gate!Clock
          BY <3>3 DEF GateInv, GateChainInv, GateEventOK
        <5>2. Gate!Clock \in Nat /\ Gate!Clock' \in Nat /\ Gate!Clock <= Gate!Clock'
          BY <3>2, <3>3
        <5> QED BY <5>1, <5>2
      <4>2. GateChainInv
        BY <3>3 DEF GateInv
      <4> QED BY <2>2, <4>1, <4>2 DEF GateChainInv, Before
    <3> QED BY <2>1, <2>2, <3>1, <3>2, <3>3 DEF GateInv
  <2>3. CASE \E e : Written(e)
    <3>1. PICK e : Written(e)
      BY <2>3
    <3>2. CASE subject = "gate"
      BY <2>1, <3>1, <3>2, GateWritten
    <3>3. CASE subject # "gate"
      <4>1. PICK v \in Market!Views : ByMarket(e, v) /\ LateBy(v)
        BY <3>1, <3>3 DEF Written
      <4>2. e.type \in MarketKinds
        BY <4>1 DEF ByMarket, MarketKinds
      <4>3. IsChain(chain') /\ Longer(chain, chain', e)
        BY <3>1, EventJoins DEF Written, GateInv
      <4>4. \A i \in DOMAIN chain' : chain'[i].type \in MarketKinds
        BY <3>3, <4>2, <4>3 DEF Longer, GateInv
      <4>5. late' \in 0 .. MaxLate
        BY <4>1, LateAssumption DEF LateBy, Market!Views, GateInv
      <4>6. now' \in Nat
        BY <3>1 DEF Written, GateInv
      <4> QED BY <2>1, <3>3, <4>3, <4>4, <4>5, <4>6 DEF GateInv
    <3> QED BY <3>2, <3>3
  <2> QED BY <2>2, <2>3, StepWrites
<1> QED BY <1>1, <1>2, PTL DEF Spec

------------------------------------------------------------------------------
(* How a shutdown comes to its end *)

\* Nothing else writes about gates.
LEMMA NoGateEvents ==
  ASSUME GateInv, subject # "gate"
  PROVE  /\ Gate!At(chain, "execute") = {} /\ Gate!Filed(chain) = {}
         /\ ~ Gate!IsShutDown(chain) /\ \A id : Executes(chain, id) = {}
<1>1. Gate!At(chain, "execute") = {} /\ Gate!At(chain, "file") = {}
  BY DEF GateInv, MarketKinds, Gate!At
<1> QED BY <1>1 DEF Gate!Filed, Gate!IsShutDown, Executes

\* What the invariant says of an execution.
LEMMA ExecutedOf ==
  ASSUME GateInv, NEW i \in Gate!At(chain, "execute")
  PROVE  /\ i \in 1 .. Len(chain) /\ Len(chain) \in Nat /\ i \in Executes(chain, chain[i].id)
         /\ subject = "gate" /\ late \in Nat
         /\ KnowsPetition(chain, i) /\ Paid(chain, i, late)
         /\ chain[i].id \in Gate!Filed(chain)
<1>1. subject = "gate"
  BY NoGateEvents
<1>2. DOMAIN chain = 1 .. Len(chain) /\ Len(chain) \in Nat /\ late \in Nat
  BY ChainIs DEF GateInv
<1>3. i \in 1 .. Len(chain) /\ chain[i].type = "execute" /\ i \in Executes(chain, chain[i].id)
  BY <1>2 DEF Gate!At, Executes
<1>4. KnowsPetition(chain, i) /\ Paid(chain, i, late)
  BY <1>1, <1>3, GateTimed DEF GateEventOK
<1>5. PICK k \in 1 .. i - 1 : chain[k].type = "file" /\ chain[k].id = chain[i].id
  BY <1>4 DEF KnowsPetition
<1>6. k \in Gate!At(chain, "file")
  BY <1>2, <1>3, <1>5 DEF Gate!At
<1>7. chain[i].id \in Gate!Filed(chain)
  BY <1>5, <1>6 DEF Gate!Filed
<1> QED BY <1>1, <1>2, <1>3, <1>4, <1>7

------------------------------------------------------------------------------
(* Shut is shut *)

\* Whatever is written, a gate that is shut down stays shut and is empty.
LEMMA ShutStep ==
  ASSUME GateInv, NEW e, Written(e), Gate!IsShutDown(chain)
  PROVE  Gate!IsShutDown(chain') /\ Gate!MemberSet(chain') = {}
<1>1. IsChain(chain') /\ Longer(chain, chain', e)
  BY EventJoins DEF Written, GateInv
<1>2. Gate!IsShutDown(chain')
  BY <1>1, ShutGrows
<1> QED BY <1>1, <1>2, ShutIsEmpty

\* appeal.py: when appeals end before the delay does, nobody appeals against an
\* executed petition but who has missed an earlier appeal: the time for it is over.
LEMMA NoLateAppeal ==
  ASSUME AppealDays <= DelayDays, GateInv, subject = "gate", NEW v \in Gate!Views,
         NEW id, Gate!MayAppeal(v, Gate!Clock, id), Gate!Petition(chain, id).status = "executed"
  PROVE  FALSE
<1> DEFINE n == Len(chain)
<1>1. IsChain(chain) /\ n \in Nat /\ DOMAIN chain = 1 .. n /\ Gate!Clock \in Nat
  BY ChainIs, GateClockIs DEF GateInv
<1>2. IsChain(v) /\ Begins(v, chain) /\ Len(v) \in Nat /\ Len(v) >= n - 1
  <2>1. IsChain(v) /\ Begins(v, chain) /\ (Len(v) = n \/ Len(v) = n - 1)
    BY GateSeen
  <2>2. Len(v) \in Nat
    BY <2>1 DEF Begins
  <2> HIDE DEF n
  <2> QED BY <1>1, <2>1, <2>2
<1>3. PICK x \in Executes(chain, id) : TRUE
  BY DEF GateInv, GateChainInv, Sound
<1>4. x \in 1 .. n /\ x \in Gate!At(chain, "execute") /\ chain[x].id = id
  BY <1>1, <1>3 DEF Executes, Gate!At
<1>5. Paid(chain, x, late)
  BY <1>4, ExecutedOf
<1>6. PICK k \in 0 .. x - 1 : Gate!Waited(SubSeq(chain, 1, k), id, chain[x].ts)
  BY <1>4, <1>5 DEF Paid
<1> DEFINE w == SubSeq(chain, 1, k)
<1>7. IsChain(w) /\ Begins(w, chain) /\ Len(w) = k /\ k \in 0 .. n /\ k <= Len(v)
  <2>1. k \in 0 .. n /\ k <= Len(v)
    BY <1>1, <1>2, <1>4, <1>6
  <2> HIDE DEF n
  <2> QED BY <1>1, <2>1, BeginningOf DEF n
<1> HIDE DEF w, n
<1>8. Begins(w, v)
  BY <1>1, <1>2, <1>7 DEF Begins
<1> DEFINE delay == DelayDays * Gate!Day
           window == AppealDays * Gate!Day
<1>9. /\ Gate!PassedVotes(w, id) # {}
      /\ chain[x].ts - Gate!PassedAt(w, id) >= delay
  BY <1>6, Zenon DEF Gate!Waited, w
<1>10. Gate!PassedAt(v, id) = Gate!PassedAt(w, id)
  BY <1>2, <1>7, <1>8, <1>9, PassedStays
<1>11. Gate!Clock <= Gate!PassedAt(v, id) + window
  BY DEF Gate!MayAppeal
<1>12. delay \in Nat /\ window \in Nat /\ window <= delay
  BY DaysAre
<1>13. chain[x].ts \in Nat /\ chain[x].ts < Gate!Clock
  BY <1>4, GateTimed DEF Timed, n
<1>14. Gate!PassedAt(w, id) \in Nat
  <2>1. PICK j \in 1 .. Len(w) : Gate!PassedAt(w, id) = w[j].ts
    BY <1>7, <1>9, PassedIs
  <2>2. w[j] = chain[j] /\ j \in 1 .. n
    BY <1>1, <1>7, <2>1 DEF Begins
  <2> QED BY <2>1, <2>2, GateTimed DEF Timed, n
<1>15. ASSUME NEW a \in Nat, NEW f \in Nat, NEW t \in Nat, NEW d \in Nat, NEW y \in Nat,
               a - f >= d, y <= d, t <= f + y, a < t
       PROVE  FALSE
  BY <1>15
<1> HIDE DEF delay, window
<1> QED BY <1>1, <1>9, <1>10, <1>11, <1>12, <1>13, <1>14, <1>15

\* shutdown.py, appeal.py: nothing but an execution moves what is executed.
LEMMA ExecutedStep ==
  ASSUME AppealDays <= DelayDays, GateInv, NEW e, Written(e), late' <= 1,
         NEW id \in Gate!Filed(chain), Gate!Petition(chain, id).status = "executed"
  PROVE  Gate!Petition(chain', id).status = "executed"
<1>1. subject = "gate"
  BY NoGateEvents
<1>2. PICK v \in Gate!Views : ByGate(e, v) /\ LateBy(v)
  BY <1>1 DEF Written
<1>3. IsChain(chain) /\ IsChain(chain') /\ Longer(chain, chain', e)
  BY EventJoins DEF Written, GateInv
<1>4. /\ e.type \notin {"vote", "appeal", "resolve", "execute"} \/ e.id # id =>
           Gate!Petition(chain', id) = Gate!Petition(chain, id)
      /\ e.id = id /\ e.type = "execute" => Gate!Petition(chain', id).status = "executed"
  BY <1>3, PetitionMoves
<1>5. Gate!Petition(v, id).status \in {"executing", "executed"}
  <2>1. CASE v = chain
    BY <2>1
  <2>2. CASE v # chain
    <3>1. late = 0 /\ chain # <<>> /\ v = Before
      BY <1>1, <1>2, <2>2, GateSeen DEF LateBy, GateInv
    <3> QED BY <1>1, <3>1 DEF GateInv, GateChainInv
  <2> QED BY <2>1, <2>2
<1>6. ASSUME e.id = id PROVE e.type \notin {"vote", "resolve"}
  BY <1>2, <1>5, <1>6 DEF ByGate
<1>7. ASSUME e.id = id PROVE e.type # "appeal"
  <2> SUFFICES ASSUME e.type = "appeal" PROVE FALSE
    OBVIOUS
  <2>1. Gate!MayAppeal(v, Gate!Clock, id)
    BY <1>2, <1>7 DEF ByGate
  <2> QED BY <1>1, <2>1, NoLateAppeal
<1> QED BY <1>4, <1>6, <1>7

\* shutdown.py, appeal.py: what its author has seen executed, voided, or failed with no
\* vote to the contrary, an event does not move.
LEMMA PetitionSettledStep ==
  ASSUME AppealDays <= DelayDays, GateInv, NEW e, Written(e), NEW id \in Gate!Filed(chain),
         Gate!Settled(chain, id),
         Gate!Petition(Before, id).status = Gate!Petition(chain, id).status
  PROVE  Gate!Petition(chain', id).status = Gate!Petition(chain, id).status
<1> DEFINE status == Gate!Petition(chain, id).status
<1>1. subject = "gate"
  BY NoGateEvents
<1>2. PICK v \in Gate!Views : ByGate(e, v) /\ LateBy(v)
  BY <1>1 DEF Written
<1>3. IsChain(chain) /\ IsChain(chain') /\ Longer(chain, chain', e)
  BY EventJoins DEF Written, GateInv
<1>4. Gate!Petition(v, id).status = status /\ Sound(v) /\ Begins(v, chain)
  BY <1>1, GateSeen
<1>5. /\ status \in {"executed", "voided_appeal", "failed"}
      /\ status = "failed" => Gate!PassedVotes(chain, id) = {}
  BY DEF Gate!Settled
<1>6. ASSUME e.id = id PROVE e.type \notin {"vote", "resolve", "execute"}
  BY <1>2, <1>4, <1>5, <1>6 DEF ByGate
<1>7. ASSUME e.id = id, e.type = "appeal" PROVE FALSE
  <2>1. Gate!MayAppeal(v, Gate!Clock, id)
    BY <1>2, <1>7 DEF ByGate
  <2>2. Gate!Appeals(v, id) = {} /\ Gate!PassedVotes(v, id) # {}
    BY <2>1 DEF Gate!MayAppeal
  <2>3. Gate!PassedVotes(v, id) \in SUBSET Gate!PassedVotes(chain, id)
    BY <1>3, <1>4, BegunWith
  <2>4. status # "voided_appeal"
    BY <1>4, <2>2 DEF Sound
  <2>5. status # "executed"
    BY <1>1, <2>1, NoLateAppeal
  <2> QED BY <1>5, <2>2, <2>3, <2>4, <2>5
<1>8. e.type \notin {"vote", "appeal", "resolve", "execute"} \/ e.id # id
  BY <1>6, <1>7
<1> QED BY <1>3, <1>8, PetitionMoves

------------------------------------------------------------------------------
(* How a shutdown comes to its end *)

\* With at most one late event, and when appeals end before the delay does, a gate
\* that is shut has a petition that is executed.
HasExecuted ==
  AppealDays <= DelayDays /\ late <= 1 /\ Gate!IsShutDown(chain) =>
    \E id \in Gate!Filed(chain) : Gate!Petition(chain, id).status = "executed"

LEMMA ExecutedInvariance == Spec => []HasExecuted
<1>1. Init => HasExecuted
  <2> SUFFICES ASSUME Init PROVE ~ Gate!IsShutDown(chain)
    BY DEF HasExecuted
  <2>1. chain = <<>> /\ DOMAIN <<>> = {}
    BY DEF Init
  <2> QED BY <2>1 DEF Gate!IsShutDown, Gate!At
<1>2. GateInv /\ GateInv' /\ HasExecuted /\ [Next]_vars => HasExecuted'
  <2> SUFFICES ASSUME GateInv, GateInv', HasExecuted, [Next]_vars,
                      AppealDays <= DelayDays, late' <= 1, Gate!IsShutDown(chain')
               PROVE  \E id \in Gate!Filed(chain') : Gate!Petition(chain', id).status = "executed"
    BY DEF HasExecuted
  <2>1. CASE chain' = chain /\ late' = late
    BY <2>1 DEF HasExecuted
  <2>2. CASE \E e : Written(e)
    <3>1. PICK e : Written(e)
      BY <2>2
    <3>2. IsChain(chain) /\ IsChain(chain') /\ Longer(chain, chain', e)
      BY <3>1, EventJoins DEF Written, GateInv
    <3>3. late <= 1
      <4>1. late \in Nat /\ (late' = late \/ late' = late + 1)
        BY <3>1 DEF Written, LateBy, GateInv
      <4> QED BY <4>1
    <3>4. Gate!Filed(chain) \in SUBSET Gate!Filed(chain')
      BY <3>2, FiledGrows
    <3>5. CASE Gate!IsShutDown(chain)
      <4>1. PICK id \in Gate!Filed(chain) : Gate!Petition(chain, id).status = "executed"
        BY <3>3, <3>5 DEF HasExecuted
      <4>2. Gate!Petition(chain', id).status = "executed"
        BY <3>1, <4>1, ExecutedStep
      <4> QED BY <3>4, <4>1, <4>2
    <3>6. CASE ~ Gate!IsShutDown(chain)
      <4>1. e.type = "execute"
        BY <3>2, <3>6, ShutGrows
      <4>2. Gate!Petition(chain', e.id).status = "executed"
        BY <3>2, <4>1, PetitionMoves
      <4>3. subject = "gate"
        BY <3>1, <4>1 DEF Written, ByMarket
      <4>4. PICK v \in Gate!Views : ByGate(e, v)
        BY <3>1, <4>3 DEF Written
      <4>5. PICK k \in 1 .. Len(chain) : chain[k].type = "file" /\ chain[k].id = e.id
        BY <4>1, <4>3, <4>4, ExecutedWhenPaid
      <4>6. k \in Gate!At(chain, "file")
        BY <3>2, <4>5, ChainIs DEF Gate!At
      <4>7. e.id \in Gate!Filed(chain)
        BY <4>5, <4>6 DEF Gate!Filed
      <4> QED BY <3>4, <4>2, <4>7
    <3> QED BY <3>5, <3>6
  <2> QED BY <2>1, <2>2, StepWrites
<1> QED BY <1>1, <1>2, GateInvariance, PTL DEF Spec

\* suspend.py, shutdown.py, appeal.py: a gate is shut down after a petition that was
\* filed in a suspension that nobody had lifted, but for an event that crossed the
\* filing, and after the whole delay, the time under appeal not counted, by what was
\* on the chain before, but for its last event when events are late.  A gate with an
\* executed petition is shut; one that is shut has such a petition unless an appeal
\* could come after the delay or several events are late, and when none is late no
\* petition against it is pending.
THEOREM ShutdownsAreDue == Spec => []ShutdownIsDue
<1>1. ASSUME GateInv PROVE Gate!ShutWasSuspended
  <2> SUFFICES ASSUME NEW i \in Gate!At(chain, "execute")
               PROVE  \E j \in Gate!At(chain, "file"), k \in Gate!At(chain, "suspend") :
                        /\ chain[j].id = chain[i].id /\ k < j /\ j < i
                        /\ chain[j].ts < chain[k].ts + SuspendDays * Gate!Day
                        /\ \A u \in Gate!At(chain, "unsuspend") :
                             k < u /\ u < j => late > 0 /\ u = j - 1
    BY DEF Gate!ShutWasSuspended
  <2>1. /\ i \in 1 .. Len(chain) /\ Len(chain) \in Nat /\ subject = "gate"
        /\ KnowsPetition(chain, i) /\ DOMAIN chain = 1 .. Len(chain)
    BY <1>1, ExecutedOf, ChainIs DEF GateInv
  <2>2. PICK j \in 1 .. i - 1 : chain[j].type = "file" /\ chain[j].id = chain[i].id
    BY <2>1 DEF KnowsPetition
  <2>3. j \in 1 .. Len(chain) /\ j < i /\ j \in Gate!At(chain, "file")
    BY <2>1, <2>2 DEF Gate!At
  <2>4. Suspended(chain, j, late)
    BY <1>1, <2>1, <2>2, <2>3, GateTimed DEF GateEventOK
  <2>5. PICK k \in 1 .. j - 1 :
          /\ chain[k].type = "suspend" /\ chain[j].ts < chain[k].ts + SuspendDays * Gate!Day
          /\ \A u \in k + 1 .. j - 1 : chain[u].type = "unsuspend" => late > 0 /\ u = j - 1
    BY <2>4 DEF Suspended
  <2>6. k < j /\ k \in Gate!At(chain, "suspend")
    BY <2>1, <2>3, <2>5 DEF Gate!At
  <2>7. ASSUME NEW u \in Gate!At(chain, "unsuspend"), k < u, u < j PROVE late > 0 /\ u = j - 1
    <3>1. u \in k + 1 .. j - 1 /\ chain[u].type = "unsuspend"
      BY <2>1, <2>3, <2>5, <2>7 DEF Gate!At
    <3> QED BY <2>5, <3>1
  <2> QED BY <2>2, <2>3, <2>5, <2>6, <2>7
<1>2. ASSUME GateInv PROVE Gate!FullDelay
  <2> SUFFICES ASSUME NEW i \in Gate!At(chain, "execute")
               PROVE  \E missed \in Missing(late) :
                        Gate!Waited(SubSeq(chain, 1, i - 1 - missed), chain[i].id, chain[i].ts)
    BY DEF Gate!FullDelay, Missing
  <2>1. Paid(chain, i, late) /\ i \in Nat
    BY <1>2, ExecutedOf
  <2>2. PICK k \in 0 .. i - 1 :
          i - 1 - k \in Missing(late) /\ Gate!Waited(SubSeq(chain, 1, k), chain[i].id, chain[i].ts)
    BY <2>1 DEF Paid
  <2>3. i - 1 - (i - 1 - k) = k
    BY <2>1, <2>2
  <2> QED BY <2>2, <2>3
<1>3. ASSUME GateInv, HasExecuted PROVE Gate!ViewsAgree
  <2> DEFINE done == {id \in Gate!Filed(chain) : Gate!Petition(chain, id).status = "executed"}
  <2>1. ASSUME done # {} PROVE Gate!IsShutDown(chain)
    <3>1. PICK id \in Gate!Filed(chain) : Gate!Petition(chain, id).status = "executed"
      BY <2>1
    <3>2. Sound(chain)
      BY <1>3, <3>1, NoGateEvents DEF GateInv, GateChainInv
    <3>3. Executes(chain, id) # {}
      BY <3>1, <3>2 DEF Sound
    <3> QED BY <3>3, ExecutedIsShut
  <2>2. ASSUME Gate!IsShutDown(chain), late = 0 PROVE done # {} /\ Gate!Pending(chain) = {}
    <3>1. PICK i \in Gate!At(chain, "execute") : TRUE
      BY <2>2 DEF Gate!IsShutDown
    <3>2. /\ subject = "gate" /\ i \in Executes(chain, chain[i].id)
          /\ chain[i].id \in Gate!Filed(chain)
      BY <1>3, ExecutedOf
    <3>3. Watched(chain, chain[i].id) /\ OnePending(chain)
      BY <1>3, <2>2, <3>2 DEF GateInv, GateChainInv
    <3>4. Gate!Petition(chain, chain[i].id).status = "executed"
      BY <3>2, <3>3, WatchedIs
    <3> QED BY <2>2, <3>2, <3>3, <3>4 DEF OnePending
  <2>3. ASSUME Gate!IsShutDown(chain), late = 1, AppealDays <= DelayDays PROVE done # {}
    BY <1>3, <2>3 DEF HasExecuted
  <2> QED BY <2>1, <2>2, <2>3 DEF Gate!ViewsAgree
<1>4. GateInv /\ HasExecuted => ShutdownIsDue
  BY <1>1, <1>2, <1>3 DEF ShutdownIsDue, Gate!ShutdownIsDue
<1> QED BY <1>4, GateInvariance, ExecutedInvariance, PTL

\* sacrifice.py, shutdown.py, appeal.py: a gate that is shut down is left by
\* everybody and stays so; when appeals are over before the execution is due, an
\* executed petition stays executed whatever one late event has missed, and what the
\* author of an event has seen settled the event leaves as it is.
THEOREM ShutsForGood == ASSUME AppealDays <= DelayDays PROVE Spec => ShutForGood
<1>1. GateInv /\ [Next]_vars =>
        [Gate!IsShutDown(chain)
           => Gate!IsShutDown(chain') /\ Gate!MemberSet(chain') = {}]_(Gate!gateVars)
  <2> SUFFICES ASSUME GateInv, [Next]_vars, Gate!IsShutDown(chain)
               PROVE  Gate!IsShutDown(chain') /\ Gate!MemberSet(chain') = {}
    OBVIOUS
  <2>1. CASE chain' = chain
    BY <2>1, ShutIsEmpty DEF GateInv
  <2>2. CASE \E e : Written(e)
    BY <2>2, ShutStep
  <2> QED BY <2>1, <2>2, StepWrites
<1>2. GateInv /\ [Next]_vars =>
        [late' <= 1 => \A id \in Gate!Filed(chain) : Gate!Petition(chain, id).status = "executed"
           => Gate!Petition(chain', id).status = "executed"]_(Gate!gateVars)
  <2> SUFFICES ASSUME GateInv, [Next]_vars, late' <= 1, NEW id \in Gate!Filed(chain),
                      Gate!Petition(chain, id).status = "executed"
               PROVE  Gate!Petition(chain', id).status = "executed"
    OBVIOUS
  <2>1. CASE chain' = chain
    BY <2>1
  <2>2. CASE \E e : Written(e)
    BY <2>2, ExecutedStep
  <2> QED BY <2>1, <2>2, StepWrites
<1>3. GateInv /\ [Next]_vars =>
        [\A id \in Gate!Filed(chain) :
           Gate!Settled(chain, id)
           /\ Gate!Petition(Gate!Front(chain), id).status = Gate!Petition(chain, id).status
             => Gate!Petition(chain', id).status = Gate!Petition(chain, id).status]_(Gate!gateVars)
  <2> SUFFICES ASSUME GateInv, [Next]_vars, NEW id \in Gate!Filed(chain), Gate!Settled(chain, id),
                      Gate!Petition(Gate!Front(chain), id).status = Gate!Petition(chain, id).status
               PROVE  Gate!Petition(chain', id).status = Gate!Petition(chain, id).status
    OBVIOUS
  <2>1. CASE chain' = chain
    BY <2>1
  <2>2. CASE \E e : Written(e)
    BY <2>2, PetitionSettledStep DEF Before
  <2> QED BY <2>1, <2>2, StepWrites
<1> QED BY <1>1, <1>2, <1>3, GateInvariance, PTL
     DEF Spec, ShutForGood, Gate!ShutForGood, Gate!ShutStays, Gate!ExecutedForGood,
         Gate!SettledForGood

------------------------------------------------------------------------------
(* Types *)

\* What a set of gains comes to.
LEMMA GainsTotal ==
  ASSUME NEW G, IsFiniteSet(G), \A g \in G : g.gain \in Int
  PROVE  \E h : AddsInts([x \in G |-> x.gain], h, G) /\ \A T \in SUBSET G : Market!Total(T) = h[T]
<1> DEFINE f == [x \in G |-> x.gain]
<1>1. PICK h : Sums(f, h, G)
  BY SumsExist
<1>2. AddsInts(f, h, G)
  <2>1. \A x \in G : f[x] \in Int
    OBVIOUS
  <2> HIDE DEF f
  <2> QED BY <1>1, <2>1, SumsAddInts
<1>3. ASSUME NEW T \in SUBSET G PROVE Market!Total(T) = h[T]
  <2> DEFINE Is(k) == k = [s \in SUBSET T |->
                             IF s = {} THEN 0
                             ELSE k[s \ {CHOOSE y \in s : TRUE}] + (CHOOSE y \in s : TRUE).gain]
             c == CHOOSE k : Is(k)
  <2>1. Market!Total(T) = c[T]
    BY DEF Market!Total, Market!FoldSet, Market!MapThenFoldSet
  <2>2. Is([s \in SUBSET T |-> h[s]])
    <3> DEFINE k == [s \in SUBSET T |-> h[s]]
    <3>1. ASSUME NEW s \in SUBSET T
          PROVE  h[s] = IF s = {} THEN 0
                        ELSE h[s \ {CHOOSE y \in s : TRUE}] + (CHOOSE y \in s : TRUE).gain
      <4>1. CASE s = {}
        BY <1>2, <4>1 DEF AddsInts
      <4>2. CASE s # {}
        <5>1. PICK y : y = (CHOOSE z \in s : TRUE) /\ y \in s
          BY <4>2
        <5>2. y \in G /\ h[s] = f[y] + h[s \ {y}] /\ h[s \ {y}] \in Int
          BY <1>2, <5>1 DEF AddsInts
        <5>3. f[y] = y.gain /\ y.gain \in Int
          BY <5>2
        <5>4. h[s] = h[s \ {y}] + y.gain
          BY <5>2, <5>3
        <5> QED BY <4>2, <5>1, <5>4
      <4> QED BY <4>1, <4>2
    <3> QED BY <3>1
  <2>3. Is(c)
    <3> HIDE DEF Is
    <3> QED BY <2>2
  <2> HIDE DEF c
  <2> DEFINE D == {R \in SUBSET T : c[R] = h[R]}
  <2>4. ASSUME NEW R \in SUBSET T, \A x \in R : R \ {x} \in D PROVE R \in D
    <3>1. CASE R = {}
      BY <1>2, <2>3, <3>1 DEF AddsInts
    <3>2. CASE R # {}
      <4>1. PICK x : x = (CHOOSE y \in R : TRUE) /\ x \in R
        BY <3>2
      <4>2. c[R] = c[R \ {x}] + x.gain
        BY <2>3, <3>2, <4>1
      <4>3. x \in G /\ h[R] = f[x] + h[R \ {x}] /\ h[R \ {x}] \in Int
        BY <1>2, <4>1 DEF AddsInts
      <4>4. f[x] = x.gain /\ x.gain \in Int /\ c[R \ {x}] = h[R \ {x}]
        BY <2>4, <4>1, <4>3
      <4> QED BY <4>2, <4>3, <4>4
    <3> QED BY <3>1, <3>2
  <2>5. \A R \in SUBSET T : R \in D
    <3>1. IsFiniteSet(T)
      BY FS_Subset
    <3> HIDE DEF D
    <3> QED BY <2>4, <3>1, PartByPart
  <2> QED BY <2>1, <2>5
<1> QED BY <1>2, <1>3

\* Losses only take away.
LEMMA GainsOnly ==
  ASSUME NEW G, IsFiniteSet(G), \A g \in G : g.gain \in Int
  PROVE  /\ Market!Total(G) \in Int /\ Market!Total({g \in G : g.gain >= 0}) \in Nat
         /\ Market!Total(G) <= Market!Total({g \in G : g.gain >= 0})
<1> DEFINE f == [x \in G |-> x.gain]
           P == {g \in G : g.gain >= 0}
<1>1. PICK h : AddsInts(f, h, G) /\ \A T \in SUBSET G : Market!Total(T) = h[T]
  BY GainsTotal
<1>2. \A x \in G : f[x] \in Int /\ (x \in P <=> f[x] >= 0)
  OBVIOUS
<1>3. P \in SUBSET G
  OBVIOUS
<1> HIDE DEF f, P
<1> DEFINE D == {T \in SUBSET G : h[T] <= h[T \intersect P] /\ h[T \intersect P] >= 0}
<1>4. ASSUME NEW T \in SUBSET G, \A x \in T : T \ {x} \in D PROVE T \in D
  <2>1. CASE T = {}
    <3>1. T \intersect P = {} /\ h[{}] = 0
      BY <1>1, <2>1 DEF AddsInts
    <3> QED BY <2>1, <3>1
  <2>2. CASE T # {}
    <3>1. PICK x \in T : TRUE
      BY <2>2
    <3> DEFINE R == T \ {x}
               Q == R \intersect P
    <3>2. h[T] = f[x] + h[R] /\ h[R] \in Int /\ h[Q] \in Int /\ h[R] <= h[Q] /\ h[Q] >= 0
      BY <1>1, <1>3, <1>4, <3>1 DEF AddsInts
    <3>3. CASE x \in P
      <4>1. T \intersect P \in SUBSET G /\ x \in T \intersect P /\ (T \intersect P) \ {x} = Q
        BY <3>3
      <4>2. h[T \intersect P] = f[x] + h[Q]
        <5> HIDE DEF Q
        <5> QED BY <1>1, <4>1 DEF AddsInts
      <4> HIDE DEF R, Q
      <4>3. f[x] \in Int /\ f[x] >= 0
        BY <1>2, <3>1, <3>3
      <4> QED BY <3>2, <4>2, <4>3
    <3>4. CASE x \notin P
      <4>1. T \intersect P = Q
        BY <3>4
      <4> HIDE DEF R, Q
      <4>2. f[x] \in Int /\ ~ (f[x] >= 0)
        BY <1>2, <3>1, <3>4
      <4>3. h[T] <= h[Q] /\ h[Q] >= 0
        BY <3>2, <4>2
      <4> QED BY <4>1, <4>3
    <3> QED BY <3>3, <3>4
  <2> QED BY <2>1, <2>2
<1>5. \A T \in SUBSET G : T \in D
  <2> HIDE DEF D
  <2> QED BY <1>4, PartByPart
<1>6. G \intersect P = P
  BY <1>3
<1>7. h[G] \in Int /\ h[P] \in Int /\ h[G] <= h[P] /\ h[P] >= 0
  BY <1>1, <1>3, <1>5, <1>6 DEF AddsInts
<1> QED BY <1>1, <1>3, <1>7 DEF P

\* The gains of a node are finitely many integers.
LEMMA GainsAreInts ==
  ASSUME MarketInv, NEW n
  PROVE  /\ IsFiniteSet(Market!Gains(chain, n))
         /\ \A g \in Market!Gains(chain, n) : g.gain \in Int
<1> DEFINE B == {o \in Market!Bets(chain) : o.node = n}
           outcome == Market!EffectiveEnd(chain)
           entry(b) == [bet |-> b, gain |-> Market!Gain(chain, b, outcome)]
           G == {entry(b) : b \in B}
           f == [b \in B |-> entry(b)]
<1>1. B \in SUBSET Market!Bets(chain)
  OBVIOUS
<1>2. IsFiniteSet(B)
  <2> HIDE DEF B
  <2> QED BY <1>1, BetsAreFinite, FS_Subset
<1>3. f \in Surjection(B, G)
  <2> HIDE DEF B, entry
  <2> QED BY DEF Surjection
<1>4. IsFiniteSet(G)
  <2> HIDE DEF B, G, f
  <2> QED BY <1>2, <1>3, FS_Surjection
<1>5. ASSUME NEW g \in G PROVE g.gain \in Int
  <2>1. PICK b \in B : g = entry(b)
    BY <1>5
  <2>2. Market!Gain(chain, b, outcome) \in Int
    BY GainSign
  <2> HIDE DEF outcome, B
  <2> QED BY <2>1, <2>2
<1>6. Market!Gains(chain, n) = IF ~ Market!Mintable(chain) THEN {} ELSE G
  BY DEF Market!Gains
<1>7. IsFiniteSet({})
  BY FS_EmptySet
<1> HIDE DEF G
<1> QED BY <1>4, <1>5, <1>6, <1>7

\* oracle_rep.py: nobody's reputation is negative, or more than was ever earned.
LEMMA RepIsWithin ==
  ASSUME MarketInv, NEW n
  PROVE  0 <= Market!Rep(chain, n) /\ Market!Rep(chain, n) <= Market!Lifetime(chain, n)
<1> DEFINE G == Market!Gains(chain, n)
           t == Market!Total(G)
           l == Market!Total({g \in G : g.gain >= 0})
<1>1. IsFiniteSet(G) /\ \A g \in G : g.gain \in Int
  BY GainsAreInts
<1>2. t \in Int /\ l \in Nat /\ t <= l
  <2> HIDE DEF G
  <2> QED BY <1>1, GainsOnly
<1>3. Market!Rep(chain, n) = Market!Max({0, t}) /\ Market!Lifetime(chain, n) = l
  BY DEF Market!Rep, Market!Lifetime
<1> HIDE DEF G, t, l
<1>4. Market!Max({0, t}) = IF 0 >= t THEN 0 ELSE t
  BY <1>2, MaxOfTwo, AlikeInGates
<1> QED BY <1>2, <1>3, <1>4

\* A market's time and the length of its chain are bounded.
MarketBounds ==
  subject = "market" =>
    /\ now <= MarketTime /\ Len(chain) <= MarketLength

LEMMA MarketBounded == Spec => []MarketBounds
<1>1. Init => MarketBounds
  <2> SUFFICES ASSUME Init PROVE MarketBounds
    OBVIOUS
  <2>1. chain = <<>> /\ now = 0 /\ Len(<<>>) = 0
    BY DEF Init
  <2>2. 0 <= MarketTime /\ 0 <= MarketLength
    BY MarketAssumption, LateAssumption
  <2> QED BY <2>1, <2>2 DEF MarketBounds
<1>2. MarketInv /\ MarketBounds /\ [Next]_vars => MarketBounds'
  <2> SUFFICES ASSUME MarketInv, MarketBounds, [Next]_vars, subject = "market"
               PROVE  now' <= MarketTime /\ Len(chain') <= MarketLength
    BY StepWrites DEF MarketBounds
  <2>1. IsChain(chain) /\ now \in Nat /\ now <= MarketTime /\ Len(chain) <= MarketLength
    BY DEF MarketInv, MarketBounds
  <2>2. CASE chain' = chain /\ (now' = now \/ OtherDay)
    BY <2>1, <2>2, LateAssumption DEF OtherDay
  <2>3. CASE \E e : Written(e)
    <3>1. PICK e : Written(e)
      BY <2>3
    <3>2. Longer(chain, chain', e) /\ Len(chain) < MarketLength /\ now' = now
      BY <2>1, <3>1, EventJoins DEF Written
    <3>3. Len(chain') = Len(chain) + 1 /\ Len(chain) \in Nat
      BY <3>2 DEF Longer
    <3> QED BY <2>1, <3>2, <3>3, MarketAssumption
  <2> QED BY <2>2, <2>3, StepWrites
<1> QED BY <1>1, <1>2, MarketInvariance, PTL DEF Spec

\* A market, a resolution and a gate have their types: in particular no
\* reputation is negative or more than was ever earned (oracle_rep.py), and only
\* those may be members who may enter (sacrifice.py).
THEOREM TypeCorrect == Spec => []TypeOK
<1>1. ASSUME MarketInv, MarketBounds, GateInv, subject = "market" PROVE Market!MarketTypeOK
  <2>1. now \in 0 .. MarketTime /\ late \in 0 .. MaxLate /\ Len(chain) <= MarketLength
    BY <1>1 DEF MarketBounds, GateInv
  <2>2. \A i \in DOMAIN chain : chain[i].type \in {"bet", "snapshot", "finalize", "dispute_open",
                                                "dispute_stake", "dispute_resolve"}
    BY <1>1 DEF GateInv, MarketKinds
  <2>3. Market!Status(chain, Market!Clock) \in {"predicting", "evidence", "resolving", "final", "invalid"}
    BY StatusIs DEF Ends
  <2>4. \A n \in Bettors : 0 <= Market!Rep(chain, n) /\ Market!Rep(chain, n) <= Market!Lifetime(chain, n)
    BY <1>1, RepIsWithin
  <2> QED BY <2>1, <2>2, <2>3, <2>4 DEF Market!MarketTypeOK
<1>2. ASSUME GateInv, subject = "gate" PROVE Gate!GateTypeOK
  <2>1. now \in 0 .. GateTime /\ late \in 0 .. MaxLate /\ Len(chain) <= GateLength
    BY <1>2 DEF GateInv
  <2>2. IsChain(chain) /\ DOMAIN chain = 1 .. Len(chain) /\ Len(chain) \in Nat
    BY <1>2, ChainIs DEF GateInv
  <2>3. \A i \in 1 .. Len(chain) : GateEventOK(chain, i, late)
    BY <1>2, <2>2 DEF GateInv, GateChainInv
  <2>4. \A i \in DOMAIN chain : chain[i].type \in Gate!Social \union
          {"suspend", "unsuspend", "file", "vote", "appeal", "resolve", "execute"}
    BY <2>2, <2>3 DEF GateEventOK, GateKinds, Gate!Social
  <2>5. ASSUME NEW i \in DOMAIN chain, NEW j \in DOMAIN chain, i < j PROVE chain[i].ts < chain[j].ts
    <3>1. i \in 1 .. j - 1 /\ j \in 1 .. Len(chain)
      BY <2>2, <2>5
    <3> QED BY <2>3, <3>1 DEF GateEventOK
  <2>6. Gate!MemberSet(chain) \subseteq Members
    BY <2>2, <2>3, MembersAre DEF GateEventOK
  <2>7. Gate!Suspension(chain, Gate!Clock) \in {"active", "suspended", "shutdown"}
    BY DEF Gate!Suspension
  <2> QED BY <2>1, <2>4, <2>5, <2>6, <2>7 DEF Gate!GateTypeOK
<1>3. MarketInv /\ MarketBounds /\ GateInv /\ ResolutionTypeOK => TypeOK
  BY <1>1, <1>2 DEF TypeOK
<1> QED BY <1>3, MarketInvariance, MarketBounded, GateInvariance, ResolutionTypeCorrect, PTL
=============================================================================
