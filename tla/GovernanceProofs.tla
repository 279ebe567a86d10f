-------------------------- MODULE GovernanceProofs --------------------------
(***************************************************************************)
(* Theorems about Governance, for every value of its constants.            *)
(***************************************************************************)
EXTENDS Governance, FiniteSetTheorems, WellFoundedInduction, TLAPS

------------------------------------------------------------------------------
(* Natural numbers *)

\* What holds of zero and of a number when it holds of the one before holds up to n.
LEMMA UpTo ==
  ASSUME NEW n \in Nat, NEW T, 0 \in T, \A i \in 1 .. n : i - 1 \in T => i \in T
  PROVE  \A i \in 0 .. n : i \in T
<1> DEFINE R == OpToRel(<, Nat)
           D == {i \in 0 .. n : i \notin T}
<1>1. SUFFICES ASSUME D # {} PROVE FALSE
  OBVIOUS
<1>2. PICK x \in D : \A y \in D : ~ (<<y, x>> \in R)
  <2>1. IsWellFoundedOn(R, Nat)
    BY NatLessThanWellFounded
  <2>2. D \in SUBSET Nat
    OBVIOUS
  <2> HIDE DEF R, D
  <2> QED BY <1>1, <2>1, <2>2, WFMin
<1>3. x # 0 /\ x \in 1 .. n
  OBVIOUS
<1>4. x - 1 \in D
  BY <1>3
<1>5. <<x - 1, x>> \in R
  BY <1>3 DEF OpToRel
<1> QED BY <1>2, <1>4, <1>5

\* Every nonempty set of naturals has a least element.
LEMMA LeastNat ==
  ASSUME NEW T \in SUBSET Nat, T # {}
  PROVE  \E x \in T : \A y \in T : x <= y
<1> DEFINE R == OpToRel(<, Nat)
<1>1. PICK x \in T : \A y \in T : ~ (<<y, x>> \in R)
  <2>1. IsWellFoundedOn(R, Nat)
    BY NatLessThanWellFounded
  <2> HIDE DEF R
  <2> QED BY <2>1, WFMin
<1>2. \A y \in T : y < x => <<y, x>> \in R
  BY DEF OpToRel
<1> HIDE DEF R
<1>3. \A y \in T : ~ (y < x)
  BY <1>1, <1>2
<1> QED BY <1>3

\* Every nonempty bounded set of naturals has a greatest element.
LEMMA GreatestNat ==
  ASSUME NEW T \in SUBSET Nat, T # {}, NEW b \in Nat, \A x \in T : x <= b
  PROVE  \E x \in T : \A y \in T : y <= x
<1> DEFINE D == {y \in Nat : \E x \in T : x + y = b}
<1>1. PICK x0 \in T : TRUE
  OBVIOUS
<1>2. b - x0 \in D
  <2>1. x0 \in Nat /\ x0 <= b
    OBVIOUS
  <2> QED BY <2>1
<1>3. PICK d \in D : \A y \in D : d <= y
  <2> HIDE DEF D
  <2>1. D \in SUBSET Nat
    BY DEF D
  <2> QED BY <1>2, <2>1, LeastNat
<1>4. PICK x1 \in T : x1 + d = b
  OBVIOUS
<1>5. ASSUME NEW y \in T PROVE y <= x1
  <2>1. y \in Nat /\ x1 \in Nat /\ d \in Nat /\ y <= b
    OBVIOUS
  <2>2. b - y \in D
    BY <2>1
  <2>3. d <= b - y
    BY <1>3, <2>2
  <2> QED BY <1>4, <2>1, <2>3
<1> QED BY <1>5

------------------------------------------------------------------------------
(* Recursion over the naturals up to a bound *)

\* A step for each number, folded from a first value, is a function.
Steps(n, S) == [1 .. n -> [S -> S]]
Folded(first, step, n, S) ==
  \E f : /\ f[0] = first
         /\ \A i \in 1 .. n : f[i - 1] \in S /\ f[i] = step[i][f[i - 1]]

LEMMA Folding ==
  ASSUME NEW S, NEW first \in S, NEW n \in Nat, NEW step \in Steps(n, S)
  PROVE  Folded(first, step, n, S)
<1> DEFINE Folds(m, f) == /\ f[0] = first /\ f[m] \in S
                          /\ \A i \in 1 .. m : f[i - 1] \in S /\ f[i] = step[i][f[i - 1]]
           T == {m \in 0 .. n : \E f : Folds(m, f)}
<1>1. 0 \in T
  <2>1. Folds(0, [i \in 0 .. 0 |-> first])
    OBVIOUS
  <2> HIDE DEF Folds
  <2> QED BY <2>1
<1>2. ASSUME NEW m \in 1 .. n, m - 1 \in T PROVE m \in T
  <2>1. PICK g : Folds(m - 1, g)
    BY <1>2
  <2> DEFINE h == [i \in 0 .. m |-> IF i = m THEN step[m][g[m - 1]] ELSE g[i]]
  <2>2. h[0] = first /\ h[m] = step[m][g[m - 1]] /\ h[m] \in S
    BY <2>1 DEF Steps
  <2>3. ASSUME NEW i \in 1 .. m PROVE h[i - 1] \in S /\ h[i] = step[i][h[i - 1]]
    <3>1. i - 1 \in 0 .. m /\ i - 1 # m /\ h[i - 1] = g[i - 1]
      OBVIOUS
    <3>2. CASE i = m
      BY <2>1, <3>1, <3>2
    <3>3. CASE i # m
      <4>1. i \in 1 .. m - 1 /\ h[i] = g[i]
        BY <3>3
      <4> QED BY <2>1, <3>1, <4>1
    <3> QED BY <3>2, <3>3
  <2>5. Folds(m, h)
    <3> HIDE DEF h
    <3> QED BY <2>2, <2>3
  <2>6. m \in 0 .. n
    OBVIOUS
  <2> HIDE DEF Folds, h
  <2> QED BY <2>5, <2>6
<1>3. PICK f : Folds(n, f)
  <2>1. \A i \in 1 .. n : i - 1 \in T => i \in T
    BY <1>2
  <2> HIDE DEF T
  <2>2. \A i \in 0 .. n : i \in T
    BY <1>1, <2>1, UpTo
  <2> QED BY <2>2 DEF T
<1> QED BY <1>3 DEF Folded

------------------------------------------------------------------------------
(* Sums over finite sets *)

\* g holds the sum of f over every part of S, taken as SumFunctionOnSet takes it.
SumOver(f, g, S) ==
  \A T \in SUBSET S :
    /\ g[T] \in Nat
    /\ T = {} => g[T] = 0
    /\ T # {} => LET x == CHOOSE y \in T : TRUE IN g[T] = f[x] + g[T \ {x}]

Weighs(f, S) == \A x \in S : f[x] \in Nat

\* A part of a finite set and its elements.
LEMMA PartIs ==
  ASSUME NEW S, IsFiniteSet(S), NEW T \in SUBSET S
  PROVE  /\ IsFiniteSet(T) /\ Cardinality(T) \in Nat /\ Cardinality(T) <= Cardinality(S)
         /\ T = {} <=> Cardinality(T) = 0
         /\ \A x \in T : T \ {x} \in SUBSET S /\ Cardinality(T \ {x}) = Cardinality(T) - 1
<1>1. IsFiniteSet(T) /\ Cardinality(T) <= Cardinality(S)
  BY FS_Subset
<1>2. Cardinality(T) \in Nat
  BY <1>1, FS_CardinalityType
<1>3. T = {} <=> Cardinality(T) = 0
  BY <1>1, FS_EmptySet
<1>4. \A x \in T : Cardinality(T \ {x}) = Cardinality(T) - 1
  BY <1>1, FS_RemoveElement
<1> QED BY <1>1, <1>2, <1>3, <1>4

\* The sums up to some size of the parts, each from one smaller.
LEMMA SumExists ==
  ASSUME NEW S, IsFiniteSet(S), NEW f, Weighs(f, S)
  PROVE  \E g : SumOver(f, g, S)
<1> DEFINE Pick(T) == CHOOSE y \in T : TRUE
           Upto(m, g) == \A T \in SUBSET S : Cardinality(T) <= m =>
                            /\ g[T] \in Nat
                            /\ T = {} => g[T] = 0
                            /\ T # {} => g[T] = f[Pick(T)] + g[T \ {Pick(T)}]
           N == Cardinality(S)
           D == {m \in 0 .. N : \E g : Upto(m, g)}
<1>1. N \in Nat
  BY FS_CardinalityType
<1>2. \A T \in SUBSET S : T # {} => Pick(T) \in T
  OBVIOUS
<1> HIDE DEF Pick
<1>3. 0 \in D
  <2> DEFINE g == [T \in SUBSET S |-> 0]
  <2>1. Upto(0, g)
    BY PartIs
  <2> HIDE DEF Upto, N
  <2> QED BY <1>1, <2>1
<1>4. ASSUME NEW m \in 1 .. N, m - 1 \in D PROVE m \in D
  <2>1. PICK g : Upto(m - 1, g)
    BY <1>4
  <2> DEFINE h == [T \in SUBSET S |-> IF Cardinality(T) <= m - 1 THEN g[T]
                                      ELSE f[Pick(T)] + g[T \ {Pick(T)}]]
  <2>2. Upto(m, h)
    <3> SUFFICES ASSUME NEW T \in SUBSET S, Cardinality(T) <= m
                 PROVE  /\ h[T] \in Nat
                        /\ T = {} => h[T] = 0
                        /\ T # {} => h[T] = f[Pick(T)] + h[T \ {Pick(T)}]
      OBVIOUS
    <3>1. Cardinality(T) \in Nat /\ (T = {} <=> Cardinality(T) = 0) /\ m \in Nat /\ m >= 1
      BY PartIs
    <3>2. CASE T = {}
      <4>1. Cardinality(T) <= m - 1
        BY <3>1, <3>2
      <4>2. h[T] = g[T]
        BY <4>1
      <4>3. g[T] = 0
        BY <2>1, <3>2, <4>1
      <4> HIDE DEF h
      <4> QED BY <3>2, <4>2, <4>3
    <3>3. CASE T # {}
      <4> DEFINE R == T \ {Pick(T)}
      <4>1. /\ R \in SUBSET S /\ Cardinality(R) = Cardinality(T) - 1 /\ Cardinality(R) <= m - 1
            /\ f[Pick(T)] \in Nat
        <5>1. Pick(T) \in T
          BY <1>2, <3>3
        <5>2. R \in SUBSET S /\ Cardinality(R) = Cardinality(T) - 1
          BY <5>1, PartIs
        <5> QED BY <3>1, <5>1, <5>2 DEF Weighs
      <4>2. h[R] = g[R] /\ g[R] \in Nat
        <5> HIDE DEF R
        <5> QED BY <2>1, <4>1
      <4>3. h[T] = f[Pick(T)] + g[R]
        <5>1. CASE Cardinality(T) <= m - 1
          BY <2>1, <3>3, <5>1
        <5>2. CASE ~ (Cardinality(T) <= m - 1)
          BY <5>2
        <5> QED BY <5>1, <5>2
      <4> HIDE DEF h, R
      <4>4. h[T] \in Nat /\ h[T] = f[Pick(T)] + h[R]
        BY <4>1, <4>2, <4>3
      <4> QED BY <3>3, <4>4 DEF R
    <3> QED BY <3>2, <3>3
  <2>3. m \in 0 .. N
    OBVIOUS
  <2> HIDE DEF Upto, h, N
  <2> QED BY <2>2, <2>3
<1>5. N \in D
  <2>1. \A i \in 1 .. N : i - 1 \in D => i \in D
    BY <1>4
  <2> HIDE DEF D, N
  <2> QED BY <1>1, <1>3, <2>1, UpTo
<1>6. PICK g : Upto(N, g)
  BY <1>5
<1>7. SumOver(f, g, S)
  <2>1. \A T \in SUBSET S : Cardinality(T) <= N
    BY PartIs
  <2> QED BY <1>6, <2>1 DEF SumOver, Pick
<1> QED BY <1>7

\* SumFunctionOnSet is such a sum.
LEMMA SumIs ==
  ASSUME NEW S, IsFiniteSet(S), NEW f, Weighs(f, S)
  PROVE  \E g : SumOver(f, g, S) /\ SumFunctionOnSet(f, S) = g[S]
<1> DEFINE Is(g) == g = [s \in SUBSET S |->
                           IF s = {} THEN 0
                           ELSE f[CHOOSE y \in s : TRUE] + g[s \ {CHOOSE y \in s : TRUE}]]
           c == CHOOSE g : Is(g)
<1>1. PICK g : SumOver(f, g, S)
  BY SumExists
<1>2. Is([T \in SUBSET S |-> g[T]])
  <2> DEFINE h == [T \in SUBSET S |-> g[T]]
  <2>1. ASSUME NEW s \in SUBSET S
        PROVE  h[s] = IF s = {} THEN 0
                      ELSE f[CHOOSE y \in s : TRUE] + h[s \ {CHOOSE y \in s : TRUE}]
    BY <1>1 DEF SumOver
  <2> QED BY <2>1
<1>3. Is(c)
  <2> HIDE DEF Is
  <2> QED BY <1>2
<1>4. SumFunctionOnSet(f, S) = c[S]
  BY DEF SumFunctionOnSet, FoldFunctionOnSet, MapThenFoldSet
<1> HIDE DEF c
<1> DEFINE D == {m \in 0 .. Cardinality(S) :
                   \A T \in SUBSET S : Cardinality(T) = m => c[T] = g[T]}
<1>5. 0 \in D
  <2>1. ASSUME NEW T \in SUBSET S, Cardinality(T) = 0 PROVE c[T] = g[T]
    <3>1. T = {}
      BY <2>1, PartIs
    <3>2. c[T] = 0
      BY <1>3, <3>1
    <3>3. g[T] = 0
      BY <1>1, <3>1 DEF SumOver
    <3> QED BY <3>2, <3>3
  <2>2. Cardinality(S) \in Nat
    BY FS_CardinalityType
  <2> QED BY <2>1, <2>2
<1>6. ASSUME NEW m \in 1 .. Cardinality(S), m - 1 \in D PROVE m \in D
  <2>1. ASSUME NEW T \in SUBSET S, Cardinality(T) = m PROVE c[T] = g[T]
    <3> DEFINE x == CHOOSE y \in T : TRUE
    <3>1. T # {} /\ x \in T
      BY <2>1, PartIs
    <3>2. T \ {x} \in SUBSET S /\ Cardinality(T \ {x}) = m - 1
      BY <2>1, <3>1, PartIs
    <3>3. c[T \ {x}] = g[T \ {x}]
      BY <1>6, <3>2
    <3>4. c[T] = f[x] + c[T \ {x}]
      BY <1>3, <3>1
    <3>5. g[T] = f[x] + g[T \ {x}]
      BY <1>1, <3>1 DEF SumOver
    <3> QED BY <3>3, <3>4, <3>5
  <2> QED BY <2>1
<1>7. Cardinality(S) \in Nat /\ Cardinality(S) \in D
  <2>1. Cardinality(S) \in Nat
    BY FS_CardinalityType
  <2>2. \A i \in 1 .. Cardinality(S) : i - 1 \in D => i \in D
    BY <1>6
  <2> HIDE DEF D
  <2> QED BY <1>5, <2>1, <2>2, UpTo
<1>8. c[S] = g[S]
  BY <1>7
<1> QED BY <1>1, <1>4, <1>8

\* A sum of naturals is a natural, and nothing sums to zero.
LEMMA SumIsNat ==
  ASSUME NEW f, IsFiniteSet(DOMAIN f), Weighs(f, DOMAIN f)
  PROVE  /\ SumFunction(f) \in Nat
         /\ DOMAIN f = {} => SumFunction(f) = 0
<1>1. PICK g : SumOver(f, g, DOMAIN f) /\ SumFunctionOnSet(f, DOMAIN f) = g[DOMAIN f]
  BY SumIs
<1> QED BY <1>1 DEF SumOver, SumFunction

\* What is nowhere larger and sums to the same is the same.
LEMMA SumOrder ==
  ASSUME NEW S, IsFiniteSet(S), NEW a, NEW b, DOMAIN a = S, DOMAIN b = S,
         Weighs(a, S), Weighs(b, S), \A x \in S : a[x] <= b[x],
         SumFunction(a) = SumFunction(b)
  PROVE  \A x \in S : a[x] = b[x]
<1>1. PICK F : SumOver(a, F, S) /\ SumFunctionOnSet(a, S) = F[S]
  BY SumIs
<1>2. PICK G : SumOver(b, G, S) /\ SumFunctionOnSet(b, S) = G[S]
  BY SumIs
<1>3. F[S] = G[S]
  BY <1>1, <1>2 DEF SumFunction
<1> DEFINE Agree(T) == F[T] <= G[T] /\ (F[T] = G[T] => \A x \in T : a[x] = b[x])
           D == {m \in 0 .. Cardinality(S) :
                   \A T \in SUBSET S : Cardinality(T) = m => Agree(T)}
<1>4. 0 \in D
  <2>1. ASSUME NEW T \in SUBSET S, Cardinality(T) = 0 PROVE Agree(T)
    <3>1. T = {}
      BY <2>1, PartIs
    <3>2. F[T] = 0 /\ G[T] = 0
      BY <1>1, <1>2, <3>1 DEF SumOver
    <3> QED BY <3>1, <3>2
  <2>2. Cardinality(S) \in Nat
    BY FS_CardinalityType
  <2> HIDE DEF Agree
  <2> QED BY <2>1, <2>2
<1>5. ASSUME NEW m \in 1 .. Cardinality(S), m - 1 \in D PROVE m \in D
  <2>1. ASSUME NEW T \in SUBSET S, Cardinality(T) = m PROVE Agree(T)
    <3> DEFINE x == CHOOSE y \in T : TRUE
               R == T \ {x}
    <3>1. T # {} /\ x \in T
      BY <2>1, PartIs
    <3>2. R \in SUBSET S /\ Cardinality(R) = m - 1
      BY <2>1, <3>1, PartIs
    <3>3. Agree(R)
      <4> HIDE DEF Agree, R
      <4> QED BY <1>5, <3>2
    <3>4. F[T] = a[x] + F[R] /\ G[T] = b[x] + G[R]
      BY <1>1, <1>2, <3>1 DEF SumOver
    <3>5. F[R] \in Nat /\ G[R] \in Nat
      BY <1>1, <1>2, <3>2 DEF SumOver
    <3>6. a[x] \in Nat /\ b[x] \in Nat /\ a[x] <= b[x] /\ x \in S
      BY <3>1 DEF Weighs
    <3>7. \A y \in T : y = x \/ y \in R
      OBVIOUS
    <3> HIDE DEF R, x
    <3> QED BY <3>3, <3>4, <3>5, <3>6, <3>7
  <2> HIDE DEF Agree
  <2> QED BY <2>1
<1>6. Cardinality(S) \in Nat /\ Cardinality(S) \in D
  <2>1. Cardinality(S) \in Nat
    BY FS_CardinalityType
  <2>2. \A i \in 1 .. Cardinality(S) : i - 1 \in D => i \in D
    BY <1>5
  <2> HIDE DEF D
  <2> QED BY <1>4, <2>1, <2>2, UpTo
<1>7. Agree(S)
  <2> HIDE DEF Agree
  <2> QED BY <1>6
<1> QED BY <1>3, <1>7

------------------------------------------------------------------------------
(* Weights *)

LEMMA MaxOfNats ==
  ASSUME NEW b \in Nat, NEW T \in SUBSET (0 .. b), T # {}
  PROVE  Max(T) \in T /\ \A x \in T : x <= Max(T)
<1>1. T \in SUBSET Nat /\ \A x \in T : x <= b
  OBVIOUS
<1>2. \E x \in T : \A y \in T : y <= x
  BY <1>1, GreatestNat
<1>3. \E x \in T : \A y \in T : x >= y
  <2>1. \A x, y \in T : y <= x => x >= y
    BY <1>1
  <2> QED BY <1>2, <2>1
<1>4. Max(T) \in T /\ \A y \in T : Max(T) >= y
  BY <1>3, Zenon DEF Max
<1> QED BY <1>1, <1>4

LEMMA MaxOfTwo ==
  ASSUME NEW x \in Int
  PROVE  Max({x, 0}) = IF x >= 0 THEN x ELSE 0
<1>1. \E m \in {x, 0} : \A y \in {x, 0} : m >= y
  OBVIOUS
<1>2. Max({x, 0}) \in {x, 0} /\ \A y \in {x, 0} : Max({x, 0}) >= y
  BY <1>1, Zenon DEF Max
<1> QED BY <1>2

\* Whole decay ages: no more of them in less time.
LEMMA Quotients ==
  ASSUME NEW d \in Nat \ {0}, NEW a \in Nat, NEW b \in Nat, a <= b
  PROVE  a \div d \in Nat /\ b \div d \in Nat /\ a \div d <= b \div d
<1> DEFINE p == a \div d
           q == b \div d
<1>1. p \in Int /\ q \in Int
  OBVIOUS
<1>2. a = d * p + (a % d) /\ b = d * q + (b % d)
  OBVIOUS
<1>3. a % d \in 0 .. d - 1 /\ b % d \in 0 .. d - 1
  OBVIOUS
<1>4. p <= q
  <2> SUFFICES ASSUME ~ (p <= q) PROVE FALSE
    OBVIOUS
  <2> HIDE DEF p, q
  <2>1. p - q >= 1
    BY <1>1
  <2>2. d * (p - q) >= d
    BY <1>1, <2>1
  <2>3. d * (p - q) = d * p - d * q
    BY <1>1
  <2> QED BY <1>1, <1>2, <1>3, <2>2, <2>3
<1> QED BY <1>1, <1>2, <1>3, <1>4

LEMMA LeftIs ==
  /\ Most \in Nat
  /\ \A k \in 0 .. Most : Left[k] \in Nat
  /\ \A k \in 1 .. Most : Left[k] = 2 * Left[k - 1]
<1> DEFINE Is(g) == g = [k \in 0 .. Most |-> IF k = 0 THEN 1 ELSE 2 * g[k - 1]]
           step == [i \in 1 .. Most |-> [d \in Nat |-> 2 * d]]
<1>1. Most \in Nat
  BY WindowsAssumption, Quotients DEF Most
<1>2. step \in Steps(Most, Nat)
  <2>1. [d \in Nat |-> 2 * d] \in [Nat -> Nat]
    OBVIOUS
  <2> QED BY <2>1 DEF Steps
<1>3. \A i \in 1 .. Most : \A d \in Nat : step[i][d] = 2 * d
  OBVIOUS
<1> HIDE DEF step
<1>4. PICK f : f[0] = 1 /\ \A i \in 1 .. Most : f[i - 1] \in Nat /\ f[i] = step[i][f[i - 1]]
  <2>1. Folded(1, step, Most, Nat)
    BY <1>1, <1>2, Folding
  <2> QED BY <2>1 DEF Folded
<1>5. \A i \in 1 .. Most : f[i] = 2 * f[i - 1] /\ f[i] \in Nat
  BY <1>3, <1>4
<1>6. Is([k \in 0 .. Most |-> f[k]])
  <2> DEFINE h == [k \in 0 .. Most |-> f[k]]
  <2>1. ASSUME NEW k \in 0 .. Most PROVE h[k] = IF k = 0 THEN 1 ELSE 2 * h[k - 1]
    <3>1. CASE k = 0
      BY <1>4, <3>1
    <3>2. CASE k # 0
      <4>1. k \in 1 .. Most /\ k - 1 \in 0 .. Most
        BY <1>1, <3>2
      <4> QED BY <1>5, <3>2, <4>1
    <3> QED BY <3>1, <3>2
  <2> QED BY <2>1
<1>7. Is(CHOOSE g : Is(g))
  <2> HIDE DEF Is
  <2> QED BY <1>6
<1>8. Is(Left)
  BY <1>7 DEF Left
<1>9. Left[0] = 1 /\ \A k \in 1 .. Most : Left[k] = 2 * Left[k - 1]
  BY <1>1, <1>8
<1> HIDE DEF Is
<1> DEFINE D == {k \in 0 .. Most : Left[k] \in Nat}
<1>10. 0 \in D /\ \A i \in 1 .. Most : i - 1 \in D => i \in D
  BY <1>1, <1>9
<1>11. \A i \in 0 .. Most : i \in D
  <2> HIDE DEF D
  <2> QED BY <1>1, <1>10, UpTo
<1> QED BY <1>1, <1>9, <1>11

\* More is left after fewer halvings.
LEMMA LeftRises ==
  ASSUME NEW i \in 0 .. Most, NEW j \in 0 .. Most, i <= j
  PROVE  Left[i] <= Left[j]
<1> DEFINE D == {m \in 0 .. Most : i <= m => Left[i] <= Left[m]}
<1>1. 0 \in D
  BY LeftIs
<1>2. ASSUME NEW m \in 1 .. Most, m - 1 \in D PROVE m \in D
  <2>1. Left[m] = 2 * Left[m - 1] /\ Left[m - 1] \in Nat /\ Left[m] \in Nat /\ Left[i] \in Nat
    BY LeftIs
  <2>2. CASE i <= m - 1
    BY <1>2, <2>1, <2>2
  <2>3. CASE i = m
    BY <2>1, <2>3
  <2>4. CASE i > m
    BY <2>4
  <2> QED BY <2>2, <2>3, <2>4
<1>3. \A m \in 0 .. Most : m \in D
  <2>1. \A m \in 1 .. Most : m - 1 \in D => m \in D
    BY <1>2
  <2> HIDE DEF D
  <2> QED BY <1>1, <2>1, LeftIs, UpTo
<1> QED BY <1>3

Wins == wins \in [Nodes -> SUBSET Time]

LEMMA AgeIs ==
  ASSUME Wins, NEW n \in Nodes, wins[n] # {}, NEW t \in Time, NEW u \in Time, t <= u
  PROVE  /\ Age(n, t) \in Time /\ Age(n, u) \in Time /\ Age(n, t) <= Age(n, u)
         /\ Halvings(Age(n, t)) \in 0 .. Most /\ Halvings(Age(n, u)) \in 0 .. Most
         /\ Halvings(Age(n, t)) <= Halvings(Age(n, u))
<1>1. Max(wins[n]) \in 0 .. MaxTime /\ MaxTime \in Nat
  <2>1. wins[n] \in SUBSET (0 .. MaxTime) /\ MaxTime \in Nat
    BY WindowsAssumption DEF Wins, Time
  <2> QED BY <2>1, MaxOfNats
<1> DEFINE last == Max(wins[n])
<1> HIDE DEF last
<1>2. /\ Age(n, t) = IF t - last >= 0 THEN t - last ELSE 0
      /\ Age(n, u) = IF u - last >= 0 THEN u - last ELSE 0
  <2>1. t - last \in Int /\ u - last \in Int
    BY <1>1 DEF Time, last
  <2> QED BY <2>1, MaxOfTwo DEF Age, last
<1>3. Age(n, t) \in Time /\ Age(n, u) \in Time /\ Age(n, t) <= Age(n, u)
  BY <1>1, <1>2 DEF Time, last
<1> DEFINE a == Age(n, t)
           b == Age(n, u)
<1>4. /\ a \div DecayAge \in Nat /\ b \div DecayAge \in Nat /\ a \div DecayAge <= b \div DecayAge
      /\ b \div DecayAge <= Most
  <2>1. a \in Nat /\ b \in Nat /\ a <= b /\ b <= MaxTime
    BY <1>3 DEF Time
  <2> HIDE DEF a, b
  <2> QED BY <1>1, <2>1, WindowsAssumption, Quotients DEF Most
<1> HIDE DEF a, b
<1>5. a \in Nat /\ b \in Nat /\ a <= b /\ DecayAge \in Nat /\ Most \in Nat
  BY <1>3, WindowsAssumption, LeftIs DEF Time, a, b
<1>6. Halvings(a) \in 0 .. Most /\ Halvings(b) \in 0 .. Most /\ Halvings(a) <= Halvings(b)
  BY <1>4, <1>5 DEF Halvings
<1> QED BY <1>3, <1>6 DEF a, b

\* Weights are naturals, and time does not add to them.
LEMMA WeightFalls ==
  ASSUME Wins, NEW n \in Nodes, NEW t \in Time, NEW u \in Time, t <= u
  PROVE  Weight(n, t) \in Nat /\ Weight(n, u) \in Nat /\ Weight(n, u) <= Weight(n, t)
<1>1. CASE wins[n] = {}
  BY <1>1 DEF Weight
<1>2. CASE wins[n] # {}
  <2> DEFINE c == Cardinality(wins[n])
             p == Left[Most - Halvings(Age(n, t))]
             q == Left[Most - Halvings(Age(n, u))]
  <2>1. c \in Nat
    <3>1. wins[n] \in SUBSET (0 .. MaxTime) /\ IsFiniteSet(0 .. MaxTime)
      BY WindowsAssumption, FS_Interval DEF Wins, Time
    <3>2. IsFiniteSet(wins[n])
      BY <3>1, FS_Subset
    <3> QED BY <3>2, FS_CardinalityType
  <2>2. p \in Nat /\ q \in Nat /\ q <= p
    <3> DEFINE i == Most - Halvings(Age(n, u))
               j == Most - Halvings(Age(n, t))
    <3>1. i \in 0 .. Most /\ j \in 0 .. Most /\ i <= j
      BY <1>2, AgeIs, LeftIs
    <3> HIDE DEF i, j
    <3>2. Left[i] \in Nat /\ Left[j] \in Nat /\ Left[i] <= Left[j]
      BY <3>1, LeftIs, LeftRises
    <3> QED BY <3>2 DEF i, j
  <2>3. Weight(n, t) = c * p /\ Weight(n, u) = c * q
    BY <1>2 DEF Weight
  <2> HIDE DEF c, p, q
  <2>4. c * p \in Nat /\ c * q \in Nat /\ c * q <= c * p
    <3>1. c * (p - q) >= 0
      BY <2>1, <2>2
    <3>2. c * (p - q) = c * p - c * q
      BY <2>1, <2>2
    <3> QED BY <2>1, <2>2, <3>1, <3>2
  <2> QED BY <2>3, <2>4
<1> QED BY <1>1, <1>2

------------------------------------------------------------------------------
(* Types *)

\* What TypeOK says of the variables; the weights follow from it.
Shapes ==
  /\ kind \in Kinds /\ now \in Time /\ done \in BOOLEAN
  /\ wins \in [Nodes -> SUBSET Time] /\ challenged \in Time \union {None}
  /\ ready \subseteq Heavy
  /\ signs \subseteq [node : Nodes, ts : Time]
  /\ votes \subseteq [node : Nodes, ts : Time, side : {"for", "against"}]
  /\ cvotes \subseteq [node : Nodes, ts : Time, side : {"uphold", "void"}]

\* No node votes twice at one time.
Once ==
  /\ \A v, o \in votes : v.node = o.node /\ v.ts = o.ts => v = o
  /\ \A v, o \in cvotes : v.node = o.node /\ v.ts = o.ts => v = o

Inv == Shapes /\ Once

LEMMA ShapesSuffice == Shapes => TypeOK
<1> SUFFICES ASSUME Shapes PROVE TypeOK
  OBVIOUS
<1>1. \A n \in Nodes : Weight(n, now) \in Nat
  <2>1. now \in Time /\ now <= now /\ Wins
    BY WindowsAssumption DEF Shapes, Wins, Time
  <2> QED BY <2>1, WeightFalls
<1>2. \A n \in Nodes : Weight(n, now) >= 0
  BY <1>1
<1> QED BY <1>2 DEF Shapes, TypeOK

LEMMA ShapesStep ==
  ASSUME Inv, [Next]_vars
  PROVE  Inv'
<1> USE DEF Inv, Shapes, Once
<1>1. ASSUME NEW n \in Nodes, Sign(n) PROVE Inv'
  BY <1>1 DEF Sign
<1>2. ASSUME NEW n \in Nodes, NEW side \in {"for", "against"}, Vote(n, side) PROVE Inv'
  BY <1>2 DEF Vote, New
<1>3. ASSUME NEW n \in Nodes, NEW side \in {"uphold", "void"}, ChallengeVote(n, side) PROVE Inv'
  BY <1>3 DEF ChallengeVote, New
<1>4. ASSUME NEW n \in Winners, Win(n) PROVE Inv'
  BY <1>4, NodesAssumption DEF Win
<1>5. ASSUME NEW n \in Winners, Reversed(n) PROVE Inv'
  BY <1>5, NodesAssumption DEF Reversed
<1>6. ASSUME NEW n \in Heavy, SignalReady(n) PROVE Inv'
  BY <1>6 DEF SignalReady
<1>7. CASE Challenge
  BY <1>7 DEF Challenge
<1>8. CASE Finish
  BY <1>8 DEF Finish
<1>9. CASE Pass
  BY <1>9, WindowsAssumption DEF Pass, Time
<1>10. CASE DrawBack
  BY <1>10, WindowsAssumption DEF DrawBack, Time
<1>11. CASE UNCHANGED vars
  BY <1>11 DEF vars
<1> QED
  BY <1>1, <1>2, <1>3, <1>4, <1>5, <1>6, <1>7, <1>8, <1>9, <1>10, <1>11 DEF Next

LEMMA Invariant == Spec => []Inv
<1>1. Init => Inv
  <2> SUFFICES ASSUME Init PROVE Inv
    OBVIOUS
  <2>1. kind \in Kinds /\ wins \in [Nodes -> SUBSET Time]
    BY RecordsAssumption DEF Init
  <2>2. now \in Time
    BY WindowsAssumption DEF Init, Time
  <2>3. signs = {} /\ votes = {} /\ cvotes = {} /\ ready = {} /\ done = FALSE /\ challenged = None
    BY DEF Init
  <2> QED BY <2>1, <2>2, <2>3 DEF Inv, Shapes, Once
<1>2. Inv /\ [Next]_vars => Inv'
  BY ShapesStep
<1> QED BY <1>1, <1>2, PTL DEF Spec

\* Every variable stays in its range, and no decay makes a weight negative.
THEOREM TypeCorrect == Spec => []TypeOK
<1>1. Inv => TypeOK
  BY ShapesSuffice DEF Inv
<1> QED BY <1>1, Invariant, PTL

------------------------------------------------------------------------------
(* First events *)

\* The first event of a node among events that it has sent at different times.
Earliest(events, n, e) ==
  e \in events /\ e.node = n /\ \A o \in events : o.node = n => e.ts <= o.ts

Timed(events) ==
  /\ \A e \in events : e.ts \in Time
  /\ \A e, o \in events : e.node = o.node /\ e.ts = o.ts => e = o

LEMMA FirstIs ==
  ASSUME NEW events, Timed(events), NEW n \in By(events)
  PROVE  /\ Earliest(events, n, First(events, n))
         /\ \A e : Earliest(events, n, e) => e = First(events, n)
<1> DEFINE T == {e.ts : e \in {o \in events : o.node = n}}
<1>1. T \in SUBSET Nat /\ T # {}
  BY WindowsAssumption DEF By, Timed, Time
<1>2. \E x \in T : \A y \in T : x <= y
  <2> HIDE DEF T
  <2> QED BY <1>1, LeastNat
<1>3. \E e \in events : e.node = n /\ \A o \in events : o.node = n => e.ts <= o.ts
  BY <1>2
<1>4. Earliest(events, n, First(events, n))
  BY <1>3 DEF First, Earliest
<1>5. ASSUME NEW e, Earliest(events, n, e) PROVE e = First(events, n)
  <2> DEFINE f == First(events, n)
  <2>1. e \in events /\ f \in events /\ e.node = f.node /\ e.ts <= f.ts /\ f.ts <= e.ts
    BY <1>4, <1>5 DEF Earliest
  <2> HIDE DEF f
  <2>2. e.ts \in Int /\ f.ts \in Int
    BY <2>1, WindowsAssumption DEF Timed, Time
  <2>3. e.ts = f.ts
    BY <2>1, <2>2
  <2> QED BY <2>1, <2>3 DEF Timed, f
<1> QED BY <1>4, <1>5

\* An event after the first of its node is not the first of any.
LEMMA FirstStays ==
  ASSUME NEW events, NEW v, Timed(events \cup {v}),
         NEW o \in events, o.node = v.node, o.ts < v.ts
  PROVE  FirstVotes(events \cup {v}) = FirstVotes(events)
<1> DEFINE more == events \cup {v}
<1>1. Timed(events) /\ Timed(more)
  BY DEF Timed
<1>2. By(more) = By(events)
  BY DEF By
<1>3. ASSUME NEW n \in By(events) PROVE First(more, n) = First(events, n)
  <2> DEFINE f == First(events, n)
  <2>1. Earliest(events, n, f)
    BY <1>1, FirstIs
  <2>2. \A e \in more : e.ts \in Nat
    BY <1>1, WindowsAssumption DEF Timed, Time
  <2> HIDE DEF f
  <2>3. v.node = n => f.ts <= v.ts
    <3>1. v.node = n => f.ts <= o.ts
      BY <2>1 DEF Earliest
    <3>2. f.ts \in Nat /\ o.ts \in Nat /\ v.ts \in Nat
      BY <2>1, <2>2 DEF Earliest
    <3> QED BY <3>1, <3>2
  <2>4. Earliest(more, n, f)
    BY <2>1, <2>3 DEF Earliest
  <2> HIDE DEF more
  <2>5. f = First(more, n)
    BY <1>1, <1>2, <2>4, FirstIs
  <2> QED BY <2>5 DEF f
<1> HIDE DEF more
<1>4. FirstVotes(more) = FirstVotes(events)
  BY <1>2, <1>3 DEF FirstVotes
<1> QED BY <1>4 DEF more

------------------------------------------------------------------------------
(* Signatures *)

\* When the signatures suffice some node has signed, and the vote has a beginning.
LEMMA SignedBegins ==
  ASSUME Shapes, Signed
  PROVE  LatestSign \in Time /\ VoteDeadline \in Nat /\ ChallengeUntil \in Nat
<1>1. Signers # {}
  <2>1. SUFFICES ASSUME Signers = {} PROVE FALSE
    OBVIOUS
  <2>2. SignWeight = 0
    <3>1. DOMAIN [n \in Signers |-> WeightOf(n, 0)] = {}
      BY <2>1
    <3> DEFINE f == [n \in Signers |-> WeightOf(n, 0)]
    <3>2. IsFiniteSet(DOMAIN f) /\ Weighs(f, DOMAIN f)
      BY <3>1, FS_EmptySet DEF Weighs
    <3> HIDE DEF f
    <3>3. SumFunction(f) = 0
      BY <3>1, <3>2, SumIsNat DEF f
    <3> QED BY <3>3 DEF SignWeight, f
  <2>3. NetworkWeight \in Nat
    <3> DEFINE f == [n \in Nodes |-> Weight(n, now)]
    <3>1. \A n \in Nodes : Weight(n, now) \in Nat
      <4>1. now \in Time /\ now <= now /\ Wins
        BY WindowsAssumption DEF Shapes, Wins, Time
      <4> QED BY <4>1, WeightFalls
    <3>2. DOMAIN f = Nodes /\ Weighs(f, Nodes) /\ IsFiniteSet(Nodes)
      BY <3>1, NodesAssumption DEF Weighs
    <3> HIDE DEF f
    <3> QED BY <3>2, SumIsNat DEF NetworkWeight, f
  <2>4. NetworkWeight > 0 /\ 100 * SignWeight >= 25 * NetworkWeight
    BY DEF Signed, Reaches, Percent
  <2> QED BY <2>2, <2>3, <2>4
<1>2. PICK s \in signs : s.node \in Signers
  BY <1>1 DEF Signers, By, InTime
<1>3. MaxTime \in Nat /\ \A o \in signs : o.ts \in 0 .. MaxTime
  BY WindowsAssumption DEF Shapes, Time
<1>4. LatestSign \in Time
  <2> DEFINE all == {o.ts : o \in signs}
             some == {o.ts : o \in {x \in signs : x.node \in Signers}}
  <2>1. all \in SUBSET (0 .. MaxTime) /\ all # {} /\ some \in SUBSET (0 .. MaxTime) /\ some # {}
    BY <1>2, <1>3
  <2> HIDE DEF all, some
  <2>2. Max(all) \in 0 .. MaxTime /\ Max(some) \in 0 .. MaxTime
    BY <1>3, <2>1, MaxOfNats
  <2>3. LatestSign = IF kind = "petition" THEN Max(all) ELSE Max(some)
    BY DEF LatestSign, all, some
  <2> QED BY <2>2, <2>3 DEF Time
<1> QED BY <1>4, WindowsAssumption DEF VoteDeadline, ChallengeUntil, Time

------------------------------------------------------------------------------
(* Stray events *)

Sides == {"for", "against"}

LEMMA SameWeights ==
  ASSUME UNCHANGED <<wins, now>>
  PROVE  /\ \A n, t : Weight(n, t)' = Weight(n, t)
         /\ NetworkWeight' = NetworkWeight
<1>1. \A n, t : Weight(n, t)' = Weight(n, t)
  BY DEF Weight, Age
<1>2. \A n : Weight(n, now)' = Weight(n, now)
  BY DEF Weight, Age
<1>3. [n \in Nodes |-> Weight(n, now)]' = [n \in Nodes |-> Weight(n, now)]
  BY <1>2
<1>4. NetworkWeight' = NetworkWeight
  BY <1>3 DEF NetworkWeight
<1> QED BY <1>1, <1>4

\* The status follows from the signatures, from what the sides weigh and from what
\* a stray event does not touch.
LEMMA SameStatus ==
  ASSUME UNCHANGED <<kind, now, wins, challenged, cvotes, ready, done>>,
         Signed' <=> Signed, LatestSign' = LatestSign,
         \A side \in Sides : Votes(side)' = Votes(side)
  PROVE  Status' = Status
<1>1. VoteDeadline' = VoteDeadline /\ ChallengeUntil' = ChallengeUntil
  BY DEF VoteDeadline, ChallengeUntil
<1>2. ChallengeDeadline' = ChallengeDeadline
  BY <1>1 DEF ChallengeDeadline
<1>3. Heard' = Heard
  BY <1>2 DEF Heard, FirstVotes, Within, By, First
<1>4. \A side : ChallengeVotes(side)' = ChallengeVotes(side)
  <2> SUFFICES ASSUME NEW side PROVE ChallengeVotes(side)' = ChallengeVotes(side)
    OBVIOUS
  <2> DEFINE S == {o \in Heard : o.side = side}
             T == {o \in Heard' : o.side = side}
  <2>1. S = T
    BY <1>3
  <2>2. \A v : Weight(v.node, IF kind = "petition" THEN v.ts ELSE now)'
                = Weight(v.node, IF kind = "petition" THEN v.ts ELSE now)
    BY DEF Weight, Age
  <2>3. [v \in T |-> Weight(v.node, IF kind = "petition" THEN v.ts ELSE now)']
          = [v \in S |-> Weight(v.node, IF kind = "petition" THEN v.ts ELSE now)]
    BY <2>1, <2>2
  <2> QED BY <2>3 DEF ChallengeVotes
<1>5. Voided' <=> Voided
  BY <1>2, <1>4 DEF Voided
<1>6. Carried' <=> Carried
  <2>1. Votes("for")' = Votes("for") /\ Votes("against")' = Votes("against")
    BY DEF Sides
  <2>2. NetworkWeight' = NetworkWeight
    BY SameWeights
  <2> QED BY <2>1, <2>2 DEF Carried, Percent
<1>7. Activation' = Activation
  BY <1>1 DEF Activation, ThresholdMet
<1> QED BY <1>1, <1>5, <1>6, <1>7 DEF Status

\* Only a signature adds to the signatures, and only a vote to the votes.
LEMMA WhoSigns ==
  ASSUME [Next]_vars, NEW s \in signs' \ signs
  PROVE  \E n \in Nodes : Sign(n) /\ s = [node |-> n, ts |-> now]
<1>1. \E n \in Nodes : Sign(n)
  BY DEF Next, vars, Vote, ChallengeVote, Win, Reversed, SignalReady, Challenge, Finish,
         Pass, DrawBack
<1> QED BY <1>1 DEF Sign

LEMMA WhoVotes ==
  ASSUME [Next]_vars, NEW v \in votes' \ votes
  PROVE  \E n \in Nodes, side \in Sides :
           Vote(n, side) /\ v = [node |-> n, ts |-> now, side |-> side]
<1>1. \E n \in Nodes, side \in Sides : Vote(n, side)
  BY DEF Next, vars, Sign, ChallengeVote, Win, Reversed, SignalReady, Challenge, Finish,
         Pass, DrawBack, Sides
<1> QED BY <1>1 DEF Vote

LEMMA LateSignature ==
  ASSUME Inv, [Next]_vars, NEW s \in signs' \ signs,
         kind = "upgrade", s.node \notin Signers, s.ts > SignWindow
  PROVE  Status' = Status
<1>1. /\ signs' = signs \union {s} /\ s.ts \in Nat
      /\ UNCHANGED <<kind, now, wins, votes, challenged, cvotes, ready, done>>
  <2>1. PICK n \in Nodes : Sign(n) /\ s = [node |-> n, ts |-> now]
    BY WhoSigns
  <2>2. now \in Nat
    BY WindowsAssumption DEF Inv, Shapes, Time
  <2> QED BY <2>1, <2>2 DEF Sign
<1>2. InTime' = InTime
  BY <1>1, WindowsAssumption DEF InTime
<1>3. Signers' = Signers
  BY <1>2 DEF Signers, By
<1>4. \A n, t : WeightOf(n, t)' = WeightOf(n, t)
  BY <1>1 DEF WeightOf, Weight, Age
<1>5. SignWeight' = SignWeight
  <2>1. [n \in Signers' |-> WeightOf(n, 0)'] = [n \in Signers |-> WeightOf(n, 0)]
    BY <1>3, <1>4
  <2> QED BY <2>1 DEF SignWeight
<1>6. Signed' <=> Signed
  BY <1>1, <1>5, SameWeights DEF Signed, Percent
<1>7. LatestSign' = LatestSign
  <2>1. {o \in signs' : o.node \in Signers'} = {o \in signs : o.node \in Signers}
    BY <1>1, <1>3
  <2> QED BY <1>1, <2>1 DEF LatestSign
<1>8. ASSUME NEW side PROVE Votes(side)' = Votes(side)
  <2>1. Counted' = Counted
    BY <1>1, <1>7 DEF Counted, Within, VoteDeadline
  <2>2. FirstVotes(Counted)' = FirstVotes(Counted)
    BY <2>1
  <2>3. [v \in {o \in FirstVotes(Counted)' : o.side = side} |-> WeightOf(v.node, v.ts)']
          = [v \in {o \in FirstVotes(Counted) : o.side = side} |-> WeightOf(v.node, v.ts)]
    BY <1>4, <2>2
  <2> QED BY <2>3 DEF Votes
<1> QED BY <1>1, <1>6, <1>7, <1>8, SameStatus

LEMMA SecondVote ==
  ASSUME Inv, Inv', [Next]_vars, NEW v \in votes' \ votes, Signed,
         v.ts > VoteDeadline \/ \E o \in Counted : o.node = v.node /\ o.ts < v.ts
  PROVE  Status' = Status /\ \A side \in Sides : Votes(side)' = Votes(side)
<1>1. /\ votes' = votes \union {v} /\ v.ts \in Nat
      /\ UNCHANGED <<kind, now, wins, signs, challenged, cvotes, ready, done>>
  <2>1. PICK n \in Nodes, side \in Sides :
          Vote(n, side) /\ v = [node |-> n, ts |-> now, side |-> side]
    BY WhoVotes
  <2>2. now \in Nat
    BY WindowsAssumption DEF Inv, Shapes, Time
  <2> QED BY <2>1, <2>2 DEF Vote
<1>2. InTime' = InTime /\ Signers' = Signers
  BY <1>1 DEF InTime, Signers, By
<1>3. \A n, t : WeightOf(n, t)' = WeightOf(n, t)
  BY <1>1, <1>2 DEF WeightOf, Weight, Age
<1>4. Signed' <=> Signed
  <2>1. [n \in Signers' |-> WeightOf(n, 0)'] = [n \in Signers |-> WeightOf(n, 0)]
    BY <1>2, <1>3
  <2>2. SignWeight' = SignWeight
    BY <2>1 DEF SignWeight
  <2> QED BY <1>1, <2>2, SameWeights DEF Signed, Percent
<1>5. LatestSign' = LatestSign /\ VoteDeadline' = VoteDeadline
  BY <1>1, <1>2 DEF LatestSign, VoteDeadline
<1>6. LatestSign \in Nat /\ VoteDeadline \in Nat
  BY SignedBegins, WindowsAssumption DEF Inv, Time
<1>7. FirstVotes(Counted') = FirstVotes(Counted)
  <2>1. CASE v.ts > VoteDeadline
    <3>1. Counted' = Counted
      BY <1>1, <1>5, <1>6, <2>1 DEF Counted, Within
    <3> QED BY <3>1
  <2>2. CASE ~ (v.ts > VoteDeadline)
    <3>1. PICK o \in Counted : o.node = v.node /\ o.ts < v.ts
      BY <2>2
    <3>2. o.ts \in Nat /\ LatestSign <= o.ts
      BY WindowsAssumption DEF Counted, Within, Inv, Shapes, Time
    <3>3. LatestSign <= v.ts /\ v.ts <= VoteDeadline
      BY <1>1, <1>6, <2>2, <3>1, <3>2
    <3>4. Counted' = Counted \cup {v}
      BY <1>1, <1>5, <3>3 DEF Counted, Within
    <3>5. Timed(Counted \cup {v})
      <4>1. Counted \cup {v} \subseteq votes'
        BY <1>1 DEF Counted, Within
      <4> QED BY <4>1 DEF Timed, Inv, Shapes, Once
    <3> HIDE DEF Counted
    <3> QED BY <3>1, <3>4, <3>5, FirstStays
  <2> QED BY <2>1, <2>2
<1>8. ASSUME NEW side PROVE Votes(side)' = Votes(side)
  <2>1. FirstVotes(Counted)' = FirstVotes(Counted)
    BY <1>7
  <2>2. [o \in {x \in FirstVotes(Counted)' : x.side = side} |-> WeightOf(o.node, o.ts)']
          = [o \in {x \in FirstVotes(Counted) : x.side = side} |-> WeightOf(o.node, o.ts)]
    BY <1>3, <2>1
  <2> QED BY <2>2 DEF Votes
<1> QED BY <1>1, <1>4, <1>5, <1>8, SameStatus

\* upgrade_hash.py, petition.py: a signature that comes too late for an upgrade,
\* and a vote that comes too late or for the second time, change neither the
\* status nor what the sides of the vote weigh, in whatever order the time of the
\* chain has let the events come.
THEOREM StrayIsIgnored == Spec => StrayEventsIgnored
<1>1. ASSUME Inv, [Next]_vars
      PROVE  [\A s \in signs' \ signs :
                kind = "upgrade" /\ s.node \notin Signers /\ s.ts > SignWindow
                  => Status' = Status]_vars
  BY <1>1, LateSignature
<1>2. ASSUME Inv, Inv', [Next]_vars
      PROVE  [\A v \in votes' \ votes :
                Signed /\ (v.ts > VoteDeadline
                           \/ \E o \in Counted : o.node = v.node /\ o.ts < v.ts)
                  => /\ Status' = Status
                     /\ \A side \in {"for", "against"} : Votes(side)' = Votes(side)]_vars
  BY <1>2, SecondVote, Zenon DEF Sides
<1> QED
  BY <1>1, <1>2, Invariant, PTL DEF Spec, StrayEventsIgnored, LateSignatureIgnored,
     SecondVoteIgnored

------------------------------------------------------------------------------
(* Time alone *)

\* When time passes and the network keeps its weight, so does every node.
LEMMA PassWeights ==
  ASSUME Shapes, Pass, NetworkWeight' = NetworkWeight
  PROVE  /\ \A n \in Nodes : Weight(n, now)' = Weight(n, now)
         /\ \A n, t : Weight(n, t)' = Weight(n, t)
<1>1. /\ now' = now + 1 /\ now \in Time /\ now' \in Time /\ now <= now'
      /\ wins' = wins /\ Wins
  BY WindowsAssumption DEF Pass, Shapes, Time, Wins
<1>2. \A n, t : Weight(n, t)' = Weight(n, t)
  BY <1>1 DEF Weight, Age
<1>3. \A n : Weight(n, now)' = Weight(n, now')
  BY <1>1 DEF Weight, Age
<1> DEFINE a == [n \in Nodes |-> Weight(n, now')]
           b == [n \in Nodes |-> Weight(n, now)]
<1>4. \A n \in Nodes : Weight(n, now) \in Nat /\ Weight(n, now') \in Nat
                         /\ Weight(n, now') <= Weight(n, now)
  BY <1>1, WeightFalls
<1>5. Weighs(a, Nodes) /\ Weighs(b, Nodes) /\ \A n \in Nodes : a[n] <= b[n]
  BY <1>4 DEF Weighs
<1>6. DOMAIN a = Nodes /\ DOMAIN b = Nodes
  OBVIOUS
<1>7. SumFunction(a) = SumFunction(b)
  <2>1. [n \in Nodes |-> Weight(n, now)]' = a
    BY <1>3
  <2> QED BY <2>1 DEF NetworkWeight
<1>8. \A n \in Nodes : a[n] = b[n]
  <2> HIDE DEF a, b
  <2> QED BY <1>5, <1>6, <1>7, NodesAssumption, SumOrder
<1>9. \A n \in Nodes : Weight(n, now)' = Weight(n, now)
  BY <1>3, <1>8
<1> QED BY <1>2, <1>9

\* The first votes are votes.
LEMMA FirstVotesAre ==
  ASSUME NEW events, Timed(events)
  PROVE  FirstVotes(events) \subseteq events
BY FirstIs DEF FirstVotes, Earliest

\* What time alone leaves alone, as long as no weight decays.
LEMMA PassKeeps ==
  ASSUME Inv, Pass, NetworkWeight' = NetworkWeight
  PROVE  /\ UNCHANGED <<LatestSign, VoteDeadline, ChallengeUntil, ChallengeDeadline>>
         /\ Signed' <=> Signed
         /\ Carried' <=> Carried
         /\ \A side : ChallengeVotes(side)' = ChallengeVotes(side)
<1>1. /\ UNCHANGED <<kind, wins, signs, votes, challenged, cvotes, ready, done>>
      /\ UNCHANGED <<InTime, Signers, LatestSign, VoteDeadline, ChallengeUntil>>
  BY DEF Pass, InTime, Signers, By, LatestSign, VoteDeadline, ChallengeUntil
<1>2. ChallengeDeadline' = ChallengeDeadline
  BY <1>1 DEF ChallengeDeadline
<1>3. /\ \A n \in Nodes : Weight(n, now)' = Weight(n, now)
      /\ \A n, t : Weight(n, t)' = Weight(n, t)
  BY PassWeights DEF Inv
<1>4. \A n \in Nodes : \A t : WeightOf(n, t)' = WeightOf(n, t)
  BY <1>1, <1>3 DEF WeightOf
<1>5. Signed' <=> Signed
  <2>1. Signers \subseteq Nodes
    BY DEF Inv, Shapes, Signers, By, InTime
  <2>2. [n \in Signers |-> WeightOf(n, 0)]' = [n \in Signers |-> WeightOf(n, 0)]
    BY <1>1, <1>4, <2>1
  <2>3. SignWeight' = SignWeight
    BY <2>2 DEF SignWeight
  <2> QED BY <1>1, <2>3 DEF Signed, Percent
<1>6. ASSUME NEW side PROVE Votes(side)' = Votes(side)
  <2>1. Counted' = Counted
    BY <1>1 DEF Counted, Within
  <2>2. FirstVotes(Counted)' = FirstVotes(Counted)
    BY <2>1 DEF FirstVotes, By, First
  <2>3. \A v \in FirstVotes(Counted) : v.node \in Nodes
    <3>1. Counted \subseteq votes
      BY DEF Counted, Within
    <3>2. Timed(Counted)
      BY <3>1 DEF Timed, Inv, Shapes, Once
    <3>3. FirstVotes(Counted) \subseteq votes
      BY <3>1, <3>2, FirstVotesAre
    <3> QED BY <3>3 DEF Inv, Shapes
  <2>4. [v \in {o \in FirstVotes(Counted) : o.side = side} |-> WeightOf(v.node, v.ts)]'
          = [v \in {o \in FirstVotes(Counted) : o.side = side} |-> WeightOf(v.node, v.ts)]
    BY <1>4, <2>2, <2>3
  <2> QED BY <2>4 DEF Votes
<1>7. Carried' <=> Carried
  <2>1. Votes("for")' = Votes("for") /\ Votes("against")' = Votes("against")
    BY <1>6
  <2> QED BY <1>1, <2>1 DEF Carried, Percent
<1>8. ASSUME NEW side PROVE ChallengeVotes(side)' = ChallengeVotes(side)
  <2> DEFINE W == Within(cvotes, challenged, ChallengeDeadline)
  <2>1. Heard' = Heard
    BY <1>1, <1>2 DEF Heard, FirstVotes, Within, By, First
  <2>2. \A v \in Heard : v.node \in Nodes
    <3>1. W \subseteq cvotes
      BY DEF Within
    <3>2. Timed(W)
      BY <3>1 DEF Timed, Inv, Shapes, Once
    <3> HIDE DEF W
    <3>3. FirstVotes(W) \subseteq cvotes
      BY <3>1, <3>2, FirstVotesAre
    <3> QED BY <3>3 DEF Inv, Shapes, Heard, W
  <2>3. \A v \in Heard : Weight(v.node, IF kind = "petition" THEN v.ts ELSE now)'
                             = Weight(v.node, IF kind = "petition" THEN v.ts ELSE now)
    <3>1. CASE kind = "petition"
      BY <1>1, <1>3, <3>1
    <3>2. CASE kind # "petition"
      BY <1>1, <1>3, <2>2, <3>2
    <3> QED BY <3>1, <3>2
  <2>4. [v \in {o \in Heard : o.side = side} |->
            Weight(v.node, IF kind = "petition" THEN v.ts ELSE now)]'
          = [v \in {o \in Heard : o.side = side} |->
               Weight(v.node, IF kind = "petition" THEN v.ts ELSE now)]
    BY <2>1, <2>3
  <2> QED BY <2>4 DEF ChallengeVotes
<1> QED BY <1>1, <1>2, <1>5, <1>7, <1>8

\* A challenge that no longer voids the vote, and then does, has ended just now: its
\* window is no later than that of the status.
LEMMA Forward ==
  ASSUME Inv, Pass, NetworkWeight' = NetworkWeight,
         kind = "petition" /\ challenged # None /\ Signed
           => challenged <= VoteDeadline \/ now > ChallengeDeadline
  PROVE  Status' \in After(Status)
<1>1. /\ now' = now + 1 /\ now \in Nat
      /\ UNCHANGED <<kind, challenged, ready, done>>
      /\ challenged # None => challenged \in Nat
      /\ kind \in {"petition", "upgrade"} /\ SignWindow \in Nat
      /\ ActivationWindow \in Nat /\ VoteWindow \in Nat /\ ChallengeWindow \in Nat \ {0}
  BY WindowsAssumption, KindsAssumption DEF Pass, Inv, Shapes, Time
<1>2. /\ UNCHANGED <<VoteDeadline, ChallengeUntil, ChallengeDeadline>>
      /\ Signed' <=> Signed
      /\ Carried' <=> Carried
      /\ \A side : ChallengeVotes(side)' = ChallengeVotes(side)
  BY PassKeeps
<1>3. ThresholdMet' <=> ThresholdMet
  BY <1>1 DEF ThresholdMet
<1>4. CASE ~Signed
  <2>1. Status = IF now > SignWindow THEN "failed_signatures" ELSE "signatures"
    BY <1>4 DEF Status
  <2>2. Status' = IF now' > SignWindow THEN "failed_signatures" ELSE "signatures"
    BY <1>2, <1>4 DEF Status
  <2> QED BY <1>1, <2>1, <2>2 DEF After
<1>5. CASE Signed
  <2> DEFINE Late(time, void, act) ==
               IF ~Carried THEN "failed_vote"
               ELSE IF void THEN "voided_challenge"
               ELSE IF time <= ChallengeUntil THEN "challenge"
               ELSE IF kind = "petition" THEN (IF done THEN "executed" ELSE "passed")
               ELSE IF done THEN "activated" ELSE act
  <2>1. /\ VoteDeadline \in Nat /\ ChallengeUntil \in Nat
        /\ ChallengeUntil = VoteDeadline + ChallengeWindow
    BY <1>5, SignedBegins DEF Inv, ChallengeUntil
  <2>2. Status = IF now <= VoteDeadline THEN "voting" ELSE Late(now, Voided, Activation)
    BY <1>5 DEF Status
  <2>3. Status' = IF now' <= VoteDeadline THEN "voting" ELSE Late(now', Voided', Activation')
    BY <1>1, <1>2, <1>5 DEF Status
  <2>4. /\ Activation = IF ~ThresholdMet /\ now > ChallengeUntil + ActivationWindow
                          THEN "failed_activation" ELSE "activation"
        /\ Activation' = IF ~ThresholdMet /\ now' > ChallengeUntil + ActivationWindow
                           THEN "failed_activation" ELSE "activation"
    BY <1>2, <1>3 DEF Activation
  <2>5. Voided => Voided'
    <3> SUFFICES ASSUME Voided PROVE Voided'
      OBVIOUS
    <3>1. challenged # None /\ now > ChallengeDeadline
          /\ ChallengeVotes("uphold") > ChallengeVotes("void")
      BY DEF Voided
    <3>2. ChallengeDeadline \in Nat
      BY <1>1, <2>1, <3>1 DEF ChallengeDeadline
    <3>3. now' > ChallengeDeadline
      BY <1>1, <3>1, <3>2
    <3> QED BY <1>1, <1>2, <3>1, <3>3 DEF Voided
  <2>6. Voided' /\ ~Voided => now <= ChallengeUntil
    <3> SUFFICES ASSUME Voided', ~Voided PROVE now <= ChallengeUntil
      OBVIOUS
    <3>1. challenged # None /\ challenged \in Nat
      BY <1>1 DEF Voided
    <3>2. ChallengeDeadline \in Nat /\ ~ (now > ChallengeDeadline)
      <4>1. ChallengeDeadline \in Nat
        BY <1>1, <2>1, <3>1 DEF ChallengeDeadline
      <4>2. ChallengeVotes("uphold") > ChallengeVotes("void")
        BY <1>2 DEF Voided
      <4> QED BY <3>1, <4>1, <4>2 DEF Voided
    <3>3. ChallengeDeadline <= ChallengeUntil
      <4>1. CASE kind = "petition"
        BY <1>1, <1>5, <2>1, <3>1, <3>2, <4>1 DEF ChallengeDeadline
      <4>2. CASE kind # "petition"
        BY <2>1, <4>2 DEF ChallengeDeadline
      <4> QED BY <4>1, <4>2
    <3> QED BY <1>1, <2>1, <3>2, <3>3
  <2>7. CASE now <= VoteDeadline
    <3>1. Status = "voting" /\ now' <= ChallengeUntil
      BY <1>1, <2>1, <2>2, <2>7
    <3> QED BY <2>3, <3>1 DEF After
  <2>8. CASE ~ (now <= VoteDeadline)
    <3>1. ~ (now' <= VoteDeadline) /\ (now' <= ChallengeUntil => now <= ChallengeUntil)
      BY <1>1, <2>1, <2>8
    <3>2. Status = Late(now, Voided, Activation) /\ Status' = Late(now', Voided', Activation')
      BY <2>2, <2>3, <2>8, <3>1
    <3>3. CASE ~Carried \/ Voided
      BY <2>5, <3>2, <3>3 DEF After
    <3>4. CASE Carried /\ ~Voided /\ now <= ChallengeUntil
      <4>1. Status = "challenge"
        BY <3>2, <3>4
      <4>2. Activation' \in Waiting
        BY <2>4 DEF Waiting
      <4> QED BY <3>2, <3>4, <4>1, <4>2 DEF After
    <3>5. CASE Carried /\ ~Voided /\ ~ (now <= ChallengeUntil)
      <4>1. ~Voided' /\ ~ (now' <= ChallengeUntil)
        BY <2>6, <3>1, <3>5
      <4>2. CASE kind = "petition" \/ done
        BY <3>2, <3>5, <4>1, <4>2 DEF After
      <4>3. CASE ~ (kind = "petition" \/ done)
        <5>1. Status = Activation /\ Status' = Activation'
          BY <3>2, <3>5, <4>1, <4>3
        <5>2. Activation = "failed_activation" => Activation' = "failed_activation"
          BY <1>1, <2>1, <2>4
        <5>3. Activation' \in Waiting /\ Activation \in {"activation", "failed_activation"}
          BY <2>4 DEF Waiting
        <5> QED BY <5>1, <5>2, <5>3 DEF After
      <4> QED BY <4>2, <4>3
    <3> QED BY <3>3, <3>4, <3>5
  <2> QED BY <2>7, <2>8
<1> QED BY <1>4, <1>5

\* petition.py, upgrade_hash.py: as long as no weight decays, and a challenge filed
\* after the vote is not still open when the status has left its window, time takes
\* a petition or a proposal along the diagram and never out of a final status.
THEOREM TimeGoesForward == Spec => WaitingGoesForward
<1>1. ASSUME Inv, [Next]_vars
      PROVE  [/\ Pass /\ UNCHANGED NetworkWeight
              /\ kind = "petition" /\ challenged # None /\ Signed
                   => challenged <= VoteDeadline \/ now > ChallengeDeadline
              => Status' \in After(Status)]_vars
  BY <1>1, Forward
<1> QED BY <1>1, Invariant, PTL DEF Spec, WaitingGoesForward
=============================================================================
