-------------------------- MODULE InfonetSyncProofs --------------------------
(***************************************************************************)
(* Theorems about InfonetSync, for every value of its constants.           *)
(***************************************************************************)
EXTENDS InfonetSync, SequenceTheorems, WellFoundedInduction, TLAPS

------------------------------------------------------------------------------
(* Natural numbers *)

\* What holds of zero and of a number when it holds of the one before holds up to n.
LEMMA UpTo ==
  ASSUME NEW n \in Nat, NEW T, 0 \in T, \A i \in 1 .. n : i - 1 \in T => i \in T
  PROVE  \A i \in 0 .. n : i \in T
<1> DEFINE R == OpToRel(<, Nat)
           D == {i \in 0 .. n : i \notin T}
<1>1. SUFFICES ASSUME D # {} PROVE FALSE
  OBVIOUS
<1>2. PICK x \in D : \A y \in D : ~ (<<y, x>> \in R)
  <2>1. IsWellFoundedOn(R, Nat)
    BY NatLessThanWellFounded
  <2>2. D \in SUBSET Nat
    OBVIOUS
  <2> HIDE DEF R, D
  <2> QED BY <1>1, <2>1, <2>2, WFMin
<1>3. x # 0 /\ x \in 1 .. n
  OBVIOUS
<1>4. x - 1 \in D
  BY <1>3
<1>5. <<x - 1, x>> \in R
  BY <1>3 DEF OpToRel
<1> QED BY <1>2, <1>4, <1>5

\* Every nonempty set of naturals has a least element.
LEMMA LeastNat ==
  ASSUME NEW T \in SUBSET Nat, T # {}
  PROVE  \E x \in T : \A y \in T : x <= y
<1> DEFINE R == OpToRel(<, Nat)
<1>1. PICK x \in T : \A y \in T : ~ (<<y, x>> \in R)
  <2>1. IsWellFoundedOn(R, Nat)
    BY NatLessThanWellFounded
  <2> HIDE DEF R
  <2> QED BY <2>1, WFMin
<1>2. \A y \in T : y < x => <<y, x>> \in R
  BY DEF OpToRel
<1> HIDE DEF R
<1>3. \A y \in T : ~ (y < x)
  BY <1>1, <1>2
<1> QED BY <1>3

\* The lesser of two.
LEMMA MinOfTwo ==
  ASSUME NEW a \in Nat, NEW b \in Nat
  PROVE  Min({a, b}) = IF a <= b THEN a ELSE b
<1>1. \E x \in {a, b} : \A y \in {a, b} : x <= y
  OBVIOUS
<1>2. Min({a, b}) \in {a, b} /\ \A y \in {a, b} : Min({a, b}) <= y
  BY <1>1, Zenon DEF Min
<1> QED BY <1>2

------------------------------------------------------------------------------
(* Recursion over the naturals up to a bound *)

\* A step for each number, folded from a first value, is a function.
Steps(n, S) == [1 .. n -> [S -> S]]
Folded(first, step, n, S) ==
  \E f : /\ f[0] = first
         /\ \A i \in 1 .. n : f[i - 1] \in S /\ f[i] = step[i][f[i - 1]]

LEMMA Folding ==
  ASSUME NEW S, NEW first \in S, NEW n \in Nat, NEW step \in Steps(n, S)
  PROVE  Folded(first, step, n, S)
<1> DEFINE Folds(m, f) == /\ f[0] = first /\ f[m] \in S
                          /\ \A i \in 1 .. m : f[i - 1] \in S /\ f[i] = step[i][f[i - 1]]
           T == {m \in 0 .. n : \E f : Folds(m, f)}
<1>1. 0 \in T
  <2>1. Folds(0, [i \in 0 .. 0 |-> first])
    OBVIOUS
  <2> HIDE DEF Folds
  <2> QED BY <2>1
<1>2. ASSUME NEW m \in 1 .. n, m - 1 \in T PROVE m \in T
  <2>1. PICK g : Folds(m - 1, g)
    BY <1>2
  <2> DEFINE h == [i \in 0 .. m |-> IF i = m THEN step[m][g[m - 1]] ELSE g[i]]
  <2>2. h[0] = first /\ h[m] = step[m][g[m - 1]] /\ h[m] \in S
    BY <2>1 DEF Steps
  <2>3. ASSUME NEW i \in 1 .. m PROVE h[i - 1] \in S /\ h[i] = step[i][h[i - 1]]
    <3>1. i - 1 \in 0 .. m /\ i - 1 # m /\ h[i - 1] = g[i - 1]
      OBVIOUS
    <3>2. CASE i = m
      BY <2>1, <3>1, <3>2
    <3>3. CASE i # m
      <4>1. i \in 1 .. m - 1 /\ h[i] = g[i]
        BY <3>3
      <4> QED BY <2>1, <3>1, <4>1
    <3> QED BY <3>2, <3>3
  <2>5. Folds(m, h)
    <3> HIDE DEF h
    <3> QED BY <2>2, <2>3
  <2>6. m \in 0 .. n
    OBVIOUS
  <2> HIDE DEF Folds, h
  <2> QED BY <2>5, <2>6
<1>3. PICK f : Folds(n, f)
  <2>1. \A i \in 1 .. n : i - 1 \in T => i \in T
    BY <1>2
  <2> HIDE DEF T
  <2>2. \A i \in 0 .. n : i \in T
    BY <1>1, <2>1, UpTo
  <2> QED BY <2>2 DEF T
<1> QED BY <1>3 DEF Folded

------------------------------------------------------------------------------
(* Prefixes *)

\* An element that joins a sequence leaves what is there as it was.
LEMMA Appended ==
  ASSUME NEW A, NEW c \in Seq(A), NEW e \in A
  PROVE  /\ Append(c, e) \in Seq(A) /\ Len(Append(c, e)) = Len(c) + 1
         /\ Append(c, e)[Len(c) + 1] = e
         /\ \A i \in 1 .. Len(c) : Append(c, e)[i] = c[i]
OBVIOUS

\* A prefix, position by position.
LEMMA PrefixIs ==
  ASSUME NEW A, NEW c \in Seq(A), NEW d \in Seq(A)
  PROVE  IsPrefix(c, d) <=> Len(c) <= Len(d) /\ \A i \in 1 .. Len(c) : d[i] = c[i]
<1>1. SubSeq(c, 1, Len(c)) = c
  OBVIOUS
<1>2. CASE Len(c) <= Len(d)
  <2>1. SubSeq(d, 1, Len(c)) = [i \in 1 .. Len(c) |-> d[i]]
    BY <1>2
  <2>2. c = [i \in 1 .. Len(c) |-> c[i]]
    OBVIOUS
  <2>3. c = [i \in 1 .. Len(c) |-> d[i]] <=> \A i \in 1 .. Len(c) : d[i] = c[i]
    BY <2>2
  <2> QED BY <1>1, <1>2, <2>1, <2>3 DEF IsPrefix
<1>3. CASE ~ (Len(c) <= Len(d))
  BY <1>3 DEF IsPrefix
<1> QED BY <1>2, <1>3

------------------------------------------------------------------------------
(* The operators of InfonetSync *)

\* What Accept keeps of a chain, a page keeps of it.
Keeps(S, page) == \A d \in S : \A i \in 1 .. Len(page) : Accept(d, page[i]) \in S

LEMMA IngestedKeeps ==
  ASSUME NEW S, NEW c \in S, NEW page, Len(page) \in Nat, Keeps(S, page)
  PROVE  Ingested(c, page) \in S
<1> DEFINE Is(f) == f = [i \in 0 .. Len(page) |-> IF i = 0 THEN c ELSE Accept(f[i - 1], page[i])]
           after == CHOOSE f : Is(f)
<1>1. \E f : Is(f)
  <2> DEFINE step == [i \in 1 .. Len(page) |-> [d \in S |-> Accept(d, page[i])]]
  <2>1. \A i \in 1 .. Len(page) : \A d \in S : step[i][d] = Accept(d, page[i])
    OBVIOUS
  <2>2. step \in Steps(Len(page), S)
    BY DEF Keeps, Steps
  <2> HIDE DEF step
  <2>3. PICK g : /\ g[0] = c
                 /\ \A i \in 1 .. Len(page) : g[i - 1] \in S /\ g[i] = step[i][g[i - 1]]
    <3>1. Folded(c, step, Len(page), S)
      BY <2>2, Folding
    <3> QED BY <3>1 DEF Folded
  <2>4. \A i \in 1 .. Len(page) : g[i] = Accept(g[i - 1], page[i])
    BY <2>1, <2>3
  <2> DEFINE f == [i \in 0 .. Len(page) |-> g[i]]
  <2>5. ASSUME NEW i \in 0 .. Len(page)
        PROVE  f[i] = IF i = 0 THEN c ELSE Accept(f[i - 1], page[i])
    <3>1. CASE i = 0
      BY <2>3, <3>1
    <3>2. CASE i # 0
      <4>1. i \in 1 .. Len(page) /\ i - 1 \in 0 .. Len(page)
        BY <3>2
      <4> QED BY <2>4, <3>2, <4>1
    <3> QED BY <3>1, <3>2
  <2>6. Is(f)
    BY <2>5
  <2> HIDE DEF Is
  <2> QED BY <2>6
<1>2. Is(after)
  <2> HIDE DEF Is
  <2> QED BY <1>1
<1> HIDE DEF after
<1> DEFINE T == {i \in 0 .. Len(page) : after[i] \in S}
<1>3. 0 \in T
  BY <1>2
<1>4. ASSUME NEW i \in 1 .. Len(page), i - 1 \in T PROVE i \in T
  <2>1. after[i] = Accept(after[i - 1], page[i])
    BY <1>2
  <2> QED BY <1>4, <2>1 DEF Keeps
<1>5. Len(page) \in T
  <2>1. \A i \in 1 .. Len(page) : i - 1 \in T => i \in T
    BY <1>4
  <2> HIDE DEF T
  <2>2. \A i \in 0 .. Len(page) : i \in T
    BY <1>3, <2>1, UpTo
  <2> QED BY <2>2
<1>6. Ingested(c, page) = after[Len(page)]
  BY DEF Ingested, after
<1> QED BY <1>5, <1>6

EntriesOf(S) == [id : S, whole : BOOLEAN]
Entries(k) == EntriesOf(1 .. k)
Lists(k) == Seq(1 .. k)

\* The events on every answer are on the chain it was read from, and no more of them.
LEMMA SurfaceIs ==
  ASSUME NEW S, NEW some \in Seq(S)
  PROVE  Surface(some) \in Seq(EntriesOf(S)) /\ Len(Surface(some)) <= Len(some)
<1> DEFINE Add(p, e) == IF Shown(e) THEN Append(p, Entry(e, made[e].kind # "redacted"))
                        ELSE p
           Is(f) == f = [i \in 0 .. Len(some) |->
                           IF i = 0 THEN <<>> ELSE Add(f[i - 1], some[i])]
           page == CHOOSE f : Is(f)
<1>0. Len(some) \in Nat /\ \A i \in 1 .. Len(some) : some[i] \in S
  OBVIOUS
<1>1. ASSUME NEW p \in Seq(EntriesOf(S)), NEW i \in 1 .. Len(some)
      PROVE  Add(p, some[i]) \in Seq(EntriesOf(S)) /\ Len(Add(p, some[i])) <= Len(p) + 1
  <2>1. some[i] \in S
    BY <1>0
  <2>2. Entry(some[i], made[some[i]].kind # "redacted") \in EntriesOf(S)
    BY <2>1, Zenon DEF Entry, EntriesOf
  <2> QED BY <2>2
<1> HIDE DEF Add
<1>2. \E f : Is(f)
  <2> DEFINE step == [i \in 1 .. Len(some) |-> [p \in Seq(EntriesOf(S)) |-> Add(p, some[i])]]
  <2>1. \A i \in 1 .. Len(some) : \A p \in Seq(EntriesOf(S)) : step[i][p] = Add(p, some[i])
    OBVIOUS
  <2>2. step \in Steps(Len(some), Seq(EntriesOf(S)))
    BY <1>1 DEF Steps
  <2> HIDE DEF step
  <2>3. PICK g : /\ g[0] = <<>>
                 /\ \A i \in 1 .. Len(some) :
                      g[i - 1] \in Seq(EntriesOf(S)) /\ g[i] = step[i][g[i - 1]]
    <3>1. <<>> \in Seq(EntriesOf(S))
      OBVIOUS
    <3>2. Folded(<<>>, step, Len(some), Seq(EntriesOf(S)))
      BY <1>0, <2>2, <3>1, Folding
    <3> QED BY <3>2 DEF Folded
  <2>4. \A i \in 1 .. Len(some) : g[i] = Add(g[i - 1], some[i])
    BY <2>1, <2>3
  <2> DEFINE f == [i \in 0 .. Len(some) |-> g[i]]
  <2>5. ASSUME NEW i \in 0 .. Len(some)
        PROVE  f[i] = IF i = 0 THEN <<>> ELSE Add(f[i - 1], some[i])
    <3>1. CASE i = 0
      BY <2>3, <3>1
    <3>2. CASE i # 0
      <4>1. i \in 1 .. Len(some) /\ i - 1 \in 0 .. Len(some)
        BY <1>0, <3>2
      <4> QED BY <2>4, <3>2, <4>1
    <3> QED BY <3>1, <3>2
  <2>6. Is(f)
    BY <2>5
  <2> HIDE DEF Is
  <2> QED BY <2>6
<1>3. Is(page)
  <2> HIDE DEF Is
  <2> QED BY <1>2
<1> HIDE DEF page
<1> DEFINE T == {i \in 0 .. Len(some) : page[i] \in Seq(EntriesOf(S)) /\ Len(page[i]) <= i}
<1>4. 0 \in T
  BY <1>0, <1>3
<1>5. ASSUME NEW i \in 1 .. Len(some), i - 1 \in T PROVE i \in T
  <2>1. page[i] = Add(page[i - 1], some[i])
    BY <1>0, <1>3
  <2>2. page[i - 1] \in Seq(EntriesOf(S)) /\ Len(page[i - 1]) <= i - 1
    BY <1>5
  <2>3. page[i] \in Seq(EntriesOf(S)) /\ Len(page[i]) <= Len(page[i - 1]) + 1
    BY <1>1, <2>1, <2>2
  <2> QED BY <1>0, <2>2, <2>3
<1>6. Len(some) \in T
  <2>1. \A i \in 1 .. Len(some) : i - 1 \in T => i \in T
    BY <1>5
  <2>2. Len(some) \in Nat
    BY <1>0
  <2> HIDE DEF T
  <2>3. \A i \in 0 .. Len(some) : i \in T
    BY <1>4, <2>1, <2>2, UpTo
  <2> QED BY <2>2, <2>3
<1>7. Surface(some) = page[Len(some)]
  BY Zenon DEF Surface, page, Add
<1> QED BY <1>6, <1>7

\* get_events_after_locator finds a place on the chain, or none.
LEMMA KnownIs ==
  ASSUME NEW k \in Nat, NEW c \in Lists(k), NEW locator
  PROVE  Known(c, locator) \in 0 .. Len(c)
<1> DEFINE i == SelectInSeq(locator, LAMBDA e : e \in Range(c))
           I == {j \in 1 .. Len(c) : c[j] = locator[i]}
<1>1. Len(c) \in Nat
  BY DEF Lists
<1>2. Known(c, locator) = IF i = 0 THEN 0 ELSE IF I # {} THEN Min(I) ELSE 0
  BY DEF Known, SelectInSeq
<1>3. I # {} => Min(I) \in I
  <2>1. I \in SUBSET Nat
    <3> HIDE DEF i
    <3> QED OBVIOUS
  <2> HIDE DEF I
  <2>2. ASSUME I # {} PROVE \E x \in I : \A y \in I : x <= y
    BY <2>1, <2>2, LeastNat
  <2> QED BY <2>2, Zenon DEF Min
<1> HIDE DEF i
<1> QED BY <1>1, <1>2, <1>3

\* A page is a part of the chain, no longer than the limit.
LEMMA PageIs ==
  ASSUME NEW S, NEW c \in Seq(S), NEW start \in 0 .. Len(c)
  PROVE  Page(c, start) \in Seq(S) /\ Len(Page(c, start)) <= PageLimit
<1>1. PageLimit \in Nat /\ start \in Nat /\ Len(c) \in Nat /\ c \in Seq(S)
  BY SyncAssumption
<1> DEFINE upto == IF start + PageLimit <= Len(c) THEN start + PageLimit ELSE Len(c)
<1>2. Page(c, start) = SubSeq(c, start + 1, upto)
  <2>1. Min({start + PageLimit, Len(c)}) = upto
    <3>1. start + PageLimit \in Nat
      BY <1>1
    <3> QED BY <1>1, <3>1, MinOfTwo
  <2> QED BY <2>1 DEF Page, PageFrom
<1>3. upto \in Nat /\ upto <= Len(c) /\ upto <= start + PageLimit /\ start <= upto
  BY <1>1
<1> HIDE DEF upto
<1> QED BY <1>1, <1>2, <1>3

------------------------------------------------------------------------------
(* The inductive invariant *)

\* A chain never holds an event at a place beyond its number: an event is younger
\* than what it links to.
Sound(k) == {c \in Lists(k) : \A i \in 1 .. Len(c) : c[i] >= i}

MadeOK ==
  /\ made \in Seq([prev : Nat, kind : KindsOfEvent]) /\ Len(made) <= MaxEvents
  /\ \A e \in 1 .. Len(made) : made[e].prev < e

Fits(s, n, k) ==
  /\ s.at \in {"idle", "asked", "answered", "small", "again"}
  /\ s.at # "idle" => s.peer \in Peers[n] /\ s.rounds \in 0 .. MaxRounds - 1
  /\ s.at = "answered" => s.page \in Seq(Entries(k)) /\ Len(s.page) <= PageLimit
  /\ s.at = "small" => ResetBelow # 0

SessionsOK ==
  /\ DOMAIN session = Nodes
  /\ \A n \in Nodes : /\ DOMAIN session[n] = Threads
                      /\ \A t \in Threads : Fits(session[n][t], n, Len(made))

\* A push sends what is on the chain beyond the index, so the index that follows it
\* is not beyond the events made.
PushType(k) == {p \in [next : Nat, at : {"idle", "sent", "taken"}, batch : Lists(k)] :
                  Len(p.batch) <= BatchSize /\ p.next + Len(p.batch) <= k}

Inv ==
  /\ MadeOK
  /\ chain \in [Nodes -> Sound(Len(made))]
  /\ SessionsOK
  /\ push \in [Nodes -> PushType(Len(made))]
  /\ sent \in [Nodes -> SUBSET (1 .. Len(made))]
  /\ crashes \in 0 .. MaxCrashes /\ losses \in 0 .. MaxLosses

LEMMA Numbers ==
  /\ PageLimit \in Nat /\ MaxRounds \in Nat /\ MaxRounds > 0 /\ BatchSize \in Nat
  /\ ResetBelow \in Nat /\ MaxEvents \in Nat /\ SoloLength \in Nat
  /\ SoloLength <= MaxEvents /\ MaxCrashes \in Nat /\ MaxLosses \in Nat
  /\ LocatorDense \in Nat /\ LocatorSize \in Nat
BY SyncAssumption

LEMMA MadeHolds ==
  ASSUME MadeOK
  PROVE  /\ Len(made) \in Nat /\ DOMAIN made = 1 .. Len(made)
         /\ \A e \in 1 .. Len(made) : /\ made[e].prev \in Nat /\ made[e].prev < e
                                      /\ made[e].kind \in KindsOfEvent
<1> DEFINE R == [prev : Nat, kind : KindsOfEvent]
<1>1. made \in Seq(R)
  BY DEF MadeOK
<1>2. Len(made) \in Nat /\ DOMAIN made = 1 .. Len(made) /\ \A e \in 1 .. Len(made) : made[e] \in R
  <2> HIDE DEF R
  <2> QED BY <1>1
<1>3. \A r \in R : r.prev \in Nat /\ r.kind \in KindsOfEvent
  OBVIOUS
<1>4. \A e \in 1 .. Len(made) : made[e].prev < e
  BY DEF MadeOK
<1> HIDE DEF R
<1> QED BY <1>2, <1>3, <1>4

LEMMA InvTypes == Inv => TypeOK
<1> SUFFICES ASSUME Inv PROVE TypeOK
  OBVIOUS
<1>1. DOMAIN made = 1 .. Len(made) /\ Len(made) \in Nat
  BY MadeHolds DEF Inv
<1>2. \A e \in DOMAIN made : made[e].prev \in 0 .. e - 1 /\ made[e].kind \in KindsOfEvent
  BY <1>1, MadeHolds DEF Inv
<1>3. chain \in [Nodes -> Seq(DOMAIN made)]
  BY <1>1 DEF Inv, Sound, Lists
<1>4. \A n \in Nodes : \A t \in Threads :
        /\ session[n][t].at \in {"idle", "asked", "answered", "small", "again"}
        /\ session[n][t].at # "idle" =>
              /\ session[n][t].peer \in Peers[n] /\ session[n][t].rounds \in 0 .. MaxRounds - 1
        /\ session[n][t].at = "answered" => Len(session[n][t].page) <= PageLimit
  BY DEF Inv, SessionsOK, Fits
<1>5. \A n \in Nodes : /\ push[n].at \in {"idle", "sent", "taken"}
                       /\ push[n].next \in 0 .. Len(made)
                       /\ Len(push[n].batch) <= BatchSize
  <2> TAKE n \in Nodes
  <2>1. push[n] \in PushType(Len(made))
    BY DEF Inv
  <2>2. Len(push[n].batch) \in Nat
    BY <2>1 DEF PushType, Lists
  <2> QED BY <1>1, <2>1, <2>2 DEF PushType
<1> QED BY <1>1, <1>2, <1>3, <1>4, <1>5 DEF Inv, MadeOK, TypeOK

------------------------------------------------------------------------------
(* What every step keeps *)

LEMMA TypesGrow ==
  ASSUME NEW j \in Nat, NEW k \in Nat, j <= k
  PROVE  /\ Lists(j) \subseteq Lists(k) /\ Sound(j) \subseteq Sound(k)
         /\ PushType(j) \subseteq PushType(k)
         /\ \A n, s : Fits(s, n, j) => Fits(s, n, k)
<1>1. 1 .. j \subseteq 1 .. k /\ Entries(j) \subseteq Entries(k)
  BY DEF Entries, EntriesOf
<1>2. Lists(j) \subseteq Lists(k) /\ Seq(Entries(j)) \subseteq Seq(Entries(k))
  BY <1>1, SeqMonotonic DEF Lists
<1>3. Sound(j) \subseteq Sound(k)
  BY <1>2 DEF Sound
<1>4. PushType(j) \subseteq PushType(k)
  <2> SUFFICES ASSUME NEW p \in PushType(j) PROVE p \in PushType(k)
    OBVIOUS
  <2>1. Len(p.batch) \in Nat /\ p.next \in Nat
    BY DEF PushType, Lists
  <2> QED BY <1>2, <2>1 DEF PushType
<1>5. \A n, s : Fits(s, n, j) => Fits(s, n, k)
  BY <1>2 DEF Fits
<1> QED BY <1>2, <1>3, <1>4, <1>5

LEMMA SoundAppend ==
  ASSUME NEW k \in Nat, NEW c \in Sound(k), NEW e \in 1 .. k, Len(c) < e
  PROVE  Append(c, e) \in Sound(k)
<1>1. c \in Seq(1 .. k) /\ Len(c) \in Nat /\ \A i \in 1 .. Len(c) : c[i] >= i
  BY DEF Sound, Lists
<1>2. /\ Append(c, e) \in Seq(1 .. k) /\ Len(Append(c, e)) = Len(c) + 1
      /\ Append(c, e)[Len(c) + 1] = e
      /\ \A i \in 1 .. Len(c) : Append(c, e)[i] = c[i]
  BY <1>1, Appended
<1>3. ASSUME NEW i \in 1 .. Len(c) + 1 PROVE Append(c, e)[i] >= i
  <2>1. CASE i = Len(c) + 1
    BY <1>1, <1>2, <2>1
  <2>2. CASE i # Len(c) + 1
    <3>1. i \in 1 .. Len(c)
      BY <1>1, <2>2
    <3> QED BY <1>1, <1>2, <3>1
  <2> QED BY <2>1, <2>2
<1> QED BY <1>2, <1>3 DEF Sound, Lists

\* A sound chain is no longer than the events made.
LEMMA SoundIsShort ==
  ASSUME NEW k \in Nat, NEW c \in Sound(k)
  PROVE  /\ c \in Lists(k) /\ Len(c) \in Nat /\ Len(c) <= k
         /\ LastOf(c) \in 0 .. k /\ LastOf(c) >= Len(c)
         /\ c = <<>> \/ LastOf(c) = c[Len(c)]
<1>1. c \in Seq(1 .. k) /\ \A i \in 1 .. Len(c) : c[i] >= i
  BY DEF Sound, Lists
<1>2. CASE c = <<>>
  BY <1>1, <1>2 DEF LastOf, Genesis, Lists
<1>3. CASE c # <<>>
  <2>1. Len(c) \in 1 .. Len(c) /\ c[Len(c)] \in 1 .. k /\ c[Len(c)] >= Len(c)
    BY <1>1, <1>3
  <2>2. LastOf(c) = c[Len(c)]
    BY <1>3 DEF LastOf, Last
  <2> QED BY <1>1, <2>1, <2>2 DEF Lists
<1> QED BY <1>2, <1>3

LEMMA AcceptIs ==
  ASSUME MadeOK, NEW c \in Sound(Len(made)), NEW x \in Entries(Len(made))
  PROVE  /\ Accept(c, x) \in Sound(Len(made))
         /\ \/ Accept(c, x) = c
            \/ Accept(c, x) = Append(c, x.id) /\ made[x.id].prev = LastOf(c)
<1>1. /\ Len(made) \in Nat /\ x.id \in 1 .. Len(made)
      /\ made[x.id].prev < x.id /\ made[x.id].prev \in Nat
  <2>1. x.id \in 1 .. Len(made)
    BY DEF Entries, EntriesOf
  <2> QED BY <2>1, MadeHolds
<1>2. \/ Accept(c, x) = c
      \/ Accept(c, x) = Append(c, x.id) /\ made[x.id].prev = LastOf(c)
  BY Zenon DEF Accept, Follows
<1>3. ASSUME made[x.id].prev = LastOf(c) PROVE Append(c, x.id) \in Sound(Len(made))
  <2>1. Len(c) \in Nat /\ LastOf(c) >= Len(c)
    BY <1>1, SoundIsShort
  <2>2. Len(c) < x.id
    BY <1>1, <1>3, <2>1
  <2> QED BY <1>1, <2>2, SoundAppend
<1> QED BY <1>2, <1>3

LEMMA IngestedIs ==
  ASSUME MadeOK, NEW c \in Sound(Len(made)), NEW page \in Seq(Entries(Len(made)))
  PROVE  Ingested(c, page) \in Sound(Len(made)) /\ IsPrefix(c, Ingested(c, page))
<1> DEFINE k == Len(made)
           S == {d \in Sound(k) : Len(c) <= Len(d) /\ \A i \in 1 .. Len(c) : d[i] = c[i]}
<1>1. k \in Nat
  BY DEF MadeOK
<1>2. \A d \in Sound(k) : d \in Seq(1 .. k)
  BY DEF Sound, Lists
<1>3. Keeps(S, page)
  <2> SUFFICES ASSUME NEW d \in S, NEW i \in 1 .. Len(page) PROVE Accept(d, page[i]) \in S
    BY DEF Keeps
  <2>1. page[i] \in Entries(k)
    OBVIOUS
  <2>2. d \in Sound(k) /\ d \in Seq(1 .. k) /\ c \in Seq(1 .. k)
    BY <1>2
  <2>3. /\ Accept(d, page[i]) \in Sound(k)
        /\ Accept(d, page[i]) = d \/ Accept(d, page[i]) = Append(d, page[i].id)
    BY <2>1, <2>2, AcceptIs
  <2>4. page[i].id \in 1 .. k
    BY <2>1 DEF Entries, EntriesOf
  <2>5. /\ Len(Append(d, page[i].id)) = Len(d) + 1 /\ Len(d) \in Nat
        /\ \A j \in 1 .. Len(d) : Append(d, page[i].id)[j] = d[j]
    BY <2>2, <2>4, Appended
  <2>6. Len(c) \in Nat /\ Len(c) <= Len(d) /\ \A j \in 1 .. Len(c) : d[j] = c[j]
    BY <2>2
  <2>7. \A j \in 1 .. Len(c) : j \in 1 .. Len(d)
    BY <2>5, <2>6
  <2> QED BY <2>3, <2>5, <2>6, <2>7
<1>4. Len(page) \in Nat /\ c \in S
  BY <1>2
<1>5. Ingested(c, page) \in S
  <2> HIDE DEF S
  <2> QED BY <1>3, <1>4, IngestedKeeps
<1>6. IsPrefix(c, Ingested(c, page))
  BY <1>2, <1>5, PrefixIs
<1> QED BY <1>5, <1>6

\* What a step that makes no event keeps of the invariant, one variable at a time.
LEMMA SessionMoves ==
  ASSUME SessionsOK, NEW n \in Nodes, NEW t \in Threads, NEW s,
         Fits(s, n, Len(made)), session' = [session EXCEPT ![n][t] = s],
         Len(made') = Len(made)
  PROVE  SessionsOK'
<1>1. DOMAIN session' = Nodes /\ \A m \in Nodes : DOMAIN session'[m] = Threads
  BY DEF SessionsOK
<1>2. ASSUME NEW m \in Nodes, NEW u \in Threads PROVE Fits(session'[m][u], m, Len(made))
  <2>1. CASE m = n /\ u = t
    <3>1. session'[m][u] = s
      BY <2>1 DEF SessionsOK
    <3> QED BY <2>1, <3>1
  <2>2. CASE ~ (m = n /\ u = t)
    <3>1. session'[m][u] = session[m][u]
      BY <2>2 DEF SessionsOK
    <3> QED BY <3>1 DEF SessionsOK
  <2> QED BY <2>1, <2>2
<1> QED BY <1>1, <1>2 DEF SessionsOK

LEMMA SessionHolds ==
  ASSUME SessionsOK, NEW n \in Nodes, NEW t \in Threads
  PROVE  Fits(session[n][t], n, Len(made))
BY DEF SessionsOK

LEMMA PushHolds ==
  ASSUME Inv, NEW n \in Nodes
  PROVE  /\ push[n] \in PushType(Len(made))
         /\ push[n].next \in Nat /\ push[n].batch \in Lists(Len(made))
         /\ Len(push[n].batch) \in Nat /\ Len(push[n].batch) <= BatchSize
         /\ push[n].next + Len(push[n].batch) <= Len(made)
<1>1. push[n] \in PushType(Len(made))
  BY DEF Inv
<1> QED BY <1>1 DEF PushType, Lists

LEMMA ChainHolds ==
  ASSUME Inv, NEW n \in Nodes
  PROVE  /\ Len(made) \in Nat
         /\ chain[n] \in Sound(Len(made)) /\ chain[n] \in Lists(Len(made))
         /\ chain[n] \in Seq(1 .. Len(made))
         /\ Len(chain[n]) \in Nat /\ Len(chain[n]) <= Len(made)
<1>1. Len(made) \in Nat /\ chain[n] \in Sound(Len(made))
  BY MadeHolds DEF Inv
<1> QED BY <1>1, SoundIsShort DEF Lists

LEMMA SmallTypes ==
  ASSUME NEW k \in Nat
  PROVE  <<>> \in Sound(k) /\ <<>> \in Lists(k) /\ NoPush \in PushType(k)
         /\ \A n : Fits(Idle, n, k)
<1>1. <<>> \in Lists(k) /\ Len(<<>>) = 0
  BY DEF Lists
<1>2. NoPush \in PushType(k)
  BY <1>1, Numbers DEF NoPush, PushType
<1>3. \A n : Fits(Idle, n, k)
  BY DEF Fits, Idle
<1> QED BY <1>1, <1>2, <1>3 DEF Sound

------------------------------------------------------------------------------
(* Every step keeps the invariant *)

LEMMA InitOK == Init => Inv
<1> SUFFICES ASSUME Init PROVE Inv
  OBVIOUS
<1>1. PICK k \in 0 .. SoloLength :
        /\ made = [e \in 1 .. (IF Solo = {} THEN 0 ELSE k) |->
                     [prev |-> e - 1, kind |-> "plain"]]
        /\ chain = [n \in Nodes |-> [e \in 1 .. (IF n \in Solo THEN k ELSE 0) |-> e]]
  BY DEF Init
<1> DEFINE l == IF Solo = {} THEN 0 ELSE k
<1>2. k \in Nat /\ l \in Nat /\ l <= MaxEvents
  BY Numbers
<1>3. MadeOK /\ Len(made) = l
  <2>1. made = [e \in 1 .. l |-> [prev |-> e - 1, kind |-> "plain"]]
    BY <1>1
  <2> HIDE DEF l
  <2>2. \A e \in 1 .. l : [prev |-> e - 1, kind |-> "plain"] \in [prev : Nat, kind : KindsOfEvent]
    BY <1>2 DEF KindsOfEvent
  <2>3. made \in Seq([prev : Nat, kind : KindsOfEvent]) /\ Len(made) = l
    BY <1>2, <2>1, <2>2
  <2>4. \A e \in 1 .. Len(made) : made[e].prev < e
    BY <1>2, <2>1, <2>3
  <2> QED BY <1>2, <2>3, <2>4 DEF MadeOK
<1>4. chain \in [Nodes -> Sound(Len(made))]
  <2>1. ASSUME NEW n \in Nodes
        PROVE  [e \in 1 .. (IF n \in Solo THEN k ELSE 0) |-> e] \in Sound(l)
    <3> DEFINE j == IF n \in Solo THEN k ELSE 0
               c == [e \in 1 .. j |-> e]
    <3>1. j \in Nat /\ j <= l
      BY <1>2
    <3> HIDE DEF j, l
    <3>2. c \in Seq(1 .. l) /\ Len(c) = j
      BY <1>2, <3>1
    <3>3. c \in Sound(l)
      BY <1>2, <3>1, <3>2 DEF Sound, Lists
    <3> QED BY <3>3 DEF j
  <2> HIDE DEF l
  <2> QED BY <1>1, <1>3, <2>1
<1>5. SessionsOK
  BY <1>2, <1>3, SmallTypes DEF Init, SessionsOK
<1>6. push \in [Nodes -> PushType(Len(made))]
  BY <1>2, <1>3, SmallTypes DEF Init
<1>7. /\ sent \in [Nodes -> SUBSET (1 .. Len(made))]
      /\ crashes \in 0 .. MaxCrashes /\ losses \in 0 .. MaxLosses
  BY Numbers DEF Init
<1> QED BY <1>3, <1>4, <1>5, <1>6, <1>7 DEF Inv

LEMMA MakeOK ==
  ASSUME Inv, NEW n \in Nodes, NEW kind \in Kinds, Make(n, kind)
  PROVE  Inv'
<1> DEFINE k == Len(made)
           r == [prev |-> LastOf(chain[n]), kind |-> kind]
<1>1. k \in Nat /\ k < MaxEvents /\ MaxEvents \in Nat /\ made' = Append(made, r)
  BY MadeHolds, Numbers DEF Inv, Make
<1>2. r \in [prev : Nat, kind : KindsOfEvent] /\ r.prev < k + 1
  <2>1. LastOf(chain[n]) \in 0 .. k
    BY <1>1, ChainHolds, SoundIsShort
  <2> QED BY <1>1, <2>1, SyncAssumption
<1> HIDE DEF r
<1>3. Len(made') = k + 1 /\ MadeOK'
  <2>1. /\ made' \in Seq([prev : Nat, kind : KindsOfEvent]) /\ Len(made') = k + 1
        /\ made'[k + 1] = r /\ \A e \in 1 .. k : made'[e] = made[e]
    BY <1>1, <1>2, Appended DEF Inv, MadeOK
  <2>2. ASSUME NEW e \in 1 .. k + 1 PROVE made'[e].prev < e
    <3>1. CASE e = k + 1
      BY <1>2, <2>1, <3>1
    <3>2. CASE e # k + 1
      <4>1. e \in 1 .. k
        BY <1>1, <3>2
      <4> QED BY <2>1, <4>1, MadeHolds DEF Inv
    <3> QED BY <3>1, <3>2
  <2> QED BY <1>1, <2>1, <2>2 DEF MadeOK
<1>4. /\ Sound(k) \subseteq Sound(k + 1) /\ PushType(k) \subseteq PushType(k + 1)
      /\ \A m, s : Fits(s, m, k) => Fits(s, m, k + 1)
  BY <1>1, TypesGrow
<1>5. chain' \in [Nodes -> Sound(k + 1)]
  <2>1. chain' = [chain EXCEPT ![n] = Append(chain[n], k + 1)]
    BY DEF Make
  <2>2. Append(chain[n], k + 1) \in Sound(k + 1)
    <3>1. chain[n] \in Sound(k + 1) /\ Len(chain[n]) < k + 1
      BY <1>1, <1>4, ChainHolds
    <3> QED BY <1>1, <3>1, SoundAppend
  <2>3. chain \in [Nodes -> Sound(k + 1)]
    BY <1>4 DEF Inv
  <2> QED BY <2>1, <2>2, <2>3
<1>6. SessionsOK'
  BY <1>3, <1>4 DEF Inv, SessionsOK, Make
<1>7. push' \in [Nodes -> PushType(k + 1)]
  BY <1>4 DEF Inv, Make
<1>8. sent' \in [Nodes -> SUBSET (1 .. k + 1)]
  BY <1>1 DEF Inv, Make
<1>9. crashes' \in 0 .. MaxCrashes /\ losses' \in 0 .. MaxLosses
  BY DEF Inv, Make
<1> QED BY <1>3, <1>5, <1>6, <1>7, <1>8, <1>9 DEF Inv

\* A step of one session, which makes no event, and leaves the chains sound.
LEMMA SessionStep ==
  ASSUME Inv, NEW n \in Nodes, NEW t \in Threads, NEW s, Fits(s, n, Len(made)),
         session' = [session EXCEPT ![n][t] = s],
         chain' \in [Nodes -> Sound(Len(made))], losses' \in 0 .. MaxLosses,
         UNCHANGED <<made, push, sent, crashes>>
  PROVE  Inv'
<1>1. SessionsOK'
  BY SessionMoves DEF Inv
<1> QED BY <1>1 DEF Inv, MadeOK

LEMMA AskOK ==
  ASSUME Inv, NEW n \in Nodes, NEW t \in Threads, NEW p \in Nodes, Ask(n, t, p)
  PROVE  Inv'
<1>1. PICK r : session' = [session EXCEPT ![n][t] = Asking(n, p, r)] /\ r \in 0 .. MaxRounds - 1
  <2>1. CASE session[n][t].at = "idle"
    BY <2>1, Numbers DEF Ask
  <2>2. CASE session[n][t].at # "idle"
    <3>1. session[n][t].rounds \in 0 .. MaxRounds - 1
      BY <2>2, SessionHolds DEF Fits, Inv
    <3>2. session' = [session EXCEPT ![n][t] = Asking(n, p, session[n][t].rounds)]
      BY <2>2 DEF Ask, Inv, SessionsOK
    <3> QED BY <3>1, <3>2
  <2> QED BY <2>1, <2>2
<1>2. Fits(Asking(n, p, r), n, Len(made))
  BY <1>1 DEF Fits, Asking, Ask
<1> QED BY <1>1, <1>2, SessionStep DEF Ask, Inv

LEMMA AnswerOK ==
  ASSUME Inv, NEW n \in Nodes, NEW t \in Threads, NEW p \in Nodes, Answer(n, t, p)
  PROVE  Inv'
<1> DEFINE s == session[n][t]
           start == Known(chain[p], s.locator)
           shown == Surface(Page(chain[p], start))
           a == [at |-> "answered", peer |-> p, rounds |-> s.rounds,
                 forked |-> Forked(start, s.locator), page |-> shown]
<1>1. session' = [session EXCEPT ![n][t] = a]
  BY DEF Answer
<1>2. s.at = "asked" /\ s.peer = p
  BY DEF Answer
<1>3. p \in Peers[n] /\ s.rounds \in 0 .. MaxRounds - 1
  BY <1>2, SessionHolds DEF Fits, Inv
<1>4. shown \in Seq(Entries(Len(made))) /\ Len(shown) <= PageLimit
  <2>1. Len(made) \in Nat /\ chain[p] \in Lists(Len(made))
    BY ChainHolds
  <2>2. start \in 0 .. Len(chain[p])
    BY <2>1, KnownIs
  <2> HIDE DEF start
  <2>3. Page(chain[p], start) \in Seq(1 .. Len(made)) /\ Len(Page(chain[p], start)) <= PageLimit
    BY <2>1, <2>2, PageIs DEF Lists
  <2>4. /\ shown \in Seq(Entries(Len(made)))
        /\ Len(shown) <= Len(Page(chain[p], start))
    BY <2>3, SurfaceIs DEF Entries
  <2>5. Len(shown) \in Nat /\ Len(Page(chain[p], start)) \in Nat
    BY <2>3, <2>4
  <2> QED BY <2>3, <2>4, <2>5, Numbers
<1>5. Fits(a, n, Len(made))
  <2> HIDE DEF s, start, shown
  <2> QED BY <1>3, <1>4 DEF Fits
<1> HIDE DEF a
<1> QED BY <1>1, <1>5, SessionStep DEF Answer, Inv

LEMMA TakeOK ==
  ASSUME Inv, NEW n \in Nodes, NEW t \in Threads, NEW p \in Nodes, Take(n, t, p)
  PROVE  Inv'
<1> DEFINE s == session[n][t]
<1>1. /\ s.at = "answered" /\ s.peer = p /\ s.peer \in Peers[n]
      /\ s.rounds \in 0 .. MaxRounds - 1 /\ s.page \in Seq(Entries(Len(made)))
  <2>1. s.at = "answered" /\ s.peer = p
    BY DEF Take
  <2>2. Fits(s, n, Len(made))
    BY SessionHolds DEF Inv
  <2> QED BY <2>1, <2>2 DEF Fits
<1>2. \A r \in 0 .. MaxRounds - 1 : Fits(Again(s, r), n, Len(made))
  BY <1>1 DEF Fits, Again
<1>3. Fits(Idle, n, Len(made))
  BY ChainHolds, SmallTypes
<1>4. CASE TakeFork(n, t)
  <2>0. chain' = chain
    BY <1>4 DEF TakeFork
  <2>1. CASE IsSmall(chain[n])
    <3> DEFINE r == [at |-> "small", peer |-> s.peer, rounds |-> s.rounds]
    <3>1. session' = [session EXCEPT ![n][t] = r]
      BY <1>4, <2>1 DEF TakeFork
    <3>2. Fits(r, n, Len(made))
      <4>1. ResetBelow # 0
        BY <2>1, ChainHolds, Numbers DEF IsSmall
      <4> HIDE DEF s
      <4> QED BY <1>1, <4>1 DEF Fits
    <3> HIDE DEF r
    <3> QED BY <2>0, <3>1, <3>2, SessionStep DEF Take, Inv
  <2>2. CASE ~ IsSmall(chain[n])
    <3>1. session' = [session EXCEPT ![n][t] = Idle]
      BY <1>4, <2>2 DEF TakeFork
    <3> QED BY <1>3, <2>0, <3>1, SessionStep DEF Take, Inv
  <2> QED BY <2>1, <2>2
<1>5. CASE TakePage(n, t)
  <2>1. chain' \in [Nodes -> Sound(Len(made))]
    <3>1. Ingested(chain[n], s.page) \in Sound(Len(made))
      BY <1>1, ChainHolds, IngestedIs DEF Inv
    <3> QED BY <1>5, <3>1 DEF TakePage, Inv
  <2>2. CASE Continues(chain[n], s)
    <3>1. session' = [session EXCEPT ![n][t] = Again(s, s.rounds + 1)]
      BY <1>5, <2>2 DEF TakePage
    <3>2. Fits(Again(s, s.rounds + 1), n, Len(made))
      BY <1>1, <1>2, <2>2, Numbers DEF Continues
    <3> QED BY <2>1, <3>1, <3>2, SessionStep DEF Take, Inv
  <2>3. CASE ~ Continues(chain[n], s)
    <3>1. session' = [session EXCEPT ![n][t] = Idle]
      BY <1>5, <2>3 DEF TakePage
    <3> QED BY <1>3, <2>1, <3>1, SessionStep DEF Take, Inv
  <2> QED BY <2>2, <2>3
<1> QED BY <1>4, <1>5 DEF Take

LEMMA ResetChainOK ==
  ASSUME Inv, NEW n \in Nodes, NEW t \in Threads, NEW p \in Nodes, ResetChain(n, t, p)
  PROVE  Inv'
<1> DEFINE s == session[n][t]
<1>1. s.at = "small" /\ session' = [session EXCEPT ![n][t] = Again(s, s.rounds)]
  BY DEF ResetChain
<1>2. Fits(Again(s, s.rounds), n, Len(made))
  <2>1. Fits(s, n, Len(made))
    BY SessionHolds DEF Inv
  <2> HIDE DEF s
  <2> QED BY <1>1, <2>1 DEF Fits, Again
<1>3. chain' \in [Nodes -> Sound(Len(made))]
  BY ChainHolds, SmallTypes DEF ResetChain, Inv
<1> QED BY <1>1, <1>2, <1>3, SessionStep DEF ResetChain, Inv

LEMMA LoseSyncOK ==
  ASSUME Inv, NEW n \in Nodes, NEW t \in Threads, LoseSync(n, t)
  PROVE  Inv'
<1>1. Fits(Idle, n, Len(made)) /\ losses' \in 0 .. MaxLosses
  <2>1. Fits(Idle, n, Len(made))
    BY ChainHolds, SmallTypes
  <2>2. losses \in 0 .. MaxLosses
    BY DEF Inv
  <2> QED BY <2>1, <2>2, Numbers DEF LoseSync
<1> QED BY <1>1, SessionStep DEF LoseSync, Inv

LEMMA PieceIs ==
  ASSUME NEW S, NEW c \in Seq(S), NEW from \in Nat, NEW upto \in Nat,
         from <= upto, upto <= Len(c)
  PROVE  /\ SubSeq(c, from + 1, upto) \in Seq(S)
         /\ Len(SubSeq(c, from + 1, upto)) = upto - from
         /\ \A i \in 1 .. upto - from : SubSeq(c, from + 1, upto)[i] = c[from + i]
<1> DEFINE m == from + 1
           s == SubSeq(c, m, upto)
<1>1. m \in Int /\ upto \in Int /\ \A i \in m .. upto : c[i] \in S
  OBVIOUS
<1>2. /\ s \in Seq(S) /\ Len(s) = IF m <= upto THEN upto - m + 1 ELSE 0
      /\ \A i \in 1 .. upto - m + 1 : s[i] = c[m + i - 1]
  <2> HIDE DEF m
  <2> QED BY <1>1, SubSeqProperties
<1>3. upto - m + 1 = upto - from /\ \A i \in 1 .. upto - from : m + i - 1 = from + i
  OBVIOUS
<1>4. Len(s) = upto - from
  BY <1>2, <1>3
<1> HIDE DEF s
<1>5. \A i \in 1 .. upto - from : s[i] = c[from + i]
  BY <1>2, <1>3
<1> QED BY <1>2, <1>4, <1>5 DEF s

\* A push cut short sends nothing more and keeps its index.
LEMMA CutPush ==
  ASSUME NEW k \in Nat, NEW p \in PushType(k)
  PROVE  Failed(p) \in PushType(k)
<1>1. <<>> \in Lists(k) /\ Len(<<>>) = 0
  BY DEF Lists
<1>2. p \in [next : Nat, at : {"idle", "sent", "taken"}, batch : Lists(k)]
      /\ Len(p.batch) \in Nat /\ p.next + Len(p.batch) <= k
  BY DEF PushType, Lists
<1>3. Failed(p) = [next |-> p.next, at |-> "idle", batch |-> <<>>]
  BY DEF Failed, NoPush
<1>4. p.next \in Nat /\ p.next + 0 <= k /\ 0 <= BatchSize
  BY <1>2, Numbers
<1> QED BY <1>1, <1>3, <1>4 DEF PushType

LEMMA SendPushOK ==
  ASSUME Inv, NEW n \in Nodes, SendPush(n)
  PROVE  Inv'
<1> DEFINE k == Len(made)
           from == push[n].next
           upto == IF from + BatchSize <= Len(chain[n]) THEN from + BatchSize ELSE Len(chain[n])
           b == SubSeq(chain[n], from + 1, upto)
<1>1. /\ k \in Nat /\ chain[n] \in Seq(1 .. k) /\ Len(chain[n]) \in Nat /\ Len(chain[n]) <= k
      /\ from \in Nat /\ from < Len(chain[n]) /\ BatchSize \in Nat
  BY ChainHolds, PushHolds, Numbers DEF SendPush
<1>2. push' = [push EXCEPT ![n] = [next |-> push[n].next, at |-> "sent", batch |-> b]]
  <2>1. from + BatchSize \in Nat /\ Len(chain[n]) \in Nat
    BY <1>1
  <2>2. Min({from + BatchSize, Len(chain[n])}) = upto
    <3> HIDE DEF from
    <3> QED BY <2>1, MinOfTwo
  <2> QED BY <2>2 DEF SendPush
<1>3. b \in Lists(k) /\ Len(b) <= BatchSize /\ from + Len(b) <= k
  <2>1. upto \in Nat /\ from <= upto /\ upto <= Len(chain[n]) /\ upto <= from + BatchSize
    BY <1>1
  <2>2. b \in Seq(1 .. k) /\ Len(b) = upto - from
    <3> HIDE DEF upto, from
    <3> QED BY <1>1, <2>1, PieceIs
  <2> HIDE DEF upto, from, b
  <2> QED BY <1>1, <2>1, <2>2 DEF Lists
<1> HIDE DEF b
<1>4. push' \in [Nodes -> PushType(k)]
  <2>1. push \in [Nodes -> PushType(k)]
    BY DEF Inv
  <2>2. [next |-> push[n].next, at |-> "sent", batch |-> b] \in PushType(k)
    BY <1>1, <1>3 DEF PushType
  <2> QED BY <1>2, <2>1, <2>2
<1> QED BY <1>4 DEF SendPush, Inv, MadeOK, SessionsOK

LEMMA EntriesWhole ==
  ASSUME NEW S, NEW b \in Seq(S)
  PROVE  [i \in DOMAIN b |-> Entry(b[i], TRUE)] \in Seq(EntriesOf(S))
<1>1. DOMAIN b = 1 .. Len(b) /\ Len(b) \in Nat
  OBVIOUS
<1>2. \A i \in 1 .. Len(b) : Entry(b[i], TRUE) \in EntriesOf(S)
  BY DEF Entry, EntriesOf
<1>3. [i \in 1 .. Len(b) |-> Entry(b[i], TRUE)] \in [1 .. Len(b) -> EntriesOf(S)]
  BY <1>2
<1>4. \A f : f \in [1 .. Len(b) -> EntriesOf(S)] => f \in Seq(EntriesOf(S))
  BY <1>1, SeqDef
<1> QED BY <1>1, <1>3, <1>4

LEMMA WholeEntries ==
  ASSUME NEW k \in Nat, NEW b \in Lists(k)
  PROVE  [i \in DOMAIN b |-> Entry(b[i], TRUE)] \in Seq(Entries(k))
BY EntriesWhole DEF Lists, Entries

LEMMA TakePushOK ==
  ASSUME Inv, NEW n \in Nodes, NEW p \in Nodes, TakePush(n, p)
  PROVE  Inv'
<1> DEFINE k == Len(made)
           page == [i \in DOMAIN push[n].batch |-> Entry(push[n].batch[i], TRUE)]
<1>1. k \in Nat /\ page \in Seq(Entries(k))
  BY ChainHolds, PushHolds, WholeEntries
<1>2. chain' \in [Nodes -> Sound(k)]
  <2>1. chain' = [chain EXCEPT ![p] = Ingested(chain[p], page)]
    BY DEF TakePush
  <2> HIDE DEF page
  <2>2. Ingested(chain[p], page) \in Sound(k)
    BY <1>1, ChainHolds, IngestedIs DEF Inv
  <2> QED BY <2>1, <2>2 DEF Inv
<1>3. push' \in [Nodes -> PushType(k)]
  <2>1. push[n] \in PushType(k) /\ push' = [push EXCEPT ![n].at = "taken"]
    BY PushHolds DEF TakePush
  <2>2. [push[n] EXCEPT !.at = "taken"] \in PushType(k)
    BY <2>1 DEF PushType
  <2>3. push' = [push EXCEPT ![n] = [push[n] EXCEPT !.at = "taken"]]
    BY <2>1 DEF Inv
  <2> QED BY <2>2, <2>3 DEF Inv
<1> QED BY <1>2, <1>3 DEF TakePush, Inv, MadeOK, SessionsOK

LEMMA EndPushOK ==
  ASSUME Inv, NEW n \in Nodes, EndPush(n)
  PROVE  Inv'
<1> DEFINE k == Len(made)
           q == [NoPush EXCEPT !.next = NextIndex(push[n])]
<1>1. q \in PushType(k)
  <2>1. NextIndex(push[n]) \in Nat /\ NextIndex(push[n]) <= k
    BY PushHolds DEF NextIndex
  <2>2. q = [next |-> NextIndex(push[n]), at |-> "idle", batch |-> <<>>]
    BY DEF NoPush
  <2>3. <<>> \in Lists(k) /\ Len(<<>>) = 0
    BY DEF Lists
  <2> HIDE DEF q
  <2> QED BY <2>1, <2>2, <2>3, Numbers DEF PushType
<1>2. push' \in [Nodes -> PushType(k)]
  BY <1>1 DEF EndPush, Inv
<1>3. sent' \in [Nodes -> SUBSET (1 .. k)]
  <2>1. Range(push[n].batch) \subseteq 1 .. k
    BY PushHolds DEF Range, Lists
  <2> QED BY <2>1 DEF EndPush, Inv
<1> QED BY <1>2, <1>3 DEF EndPush, Inv, MadeOK, SessionsOK

LEMMA LosePushOK ==
  ASSUME Inv, NEW n \in Nodes, LosePush(n)
  PROVE  Inv'
<1> DEFINE k == Len(made)
           q == Failed(push[n])
<1>1. q \in PushType(k)
  <2>1. k \in Nat /\ push[n] \in PushType(k)
    BY PushHolds, ChainHolds
  <2> QED BY <2>1, CutPush
<1>2. push' = [push EXCEPT ![n] = q]
  BY DEF LosePush, Inv
<1>3. push' \in [Nodes -> PushType(k)]
  BY <1>1, <1>2 DEF Inv
<1>4. losses' \in 0 .. MaxLosses
  <2>1. losses \in 0 .. MaxLosses
    BY DEF Inv
  <2> QED BY <2>1, Numbers DEF LosePush
<1> QED BY <1>3, <1>4 DEF LosePush, Inv, MadeOK, SessionsOK

\* What is left of a sound chain is sound.
LEMMA SoundPrefix ==
  ASSUME NEW k \in Nat, NEW c \in Sound(k), NEW l \in 0 .. Len(c)
  PROVE  SubSeq(c, 1, l) \in Sound(k) /\ Len(SubSeq(c, 1, l)) = l
<1>1. c \in Seq(1 .. k) /\ Len(c) \in Nat /\ \A i \in 1 .. Len(c) : c[i] >= i
  BY DEF Sound, Lists
<1>2. /\ SubSeq(c, 1, l) \in Seq(1 .. k) /\ Len(SubSeq(c, 1, l)) = l
      /\ \A i \in 1 .. l : SubSeq(c, 1, l)[i] = c[i]
  BY <1>1
<1>3. \A i \in 1 .. l : SubSeq(c, 1, l)[i] >= i
  <2> TAKE i \in 1 .. l
  <2>1. i \in 1 .. Len(c)
    BY <1>1
  <2> QED BY <1>1, <1>2, <2>1
<1> QED BY <1>2, <1>3 DEF Sound, Lists

LEMMA CrashOK ==
  ASSUME Inv, NEW n \in Nodes, Crash(n)
  PROVE  Inv'
<1> DEFINE k == Len(made)
<1>0. k \in Nat /\ made' = made /\ losses' = losses
  BY ChainHolds DEF Crash
<1>1. chain' \in [Nodes -> Sound(k)]
  <2>1. PICK l \in 0 .. Len(chain[n]) : chain' = [chain EXCEPT ![n] = SubSeq(chain[n], 1, l)]
    BY DEF Crash
  <2>2. SubSeq(chain[n], 1, l) \in Sound(k)
    BY ChainHolds, SoundPrefix
  <2> QED BY <2>1, <2>2 DEF Inv
<1>2. SessionsOK'
  <2>1. session' = [m \in Nodes |-> [t \in Threads |->
                     IF m = n \/ (session[m][t].at = "asked" /\ session[m][t].peer = n)
                     THEN Idle ELSE session[m][t]]]
    BY DEF Crash
  <2>2. \A m \in Nodes : \A t \in Threads : Fits(session[m][t], m, k) /\ Fits(Idle, m, k)
    BY <1>0, SmallTypes DEF Inv, SessionsOK
  <2>3. \A m \in Nodes : \A t \in Threads :
          session'[m][t] = Idle \/ session'[m][t] = session[m][t]
    BY <2>1, Zenon
  <2>4. DOMAIN session' = Nodes /\ \A m \in Nodes : DOMAIN session'[m] = Threads
    BY <2>1
  <2> QED BY <1>0, <2>2, <2>3, <2>4 DEF SessionsOK
<1>3. push' \in [Nodes -> PushType(k)]
  <2>1. ASSUME NEW m \in Nodes PROVE Failed(push[m]) \in PushType(k) /\ push[m] \in PushType(k)
    <3>1. k \in Nat /\ push[m] \in PushType(k)
      BY PushHolds, ChainHolds
    <3> QED BY <3>1, CutPush
  <2>2. NoPush \in PushType(k)
    BY <1>0, SmallTypes
  <2>3. push' = [m \in Nodes |->
                   IF m = n THEN NoPush
                   ELSE IF push[m].at = "sent" /\ n \in PushPeers[m] THEN Failed(push[m])
                        ELSE push[m]]
    BY DEF Crash
  <2> QED BY <2>1, <2>2, <2>3
<1>4. sent' \in [Nodes -> SUBSET (1 .. k)]
  BY DEF Crash, Inv
<1>5. crashes' \in 0 .. MaxCrashes
  <2>1. crashes \in 0 .. MaxCrashes
    BY DEF Inv
  <2>2. crashes < MaxCrashes /\ crashes' = crashes + 1
    BY DEF Crash
  <2> QED BY <2>1, <2>2, Numbers
<1> QED BY <1>0, <1>1, <1>2, <1>3, <1>4, <1>5 DEF Inv, MadeOK

LEMMA StepOK == Inv /\ [Next]_vars => Inv'
<1> SUFFICES ASSUME Inv, [Next]_vars PROVE Inv'
  OBVIOUS
<1>1. CASE UNCHANGED vars
  BY <1>1 DEF vars, Inv, MadeOK, SessionsOK
<1>2. CASE Next
  <2>1. PICK n \in Nodes :
          \/ \E kind \in Kinds : Make(n, kind)
          \/ \E t \in Threads : LoseSync(n, t) \/ \E p \in Nodes : Sync(n, t, p)
          \/ Push(n) \/ LosePush(n)
          \/ Crash(n)
    BY <1>2 DEF Next
  <2>2. CASE \E kind \in Kinds : Make(n, kind)
    BY <2>2, MakeOK
  <2>3. CASE \E t \in Threads : LoseSync(n, t) \/ \E p \in Nodes : Sync(n, t, p)
    BY <2>3, LoseSyncOK, AskOK, AnswerOK, TakeOK, ResetChainOK DEF Sync
  <2>4. CASE Push(n) \/ LosePush(n)
    BY <2>4, SendPushOK, TakePushOK, EndPushOK, LosePushOK DEF Push
  <2>5. CASE Crash(n)
    BY <2>5, CrashOK
  <2> QED BY <2>1, <2>2, <2>3, <2>4, <2>5
<1> QED BY <1>1, <1>2

LEMMA Invariance == Spec => []Inv
<1>1. Init => Inv
  BY InitOK
<1>2. Inv /\ [Next]_vars => Inv'
  BY StepOK
<1> QED BY <1>1, <1>2, PTL DEF Spec

\* Chains, pages, push indexes and batches hold events that were made, and no push
\* index passes them (ingest_events, _http_peer_push_loop).
THEOREM TypeCorrect == Spec => []TypeOK
<1>1. Inv => TypeOK
  BY InvTypes
<1> QED BY <1>1, Invariance, PTL

------------------------------------------------------------------------------
(* How chains change *)

LEMMA SamePrefix ==
  ASSUME NEW A, NEW c \in Seq(A)
  PROVE  IsPrefix(c, c)
BY PrefixIs

\* A step cuts a chain only by a crash or a reset.
LEMMA ChainsGrow ==
  ASSUME Inv, [Next]_vars
  PROVE  \/ \E n \in Nodes : Crash(n)
         \/ \E n \in Nodes, t \in Threads, p \in Nodes : ResetChain(n, t, p)
         \/ \A m \in Nodes : IsPrefix(chain[m], chain'[m])
<1> DEFINE Grow == \A m \in Nodes : IsPrefix(chain[m], chain'[m])
<1>1. ASSUME chain' = chain PROVE Grow
  BY <1>1, ChainHolds, SamePrefix
<1>2. ASSUME NEW n \in Nodes, NEW c, chain' = [chain EXCEPT ![n] = c], IsPrefix(chain[n], c)
      PROVE  Grow
  <2> SUFFICES ASSUME NEW m \in Nodes PROVE IsPrefix(chain[m], chain'[m])
    OBVIOUS
  <2>1. CASE m = n
    <3>1. chain'[n] = c
      BY <1>2 DEF Inv
    <3> QED BY <1>2, <2>1, <3>1
  <2>2. CASE m # n
    <3>1. chain'[m] = chain[m]
      BY <1>2, <2>2 DEF Inv
    <3> QED BY <3>1, ChainHolds, SamePrefix
  <2> QED BY <2>1, <2>2
<1> HIDE DEF Grow
<1>3. ASSUME NEW n \in Nodes, NEW kind \in Kinds, Make(n, kind) PROVE Grow
  <2>1. chain' = [chain EXCEPT ![n] = Append(chain[n], Len(made) + 1)]
    BY <1>3 DEF Make
  <2>2. IsPrefix(chain[n], Append(chain[n], Len(made) + 1))
    <3>1. chain[n] \in Seq(Nat) /\ Len(made) + 1 \in Nat
      <4>1. chain[n] \in Seq(1 .. Len(made)) /\ Len(made) \in Nat
        BY ChainHolds
      <4> QED BY <4>1
    <3> DEFINE e == Len(made) + 1
               d == Append(chain[n], e)
    <3>2. /\ d \in Seq(Nat) /\ Len(d) = Len(chain[n]) + 1 /\ Len(chain[n]) \in Nat
          /\ \A i \in 1 .. Len(chain[n]) : d[i] = chain[n][i]
      <4>1. e \in Nat
        BY <3>1
      <4> HIDE DEF e
      <4> QED BY <3>1, <4>1, Appended
    <3> HIDE DEF d
    <3>3. IsPrefix(chain[n], d)
      BY SMTT(30), <3>1, <3>2, PrefixIs
    <3> QED BY <3>3 DEF d
  <2> QED BY <1>2, <2>1, <2>2
<1>4. ASSUME NEW n \in Nodes, NEW page \in Seq(Entries(Len(made)))
      PROVE  IsPrefix(chain[n], Ingested(chain[n], page))
  BY ChainHolds, IngestedIs DEF Inv
<1>5. ASSUME NEW n \in Nodes, NEW t \in Threads, NEW p \in Nodes, Take(n, t, p)
      PROVE  Grow
  <2>1. CASE TakeFork(n, t)
    BY <1>1, <2>1 DEF TakeFork
  <2>2. CASE TakePage(n, t)
    <3>1. session[n][t].page \in Seq(Entries(Len(made)))
      <4>1. Fits(session[n][t], n, Len(made)) /\ session[n][t].at = "answered"
        BY <1>5, SessionHolds DEF Inv, Take
      <4> QED BY <4>1 DEF Fits
    <3>2. chain' = [chain EXCEPT ![n] = Ingested(chain[n], session[n][t].page)]
      BY <2>2 DEF TakePage
    <3> QED BY <1>2, <1>4, <3>1, <3>2
  <2> QED BY <1>5, <2>1, <2>2 DEF Take
<1>6. ASSUME NEW n \in Nodes, Push(n) PROVE Grow
  <2>1. CASE SendPush(n) \/ EndPush(n)
    BY <1>1, <2>1 DEF SendPush, EndPush
  <2>2. ASSUME NEW p \in Nodes, TakePush(n, p) PROVE Grow
    <3> DEFINE page == [i \in DOMAIN push[n].batch |-> Entry(push[n].batch[i], TRUE)]
    <3>1. page \in Seq(Entries(Len(made)))
      BY ChainHolds, PushHolds, WholeEntries
    <3>2. chain' = [chain EXCEPT ![p] = Ingested(chain[p], page)]
      BY <2>2 DEF TakePush
    <3> HIDE DEF page
    <3> QED BY <1>2, <1>4, <3>1, <3>2
  <2> QED BY <1>6, <2>1, <2>2 DEF Push
<1>7. CASE UNCHANGED vars
  BY <1>1, <1>7 DEF vars, Grow
<1>8. CASE Next
  <2>1. PICK n \in Nodes :
          \/ \E kind \in Kinds : Make(n, kind)
          \/ \E t \in Threads : LoseSync(n, t) \/ \E p \in Nodes : Sync(n, t, p)
          \/ Push(n) \/ LosePush(n)
          \/ Crash(n)
    BY <1>8 DEF Next
  <2>2. CASE \E kind \in Kinds : Make(n, kind)
    BY <1>3, <2>2 DEF Grow
  <2>3. CASE \E t \in Threads : LoseSync(n, t)
    BY <1>1, <2>3 DEF LoseSync, Grow
  <2>4. CASE \E t \in Threads : \E p \in Nodes : Sync(n, t, p)
    <3>1. PICK t \in Threads, p \in Nodes : Sync(n, t, p)
      BY <2>4
    <3>2. CASE Ask(n, t, p) \/ Answer(n, t, p)
      <4>1. chain' = chain
        BY <3>2 DEF Ask, Answer
      <4> QED BY <1>1, <4>1 DEF Grow
    <3>3. CASE Take(n, t, p)
      BY <1>5, <3>3 DEF Grow
    <3>4. CASE ResetChain(n, t, p)
      BY <3>4
    <3> QED BY <3>1, <3>2, <3>3, <3>4 DEF Sync
  <2>5. CASE Push(n) \/ LosePush(n)
    <3>1. LosePush(n) => chain' = chain
      BY DEF LosePush
    <3> QED BY <1>1, <1>6, <2>5, <3>1 DEF Grow
  <2> QED BY <2>1, <2>2, <2>3, <2>4, <2>5
<1> QED BY <1>7, <1>8 DEF Grow

------------------------------------------------------------------------------
(* A push index at the end *)

\* What a node has pushed lies before its index, and what it is pushing comes next.
Reports(c, p, s) ==
  /\ p.next <= Len(c)
  /\ \A i \in 1 .. p.next : c[i] \in s
  /\ p.at # "idle" =>
       /\ p.next + Len(p.batch) <= Len(c)
       /\ \A i \in 1 .. Len(p.batch) : c[p.next + i] = p.batch[i]

AllReported ==
  \A n \in Nodes : PushPeers[n] # {} => Reports(chain[n], push[n], sent[n])

\* A node that pushes never resets its chain: it syncs from nobody, or no chain is
\* ever small.
PushersKeep == \A n \in Nodes : PushPeers[n] # {} => (Peers[n] = {} \/ ResetBelow = 0)

LEMMA ReportsNone ==
  ASSUME NEW c, NEW s, Len(c) \in Nat
  PROVE  Reports(c, NoPush, s)
BY DEF Reports, NoPush

LEMMA ReportsGrow ==
  ASSUME NEW k \in Nat, NEW c \in Seq(1 .. k), NEW d \in Seq(1 .. k), IsPrefix(c, d),
         NEW s, NEW p \in PushType(k), Reports(c, p, s)
  PROVE  /\ Reports(d, p, s) /\ Reports(d, Failed(p), s)
         /\ p.at = "sent" => Reports(d, [p EXCEPT !.at = "taken"], s)
<1>1. /\ p.next \in Nat /\ Len(p.batch) \in Nat /\ Len(c) \in Nat /\ Len(d) \in Nat
      /\ p \in [next : Nat, at : {"idle", "sent", "taken"}, batch : Lists(k)]
  BY DEF PushType, Lists
<1>2. Len(c) <= Len(d) /\ \A i \in 1 .. Len(c) : d[i] = c[i]
  BY PrefixIs
<1>3. p.next <= Len(d) /\ \A i \in 1 .. p.next : d[i] \in s
  <2>1. p.next <= Len(c) /\ \A i \in 1 .. p.next : c[i] \in s
    BY DEF Reports
  <2>2. \A i \in 1 .. p.next : i \in 1 .. Len(c)
    BY <1>1, <2>1
  <2> QED BY SMTT(30), <1>1, <1>2, <2>1, <2>2
<1>4. p.at # "idle" => /\ p.next + Len(p.batch) <= Len(d)
                       /\ \A i \in 1 .. Len(p.batch) : d[p.next + i] = p.batch[i]
  <2> SUFFICES ASSUME p.at # "idle"
               PROVE  /\ p.next + Len(p.batch) <= Len(d)
                      /\ \A i \in 1 .. Len(p.batch) : d[p.next + i] = p.batch[i]
    OBVIOUS
  <2>1. /\ p.next + Len(p.batch) <= Len(c)
        /\ \A i \in 1 .. Len(p.batch) : c[p.next + i] = p.batch[i]
    BY DEF Reports
  <2>2. ASSUME NEW i \in 1 .. Len(p.batch) PROVE d[p.next + i] = p.batch[i]
    <3>1. p.next + i \in 1 .. Len(c)
      BY <1>1, <2>1
    <3>2. d[p.next + i] = c[p.next + i]
      BY <1>2, <3>1
    <3> QED BY <2>1, <3>2
  <2>3. p.next + Len(p.batch) <= Len(d)
    BY <1>1, <1>2, <2>1
  <2> QED BY <2>2, <2>3
<1>5. Reports(d, p, s)
  BY <1>3, <1>4 DEF Reports
<1>6. Reports(d, Failed(p), s)
  BY <1>3 DEF Reports, Failed, NoPush
<1>7. ASSUME p.at = "sent" PROVE Reports(d, [p EXCEPT !.at = "taken"], s)
  <2> DEFINE q == [p EXCEPT !.at = "taken"]
  <2>1. q.next = p.next /\ q.batch = p.batch
    BY <1>1
  <2> HIDE DEF q
  <2> QED BY <1>3, <1>4, <1>7, <2>1 DEF Reports
<1> QED BY <1>5, <1>6, <1>7

\* The batch that leaves is what follows the index.
LEMMA ReportsSend ==
  ASSUME Inv, NEW n \in Nodes, Reports(chain[n], push[n], sent[n]), SendPush(n)
  PROVE  Reports(chain'[n], push'[n], sent'[n])
<1> DEFINE c == chain[n]
           from == push[n].next
           upto == IF from + BatchSize <= Len(c) THEN from + BatchSize ELSE Len(c)
           b == SubSeq(c, from + 1, upto)
<1>1. /\ Len(made) \in Nat /\ c \in Seq(1 .. Len(made)) /\ Len(c) \in Nat
      /\ from \in Nat /\ from < Len(c) /\ BatchSize \in Nat
  BY ChainHolds, PushHolds, Numbers DEF SendPush
<1>2. push'[n] = [next |-> from, at |-> "sent", batch |-> b]
  <2>1. from + BatchSize \in Nat /\ Len(chain[n]) \in Nat
    BY <1>1
  <2>2. Min({from + BatchSize, Len(chain[n])}) = upto
    <3> HIDE DEF from
    <3> QED BY <2>1, MinOfTwo
  <2> QED BY <2>2 DEF SendPush, Inv
<1>3. from + Len(b) <= Len(c) /\ \A i \in 1 .. Len(b) : c[from + i] = b[i]
  <2>1. upto \in Nat /\ from <= upto /\ upto <= Len(c)
    BY <1>1
  <2>2. Len(b) = upto - from /\ \A i \in 1 .. upto - from : b[i] = c[from + i]
    <3> DEFINE S == 1 .. Len(made)
    <3>1. c \in Seq(S)
      BY <1>1
    <3> HIDE DEF upto, from, c, S
    <3> QED BY <1>1, <2>1, <3>1, PieceIs
  <2> HIDE DEF upto, from, b, c
  <2> QED BY <1>1, <2>1, <2>2
<1>4. from <= Len(c) /\ \A i \in 1 .. from : c[i] \in sent[n]
  BY DEF Reports
<1>5. chain'[n] = c /\ sent'[n] = sent[n]
  BY DEF SendPush
<1> HIDE DEF b, c, from
<1> QED BY <1>2, <1>3, <1>4, <1>5 DEF Reports

\* What has been pushed lies before the index that follows.
LEMMA ReportsEnd ==
  ASSUME Inv, NEW n \in Nodes, Reports(chain[n], push[n], sent[n]), EndPush(n)
  PROVE  Reports(chain'[n], push'[n], sent'[n])
<1> DEFINE c == chain[n]
           p == push[n]
           next == p.next + Len(p.batch)
<1>1. p.next \in Nat /\ Len(p.batch) \in Nat /\ Len(c) \in Nat
  BY PushHolds, ChainHolds
<1>2. push'[n] = [next |-> next, at |-> "idle", batch |-> <<>>]
  BY DEF EndPush, Inv, NoPush, NextIndex
<1>3. chain'[n] = c /\ sent'[n] = sent[n] \cup Range(p.batch)
  BY DEF EndPush, Inv
<1>4. /\ next <= Len(c) /\ \A i \in 1 .. p.next : c[i] \in sent[n]
      /\ \A i \in 1 .. Len(p.batch) : c[p.next + i] = p.batch[i]
  BY DEF Reports, EndPush
<1>5. \A i \in 1 .. Len(p.batch) : p.batch[i] \in Range(p.batch)
  <2>1. DOMAIN p.batch = 1 .. Len(p.batch)
    BY PushHolds DEF Lists
  <2> QED BY <2>1 DEF Range
<1> HIDE DEF p, c
<1>6. ASSUME NEW i \in 1 .. next PROVE c[i] \in sent[n] \cup Range(p.batch)
  <2>1. CASE i <= p.next
    BY <1>1, <1>4, <2>1
  <2>2. CASE ~ (i <= p.next)
    <3>1. i - p.next \in 1 .. Len(p.batch) /\ p.next + (i - p.next) = i
      BY <1>1, <2>2
    <3>2. c[i] = p.batch[i - p.next]
      BY <1>4, <3>1
    <3> QED BY <1>5, <3>1, <3>2
  <2> QED BY <2>1, <2>2
<1> HIDE DEF next
<1> QED BY <1>2, <1>3, <1>4, <1>6 DEF Reports

\* Who moves a push.
LEMMA PushMoves ==
  ASSUME [Next]_vars, push \in [Nodes -> PushType(Len(made))], NEW n \in Nodes,
         \A m \in Nodes : ~ Crash(m)
  PROVE  \/ push'[n] = push[n] /\ sent'[n] = sent[n]
         \/ SendPush(n) \/ (\E p \in Nodes : TakePush(n, p)) \/ EndPush(n) \/ LosePush(n)
<1> DEFINE Same == push'[n] = push[n] /\ sent'[n] = sent[n]
<1>1. CASE UNCHANGED vars
  BY <1>1 DEF vars
<1>2. CASE Next
  <2>1. PICK m \in Nodes :
          \/ \E kind \in Kinds : Make(m, kind)
          \/ \E t \in Threads : LoseSync(m, t) \/ \E p \in Nodes : Sync(m, t, p)
          \/ Push(m) \/ LosePush(m)
          \/ Crash(m)
    BY <1>2 DEF Next
  <2>2. CASE \E kind \in Kinds : Make(m, kind)
    BY <2>2 DEF Make
  <2>3. CASE \E t \in Threads : LoseSync(m, t) \/ \E p \in Nodes : Sync(m, t, p)
    BY <2>3 DEF LoseSync, Sync, Ask, Answer, Take, ResetChain
  <2>4. CASE Push(m) \/ LosePush(m)
    <3>1. CASE m = n
      BY <2>4, <3>1 DEF Push
    <3>2. ASSUME m # n PROVE Same
      <4>1. SendPush(m) => Same
        BY <3>2 DEF SendPush
      <4>2. \A p \in Nodes : TakePush(m, p) => Same
        BY <3>2 DEF TakePush
      <4>3. EndPush(m) => Same
        BY <3>2 DEF EndPush
      <4>4. LosePush(m) => Same
        BY <3>2 DEF LosePush
      <4> HIDE DEF Same
      <4> QED BY <2>4, <4>1, <4>2, <4>3, <4>4 DEF Push
    <3> QED BY <3>1, <3>2
  <2> QED BY <2>1, <2>2, <2>3, <2>4
<1> QED BY <1>1, <1>2

LEMMA ReportedStep ==
  ASSUME PushersKeep, Inv, Inv', AllReported, [Next]_vars
  PROVE  AllReported'
<1> SUFFICES ASSUME NEW n \in Nodes, PushPeers[n] # {}
             PROVE  Reports(chain'[n], push'[n], sent'[n])
  BY DEF AllReported
<1>1. Reports(chain[n], push[n], sent[n])
  BY DEF AllReported
<1>2. /\ Len(made) \in Nat /\ chain[n] \in Seq(1 .. Len(made)) /\ Len(chain'[n]) \in Nat
      /\ push[n] \in PushType(Len(made))
  <2>1. chain'[n] \in Seq(1 .. Len(made'))
    BY DEF Inv, Sound, Lists
  <2> QED BY <2>1, ChainHolds, PushHolds
<1>3. CASE \E m \in Nodes : Crash(m)
  <2>1. PICK m \in Nodes : Crash(m)
    BY <1>3
  <2>2. CASE m = n
    <3>1. push'[n] = NoPush
      BY <2>1, <2>2 DEF Crash
    <3> QED BY <1>2, <3>1, ReportsNone
  <2>3. CASE m # n
    <3>1. chain'[n] = chain[n] /\ sent'[n] = sent[n]
      BY <2>1, <2>3 DEF Crash, Inv
    <3>2. push'[n] = push[n] \/ push'[n] = Failed(push[n])
      BY <2>1, <2>3, Zenon DEF Crash
    <3>3. IsPrefix(chain[n], chain[n])
      BY <1>2, SamePrefix
    <3>4. Reports(chain[n], push[n], sent[n]) /\ Reports(chain[n], Failed(push[n]), sent[n])
      BY <1>1, <1>2, <3>3, ReportsGrow
    <3> QED BY <3>1, <3>2, <3>4
  <2> QED BY <2>2, <2>3
<1>4. CASE \A m \in Nodes : ~ Crash(m)
  <2>1. IsPrefix(chain[n], chain'[n])
    <3>1. CASE \E m \in Nodes, t \in Threads, p \in Nodes : ResetChain(m, t, p)
      <4>1. PICK m \in Nodes, t \in Threads, p \in Nodes : ResetChain(m, t, p)
        BY <3>1
      <4>2. Peers[m] # {} /\ ResetBelow # 0
        BY <4>1, SessionHolds DEF Inv, ResetChain, Fits
      <4>3. m # n
        BY <4>2 DEF PushersKeep
      <4>4. chain' = [chain EXCEPT ![m] = <<>>]
        BY <4>1 DEF ResetChain
      <4>5. chain'[n] = chain[n]
        BY <4>3, <4>4 DEF Inv
      <4> QED BY <1>2, <4>5, SamePrefix
    <3> QED BY <1>4, <3>1, ChainsGrow
  <2>2. \/ push'[n] = push[n] /\ sent'[n] = sent[n]
        \/ SendPush(n) \/ (\E p \in Nodes : TakePush(n, p)) \/ EndPush(n) \/ LosePush(n)
    BY <1>4, PushMoves DEF Inv
  <2>3. CASE SendPush(n)
    BY <1>1, <2>3, ReportsSend
  <2>4. CASE EndPush(n)
    BY <1>1, <2>4, ReportsEnd
  <2>5. CASE ~ SendPush(n) /\ ~ EndPush(n)
    <3>1. /\ made' = made \/ push'[n] = push[n]
          /\ sent'[n] = sent[n]
          /\ \/ push'[n] = push[n] \/ push'[n] = Failed(push[n])
             \/ push'[n] = [push[n] EXCEPT !.at = "taken"] /\ push[n].at = "sent"
      BY <2>2, <2>5 DEF TakePush, LosePush, Inv
    <3>2. \E k \in Nat : /\ chain[n] \in Seq(1 .. k) /\ chain'[n] \in Seq(1 .. k)
                         /\ push[n] \in PushType(k)
      <4> DEFINE k == Len(made)
                 j == Len(made')
      <4>1. k \in Nat /\ j \in Nat
        BY MadeHolds DEF Inv, MadeOK
      <4>2. chain[n] \in Lists(k) /\ chain'[n] \in Lists(j)
        BY DEF Inv, Sound
      <4>3. CASE k <= j
        <5> HIDE DEF k, j
        <5> QED BY <1>2, <4>1, <4>2, <4>3, TypesGrow DEF Lists, k
      <4>4. CASE ~ (k <= j)
        <5>1. j <= k
          BY <4>1, <4>4
        <5> HIDE DEF j
        <5> QED BY <1>2, <4>1, <4>2, <5>1, TypesGrow DEF Lists
      <4> QED BY <4>3, <4>4
    <3>3. /\ Reports(chain'[n], push[n], sent[n]) /\ Reports(chain'[n], Failed(push[n]), sent[n])
          /\ push[n].at = "sent" =>
               Reports(chain'[n], [push[n] EXCEPT !.at = "taken"], sent[n])
      BY <1>1, <2>1, <3>2, ReportsGrow
    <3> QED BY <3>1, <3>3
  <2> QED BY <2>3, <2>4, <2>5
<1> QED BY <1>3, <1>4

\* A push index at the end of the chain means that all of it has been pushed, whatever
\* is lost and whoever crashes, provided that no node that pushes resets its chain
\* (_http_peer_push_loop: "if last_idx >= total: continue  # nothing new").
THEOREM NothingIsLeft == ASSUME PushersKeep PROVE Spec => []NothingNew
<1>1. Init => Inv /\ AllReported
  <2> SUFFICES ASSUME Init PROVE AllReported
    BY InitOK
  <2>1. \A n \in Nodes : push[n] = NoPush /\ Len(chain[n]) \in Nat
    BY InitOK, ChainHolds DEF Init
  <2> QED BY <2>1, ReportsNone DEF AllReported
<1>2. (Inv /\ AllReported) /\ [Next]_vars => (Inv /\ AllReported)'
  BY StepOK, ReportedStep
<1>3. Inv /\ AllReported => NothingNew
  <2> SUFFICES ASSUME Inv, AllReported, NEW n \in Nodes, PushPeers[n] # {},
                      push[n].next >= Len(chain[n])
               PROVE  Range(chain[n]) \subseteq sent[n]
    BY DEF NothingNew
  <2>1. /\ push[n].next <= Len(chain[n])
        /\ \A i \in 1 .. push[n].next : chain[n][i] \in sent[n]
    BY DEF AllReported, Reports
  <2>2. /\ DOMAIN chain[n] = 1 .. Len(chain[n]) /\ Len(chain[n]) \in Nat
        /\ push[n].next \in Nat
    BY ChainHolds, PushHolds
  <2> QED BY <2>1, <2>2 DEF Range
<1> QED BY <1>1, <1>2, <1>3, PTL DEF Spec

------------------------------------------------------------------------------
(* One author, and what its followers hold *)

\* One node appends, it does not crash and does not reset its chain, and no other
\* begins with a chain of its own.
OneAuthor == /\ Authors \subseteq {Seed} /\ Solo = {} /\ Seed \notin MayCrash
             /\ (Peers[Seed] = {} \/ ResetBelow = 0)

\* Every event links to the one made before it, the author holds all of them, and
\* every chain is the first of them.
Count(k) == [i \in 1 .. k |-> i]
Counts(c) == c = Count(Len(c))

InLine ==
  /\ \A e \in 1 .. Len(made) : made[e].prev = e - 1
  /\ Len(chain[Seed]) = Len(made)
  /\ \A n \in Nodes : Counts(chain[n])

LEMMA CountIs ==
  ASSUME NEW k \in Nat
  PROVE  /\ Count(k) \in Seq(1 .. k) /\ Count(k) \in Seq(Nat) /\ Len(Count(k)) = k
         /\ \A i \in 1 .. k : Count(k)[i] = i
BY DEF Count

LEMMA CountPrefix ==
  ASSUME NEW j \in Nat, NEW k \in Nat
  PROVE  IsPrefix(Count(j), Count(k)) <=> j <= k
<1>1. /\ Count(j) \in Seq(Nat) /\ Len(Count(j)) = j /\ \A i \in 1 .. j : Count(j)[i] = i
      /\ Count(k) \in Seq(Nat) /\ Len(Count(k)) = k /\ \A i \in 1 .. k : Count(k)[i] = i
  BY CountIs
<1>2. IsPrefix(Count(j), Count(k))
        <=> Len(Count(j)) <= Len(Count(k)) /\ \A i \in 1 .. Len(Count(j)) : Count(k)[i] = Count(j)[i]
  BY <1>1, PrefixIs
<1>3. j <= k => \A i \in 1 .. j : i \in 1 .. k
  OBVIOUS
<1> QED BY <1>1, <1>2, <1>3

LEMMA CountAppend ==
  ASSUME NEW k \in Nat
  PROVE  Append(Count(k), k + 1) = Count(k + 1)
<1>1. /\ Append(Count(k), k + 1) \in Seq(Nat) /\ Len(Append(Count(k), k + 1)) = k + 1
      /\ Append(Count(k), k + 1)[k + 1] = k + 1
      /\ \A i \in 1 .. k : Append(Count(k), k + 1)[i] = i
  <2>1. Count(k) \in Seq(Nat) /\ Len(Count(k)) = k /\ \A i \in 1 .. k : Count(k)[i] = i
    BY CountIs
  <2>2. k + 1 \in Nat
    OBVIOUS
  <2> QED BY <2>1, <2>2, Appended
<1>2. /\ Count(k + 1) \in Seq(Nat) /\ Len(Count(k + 1)) = k + 1
      /\ \A i \in 1 .. k + 1 : Count(k + 1)[i] = i
  BY CountIs
<1>3. \A i \in 1 .. k + 1 : i = k + 1 \/ i \in 1 .. k
  OBVIOUS
<1> HIDE DEF Count
<1> QED BY <1>1, <1>2, <1>3, SeqEqual

LEMMA CountCut ==
  ASSUME NEW k \in Nat, NEW l \in 0 .. k
  PROVE  SubSeq(Count(k), 1, l) = Count(l)
<1>1. Count(k) \in Seq(1 .. k) /\ Len(Count(k)) = k /\ \A i \in 1 .. k : Count(k)[i] = i
  BY CountIs
<1>2. SubSeq(Count(k), 1, l) = [i \in 1 .. l |-> Count(k)[i]]
  BY <1>1
<1>3. \A i \in 1 .. l : Count(k)[i] = i
  BY <1>1
<1> QED BY <1>2, <1>3 DEF Count

\* What follows a first part of the author's chain makes it a longer one.
LEMMA CountsIngested ==
  ASSUME MadeOK, \A e \in 1 .. Len(made) : made[e].prev = e - 1,
         NEW c \in Sound(Len(made)), Counts(c), NEW page \in Seq(Entries(Len(made)))
  PROVE  Counts(Ingested(c, page))
<1> DEFINE S == {d \in Sound(Len(made)) : Counts(d)}
<1>1. Keeps(S, page)
  <2> SUFFICES ASSUME NEW d \in S, NEW i \in 1 .. Len(page) PROVE Accept(d, page[i]) \in S
    BY DEF Keeps
  <2> DEFINE x == page[i]
  <2>1. x \in Entries(Len(made)) /\ d \in Sound(Len(made)) /\ Counts(d) /\ Len(made) \in Nat
    BY MadeHolds
  <2> HIDE DEF x
  <2>2. /\ Accept(d, x) \in Sound(Len(made))
        /\ \/ Accept(d, x) = d
           \/ Accept(d, x) = Append(d, x.id) /\ made[x.id].prev = LastOf(d)
    BY <2>1, AcceptIs
  <2>3. ASSUME made[x.id].prev = LastOf(d) PROVE Counts(Append(d, x.id))
    <3> DEFINE l == Len(d)
    <3>1. x.id \in 1 .. Len(made) /\ made[x.id].prev = x.id - 1
      BY <2>1 DEF Entries, EntriesOf
    <3>2. l \in Nat /\ (d = <<>> \/ LastOf(d) = d[l]) /\ d = Count(l)
      BY <2>1, SoundIsShort DEF Counts
    <3>3. LastOf(d) = l
      <4>1. CASE d = <<>>
        BY <3>2, <4>1 DEF LastOf, Genesis
      <4>2. CASE d # <<>>
        <5>1. l \in 1 .. l /\ LastOf(d) = d[l]
          <6>1. d \in Seq(1 .. Len(made))
            BY <2>1 DEF Sound, Lists
          <6> QED BY <3>2, <4>2, <6>1
        <5>2. Count(l)[l] = l
          BY <3>2, <5>1, CountIs
        <5> HIDE DEF l
        <5> QED BY <3>2, <5>1, <5>2
      <4> QED BY <4>1, <4>2
    <3> HIDE DEF l
    <3>4. x.id \in Nat /\ x.id - 1 = l /\ l + 1 \in Nat
      <4>1. x.id \in Nat
        BY <2>1, <3>1
      <4>2. x.id - 1 = l
        BY <2>3, <3>1, <3>3
      <4> QED BY <3>2, <4>1, <4>2
    <3>5. Append(d, x.id) = Count(l + 1)
      <4>1. x.id = l + 1
        BY <3>2, <3>4
      <4> QED BY <3>2, <4>1, CountAppend
    <3>6. Len(Count(l + 1)) = l + 1
      BY <3>4, CountIs
    <3> QED BY <3>5, <3>6 DEF Counts
  <2>4. Accept(d, x) \in S
    BY <2>1, <2>2, <2>3
  <2> QED BY <2>4 DEF x
<1>2. Len(page) \in Nat /\ c \in S
  OBVIOUS
<1>3. Ingested(c, page) \in S
  <2> HIDE DEF S
  <2> QED BY <1>1, <1>2, IngestedKeeps
<1> QED BY <1>3

LEMMA InLineInit == OneAuthor /\ Init => InLine
<1> SUFFICES ASSUME OneAuthor, Init PROVE InLine
  OBVIOUS
<1>1. made = <<>> /\ \A n \in Nodes : chain[n] = <<>>
  BY DEF Init, OneAuthor
<1>2. Count(0) = <<>> /\ Len(<<>>) = 0
  BY DEF Count
<1>3. Seed \in Nodes
  BY NodesAssumption
<1> QED BY <1>1, <1>2, <1>3 DEF InLine, Counts

\* One step changes one chain at most; only the author's when it makes an event, and
\* the author's only then.
LEMMA InLineStep ==
  ASSUME OneAuthor, Inv, InLine, [Next]_vars
  PROVE  /\ InLine'
         /\ \/ UNCHANGED <<made, chain>>
            \/ /\ Len(made') = Len(made) + 1 /\ \A n \in Nodes \ {Seed} : chain'[n] = chain[n]
            \/ \E n \in Nodes \ {Seed} : /\ made' = made
                                         /\ \A m \in Nodes \ {n} : chain'[m] = chain[m]
<1> DEFINE Same == UNCHANGED <<made, chain>>
           Wrote == /\ Len(made') = Len(made) + 1
                    /\ \A n \in Nodes \ {Seed} : chain'[n] = chain[n]
           Moved == \E n \in Nodes \ {Seed} : /\ made' = made
                                              /\ \A m \in Nodes \ {n} : chain'[m] = chain[m]
           Good == InLine' /\ (Same \/ Wrote \/ Moved)
<1>0. Seed \in Nodes /\ Len(made) \in Nat /\ Inv'
  BY NodesAssumption, ChainHolds, StepOK
<1>1. ASSUME Same PROVE Good
  BY <1>1 DEF InLine, Counts
<1>2. ASSUME NEW n \in Nodes, NEW c, chain' = [chain EXCEPT ![n] = c], made' = made, Counts(c),
             n = Seed => Len(c) >= Len(made)
      PROVE  Good
  <2>1. chain'[n] = c /\ \A m \in Nodes \ {n} : chain'[m] = chain[m]
    BY <1>2 DEF Inv
  <2>2. CASE n = Seed
    <3>1. Len(c) \in Nat /\ Len(c) <= Len(made)
      BY <1>0, <1>2, <2>1, SoundIsShort DEF Inv
    <3>2. Len(c) = Len(made)
      BY <1>0, <1>2, <2>2, <3>1
    <3>3. c = chain[n]
      BY <1>2, <2>2, <3>2 DEF InLine, Counts
    <3>4. chain' = chain
      BY <1>2, <3>3 DEF Inv
    <3> QED BY <1>1, <1>2, <3>4
  <2>3. CASE n # Seed
    <3>1. Moved
      BY <1>2, <2>1, <2>3
    <3>2. InLine'
      BY <1>0, <1>2, <2>1, <2>3 DEF InLine
    <3> QED BY <3>1, <3>2
  <2> QED BY <2>2, <2>3
<1> HIDE DEF Same, Wrote, Moved
<1>3. ASSUME NEW n \in Nodes, NEW page \in Seq(Entries(Len(made)))
      PROVE  /\ Counts(Ingested(chain[n], page))
             /\ n = Seed => Len(Ingested(chain[n], page)) >= Len(made)
  <2>1. /\ chain[n] \in Sound(Len(made)) /\ chain[n] \in Seq(1 .. Len(made)) /\ Counts(chain[n])
        /\ MadeOK /\ \A e \in 1 .. Len(made) : made[e].prev = e - 1
    BY ChainHolds DEF Inv, InLine
  <2>2. Counts(Ingested(chain[n], page))
    BY <2>1, CountsIngested
  <2>3. IsPrefix(chain[n], Ingested(chain[n], page)) /\ Ingested(chain[n], page) \in Sound(Len(made))
    BY <2>1, IngestedIs
  <2>4. Len(chain[n]) <= Len(Ingested(chain[n], page))
    BY <2>3 DEF IsPrefix
  <2> QED BY <2>2, <2>4 DEF InLine
<1>4. ASSUME NEW n \in Nodes, NEW kind \in Kinds, Make(n, kind) PROVE Good
  <2> DEFINE k == Len(made)
  <2>1. n = Seed
    BY <1>4 DEF Make, OneAuthor
  <2>2. chain' = [chain EXCEPT ![Seed] = Append(chain[Seed], k + 1)]
    BY <1>4, <2>1 DEF Make
  <2>3. chain[Seed] = Count(k)
    BY <1>0 DEF InLine, Counts
  <2>4. chain'[Seed] = Count(k + 1) /\ \A m \in Nodes \ {Seed} : chain'[m] = chain[m]
    BY <1>0, <2>2, <2>3, CountAppend DEF Inv
  <2>5. made' = Append(made, [prev |-> LastOf(chain[Seed]), kind |-> kind])
    BY <1>4, <2>1 DEF Make
  <2>6. LastOf(chain[Seed]) = k
    <3>1. chain[Seed] = <<>> \/ LastOf(chain[Seed]) = chain[Seed][k]
      BY <1>0, ChainHolds, SoundIsShort DEF InLine
    <3>2. CASE chain[Seed] = <<>>
      BY <3>2 DEF LastOf, Genesis, InLine
    <3>3. CASE chain[Seed] # <<>>
      <4>1. k \in 1 .. k
        BY <1>0, <3>3, ChainHolds DEF InLine
      <4>2. Count(k)[k] = k
        BY <1>0, <4>1, CountIs
      <4> QED BY <2>3, <3>1, <3>3, <4>2
    <3> QED BY <3>2, <3>3
  <2> DEFINE r == [prev |-> LastOf(chain[Seed]), kind |-> kind]
  <2>7. /\ Len(made') = k + 1 /\ made'[k + 1].prev = k
        /\ \A e \in 1 .. k : made'[e].prev = e - 1
    <3>1. r.prev = k
      BY <2>6
    <3> HIDE DEF r
    <3>2. made \in Seq([prev : Nat, kind : KindsOfEvent] \cup {r})
      <4> DEFINE A == [prev : Nat, kind : KindsOfEvent]
      <4>1. made \in Seq(A) /\ A \subseteq A \cup {r}
        BY DEF Inv, MadeOK
      <4> HIDE DEF A
      <4>2. made \in Seq(A \cup {r})
        BY <4>1, SeqMonotonic
      <4> QED BY <4>2 DEF A
    <3>3. /\ Len(made') = k + 1 /\ made'[k + 1] = r /\ \A e \in 1 .. k : made'[e] = made[e]
      <4> DEFINE A == [prev : Nat, kind : KindsOfEvent] \cup {r}
      <4>1. made \in Seq(A) /\ r \in A /\ made' = Append(made, r)
        BY <2>5, <3>2 DEF r
      <4> HIDE DEF A
      <4> QED BY <4>1, Appended
    <3> QED BY <3>1, <3>3 DEF InLine
  <2>8. \A e \in 1 .. Len(made') : made'[e].prev = e - 1
    <3> TAKE e \in 1 .. Len(made')
    <3>1. e = k + 1 \/ e \in 1 .. k
      BY <1>0, <2>7
    <3> QED BY <1>0, <2>7, <3>1
  <2>9. Len(Count(k + 1)) = k + 1
    BY <1>0, CountIs
  <2>10. \A m \in Nodes : Counts(chain'[m])
    BY <2>4, <2>9 DEF Counts, InLine
  <2>11. InLine'
    BY <2>4, <2>7, <2>8, <2>9, <2>10 DEF InLine
  <2> QED BY <2>4, <2>7, <2>11 DEF Wrote
<1>5. ASSUME NEW n \in Nodes, NEW t \in Threads, NEW p \in Nodes, Take(n, t, p) PROVE Good
  <2>1. made' = made
    BY <1>5 DEF Take
  <2>2. Fits(session[n][t], n, Len(made)) /\ session[n][t].at = "answered"
    BY <1>5, SessionHolds DEF Inv, Take
  <2>3. CASE TakeFork(n, t)
    <3>1. chain' = chain
      BY <2>3 DEF TakeFork
    <3> QED BY <1>1, <2>1, <3>1 DEF Same
  <2>4. CASE TakePage(n, t)
    <3>1. chain' = [chain EXCEPT ![n] = Ingested(chain[n], session[n][t].page)]
      BY <2>4 DEF TakePage
    <3>2. session[n][t].page \in Seq(Entries(Len(made)))
      BY <2>2 DEF Fits
    <3> HIDE DEF Good
    <3> QED BY <1>2, <1>3, <2>1, <3>1, <3>2
  <2> QED BY <1>5, <2>3, <2>4 DEF Take
<1>6. ASSUME NEW n \in Nodes, NEW p \in Nodes, TakePush(n, p) PROVE Good
  <2> DEFINE page == [i \in DOMAIN push[n].batch |-> Entry(push[n].batch[i], TRUE)]
  <2>1. page \in Seq(Entries(Len(made)))
    BY ChainHolds, PushHolds, WholeEntries
  <2>2. chain' = [chain EXCEPT ![p] = Ingested(chain[p], page)] /\ made' = made
    BY <1>6 DEF TakePush
  <2> HIDE DEF page, Good
  <2> QED BY <1>2, <1>3, <2>1, <2>2
<1>7. ASSUME NEW n \in Nodes, Crash(n) PROVE Good
  <2>1. PICK l \in 0 .. Len(chain[n]) : chain' = [chain EXCEPT ![n] = SubSeq(chain[n], 1, l)]
    BY <1>7 DEF Crash
  <2>2. n # Seed /\ made' = made
    BY <1>7 DEF Crash, OneAuthor
  <2>3. Counts(SubSeq(chain[n], 1, l))
    <3>1. chain[n] = Count(Len(chain[n])) /\ Len(chain[n]) \in Nat
      BY ChainHolds DEF InLine, Counts
    <3>2. l \in Nat /\ l \in 0 .. Len(chain[n])
      BY <3>1
    <3>3. SubSeq(Count(Len(chain[n])), 1, l) = Count(l)
      BY <3>1, <3>2, CountCut
    <3>4. Len(Count(l)) = l
      BY <3>2, CountIs
    <3>5. SubSeq(chain[n], 1, l) = Count(l)
      BY <3>1, <3>3
    <3> QED BY <3>4, <3>5 DEF Counts
  <2> HIDE DEF Good
  <2> QED BY <1>2, <2>1, <2>2, <2>3
<1>8. ASSUME NEW n \in Nodes, NEW t \in Threads, NEW p \in Nodes, ResetChain(n, t, p)
       PROVE  Good
  <2>1. chain' = [chain EXCEPT ![n] = <<>>] /\ made' = made
    BY <1>8 DEF ResetChain
  <2>2. n # Seed
    <3>1. Peers[n] # {} /\ ResetBelow # 0
      BY <1>8, SessionHolds DEF Inv, ResetChain, Fits
    <3> QED BY <3>1 DEF OneAuthor
  <2>3. Counts(<<>>)
    BY DEF Counts, Count
  <2> HIDE DEF Good
  <2> QED BY <1>2, <2>1, <2>2, <2>3
<1>9. CASE Same
  BY <1>1, <1>9 DEF Same, Wrote, Moved
<1>10. CASE ~ Same
  <2>1. Next
    BY <1>10 DEF Same, vars
  <2>2. PICK n \in Nodes :
          \/ \E kind \in Kinds : Make(n, kind)
          \/ \E t \in Threads : LoseSync(n, t) \/ \E p \in Nodes : Sync(n, t, p)
          \/ Push(n) \/ LosePush(n)
          \/ Crash(n)
    BY <2>1 DEF Next
  <2>3. /\ \A t \in Threads : ~ LoseSync(n, t)
        /\ \A t \in Threads, p \in Nodes : ~ Ask(n, t, p) /\ ~ Answer(n, t, p)
        /\ ~ SendPush(n) /\ ~ EndPush(n) /\ ~ LosePush(n)
    BY <1>10 DEF Same, LoseSync, Ask, Answer, SendPush, EndPush, LosePush
  <2>4. Good
    <3> HIDE DEF Good
    <3> QED BY <1>4, <1>5, <1>6, <1>7, <1>8, <2>2, <2>3 DEF Sync, Push
  <2> QED BY <2>4 DEF Same, Wrote, Moved
<1> QED BY <1>9, <1>10

LEMMA StepReplicates ==
  ASSUME OneAuthor, Inv, InLine, [Next]_vars
  PROVE  [Followed!Next]_<<chain[Seed], [n \in Replicas |-> chain[n]]>>
<1> DEFINE source == chain[Seed]
           replica == [n \in Replicas |-> chain[n]]
<1>0. /\ Seed \in Nodes /\ Inv' /\ InLine' /\ Len(made) \in Nat /\ Len(made') \in Nat
      /\ Replicas = Nodes \ {Seed}
  BY SMTT(30), NodesAssumption, ChainHolds, StepOK, InLineStep, MadeHolds DEF Inv, MadeOK, Replicas
<1>1. /\ \A n \in Nodes : chain[n] = Count(Len(chain[n])) /\ Len(chain[n]) \in Nat
      /\ Len(chain[Seed]) = Len(made)
  BY ChainHolds DEF InLine, Counts
<1>2. /\ \A n \in Nodes : chain'[n] = Count(Len(chain'[n])) /\ Len(chain'[n]) \in Nat
      /\ Len(chain'[Seed]) = Len(made')
  BY <1>0, SoundIsShort DEF InLine, Counts, Inv
<1>3. CASE UNCHANGED <<made, chain>>
  BY <1>3
<1>4. CASE /\ Len(made') = Len(made) + 1 /\ \A n \in Nodes \ {Seed} : chain'[n] = chain[n]
  <2>1. replica' = replica
    BY <1>0, <1>4
  <2>2. Len(source') = Len(source) + 1
    BY <1>1, <1>2, <1>4
  <2>3. IsPrefix(source, source')
    <3>1. source = Count(Len(made)) /\ source' = Count(Len(made'))
      BY <1>0, <1>1, <1>2
    <3> QED BY <1>0, <1>4, <3>1, CountPrefix
  <2>4. Followed!Write
    BY <2>1, <2>2, <2>3 DEF Followed!Write, Followed!IsPrefix, IsPrefix
  <2> QED BY <2>4 DEF Followed!Next
<1>5. ASSUME NEW r \in Nodes \ {Seed}, made' = made,
             \A m \in Nodes \ {r} : chain'[m] = chain[m]
      PROVE  Followed!Next
  <2>1. source' = source /\ r \in Replicas
    BY <1>0, <1>5
  <2>2. replica' = [replica EXCEPT ![r] = replica'[r]]
    BY <1>0, <1>5
  <2>3. replica[r] = chain[r] /\ replica'[r] = chain'[r]
    BY <2>1
  <2>4. Len(chain'[r]) <= Len(made)
    BY <1>0, <1>5, SoundIsShort DEF Inv
  <2>5. IsPrefix(chain'[r], source)
    <3>1. source = Count(Len(made))
      BY <1>0, <1>1
    <3> QED BY <1>0, <1>2, <2>4, <3>1, CountPrefix
  <2>6. CASE Len(chain[r]) <= Len(chain'[r])
    <3>1. IsPrefix(chain[r], chain'[r])
      BY <1>1, <1>2, <2>6, CountPrefix
    <3>2. Followed!Copy(r)
      BY <2>1, <2>2, <2>3, <2>5, <3>1 DEF Followed!Copy, Followed!IsPrefix, IsPrefix
    <3> QED BY <2>1, <3>2 DEF Followed!Next
  <2>7. CASE ~ (Len(chain[r]) <= Len(chain'[r]))
    <3>1. IsPrefix(chain'[r], chain[r])
      <4>1. Len(chain'[r]) <= Len(chain[r])
        BY <1>1, <1>2, <2>7
      <4> QED BY <1>1, <1>2, <4>1, CountPrefix
    <3>2. Followed!Forget(r)
      BY <2>1, <2>2, <2>3, <3>1 DEF Followed!Forget, Followed!IsPrefix, IsPrefix
    <3> QED BY <2>1, <3>2 DEF Followed!Next
  <2> QED BY <2>6, <2>7
<1> QED BY <1>3, <1>4, <1>5, InLineStep

\* With one author what a follower holds is a prefix of the author's chain, whatever
\* is lost, repeated or answered late and whichever follower crashes
\* (_sync_from_peer, infonet_sync_post, infonet_peer_push, ingest_events).
THEOREM SyncReplicates == ASSUME OneAuthor PROVE Spec => ImplementsReplication
<1>1. Init => Inv /\ InLine
  BY InitOK, InLineInit
<1>2. (Inv /\ InLine) /\ [Next]_vars => (Inv /\ InLine)'
  BY StepOK, InLineStep
<1>3. Init => Followed!Init
  <2> SUFFICES ASSUME Init PROVE Followed!Init
    OBVIOUS
  <2>1. \A n \in Nodes : chain[n] = <<>>
    BY DEF Init, OneAuthor
  <2>2. Seed \in Nodes /\ Replicas \subseteq Nodes
    BY NodesAssumption DEF Replicas
  <2> QED BY <2>1, <2>2 DEF Followed!Init
<1>4. (Inv /\ InLine) /\ [Next]_vars
        => [Followed!Next]_<<chain[Seed], [n \in Replicas |-> chain[n]]>>
  BY StepReplicates
<1> QED BY <1>1, <1>2, <1>3, <1>4, PTL DEF Spec, ImplementsReplication, Followed!Spec

------------------------------------------------------------------------------
(* One author, and what its followers can fetch again *)

\* One node appends, does not crash and takes no event from another; the others sync
\* from it alone and push to nobody.
Star == /\ Authors \subseteq {Seed} /\ Seed \notin MayCrash /\ Seed \notin Solo
        /\ Peers[Seed] = {} /\ \A n \in Nodes : Peers[n] \subseteq {Seed}
        /\ Seed \notin PushPeers[Seed]
        /\ \A n \in Nodes \ {Seed} : PushPeers[n] = {}

\* The events of the author's chain link to each other; a chain holds nothing but these
\* or none of them; what is answered or pushed is made of them; and a chain about to be
\* reset is made of them or is still short.
OnSeed == Range(chain[Seed])
Belongs(c, S) == c \in Seq(S) \/ (c # <<>> /\ \A i \in 1 .. Len(c) : c[i] \notin S)
Sees(c, S, s) == /\ s.at = "answered" => s.page \in Seq(EntriesOf(S))
                 /\ s.at = "small" => c \in Seq(S) \/ Len(c) < ResetBelow

Closed == \A e \in OnSeed : made[e].prev = Genesis \/ made[e].prev \in OnSeed
ChainsBelong == \A n \in Nodes : Belongs(chain[n], OnSeed)
SessionsSee == \A n \in Nodes : \A t \in Threads : Sees(chain[n], OnSeed, session[n][t])
StarInv == Closed /\ ChainsBelong /\ SessionsSee /\ push[Seed].batch \in Seq(OnSeed)

LEMMA ElementIs ==
  ASSUME NEW A, NEW c \in Seq(A)
  PROVE  Len(c) \in Nat /\ \A i \in 1 .. Len(c) : c[i] \in A
OBVIOUS

LEMMA RangeIs ==
  ASSUME NEW A, NEW c \in Seq(A)
  PROVE  /\ c \in Seq(Range(c)) /\ Range(c) \subseteq A
         /\ \A i \in 1 .. Len(c) : c[i] \in Range(c)
         /\ \A S : c \in Seq(S) => Range(c) \subseteq S
<1>1. DOMAIN c = 1 .. Len(c) /\ Len(c) \in Nat
  OBVIOUS
<1>2. \A i \in 1 .. Len(c) : c[i] \in Range(c)
  BY <1>1 DEF Range
<1>3. c \in Seq(Range(c))
  <2> DEFINE R == Range(c)
  <2>1. c \in [1 .. Len(c) -> R]
    <3>1. c = [i \in 1 .. Len(c) |-> c[i]]
      BY <1>1
    <3> HIDE DEF R
    <3>2. \A i \in 1 .. Len(c) : c[i] \in R
      BY <1>2 DEF R
    <3> QED BY <3>1, <3>2
  <2> HIDE DEF R
  <2>2. c \in Seq(R)
    BY <1>1, <2>1, SeqDef
  <2> QED BY <2>2 DEF R
<1>4. ASSUME NEW S, c \in Seq(S) PROVE Range(c) \subseteq S
  BY <1>4 DEF Range
<1> QED BY <1>2, <1>3, <1>4

LEMMA SeedHolds ==
  ASSUME Inv
  PROVE  /\ Seed \in Nodes /\ Len(made) \in Nat
         /\ chain[Seed] \in Seq(OnSeed) /\ OnSeed \subseteq 1 .. Len(made)
<1>1. Seed \in Nodes
  BY NodesAssumption
<1>2. Len(made) \in Nat /\ chain[Seed] \in Seq(1 .. Len(made))
  BY <1>1, ChainHolds
<1> QED BY <1>1, <1>2, RangeIs DEF OnSeed

\* A page of the author's events makes a chain of them longer and is refused by any
\* other.
LEMMA PageBelongs ==
  ASSUME Inv, Closed, NEW n \in Nodes, NEW page \in Seq(EntriesOf(OnSeed))
  PROVE  /\ chain[n] \in Seq(OnSeed) => Ingested(chain[n], page) \in Seq(OnSeed)
         /\ ~ (chain[n] \in Seq(OnSeed)) /\ Belongs(chain[n], OnSeed)
              => Ingested(chain[n], page) = chain[n]
<1> DEFINE c == chain[n]
           S == OnSeed
<1>0. Len(page) \in Nat /\ \A i \in 1 .. Len(page) : page[i].id \in S
  <2>1. Len(page) \in Nat /\ \A i \in 1 .. Len(page) : page[i] \in EntriesOf(OnSeed)
    BY ElementIs
  <2>2. \A x \in EntriesOf(OnSeed) : x.id \in OnSeed
    BY DEF EntriesOf
  <2> QED BY <2>1, <2>2
<1>1. ASSUME c \in Seq(S) PROVE Ingested(c, page) \in Seq(S)
  <2>1. Keeps(Seq(S), page)
    <3> SUFFICES ASSUME NEW d \in Seq(S), NEW i \in 1 .. Len(page)
                 PROVE  Accept(d, page[i]) \in Seq(S)
      BY DEF Keeps
    <3>1. Accept(d, page[i]) = d \/ Accept(d, page[i]) = Append(d, page[i].id)
      BY Zenon DEF Accept
    <3> HIDE DEF S
    <3> QED BY <1>0, <3>1
  <2> HIDE DEF c, S
  <2> QED BY <1>0, <1>1, <2>1, IngestedKeeps
<1>2. ASSUME ~ (c \in Seq(S)), Belongs(c, S) PROVE Ingested(c, page) = c
  <2>1. c # <<>> /\ \A i \in 1 .. Len(c) : c[i] \notin S
    BY <1>2 DEF Belongs
  <2>2. LastOf(c) \notin S /\ LastOf(c) # Genesis
    <3>1. c \in Sound(Len(made)) /\ c \in Seq(1 .. Len(made)) /\ Len(made) \in Nat
      BY ChainHolds
    <3>2. LastOf(c) = c[Len(c)]
      BY <2>1, <3>1, SoundIsShort
    <3>3. Len(c) \in 1 .. Len(c) /\ c[Len(c)] \in 1 .. Len(made)
      <4> HIDE DEF c
      <4> QED BY <2>1, <3>1
    <3> HIDE DEF c, S
    <3> QED BY <2>1, <3>2, <3>3 DEF Genesis
  <2>3. ASSUME NEW i \in 1 .. Len(page) PROVE Accept(c, page[i]) = c
    <3>1. made[page[i].id].prev = Genesis \/ made[page[i].id].prev \in S
      BY <1>0 DEF Closed
    <3>2. ~ Follows(c, page[i])
      BY <2>2, <3>1 DEF Follows
    <3> QED BY <3>2, Zenon DEF Accept
  <2>4. Keeps({c}, page)
    BY <2>3 DEF Keeps
  <2> HIDE DEF c
  <2>5. Ingested(c, page) \in {c}
    BY <1>0, <2>4, IngestedKeeps
  <2> QED BY <2>5
<1> QED BY <1>1, <1>2

LEMMA StarInit == Star /\ Init => StarInv
<1> SUFFICES ASSUME Star, Init PROVE StarInv
  OBVIOUS
<1>1. Inv /\ Seed \in Nodes
  BY InitOK, NodesAssumption
<1>2. OnSeed = {}
  <2>1. \E k : chain = [n \in Nodes |-> [e \in 1 .. (IF n \in Solo THEN k ELSE 0) |-> e]]
    BY DEF Init
  <2>2. chain[Seed] = <<>>
    BY <1>1, <2>1 DEF Star
  <2> QED BY <2>2 DEF OnSeed, Range
<1>3. Closed
  BY <1>2 DEF Closed
<1>4. ChainsBelong
  <2> SUFFICES ASSUME NEW n \in Nodes PROVE Belongs(chain[n], {})
    BY <1>2 DEF ChainsBelong
  <2>1. CASE chain[n] = <<>>
    BY <2>1 DEF Belongs
  <2>2. CASE chain[n] # <<>>
    BY <2>2 DEF Belongs
  <2> QED BY <2>1, <2>2
<1>5. SessionsSee
  <2>1. \A n \in Nodes : \A t \in Threads : session[n][t].at = "idle"
    BY DEF Init, Idle
  <2> QED BY <2>1 DEF SessionsSee, Sees
<1>6. push[Seed].batch \in Seq(OnSeed)
  <2>1. push[Seed].batch = <<>>
    BY <1>1 DEF Init, NoPush
  <2> QED BY <1>2, <2>1
<1> QED BY <1>3, <1>4, <1>5, <1>6 DEF StarInv

\* An event that the author makes joins its events; no other chain holds it.
LEMMA StarMake ==
  ASSUME Star, Inv, StarInv, NEW kind \in Kinds, Make(Seed, kind)
  PROVE  StarInv'
<1> DEFINE k == Len(made)
           S == OnSeed
           T == OnSeed \cup {k + 1}
           r == [prev |-> LastOf(chain[Seed]), kind |-> kind]
<1>1. /\ Seed \in Nodes /\ k \in Nat /\ chain[Seed] \in Seq(S) /\ S \subseteq 1 .. k
  BY SeedHolds
<1>2. /\ made' = Append(made, r) /\ session' = session /\ push' = push
      /\ chain' = [chain EXCEPT ![Seed] = Append(chain[Seed], k + 1)]
  BY DEF Make
<1>3. chain'[Seed] = Append(chain[Seed], k + 1) /\ \A n \in Nodes \ {Seed} : chain'[n] = chain[n]
  BY <1>1, <1>2 DEF Inv
<1>4. OnSeed' = T
  <2>1. /\ Len(Append(chain[Seed], k + 1)) = Len(chain[Seed]) + 1 /\ Len(chain[Seed]) \in Nat
        /\ DOMAIN Append(chain[Seed], k + 1) = 1 .. Len(chain[Seed]) + 1
        /\ DOMAIN chain[Seed] = 1 .. Len(chain[Seed])
        /\ Append(chain[Seed], k + 1)[Len(chain[Seed]) + 1] = k + 1
        /\ \A i \in 1 .. Len(chain[Seed]) : Append(chain[Seed], k + 1)[i] = chain[Seed][i]
    <3>1. chain[Seed] \in Seq(Nat) /\ k + 1 \in Nat
      BY <1>1, ChainHolds
    <3> HIDE DEF k
    <3> QED BY <3>1
  <2>2. \A i : i \in 1 .. Len(chain[Seed]) + 1
                 <=> i \in 1 .. Len(chain[Seed]) \/ i = Len(chain[Seed]) + 1
    BY <2>1
  <2> QED BY <1>3, <2>1, <2>2 DEF OnSeed, Range
<1>5. /\ made'[k + 1] = r /\ \A e \in 1 .. k : made'[e] = made[e]
  <2> DEFINE A == [prev : Nat, kind : KindsOfEvent]
  <2>1. made \in Seq(A)
    BY DEF Inv, MadeOK
  <2>2. r \in A
    <3>1. LastOf(chain[Seed]) \in 0 .. k
      BY <1>1, ChainHolds, SoundIsShort
    <3> QED BY <3>1, SyncAssumption
  <2> HIDE DEF A, r
  <2> QED BY <1>2, <2>1, <2>2, Appended
<1>6. Closed'
  <2> SUFFICES ASSUME NEW e \in T PROVE made'[e].prev = Genesis \/ made'[e].prev \in T
    BY <1>4 DEF Closed
  <2>1. CASE e \in S
    BY <1>1, <1>5, <2>1 DEF StarInv, Closed
  <2>2. CASE e = k + 1
    <3>1. made'[e].prev = LastOf(chain[Seed])
      BY <1>5, <2>2
    <3>2. CASE chain[Seed] = <<>>
      BY <3>1, <3>2 DEF LastOf
    <3>3. CASE chain[Seed] # <<>>
      <4>1. LastOf(chain[Seed]) = chain[Seed][Len(chain[Seed])]
        BY <3>3 DEF LastOf, Last
      <4>2. chain[Seed][Len(chain[Seed])] \in S
        <5> HIDE DEF S
        <5> QED BY <1>1, <3>3
      <4> QED BY <3>1, <4>1, <4>2
    <3> QED BY <3>2, <3>3
  <2> QED BY <2>1, <2>2
<1>7. Seq(S) \subseteq Seq(T) /\ Seq(EntriesOf(S)) \subseteq Seq(EntriesOf(T))
  <2>1. S \subseteq T /\ EntriesOf(S) \subseteq EntriesOf(T)
    BY DEF EntriesOf
  <2> HIDE DEF S, T
  <2> QED BY <2>1, SeqMonotonic
<1>8. ChainsBelong'
  <2> SUFFICES ASSUME NEW n \in Nodes PROVE Belongs(chain'[n], T)
    BY <1>4 DEF ChainsBelong
  <2>1. CASE n = Seed
    <3>1. chain[Seed] \in Seq(T) /\ k + 1 \in T
      BY <1>1, <1>7
    <3>2. Append(chain[Seed], k + 1) \in Seq(T)
      <4> HIDE DEF T, k
      <4> QED BY <3>1
    <3> QED BY <1>3, <2>1, <3>2 DEF Belongs
  <2>2. CASE n # Seed
    <3>1. chain'[n] = chain[n] /\ Belongs(chain[n], S)
      BY <1>3, <2>2 DEF StarInv, ChainsBelong
    <3>2. CASE chain[n] \in Seq(S)
      BY <1>7, <3>1, <3>2 DEF Belongs
    <3>3. CASE ~ (chain[n] \in Seq(S))
      <4>1. chain[n] # <<>> /\ \A i \in 1 .. Len(chain[n]) : chain[n][i] \notin S
        BY <3>1, <3>3 DEF Belongs
      <4>2. \A i \in 1 .. Len(chain[n]) : chain[n][i] # k + 1
        <5>1. chain[n] \in Seq(1 .. k)
          BY ChainHolds
        <5>2. \A i \in 1 .. Len(chain[n]) : chain[n][i] \in 1 .. k
          BY <5>1, ElementIs
        <5> QED BY <1>1, <5>2
      <4> QED BY <3>1, <4>1, <4>2 DEF Belongs
    <3> QED BY <3>2, <3>3
  <2> QED BY <2>1, <2>2
<1>9. SessionsSee'
  <2> SUFFICES ASSUME NEW n \in Nodes, NEW t \in Threads PROVE Sees(chain'[n], T, session[n][t])
    BY <1>2, <1>4 DEF SessionsSee
  <2>1. Sees(chain[n], S, session[n][t])
    BY DEF StarInv, SessionsSee
  <2>2. n = Seed => session[n][t].at = "idle"
    BY SessionHolds DEF Inv, Fits, Star
  <2>3. CASE n = Seed
    BY <2>2, <2>3 DEF Sees
  <2>4. CASE n # Seed
    BY <1>3, <1>7, <2>1, <2>4 DEF Sees
  <2> QED BY <2>3, <2>4
<1>10. push'[Seed].batch \in Seq(T)
  BY <1>2, <1>7 DEF StarInv
<1> QED BY <1>4, <1>6, <1>8, <1>9, <1>10 DEF StarInv

\* Any other step leaves the author's chain and makes no event.
LEMMA SeedStays ==
  ASSUME Star, Inv, StarInv, [Next]_vars
  PROVE  \/ \E kind \in Kinds : Make(Seed, kind)
         \/ made' = made /\ chain'[Seed] = chain[Seed] /\ OnSeed' = OnSeed
<1> DEFINE Stays == made' = made /\ chain'[Seed] = chain[Seed]
<1>0. Seed \in Nodes
  BY NodesAssumption
<1>1. CASE UNCHANGED vars
  BY <1>1 DEF vars, OnSeed
<1>2. CASE Next
  <2>1. PICK n \in Nodes :
          \/ \E kind \in Kinds : Make(n, kind)
          \/ \E t \in Threads : LoseSync(n, t) \/ \E p \in Nodes : Sync(n, t, p)
          \/ Push(n) \/ LosePush(n)
          \/ Crash(n)
    BY <1>2 DEF Next
  <2>2. CASE \E kind \in Kinds : Make(n, kind)
    BY <2>2 DEF Make, Star
  <2>3. CASE \E t \in Threads : LoseSync(n, t) \/ \E p \in Nodes : Sync(n, t, p)
    <3>1. PICK t \in Threads : LoseSync(n, t) \/ \E p \in Nodes : Sync(n, t, p)
      BY <2>3
    <3>2. n = Seed => session[n][t].at = "idle"
      BY SessionHolds DEF Inv, Fits, Star
    <3>3. CASE n = Seed
      BY <3>1, <3>2, <3>3
         DEF Star, OnSeed, LoseSync, Sync, Ask, Answer, Take, ResetChain
    <3>4. CASE n # Seed
      <4>1. \A c : chain' = [chain EXCEPT ![n] = c] => chain'[Seed] = chain[Seed]
        BY <1>0, <3>4 DEF Inv
      <4> QED BY <3>1, <4>1
              DEF OnSeed, LoseSync, Sync, Ask, Answer, Take, TakeFork, TakePage, ResetChain
    <3> QED BY <3>3, <3>4
  <2>4. CASE Push(n) \/ LosePush(n)
    <3>1. \A p \in Nodes : TakePush(n, p) => p # Seed
      BY DEF TakePush, Star
    <3>2. ASSUME NEW p \in Nodes, TakePush(n, p) PROVE Stays
      BY <1>0, <3>1, <3>2 DEF TakePush, Inv
    <3>3. SendPush(n) \/ EndPush(n) \/ LosePush(n) => Stays
      BY DEF SendPush, EndPush, LosePush
    <3> QED BY <2>4, <3>2, <3>3 DEF Push, OnSeed
  <2>5. CASE Crash(n)
    <3>1. n # Seed /\ made' = made
      BY <2>5 DEF Crash, Star
    <3>2. \E l : chain' = [chain EXCEPT ![n] = SubSeq(chain[n], 1, l)]
      BY <2>5 DEF Crash
    <3> QED BY <1>0, <3>1, <3>2 DEF Inv, OnSeed
  <2> QED BY <2>1, <2>2, <2>3, <2>4, <2>5
<1> QED BY <1>1, <1>2

\* What a step that is none of the author's does to a chain: it is then made of the
\* author's events, or is what is left of one that has none of them.
Comes(n) ==
  \/ chain'[n] \in Seq(OnSeed)
  \/ /\ Belongs(chain'[n], OnSeed) /\ Len(chain'[n]) <= Len(chain[n])
     /\ ~ (chain[n] \in Seq(OnSeed))

LEMMA ChainsCome ==
  ASSUME Star, Inv, StarInv, [Next]_vars, chain'[Seed] = chain[Seed],
         NEW n \in Nodes
  PROVE  Comes(n)
<1>0. Belongs(chain[n], OnSeed) /\ Len(chain[n]) \in Nat
  BY ChainHolds DEF StarInv, ChainsBelong
<1>1. ASSUME chain'[n] = chain[n] PROVE Comes(n)
  BY <1>0, <1>1 DEF Comes, Belongs
<1>2. ASSUME NEW page \in Seq(EntriesOf(OnSeed)), chain'[n] = Ingested(chain[n], page)
      PROVE  Comes(n)
  <2>1. CASE chain[n] \in Seq(OnSeed)
    BY <1>2, <2>1, PageBelongs DEF StarInv, Comes
  <2>2. CASE ~ (chain[n] \in Seq(OnSeed))
    BY <1>0, <1>1, <1>2, <2>2, PageBelongs DEF StarInv
  <2> QED BY <2>1, <2>2
<1>3. ASSUME chain'[n] = <<>> PROVE Comes(n)
  BY <1>3 DEF Comes
<1>4. CASE n = Seed
  BY <1>1, <1>4
<1>5. CASE n # Seed
  <2>1. CASE UNCHANGED vars
    BY <1>1, <2>1 DEF vars
  <2>2. CASE Next
    <3>1. PICK m \in Nodes :
            \/ \E kind \in Kinds : Make(m, kind)
            \/ \E t \in Threads : LoseSync(m, t) \/ \E p \in Nodes : Sync(m, t, p)
            \/ Push(m) \/ LosePush(m)
            \/ Crash(m)
      BY <2>2 DEF Next
    <3>2. CASE \E kind \in Kinds : Make(m, kind)
      <4>1. m = Seed
        BY <3>2 DEF Make, Star
      <4>2. \E c : chain' = [chain EXCEPT ![Seed] = c]
        BY <3>2, <4>1 DEF Make
      <4>3. chain'[n] = chain[n]
        BY <1>5, <4>2 DEF Inv
      <4> QED BY <1>1, <4>3
    <3>3. CASE \E t \in Threads : LoseSync(m, t) \/ \E p \in Nodes : Sync(m, t, p)
      <4>1. PICK t \in Threads : LoseSync(m, t) \/ \E p \in Nodes : Sync(m, t, p)
        BY <3>3
      <4>2. CASE m # n
        <5>1. \A c : chain' = [chain EXCEPT ![m] = c] => chain'[n] = chain[n]
          BY <4>2 DEF Inv
        <5>2. chain'[n] = chain[n]
          BY <4>1, <5>1
             DEF LoseSync, Sync, Ask, Answer, Take, TakeFork, TakePage, ResetChain
        <5> QED BY <1>1, <5>2
      <4>3. CASE m = n
        <5>1. ASSUME NEW p \in Nodes, Take(n, t, p), TakePage(n, t) PROVE Comes(n)
          <6>1. session[n][t].page \in Seq(EntriesOf(OnSeed))
            BY <5>1 DEF StarInv, SessionsSee, Sees, Take
          <6>2. chain'[n] = Ingested(chain[n], session[n][t].page)
            BY <5>1 DEF TakePage, Inv
          <6> QED BY <1>2, <6>1, <6>2
        <5>2. ASSUME NEW p \in Nodes, ResetChain(n, t, p) PROVE Comes(n)
          <6>1. chain'[n] = <<>>
            BY <5>2 DEF ResetChain, Inv
          <6> QED BY <1>3, <6>1
        <5>3. ASSUME ~ \E p \in Nodes : \/ Take(n, t, p) /\ TakePage(n, t)
                                        \/ ResetChain(n, t, p)
              PROVE  Comes(n)
          <6>1. chain' = chain
            BY <4>1, <4>3, <5>3 DEF LoseSync, Sync, Ask, Answer, Take, TakeFork
          <6> QED BY <1>1, <6>1
        <5> QED BY <5>1, <5>2, <5>3
      <4> QED BY <4>2, <4>3
    <3>4. CASE Push(m) \/ LosePush(m)
      <4>1. SendPush(m) \/ EndPush(m) \/ LosePush(m) => chain'[n] = chain[n]
        BY DEF SendPush, EndPush, LosePush
      <4>2. ASSUME NEW p \in Nodes, TakePush(m, p) PROVE Comes(n)
        <5> DEFINE page == [i \in DOMAIN push[m].batch |-> Entry(push[m].batch[i], TRUE)]
        <5>1. chain' = [chain EXCEPT ![p] = Ingested(chain[p], page)]
          BY <4>2 DEF TakePush
        <5>2. page \in Seq(EntriesOf(OnSeed))
          <6>1. m = Seed /\ push[m].batch \in Seq(OnSeed)
            BY <4>2 DEF TakePush, Star, StarInv
          <6> HIDE DEF page
          <6> QED BY <6>1, EntriesWhole DEF page
        <5> HIDE DEF page
        <5>3. CASE p = n
          <6>1. chain'[n] = Ingested(chain[n], page)
            BY <5>1, <5>3 DEF Inv
          <6> QED BY <1>2, <5>2, <6>1
        <5>4. CASE p # n
          <6>1. chain'[n] = chain[n]
            BY <5>1, <5>4 DEF Inv
          <6> QED BY <1>1, <6>1
        <5> QED BY <5>3, <5>4
      <4> QED BY <1>1, <3>4, <4>1, <4>2 DEF Push
    <3>5. CASE Crash(m)
      <4>1. PICK l \in 0 .. Len(chain[m]) : chain' = [chain EXCEPT ![m] = SubSeq(chain[m], 1, l)]
        BY <3>5 DEF Crash
      <4>2. CASE m # n
        <5>1. chain'[n] = chain[n]
          BY <4>1, <4>2 DEF Inv
        <5> QED BY <1>1, <5>1
      <4>3. CASE m = n
        <5> DEFINE c == chain[n]
        <5>1. chain'[n] = SubSeq(c, 1, l) /\ l \in 0 .. Len(c) /\ c \in Seq(1 .. Len(made))
          BY <4>1, <4>3, ChainHolds DEF Inv
        <5> HIDE DEF c
        <5>2. /\ Len(SubSeq(c, 1, l)) = l /\ \A i \in 1 .. l : SubSeq(c, 1, l)[i] = c[i]
              /\ \A S : c \in Seq(S) => SubSeq(c, 1, l) \in Seq(S)
          BY <5>1
        <5>3. CASE c \in Seq(OnSeed)
          BY <5>1, <5>2, <5>3 DEF Comes
        <5>4. CASE ~ (c \in Seq(OnSeed))
          <6>1. \A i \in 1 .. Len(c) : c[i] \notin OnSeed
            BY <1>0, <5>4 DEF Belongs, c
          <6>2. \A i \in 1 .. l : i \in 1 .. Len(c)
            BY <5>1
          <6>3. \A i \in 1 .. l : SubSeq(c, 1, l)[i] \notin OnSeed
            BY <5>2, <6>1, <6>2
          <6>4. CASE SubSeq(c, 1, l) = <<>>
            BY <1>3, <5>1, <6>4
          <6>5. CASE SubSeq(c, 1, l) # <<>>
            <7>1. Belongs(SubSeq(c, 1, l), OnSeed) /\ l <= Len(c)
              BY <1>0, <5>1, <5>2, <6>3, <6>5 DEF Belongs, c
            <7> QED BY <5>1, <5>2, <5>4, <7>1 DEF Comes, c
          <6> QED BY <6>4, <6>5
        <5> QED BY <5>3, <5>4
      <4> QED BY <4>2, <4>3
    <3> QED BY <3>1, <3>2, <3>3, <3>4, <3>5
  <2> QED BY <2>1, <2>2
<1> QED BY <1>4, <1>5

\* What a step does to one session.
LEMMA SessionChanges ==
  ASSUME Inv, [Next]_vars, NEW n \in Nodes, NEW t \in Threads
  PROVE  \/ session'[n][t] = session[n][t]
         \/ session'[n][t].at \in {"idle", "asked", "again"}
         \/ \E p \in Nodes : Answer(n, t, p)
         \/ session'[n][t].at = "small" /\ IsSmall(chain[n]) /\ chain' = chain
<1> DEFINE Same == session'[n][t] = session[n][t]
           Left == session'[n][t].at \in {"idle", "asked", "again"}
<1>1. CASE UNCHANGED vars
  BY <1>1 DEF vars
<1>2. ASSUME NEW m \in Nodes, NEW u \in Threads, NEW s, session' = [session EXCEPT ![m][u] = s]
      PROVE  session'[n][t] = IF m = n /\ u = t THEN s ELSE session[n][t]
  <2>1. session'[m][u] = s /\ (~ (m = n /\ u = t) => session'[n][t] = session[n][t])
    BY <1>2 DEF Inv, SessionsOK
  <2> QED BY <2>1
<1>3. CASE Next
  <2>1. PICK m \in Nodes :
          \/ \E kind \in Kinds : Make(m, kind)
          \/ \E u \in Threads : LoseSync(m, u) \/ \E p \in Nodes : Sync(m, u, p)
          \/ Push(m) \/ LosePush(m)
          \/ Crash(m)
    BY <1>3 DEF Next
  <2>2. CASE (\E kind \in Kinds : Make(m, kind)) \/ Push(m) \/ LosePush(m)
    BY <2>2 DEF Make, Push, SendPush, TakePush, EndPush, LosePush
  <2>3. CASE \E u \in Threads : LoseSync(m, u) \/ \E p \in Nodes : Sync(m, u, p)
    <3>1. PICK u \in Threads : LoseSync(m, u) \/ \E p \in Nodes : Sync(m, u, p)
      BY <2>3
    <3>2. CASE ~ (m = n /\ u = t)
      <4>1. \E s : session' = [session EXCEPT ![m][u] = s]
        <5>1. LoseSync(m, u) => \E s : session' = [session EXCEPT ![m][u] = s]
          BY DEF LoseSync
        <5>2. ASSUME NEW p \in Nodes, Ask(m, u, p)
              PROVE  \E s : session' = [session EXCEPT ![m][u] = s]
          <6>1. CASE session' = [session EXCEPT ![m][u] = Asking(m, p, 0)]
            BY <6>1
          <6>2. CASE session' = [session EXCEPT ![m][u] = Asking(m, p, @.rounds)]
            <7>1. session' = [session EXCEPT ![m][u] = Asking(m, p, session[m][u].rounds)]
              BY <6>2 DEF Inv, SessionsOK
            <7> QED BY <7>1
          <6> QED BY <5>2, <6>1, <6>2 DEF Ask
        <5>3. ASSUME NEW p \in Nodes, Answer(m, u, p)
              PROVE  \E s : session' = [session EXCEPT ![m][u] = s]
          BY <5>3 DEF Answer
        <5>4. ASSUME NEW p \in Nodes, Take(m, u, p)
              PROVE  \E s : session' = [session EXCEPT ![m][u] = s]
          BY <5>4 DEF Take, TakeFork, TakePage
        <5>5. ASSUME NEW p \in Nodes, ResetChain(m, u, p)
              PROVE  \E s : session' = [session EXCEPT ![m][u] = s]
          BY <5>5 DEF ResetChain
        <5> QED BY <3>1, <5>1, <5>2, <5>3, <5>4, <5>5 DEF Sync
      <4> QED BY <1>2, <3>2, <4>1
    <3>3. CASE m = n /\ u = t
      <4>0. \A s : session' = [session EXCEPT ![n][t] = s] => session'[n][t] = s
        BY <1>2
      <4>1. LoseSync(n, t) => Left
        <5>1. LoseSync(n, t) => session'[n][t] = Idle
          BY <4>0 DEF LoseSync
        <5> QED BY <5>1 DEF Idle
      <4>2. ASSUME NEW p \in Nodes, Ask(n, t, p) PROVE Left
        <5>1. PICK k : session' = [session EXCEPT ![n][t] = Asking(n, p, k)]
          <6>1. CASE session' = [session EXCEPT ![n][t] = Asking(n, p, 0)]
            BY <6>1
          <6>2. CASE session' = [session EXCEPT ![n][t] = Asking(n, p, @.rounds)]
            <7>1. session' = [session EXCEPT ![n][t] = Asking(n, p, session[n][t].rounds)]
              BY <6>2 DEF Inv, SessionsOK
            <7> QED BY <7>1
          <6> QED BY <4>2, <6>1, <6>2 DEF Ask
        <5>2. session'[n][t] = Asking(n, p, k)
          BY <4>0, <5>1
        <5> QED BY <5>2 DEF Asking
      <4>3. ASSUME NEW p \in Nodes, Take(n, t, p)
            PROVE  \/ Left
                   \/ session'[n][t].at = "small" /\ IsSmall(chain[n]) /\ chain' = chain
        <5>1. CASE TakePage(n, t)
          <6> DEFINE r == session[n][t]
          <6>1. CASE Continues(chain[n], r)
            <7>1. session' = [session EXCEPT ![n][t] = Again(r, r.rounds + 1)]
              BY <5>1, <6>1 DEF TakePage
            <7>2. session'[n][t] = Again(r, r.rounds + 1)
              BY <4>0, <7>1
            <7> QED BY <7>2 DEF Again
          <6>2. CASE ~ Continues(chain[n], r)
            <7>1. session' = [session EXCEPT ![n][t] = Idle]
              BY <5>1, <6>2 DEF TakePage
            <7>2. session'[n][t] = Idle
              BY <4>0, <7>1
            <7> QED BY <7>2 DEF Idle
          <6> QED BY <6>1, <6>2
        <5>2. CASE TakeFork(n, t)
          <6> DEFINE r == [at |-> "small", peer |-> session[n][t].peer,
                           rounds |-> session[n][t].rounds]
          <6>1. CASE IsSmall(chain[n])
            <7>1. session' = [session EXCEPT ![n][t] = r]
              BY <5>2, <6>1 DEF TakeFork
            <7>2. session'[n][t] = r
              BY <4>0, <7>1
            <7> QED BY <5>2, <6>1, <7>2 DEF TakeFork
          <6>2. CASE ~ IsSmall(chain[n])
            <7>1. session' = [session EXCEPT ![n][t] = Idle]
              BY <5>2, <6>2 DEF TakeFork
            <7>2. session'[n][t] = Idle
              BY <4>0, <7>1
            <7> QED BY <7>2 DEF Idle
          <6> QED BY <6>1, <6>2
        <5> QED BY <4>3, <5>1, <5>2 DEF Take
      <4>4. ASSUME NEW p \in Nodes, ResetChain(n, t, p) PROVE Left
        <5>1. session'[n][t] = Again(session[n][t], session[n][t].rounds)
          BY <4>0, <4>4 DEF ResetChain
        <5> QED BY <5>1 DEF Again
      <4> QED BY <3>1, <3>3, <4>1, <4>2, <4>3, <4>4 DEF Sync
    <3> QED BY <3>2, <3>3
  <2>4. CASE Crash(m)
    <3>1. session' = [j \in Nodes |-> [u \in Threads |->
                       IF j = m \/ (session[j][u].at = "asked" /\ session[j][u].peer = m)
                       THEN Idle ELSE session[j][u]]]
      BY <2>4 DEF Crash
    <3>2. session'[n][t] = Idle \/ session'[n][t] = session[n][t]
      BY <3>1, Zenon
    <3> QED BY <3>2 DEF Idle
  <2> QED BY <2>1, <2>2, <2>3, <2>4
<1> QED BY <1>1, <1>3

LEMMA SessionsCome ==
  ASSUME Star, Inv, StarInv, [Next]_vars, chain'[Seed] = chain[Seed], OnSeed' = OnSeed
  PROVE  SessionsSee'
<1> SUFFICES ASSUME NEW n \in Nodes, NEW t \in Threads
             PROVE  Sees(chain'[n], OnSeed, session'[n][t])
  BY DEF SessionsSee
<1>1. CASE session'[n][t] = session[n][t]
  <2>1. Sees(chain[n], OnSeed, session[n][t])
    BY DEF StarInv, SessionsSee
  <2>2. Comes(n)
    BY ChainsCome
  <2>3. Len(chain[n]) < ResetBelow /\ Len(chain'[n]) <= Len(chain[n])
          => Len(chain'[n]) < ResetBelow
    <3>1. Len(chain'[n]) \in Nat
      <4>1. Inv'
        BY StepOK
      <4>2. chain'[n] \in Seq(1 .. Len(made'))
        BY <4>1 DEF Inv, Sound, Lists
      <4> QED BY <4>2
    <3> QED BY <3>1, ChainHolds, Numbers
  <2> QED BY <1>1, <2>1, <2>2, <2>3 DEF Sees, Comes
<1>2. CASE session'[n][t].at \in {"idle", "asked", "again"}
  BY <1>2 DEF Sees
<1>3. ASSUME NEW p \in Nodes, Answer(n, t, p) PROVE Sees(chain'[n], OnSeed, session'[n][t])
  <2> DEFINE start == Known(chain[p], session[n][t].locator)
             shown == Surface(Page(chain[p], start))
  <2>1. session'[n][t].at = "answered" /\ session'[n][t].page = shown
    BY <1>3 DEF Answer, Inv, SessionsOK
  <2>2. p = Seed
    BY <1>3, SessionHolds DEF Answer, Inv, Fits, Star
  <2>3. chain[p] \in Seq(OnSeed) /\ chain[p] \in Lists(Len(made)) /\ Len(made) \in Nat
    BY <2>2, SeedHolds, ChainHolds
  <2>4. start \in 0 .. Len(chain[p])
    BY <2>3, KnownIs
  <2> HIDE DEF start
  <2>5. Page(chain[p], start) \in Seq(OnSeed)
    BY <2>3, <2>4, PageIs
  <2>6. shown \in Seq(EntriesOf(OnSeed))
    BY <2>5, SurfaceIs
  <2> QED BY <2>1, <2>6 DEF Sees
<1>4. CASE session'[n][t].at = "small" /\ IsSmall(chain[n]) /\ chain' = chain
  BY <1>4 DEF Sees, IsSmall
<1> QED BY <1>1, <1>2, <1>3, <1>4, SessionChanges

LEMMA BatchComes ==
  ASSUME Star, Inv, StarInv, [Next]_vars
  PROVE  push'[Seed].batch \in Seq(OnSeed)
<1>0. Seed \in Nodes /\ chain[Seed] \in Seq(OnSeed) /\ push[Seed].batch \in Seq(OnSeed)
      /\ <<>> \in Seq(OnSeed) /\ push[Seed] \in PushType(Len(made))
  BY SeedHolds, PushHolds DEF StarInv
<1>1. \A p : Failed(p).batch = <<>>
  BY DEF Failed, NoPush
<1>2. CASE \E m \in Nodes : Crash(m)
  <2>1. push'[Seed] = NoPush \/ push'[Seed] = Failed(push[Seed]) \/ push'[Seed] = push[Seed]
    BY <1>0, <1>2, Zenon DEF Crash
  <2>2. NoPush.batch = <<>> /\ Failed(push[Seed]).batch = <<>>
    BY <1>1 DEF NoPush
  <2> QED BY <1>0, <2>1, <2>2
<1>3. CASE \A m \in Nodes : ~ Crash(m)
  <2>1. \/ push'[Seed] = push[Seed]
        \/ SendPush(Seed) \/ (\E p \in Nodes : TakePush(Seed, p)) \/ EndPush(Seed)
        \/ LosePush(Seed)
    BY <1>0, <1>3, PushMoves DEF Inv
  <2>2. CASE push'[Seed] = push[Seed]
    BY <1>0, <2>2
  <2>3. CASE SendPush(Seed)
    <3> DEFINE c == chain[Seed]
               from == push[Seed].next
               upto == IF from + BatchSize <= Len(c) THEN from + BatchSize ELSE Len(c)
    <3>1. /\ c \in Seq(OnSeed) /\ Len(c) \in Nat /\ from \in Nat /\ from < Len(c)
          /\ BatchSize \in Nat
      BY <1>0, <2>3, ChainHolds, PushHolds, Numbers DEF SendPush
    <3>2. push'[Seed].batch = SubSeq(c, from + 1, upto)
      <4>1. from + BatchSize \in Nat /\ Len(chain[Seed]) \in Nat
        BY <3>1
      <4>2. Min({from + BatchSize, Len(chain[Seed])}) = upto
        <5> HIDE DEF from
        <5> QED BY <4>1, MinOfTwo
      <4> QED BY <1>0, <2>3, <4>2 DEF SendPush, Inv
    <3>3. upto \in Nat /\ from <= upto /\ upto <= Len(c)
      BY <3>1
    <3> HIDE DEF c, from, upto
    <3>4. SubSeq(c, from + 1, upto) \in Seq(OnSeed)
      BY <3>1, <3>3, PieceIs
    <3> QED BY <3>2, <3>4
  <2>4. CASE \E p \in Nodes : TakePush(Seed, p)
    <3>1. push' = [push EXCEPT ![Seed].at = "taken"]
      BY <2>4 DEF TakePush
    <3>2. push'[Seed].batch = push[Seed].batch
      BY <1>0, <3>1 DEF PushType, Inv
    <3> QED BY <1>0, <3>2
  <2>5. CASE EndPush(Seed)
    <3>1. push'[Seed].batch = <<>>
      BY <1>0, <2>5 DEF EndPush, Inv, NoPush
    <3> QED BY <1>0, <3>1
  <2>6. CASE LosePush(Seed)
    <3>1. push'[Seed] = Failed(push[Seed])
      BY <1>0, <2>6 DEF LosePush, Inv
    <3> QED BY <1>0, <1>1, <3>1
  <2> QED BY <2>1, <2>2, <2>3, <2>4, <2>5, <2>6
<1> QED BY <1>2, <1>3

LEMMA StarStep ==
  ASSUME Star, Inv, StarInv, [Next]_vars
  PROVE  StarInv'
<1>1. CASE \E kind \in Kinds : Make(Seed, kind)
  BY <1>1, StarMake
<1>2. CASE made' = made /\ chain'[Seed] = chain[Seed] /\ OnSeed' = OnSeed
  <2>1. Closed'
    BY <1>2 DEF StarInv, Closed
  <2>2. ChainsBelong'
    <3>1. \A n \in Nodes : Comes(n)
      BY <1>2, ChainsCome
    <3> QED BY <1>2, <3>1 DEF ChainsBelong, Comes, Belongs
  <2>3. SessionsSee' /\ push'[Seed].batch \in Seq(OnSeed)
    BY <1>2, SessionsCome, BatchComes
  <2> QED BY <1>2, <2>1, <2>2, <2>3 DEF StarInv
<1> QED BY <1>1, <1>2, SeedStays

\* Two syncs that race may empty a chain that has grown past the limit between the test
\* of its length and the reset, but when the author takes no event from another node it
\* then holds nothing that cannot be fetched again from the author, however the threads
\* interleave, whatever is lost and whichever follower crashes (_sync_from_peer,
\* local_count < 20).
THEOREM LongChainsComeBack == ASSUME Star PROVE Spec => LongChainRecoverable
<1>1. Init => Inv /\ StarInv
  BY InitOK, StarInit
<1>2. (Inv /\ StarInv) /\ [Next]_vars => (Inv /\ StarInv)'
  BY StepOK, StarStep
<1>3. (Inv /\ StarInv) /\ [Next]_vars =>
        [ crashes' = crashes =>
            \A n \in Nodes : Len(chain[n]) >= ResetBelow /\ ~IsPrefix(chain[n], chain'[n])
                              => Range(chain[n]) \subseteq Range(chain[Seed]) ]_vars
  <2> SUFFICES ASSUME Inv, StarInv, [Next]_vars, crashes' = crashes, NEW n \in Nodes,
                      Len(chain[n]) >= ResetBelow, ~IsPrefix(chain[n], chain'[n])
               PROVE  Range(chain[n]) \subseteq Range(chain[Seed])
    OBVIOUS
  <2>1. \A m \in Nodes : ~ Crash(m)
    <3>1. crashes \in 0 .. MaxCrashes
      BY DEF Inv
    <3> QED BY <3>1, Numbers DEF Crash
  <2>2. PICK m \in Nodes, t \in Threads, p \in Nodes : ResetChain(m, t, p)
    BY <2>1, ChainsGrow
  <2>3. m = n
    <3> SUFFICES ASSUME m # n PROVE FALSE
      OBVIOUS
    <3>1. chain'[n] = chain[n]
      BY <2>2 DEF ResetChain, Inv
    <3> QED BY <3>1, ChainHolds, SamePrefix
  <2>4. chain[n] \in Seq(OnSeed)
    <3>1. session[n][t].at = "small" /\ Sees(chain[n], OnSeed, session[n][t])
      BY <2>2, <2>3 DEF ResetChain, StarInv, SessionsSee
    <3> QED BY <3>1, ChainHolds, Numbers DEF Sees
  <2> QED BY <2>4, RangeIs DEF OnSeed
<1> QED BY <1>1, <1>2, <1>3, PTL DEF Spec, LongChainRecoverable

==============================================================================
