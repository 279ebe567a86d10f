---------------------------- MODULE InfonetProofs ----------------------------
(***************************************************************************)
(* Theorems about Infonet, for every value of its constants.               *)
(***************************************************************************)
EXTENDS Infonet, SequenceTheorems, FiniteSetTheorems, WellFoundedInduction, TLAPS

------------------------------------------------------------------------------
(* Natural numbers *)

\* Every nonempty set of naturals has a least element.
LEMMA LeastNat ==
  ASSUME NEW T \in SUBSET Nat, T # {}
  PROVE  \E x \in T : \A y \in T : x <= y
<1> DEFINE R == OpToRel(<, Nat)
<1>1. PICK x \in T : \A y \in T : ~ (<<y, x>> \in R)
  <2>1. IsWellFoundedOn(R, Nat)
    BY NatLessThanWellFounded
  <2> HIDE DEF R
  <2> QED BY <2>1, WFMin
<1>2. \A y \in T : y < x => <<y, x>> \in R
  BY DEF OpToRel
<1> HIDE DEF R
<1>3. \A y \in T : ~ (y < x)
  BY <1>1, <1>2
<1> QED BY <1>3

\* Every nonempty bounded set of naturals has a greatest element.
LEMMA GreatestNat ==
  ASSUME NEW T \in SUBSET Nat, T # {}, NEW b \in Nat, \A x \in T : x <= b
  PROVE  \E x \in T : \A y \in T : y <= x
<1> DEFINE D == {y \in Nat : \E x \in T : x + y = b}
<1>1. PICK x0 \in T : TRUE
  OBVIOUS
<1>2. b - x0 \in D
  <2>1. x0 \in Nat /\ x0 <= b
    OBVIOUS
  <2> QED BY <2>1
<1>3. PICK d \in D : \A y \in D : d <= y
  <2> HIDE DEF D
  <2>1. D \in SUBSET Nat
    BY DEF D
  <2> QED BY <1>2, <2>1, LeastNat
<1>4. PICK x1 \in T : x1 + d = b
  OBVIOUS
<1>5. ASSUME NEW y \in T PROVE y <= x1
  <2>1. y \in Nat /\ x1 \in Nat /\ d \in Nat /\ y <= b
    OBVIOUS
  <2>2. b - y \in D
    BY <2>1
  <2>3. d <= b - y
    BY <1>3, <2>2
  <2> QED BY <1>4, <2>1, <2>3
<1> QED BY <1>5

------------------------------------------------------------------------------
(* The operators of Infonet *)

Chains == Seq(1 .. Len(signed))
SignedOK == signed \in Seq(Event)

\* A name on a chain is the name of a signed event.
LEMMA EventOnChain ==
  ASSUME SignedOK, NEW chain \in Chains, NEW i \in DOMAIN chain
  PROVE  chain[i] \in 1 .. Len(signed) /\ signed[chain[i]] \in Event
BY DEF SignedOK, Chains

\* Greatest bounds the floor and every sequence number it was computed from.
LEMMA GreatestBounds ==
  ASSUME SignedOK, NEW chain \in Chains, NEW n, NEW d, NEW floor \in Nat
  PROVE  /\ Greatest(chain, n, d, floor) \in Nat
         /\ floor <= Greatest(chain, n, d, floor)
         /\ \A i \in Authored(chain, n, d) :
              signed[chain[i]].seq <= Greatest(chain, n, d, floor)
<1> DEFINE seqs == {signed[chain[i]].seq : i \in Authored(chain, n, d)} \cup {floor}
           b == IF floor <= MaxSequence THEN MaxSequence ELSE floor
<1>1. \A i \in Authored(chain, n, d) :
        signed[chain[i]].seq \in Nat /\ signed[chain[i]].seq <= MaxSequence
  BY EventOnChain, BoundAssumption DEF Authored, Event
<1>2. b \in Nat /\ seqs \in SUBSET Nat /\ seqs # {} /\ \A x \in seqs : x <= b
  BY <1>1, BoundAssumption
<1>3. \E m \in seqs : \A s \in seqs : s <= m
  <2> HIDE DEF seqs, b
  <2> QED BY <1>2, GreatestNat
<1>4. Greatest(chain, n, d, floor) = CHOOSE m \in seqs : \A s \in seqs : s <= m
  BY DEF Greatest
<1>5. /\ Greatest(chain, n, d, floor) \in seqs
      /\ \A s \in seqs : s <= Greatest(chain, n, d, floor)
  <2> HIDE DEF seqs
  <2> QED BY <1>3, <1>4
<1> QED BY <1>2, <1>5

\* RevocationOf, of any chain and its events, and the revocation it chooses.
RevokesIn(sg, chain, n) ==
  {i \in DOMAIN chain : sg[chain[i]].node = n /\ sg[chain[i]].kind = "key_revoke"}
Newest(sg, chain, n, i) ==
  \A j \in RevokesIn(sg, chain, n) :
    \/ sg[chain[j]].body.at < sg[chain[i]].body.at
    \/ sg[chain[j]].body.at = sg[chain[i]].body.at /\ j <= i
InForce(sg, chain, n) ==
  IF RevokesIn(sg, chain, n) = {} THEN Genesis
  ELSE chain[CHOOSE i \in RevokesIn(sg, chain, n) : Newest(sg, chain, n, i)]

LEMMA RevocationIs ==
  ASSUME NEW chain, NEW n
  PROVE  RevocationOf(chain, n) = InForce(signed, chain, n)
<1>1. Revokes(chain, n) = RevokesIn(signed, chain, n)
  BY DEF Revokes, RevokesIn
<1>2. CASE Revokes(chain, n) = {}
  BY <1>1, <1>2 DEF RevocationOf, InForce
<1>3. CASE Revokes(chain, n) # {}
  BY <1>1, <1>3 DEF RevocationOf, InForce, Newest
<1> QED BY <1>2, <1>3

\* Where a chain revokes a key at all there is a newest revocation, and only one.
LEMMA NewestExists ==
  ASSUME NEW sg, NEW S, NEW chain \in Seq(S), NEW n, RevokesIn(sg, chain, n) # {},
         \A i \in DOMAIN chain : sg[chain[i]].body.at \in 0 .. MaxTime
  PROVE  \E i \in RevokesIn(sg, chain, n) : Newest(sg, chain, n, i)
<1> DEFINE R == RevokesIn(sg, chain, n)
           At(i) == sg[chain[i]].body.at
<1>1. R \subseteq DOMAIN chain /\ DOMAIN chain = 1 .. Len(chain) /\ Len(chain) \in Nat
  BY DEF RevokesIn
<1>2. \A i \in R : At(i) \in Nat /\ At(i) <= MaxTime
  BY <1>1, BoundAssumption
<1>3. PICK a \in R : \A j \in R : At(j) <= At(a)
  <2> DEFINE T == {At(i) : i \in R}
  <2>1. T \in SUBSET Nat /\ T # {} /\ MaxTime \in Nat /\ \A x \in T : x <= MaxTime
    <3> HIDE DEF At
    <3> QED BY <1>2, BoundAssumption
  <2>2. \E x \in T : \A y \in T : y <= x
    <3> HIDE DEF T
    <3> QED BY <2>1, GreatestNat
  <2> HIDE DEF At, R
  <2> QED BY <2>2
<1>4. PICK i \in R : At(i) = At(a) /\ \A j \in R : At(j) = At(a) => j <= i
  <2> DEFINE T == {j \in R : At(j) = At(a)}
  <2>1. /\ T \in SUBSET Nat /\ T # {} /\ Len(chain) \in Nat
        /\ \A x \in T : x <= Len(chain)
    <3> HIDE DEF At, R
    <3> QED BY <1>1
  <2>2. \E x \in T : \A y \in T : y <= x
    <3> HIDE DEF T
    <3> QED BY <2>1, GreatestNat
  <2> HIDE DEF At, R
  <2> QED BY <2>2
<1>5. \A j \in R : At(j) < At(i) \/ (At(j) = At(i) /\ j <= i)
  <2> HIDE DEF At, R
  <2> QED BY <1>2, <1>3, <1>4
<1> QED BY <1>1, <1>5 DEF Newest

LEMMA NewestIsInForce ==
  ASSUME NEW sg, NEW S, NEW chain \in Seq(S), NEW n,
         NEW i \in RevokesIn(sg, chain, n), Newest(sg, chain, n, i),
         \A j \in DOMAIN chain : sg[chain[j]].body.at \in 0 .. MaxTime
  PROVE  InForce(sg, chain, n) = chain[i]
<1> DEFINE c == CHOOSE j \in RevokesIn(sg, chain, n) : Newest(sg, chain, n, j)
<1>2. c \in RevokesIn(sg, chain, n) /\ Newest(sg, chain, n, c)
  OBVIOUS
<1>3. InForce(sg, chain, n) = chain[c]
  BY DEF InForce
<1> HIDE DEF c
<1>4. c \in Nat /\ i \in Nat /\ c \in DOMAIN chain /\ i \in DOMAIN chain
  BY <1>2 DEF RevokesIn
<1>5. sg[chain[c]].body.at \in Int /\ sg[chain[i]].body.at \in Int
  BY <1>4
<1>6. c = i
  BY <1>2, <1>4, <1>5 DEF Newest
<1> QED BY <1>3, <1>6

\* RevocationOf is Genesis or an event of the chain.
LEMMA RevocationOfType ==
  ASSUME SignedOK, NEW chain \in Chains, NEW n
  PROVE  RevocationOf(chain, n) \in 0 .. Len(signed)
<1>1. chain \in Seq(1 .. Len(signed)) /\ Len(signed) \in Nat
  BY DEF Chains, SignedOK
<1>2. \A i \in DOMAIN chain : signed[chain[i]].body.at \in 0 .. MaxTime
  BY EventOnChain DEF Event
<1>3. CASE RevokesIn(signed, chain, n) = {}
  BY <1>1, <1>3, RevocationIs DEF InForce, Genesis
<1>4. CASE RevokesIn(signed, chain, n) # {}
  <2>1. PICK i \in RevokesIn(signed, chain, n) : Newest(signed, chain, n, i)
    BY <1>1, <1>2, <1>4, NewestExists
  <2>2. RevocationOf(chain, n) = chain[i] /\ i \in DOMAIN chain
    BY <1>1, <1>2, <2>1, NewestIsInForce, RevocationIs DEF RevokesIn
  <2> QED BY <2>2, EventOnChain
<1> QED BY <1>3, <1>4

\* Without repetitions, IndexOf gives each event its position and no other id one.
LEMMA IndexOfProps ==
  ASSUME NEW chain \in Seq(Ids), \A i, j \in DOMAIN chain : chain[i] = chain[j] => i = j
  PROVE  /\ IndexOf(chain) \in [Ids -> Nat]
         /\ \A i \in DOMAIN chain : IndexOf(chain)[chain[i]] = i
         /\ \A e \in Ids : IndexOf(chain)[e] # 0 =>
              IndexOf(chain)[e] \in DOMAIN chain /\ chain[IndexOf(chain)[e]] = e
<1>1. DOMAIN chain = 1 .. Len(chain) /\ Len(chain) \in Nat /\ \A i \in DOMAIN chain : chain[i] \in Ids
  OBVIOUS
<1>2. \A e \in Ids :
        IndexOf(chain)[e] = IF \E i \in DOMAIN chain : chain[i] = e
                            THEN CHOOSE i \in DOMAIN chain : chain[i] = e ELSE 0
  BY DEF IndexOf
<1>3. IndexOf(chain) = [e \in Ids |-> IndexOf(chain)[e]]
  BY DEF IndexOf
<1>4. \A e \in Ids : (\E i \in DOMAIN chain : chain[i] = e) =>
        IndexOf(chain)[e] \in DOMAIN chain /\ chain[IndexOf(chain)[e]] = e
  BY <1>2
<1>5. \A e \in Ids : IndexOf(chain)[e] \in Nat
  BY <1>1, <1>2, <1>4
<1>6. IndexOf(chain) \in [Ids -> Nat]
  BY <1>3, <1>5
<1> QED BY <1>1, <1>2, <1>4, <1>6

LEMMA IndexOfType ==
  ASSUME NEW chain \in Seq(Ids)
  PROVE  IndexOf(chain) \in [Ids -> Nat]
<1>1. DOMAIN chain = 1 .. Len(chain) /\ Len(chain) \in Nat
  OBVIOUS
<1>2. \A e \in Ids :
        (IF \E i \in DOMAIN chain : chain[i] = e
         THEN CHOOSE i \in DOMAIN chain : chain[i] = e ELSE 0) \in Nat
  BY <1>1
<1> QED BY <1>2 DEF IndexOf

\* How many events a chain spills, and that it splits there.
LEMMA OverflowProps ==
  ASSUME NEW S, NEW chain \in Seq(S)
  PROVE  /\ Overflow(chain) \in 0 .. Len(chain)
         /\ SubSeq(chain, 1, Overflow(chain)) \in Seq(S)
         /\ SubSeq(chain, Overflow(chain) + 1, Len(chain)) \in Seq(S)
         /\ Len(SubSeq(chain, Overflow(chain) + 1, Len(chain)))
              = Len(chain) - Overflow(chain)
         /\ \A i \in 1 .. Len(chain) - Overflow(chain) :
              SubSeq(chain, Overflow(chain) + 1, Len(chain))[i]
                = chain[Overflow(chain) + i]
         /\ SubSeq(chain, 1, Overflow(chain))
              \o SubSeq(chain, Overflow(chain) + 1, Len(chain)) = chain
<1>1. Len(chain) \in Nat /\ \A i \in 1 .. Len(chain) : chain[i] \in S
  OBVIOUS
<1>2. Overflow(chain) \in 0 .. Len(chain)
  BY <1>1, BoundAssumption DEF Overflow
<1>3. /\ SubSeq(chain, 1, Overflow(chain)) \in Seq(S)
      /\ SubSeq(chain, Overflow(chain) + 1, Len(chain)) \in Seq(S)
      /\ Len(SubSeq(chain, Overflow(chain) + 1, Len(chain)))
           = Len(chain) - Overflow(chain)
      /\ \A i \in 1 .. Len(chain) - Overflow(chain) :
           SubSeq(chain, Overflow(chain) + 1, Len(chain))[i]
             = chain[Overflow(chain) + i]
  <2> DEFINE o == Overflow(chain)
  <2>0. o \in 0 .. Len(chain)
    BY <1>2
  <2> HIDE DEF o
  <2>1. SubSeq(chain, 1, o) \in Seq(S)
    BY <1>1, <2>0, SubSeqProperties
  <2>2. /\ SubSeq(chain, o + 1, Len(chain)) \in Seq(S)
        /\ Len(SubSeq(chain, o + 1, Len(chain)))
             = IF o + 1 <= Len(chain) THEN Len(chain) - (o + 1) + 1 ELSE 0
        /\ \A i \in 1 .. Len(chain) - (o + 1) + 1 :
             SubSeq(chain, o + 1, Len(chain))[i] = chain[o + 1 + i - 1]
    BY <1>1, <2>0, SubSeqProperties
  <2>3. Len(SubSeq(chain, o + 1, Len(chain))) = Len(chain) - o
    BY <1>1, <2>0, <2>2
  <2>4. \A i \in 1 .. Len(chain) - o : SubSeq(chain, o + 1, Len(chain))[i] = chain[o + i]
    BY <1>1, <2>0, <2>2
  <2> QED BY <2>1, <2>2, <2>3, <2>4 DEF o
<1>4. SubSeq(chain, 1, Overflow(chain))
        \o SubSeq(chain, Overflow(chain) + 1, Len(chain)) = chain
  <2> DEFINE o == Overflow(chain)
  <2>0. o \in 0 .. Len(chain)
    BY <1>2
  <2> HIDE DEF o
  <2>1. SubSeq(chain, 1, o) \o SubSeq(chain, o + 1, Len(chain)) = SubSeq(chain, 1, Len(chain))
    <3>1. 1 \in 1 .. Len(chain) + 1 /\ o \in 1 - 1 .. Len(chain) /\ Len(chain) \in o .. Len(chain)
      BY <1>1, <2>0
    <3> QED BY <3>1, ConcatAdjacentSubSeq
  <2>2. SubSeq(chain, 1, Len(chain)) = chain
    BY SubSeqFull
  <2> QED BY <2>1, <2>2 DEF o
<1> QED BY <1>2, <1>3, <1>4

------------------------------------------------------------------------------
(* Type correctness *)

\* The signed events only grow.
Grown ==
  /\ signed' \in Seq(Event) /\ Len(signed') <= MaxEvents
  /\ Len(signed) <= Len(signed')
  /\ \A i \in 1 .. Len(signed) : signed'[i] = signed[i]

LEMMA MakeEventType ==
  ASSUME TypeOK, NEW prev \in 0 .. Len(signed), NEW k \in Kinds, NEW n \in Nodes,
         NEW s \in 1 .. MaxSequence, NEW b \in Body(k)
  PROVE  MakeEvent(prev, k, n, s, b) \in Event
<1>2. b \in [target : Targets \cup {NoTarget}, at : 0 .. MaxTime, grace : 0 .. MaxTime]
  <2>1. CASE k = "dm_message"
    BY SMTT(30), <2>1, BoundAssumption DEF Body
  <2>2. CASE k = "key_revoke"
    BY SMTT(30), <2>2, BoundAssumption DEF Body
  <2>3. CASE k # "dm_message" /\ k # "key_revoke"
    BY SMTT(30), <2>3, BoundAssumption DEF Body
  <2> QED BY <2>1, <2>2, <2>3
<1>3. prev \in {Genesis} \cup Ids /\ now \in 1 .. MaxTime
  BY BoundAssumption DEF TypeOK, Genesis, Ids
<1> QED BY <1>2, <1>3 DEF MakeEvent, Event

LEMMA SignGrows ==
  ASSUME TypeOK, NEW e \in Event, Sign(e)
  PROVE  Grown /\ NewId \in 1 .. Len(signed') /\ signed'[NewId] = e
BY DEF TypeOK, Sign, NewId, Ids, Grown

LEMMA UnchangedGrows ==
  ASSUME TypeOK, UNCHANGED signed
  PROVE  Grown
BY DEF TypeOK, Grown

LEMMA GrownChains ==
  ASSUME TypeOK, Grown, NEW chain \in Chains
  PROVE  chain \in Seq(1 .. Len(signed')) /\ chain \in Seq(Ids)
<1>1. /\ 1 .. Len(signed) \subseteq 1 .. Len(signed')
      /\ 1 .. Len(signed) \subseteq Ids
  BY BoundAssumption DEF TypeOK, Grown, Ids
<1> QED BY <1>1, SeqMonotonic DEF Chains

\* The variables Extend and RebuildFrom assign.
LedgerTyped ==
  /\ events \in Seq(1 .. Len(signed))
  /\ cold \in Seq(1 .. Len(signed))
  /\ head_hash \in 0 .. Len(signed)
  /\ event_index \in [Ids -> Nat]
  /\ last_sequence \in [Nodes -> [Domains -> Nat]]
  /\ revocations \in [Nodes -> 0 .. Len(signed)]

LEMMA SaveType ==
  ASSUME TypeOK, Grown, NEW chain \in Seq(1 .. Len(signed')),
         NEW index \in [Ids -> Nat], Save(chain, index)
  PROVE  /\ events' \in Seq(1 .. Len(signed'))
         /\ cold' \in Seq(1 .. Len(signed'))
         /\ event_index' \in [Ids -> Nat]
<1> DEFINE hot == SubSeq(chain, Overflow(chain) + 1, Len(chain))
           old == SubSeq(chain, 1, Overflow(chain))
<1>1. hot \in Seq(1 .. Len(signed')) /\ old \in Seq(1 .. Len(signed'))
  BY OverflowProps
<1>2. cold \in Seq(1 .. Len(signed'))
  BY GrownChains DEF TypeOK, Chains
<1>3. hot \in Seq(Ids)
  <2>1. 1 .. Len(signed') \subseteq Ids
    BY BoundAssumption DEF Grown, Ids
  <2> HIDE DEF hot
  <2> QED BY <1>1, <2>1, SeqMonotonic
<1>4. SpilledIndex(chain, index) \in [Ids -> Nat]
  BY <1>3, IndexOfType DEF SpilledIndex
<1>5. cold \o old \in Seq(1 .. Len(signed'))
  <2> HIDE DEF old
  <2> QED BY <1>1, <1>2, ConcatProperties
<1> QED BY <1>1, <1>4, <1>5 DEF Save

LEMMA ExtendType ==
  ASSUME TypeOK, Grown, NEW id \in 1 .. Len(signed'), NEW e \in Event, Extend(id, e)
  PROVE  LedgerTyped'
<1> DEFINE chain == Append(events, id)
           index == [event_index EXCEPT ![id] = Len(chain)]
<1>1. events \in Seq(1 .. Len(signed'))
  BY GrownChains DEF TypeOK, Chains
<1>2. chain \in Seq(1 .. Len(signed')) /\ Len(chain) \in Nat
  BY <1>1
<1>3. index \in [Ids -> Nat]
  BY <1>2 DEF TypeOK
<1>4. /\ events' \in Seq(1 .. Len(signed'))
      /\ cold' \in Seq(1 .. Len(signed'))
      /\ event_index' \in [Ids -> Nat]
  <2>1. Save(chain, index)
    BY DEF Extend
  <2> HIDE DEF chain, index
  <2> QED BY <1>2, <1>3, <2>1, SaveType
<1>5. head_hash' \in 0 .. Len(signed')
  BY DEF Extend
<1>6. last_sequence' \in [Nodes -> [Domains -> Nat]]
  <2>1. e.node \in Nodes /\ DomainOf(e.kind) \in Domains /\ e.seq \in Nat
    BY DEF Event, DomainOf, Domains
  <2>2. [last_sequence[e.node] EXCEPT ![DomainOf(e.kind)] = e.seq] \in [Domains -> Nat]
    BY <2>1 DEF TypeOK
  <2>3. last_sequence' = [last_sequence EXCEPT
           ![e.node] = [last_sequence[e.node] EXCEPT ![DomainOf(e.kind)] = e.seq]]
    BY <2>1 DEF Extend, TypeOK
  <2> QED BY <2>1, <2>2, <2>3 DEF TypeOK
<1>7. revocations' \in [Nodes -> 0 .. Len(signed')]
  <2>0. id \in 0 .. Len(signed')
    OBVIOUS
  <2>1. revocations \in [Nodes -> 0 .. Len(signed')]
    BY DEF TypeOK, Grown
  <2>2. [revocations EXCEPT ![e.node] = id] \in [Nodes -> 0 .. Len(signed')]
    BY <2>0, <2>1
  <2>3. \/ revocations' = revocations
        \/ revocations' = [revocations EXCEPT ![e.node] = id]
    BY DEF Extend
  <2> QED BY <2>1, <2>2, <2>3
<1> QED BY <1>4, <1>5, <1>6, <1>7 DEF LedgerTyped

LEMMA RebuildType ==
  ASSUME TypeOK, NEW chain \in Chains, RebuildFrom(chain)
  PROVE  /\ head_hash' \in 0 .. Len(signed)
         /\ last_sequence' \in [Nodes -> [Domains -> Nat]]
         /\ revocations' \in [Nodes -> 0 .. Len(signed)]
<1>1. SignedOK
  BY DEF TypeOK, SignedOK
<1>2. LastOf(chain) \in 0 .. Len(signed)
  BY DEF LastOf, Chains, Genesis, TypeOK
<1>3. \A n \in Nodes, d \in Domains : RebuildFloor(n, d) \in Nat
  BY DEF RebuildFloor, TypeOK
<1>4. \A n \in Nodes, d \in Domains : Greatest(chain, n, d, RebuildFloor(n, d)) \in Nat
  BY <1>1, <1>3, GreatestBounds
<1>5. \A n \in Nodes : RevocationOf(chain, n) \in 0 .. Len(signed)
  BY <1>1, RevocationOfType
<1> QED BY <1>2, <1>4, <1>5 DEF RebuildFrom

\* The ancestor of a fork that is applied is in the hot window.
LEMMA ForkRoot ==
  ASSUME TypeOK, IndexCoherent, NEW m \in 1 .. MaxForkLen,
         NEW fork \in [1 .. m -> 1 .. Len(signed)], ApplyFork(fork)
  PROVE  /\ event_index[signed[fork[1]].prev] \in DOMAIN events
         /\ events[event_index[signed[fork[1]].prev]] = signed[fork[1]].prev
<1>1. fork[1] \in 1 .. Len(signed)
  BY BoundAssumption
<1>2. signed[fork[1]] \in Event
  BY <1>1 DEF TypeOK
<1>3. signed[fork[1]].prev \in {Genesis} \cup Ids
  BY <1>2 DEF Event
<1> QED BY <1>3 DEF ApplyFork, IndexCoherent

\* Every step keeps every variable in its range.  A fork cuts the hot window at
\* a position it takes from the index, so the index must be right.
LEMMA TypeStep ==
  ASSUME TypeOK, IndexCoherent, [Next]_vars
  PROVE  TypeOK'
<1> USE DEF TypeOK
<1>1. SUFFICES Grown /\ now' \in 1 .. MaxTime /\ LedgerTyped'
  BY <1>1 DEF Grown, LedgerTyped
<1>2. CASE UNCHANGED vars
  BY <1>2, UnchangedGrows DEF vars, LedgerTyped
<1>3. CASE Tick
  <2>1. now + 1 \in 1 .. MaxTime
    BY <1>3, BoundAssumption DEF Tick
  <2> QED BY <1>3, <2>1, UnchangedGrows DEF Tick, LedgerTyped
<1>4. ASSUME NEW n \in Nodes, NEW s \in 1 .. MaxSequence, NEW k \in Kinds,
             NEW b \in Body(k), NEW e, e = MakeEvent(head_hash, k, n, s, b),
             Sign(e), Extend(NewId, e), UNCHANGED now
      PROVE  Grown /\ now' \in 1 .. MaxTime /\ LedgerTyped'
  <2>1. e \in Event
    BY <1>4, MakeEventType
  <2>2. Grown /\ NewId \in 1 .. Len(signed')
    BY <1>4, <2>1, SignGrows
  <2> QED BY <1>4, <2>1, <2>2, ExtendType
<1>5. ASSUME NEW n \in Nodes, NEW s \in 1 .. MaxSequence, NEW k \in Kinds,
             NEW b \in Body(k), AppendPublic(n, k, s, b)
      PROVE  Grown /\ now' \in 1 .. MaxTime /\ LedgerTyped'
  BY <1>4, <1>5 DEF AppendPublic
<1>6. ASSUME NEW n \in Nodes, NEW s \in 1 .. MaxSequence, "gate_message" \in Kinds,
             NEW b \in Body("gate_message"), AppendGate(n, s, b)
      PROVE  Grown /\ now' \in 1 .. MaxTime /\ LedgerTyped'
  BY <1>4, <1>6 DEF AppendGate
<1>7. ASSUME NEW n \in Nodes, NEW s \in 1 .. MaxSequence, "dm_message" \in Kinds,
             NEW b \in Body("dm_message"), AppendDm(n, s, b)
      PROVE  Grown /\ now' \in 1 .. MaxTime /\ LedgerTyped'
  BY <1>4, <1>7 DEF AppendDm
<1>8. ASSUME NEW n \in Nodes, NEW s \in 1 .. MaxSequence, NEW k \in Kinds,
             NEW prev \in 0 .. Len(signed), NEW b \in Body(k),
             SignElsewhere(prev, k, n, s, b)
      PROVE  Grown /\ now' \in 1 .. MaxTime /\ LedgerTyped'
  <2>1. Grown
    BY <1>8, MakeEventType, SignGrows DEF SignElsewhere
  <2>2. events' \in Seq(1 .. Len(signed')) /\ cold' \in Seq(1 .. Len(signed'))
    BY <1>8, <2>1, GrownChains DEF SignElsewhere, Chains
  <2>3. head_hash \in 0 .. Len(signed') /\ revocations \in [Nodes -> 0 .. Len(signed')]
    <3>1. 0 .. Len(signed) \subseteq 0 .. Len(signed')
      BY <2>1 DEF Grown
    <3> QED BY <3>1
  <2>4. UNCHANGED <<now, events, cold, head_hash, event_index, last_sequence, revocations>>
    BY <1>8 DEF SignElsewhere
  <2> QED BY <2>1, <2>2, <2>3, <2>4 DEF LedgerTyped
<1>9. ASSUME NEW n \in Nodes, NEW s \in 1 .. MaxClaim, ClaimSequence(n, s)
      PROVE  Grown /\ now' \in 1 .. MaxTime /\ LedgerTyped'
  <2>1. [last_sequence EXCEPT ![n]["signed_write"] = s]
          \in [Nodes -> [Domains -> Nat]]
    <3>1. "signed_write" \in Domains /\ s \in Nat
      BY BoundAssumption DEF Domains
    <3>2. [last_sequence[n] EXCEPT !["signed_write"] = s] \in [Domains -> Nat]
      BY <3>1
    <3>3. [last_sequence EXCEPT ![n]["signed_write"] = s]
            = [last_sequence EXCEPT
                 ![n] = [last_sequence[n] EXCEPT !["signed_write"] = s]]
      BY <3>1
    <3> QED BY <3>2, <3>3
  <2> QED BY <1>9, <2>1, UnchangedGrows DEF ClaimSequence, LedgerTyped
<1>10. ASSUME NEW id \in 1 .. Len(signed), Ingest(id)
       PROVE  Grown /\ now' \in 1 .. MaxTime /\ LedgerTyped'
  <2>1. Grown /\ id \in 1 .. Len(signed') /\ signed[id] \in Event
    BY <1>10, UnchangedGrows DEF Ingest
  <2>2. Extend(id, signed[id])
    BY <1>10 DEF Ingest
  <2> QED BY <1>10, <2>1, <2>2, ExtendType DEF Ingest
<1>11. ASSUME NEW m \in 1 .. MaxForkLen, NEW fork \in [1 .. m -> 1 .. Len(signed)],
              ApplyFork(fork)
       PROVE  Grown /\ now' \in 1 .. MaxTime /\ LedgerTyped'
  <2> DEFINE at == event_index[signed[fork[1]].prev]
             chain == SubSeq(events, 1, at) \o fork
  <2>1. Grown
    BY <1>11, UnchangedGrows DEF ApplyFork
  <2>2. fork \in Chains
    BY BoundAssumption DEF Chains
  <2>3. chain \in Chains
    <3>1. at \in DOMAIN events
      BY <1>11, ForkRoot
    <3>2. at \in Int /\ \A i \in 1 .. at : events[i] \in 1 .. Len(signed)
      BY SMTT(30), <3>1
    <3>3. SubSeq(events, 1, at) \in Chains
      <4> HIDE DEF at
      <4> QED BY <3>2, SubSeqProperties DEF Chains
    <3> HIDE DEF at
    <3> QED BY <2>2, <3>3, ConcatProperties DEF Chains
  <2>4. Save(chain, IndexOf(chain)) /\ RebuildFrom(chain)
    BY <1>11 DEF ApplyFork
  <2>5. chain \in Seq(Ids) /\ chain \in Seq(1 .. Len(signed'))
    BY <2>1, <2>3, GrownChains
  <2>6. IndexOf(chain) \in [Ids -> Nat]
    BY <2>5, IndexOfType
  <2>7. /\ events' \in Seq(1 .. Len(signed')) /\ cold' \in Seq(1 .. Len(signed'))
        /\ event_index' \in [Ids -> Nat]
    <3> HIDE DEF chain
    <3> QED BY <2>1, <2>4, <2>5, <2>6, SaveType
  <2>8. /\ head_hash' \in 0 .. Len(signed)
        /\ last_sequence' \in [Nodes -> [Domains -> Nat]]
        /\ revocations' \in [Nodes -> 0 .. Len(signed)]
    <3> HIDE DEF chain
    <3> QED BY <2>3, <2>4, RebuildType
  <2>9. UNCHANGED <<signed, now>>
    BY <1>11 DEF ApplyFork
  <2> QED BY <2>1, <2>7, <2>8, <2>9 DEF LedgerTyped
<1>12. CASE ResetChain
  BY <1>12, UnchangedGrows DEF ResetChain, LedgerTyped, Genesis
<1>13. CASE Restart
  <2>1. events \in Chains /\ events \in Seq(Ids)
    BY <1>13, UnchangedGrows, GrownChains DEF Restart, Chains
  <2> QED BY <1>13, <2>1, UnchangedGrows, RebuildType, IndexOfType DEF Restart, LedgerTyped
<1> QED
  BY <1>2, <1>3, <1>5, <1>6, <1>7, <1>8, <1>9, <1>10, <1>11, <1>12, <1>13 DEF Next

------------------------------------------------------------------------------
(* The chain and its index *)

\* An event is signed after the event it links to.
WellSigned == \A e \in 1 .. Len(signed) : signed[e].prev < e

ChainInv ==
  TypeOK /\ WellSigned /\ HotWindowFull /\ ChainLinked /\ IndexCoherent

\* Along an unbroken chain names increase, so none occurs twice.
LEMMA LinkedAscending ==
  ASSUME NEW sg \in Seq(Event), \A e \in 1 .. Len(sg) : sg[e].prev < e,
         NEW chain \in Seq(1 .. Len(sg)),
         \A i \in 1 .. Len(chain) - 1 : sg[chain[i + 1]].prev = chain[i]
  PROVE  /\ \A i, j \in DOMAIN chain : i < j => chain[i] < chain[j]
         /\ \A i, j \in DOMAIN chain : chain[i] = chain[j] => i = j
<1> DEFINE L == Len(chain)
<1>1. DOMAIN chain = 1 .. L /\ L \in Nat
  OBVIOUS
<1>2. \A i \in 1 .. L : chain[i] \in Nat
  OBVIOUS
<1>3. \A i \in 1 .. L : chain[i] \in 1 .. Len(sg)
  OBVIOUS
<1> HIDE DEF L
<1>4. \A i \in 1 .. L - 1 : chain[i] < chain[i + 1]
  <2> SUFFICES ASSUME NEW i \in 1 .. L - 1 PROVE chain[i] < chain[i + 1]
    OBVIOUS
  <2>1. i + 1 \in 1 .. L
    BY <1>1
  <2>2. sg[chain[i + 1]].prev < chain[i + 1]
    BY <1>3, <2>1
  <2> QED BY <2>2 DEF L
<1>5. ASSUME NEW a \in 1 .. L, NEW c \in 1 .. L, a < c, ~ (chain[a] < chain[c])
      PROVE  FALSE
  <2> DEFINE Bad(j) == \E i \in 1 .. L : i < j /\ ~ (chain[i] < chain[j])
             T == {j \in 1 .. L : Bad(j)}
  <2>1. T \in SUBSET Nat /\ T # {}
    <3>1. Bad(c)
      BY <1>5
    <3>2. T \subseteq 1 .. L /\ c \in T
      <4> HIDE DEF Bad
      <4> QED BY <3>1
    <3> HIDE DEF T
    <3> QED BY <1>1, <3>2
  <2>2. PICK j \in T : \A y \in T : j <= y
    <3> HIDE DEF T
    <3> QED BY <2>1, LeastNat
  <2>3. j \in 1 .. L /\ Bad(j)
    OBVIOUS
  <2>4. PICK i \in 1 .. L : i < j /\ ~ (chain[i] < chain[j])
    BY <2>3
  <2>5. j - 1 \in 1 .. L /\ j - 1 \in 1 .. L - 1 /\ j - 1 + 1 = j /\ i <= j - 1
    BY <1>1, <2>3, <2>4
  <2>6. chain[j - 1] < chain[j]
    BY <1>4, <2>5
  <2>7. ~ Bad(j - 1)
    <3>1. ~ (j <= j - 1)
      BY <1>1, <2>3
    <3>2. j - 1 \notin T
      <4> HIDE DEF T
      <4> QED BY <2>2, <3>1
    <3> HIDE DEF Bad
    <3> QED BY <2>5, <3>2
  <2>8. i < j - 1 => chain[i] < chain[j - 1]
    BY <2>7
  <2>9. chain[i] \in Nat /\ chain[j] \in Nat /\ chain[j - 1] \in Nat
    BY <1>2, <2>3, <2>5
  <2>10. CASE i = j - 1
    BY <2>4, <2>6, <2>10
  <2>11. CASE i < j - 1
    <3> HIDE DEF Bad, T
    <3> QED BY SMTT(30), <2>4, <2>6, <2>8, <2>9, <2>11
  <2>12. i \in Nat /\ j \in Nat
    BY <1>1, <2>3
  <2> HIDE DEF Bad, T
  <2> QED BY <2>5, <2>10, <2>11, <2>12
<1>6. \A i, j \in 1 .. L : i < j => chain[i] < chain[j]
  BY <1>5
<1>7. ASSUME NEW i \in 1 .. L, NEW j \in 1 .. L, chain[i] = chain[j]
      PROVE  i = j
  BY <1>1, <1>2, <1>6, <1>7
<1> QED BY <1>1, <1>6, <1>7

Distinct(chain) == \A i, j \in DOMAIN chain : chain[i] = chain[j] => i = j

\* index finds the events of a chain and nothing else.
Indexes(index, chain) ==
  /\ \A i \in DOMAIN chain : index[chain[i]] = i
  /\ \A e \in Ids : index[e] # 0 => index[e] \in DOMAIN chain /\ chain[index[e]] = e

\* A tail of a chain without repetitions has none.
LEMMA DistinctTail ==
  ASSUME NEW S, NEW c \in Seq(S), NEW v \in Seq(S), Distinct(c \o v)
  PROVE  Distinct(v)
<1>1. /\ Len(c \o v) = Len(c) + Len(v) /\ c \o v \in Seq(S)
      /\ \A i \in 1 .. Len(c) + Len(v) :
           (c \o v)[i] = IF i <= Len(c) THEN c[i] ELSE v[i - Len(c)]
  BY ConcatProperties
<1>2. DOMAIN (c \o v) = 1 .. Len(c) + Len(v) /\ DOMAIN v = 1 .. Len(v)
  BY <1>1
<1>3. Len(c) \in Nat /\ Len(v) \in Nat
  OBVIOUS
<1>4. ASSUME NEW i \in 1 .. Len(v)
      PROVE  i + Len(c) \in 1 .. Len(c) + Len(v) /\ (c \o v)[i + Len(c)] = v[i]
  <2>1. /\ i + Len(c) \in 1 .. Len(c) + Len(v) /\ ~ (i + Len(c) <= Len(c))
        /\ i + Len(c) - Len(c) = i
    BY <1>3
  <2> QED BY <1>1, <2>1
<1>5. ASSUME NEW i \in 1 .. Len(v), NEW j \in 1 .. Len(v), v[i] = v[j]
      PROVE  i = j
  <2>1. i + Len(c) = j + Len(c)
    BY <1>2, <1>4, <1>5 DEF Distinct
  <2> QED BY <1>3, <2>1
<1> QED BY <1>2, <1>5 DEF Distinct

LEMMA SplitConcat ==
  ASSUME NEW S, NEW c \in Seq(S), NEW a \in Seq(S), NEW b \in Seq(S)
  PROVE  (c \o a) \o b = c \o (a \o b)
BY ConcatAssociative

\* The same, with a name for what follows the archive.
LEMMA JoinedTo ==
  ASSUME NEW S, NEW c \in Seq(S), NEW a \in Seq(S), NEW b \in Seq(S),
         NEW x, x = a \o b
  PROVE  (c \o a) \o b = c \o x
BY SplitConcat

\* What is archived and what stays hot make up the chain that was saved.
LEMMA SavedChain ==
  ASSUME TypeOK, Grown, NEW chain \in Seq(1 .. Len(signed')),
         NEW index, Save(chain, index)
  PROVE  /\ Full' = cold \o chain
         /\ Full' \in Seq(1 .. Len(signed'))
         /\ events' \in Seq(1 .. Len(signed')) /\ cold' \in Seq(1 .. Len(signed'))
         /\ Len(events') = Len(chain) - Overflow(chain)
         /\ Len(cold') = Len(cold) + Overflow(chain)
<1> DEFINE S == 1 .. Len(signed')
           o == Overflow(chain)
           old == SubSeq(chain, 1, o)
           hot == SubSeq(chain, o + 1, Len(chain))
<1>1. /\ o \in 0 .. Len(chain) /\ old \in Seq(S) /\ hot \in Seq(S)
      /\ Len(hot) = Len(chain) - o /\ old \o hot = chain
  BY OverflowProps
<1>2. cold \in Seq(S) /\ chain \in Seq(S)
  BY GrownChains DEF TypeOK, Chains
<1>3. events' = hot /\ cold' = cold \o old
  BY DEF Save
<1>4. Full' = (cold \o old) \o hot
  BY <1>3 DEF Full
<1> HIDE DEF old, hot, S, o
<1>5. (cold \o old) \o hot = cold \o (old \o hot)
  <2>1. cold \in Seq(S) /\ old \in Seq(S) /\ hot \in Seq(S)
    BY <1>1, <1>2
  <2>2. ASSUME NEW c \in Seq(S), NEW a \in Seq(S), NEW b \in Seq(S)
        PROVE  (c \o a) \o b = c \o (a \o b)
    BY SMTT(30), SplitConcat
  <2> QED BY <2>1, <2>2
<1>6. Full' = cold \o chain
  BY <1>1, <1>4, <1>5
<1>7. /\ Len(old) + Len(hot) = Len(chain)
      /\ Len(old) \in Nat /\ Len(hot) \in Nat /\ Len(chain) \in Nat
  <2>1. Len(old \o hot) = Len(old) + Len(hot)
    BY <1>1, ConcatProperties
  <2> QED BY <1>1, <1>2, <2>1, LenProperties
<1>8. Len(old) = o
  BY <1>1, <1>7
<1>9. cold \o chain \in Seq(S) /\ cold \o old \in Seq(S) /\ Len(cold \o old) = Len(cold) + Len(old)
  BY <1>1, <1>2, ConcatProperties
<1> QED BY <1>1, <1>3, <1>6, <1>8, <1>9 DEF S, o

LEMMA HotWindowStep ==
  ASSUME TypeOK, HotWindowFull, Grown, NEW chain \in Seq(1 .. Len(signed')),
         NEW index, Save(chain, index), Len(chain) >= Len(events)
  PROVE  HotWindowFull'
<1> DEFINE o == Overflow(chain)
<1>1. Len(events') = Len(chain) - o /\ Len(cold') = Len(cold) + o
  BY SavedChain
<1>2. /\ Len(chain) \in Nat /\ Len(cold) \in Nat /\ Len(events) \in Nat
      /\ Len(cold') \in Nat /\ (cold' # <<>> <=> Len(cold') > 0) /\ (cold # <<>> <=> Len(cold) > 0)
  <2>1. cold' \in Seq(1 .. Len(signed')) /\ cold \in Seq(1 .. Len(signed))
    BY SavedChain DEF TypeOK
  <2> QED BY <2>1 DEF TypeOK
<1>3. o = IF Len(chain) > MaxChainMemory THEN Len(chain) - MaxChainMemory ELSE 0
  BY DEF Overflow
<1> HIDE DEF o
<1> QED BY <1>1, <1>2, <1>3, BoundAssumption DEF HotWindowFull

LEMMA IndexStep ==
  ASSUME TypeOK, Grown, NEW chain \in Seq(1 .. Len(signed')),
         NEW index, Save(chain, index), Indexes(index, chain), Distinct(cold \o chain)
  PROVE  IndexCoherent'
<1>1. /\ Full' = cold \o chain /\ events' \in Seq(1 .. Len(signed'))
      /\ cold' \in Seq(1 .. Len(signed'))
  BY SavedChain
<1>2. Distinct(Full')
  BY <1>1
<1>3. Distinct(events')
  BY <1>1, <1>2, DistinctTail DEF Full
<1>4. events' \in Seq(Ids)
  <2>1. 1 .. Len(signed') \subseteq Ids
    BY BoundAssumption DEF Grown, Ids
  <2> QED BY <1>1, <2>1, SeqMonotonic
<1>5. Indexes(event_index', events')
  <2>1. CASE Overflow(chain) = 0
    <3>1. events' = SubSeq(chain, 1, Len(chain))
      BY <2>1 DEF Save
    <3>2. events' = chain
      BY <3>1, SubSeqFull
    <3>3. event_index' = index
      BY <2>1 DEF Save, SpilledIndex
    <3> QED BY <3>2, <3>3
  <2>2. CASE Overflow(chain) # 0
    <3>1. event_index' = IndexOf(events')
      BY <2>2 DEF Save, SpilledIndex
    <3> QED BY <1>3, <1>4, <3>1, IndexOfProps DEF Indexes, Distinct
  <2> QED BY <2>1, <2>2
<1> QED BY <1>2, <1>5 DEF IndexCoherent, Indexes, Distinct

\* chain runs from Genesis without a gap, by the links recorded in sg.
Unbroken(sg, chain) ==
  /\ \A i \in 1 .. Len(chain) - 1 : sg[chain[i + 1]].prev = chain[i]
  /\ chain # <<>> => sg[chain[1]].prev = Genesis

LEMMA AppendUnbroken ==
  ASSUME NEW sg \in Seq(Event), NEW sg2 \in Seq(Event), Len(sg) <= Len(sg2),
         \A i \in 1 .. Len(sg) : sg2[i] = sg[i],
         NEW chain \in Seq(1 .. Len(sg)), Unbroken(sg, chain),
         NEW id \in 1 .. Len(sg2), sg2[id].prev = LastOf(chain)
  PROVE  Unbroken(sg2, Append(chain, id))
<1> DEFINE L == Len(chain)
           A == Append(chain, id)
<1>1. L \in Nat /\ (chain = <<>> <=> L = 0) /\ \A i \in 1 .. L : chain[i] \in 1 .. Len(sg)
  OBVIOUS
<1>2. Len(A) = L + 1 /\ A # <<>> /\ A[L + 1] = id /\ \A i \in 1 .. L : A[i] = chain[i]
  BY SMTT(30)
<1> HIDE DEF L, A
<1>3. ASSUME NEW i \in 1 .. L, i # L
      PROVE  sg2[A[i + 1]].prev = A[i]
  <2>1. i \in 1 .. L - 1 /\ i + 1 \in 1 .. L
    BY <1>1, <1>3
  <2>2. sg[chain[i + 1]].prev = chain[i]
    BY <2>1 DEF Unbroken, L
  <2>3. sg2[chain[i + 1]] = sg[chain[i + 1]]
    BY <1>1, <2>1
  <2> QED BY <1>2, <2>1, <2>2, <2>3
<1>4. ASSUME NEW i \in 1 .. L, i = L
      PROVE  sg2[A[i + 1]].prev = A[i]
  <2>1. LastOf(chain) = chain[L]
    BY <1>1, <1>4 DEF LastOf, L
  <2> QED BY <1>2, <1>4, <2>1
<1>5. sg2[A[1]].prev = Genesis
  <2>1. CASE L = 0
    BY <1>1, <1>2, <2>1 DEF LastOf
  <2>2. CASE L # 0
    <3>1. 1 \in 1 .. L
      BY <1>1, <2>2
    <3>2. sg[chain[1]].prev = Genesis
      BY <1>1, <2>2 DEF Unbroken
    <3>3. sg2[chain[1]] = sg[chain[1]] /\ A[1] = chain[1]
      BY <1>1, <1>2, <3>1
    <3> QED BY <3>2, <3>3
  <2> QED BY <2>1, <2>2
<1>6. \A i \in 1 .. Len(A) - 1 : sg2[A[i + 1]].prev = A[i]
  <2>1. 1 .. Len(A) - 1 = 1 .. L
    BY <1>1, <1>2
  <2> QED BY <1>3, <1>4, <2>1
<1> QED BY <1>5, <1>6 DEF Unbroken, A

LEMMA GraftUnbroken ==
  ASSUME NEW sg \in Seq(Event), NEW chain \in Seq(1 .. Len(sg)), Unbroken(sg, chain),
         NEW at \in 1 .. Len(chain), NEW fork \in Seq(1 .. Len(sg)), fork # <<>>,
         \A i \in 1 .. Len(fork) - 1 : sg[fork[i + 1]].prev = fork[i],
         sg[fork[1]].prev = chain[at]
  PROVE  Unbroken(sg, SubSeq(chain, 1, at) \o fork)
<1> DEFINE P == SubSeq(chain, 1, at)
           G == P \o fork
<1>1. /\ P \in Seq(1 .. Len(sg)) /\ Len(P) = at /\ \A i \in 1 .. at : P[i] = chain[i]
  <2>1. at \in Int /\ 1 <= at /\ \A i \in 1 .. at : chain[i] \in 1 .. Len(sg)
    OBVIOUS
  <2>2. /\ SubSeq(chain, 1, at) \in Seq(1 .. Len(sg))
        /\ Len(SubSeq(chain, 1, at)) = IF 1 <= at THEN at - 1 + 1 ELSE 0
        /\ \A i \in 1 .. at - 1 + 1 : SubSeq(chain, 1, at)[i] = chain[1 + i - 1]
    BY <2>1, SubSeqProperties
  <2> QED BY <2>1, <2>2
<1> HIDE DEF P
<1>2. /\ Len(G) = at + Len(fork)
      /\ \A i \in 1 .. at + Len(fork) : G[i] = IF i <= at THEN P[i] ELSE fork[i - at]
  BY <1>1, ConcatProperties
<1>3. Len(fork) \in Nat /\ Len(fork) > 0 /\ Len(chain) \in Nat /\ at \in Nat /\ at <= Len(chain)
  OBVIOUS
<1> HIDE DEF G
<1>4. \A i \in 1 .. at : G[i] = chain[i]
  BY SMTT(30), <1>1, <1>2, <1>3
<1>5. ASSUME NEW j \in 1 .. Len(fork) PROVE G[at + j] = fork[j]
  <2>1. at + j \in 1 .. at + Len(fork) /\ ~ (at + j <= at) /\ at + j - at = j
    BY <1>3
  <2> QED BY SMTT(30), <1>2, <2>1
<1>6. ASSUME NEW i \in 1 .. Len(G) - 1 PROVE sg[G[i + 1]].prev = G[i]
  <2>1. CASE i < at
    <3>1. i \in 1 .. at /\ i + 1 \in 1 .. at /\ i \in 1 .. Len(chain) - 1
      BY <1>3, <2>1
    <3>2. sg[chain[i + 1]].prev = chain[i]
      BY <3>1 DEF Unbroken
    <3> QED BY <1>4, <3>1, <3>2
  <2>2. CASE i = at
    <3>1. G[at + 1] = fork[1]
      BY <1>3, <1>5
    <3> QED BY <1>3, <1>4, <2>2, <3>1
  <2>3. CASE i > at
    <3> DEFINE j == i - at
    <3>1. /\ j \in 1 .. Len(fork) - 1 /\ j + 1 \in 1 .. Len(fork) /\ j \in 1 .. Len(fork)
          /\ at + j = i /\ at + (j + 1) = i + 1
      BY <1>2, <1>3, <2>3
    <3> HIDE DEF j
    <3>2. sg[fork[j + 1]].prev = fork[j]
      BY <3>1
    <3>3. G[at + j] = fork[j]
      BY <1>5, <3>1
    <3>4. G[at + (j + 1)] = fork[j + 1]
      BY <1>5, <3>1
    <3> QED BY <3>1, <3>2, <3>3, <3>4
  <2> QED BY <1>3, <2>1, <2>2, <2>3
<1>7. sg[G[1]].prev = Genesis
  <2>1. chain # <<>> /\ 1 \in 1 .. at
    BY <1>3
  <2> QED BY <1>4, <2>1 DEF Unbroken
<1> QED BY <1>6, <1>7 DEF Unbroken, G, P

LEMMA AppendConcat ==
  ASSUME NEW S, NEW c \in Seq(S), NEW v \in Seq(S), NEW x \in S
  PROVE  c \o Append(v, x) = Append(c \o v, x)
<1>1. <<x>> \in Seq(S) /\ c \o v \in Seq(S)
  OBVIOUS
<1>2. Append(v, x) = v \o <<x>>
  BY AppendIsConcat
<1>3. Append(c \o v, x) = (c \o v) \o <<x>>
  BY <1>1, AppendIsConcat
<1>4. (c \o v) \o <<x>> = c \o (v \o <<x>>)
  BY <1>1, SplitConcat
<1> QED BY <1>2, <1>3, <1>4

LEMMA CutConcat ==
  ASSUME NEW S, NEW c \in Seq(S), NEW v \in Seq(S), NEW at \in 1 .. Len(v)
  PROVE  /\ SubSeq(v, 1, at) \in Seq(S)
         /\ c \o SubSeq(v, 1, at) = SubSeq(c \o v, 1, Len(c) + at)
         /\ Len(c) + at \in 1 .. Len(c \o v)
         /\ (c \o v)[Len(c) + at] = v[at]
<1> DEFINE F == c \o v
           m == Len(c) + at
           P == SubSeq(v, 1, at)
           L == c \o P
           R == SubSeq(F, 1, m)
<1>1. /\ F \in Seq(S) /\ Len(F) = Len(c) + Len(v)
      /\ \A i \in 1 .. Len(c) + Len(v) : F[i] = IF i <= Len(c) THEN c[i] ELSE v[i - Len(c)]
  BY ConcatProperties
<1>2. Len(c) \in Nat /\ Len(v) \in Nat /\ at \in Nat /\ m \in 1 .. Len(F) /\ m \in Nat
  BY <1>1
<1>3. P \in Seq(S) /\ Len(P) = at /\ \A i \in 1 .. at : P[i] = v[i]
  <2>1. at \in Int /\ 1 <= at /\ \A i \in 1 .. at : v[i] \in S
    OBVIOUS
  <2>2. /\ P \in Seq(S) /\ Len(P) = IF 1 <= at THEN at - 1 + 1 ELSE 0
        /\ \A i \in 1 .. at - 1 + 1 : P[i] = v[1 + i - 1]
    BY <2>1, SubSeqProperties
  <2> QED BY <2>1, <2>2
<1> HIDE DEF F, P
<1>4. R \in Seq(S) /\ Len(R) = m /\ \A i \in 1 .. m : R[i] = F[i]
  <2>1. m \in Int /\ 1 <= m /\ \A i \in 1 .. m : F[i] \in S
    BY <1>1, <1>2
  <2> HIDE DEF m
  <2>2. /\ SubSeq(F, 1, m) \in Seq(S) /\ Len(SubSeq(F, 1, m)) = IF 1 <= m THEN m - 1 + 1 ELSE 0
        /\ \A i \in 1 .. m - 1 + 1 : SubSeq(F, 1, m)[i] = F[1 + i - 1]
    BY <2>1, SubSeqProperties
  <2> QED BY <2>1, <2>2
<1>5. /\ L \in Seq(S) /\ Len(L) = m
      /\ \A i \in 1 .. m : L[i] = IF i <= Len(c) THEN c[i] ELSE P[i - Len(c)]
  <2>1. /\ c \o P \in Seq(S) /\ Len(c \o P) = Len(c) + Len(P)
        /\ \A i \in 1 .. Len(c) + Len(P) :
             (c \o P)[i] = IF i <= Len(c) THEN c[i] ELSE P[i - Len(c)]
    BY <1>3, ConcatProperties
  <2> QED BY <1>3, <2>1
<1> HIDE DEF L, R
<1>6. \A i \in 1 .. m : L[i] = R[i]
  <2> SUFFICES ASSUME NEW i \in 1 .. m PROVE L[i] = R[i]
    OBVIOUS
  <2>1. i \in 1 .. Len(c) + Len(v) /\ i \in Nat
    BY <1>2
  <2>2. CASE i <= Len(c)
    BY <1>1, <1>4, <1>5, <2>1, <2>2
  <2>3. CASE ~ (i <= Len(c))
    <3>1. i - Len(c) \in 1 .. at
      BY <1>2, <2>1, <2>3
    <3> QED BY <1>1, <1>3, <1>4, <1>5, <2>1, <2>3, <3>1
  <2> QED BY <2>2, <2>3
<1>7. L = R
  BY <1>4, <1>5, <1>6, SeqEqual
<1>8. F[m] = v[at]
  <2>1. m \in 1 .. Len(c) + Len(v) /\ ~ (m <= Len(c)) /\ m - Len(c) = at
    BY <1>1, <1>2
  <2> QED BY <1>1, <2>1
<1> QED BY <1>2, <1>3, <1>7, <1>8 DEF L, R, F, P

LEMMA FullUnbroken ==
  ASSUME TypeOK, ChainLinked
  PROVE  Full \in Seq(1 .. Len(signed)) /\ Unbroken(signed, Full)
<1>1. Full \in Seq(1 .. Len(signed))
  BY ConcatProperties DEF TypeOK, Full
<1> QED BY <1>1 DEF ChainLinked, Linked, Unbroken

\* A new event at the end of the chain.
LEMMA ExtendStep ==
  ASSUME ChainInv, Grown, WellSigned', NEW id \in 1 .. Len(signed'),
         signed'[id].prev = head_hash, NEW e \in Event, Extend(id, e),
         \A i \in DOMAIN events : events[i] # id
  PROVE  /\ ChainLinked' /\ IndexCoherent' /\ HotWindowFull'
         /\ Full' = Append(Full, id)
<1> DEFINE chain == Append(events, id)
           index == [event_index EXCEPT ![id] = Len(chain)]
           S == 1 .. Len(signed')
<1>1. /\ TypeOK /\ HotWindowFull /\ ChainLinked /\ IndexCoherent
      /\ id \in Ids /\ event_index \in [Ids -> Nat]
  BY SMTT(30), BoundAssumption DEF ChainInv, Grown, Ids, TypeOK
<1>2. events \in Seq(S) /\ cold \in Seq(S) /\ Full \in Seq(S)
  BY <1>1, FullUnbroken, GrownChains DEF TypeOK, Chains
<1>3. /\ chain \in Seq(S) /\ Len(chain) = Len(events) + 1 /\ Len(events) \in Nat
      /\ DOMAIN events = 1 .. Len(events) /\ DOMAIN chain = 1 .. Len(events) + 1
      /\ chain[Len(events) + 1] = id /\ \A i \in 1 .. Len(events) : chain[i] = events[i]
  BY <1>2
<1>4. Save(chain, index) /\ head_hash' = id
  BY DEF Extend
<1>5. cold \o chain = Append(Full, id)
  <2>1. cold \o Append(events, id) = Append(cold \o events, id)
    BY SMTT(30), <1>2, AppendConcat
  <2> QED BY <2>1 DEF Full
<1>6. Unbroken(signed', Append(Full, id))
  <2>1. /\ signed \in Seq(Event) /\ signed' \in Seq(Event) /\ Len(signed) <= Len(signed')
        /\ \A i \in 1 .. Len(signed) : signed'[i] = signed[i]
    BY <1>1 DEF TypeOK, Grown
  <2>2. Full \in Seq(1 .. Len(signed)) /\ Unbroken(signed, Full)
    BY <1>1, FullUnbroken
  <2>3. signed'[id].prev = LastOf(Full)
    BY <1>1 DEF ChainLinked
  <2> QED BY <2>1, <2>2, <2>3, AppendUnbroken
<1>7. Distinct(Append(Full, id))
  <2>1. signed' \in Seq(Event) /\ \A x \in 1 .. Len(signed') : signed'[x].prev < x
    BY DEF Grown, WellSigned
  <2>2. /\ Append(Full, id) \in Seq(1 .. Len(signed'))
        /\ \A i \in 1 .. Len(Append(Full, id)) - 1 :
             signed'[Append(Full, id)[i + 1]].prev = Append(Full, id)[i]
    BY SMTT(30), <1>2, <1>6 DEF Unbroken
  <2> DEFINE A == Append(Full, id)
  <2> HIDE DEF A
  <2>3. \A i, j \in DOMAIN A : A[i] = A[j] => i = j
    BY <2>1, <2>2, LinkedAscending DEF A
  <2> QED BY <2>3 DEF Distinct, A
<1>8. Indexes(index, chain)
  <2>1. \A i \in 1 .. Len(events) : event_index[events[i]] = i /\ events[i] # id /\ events[i] \in Ids
    <3>1. events \in Seq(Ids)
      BY <1>1, UnchangedGrows, GrownChains DEF TypeOK, Chains
    <3> QED BY SMTT(30), <1>1, <1>3, <3>1 DEF IndexCoherent
  <2>2. \A x \in Ids : event_index[x] # 0 =>
          event_index[x] \in 1 .. Len(events) /\ events[event_index[x]] = x
    BY <1>1, <1>3 DEF IndexCoherent
  <2>3. index[id] = Len(events) + 1 /\ \A x \in Ids : x # id => index[x] = event_index[x]
    BY <1>1, <1>3
  <2> HIDE DEF chain, index
  <2>4. \A i \in 1 .. Len(events) + 1 : index[chain[i]] = i
    BY <1>3, <2>1, <2>3
  <2>5. ASSUME NEW x \in Ids, index[x] # 0
        PROVE  index[x] \in 1 .. Len(events) + 1 /\ chain[index[x]] = x
    <3>1. CASE x = id
      BY <1>3, <2>3, <3>1
    <3>2. CASE x # id
      BY <1>3, <2>2, <2>3, <2>5, <3>2
    <3> QED BY <3>1, <3>2
  <2> QED BY <1>3, <2>4, <2>5 DEF Indexes
<1> HIDE DEF chain, index
<1>9. Full' = Append(Full, id) /\ events' \in Seq(S)
  BY <1>1, <1>3, <1>4, <1>5, SavedChain
<1>10. HotWindowFull'
  BY <1>1, <1>3, <1>4, HotWindowStep
<1>11. IndexCoherent'
  BY <1>1, <1>3, <1>4, <1>5, <1>7, <1>8, IndexStep
<1>12. ChainLinked'
  <2>1. Len(Full) \in Nat /\ Append(Full, id) # <<>> /\ LastOf(Append(Full, id)) = id
    BY <1>2 DEF LastOf
  <2> QED BY <1>4, <1>6, <1>9, <2>1 DEF ChainLinked, Linked, Unbroken, LastOf
<1> QED BY <1>9, <1>10, <1>11, <1>12

\* A branch grafted onto the chain in place of a shorter tail.
LEMMA ForkStep ==
  ASSUME ChainInv, NEW m \in 1 .. MaxForkLen, NEW fork \in [1 .. m -> 1 .. Len(signed)],
         ApplyFork(fork),
         NEW at, at = event_index[signed[fork[1]].prev]
  PROVE  /\ ChainLinked' /\ IndexCoherent' /\ HotWindowFull'
         /\ at \in 1 .. Len(events) /\ fork \in Seq(1 .. Len(signed))
         /\ Full' = SubSeq(Full, 1, Len(cold) + at) \o fork
<1> DEFINE S == 1 .. Len(signed)
           prefix == SubSeq(events, 1, at)
           chain == prefix \o fork
           P == SubSeq(Full, 1, Len(cold) + at)
           F == P \o fork
<1>1. /\ TypeOK /\ HotWindowFull /\ ChainLinked /\ IndexCoherent /\ WellSigned /\ Grown
      /\ signed' = signed
  BY UnchangedGrows DEF ChainInv, ApplyFork
<1>2. m \in Nat /\ m >= 1 /\ fork \in Seq(S) /\ Len(fork) = m /\ fork # <<>>
  BY BoundAssumption
<1>3. /\ at \in 1 .. Len(events) /\ at \in Nat /\ events[at] = signed[fork[1]].prev
      /\ Len(events) \in Nat
  <2>1. at \in DOMAIN events /\ events[at] = signed[fork[1]].prev
    BY <1>1, ForkRoot
  <2>2. DOMAIN events = 1 .. Len(events) /\ Len(events) \in Nat
    BY <1>1 DEF TypeOK
  <2> QED BY <2>1, <2>2
<1>4. /\ events \in Seq(S) /\ cold \in Seq(S) /\ Full \in Seq(S) /\ Unbroken(signed, Full)
  BY <1>1, FullUnbroken DEF TypeOK
<1>5. /\ prefix \in Seq(S) /\ cold \o prefix = P /\ Full[Len(cold) + at] = events[at]
      /\ Len(cold) + at \in 1 .. Len(Full)
  <2> HIDE DEF S
  <2>1. /\ SubSeq(events, 1, at) \in Seq(S)
        /\ cold \o SubSeq(events, 1, at) = SubSeq(cold \o events, 1, Len(cold) + at)
        /\ Len(cold) + at \in 1 .. Len(cold \o events)
        /\ (cold \o events)[Len(cold) + at] = events[at]
    <3>1. ASSUME NEW c \in Seq(S), NEW v \in Seq(S), NEW p \in 1 .. Len(v)
          PROVE  /\ SubSeq(v, 1, p) \in Seq(S)
                 /\ c \o SubSeq(v, 1, p) = SubSeq(c \o v, 1, Len(c) + p)
                 /\ Len(c) + p \in 1 .. Len(c \o v)
                 /\ (c \o v)[Len(c) + p] = v[p]
      BY CutConcat
    <3> QED BY <1>3, <1>4, <3>1
  <2> QED BY <2>1 DEF Full
<1>6. Len(prefix) = at
  <2>1. \A i \in 1 .. at : events[i] \in S
    BY SMTT(30), <1>3, <1>4
  <2>2. Len(SubSeq(events, 1, at)) = IF 1 <= at THEN at - 1 + 1 ELSE 0
    BY <1>3, <2>1, SubSeqProperties
  <2> QED BY <1>3, <2>2
<1>7. /\ Save(chain, IndexOf(chain)) /\ head_hash' = LastOf(chain) /\ Linked(fork)
      /\ Len(fork) > Len(events) - at
  BY <1>3 DEF ApplyFork, RebuildFrom, Outweighs
<1>8. Unbroken(signed, F)
  <2>1. \A i \in 1 .. Len(fork) - 1 : signed[fork[i + 1]].prev = fork[i]
    BY <1>7 DEF Linked
  <2>2. signed \in Seq(Event) /\ signed[fork[1]].prev = Full[Len(cold) + at]
    BY <1>1, <1>3, <1>5 DEF TypeOK
  <2> QED BY <1>2, <1>4, <1>5, <2>1, <2>2, GraftUnbroken
<1> HIDE DEF prefix, P, S
<1>9. /\ chain \in Seq(S) /\ Len(chain) = at + m
      /\ \A i \in 1 .. Len(prefix) + Len(fork) :
           chain[i] = IF i <= Len(prefix) THEN prefix[i] ELSE fork[i - Len(prefix)]
  BY <1>2, <1>5, <1>6, ConcatProperties
<1>10. cold \o chain = F
  <2>1. cold \in Seq(S) /\ prefix \in Seq(S) /\ fork \in Seq(S)
    BY <1>2, <1>4, <1>5
  <2>2. (cold \o prefix) \o fork = cold \o chain
    BY SMTT(30), <2>1, JoinedTo
  <2> QED BY <1>5, <2>2
<1>11. F \in Seq(S) /\ P \in Seq(S)
  <2>1. P \in Seq(S)
    BY <1>4, <1>5, ConcatProperties
  <2> QED BY <1>2, <2>1, ConcatProperties
<1> HIDE DEF chain, F
<1>12. Distinct(F)
  <2>1. signed \in Seq(Event) /\ \A x \in 1 .. Len(signed) : signed[x].prev < x
    BY <1>1 DEF TypeOK, WellSigned
  <2>2. \A i, j \in DOMAIN F : F[i] = F[j] => i = j
    BY <1>8, <1>11, <2>1, LinkedAscending DEF Unbroken, S
  <2> QED BY <2>2 DEF Distinct
<1>13. Distinct(chain)
  <2>1. Distinct(cold \o chain)
    BY <1>10, <1>12
  <2> QED BY <1>4, <1>9, <2>1, DistinctTail
<1>14. chain \in Seq(Ids)
  <2>1. S \subseteq Ids
    BY <1>1, BoundAssumption DEF TypeOK, Ids, S
  <2> QED BY <1>9, <2>1, SeqMonotonic
<1>15. Indexes(IndexOf(chain), chain)
  BY <1>13, <1>14, IndexOfProps DEF Indexes, Distinct
<1>16. chain \in Seq(1 .. Len(signed')) /\ Len(chain) >= Len(events)
  BY <1>1, <1>2, <1>3, <1>7, <1>9 DEF S
<1>17. Full' = F
  BY <1>1, <1>7, <1>10, <1>16, SavedChain
<1>18. HotWindowFull'
  BY <1>1, <1>7, <1>16, HotWindowStep
<1>19. Distinct(cold \o chain)
  BY <1>10, <1>12
<1>20. IndexCoherent'
  BY <1>1, <1>7, <1>15, <1>16, <1>19, IndexStep
<1>21. LastOf(chain) = LastOf(F)
  <2>1. /\ Len(F) = Len(P) + Len(fork) /\ F[Len(P) + Len(fork)] = fork[Len(fork)]
        /\ Len(P) \in Nat
    <3>1. /\ Len(F) = Len(P) + Len(fork)
          /\ \A i \in 1 .. Len(P) + Len(fork) : F[i] = IF i <= Len(P) THEN P[i] ELSE fork[i - Len(P)]
      BY <1>2, <1>11, ConcatProperties DEF F
    <3>2. Len(P) \in Nat
      BY <1>11, LenProperties
    <3>3. /\ Len(P) + Len(fork) \in 1 .. Len(P) + Len(fork) /\ ~ (Len(P) + Len(fork) <= Len(P))
          /\ Len(P) + Len(fork) - Len(P) = Len(fork)
      BY <1>2, <3>2
    <3> QED BY <3>1, <3>2, <3>3
  <2>2. chain[Len(chain)] = fork[Len(fork)]
    <3>1. /\ Len(chain) \in 1 .. Len(prefix) + Len(fork) /\ ~ (Len(chain) <= Len(prefix))
          /\ Len(chain) - Len(prefix) = Len(fork)
      BY SMTT(30), <1>2, <1>3, <1>6, <1>9
    <3> QED BY <1>9, <3>1
  <2>3. F # <<>> /\ chain # <<>>
    <3>1. Len(F) # 0 /\ Len(chain) # 0
      BY <1>2, <1>3, <1>9, <2>1
    <3> QED BY <3>1
  <2> QED BY <2>1, <2>2, <2>3 DEF LastOf
<1>22. ChainLinked'
  BY <1>1, <1>7, <1>8, <1>17, <1>21 DEF ChainLinked, Linked, Unbroken
<1> QED BY <1>2, <1>3, <1>17, <1>18, <1>20, <1>22 DEF F, P, S

\* How a step may change the chain.
ChainMoves ==
  \/ Full' = Full
  \/ \E id \in Ids : Full' = Append(Full, id)
  \/ \E at \in 1 .. Len(events), fork \in Seq(Ids) :
        /\ Len(events) - at <= ChainLockDepth /\ Len(fork) > Len(events) - at
        /\ Full' = SubSeq(Full, 1, Len(cold) + at) \o fork
  \/ Len(Full) < ResetBelow /\ Full' = <<>>

\* A new event links to an older one.
LEMMA SignWellSigned ==
  ASSUME TypeOK, WellSigned, NEW e \in Event, e.prev \in 0 .. Len(signed), Sign(e)
  PROVE  WellSigned'
<1>1. /\ signed \in Seq(Event) /\ Len(signed) \in Nat /\ signed' = Append(signed, e)
  BY DEF TypeOK, Sign
<1>2. /\ Len(signed') = Len(signed) + 1 /\ signed'[Len(signed) + 1] = e
      /\ \A i \in 1 .. Len(signed) : signed'[i] = signed[i]
  BY <1>1
<1>3. ASSUME NEW i \in 1 .. Len(signed') PROVE signed'[i].prev < i
  <2>1. CASE i \in 1 .. Len(signed)
    BY <1>2, <2>1 DEF WellSigned
  <2>2. CASE i = Len(signed) + 1
    BY <1>1, <1>2, <2>2
  <2> QED BY <1>1, <1>2, <2>1, <2>2
<1> QED BY <1>3 DEF WellSigned

\* A step that leaves the chain and its index alone.
LEMMA ChainUntouched ==
  ASSUME ChainInv, Grown, UNCHANGED <<events, cold, head_hash, event_index>>
  PROVE  ChainLinked' /\ IndexCoherent' /\ HotWindowFull' /\ ChainMoves
<1>1. TypeOK /\ ChainLinked /\ IndexCoherent /\ HotWindowFull /\ Full' = Full
  BY DEF ChainInv, Full
<1>2. Full \in Seq(1 .. Len(signed)) /\ Unbroken(signed, Full)
  BY <1>1, FullUnbroken
<1>3. \A i \in 1 .. Len(Full) : signed'[Full[i]] = signed[Full[i]]
  <2>1. \A i \in 1 .. Len(Full) : Full[i] \in 1 .. Len(signed)
    BY <1>2
  <2> QED BY <2>1 DEF Grown
<1>4. Len(Full) \in Nat /\ (Full # <<>> => 1 \in 1 .. Len(Full))
  BY <1>2
<1>5. \A i \in 1 .. Len(Full) - 1 : i + 1 \in 1 .. Len(Full)
  BY <1>4
<1>6. /\ \A i \in 1 .. Len(Full) - 1 : signed'[Full[i + 1]].prev = Full[i]
      /\ Full # <<>> => signed'[Full[1]].prev = Genesis
  BY <1>2, <1>3, <1>4, <1>5 DEF Unbroken
<1>7. ChainLinked'
  BY <1>1, <1>6 DEF ChainLinked, Linked
<1> QED BY <1>1, <1>7 DEF IndexCoherent, HotWindowFull, ChainMoves

\* The hot window ends where the chain ends.
LEMMA HotEnd ==
  ASSUME TypeOK, HotWindowFull
  PROVE  LastOf(events) = LastOf(Full)
<1>1. /\ cold \in Seq(1 .. Len(signed)) /\ events \in Seq(1 .. Len(signed))
      /\ Len(events) \in Nat /\ Len(cold) \in Nat
  BY DEF TypeOK
<1>2. /\ Len(Full) = Len(cold) + Len(events)
      /\ \A i \in 1 .. Len(cold) + Len(events) :
           Full[i] = IF i <= Len(cold) THEN cold[i] ELSE events[i - Len(cold)]
  BY <1>1, ConcatProperties DEF Full
<1>3. CASE events = <<>>
  <2>1. cold = <<>>
    BY <1>1, <1>3, BoundAssumption DEF HotWindowFull
  <2> QED BY <1>3, <2>1 DEF Full, LastOf
<1>4. CASE events # <<>>
  <2>1. Len(events) > 0
    BY <1>1, <1>4
  <2>2. /\ Len(cold) + Len(events) \in 1 .. Len(cold) + Len(events)
        /\ ~ (Len(cold) + Len(events) <= Len(cold))
        /\ Len(cold) + Len(events) - Len(cold) = Len(events)
    BY <1>1, <2>1
  <2>3. Full[Len(Full)] = events[Len(events)] /\ Len(Full) > 0
    BY <1>2, <2>2
  <2>4. Full # <<>>
    BY <2>3
  <2> QED BY <1>4, <2>3, <2>4 DEF LastOf
<1> QED BY <1>3, <1>4

LEMMA ChainStep ==
  ASSUME ChainInv, [Next]_vars
  PROVE  ChainInv' /\ ChainMoves
<1> DEFINE Kept == /\ WellSigned' /\ ChainLinked' /\ IndexCoherent' /\ HotWindowFull'
                   /\ ChainMoves
<1>1. TypeOK /\ WellSigned /\ HotWindowFull /\ ChainLinked /\ IndexCoherent
  BY DEF ChainInv
<1>2. SUFFICES Kept
  BY <1>1, <1>2, TypeStep DEF ChainInv
<1>3. ASSUME UNCHANGED <<signed, events, cold, head_hash, event_index>>
      PROVE  Kept
  BY <1>1, <1>3, UnchangedGrows, ChainUntouched DEF WellSigned
<1>4. ASSUME NEW n \in Nodes, NEW s \in 1 .. MaxSequence, NEW k \in Kinds,
             NEW b \in Body(k), NEW e, e = MakeEvent(head_hash, k, n, s, b),
             Sign(e), Extend(NewId, e)
      PROVE  Kept
  <2>1. head_hash \in 0 .. Len(signed) /\ e.prev = head_hash
    BY <1>1, <1>4 DEF TypeOK, MakeEvent
  <2>2. e \in Event
    BY <1>1, <1>4, <2>1, MakeEventType
  <2>3. Grown /\ NewId \in 1 .. Len(signed') /\ signed'[NewId] = e
    BY <1>1, <1>4, <2>2, SignGrows
  <2>4. WellSigned'
    BY <1>1, <1>4, <2>1, <2>2, SignWellSigned
  <2>5. \A i \in DOMAIN events : events[i] # NewId
    BY <1>1 DEF TypeOK, NewId
  <2>6. ChainLinked' /\ IndexCoherent' /\ HotWindowFull' /\ Full' = Append(Full, NewId)
    BY <1>4, <2>1, <2>2, <2>3, <2>4, <2>5, ExtendStep
  <2> QED BY <1>4, <2>4, <2>6 DEF ChainMoves, Sign
<1>5. ASSUME NEW n \in Nodes, NEW s \in 1 .. MaxSequence, NEW k \in Kinds,
             NEW b \in Body(k), AppendPublic(n, k, s, b)
      PROVE  Kept
  BY <1>4, <1>5 DEF AppendPublic
<1>6. ASSUME NEW n \in Nodes, NEW s \in 1 .. MaxSequence, "gate_message" \in Kinds,
             NEW b \in Body("gate_message"), AppendGate(n, s, b)
      PROVE  Kept
  BY <1>4, <1>6 DEF AppendGate
<1>7. ASSUME NEW n \in Nodes, NEW s \in 1 .. MaxSequence, "dm_message" \in Kinds,
             NEW b \in Body("dm_message"), AppendDm(n, s, b)
      PROVE  Kept
  BY <1>4, <1>7 DEF AppendDm
<1>8. ASSUME NEW n \in Nodes, NEW s \in 1 .. MaxSequence, NEW k \in Kinds,
             NEW prev \in 0 .. Len(signed), NEW b \in Body(k),
             SignElsewhere(prev, k, n, s, b)
      PROVE  Kept
  <2> DEFINE e == MakeEvent(prev, k, n, s, b)
  <2>1. e \in Event /\ e.prev = prev /\ Sign(e)
    BY <1>1, <1>8, MakeEventType DEF SignElsewhere, MakeEvent
  <2> HIDE DEF e
  <2>2. Grown /\ WellSigned'
    BY <1>1, <2>1, SignGrows, SignWellSigned
  <2> QED BY <1>8, <2>2, ChainUntouched DEF SignElsewhere
<1>9. ASSUME NEW id \in 1 .. Len(signed), Ingest(id)
      PROVE  Kept
  <2>1. /\ signed' = signed /\ Grown /\ WellSigned' /\ signed[id] \in Event
        /\ id \in 1 .. Len(signed') /\ id \in Ids
    BY <1>1, <1>9, UnchangedGrows, BoundAssumption DEF Ingest, WellSigned, TypeOK, Ids
  <2>2. /\ Extend(id, signed[id]) /\ signed'[id].prev = head_hash /\ event_index[id] = 0
    BY <1>9, <2>1 DEF Ingest, Acceptable
  <2>3. \A i \in DOMAIN events : events[i] # id
    <3>1. DOMAIN events = 1 .. Len(events)
      BY <1>1 DEF TypeOK
    <3> QED BY <1>1, <2>2, <3>1 DEF IndexCoherent
  <2>4. ChainLinked' /\ IndexCoherent' /\ HotWindowFull' /\ Full' = Append(Full, id)
    BY <2>1, <2>2, <2>3, ExtendStep
  <2> QED BY <2>1, <2>4 DEF ChainMoves
<1>10. ASSUME NEW m \in 1 .. MaxForkLen, NEW fork \in [1 .. m -> 1 .. Len(signed)],
              ApplyFork(fork)
       PROVE  Kept
  <2> DEFINE at == event_index[signed[fork[1]].prev]
  <2>1. signed' = signed /\ WellSigned'
    BY <1>1, <1>10 DEF ApplyFork, WellSigned
  <2>2. Len(events) - at <= ChainLockDepth /\ Len(fork) > Len(events) - at
    BY <1>10 DEF ApplyFork, WithinLock, Outweighs
  <2> HIDE DEF at
  <2>3. /\ ChainLinked' /\ IndexCoherent' /\ HotWindowFull'
        /\ at \in 1 .. Len(events) /\ fork \in Seq(1 .. Len(signed))
        /\ Full' = SubSeq(Full, 1, Len(cold) + at) \o fork
    BY <1>10, ForkStep DEF at
  <2>4. fork \in Seq(Ids)
    BY <1>1, <2>3, UnchangedGrows, GrownChains, <2>1 DEF Chains
  <2> QED BY <2>1, <2>2, <2>3, <2>4 DEF ChainMoves
<1>11. CASE ResetChain
  <2>1. cold = <<>>
    <3>1. Len(events) \in Nat /\ Len(events) < MaxChainMemory
      BY <1>1, <1>11, ResetAssumption, BoundAssumption DEF ResetChain, TypeOK
    <3> QED BY <1>1, <3>1, BoundAssumption DEF HotWindowFull
  <2>2. Full' = <<>> /\ Full = events
    BY <1>1, <1>11, <2>1 DEF ResetChain, Full, TypeOK
  <2>3. ChainLinked'
    BY <1>11, <2>2 DEF ResetChain, ChainLinked, Linked, LastOf
  <2>4. IndexCoherent' /\ HotWindowFull'
    BY <1>11, <2>1, <2>2, BoundAssumption DEF ResetChain, IndexCoherent, HotWindowFull
  <2> QED BY <1>1, <1>11, <2>2, <2>3, <2>4 DEF ResetChain, WellSigned, ChainMoves
<1>12. CASE Restart
  <2>1. /\ UNCHANGED <<signed, events, cold>> /\ head_hash' = LastOf(events)
        /\ event_index' = IndexOf(events)
    BY <1>12 DEF Restart, RebuildFrom
  <2>2. events \in Seq(1 .. Len(signed)) /\ events \in Seq(Ids) /\ Distinct(events)
    <3>1. events \in Seq(Ids)
      BY <1>1, UnchangedGrows, GrownChains, <2>1 DEF TypeOK, Chains
    <3>2. cold \in Seq(1 .. Len(signed)) /\ events \in Seq(1 .. Len(signed)) /\ Distinct(Full)
      BY <1>1 DEF TypeOK, IndexCoherent, Distinct
    <3> QED BY <3>1, <3>2, DistinctTail DEF Full
  <2>3. LastOf(events) = LastOf(Full)
    BY <1>1, HotEnd
  <2>4. UNCHANGED head_hash
    BY <1>1, <2>1, <2>3 DEF ChainLinked
  <2>5. Indexes(event_index', events)
    BY <2>1, <2>2, IndexOfProps DEF Indexes, Distinct
  <2>6. Full' = Full /\ Distinct(Full)
    BY <1>1, <2>1 DEF Full, IndexCoherent, Distinct
  <2>7. IndexCoherent'
    BY <2>1, <2>5, <2>6 DEF IndexCoherent, Indexes, Distinct
  <2>8. ChainLinked' /\ HotWindowFull' /\ WellSigned' /\ ChainMoves
    BY <1>1, <2>1, <2>4, <2>6 DEF ChainLinked, Linked, HotWindowFull, WellSigned, ChainMoves
  <2> QED BY <2>7, <2>8
<1>13. CASE Tick
  BY <1>3, <1>13 DEF Tick
<1>14. ASSUME NEW n \in Nodes, NEW s \in 1 .. MaxClaim, ClaimSequence(n, s)
       PROVE  Kept
  BY <1>3, <1>14 DEF ClaimSequence
<1>15. CASE UNCHANGED vars
  BY <1>3, <1>15 DEF vars
<1> HIDE DEF Kept
<1> QED
  BY <1>5, <1>6, <1>7, <1>8, <1>9, <1>10, <1>11, <1>12, <1>13, <1>14, <1>15 DEF Next

LEMMA ChainInit ==
  ASSUME Init
  PROVE  ChainInv
<1>1. signed = <<>> /\ events = <<>> /\ cold = <<>> /\ Full = <<>> /\ head_hash = 0
  BY DEF Init, Full, Genesis
<1>2. TypeOK
  BY <1>1, BoundAssumption DEF Init, TypeOK, Genesis
<1>3. ChainLinked /\ HotWindowFull /\ WellSigned
  BY <1>1, BoundAssumption DEF ChainLinked, Linked, LastOf, Genesis, HotWindowFull, WellSigned
<1>4. IndexCoherent
  BY <1>1 DEF Init, IndexCoherent
<1> QED BY <1>2, <1>3, <1>4 DEF ChainInv

\* A graft keeps what it is grafted onto.
LEMMA GraftKeeps ==
  ASSUME NEW S, NEW l \in Seq(S), NEW f \in Seq(S), NEW p \in 1 .. Len(l)
  PROVE  /\ Len(SubSeq(l, 1, p) \o f) = p + Len(f)
         /\ SubSeq(SubSeq(l, 1, p) \o f, 1, p) = SubSeq(l, 1, p)
<1> DEFINE P == SubSeq(l, 1, p)
           G == P \o f
           Q == SubSeq(G, 1, p)
<1>1. P \in Seq(S) /\ Len(P) = p /\ p \in Nat /\ p >= 1
  <2>1. p \in Int /\ 1 <= p /\ \A i \in 1 .. p : l[i] \in S
    OBVIOUS
  <2>2. P \in Seq(S) /\ Len(P) = IF 1 <= p THEN p - 1 + 1 ELSE 0
    BY <2>1, SubSeqProperties
  <2> QED BY <2>1, <2>2
<1> HIDE DEF P
<1>2. /\ G \in Seq(S) /\ Len(G) = p + Len(f) /\ Len(f) \in Nat
      /\ \A i \in 1 .. p + Len(f) : G[i] = IF i <= p THEN P[i] ELSE f[i - p]
  <2>1. /\ P \o f \in Seq(S) /\ Len(P \o f) = Len(P) + Len(f)
        /\ \A i \in 1 .. Len(P) + Len(f) :
             (P \o f)[i] = IF i <= Len(P) THEN P[i] ELSE f[i - Len(P)]
    BY <1>1, ConcatProperties
  <2>2. Len(f) \in Nat
    OBVIOUS
  <2> QED BY <1>1, <2>1, <2>2
<1> HIDE DEF G
<1>3. /\ Q \in Seq(S) /\ Len(Q) = p /\ \A i \in 1 .. p : Q[i] = G[i]
  <2>1. p \in Int /\ 1 <= p /\ \A i \in 1 .. p : G[i] \in S
    BY <1>1, <1>2
  <2>2. /\ Q \in Seq(S) /\ Len(Q) = IF 1 <= p THEN p - 1 + 1 ELSE 0
        /\ \A i \in 1 .. p - 1 + 1 : SubSeq(G, 1, p)[i] = G[1 + i - 1]
    BY <2>1, SubSeqProperties
  <2> QED BY <1>1, <2>2
<1> HIDE DEF Q
<1>4. \A i \in 1 .. p : Q[i] = P[i]
  BY <1>1, <1>2, <1>3
<1>5. Q = P
  BY <1>1, <1>3, <1>4, SeqEqual
<1> QED BY <1>2, <1>5 DEF Q, G, P

------------------------------------------------------------------------------
(* Theorems *)

\* The inductive invariant behind the theorems below.
THEOREM ChainInvariant == Spec => []ChainInv
<1>1. ChainInv /\ [Next]_vars => ChainInv'
  BY ChainStep
<1> QED BY <1>1, ChainInit, PTL DEF Spec

\* Every variable stays in its range.
THEOREM TypeCorrect == Spec => []TypeOK
<1>1. ChainInv => TypeOK
  BY DEF ChainInv
<1> QED BY <1>1, ChainInvariant, PTL

\* The chain is unbroken from Genesis to the head, archive included.
THEOREM ChainIsLinked == Spec => []ChainLinked
<1>1. ChainInv => ChainLinked
  BY DEF ChainInv
<1> QED BY <1>1, ChainInvariant, PTL

\* event_index is exactly the hot window, and no event is on the chain twice.
THEOREM IndexIsCoherent == Spec => []IndexCoherent
<1>1. ChainInv => IndexCoherent
  BY DEF ChainInv
<1> QED BY <1>1, ChainInvariant, PTL

\* A window behind which events are archived is full, so it is never reset.
THEOREM WindowIsFull == Spec => []HotWindowFull
<1>1. ChainInv => HotWindowFull
  BY DEF ChainInv
<1> QED BY <1>1, ChainInvariant, PTL

\* A chain that may change only so behaves as the log of Ledger.
LEMMA LedgerStep ==
  ASSUME ChainInv, ChainInv', ChainMoves
  PROVE  [Abstract!Next]_Full
<1>1. /\ Full \in Seq(Ids) /\ Full' \in Seq(Ids) /\ Full' \in Seq(1 .. Len(signed'))
      /\ Full' \in Seq(Ids)
  <2>1. Full \in Seq(1 .. Len(signed)) /\ (Full \in Seq(1 .. Len(signed)))'
    BY FullUnbroken DEF ChainInv, Full, TypeOK
  <2>2. 1 .. Len(signed) \subseteq Ids /\ 1 .. Len(signed') \subseteq Ids
    BY BoundAssumption DEF ChainInv, TypeOK, Ids
  <2> QED BY <2>1, <2>2, SeqMonotonic
<1>2. Abstract!Once(Full')
  BY DEF ChainInv, IndexCoherent, Abstract!Once
<1>3. CASE \E id \in Ids : Full' = Append(Full, id)
  <2>1. Abstract!Extend
    BY <1>2, <1>3 DEF Abstract!Extend, Abstract!Once
  <2> QED BY <2>1 DEF Abstract!Next
<1>4. ASSUME NEW at \in 1 .. Len(events), NEW fork \in Seq(Ids),
             Len(events) - at <= ChainLockDepth, Len(fork) > Len(events) - at,
             Full' = SubSeq(Full, 1, Len(cold) + at) \o fork
      PROVE  Abstract!Next
  <2> DEFINE p == Len(cold) + at
  <2>1. /\ p \in 1 .. Len(Full) /\ Len(Full) = Len(cold) + Len(events)
        /\ Len(cold) \in Nat /\ Len(events) \in Nat /\ Len(fork) \in Nat
        /\ p >= Len(Full) - ChainLockDepth
    <3>1. cold \in Seq(1 .. Len(signed)) /\ events \in Seq(1 .. Len(signed))
      BY DEF ChainInv, TypeOK
    <3>2. Len(Full) = Len(cold) + Len(events)
      BY <3>1, ConcatProperties DEF Full
    <3>3. Len(cold) \in Nat /\ Len(events) \in Nat /\ Len(fork) \in Nat
      BY <3>1
    <3> QED BY <1>4, <3>2, <3>3, BoundAssumption
  <2> HIDE DEF p
  <2>2. Len(Full') = p + Len(fork) /\ SubSeq(Full', 1, p) = SubSeq(Full, 1, p)
    BY <1>1, <1>4, <2>1, GraftKeeps DEF p
  <2>3. Len(Full') > Len(Full)
    BY <1>4, <2>1, <2>2 DEF p
  <2>4. Abstract!Reorganise
    BY <1>1, <1>2, <2>1, <2>2, <2>3 DEF Abstract!Reorganise
  <2> QED BY <2>4 DEF Abstract!Next
<1>5. CASE Len(Full) < ResetBelow /\ Full' = <<>>
  BY <1>5 DEF Abstract!Next, Abstract!Reset
<1> QED BY <1>3, <1>4, <1>5 DEF ChainMoves

\* Archive and hot window together implement the abstract ledger.
THEOREM LedgerImplemented == Spec => ImplementsLedger
<1>1. Init => Abstract!Init
  BY DEF Init, Abstract!Init, Full
<1>2. ChainInv /\ ChainInv' /\ [Next]_vars => [Abstract!Next]_Full
  BY ChainStep, LedgerStep
<1> QED
  BY <1>1, <1>2, ChainInvariant, PTL DEF Spec, ImplementsLedger, Abstract!Spec

------------------------------------------------------------------------------
(* The replay table and a chain *)

\* Two events of one author in one sequence domain.
SameDomain(a, b) == a.node = b.node /\ DomainOf(a.kind) = DomainOf(b.kind)

\* Of any chain, with its events and a table: numbers increase along it, and the
\* table knows them all.
Rising(sg, chain) ==
  \A i, j \in DOMAIN chain :
    i < j /\ SameDomain(sg[chain[i]], sg[chain[j]]) => sg[chain[i]].seq < sg[chain[j]].seq
Known(sg, chain, table) ==
  \A i \in DOMAIN chain :
    sg[chain[i]].seq <= table[sg[chain[i]].node][DomainOf(sg[chain[i]].kind)]

LEMMA HotMeans ==
  HotSequencesIncrease <=> Rising(signed, events) /\ Known(signed, events, last_sequence)
BY DEF HotSequencesIncrease, Increasing, Rising, Known, SameDomain

\* Signing leaves the events that are there alone.
LEMMA GrownKeeps ==
  ASSUME TypeOK, Grown, NEW chain \in Chains, NEW table,
         Rising(signed, chain), Known(signed, chain, table)
  PROVE  Rising(signed', chain) /\ Known(signed', chain, table)
<1>1. \A i \in DOMAIN chain : signed'[chain[i]] = signed[chain[i]]
  BY DEF Grown, Chains
<1> QED BY <1>1 DEF Rising, Known

\* A spill keeps what is said of the rest.
LEMMA SpillKeeps ==
  ASSUME NEW sg, NEW S, NEW chain \in Seq(S), NEW table,
         Rising(sg, chain), Known(sg, chain, table)
  PROVE  LET hot == SubSeq(chain, Overflow(chain) + 1, Len(chain))
         IN Rising(sg, hot) /\ Known(sg, hot, table)
<1> DEFINE o == Overflow(chain)
           hot == SubSeq(chain, o + 1, Len(chain))
<1>1. /\ o \in 0 .. Len(chain) /\ Len(hot) = Len(chain) - o /\ hot \in Seq(S)
      /\ \A i \in 1 .. Len(chain) - o : hot[i] = chain[o + i]
  BY OverflowProps
<1>2. Len(chain) \in Nat /\ DOMAIN chain = 1 .. Len(chain)
  OBVIOUS
<1> HIDE DEF o, hot
<1>3. DOMAIN hot = 1 .. Len(chain) - o
  BY <1>1
<1>4. \A i \in DOMAIN hot : o + i \in DOMAIN chain /\ hot[i] = chain[o + i]
  BY <1>1, <1>2, <1>3
<1>5. \A i, j \in DOMAIN hot : i < j => o + i < o + j
  BY <1>1, <1>2, <1>3
<1>6. Rising(sg, hot)
  BY <1>4, <1>5 DEF Rising
<1>7. Known(sg, hot, table)
  BY <1>4 DEF Known
<1> QED BY <1>6, <1>7 DEF hot, o

\* An event with a number above the table's joins the chain.
LEMMA AppendKeeps ==
  ASSUME NEW sg, NEW S, NEW chain \in Seq(S), NEW table \in [Nodes -> [Domains -> Nat]],
         NEW id, NEW e \in Event, sg[id] = e,
         \A i \in DOMAIN chain : sg[chain[i]] \in Event,
         e.seq > table[e.node][DomainOf(e.kind)],
         Rising(sg, chain), Known(sg, chain, table)
  PROVE  LET longer == Append(chain, id)
             new == [table EXCEPT ![e.node][DomainOf(e.kind)] = e.seq]
         IN Rising(sg, longer) /\ Known(sg, longer, new)
<1> DEFINE longer == Append(chain, id)
           new == [table EXCEPT ![e.node][DomainOf(e.kind)] = e.seq]
<1>1. /\ Len(chain) \in Nat /\ DOMAIN chain = 1 .. Len(chain) /\ DOMAIN longer = 1 .. Len(chain) + 1
      /\ \A i \in 1 .. Len(chain) : longer[i] = chain[i]
      /\ longer[Len(chain) + 1] = id
  OBVIOUS
<1>2. \A f \in Event : f.node \in Nodes /\ DomainOf(f.kind) \in Domains /\ f.seq \in Nat
  BY DEF Event, DomainOf, Domains
<1>3. /\ \A n \in Nodes, d \in Domains : new[n][d] =
           IF n = e.node /\ d = DomainOf(e.kind) THEN e.seq ELSE table[n][d]
  BY <1>2
<1> HIDE DEF longer, new
<1>4. ASSUME NEW i \in DOMAIN chain, SameDomain(sg[chain[i]], e) PROVE sg[chain[i]].seq < e.seq
  <2>1. /\ sg[chain[i]].seq <= table[e.node][DomainOf(e.kind)]
        /\ sg[chain[i]].seq \in Nat /\ e.seq \in Nat /\ table[e.node][DomainOf(e.kind)] \in Nat
    BY <1>2, <1>4 DEF Known, SameDomain
  <2> QED BY <2>1
<1>5. Rising(sg, longer)
  <2> SUFFICES ASSUME NEW i \in DOMAIN longer, NEW j \in DOMAIN longer, i < j,
                      SameDomain(sg[longer[i]], sg[longer[j]])
               PROVE  sg[longer[i]].seq < sg[longer[j]].seq
    BY DEF Rising
  <2>1. i \in DOMAIN chain /\ longer[i] = chain[i]
    BY <1>1
  <2>2. CASE j \in DOMAIN chain
    BY <1>1, <2>1, <2>2 DEF Rising
  <2>3. CASE j = Len(chain) + 1
    BY <1>1, <1>4, <2>1, <2>3
  <2> QED BY <1>1, <2>2, <2>3
<1>6. Known(sg, longer, new)
  <2> SUFFICES ASSUME NEW i \in DOMAIN longer
               PROVE  sg[longer[i]].seq <= new[sg[longer[i]].node][DomainOf(sg[longer[i]].kind)]
    BY DEF Known
  <2>1. CASE i = Len(chain) + 1
    BY <1>1, <1>2, <1>3, <2>1
  <2>2. CASE i \in DOMAIN chain
    <3> DEFINE f == sg[chain[i]]
    <3>1. longer[i] = chain[i] /\ f \in Event
      BY <1>1, <2>2
    <3>2. f.node \in Nodes /\ DomainOf(f.kind) \in Domains /\ f.seq \in Nat /\ e.seq \in Nat
      BY <1>2, <3>1
    <3>3. f.seq <= table[f.node][DomainOf(f.kind)]
      BY <2>2 DEF Known
    <3>4. CASE SameDomain(f, e)
      <4>1. f.seq < e.seq /\ new[f.node][DomainOf(f.kind)] = e.seq
        BY <1>3, <1>4, <2>2, <3>2, <3>4 DEF SameDomain
      <4> QED BY <3>1, <3>2, <4>1
    <3>5. CASE ~SameDomain(f, e)
      BY <1>3, <3>1, <3>2, <3>3, <3>5 DEF SameDomain
    <3> QED BY <3>4, <3>5
  <2> QED BY <1>1, <2>1, <2>2
<1> QED BY <1>5, <1>6 DEF longer, new

\* A table rebuilt from a chain knows the chain.
LEMMA RebuildKnows ==
  ASSUME TypeOK, NEW chain \in Chains, RebuildFrom(chain)
  PROVE  Known(signed, chain, last_sequence')
<1> SUFFICES ASSUME NEW i \in DOMAIN chain
             PROVE  signed[chain[i]].seq
                      <= last_sequence'[signed[chain[i]].node][DomainOf(signed[chain[i]].kind)]
  BY DEF Known
<1> DEFINE e == signed[chain[i]]
           d == DomainOf(e.kind)
<1>1. e \in Event /\ e.node \in Nodes /\ d \in Domains
  <2>1. e \in Event
    BY EventOnChain DEF TypeOK, SignedOK
  <2> QED BY <2>1 DEF Event, DomainOf, Domains
<1>2. RebuildFloor(e.node, d) \in Nat
  BY <1>1 DEF TypeOK, RebuildFloor
<1>3. i \in Authored(chain, e.node, d)
  BY DEF Authored
<1>4. last_sequence'[e.node][d] = Greatest(chain, e.node, d, RebuildFloor(e.node, d))
  BY <1>1 DEF RebuildFrom
<1> HIDE DEF e, d
<1>5. \A k \in Authored(chain, e.node, d) :
        signed[chain[k]].seq <= Greatest(chain, e.node, d, RebuildFloor(e.node, d))
  BY <1>2, GreatestBounds DEF TypeOK, SignedOK
<1> QED BY <1>3, <1>4, <1>5 DEF e, d

\* A fork whose events follow, each in its author's domain, all that comes before
\* them in the new chain.
LEMMA ForkRises ==
  ASSUME TypeOK, NEW prefix \in Chains, NEW fork \in Chains,
         Rising(signed, prefix), FollowsInSequence(prefix, fork)
  PROVE  Rising(signed, prefix \o fork)
<1> DEFINE chain == prefix \o fork
           at == Len(prefix)
<1>1. /\ at \in Nat /\ Len(fork) \in Nat /\ DOMAIN chain = 1 .. at + Len(fork)
      /\ DOMAIN prefix = 1 .. at /\ DOMAIN fork = 1 .. Len(fork)
      /\ \A i \in 1 .. at : chain[i] = prefix[i]
      /\ \A i \in 1 .. Len(fork) : chain[at + i] = fork[i]
  BY DEF Chains
<1> SUFFICES ASSUME NEW i \in DOMAIN chain, NEW j \in DOMAIN chain, i < j,
                    SameDomain(signed[chain[i]], signed[chain[j]])
             PROVE  signed[chain[i]].seq < signed[chain[j]].seq
  BY DEF Rising
<1>2. CASE j <= at
  BY <1>1, <1>2 DEF Rising
<1>3. CASE j > at
  <2> DEFINE q == j - at
             before == prefix \o SubSeq(fork, 1, q - 1)
             e == signed[chain[j]]
             d == DomainOf(e.kind)
  <2>1. q \in 1 .. Len(fork) /\ chain[j] = fork[q] /\ at + q = j
    BY <1>1, <1>3
  <2>2. /\ SubSeq(fork, 1, q - 1) \in Chains /\ Len(SubSeq(fork, 1, q - 1)) = q - 1
        /\ \A k \in 1 .. q - 1 : SubSeq(fork, 1, q - 1)[k] = fork[k]
    <3> HIDE DEF q
    <3>1. q - 1 \in Int /\ 1 \in Int /\ \A k \in 1 .. q - 1 : fork[k] \in 1 .. Len(signed)
      BY SMTT(30), <1>1, <2>1 DEF Chains
    <3>2. /\ SubSeq(fork, 1, q - 1) \in Seq(1 .. Len(signed))
          /\ Len(SubSeq(fork, 1, q - 1)) = IF 1 <= q - 1 THEN q - 1 - 1 + 1 ELSE 0
          /\ \A k \in 1 .. q - 1 - 1 + 1 : SubSeq(fork, 1, q - 1)[k] = fork[1 + k - 1]
      BY <3>1, SubSeqProperties
    <3> QED BY <1>1, <2>1, <3>2 DEF Chains
  <2>3. /\ before \in Chains /\ DOMAIN before = 1 .. at + (q - 1)
        /\ \A k \in 1 .. at : before[k] = prefix[k]
        /\ \A k \in 1 .. q - 1 : before[at + k] = fork[k]
    <3> DEFINE cut == SubSeq(fork, 1, q - 1)
    <3>1. cut \in Chains /\ Len(cut) = q - 1 /\ q - 1 \in Nat
      BY <2>1, <2>2
    <3>2. before = prefix \o cut
      OBVIOUS
    <3> HIDE DEF cut
    <3>3. /\ prefix \o cut \in Chains /\ Len(prefix \o cut) = at + (q - 1)
          /\ \A k \in 1 .. at + (q - 1) : (prefix \o cut)[k] = IF k <= at THEN prefix[k] ELSE cut[k - at]
      <4>1. /\ prefix \o cut \in Seq(1 .. Len(signed)) /\ Len(prefix \o cut) = Len(prefix) + Len(cut)
            /\ \A k \in 1 .. Len(prefix) + Len(cut) :
                 (prefix \o cut)[k] = IF k <= Len(prefix) THEN prefix[k] ELSE cut[k - Len(prefix)]
        BY <3>1, ConcatProperties DEF Chains
      <4> QED BY <3>1, <4>1 DEF Chains
    <3> HIDE DEF before
    <3>4. before \in Chains /\ DOMAIN before = 1 .. at + (q - 1)
      BY <3>2, <3>3 DEF Chains
    <3>5. \A k \in 1 .. at : before[k] = prefix[k]
      BY <1>1, <2>1, <3>2, <3>3
    <3>6. ASSUME NEW k \in 1 .. q - 1 PROVE before[at + k] = fork[k]
      <4>1. at + k \in 1 .. at + (q - 1) /\ ~(at + k <= at) /\ at + k - at = k
        BY <1>1, <2>1
      <4>2. before[at + k] = cut[k]
        BY <3>2, <3>3, <4>1
      <4> QED BY <2>2, <4>2 DEF cut
    <3> QED BY <3>4, <3>5, <3>6
  <2>4. i \in DOMAIN before /\ before[i] = chain[i]
    <3>1. CASE i <= at
      BY <1>1, <2>1, <2>3, <3>1
    <3>2. CASE i > at
      <4>1. i - at \in 1 .. q - 1 /\ at + (i - at) = i /\ i - at \in 1 .. Len(fork)
        BY <1>1, <2>1, <3>2
      <4> HIDE DEF chain, before
      <4>2. before[i] = fork[i - at] /\ chain[i] = fork[i - at] /\ i \in 1 .. at + (q - 1)
        BY <1>1, <2>1, <2>3, <4>1
      <4> QED BY <2>3, <4>2
    <3> QED BY SMTT(30), <1>1, <3>1, <3>2
  <2>5. e.seq > Greatest(before, e.node, d, 0)
    BY <1>1, <2>1 DEF FollowsInSequence
  <2> HIDE DEF before, chain
  <2>6. i \in Authored(before, e.node, d)
    BY <2>4 DEF Authored, SameDomain
  <2> HIDE DEF e, d
  <2>7. /\ Greatest(before, e.node, d, 0) \in Nat
        /\ signed[before[i]].seq <= Greatest(before, e.node, d, 0)
    BY <2>3, <2>6, GreatestBounds DEF TypeOK, SignedOK
  <2>8. signed[before[i]].seq \in Nat /\ e.seq \in Nat
    <3>1. signed[before[i]] \in Event
      BY <2>3, <2>4, EventOnChain DEF TypeOK, SignedOK
    <3>2. e \in Event
      <4>1. fork[q] \in 1 .. Len(signed)
        BY <1>1, <2>1 DEF Chains
      <4> QED BY <2>1, <4>1 DEF TypeOK, e
    <3> QED BY <3>1, <3>2 DEF Event
  <2> QED BY <2>4, <2>5, <2>7, <2>8 DEF e
<1> QED BY <1>1, <1>2, <1>3

------------------------------------------------------------------------------
(* One step *)

\* What a step does to the numbers of the private domains, unless it resets.
PrivateKept ==
  events = <<>> \/ events' # <<>> =>
    \A n \in Nodes, d \in {"dm_message", "signed_write"} :
      last_sequence'[n][d] >= last_sequence[n][d]

Goal == HotSequencesIncrease' /\ PrivateKept

LEMMA TableTyped ==
  ASSUME TypeOK, NEW n \in Nodes, NEW d \in Domains
  PROVE  last_sequence[n][d] \in Nat
BY DEF TypeOK

\* An event becomes the head.
LEMMA ExtendKeeps ==
  ASSUME TypeOK, HotSequencesIncrease, Grown, NEW id, NEW e \in Event, signed'[id] = e,
         id \in 1 .. Len(signed'), e.seq > last_sequence[e.node][DomainOf(e.kind)], Extend(id, e)
  PROVE  Goal
<1> DEFINE longer == Append(events, id)
<1>1. events \in Chains /\ events \in Seq(1 .. Len(signed'))
  BY GrownChains DEF TypeOK, Chains
<1>2. Rising(signed', events) /\ Known(signed', events, last_sequence)
  BY <1>1, HotMeans, GrownKeeps
<1>3. \A i \in DOMAIN events : signed'[events[i]] \in Event
  <2>1. signed' \in Seq(Event)
    BY DEF Grown
  <2> QED BY <1>1, <2>1
<1>4. last_sequence' = [last_sequence EXCEPT ![e.node][DomainOf(e.kind)] = e.seq]
  BY DEF Extend
<1>5. Rising(signed', longer) /\ Known(signed', longer, last_sequence')
  <2>1. last_sequence \in [Nodes -> [Domains -> Nat]]
    BY DEF TypeOK
  <2> QED BY <1>1, <1>2, <1>3, <1>4, <2>1, AppendKeeps
<1>6. longer \in Seq(1 .. Len(signed')) /\ events' = SubSeq(longer, Overflow(longer) + 1, Len(longer))
  BY <1>1 DEF Extend, Save
<1>7. HotSequencesIncrease'
  <2> HIDE DEF longer
  <2>1. Rising(signed', events') /\ Known(signed', events', last_sequence')
    BY <1>5, <1>6, SpillKeeps
  <2> QED BY <2>1 DEF HotSequencesIncrease, Increasing, Rising, Known, SameDomain
<1>8. ASSUME NEW n \in Nodes, NEW d \in Domains
      PROVE  last_sequence'[n][d] >= last_sequence[n][d]
  <2>1. e.node \in Nodes /\ DomainOf(e.kind) \in Domains /\ e.seq \in Nat
    BY DEF Event, DomainOf, Domains
  <2>2. last_sequence'[n][d] = IF n = e.node /\ d = DomainOf(e.kind) THEN e.seq ELSE last_sequence[n][d]
    BY <1>4, <2>1 DEF TypeOK
  <2> QED BY <2>1, <2>2, TableTyped
<1> QED BY <1>7, <1>8 DEF Goal, PrivateKept, Domains

\* The chain stays and so does the table, or it only grows.
LEMMA OthersKeep ==
  ASSUME TypeOK, HotSequencesIncrease, Grown, UNCHANGED events,
         \A n \in Nodes, d \in Domains : last_sequence'[n][d] \in Nat /\ last_sequence'[n][d] >= last_sequence[n][d]
  PROVE  Goal
<1>1. events \in Chains
  BY DEF TypeOK, Chains
<1>2. Rising(signed', events) /\ Known(signed', events, last_sequence)
  BY <1>1, HotMeans, GrownKeeps
<1>3. Known(signed', events, last_sequence')
  <2> SUFFICES ASSUME NEW i \in DOMAIN events
               PROVE  signed'[events[i]].seq
                        <= last_sequence'[signed'[events[i]].node][DomainOf(signed'[events[i]].kind)]
    BY DEF Known
  <2>1. signed'[events[i]] \in Event
    BY <1>1, GrownChains DEF Grown
  <2>2. /\ signed'[events[i]].node \in Nodes /\ DomainOf(signed'[events[i]].kind) \in Domains
        /\ signed'[events[i]].seq \in Nat
    BY <2>1 DEF Event, DomainOf, Domains
  <2> QED BY <1>2, <2>2, TableTyped DEF Known
<1>4. HotSequencesIncrease'
  BY <1>2, <1>3 DEF HotSequencesIncrease, Increasing, Rising, Known, SameDomain
<1> QED BY <1>4 DEF Goal, PrivateKept, Domains

\* The table is rebuilt from a chain whose numbers increase.
LEMMA RebuildKeeps ==
  ASSUME TypeOK, NEW chain \in Chains, Rising(signed, chain), RebuildFrom(chain),
         UNCHANGED signed,
         events' \in {chain, SubSeq(chain, Overflow(chain) + 1, Len(chain))}
  PROVE  Goal
<1>1. Known(signed, chain, last_sequence')
  BY RebuildKnows
<1>2. Rising(signed, events') /\ Known(signed, events', last_sequence')
  BY <1>1, SpillKeeps DEF Chains
<1>3. HotSequencesIncrease'
  BY <1>2 DEF HotSequencesIncrease, Increasing, Rising, Known, SameDomain
<1>4. ASSUME NEW n \in Nodes, NEW d \in {"dm_message", "signed_write"}
      PROVE  last_sequence'[n][d] >= last_sequence[n][d]
  <2>1. d \in Domains /\ RebuildFloor(n, d) = last_sequence[n][d] /\ last_sequence[n][d] \in Nat
    BY TableTyped DEF RebuildFloor, Domains
  <2>2. last_sequence'[n][d] = Greatest(chain, n, d, last_sequence[n][d])
    BY <2>1 DEF RebuildFrom
  <2>3. Greatest(chain, n, d, last_sequence[n][d]) \in Nat
        /\ last_sequence[n][d] <= Greatest(chain, n, d, last_sequence[n][d])
    BY <2>1, GreatestBounds DEF TypeOK, SignedOK
  <2> QED BY <2>1, <2>2, <2>3
<1> QED BY <1>3, <1>4 DEF Goal, PrivateKept

LEMMA ForkKeeps ==
  ASSUME ChainInv, HotSequencesIncrease, NEW m \in 1 .. MaxForkLen,
         NEW fork \in [1 .. m -> 1 .. Len(signed)], ApplyFork(fork)
  PROVE  Goal
<1> DEFINE at == event_index[signed[fork[1]].prev]
           prefix == SubSeq(events, 1, at)
           chain == prefix \o fork
<1>1. TypeOK /\ IndexCoherent /\ events \in Chains
  BY DEF ChainInv, TypeOK, Chains
<1>2. fork \in Chains
  BY BoundAssumption DEF Chains
<1>3. at \in 1 .. Len(events) /\ Len(events) \in Nat
  <2>1. at \in DOMAIN events
    BY <1>1, ForkRoot
  <2> HIDE DEF at
  <2> QED BY <1>1, <2>1 DEF Chains
<1>4. /\ RebuildFrom(chain) /\ FollowsInSequence(prefix, fork) /\ UNCHANGED signed
      /\ events' = SubSeq(chain, Overflow(chain) + 1, Len(chain))
  BY DEF ApplyFork, Save
<1>5. prefix \in Chains /\ Rising(signed, prefix)
  <2> HIDE DEF at
  <2>1. at \in Int /\ 1 \in Int /\ \A k \in 1 .. at : events[k] \in 1 .. Len(signed)
    BY <1>1, <1>3 DEF Chains
  <2>2. /\ prefix \in Seq(1 .. Len(signed)) /\ Len(prefix) = IF 1 <= at THEN at - 1 + 1 ELSE 0
        /\ \A k \in 1 .. at - 1 + 1 : prefix[k] = events[1 + k - 1]
    BY <2>1, SubSeqProperties
  <2> HIDE DEF prefix
  <2>3. DOMAIN prefix = 1 .. at /\ \A k \in 1 .. at : prefix[k] = events[k] /\ k \in DOMAIN events
    BY <1>1, <1>3, <2>2 DEF Chains
  <2>4. Rising(signed, events)
    BY HotMeans
  <2> QED BY <2>2, <2>3, <2>4 DEF Chains, Rising
<1> HIDE DEF prefix
<1>6. chain \in Chains
  BY <1>2, <1>5, ConcatProperties DEF Chains
<1>7. Rising(signed, chain)
  BY <1>1, <1>2, <1>4, <1>5, ForkRises
<1> HIDE DEF chain
<1> QED BY <1>1, <1>4, <1>6, <1>7, RebuildKeeps

LEMMA HotStep ==
  ASSUME ChainInv, HotSequencesIncrease, [Next]_vars
  PROVE  Goal
<1>1. TypeOK
  BY DEF ChainInv
<1>2. \A n \in Nodes, d \in Domains : last_sequence[n][d] \in Nat /\ last_sequence[n][d] >= last_sequence[n][d]
  BY <1>1, TableTyped
<1>3. CASE UNCHANGED vars
  BY <1>1, <1>2, <1>3, UnchangedGrows, OthersKeep DEF vars
<1>4. CASE Tick
  BY <1>1, <1>2, <1>4, UnchangedGrows, OthersKeep DEF Tick
<1>5. ASSUME NEW n \in Nodes, NEW s \in 1 .. MaxSequence, NEW k \in Kinds, NEW b \in Body(k),
             NEW e, e = MakeEvent(head_hash, k, n, s, b), Sign(e), Extend(NewId, e),
             s > last_sequence[n][DomainOf(k)]
      PROVE  Goal
  <2>1. e \in Event /\ e.seq = s /\ e.node = n /\ e.kind = k
    BY <1>1, <1>5, MakeEventType DEF MakeEvent, TypeOK
  <2>2. Grown /\ NewId \in 1 .. Len(signed') /\ signed'[NewId] = e
    BY <1>1, <1>5, <2>1, SignGrows
  <2> QED BY <1>1, <1>5, <2>1, <2>2, ExtendKeeps
<1>6. ASSUME NEW n \in Nodes, NEW s \in 1 .. MaxSequence, NEW k \in Kinds, NEW b \in Body(k),
             AppendPublic(n, k, s, b)
      PROVE  Goal
  BY <1>5, <1>6 DEF AppendPublic, DomainOf
<1>7. ASSUME NEW n \in Nodes, NEW s \in 1 .. MaxSequence, "gate_message" \in Kinds,
             NEW b \in Body("gate_message"), AppendGate(n, s, b)
      PROVE  Goal
  BY <1>5, <1>7 DEF AppendGate, DomainOf
<1>8. ASSUME NEW n \in Nodes, NEW s \in 1 .. MaxSequence, "dm_message" \in Kinds,
             NEW b \in Body("dm_message"), AppendDm(n, s, b)
      PROVE  Goal
  BY <1>5, <1>8 DEF AppendDm, DomainOf
<1>9. ASSUME NEW n \in Nodes, NEW s \in 1 .. MaxSequence, NEW k \in Kinds,
             NEW prev \in 0 .. Len(signed), NEW b \in Body(k), SignElsewhere(prev, k, n, s, b)
      PROVE  Goal
  <2>1. Grown
    BY <1>1, <1>9, MakeEventType, SignGrows DEF SignElsewhere
  <2> QED BY <1>1, <1>2, <1>9, <2>1, OthersKeep DEF SignElsewhere
<1>10. ASSUME NEW n \in Nodes, NEW s \in 1 .. MaxClaim, ClaimSequence(n, s)
       PROVE  Goal
  <2>1. \A a \in Nodes, d \in Domains :
          last_sequence'[a][d] = IF a = n /\ d = "signed_write" THEN s ELSE last_sequence[a][d]
    BY <1>1, <1>10 DEF ClaimSequence, TypeOK, Domains
  <2>2. s \in Nat /\ s > last_sequence[n]["signed_write"]
    BY <1>10, BoundAssumption DEF ClaimSequence
  <2>3. \A a \in Nodes, d \in Domains :
          last_sequence'[a][d] \in Nat /\ last_sequence'[a][d] >= last_sequence[a][d]
    BY <1>1, <2>1, <2>2, TableTyped
  <2>4. Grown /\ UNCHANGED events
    BY <1>1, <1>10, UnchangedGrows DEF ClaimSequence
  <2> QED BY <1>1, <2>3, <2>4, OthersKeep
<1>11. ASSUME NEW id \in 1 .. Len(signed), Ingest(id)
       PROVE  Goal
  <2>1. Grown /\ id \in 1 .. Len(signed') /\ signed[id] \in Event /\ signed'[id] = signed[id]
    BY <1>1, <1>11, UnchangedGrows DEF Ingest, TypeOK
  <2>2. Extend(id, signed[id]) /\ signed[id].seq > last_sequence[signed[id].node][DomainOf(signed[id].kind)]
    BY <1>11 DEF Ingest, Acceptable
  <2> QED BY <1>1, <2>1, <2>2, ExtendKeeps
<1>12. CASE ResetChain
  BY <1>12 DEF ResetChain, Goal, PrivateKept, HotSequencesIncrease, Increasing
<1>13. CASE Restart
  <2>1. events \in Chains /\ Rising(signed, events)
    BY <1>1, HotMeans DEF TypeOK, Chains
  <2> QED BY <1>1, <1>13, <2>1, RebuildKeeps DEF Restart
<1> QED
  BY <1>3, <1>4, <1>6, <1>7, <1>8, <1>9, <1>10, <1>11, <1>12, <1>13, ForkKeeps DEF Next

------------------------------------------------------------------------------
(* The theorems *)

LEMMA HotInvariant == Spec => [](ChainInv /\ HotSequencesIncrease)
<1>1. Init => ChainInv /\ HotSequencesIncrease
  BY ChainInit DEF Init, HotSequencesIncrease, Increasing
<1>2. (ChainInv /\ HotSequencesIncrease) /\ [Next]_vars => (ChainInv /\ HotSequencesIncrease)'
  BY ChainStep, HotStep DEF Goal
<1> QED BY <1>1, <1>2, PTL DEF Spec

\* No sequence number is on the hot chain twice, and the replay table knows all of
\* them: whatever forks, spills, resets and restarts have rebuilt it.
THEOREM SequencesRise == Spec => []HotSequencesIncrease
BY HotInvariant, PTL

\* Only a reset lowers what the table knows of a private domain.
THEOREM PrivateIsKept == Spec => PrivateSequencesKept
<1>1. ChainInv /\ HotSequencesIncrease /\ [Next]_vars =>
        [events = <<>> \/ events' # <<>> =>
           \A n \in Nodes, d \in {"dm_message", "signed_write"} :
             last_sequence'[n][d] >= last_sequence[n][d]]_vars
  BY HotStep DEF Goal, PrivateKept
<1> QED BY <1>1, HotInvariant, PTL DEF Spec, PrivateSequencesKept

------------------------------------------------------------------------------
(* The DM spool *)

\* The dm_messages to t from the authors A that are active at `clock` on a chain.
Active(sg, chain, clock, t, A) ==
  {i \in DOMAIN chain : /\ sg[chain[i]].kind = "dm_message"
                        /\ sg[chain[i]].body.target = t
                        /\ clock - sg[chain[i]].ts <= SpoolTTL
                        /\ sg[chain[i]].node \in A}

\* sh says the same of a chain's events as sg, which dates them.
Dated(sg, sh, chain) ==
  \A i \in DOMAIN chain : sg[chain[i]].ts \in Nat /\ sh[chain[i]] = sg[chain[i]]

Within(sg, chain, clock, t, A, limit) == Cardinality(Active(sg, chain, clock, t, A)) <= limit

LEMMA SpoolMeans ==
  ASSUME TypeOK
  PROVE  SpoolBounded <=>
           \A t \in Targets :
             /\ Within(signed, events, now, t, Nodes, SpoolLimit)
             /\ \A n \in Nodes : Within(signed, events, now, t, {n}, SpoolSenderLimit)
<1>1. \A i \in DOMAIN events : signed[events[i]].node \in Nodes
  BY EventOnChain DEF TypeOK, SignedOK, Chains, Event
<1>2. \A t : Spool(t) = Active(signed, events, now, t, Nodes)
  BY <1>1 DEF Spool, Active
<1>3. \A t, n : SpoolOf(t, n) = Active(signed, events, now, t, {n})
  BY DEF Spool, SpoolOf, Active
<1> QED BY <1>2, <1>3 DEF SpoolBounded, Within

LEMMA ActiveFinite ==
  ASSUME NEW S, NEW chain \in Seq(S), NEW sg, NEW clock, NEW t, NEW A
  PROVE  /\ IsFiniteSet(Active(sg, chain, clock, t, A))
         /\ Cardinality(Active(sg, chain, clock, t, A)) \in Nat
<1>1. IsFiniteSet(DOMAIN chain)
  <2>1. DOMAIN chain = 1 .. Len(chain) /\ Len(chain) \in Int /\ 1 \in Int
    OBVIOUS
  <2> QED BY <2>1, FS_Interval
<1>2. Active(sg, chain, clock, t, A) \in SUBSET (DOMAIN chain)
  BY DEF Active
<1> QED BY <1>1, <1>2, FS_Subset, FS_CardinalityType

\* A set moved along the naturals, or a part of one, is no larger.
LEMMA Moved ==
  ASSUME NEW S \in SUBSET Nat, NEW T, IsFiniteSet(T), NEW o \in Nat,
         \A i \in S : o + i \in T
  PROVE  IsFiniteSet(S) /\ Cardinality(S) <= Cardinality(T)
<1> DEFINE f == [i \in S |-> o + i]
<1>1. f \in [S -> T]
  OBVIOUS
<1>2. IsInjective(f)
  BY DEF IsInjective
<1>3. f \in Injection(S, T)
  BY <1>1, <1>2 DEF Injection
<1> HIDE DEF f
<1> QED BY <1>3, FS_Injection

\* Events age out of the spool.
LEMMA SpoolAges ==
  ASSUME NEW S, NEW chain \in Seq(S), NEW sg, NEW sh, NEW clock \in Nat, NEW later \in Nat,
         clock <= later, NEW t, NEW A, NEW limit \in Nat,
         Dated(sg, sh, chain), Within(sg, chain, clock, t, A, limit)
  PROVE  Within(sh, chain, later, t, A, limit)
<1> DEFINE old == Active(sg, chain, clock, t, A)
           new == Active(sh, chain, later, t, A)
<1>1. new \in SUBSET old
  <2> SUFFICES ASSUME NEW i \in new PROVE i \in old
    OBVIOUS
  <2>1. i \in DOMAIN chain /\ sh[chain[i]] = sg[chain[i]] /\ later - sg[chain[i]].ts <= SpoolTTL
    BY DEF Active, Dated
  <2>2. clock - sg[chain[i]].ts <= SpoolTTL
    BY <2>1, BoundAssumption DEF Dated
  <2> QED BY <2>1, <2>2 DEF Active
<1>2. IsFiniteSet(old) /\ Cardinality(old) \in Nat
  BY ActiveFinite
<1>3. Cardinality(new) <= Cardinality(old) /\ Cardinality(new) \in Nat
  <2> HIDE DEF old, new
  <2> QED BY <1>1, <1>2, FS_Subset, FS_CardinalityType
<1> QED BY <1>2, <1>3 DEF Within

\* A spill only takes from it.
LEMMA SpoolSpills ==
  ASSUME NEW S, NEW chain \in Seq(S), NEW sg, NEW clock, NEW t, NEW A, NEW limit \in Nat,
         Within(sg, chain, clock, t, A, limit)
  PROVE  Within(sg, SubSeq(chain, Overflow(chain) + 1, Len(chain)), clock, t, A, limit)
<1> DEFINE o == Overflow(chain)
           hot == SubSeq(chain, o + 1, Len(chain))
           old == Active(sg, chain, clock, t, A)
           new == Active(sg, hot, clock, t, A)
<1>1. /\ o \in 0 .. Len(chain) /\ Len(hot) = Len(chain) - o /\ hot \in Seq(S)
      /\ \A i \in 1 .. Len(chain) - o : hot[i] = chain[o + i]
  BY OverflowProps
<1>2. Len(chain) \in Nat /\ DOMAIN chain = 1 .. Len(chain) /\ o \in Nat
  BY <1>1
<1> HIDE DEF o, hot
<1>3. DOMAIN hot = 1 .. Len(chain) - o
  BY <1>1
<1>4. \A i \in DOMAIN hot : o + i \in DOMAIN chain /\ hot[i] = chain[o + i]
  BY <1>1, <1>2, <1>3
<1>5. new \in SUBSET Nat /\ \A i \in new : o + i \in old
  BY <1>3, <1>4 DEF Active
<1>6. /\ IsFiniteSet(old) /\ Cardinality(old) \in Nat
      /\ IsFiniteSet(new) /\ Cardinality(new) \in Nat
  BY <1>1, ActiveFinite
<1>7. Cardinality(new) <= Cardinality(old)
  <2> HIDE DEF old, new
  <2> QED BY <1>2, <1>5, <1>6, Moved
<1> QED BY <1>6, <1>7 DEF Within, o, hot

\* One more event: the limit holds if there was room when it is a dm_message.
LEMMA SpoolTakes ==
  ASSUME NEW S, NEW chain \in Seq(S), NEW sg, NEW clock, NEW t, NEW A, NEW limit \in Nat,
         NEW id \in S, NEW e, sg[id] = e,
         Within(sg, chain, clock, t, A, limit),
         e.kind = "dm_message" /\ e.body.target = t /\ e.node \in A =>
           Cardinality(Active(sg, chain, clock, t, A)) < limit
  PROVE  Within(sg, Append(chain, id), clock, t, A, limit)
<1> DEFINE longer == Append(chain, id)
           old == Active(sg, chain, clock, t, A)
           new == Active(sg, longer, clock, t, A)
           joins == e.kind = "dm_message" /\ e.body.target = t /\ e.node \in A
<1>1. /\ Len(chain) \in Nat /\ DOMAIN chain = 1 .. Len(chain) /\ DOMAIN longer = 1 .. Len(chain) + 1
      /\ \A i \in 1 .. Len(chain) : longer[i] = chain[i]
      /\ longer[Len(chain) + 1] = id /\ longer \in Seq(S)
  OBVIOUS
<1>2. /\ IsFiniteSet(old) /\ Cardinality(old) \in Nat
      /\ IsFiniteSet(new) /\ Cardinality(new) \in Nat
  BY <1>1, ActiveFinite
<1> HIDE DEF longer
<1>3. CASE joins
  <2>1. new \in SUBSET (old \cup {Len(chain) + 1})
    BY <1>1 DEF Active
  <2>2. /\ IsFiniteSet(old \cup {Len(chain) + 1})
        /\ Cardinality(old \cup {Len(chain) + 1}) <= Cardinality(old) + 1
        /\ Cardinality(old \cup {Len(chain) + 1}) \in Nat
    <3> HIDE DEF old
    <3>1. IsFiniteSet(old \cup {Len(chain) + 1})
      BY <1>2, FS_AddElement
    <3>2. \/ Cardinality(old \cup {Len(chain) + 1}) = Cardinality(old)
          \/ Cardinality(old \cup {Len(chain) + 1}) = Cardinality(old) + 1
      BY <1>2, FS_AddElement
    <3>3. Cardinality(old \cup {Len(chain) + 1}) \in Nat
      BY <3>1, FS_CardinalityType
    <3> QED BY <1>2, <3>1, <3>2, <3>3
  <2>3. Cardinality(new) <= Cardinality(old \cup {Len(chain) + 1})
    <3> HIDE DEF old, new
    <3> QED BY <2>1, <2>2, FS_Subset
  <2>4. Cardinality(old) < limit
    BY <1>3
  <2> HIDE DEF old, new
  <2>5. Cardinality(new) <= limit
    BY <1>2, <2>2, <2>3, <2>4
  <2> QED BY <2>5 DEF Within, new, longer
<1>4. CASE ~joins
  <2>1. new \in SUBSET old
    <3> SUFFICES ASSUME NEW i \in new PROVE i \in old
      OBVIOUS
    <3>1. i \in DOMAIN longer /\ (i = Len(chain) + 1 => joins)
      BY <1>1 DEF Active
    <3>2. i \in DOMAIN chain /\ longer[i] = chain[i]
      BY <1>1, <1>4, <3>1
    <3> QED BY <3>2 DEF Active
  <2>2. Cardinality(new) <= Cardinality(old)
    <3> HIDE DEF old, new
    <3> QED BY <1>2, <2>1, FS_Subset
  <2> QED BY <1>2, <2>2 DEF Within, longer
<1> QED BY <1>3, <1>4

\* An event becomes the head, with room for it when it is a dm_message.
LEMMA SpoolExtends ==
  ASSUME TypeOK, SpoolBounded, Grown, NEW id \in 1 .. Len(signed'), NEW e \in Event,
         signed'[id] = e, Extend(id, e), UNCHANGED now,
         e.kind = "dm_message" => SpoolHasRoom(e.body.target, e.node)
  PROVE  SpoolBounded'
<1> DEFINE chain == Append(events, id)
           S == 1 .. Len(signed')
<1>1. /\ events \in Chains /\ events \in Seq(S) /\ now \in Nat /\ now <= now
      /\ SpoolLimit \in Nat /\ SpoolSenderLimit \in Nat
  <2>1. events \in Chains /\ now \in Nat
    BY BoundAssumption DEF TypeOK, Chains
  <2> QED BY <2>1, GrownChains, BoundAssumption DEF Chains
<1>2. \A i \in DOMAIN events : signed[events[i]].ts \in Nat /\ signed'[events[i]] = signed[events[i]]
  <2>1. \A i \in DOMAIN events : events[i] \in 1 .. Len(signed) /\ signed[events[i]] \in Event
    BY <1>1, EventOnChain DEF TypeOK, SignedOK
  <2>2. \A f \in Event : f.ts \in Nat
    BY BoundAssumption DEF Event
  <2> QED BY <2>1, <2>2 DEF Grown
<1>3. ASSUME NEW t, NEW A, NEW limit \in Nat, Within(signed, events, now, t, A, limit),
             e.kind = "dm_message" /\ e.body.target = t /\ e.node \in A =>
               Cardinality(Active(signed, events, now, t, A)) < limit
      PROVE  Within(signed', events', now', t, A, limit)
  <2>1. Active(signed', events, now, t, A) = Active(signed, events, now, t, A)
    BY <1>2 DEF Active
  <2>2. Within(signed', chain, now, t, A, limit)
    <3> HIDE DEF S
    <3> QED BY <1>1, <1>3, <2>1, SpoolTakes DEF Within, S
  <2>3. chain \in Seq(S) /\ events' = SubSeq(chain, Overflow(chain) + 1, Len(chain))
    BY <1>1 DEF Extend, Save
  <2> HIDE DEF chain, S
  <2> QED BY <1>3, <2>2, <2>3, SpoolSpills
<1>4. ASSUME e.kind = "dm_message"
      PROVE  /\ Cardinality(Active(signed, events, now, e.body.target, Nodes)) < SpoolLimit
             /\ Cardinality(Active(signed, events, now, e.body.target, {e.node})) < SpoolSenderLimit
  <2>1. \A i \in DOMAIN events : signed[events[i]].node \in Nodes
    BY <1>1, EventOnChain DEF TypeOK, SignedOK, Event
  <2>2. Spool(e.body.target) = Active(signed, events, now, e.body.target, Nodes)
    BY <2>1 DEF Spool, Active
  <2>3. SpoolOf(e.body.target, e.node) = Active(signed, events, now, e.body.target, {e.node})
    BY DEF Spool, SpoolOf, Active
  <2> QED BY <1>4, <2>2, <2>3 DEF SpoolHasRoom
<1>5. ASSUME NEW t \in Targets PROVE Within(signed', events', now', t, Nodes, SpoolLimit)
  BY <1>1, <1>3, <1>4, SpoolMeans
<1>6. ASSUME NEW t \in Targets, NEW n \in Nodes
      PROVE  Within(signed', events', now', t, {n}, SpoolSenderLimit)
  <2>1. e.node \in {n} => e.node = n
    OBVIOUS
  <2>2. Within(signed, events, now, t, {n}, SpoolSenderLimit)
    BY SpoolMeans
  <2> QED BY <1>1, <1>3, <1>4, <2>1, <2>2
<1>7. \A i \in DOMAIN events' : signed'[events'[i]].node \in Nodes
  <2>1. chain \in Seq(S) /\ events' = SubSeq(chain, Overflow(chain) + 1, Len(chain))
    BY <1>1 DEF Extend, Save
  <2>2. events' \in Seq(S)
    <3> HIDE DEF chain, S
    <3> QED BY <2>1, OverflowProps
  <2>3. signed' \in Seq(Event)
    BY DEF Grown
  <2> SUFFICES ASSUME NEW i \in DOMAIN events' PROVE signed'[events'[i]] \in Event
    BY DEF Event
  <2>4. events'[i] \in S
    <3> HIDE DEF S
    <3> QED BY <2>2
  <2> QED BY <2>3, <2>4
<1>8. \A t : Spool(t)' = Active(signed', events', now', t, Nodes)
  BY <1>7 DEF Spool, Active
<1>9. \A t, n : SpoolOf(t, n)' = Active(signed', events', now', t, {n})
  BY DEF Spool, SpoolOf, Active
<1> QED BY <1>5, <1>6, <1>8, <1>9 DEF SpoolBounded, Within

\* The clock advances, or something else signs.
LEMMA SpoolWaits ==
  ASSUME TypeOK, SpoolBounded, Grown, UNCHANGED events, now' \in Nat, now <= now'
  PROVE  SpoolBounded'
<1>1. events \in Chains /\ now \in Nat /\ SpoolLimit \in Nat /\ SpoolSenderLimit \in Nat
  BY BoundAssumption DEF TypeOK, Chains
<1>2. \A i \in DOMAIN events : /\ signed[events[i]].ts \in Nat /\ signed[events[i]].node \in Nodes
                              /\ signed'[events[i]] = signed[events[i]]
  <2>1. \A i \in DOMAIN events : events[i] \in 1 .. Len(signed) /\ signed[events[i]] \in Event
    BY <1>1, EventOnChain DEF TypeOK, SignedOK
  <2>2. \A f \in Event : f.ts \in Nat /\ f.node \in Nodes
    BY BoundAssumption DEF Event
  <2> QED BY <2>1, <2>2 DEF Grown
<1>3. ASSUME NEW t, NEW A, NEW limit \in Nat, Within(signed, events, now, t, A, limit)
      PROVE  Within(signed', events, now', t, A, limit)
  <2>1. Dated(signed, signed', events)
    BY <1>2 DEF Dated
  <2>2. events \in Seq(1 .. Len(signed))
    BY <1>1 DEF Chains
  <2> QED BY <1>1, <1>3, <2>1, <2>2, SpoolAges
<1>4. \A t \in Targets :
        /\ Within(signed', events, now', t, Nodes, SpoolLimit)
        /\ \A n \in Nodes : Within(signed', events, now', t, {n}, SpoolSenderLimit)
  BY <1>1, <1>3, SpoolMeans
<1>5. /\ \A t : Spool(t)' = Active(signed', events, now', t, Nodes)
      /\ \A t, n : SpoolOf(t, n)' = Active(signed', events, now', t, {n})
  BY <1>2 DEF Spool, SpoolOf, Active
<1> QED BY <1>4, <1>5 DEF SpoolBounded, Within

\* No fork is ever applied: no proposal finds its quorum of proofs.
NoForks == MaxForkLen = 0

LEMMA SpoolStep ==
  ASSUME NoForks, ChainInv, SpoolBounded, [Next]_vars
  PROVE  SpoolBounded'
<1>1. TypeOK /\ now \in Nat
  BY BoundAssumption DEF ChainInv, TypeOK
<1>2. ASSUME NEW n \in Nodes, NEW s \in 1 .. MaxSequence, NEW k \in Kinds, NEW b \in Body(k),
             NEW e, e = MakeEvent(head_hash, k, n, s, b), Sign(e), Extend(NewId, e),
             k = "dm_message" => SpoolHasRoom(b.target, n), UNCHANGED now
      PROVE  SpoolBounded'
  <2>1. e \in Event /\ e.body = b /\ e.node = n /\ e.kind = k
    BY <1>1, <1>2, MakeEventType DEF MakeEvent, TypeOK
  <2>2. Grown /\ NewId \in 1 .. Len(signed') /\ signed'[NewId] = e
    BY <1>1, <1>2, <2>1, SignGrows
  <2> QED BY <1>1, <1>2, <2>1, <2>2, SpoolExtends
<1>3. CASE UNCHANGED vars
  BY <1>1, <1>3, UnchangedGrows, SpoolWaits DEF vars
<1>4. CASE Tick
  BY <1>1, <1>4, UnchangedGrows, SpoolWaits DEF Tick
<1>5. ASSUME NEW n \in Nodes, NEW s \in 1 .. MaxSequence, NEW k \in Kinds, NEW b \in Body(k),
             AppendPublic(n, k, s, b)
      PROVE  SpoolBounded'
  BY <1>2, <1>5 DEF AppendPublic
<1>6. ASSUME NEW n \in Nodes, NEW s \in 1 .. MaxSequence, "gate_message" \in Kinds,
             NEW b \in Body("gate_message"), AppendGate(n, s, b)
      PROVE  SpoolBounded'
  BY <1>2, <1>6 DEF AppendGate
<1>7. ASSUME NEW n \in Nodes, NEW s \in 1 .. MaxSequence, "dm_message" \in Kinds,
             NEW b \in Body("dm_message"), AppendDm(n, s, b)
      PROVE  SpoolBounded'
  BY <1>2, <1>7 DEF AppendDm
<1>8. ASSUME NEW n \in Nodes, NEW s \in 1 .. MaxSequence, NEW k \in Kinds,
             NEW prev \in 0 .. Len(signed), NEW b \in Body(k), SignElsewhere(prev, k, n, s, b)
      PROVE  SpoolBounded'
  <2>1. Grown
    BY <1>1, <1>8, MakeEventType, SignGrows DEF SignElsewhere
  <2> QED BY <1>1, <1>8, <2>1, SpoolWaits DEF SignElsewhere
<1>9. ASSUME NEW n \in Nodes, NEW s \in 1 .. MaxClaim, ClaimSequence(n, s)
      PROVE  SpoolBounded'
  BY <1>1, <1>9, UnchangedGrows, SpoolWaits DEF ClaimSequence
<1>10. ASSUME NEW id \in 1 .. Len(signed), Ingest(id)
       PROVE  SpoolBounded'
  <2>1. Grown /\ id \in 1 .. Len(signed') /\ signed[id] \in Event /\ signed'[id] = signed[id]
    BY <1>1, <1>10, UnchangedGrows DEF Ingest, TypeOK
  <2>2. /\ Extend(id, signed[id]) /\ UNCHANGED now
        /\ signed[id].kind = "dm_message" => SpoolHasRoom(signed[id].body.target, signed[id].node)
    BY <1>10 DEF Ingest, Acceptable
  <2> QED BY <1>1, <2>1, <2>2, SpoolExtends
<1>11. CASE ResetChain
  <2>1. events' = <<>>
    BY <1>11 DEF ResetChain
  <2>2. \A t, n : Spool(t)' = {} /\ SpoolOf(t, n)' = {}
    BY <2>1 DEF Spool, SpoolOf
  <2> QED BY <2>2, FS_EmptySet, BoundAssumption DEF SpoolBounded
<1>12. CASE Restart
  BY <1>1, <1>12, UnchangedGrows, SpoolWaits DEF Restart
<1>13. 1 .. MaxForkLen = {}
  BY DEF NoForks
<1> QED
  BY <1>3, <1>4, <1>5, <1>6, <1>7, <1>8, <1>9, <1>10, <1>11, <1>12, <1>13 DEF Next

\* Without forks, which do not look at the spool, no mailbox holds more active
\* dm_messages than its limits: appends and ingests keep them, whatever the dates of
\* what they bring, and spills, resets, restarts and the clock only take from it.
THEOREM SpoolIsBounded ==
  ASSUME NoForks
  PROVE  Spec => []SpoolBounded
<1>1. Init => SpoolBounded
  <2>1. Init => \A t, n : Spool(t) = {} /\ SpoolOf(t, n) = {}
    BY DEF Init, Spool, SpoolOf
  <2> QED BY <2>1, FS_EmptySet, BoundAssumption DEF SpoolBounded
<1>2. ChainInv /\ SpoolBounded /\ [Next]_vars => SpoolBounded'
  BY SpoolStep
<1> QED BY <1>1, <1>2, ChainInvariant, PTL DEF Spec

------------------------------------------------------------------------------
(* Revocations *)

\* The hot window can hold every event there will be: nothing is ever archived.
NeverSpills == MaxEvents <= MaxChainMemory

\* A chain without repetitions is no longer than what it is made of.
LEMMA DistinctFits ==
  ASSUME NEW m \in Nat, NEW chain \in Seq(1 .. m), Distinct(chain)
  PROVE  Len(chain) <= m
<1>1. Len(chain) \in Nat /\ DOMAIN chain = 1 .. Len(chain) /\ chain \in [1 .. Len(chain) -> 1 .. m]
  OBVIOUS
<1>2. chain \in Injection(1 .. Len(chain), 1 .. m)
  BY <1>1 DEF Injection, IsInjective, Distinct
<1>3. /\ IsFiniteSet(1 .. m) /\ Cardinality(1 .. m) = m
      /\ Cardinality(1 .. Len(chain)) = Len(chain)
  <2>1. 1 \in Int /\ m \in Int /\ Len(chain) \in Int
    BY <1>1
  <2>2. \A k \in Nat : (1 > k => k = 0) /\ k - 1 + 1 = k
    OBVIOUS
  <2>3. /\ IsFiniteSet(1 .. m) /\ Cardinality(1 .. m) = IF 1 > m THEN 0 ELSE m - 1 + 1
        /\ Cardinality(1 .. Len(chain)) = IF 1 > Len(chain) THEN 0 ELSE Len(chain) - 1 + 1
    BY <2>1, FS_Interval
  <2> QED BY <1>1, <2>2, <2>3
<1> QED BY <1>2, <1>3, FS_Injection

LEMMA NothingSpilled ==
  ASSUME NeverSpills, ChainInv
  PROVE  cold = <<>>
<1>1. SUFFICES ASSUME cold # <<>> PROVE FALSE
  OBVIOUS
<1>2. /\ cold \in Seq(1 .. Len(signed)) /\ events \in Seq(1 .. Len(signed))
      /\ Len(signed) \in Nat /\ Len(signed) <= MaxEvents
  BY DEF ChainInv, TypeOK
<1>3. /\ Full \in Seq(1 .. Len(signed)) /\ Len(Full) = Len(cold) + Len(events)
      /\ Len(cold) \in Nat /\ Len(cold) # 0
  BY <1>1, <1>2, ConcatProperties DEF Full
<1>4. Distinct(Full)
  BY DEF ChainInv, IndexCoherent, Distinct
<1>5. Len(Full) <= Len(signed)
  BY <1>2, <1>3, <1>4, DistinctFits
<1>6. Len(events) = MaxChainMemory
  BY <1>1 DEF ChainInv, HotWindowFull
<1> QED BY <1>2, <1>3, <1>5, <1>6, BoundAssumption DEF NeverSpills

\* The invariant holds of every state, so nothing is archived in any.
LEMMA ArchiveStaysEmpty ==
  ASSUME NeverSpills
  PROVE  Spec => [](ChainInv /\ cold = <<>>)
<1>1. ChainInv => cold = <<>>
  BY NothingSpilled
<1> QED BY <1>1, ChainInvariant, PTL

Hot == TypeOK /\ cold = <<>>

LEMMA RevokesHot ==
  ASSUME Hot
  PROVE  /\ Full = events /\ events \in Seq(1 .. Len(signed))
         /\ \A i \in DOMAIN events : /\ events[i] \in 1 .. Len(signed)
                                    /\ signed[events[i]].body.at \in 0 .. MaxTime
         /\ RevocationsCoherent <=> \A n \in Nodes : revocations[n] = InForce(signed, events, n)
<1>1. Full = events /\ events \in Seq(1 .. Len(signed))
  BY DEF Hot, TypeOK, Full
<1>2. \A i \in DOMAIN events : /\ events[i] \in 1 .. Len(signed)
                              /\ signed[events[i]].body.at \in 0 .. MaxTime
  BY <1>1, EventOnChain DEF Hot, TypeOK, SignedOK, Chains, Event
<1> QED BY <1>1, <1>2, RevocationIs DEF RevocationsCoherent

\* Signing leaves what the chain revokes as it was.
LEMMA GrownInForce ==
  ASSUME Hot, Grown, NEW n
  PROVE  /\ RevokesIn(signed', events, n) = RevokesIn(signed, events, n)
         /\ InForce(signed', events, n) = InForce(signed, events, n)
<1>1. \A i \in DOMAIN events : signed'[events[i]] = signed[events[i]]
  BY RevokesHot DEF Grown
<1>2. RevokesIn(signed', events, n) = RevokesIn(signed, events, n)
  BY <1>1 DEF RevokesIn
<1>3. InForce(signed', events, n) = InForce(signed, events, n)
  <2> DEFINE R == RevokesIn(signed, events, n)
  <2>1. R \subseteq DOMAIN events
    BY DEF RevokesIn
  <2>2. \A i \in R : Newest(signed', events, n, i) <=> Newest(signed, events, n, i)
    BY <1>1, <1>2, <2>1 DEF Newest
  <2>3. CASE R = {}
    BY <1>2, <2>3 DEF InForce
  <2>4. CASE R # {}
    <3>1. /\ \A i \in DOMAIN events : signed[events[i]].body.at \in 0 .. MaxTime
          /\ \A i \in DOMAIN events : signed'[events[i]].body.at \in 0 .. MaxTime
          /\ events \in Seq(1 .. Len(signed))
      BY <1>1, RevokesHot
    <3>2. PICK i \in R : Newest(signed, events, n, i)
      BY <2>4, <3>1, NewestExists
    <3>3. InForce(signed, events, n) = events[i]
      BY <3>1, <3>2, NewestIsInForce
    <3>4. i \in RevokesIn(signed', events, n) /\ Newest(signed', events, n, i)
      BY <1>2, <2>2, <3>2
    <3>5. InForce(signed', events, n) = events[i]
      BY <3>1, <3>4, NewestIsInForce
    <3> QED BY <3>3, <3>5
  <2> QED BY <2>3, <2>4
<1> QED BY <1>2, <1>3

\* A step that leaves the chain and its revocations alone.
LEMMA RevocationsStay ==
  ASSUME Hot, Grown, RevocationsCoherent, UNCHANGED <<events, cold, revocations>>
  PROVE  RevocationsCoherent'
<1>4. \A n \in Nodes : revocations[n] = InForce(signed', events', n)
  BY RevokesHot, GrownInForce
<1>5. Full' = events'
  BY RevokesHot DEF Full, Hot
<1>6. \A n : RevocationOf(Full, n)' = InForce(signed', events', n)
  BY <1>5 DEF RevocationOf, Revokes, InForce, RevokesIn, Newest
<1> QED BY <1>4, <1>6 DEF RevocationsCoherent

\* An event joins a chain: what is in force then.
LEMMA RevocationJoins ==
  ASSUME NEW S, NEW chain \in Seq(S), NEW sg, NEW id \in S, NEW n,
         \A i \in DOMAIN chain : sg[chain[i]].body.at \in 0 .. MaxTime,
         sg[id].body.at \in 0 .. MaxTime
  PROVE  InForce(sg, Append(chain, id), n) =
           IF /\ sg[id].kind = "key_revoke" /\ sg[id].node = n
              /\ \/ RevokesIn(sg, chain, n) = {}
                 \/ sg[id].body.at >= sg[InForce(sg, chain, n)].body.at
           THEN id ELSE InForce(sg, chain, n)
<1> DEFINE longer == Append(chain, id)
           last == Len(chain) + 1
           R == RevokesIn(sg, chain, n)
           joins == sg[id].kind = "key_revoke" /\ sg[id].node = n
<1>1. /\ Len(chain) \in Nat /\ DOMAIN chain = 1 .. Len(chain) /\ DOMAIN longer = 1 .. last
      /\ \A i \in DOMAIN chain : longer[i] = chain[i] /\ i < last
      /\ longer[last] = id /\ longer \in Seq(S) /\ last \in Nat
      /\ \A i \in 1 .. last : i = last \/ i \in DOMAIN chain
      /\ last \in 1 .. last /\ \A i \in DOMAIN chain : i \in 1 .. last /\ i \in Nat
  OBVIOUS
<1> HIDE DEF longer, last
<1>2. \A i \in DOMAIN longer : sg[longer[i]].body.at \in 0 .. MaxTime
  BY <1>1
<1>3. RevokesIn(sg, longer, n) = IF joins THEN R \cup {last} ELSE R
  <2>1. \A i : i \in RevokesIn(sg, longer, n) <=> i \in R \/ (joins /\ i = last)
    BY <1>1 DEF RevokesIn
  <2> HIDE DEF R, joins
  <2> QED BY <2>1
<1>4. R \subseteq DOMAIN chain
  BY DEF RevokesIn
<1>5. CASE ~joins
  <2>1. CASE R = {}
    BY <1>3, <1>5, <2>1 DEF InForce, longer
  <2>2. CASE R # {}
    <3>1. PICK i \in R : Newest(sg, chain, n, i)
      BY <2>2, NewestExists
    <3>2. i \in RevokesIn(sg, longer, n) /\ Newest(sg, longer, n, i)
      BY <1>1, <1>3, <1>4, <1>5, <3>1 DEF Newest
    <3>3. InForce(sg, longer, n) = longer[i] /\ InForce(sg, chain, n) = chain[i]
      BY SMTT(30), <1>1, <1>2, <3>1, <3>2, NewestIsInForce
    <3> QED BY <1>1, <1>4, <1>5, <3>1, <3>3 DEF longer
  <2> QED BY <2>1, <2>2
<1>6. CASE joins /\ R = {}
  <2>1. last \in RevokesIn(sg, longer, n) /\ Newest(sg, longer, n, last)
    BY <1>1, <1>3, <1>6 DEF Newest
  <2>2. InForce(sg, longer, n) = id
    BY <1>1, <1>2, <2>1, NewestIsInForce
  <2> QED BY <1>6, <2>2 DEF longer
<1>7. CASE joins /\ R # {}
  <2>1. PICK i \in R : Newest(sg, chain, n, i)
    BY <1>7, NewestExists
  <2>2. InForce(sg, chain, n) = chain[i] /\ i \in DOMAIN chain /\ longer[i] = chain[i]
    BY <1>1, <1>4, <2>1, NewestIsInForce
  <2>3. \A j \in R : /\ longer[j] = chain[j] /\ j <= last
                      /\ sg[chain[j]].body.at \in Int
    BY <1>1, <1>4
  <2>4. sg[id].body.at \in Int /\ sg[chain[i]].body.at \in Int
    BY <2>3
  <2>5. CASE sg[id].body.at >= sg[chain[i]].body.at
    <3>1. \A j \in R : sg[chain[j]].body.at <= sg[id].body.at
      BY <2>1, <2>3, <2>4, <2>5 DEF Newest
    <3>2. last \in RevokesIn(sg, longer, n) /\ Newest(sg, longer, n, last)
      BY <1>1, <1>3, <1>7, <2>3, <2>4, <3>1 DEF Newest
    <3>3. InForce(sg, longer, n) = id
      BY <1>1, <1>2, <3>2, NewestIsInForce
    <3> QED BY <1>7, <2>2, <2>5, <3>3 DEF longer
  <2>6. CASE ~ (sg[id].body.at >= sg[chain[i]].body.at)
    <3>1. sg[id].body.at < sg[chain[i]].body.at
      BY <2>4, <2>6
    <3>2. i \in RevokesIn(sg, longer, n) /\ Newest(sg, longer, n, i)
      BY <1>1, <1>3, <1>7, <2>1, <2>2, <2>3, <3>1 DEF Newest
    <3>3. InForce(sg, longer, n) = chain[i]
      BY <1>1, <1>2, <2>2, <3>2, NewestIsInForce
    <3> QED BY <1>7, <2>2, <2>6, <3>3 DEF longer
  <2> QED BY <2>5, <2>6
<1> QED BY <1>5, <1>6, <1>7

\* What is in force is Genesis where nothing is revoked, and an event elsewhere.
LEMMA InForceIs ==
  ASSUME Hot, NEW n
  PROVE  /\ RevokesIn(signed, events, n) = {} => InForce(signed, events, n) = Genesis
         /\ RevokesIn(signed, events, n) # {} =>
              InForce(signed, events, n) \in 1 .. Len(signed)
<1>1. CASE RevokesIn(signed, events, n) = {}
  BY <1>1 DEF InForce
<1>2. CASE RevokesIn(signed, events, n) # {}
  <2>1. PICK i \in RevokesIn(signed, events, n) : Newest(signed, events, n, i)
    BY <1>2, RevokesHot, NewestExists
  <2>2. InForce(signed, events, n) = events[i] /\ i \in DOMAIN events
    BY <2>1, RevokesHot, NewestIsInForce DEF RevokesIn
  <2> QED BY <1>2, <2>2, RevokesHot
<1> QED BY <1>1, <1>2

\* An event becomes the head, and a revocation replaces the one in force when it is
\* dated no earlier.
LEMMA RevocationsExtend ==
  ASSUME Hot, cold' = <<>>, Grown, RevocationsCoherent, NEW id \in 1 .. Len(signed'),
         NEW e \in Event, signed'[id] = e, Extend(id, e)
  PROVE  RevocationsCoherent'
<1> DEFINE chain == Append(events, id)
           S == 1 .. Len(signed')
<1>1. /\ events \in Seq(S) /\ chain \in Seq(S) /\ Len(events) <= Len(chain)
  BY GrownChains DEF Hot, TypeOK, Chains
<1>2. Full' = chain /\ Full' = events'
  <2>1. Full' = cold \o chain
    <3>1. Save(chain, [event_index EXCEPT ![id] = Len(chain)])
      BY DEF Extend
    <3> HIDE DEF chain
    <3> QED BY <1>1, <3>1, SavedChain DEF Hot
  <2>2. cold \o chain = chain
    <3> HIDE DEF chain
    <3> QED BY <1>1 DEF Hot
  <2>3. events' = SubSeq(chain, Overflow(chain) + 1, Len(chain)) /\ Full' = cold' \o events'
    BY DEF Extend, Save, Full
  <2>4. events' \in Seq(S)
    <3> HIDE DEF chain, S
    <3> QED BY <1>1, <2>3, OverflowProps
  <2>5. cold' \o events' = events'
    BY <2>4
  <2> QED BY <2>1, <2>2, <2>3, <2>5
<1>3. /\ \A i \in DOMAIN events : signed'[events[i]].body.at \in 0 .. MaxTime
      /\ signed'[id].body.at \in 0 .. MaxTime
  <2>1. \A i \in DOMAIN events : signed'[events[i]].body.at \in 0 .. MaxTime
    BY RevokesHot DEF Grown
  <2> QED BY <2>1 DEF Event
<1>4. ASSUME NEW n \in Nodes
      PROVE  revocations'[n] = InForce(signed', chain, n)
  <2> DEFINE r == InForce(signed, events, n)
             R == RevokesIn(signed, events, n)
  <2>1. /\ InForce(signed', events, n) = r /\ RevokesIn(signed', events, n) = R
        /\ revocations[n] = r
    BY GrownInForce, RevokesHot
  <2>2. InForce(signed', chain, n) =
          IF /\ e.kind = "key_revoke" /\ e.node = n
             /\ R = {} \/ e.body.at >= signed'[r].body.at
          THEN id ELSE r
    <3> HIDE DEF S, R, r
    <3>1. id \in S /\ events \in Seq(S)
      BY <1>1 DEF S
    <3> QED BY <1>3, <2>1, <3>1, RevocationJoins
  <2>3. R = {} <=> r = Genesis
    BY InForceIs DEF Genesis
  <2>4. R # {} => signed'[r] = signed[r]
    BY InForceIs DEF Grown
  <2>5. revocations'[n] = IF e.kind = "key_revoke" /\ e.node = n /\ Supersedes(e, n)
                          THEN id ELSE revocations[n]
    <3>1. revocations \in [Nodes -> 0 .. Len(signed)] /\ e.node \in Nodes
      BY DEF Hot, TypeOK, Event
    <3>2. revocations' = IF e.kind = "key_revoke" /\ Supersedes(e, e.node)
                         THEN [revocations EXCEPT ![e.node] = id] ELSE revocations
      BY DEF Extend
    <3> QED BY <3>1, <3>2
  <2>6. Supersedes(e, n) <=> r = Genesis \/ e.body.at >= signed[r].body.at
    BY <2>1 DEF Supersedes
  <2> HIDE DEF r, R, chain
  <2> QED BY <2>1, <2>2, <2>3, <2>4, <2>5, <2>6
<1>5. \A n : RevocationOf(Full, n)' = InForce(signed', Full', n)
  BY DEF RevocationOf, Revokes, InForce, RevokesIn, Newest
<1> QED BY <1>2, <1>4, <1>5 DEF RevocationsCoherent

\* The revocations are rebuilt from what becomes the chain.
LEMMA RevocationsRebuilt ==
  ASSUME Hot, NEW chain \in Chains, RebuildFrom(chain), UNCHANGED signed, Full' = chain
  PROVE  RevocationsCoherent'
<1>1. \A n \in Nodes : revocations'[n] = RevocationOf(chain, n)
  BY DEF RebuildFrom
<1>2. \A n : RevocationOf(Full, n)' = InForce(signed', Full', n)
  BY DEF RevocationOf, Revokes, InForce, RevokesIn, Newest
<1> QED BY <1>1, <1>2, RevocationIs DEF RevocationsCoherent

LEMMA RevocationStep ==
  ASSUME ChainInv, cold = <<>>, cold' = <<>>, RevocationsCoherent, [Next]_vars
  PROVE  RevocationsCoherent'
<1>1. TypeOK /\ Hot
  BY DEF ChainInv, Hot
<1>2. ASSUME NEW n \in Nodes, NEW s \in 1 .. MaxSequence, NEW k \in Kinds, NEW b \in Body(k),
             NEW e, e = MakeEvent(head_hash, k, n, s, b), Sign(e), Extend(NewId, e)
      PROVE  RevocationsCoherent'
  <2>1. e \in Event
    BY <1>1, <1>2, MakeEventType DEF TypeOK
  <2>2. Grown /\ NewId \in 1 .. Len(signed') /\ signed'[NewId] = e
    BY <1>1, <1>2, <2>1, SignGrows
  <2> QED BY <1>1, <1>2, <2>1, <2>2, RevocationsExtend
<1>3. CASE UNCHANGED vars
  BY <1>1, <1>3, UnchangedGrows, RevocationsStay DEF vars
<1>4. CASE Tick
  BY <1>1, <1>4, UnchangedGrows, RevocationsStay DEF Tick
<1>5. ASSUME NEW n \in Nodes, NEW s \in 1 .. MaxSequence, NEW k \in Kinds, NEW b \in Body(k),
             AppendPublic(n, k, s, b)
      PROVE  RevocationsCoherent'
  BY <1>2, <1>5 DEF AppendPublic
<1>6. ASSUME NEW n \in Nodes, NEW s \in 1 .. MaxSequence, "gate_message" \in Kinds,
             NEW b \in Body("gate_message"), AppendGate(n, s, b)
      PROVE  RevocationsCoherent'
  BY <1>2, <1>6 DEF AppendGate
<1>7. ASSUME NEW n \in Nodes, NEW s \in 1 .. MaxSequence, "dm_message" \in Kinds,
             NEW b \in Body("dm_message"), AppendDm(n, s, b)
      PROVE  RevocationsCoherent'
  BY <1>2, <1>7 DEF AppendDm
<1>8. ASSUME NEW n \in Nodes, NEW s \in 1 .. MaxSequence, NEW k \in Kinds,
             NEW prev \in 0 .. Len(signed), NEW b \in Body(k), SignElsewhere(prev, k, n, s, b)
      PROVE  RevocationsCoherent'
  <2>1. Grown
    BY <1>1, <1>8, MakeEventType, SignGrows DEF SignElsewhere
  <2> QED BY <1>1, <1>8, <2>1, RevocationsStay DEF SignElsewhere
<1>9. ASSUME NEW n \in Nodes, NEW s \in 1 .. MaxClaim, ClaimSequence(n, s)
      PROVE  RevocationsCoherent'
  BY <1>1, <1>9, UnchangedGrows, RevocationsStay DEF ClaimSequence
<1>10. ASSUME NEW id \in 1 .. Len(signed), Ingest(id)
       PROVE  RevocationsCoherent'
  <2>1. Grown /\ id \in 1 .. Len(signed') /\ signed[id] \in Event /\ signed'[id] = signed[id]
    BY <1>1, <1>10, UnchangedGrows DEF Ingest, TypeOK
  <2>2. Extend(id, signed[id])
    BY <1>10 DEF Ingest
  <2> QED BY <1>1, <2>1, <2>2, RevocationsExtend
<1>11. ASSUME NEW m \in 1 .. MaxForkLen, NEW fork \in [1 .. m -> 1 .. Len(signed)], ApplyFork(fork)
       PROVE  RevocationsCoherent'
  <2> DEFINE at == event_index[signed[fork[1]].prev]
             prefix == SubSeq(events, 1, at)
             chain == prefix \o fork
  <2>1. RebuildFrom(chain) /\ Save(chain, IndexOf(chain)) /\ UNCHANGED signed /\ Grown
    BY <1>1, <1>11, UnchangedGrows DEF ApplyFork
  <2>2. fork \in Chains /\ events \in Chains
    BY <1>1, BoundAssumption DEF Chains, TypeOK
  <2>3. at \in 1 .. Len(events)
    BY <1>11, ForkStep
  <2>4. chain \in Chains
    <3>1. at \in Int /\ 1 \in Int /\ \A k \in 1 .. at : events[k] \in 1 .. Len(signed)
      <4> HIDE DEF at
      <4> QED BY <2>2, <2>3 DEF Chains
    <3> HIDE DEF at
    <3>2. prefix \in Seq(1 .. Len(signed))
      BY <3>1, SubSeqProperties
    <3> HIDE DEF prefix
    <3> QED BY <2>2, <3>2, ConcatProperties DEF Chains
  <2> HIDE DEF chain
  <2>5. Full' = cold \o chain
    <3>1. chain \in Seq(1 .. Len(signed'))
      BY <2>1, <2>4 DEF Chains
    <3> QED BY <1>1, <2>1, <3>1, SavedChain
  <2>6. cold \o chain = chain
    BY <2>4 DEF Chains
  <2> QED BY <1>1, <2>1, <2>4, <2>5, <2>6, RevocationsRebuilt
<1>12. CASE ResetChain
  <2>1. Full' = <<>> /\ \A n \in Nodes : revocations'[n] = Genesis
    BY <1>12 DEF ResetChain, Full
  <2> QED BY <2>1 DEF RevocationsCoherent, RevocationOf, Revokes
<1>13. CASE Restart
  <2>1. RebuildFrom(events) /\ UNCHANGED signed /\ Full' = events /\ events \in Chains
    BY <1>1, <1>13, RevokesHot DEF Restart, Full, Chains
  <2> QED BY <1>1, <2>1, RevocationsRebuilt
<1> QED
  BY <1>3, <1>4, <1>5, <1>6, <1>7, <1>8, <1>9, <1>10, <1>11, <1>12, <1>13 DEF Next

\* As long as nothing is archived, the revocations the handlers keep event by event
\* are those a rebuild from the whole chain finds, in whatever order of their dates
\* they arrive and whatever a fork replaces.  An archive ends that: a rebuild reads
\* the hot window only.
THEOREM RevocationsAgree ==
  ASSUME NeverSpills
  PROVE  Spec => []RevocationsCoherent
<1>1. Init => RevocationsCoherent
  BY DEF Init, RevocationsCoherent, RevocationOf, Revokes, Full
<1>2. /\ ChainInv /\ cold = <<>> /\ (ChainInv /\ cold = <<>>)'
      /\ RevocationsCoherent /\ [Next]_vars
      => RevocationsCoherent'
  BY RevocationStep
<1> QED BY <1>1, <1>2, ArchiveStaysEmpty, PTL DEF Spec
=============================================================================
