------------------------- MODULE InfonetStoreProofs -------------------------
(***************************************************************************)
(* Theorems about InfonetStore, for every value of its constants.          *)
(***************************************************************************)
EXTENDS InfonetStore, SequenceTheorems, TLAPS

------------------------------------------------------------------------------
(* Prefixes *)

\* An element that joins a sequence leaves what is there as it was.
LEMMA Appended ==
  ASSUME NEW A, NEW c \in Seq(A), NEW e \in A
  PROVE  /\ Append(c, e) \in Seq(A) /\ Len(Append(c, e)) = Len(c) + 1
         /\ Append(c, e)[Len(c) + 1] = e
         /\ \A i \in 1 .. Len(c) : Append(c, e)[i] = c[i]
OBVIOUS

\* A prefix, position by position.
LEMMA PrefixIs ==
  ASSUME NEW A, NEW c \in Seq(A), NEW d \in Seq(A)
  PROVE  IsPrefix(c, d) <=> Len(c) <= Len(d) /\ \A i \in 1 .. Len(c) : d[i] = c[i]
<1>1. SubSeq(c, 1, Len(c)) = c
  OBVIOUS
<1>2. CASE Len(c) <= Len(d)
  <2>1. SubSeq(d, 1, Len(c)) = [i \in 1 .. Len(c) |-> d[i]]
    BY <1>2
  <2>2. c = [i \in 1 .. Len(c) |-> c[i]]
    OBVIOUS
  <2>3. c = [i \in 1 .. Len(c) |-> d[i]] <=> \A i \in 1 .. Len(c) : d[i] = c[i]
    BY <2>2
  <2> QED BY <1>1, <1>2, <2>1, <2>3 DEF IsPrefix
<1>3. CASE ~ (Len(c) <= Len(d))
  BY <1>3 DEF IsPrefix
<1> QED BY <1>2, <1>3

\* Prefixes of prefixes, and of what has grown.
LEMMA PrefixOrder ==
  ASSUME NEW A, NEW c \in Seq(A), NEW d \in Seq(A), IsPrefix(c, d)
  PROVE  /\ IsPrefix(c, c)
         /\ \A e \in A : IsPrefix(c, Append(d, e))
         /\ \A f \in Seq(A) : IsPrefix(d, f) => IsPrefix(c, f)
<1>1. Len(c) <= Len(d) /\ \A i \in 1 .. Len(c) : d[i] = c[i]
  BY PrefixIs
<1>2. Len(c) \in Nat /\ Len(d) \in Nat
  OBVIOUS
<1>3. IsPrefix(c, c)
  BY <1>2, PrefixIs
<1>4. ASSUME NEW e \in A PROVE IsPrefix(c, Append(d, e))
  <2>1. /\ Append(d, e) \in Seq(A) /\ Len(Append(d, e)) = Len(d) + 1
        /\ \A i \in 1 .. Len(d) : Append(d, e)[i] = d[i]
    BY Appended
  <2>2. Len(c) <= Len(Append(d, e)) /\ \A i \in 1 .. Len(c) : Append(d, e)[i] = c[i]
    BY <1>1, <1>2, <2>1
  <2> QED BY <2>1, <2>2, PrefixIs
<1>5. ASSUME NEW f \in Seq(A), IsPrefix(d, f) PROVE IsPrefix(c, f)
  <2>1. Len(d) <= Len(f) /\ \A i \in 1 .. Len(d) : f[i] = d[i]
    BY <1>5, PrefixIs
  <2>2. Len(c) <= Len(f) /\ \A i \in 1 .. Len(c) : f[i] = c[i]
    BY <1>1, <1>2, <2>1
  <2> QED BY <2>2, PrefixIs
<1> QED BY <1>3, <1>4, <1>5

------------------------------------------------------------------------------
(* The inductive invariant *)

\* An operation under way has an event.
BusyOK ==
  \A w \in Writers : writer[w].at \notin {"idle", "small", "resetting"} => writer[w].event # Genesis

\* Only the timer's thread lives on when _flush is over.
ReturnsOK == flush["main"].at # "returned" /\ flush["sync"].at # "returned"

\* Until a boot is over no other thread writes, and while it replays the
\* write-ahead log nobody but its own flush, which finds the chain dirty, can
\* have flushed what was replayed.
Booting == phase \in {"down", "loaded", "replaying"}
BootOK ==
  /\ Booting => flush["sync"].at = "idle" /\ Quiet
  /\ phase \in {"down", "loaded"} => timer = "none"
  /\ phase = "replaying" /\ flush["main"].at = "begun" => dirty /\ flush["timer"].at = "idle"
  /\ phase = "replaying" /\ flush["main"].at = "idle" => wal = Genesis

Inv == TypeOK /\ BusyOK /\ ReturnsOK /\ BootOK

------------------------------------------------------------------------------
(* Sequences *)

LEMMA WithoutInSeq ==
  ASSUME NEW S, NEW chain \in Seq(S), NEW n \in Nat
  PROVE  Without(chain, n) \in Seq(S)
<1>1. CASE n + 1 <= Len(chain)
  BY <1>1, SubSeqProperties DEF Without
<1>2. CASE ~(n + 1 <= Len(chain))
  <2>1. Without(chain, n) = <<>>
    BY <1>2, EmptySeq, SubSeqProperties DEF Without
  <2> QED BY <2>1
<1> QED BY <1>1, <1>2

LEMMA Split ==
  ASSUME NEW S, NEW chain \in Seq(S)
  PROVE  /\ Overflow(chain) \in 0 .. Len(chain)
         /\ Cold(chain) \in Seq(S) /\ Hot(chain) \in Seq(S)
<1>1. Overflow(chain) \in 0 .. Len(chain)
  BY StoreAssumption DEF Overflow
<1>2. Cold(chain) \in Seq(S)
  BY <1>1, SubSeqProperties DEF Cold
<1> QED BY <1>1, <1>2, WithoutInSeq DEF Hot

LEMMA LastIn ==
  ASSUME TypeOK
  PROVE  LastOf(events) \in 0 .. Len(prev)
<1>1. CASE events = <<>>
  BY <1>1 DEF LastOf, Genesis, TypeOK
<1>2. CASE events # <<>>
  BY <1>2 DEF LastOf, Last, Genesis, TypeOK, Made
<1> QED BY <1>1, <1>2

\* What is known stays known when an event is made and when a file is written.
LEMMA FilesGrow ==
  ASSUME DOMAIN archive \subseteq Nat \ {0}, NEW S,
         \A k \in DOMAIN archive : archive[k] \in S,
         NEW list \in Seq(DOMAIN archive), NEW cold \in S,
         archive' = Filed(archive, NextFile(list), cold)
  PROVE  /\ NextFile(list) \in DOMAIN archive'
         /\ DOMAIN archive \subseteq DOMAIN archive' /\ DOMAIN archive' \subseteq Nat \ {0}
         /\ \A k \in DOMAIN archive' : archive'[k] \in S
         /\ Append(list, NextFile(list)) \in Seq(DOMAIN archive')
<1> DEFINE k == NextFile(list)
<1>1. k \in Nat \ {0}
  BY DEF NextFile
<1>2. DOMAIN archive' = DOMAIN archive \cup {k}
  BY DEF Filed
<1>3. \A j \in DOMAIN archive' : archive'[j] \in S
  BY DEF Filed
<1>4. list \in Seq(DOMAIN archive')
  <2> HIDE DEF k
  <2> QED BY <1>2, SeqMonotonic
<1> QED BY <1>1, <1>2, <1>3, <1>4

------------------------------------------------------------------------------
(* Program counters *)

\* A writer moves on and keeps or changes what it holds.
LEMMA WriterMoves ==
  ASSUME NEW n, writer \in [Writers -> WriterType(n)], NEW w \in Writers, NEW p \in Places,
         writer' = [writer EXCEPT ![w].at = p]
  PROVE  /\ writer' \in [Writers -> WriterType(n)]
         /\ writer'[w].at = p /\ writer'[w].event = writer[w].event
         /\ writer'[w].cold = writer[w].cold /\ writer'[w].file = writer[w].file
         /\ \A x \in Writers \ {w} : writer'[x] = writer[x]
<1> DEFINE E == 0 .. n
           C == Seq(1 .. n)
<1> SUFFICES
         /\ writer' \in [Writers -> [at : Places, event : E, cold : C, file : Nat]]
         /\ writer'[w].at = p /\ writer'[w].event = writer[w].event
         /\ writer'[w].cold = writer[w].cold /\ writer'[w].file = writer[w].file
         /\ \A x \in Writers \ {w} : writer'[x] = writer[x]
  BY DEF WriterType
<1>1. writer \in [Writers -> [at : Places, event : E, cold : C, file : Nat]]
  BY DEF WriterType
<1> HIDE DEF E, C
<1> QED BY <1>1

\* So does a thread in _flush.
LEMMA FlushMoves ==
  ASSUME NEW k, NEW n, flush \in [Flushers -> FlushType(k, n)], NEW t \in Flushers,
         NEW p \in FlushPlaces, flush' = [flush EXCEPT ![t].at = p]
  PROVE  /\ flush' \in [Flushers -> FlushType(k, n)]
         /\ flush'[t].at = p /\ flush'[t].segments = flush[t].segments
         /\ flush'[t].events = flush[t].events
         /\ \A u \in Flushers \ {t} : flush'[u] = flush[u]
<1> DEFINE L == Seq(k)
           C == Seq(1 .. n)
<1> SUFFICES
         /\ flush' \in [Flushers -> [at : FlushPlaces, segments : L, events : C]]
         /\ flush'[t].at = p /\ flush'[t].segments = flush[t].segments
         /\ flush'[t].events = flush[t].events
         /\ \A u \in Flushers \ {t} : flush'[u] = flush[u]
  BY DEF FlushType
<1>1. flush \in [Flushers -> [at : FlushPlaces, segments : L, events : C]]
  BY DEF FlushType
<1> HIDE DEF L, C
<1> QED BY <1>1

\* What they hold.
LEMMA WriterHolds ==
  ASSUME TypeOK, NEW w \in Writers
  PROVE  /\ writer[w].at \in Places /\ writer[w].event \in 0 .. Len(prev)
         /\ writer[w].cold \in Seq(Made) /\ writer[w].file \in Nat
         /\ Made = 1 .. Len(prev) /\ Len(prev) \in Nat
<1>1. writer[w] \in WriterType(Len(prev)) /\ prev \in Seq(0 .. MaxEvents)
  BY DEF TypeOK
<1> QED BY <1>1 DEF WriterType, Made

LEMMA FlushHolds ==
  ASSUME TypeOK, NEW t \in Flushers
  PROVE  /\ flush[t].at \in FlushPlaces /\ flush[t].segments \in OnDisk
         /\ flush[t].events \in Seq(Made)
<1>1. flush[t] \in FlushType(DOMAIN archive, Len(prev))
  BY DEF TypeOK
<1> QED BY <1>1 DEF FlushType, Made, OnDisk

\* Either starts a new record.
LEMMA WriterTurns ==
  ASSUME NEW n, writer \in [Writers -> WriterType(n)], NEW w \in Writers, NEW p \in Places,
         NEW e \in 0 .. n, NEW c \in Seq(1 .. n), NEW k \in Nat,
         writer' = [writer EXCEPT ![w] = [at |-> p, event |-> e, cold |-> c, file |-> k]]
  PROVE  /\ writer' \in [Writers -> WriterType(n)]
         /\ writer'[w].at = p /\ writer'[w].event = e /\ writer'[w].cold = c
         /\ writer'[w].file = k
         /\ \A x \in Writers \ {w} : writer'[x] = writer[x]
<1> DEFINE r == [at |-> p, event |-> e, cold |-> c, file |-> k]
<1>1. r \in WriterType(n) /\ r.at = p /\ r.event = e /\ r.cold = c /\ r.file = k
  BY DEF WriterType
<1> HIDE DEF r
<1>2. /\ writer' \in [Writers -> WriterType(n)] /\ writer'[w] = r
      /\ \A x \in Writers \ {w} : writer'[x] = writer[x]
  BY <1>1 DEF r
<1> QED BY <1>1, <1>2

LEMMA FlushTurns ==
  ASSUME NEW k, NEW n, flush \in [Flushers -> FlushType(k, n)], NEW t \in Flushers,
         NEW p \in FlushPlaces, NEW l \in Seq(k), NEW c \in Seq(1 .. n),
         flush' = [flush EXCEPT ![t] = [at |-> p, segments |-> l, events |-> c]]
  PROVE  /\ flush' \in [Flushers -> FlushType(k, n)]
         /\ flush'[t].at = p /\ flush'[t].segments = l /\ flush'[t].events = c
         /\ \A u \in Flushers \ {t} : flush'[u] = flush[u]
<1> DEFINE r == [at |-> p, segments |-> l, events |-> c]
<1>1. r \in FlushType(k, n) /\ r.at = p /\ r.segments = l /\ r.events = c
  BY DEF FlushType
<1> HIDE DEF r
<1>2. /\ flush' \in [Flushers -> FlushType(k, n)] /\ flush'[t] = r
      /\ \A u \in Flushers \ {t} : flush'[u] = flush[u]
  BY <1>1 DEF r
<1> QED BY <1>1, <1>2

------------------------------------------------------------------------------
(* Every step keeps the invariant *)

LEMMA NoneOK ==
  /\ <<>> \in Seq(Made) /\ <<>> \in OnDisk
  /\ \A n \in Nat : Resting \in WriterType(n) /\ 0 .. n \subseteq 0 .. n + 1
  /\ \A n, k : NotFlushing \in FlushType(k, n)
BY DEF OnDisk, Resting, WriterType, NotFlushing, FlushType, Places, FlushPlaces, Genesis

LEMMA InitOK == Init => Inv
<1> SUFFICES ASSUME Init PROVE Inv
  OBVIOUS
<1>1. DOMAIN archive = {} /\ prev = <<>> /\ prev \in Seq(0 .. MaxEvents) /\ Len(prev) = 0
  BY DEF Init
<1>2. writer \in [Writers -> WriterType(Len(prev))] /\ \A w \in Writers : writer[w].at = "idle"
  BY <1>1, NoneOK DEF Init, Resting
<1>3. /\ flush \in [Flushers -> FlushType(DOMAIN archive, Len(prev))]
      /\ \A t \in Flushers : flush[t].at = "idle"
  BY NoneOK DEF Init, NotFlushing
<1>4. chainfile \in [segments : OnDisk, events : Seq(Made)]
  BY NoneOK DEF Init
<1>5. /\ events \in Seq(Made) /\ segments \in OnDisk /\ acked \subseteq Made
      /\ wal \in 0 .. Len(prev) /\ crashes \in 0 .. MaxCrashes /\ exits \in 0 .. MaxExits
      /\ Len(prev) <= MaxEvents
  BY <1>1, NoneOK, StoreAssumption DEF Init, Genesis
<1>6. TypeOK
  BY <1>1, <1>2, <1>3, <1>4, <1>5 DEF Init, TypeOK, Flushers
<1> QED BY <1>2, <1>3, <1>6 DEF Init, Inv, BusyOK, ReturnsOK, BootOK, Booting, Flushers

LEMMA TypesGrow ==
  ASSUME NEW m \in Nat, NEW n \in Nat, m <= n, NEW j, NEW k, j \subseteq k
  PROVE  WriterType(m) \subseteq WriterType(n) /\ FlushType(j, m) \subseteq FlushType(k, n)
<1>1. 0 .. m \subseteq 0 .. n /\ 1 .. m \subseteq 1 .. n
  OBVIOUS
<1>2. Seq(1 .. m) \subseteq Seq(1 .. n) /\ Seq(j) \subseteq Seq(k)
  BY <1>1, SeqMonotonic
<1> QED BY <1>1, <1>2 DEF WriterType, FlushType

LEMMA BeginOK ==
  ASSUME Inv, NEW w \in Writers, Begin(w)
  PROVE  Inv'
<1> USE DEF Inv, Begin, disk, process
<1> DEFINE n == Len(prev)
           m == Len(prev')
           files == DOMAIN archive
<1>1. LastOf(events) \in 0 .. MaxEvents /\ n \in Nat /\ prev \in Seq(0 .. MaxEvents)
  BY LastIn, StoreAssumption DEF TypeOK
<1>2. prev' \in Seq(0 .. MaxEvents) /\ m = n + 1 /\ m <= MaxEvents /\ m \in Nat /\ m # Genesis
  BY <1>1, StoreAssumption DEF Genesis
<1> HIDE DEF n, m
<1>3. Made \subseteq Made' /\ n + 1 \in 0 .. m /\ 0 .. n \subseteq 0 .. m
  BY <1>1, <1>2 DEF Made, n, m
<1>4. Seq(Made) \subseteq Seq(Made') /\ OnDisk' = OnDisk
  BY <1>3, SeqMonotonic DEF OnDisk
<1>5. writer \in [Writers -> WriterType(m)] /\ flush \in [Flushers -> FlushType(files, m)]
  <2>1. WriterType(n) \subseteq WriterType(m) /\ FlushType(files, n) \subseteq FlushType(files, m)
    <3> HIDE DEF files, Inv, Begin
    <3>1. n <= m /\ files \subseteq files
      BY <1>1, <1>2
    <3> QED BY <1>1, <1>2, <3>1, TypesGrow
  <2>2. writer \in [Writers -> WriterType(n)] /\ flush \in [Flushers -> FlushType(files, n)]
    BY DEF TypeOK, n
  <2> QED BY <2>1, <2>2
<1>6. PICK p \in {"made", "logged"} :
        writer' = [writer EXCEPT ![w] = [at |-> p, event |-> n + 1, cold |-> <<>>, file |-> 0]]
  BY DEF n
<1>7. /\ writer' \in [Writers -> WriterType(m)]
      /\ writer'[w].at \in {"made", "logged"} /\ writer'[w].event = n + 1
      /\ \A x \in Writers \ {w} : writer'[x] = writer[x]
  <2> HIDE DEF Inv, Begin
  <2>1. p \in Places /\ <<>> \in Seq(1 .. m) /\ 0 \in Nat
    BY DEF Places
  <2> QED BY <1>3, <1>5, <1>6, <2>1, WriterTurns
<1>8. TypeOK'
  BY <1>1, <1>2, <1>3, <1>4, <1>5, <1>7 DEF TypeOK, n, m
<1>9. BusyOK'
  BY <1>2, <1>7 DEF BusyOK
<1> QED BY <1>8, <1>9 DEF ReturnsOK, BootOK, Booting

LEMMA WriteWalOK ==
  ASSUME Inv, NEW w \in Writers, WriteWal(w)
  PROVE  Inv'
<1>1. Made' = Made /\ OnDisk' = OnDisk
  BY DEF WriteWal, Made, OnDisk
<1>2. /\ writer' \in [Writers -> WriterType(Len(prev))]
      /\ writer'[w].at = "logged" /\ writer'[w].event = writer[w].event
      /\ \A x \in Writers \ {w} : writer'[x] = writer[x]
  <2>1. "logged" \in Places /\ writer' = [writer EXCEPT ![w].at = "logged"]
    BY DEF WriteWal, Places
  <2>2. writer \in [Writers -> WriterType(Len(prev))]
    BY DEF Inv, TypeOK
  <2> QED BY <2>1, <2>2, WriterMoves
<1>3. wal' \in 0 .. Len(prev)
  BY DEF Inv, WriteWal, TypeOK, WriterType
<1>4. TypeOK'
  BY <1>1, <1>2, <1>3 DEF Inv, WriteWal, TypeOK, process
<1> QED BY <1>2, <1>4 DEF Inv, WriteWal, process, Running, BusyOK, ReturnsOK, BootOK, Booting

LEMMA ExtendOK ==
  ASSUME Inv, NEW w \in Writers, Extend(w)
  PROVE  Inv'
<1>1. Made' = Made /\ OnDisk' = OnDisk
  BY DEF Extend, disk, Made, OnDisk
<1>2. writer[w].event \in Made /\ writer[w].event \in 0 .. Len(prev)
  BY WriterHolds DEF Inv, Extend, BusyOK, Genesis
<1>3. events' \in Seq(Made)
  BY <1>2 DEF Inv, Extend, TypeOK
<1>4. Cold(events') \in Seq(1 .. Len(prev))
  BY <1>3, Split DEF Made
<1>5. PICK p \in {"save", "spill"} :
        writer' = [writer EXCEPT ![w] = [at |-> p, event |-> writer[w].event,
                                         cold |-> Cold(events'), file |-> 0]]
  BY DEF Extend
<1>6. /\ writer' \in [Writers -> WriterType(Len(prev))]
      /\ writer'[w].at \in {"save", "spill"} /\ writer'[w].event = writer[w].event
      /\ \A x \in Writers \ {w} : writer'[x] = writer[x]
  <2>1. p \in Places /\ 0 \in Nat /\ writer \in [Writers -> WriterType(Len(prev))]
    BY DEF Inv, TypeOK, Places
  <2> DEFINE e == writer[w].event
             c == Cold(events')
             k == 0
  <2>2. e \in 0 .. Len(prev) /\ c \in Seq(1 .. Len(prev)) /\ k \in Nat
    BY <1>2, <1>4
  <2>3. writer' = [writer EXCEPT ![w] = [at |-> p, event |-> e, cold |-> c, file |-> k]]
    BY <1>5
  <2> HIDE DEF e, c, k
  <2>4. /\ writer' \in [Writers -> WriterType(Len(prev))]
        /\ writer'[w].at = p /\ writer'[w].event = e
        /\ \A x \in Writers \ {w} : writer'[x] = writer[x]
    BY <2>1, <2>2, <2>3, WriterTurns
  <2> QED BY <2>4 DEF e
<1>7. TypeOK'
  BY <1>1, <1>3, <1>6 DEF Inv, Extend, TypeOK, disk, process
<1>8. BusyOK'
  BY <1>2, <1>6 DEF Inv, BusyOK, Made, Genesis
<1> QED BY <1>7, <1>8 DEF Inv, Extend, disk, process, Running, ReturnsOK, BootOK, Booting

LEMMA WriteColdOK ==
  ASSUME Inv, NEW w \in Writers, WriteCold(w)
  PROVE  Inv'
<1>1. Made' = Made
  BY DEF WriteCold, Made
<1>2. /\ writer[w].event \in 0 .. Len(prev) /\ writer[w].event # Genesis
      /\ writer[w].cold \in Seq(1 .. Len(prev))
  BY WriterHolds DEF Inv, WriteCold, BusyOK
<1>3. /\ NextFile(segments) \in DOMAIN archive'
      /\ DOMAIN archive \subseteq DOMAIN archive' /\ DOMAIN archive' \subseteq Nat \ {0}
      /\ \A k \in DOMAIN archive' : archive'[k] \in Seq(Made)
  <2>1. archive' = Filed(archive, NextFile(segments), writer[w].cold)
    BY DEF WriteCold
  <2>2. /\ DOMAIN archive \subseteq Nat \ {0} /\ segments \in Seq(DOMAIN archive)
        /\ \A k \in DOMAIN archive : archive[k] \in Seq(Made)
        /\ writer[w].cold \in Seq(Made)
    BY WriterHolds DEF Inv, TypeOK, OnDisk
  <2> QED BY <2>1, <2>2, FilesGrow
<1>4. OnDisk \subseteq OnDisk'
  BY <1>3, SeqMonotonic DEF OnDisk
<1>5. flush' \in [Flushers -> FlushType(DOMAIN archive', Len(prev))]
  <2>1. FlushType(DOMAIN archive, Len(prev)) \subseteq FlushType(DOMAIN archive', Len(prev))
    BY <1>4 DEF FlushType, OnDisk
  <2> QED BY <2>1 DEF Inv, WriteCold, TypeOK
<1>6. /\ writer' \in [Writers -> WriterType(Len(prev))]
      /\ writer'[w].at = "list" /\ writer'[w].event = writer[w].event
      /\ writer'[w].file = NextFile(segments)
      /\ \A x \in Writers \ {w} : writer'[x] = writer[x]
  <2>1. writer' = [writer EXCEPT ![w] = [at |-> "list", event |-> writer[w].event,
                                         cold |-> writer[w].cold, file |-> NextFile(segments)]]
    BY DEF WriteCold
  <2>2. "list" \in Places /\ NextFile(segments) \in Nat
        /\ writer \in [Writers -> WriterType(Len(prev))]
    BY <1>3 DEF Inv, TypeOK, Places
  <2> QED BY <1>2, <2>1, <2>2, WriterTurns
<1>7. TypeOK'
  BY <1>1, <1>3, <1>4, <1>5, <1>6 DEF Inv, WriteCold, TypeOK, process
<1>8. BusyOK'
  BY <1>2, <1>6 DEF Inv, BusyOK
<1> QED BY <1>7, <1>8 DEF Inv, WriteCold, process, Running, ReturnsOK, BootOK, Booting

LEMMA ListColdOK ==
  ASSUME Inv, NEW w \in Writers, ListCold(w)
  PROVE  Inv'
<1>1. Made' = Made /\ OnDisk' = OnDisk
  BY DEF ListCold, disk, Made, OnDisk
<1>2. segments' \in OnDisk
  BY DEF Inv, ListCold, TypeOK, OnDisk
<1>3. /\ writer' \in [Writers -> WriterType(Len(prev))]
      /\ writer'[w].at = "cut" /\ writer'[w].event = writer[w].event
      /\ \A x \in Writers \ {w} : writer'[x] = writer[x]
  <2>1. "cut" \in Places /\ writer' = [writer EXCEPT ![w].at = "cut"]
    BY DEF ListCold, Places
  <2>2. writer \in [Writers -> WriterType(Len(prev))]
    BY DEF Inv, TypeOK
  <2> QED BY <2>1, <2>2, WriterMoves
<1>4. TypeOK'
  BY <1>1, <1>2, <1>3 DEF Inv, ListCold, TypeOK, disk, process
<1> QED BY <1>3, <1>4
        DEF Inv, ListCold, disk, process, Running, BusyOK, ReturnsOK, BootOK, Booting

LEMMA CutHotOK ==
  ASSUME Inv, NEW w \in Writers, CutHot(w)
  PROVE  Inv'
<1>1. Made' = Made /\ OnDisk' = OnDisk
  BY DEF CutHot, disk, Made, OnDisk
<1>2. events' \in Seq(Made)
  <2>1. Len(writer[w].cold) \in Nat /\ events \in Seq(Made)
    BY WriterHolds DEF Inv, TypeOK
  <2> QED BY <2>1, WithoutInSeq DEF CutHot
<1>3. /\ writer' \in [Writers -> WriterType(Len(prev))]
      /\ writer'[w].at = "save" /\ writer'[w].event = writer[w].event
      /\ \A x \in Writers \ {w} : writer'[x] = writer[x]
  <2>1. "save" \in Places /\ writer' = [writer EXCEPT ![w].at = "save"]
    BY DEF CutHot, Places
  <2>2. writer \in [Writers -> WriterType(Len(prev))]
    BY DEF Inv, TypeOK
  <2> QED BY <2>1, <2>2, WriterMoves
<1>4. TypeOK'
  BY <1>1, <1>2, <1>3 DEF Inv, CutHot, TypeOK, disk, process
<1> QED BY <1>3, <1>4
        DEF Inv, CutHot, disk, process, Running, BusyOK, ReturnsOK, BootOK, Booting

LEMMA SetDirtyOK ==
  ASSUME Inv, NEW w \in Writers, SetDirty(w)
  PROVE  Inv'
<1>1. Made' = Made /\ OnDisk' = OnDisk
  BY DEF SetDirty, disk, Made, OnDisk
<1>2. /\ writer' \in [Writers -> WriterType(Len(prev))]
      /\ writer'[w].at = "marked" /\ writer'[w].event = writer[w].event
      /\ \A x \in Writers \ {w} : writer'[x] = writer[x]
  <2>1. "marked" \in Places /\ writer' = [writer EXCEPT ![w].at = "marked"]
    BY DEF SetDirty, Places
  <2>2. writer \in [Writers -> WriterType(Len(prev))]
    BY DEF Inv, TypeOK
  <2> QED BY <2>1, <2>2, WriterMoves
<1>3. TypeOK'
  BY <1>1, <1>2 DEF Inv, SetDirty, Marked, TypeOK, disk, process
<1> QED BY <1>2, <1>3
        DEF Inv, SetDirty, Marked, disk, process, Running, BusyOK, ReturnsOK, BootOK, Booting

LEMMA StartTimerOK ==
  ASSUME Inv, NEW w \in Writers, StartTimer(w)
  PROVE  Inv'
<1>1. Made' = Made /\ OnDisk' = OnDisk
  BY DEF StartTimer, disk, Made, OnDisk
<1>2. writer[w].event \in Made /\ Len(prev) \in Nat
  BY WriterHolds DEF Inv, StartTimer, BusyOK, Genesis
<1>3. writer' \in [Writers -> WriterType(Len(prev))] /\ writer'[w].at = "idle"
      /\ \A x \in Writers \ {w} : writer'[x] = writer[x]
  <2>1. Resting \in WriterType(Len(prev)) /\ Resting.at = "idle"
    BY <1>2, NoneOK DEF Resting
  <2>2. writer \in [Writers -> WriterType(Len(prev))] /\ writer' = [writer EXCEPT ![w] = Resting]
    BY DEF Inv, TypeOK, StartTimer
  <2> QED BY <2>1, <2>2
<1>4. TypeOK'
  BY <1>1, <1>2, <1>3 DEF Inv, StartTimer, TimerStarted, TypeOK, disk, process
<1> QED BY <1>3, <1>4
        DEF Inv, StartTimer, disk, process, Running, BusyOK, ReturnsOK, BootOK, Booting

LEMMA LookSmallOK ==
  ASSUME Inv, LookSmall
  PROVE  Inv'
<1>1. Made' = Made /\ OnDisk' = OnDisk
  BY DEF LookSmall, disk, Made, OnDisk
<1>2. /\ writer' \in [Writers -> WriterType(Len(prev))] /\ writer'["sync"].at = "small"
      /\ \A x \in Writers \ {"sync"} : writer'[x] = writer[x]
  <2>1. "small" \in Places /\ writer' = [writer EXCEPT !["sync"].at = "small"]
        /\ "sync" \in Writers
    BY DEF LookSmall, Places
  <2>2. writer \in [Writers -> WriterType(Len(prev))]
    BY DEF Inv, TypeOK
  <2> QED BY <2>1, <2>2, WriterMoves
<1>3. TypeOK'
  BY <1>1, <1>2 DEF Inv, LookSmall, TypeOK, disk, process
<1> QED BY <1>2, <1>3
        DEF Inv, LookSmall, disk, process, BusyOK, ReturnsOK, BootOK, Booting

LEMMA ResetOK ==
  ASSUME Inv, Reset
  PROVE  Inv'
<1>1. Made' = Made /\ OnDisk' = OnDisk
  BY DEF Reset, disk, Made, OnDisk
<1>2. /\ writer' \in [Writers -> WriterType(Len(prev))] /\ writer'["sync"].at = "resetting"
      /\ \A x \in Writers \ {"sync"} : writer'[x] = writer[x]
  <2>1. "resetting" \in Places /\ writer' = [writer EXCEPT !["sync"].at = "resetting"]
        /\ "sync" \in Writers
    BY DEF Reset, Places
  <2>2. writer \in [Writers -> WriterType(Len(prev))]
    BY DEF Inv, TypeOK
  <2> QED BY <2>1, <2>2, WriterMoves
<1>3. /\ flush' \in [Flushers -> FlushType(DOMAIN archive, Len(prev))]
      /\ flush'["sync"].at = "begun"
      /\ \A u \in Flushers \ {"sync"} : flush'[u] = flush[u]
  <2>1. "begun" \in FlushPlaces /\ "sync" \in Flushers
        /\ flush' = [flush EXCEPT !["sync"].at = "begun"]
    BY DEF Reset, FlushPlaces, Flushers
  <2>2. flush \in [Flushers -> FlushType(DOMAIN archive, Len(prev))]
    BY DEF Inv, TypeOK
  <2> QED BY <2>1, <2>2, FlushMoves
<1>4. TypeOK'
  BY <1>1, <1>2, <1>3, NoneOK DEF Inv, Reset, TypeOK, disk, process, Flushers
<1> QED BY <1>2, <1>3, <1>4
        DEF Inv, Reset, disk, process, BusyOK, ReturnsOK, BootOK, Booting, Flushers

------------------------------------------------------------------------------
(* _flush *)

\* The steps of a flush touch neither events nor the archive, and a thread that
\* ends one returns.
LEMMA TimerFiresOK ==
  ASSUME Inv, TimerFires
  PROVE  Inv'
<1>1. Made' = Made /\ OnDisk' = OnDisk
  BY DEF TimerFires, disk, Made, OnDisk
<1>2. /\ flush' \in [Flushers -> FlushType(DOMAIN archive, Len(prev))]
      /\ flush'["timer"].at = "begun"
      /\ \A u \in Flushers \ {"timer"} : flush'[u] = flush[u]
  <2>1. "begun" \in FlushPlaces /\ "timer" \in Flushers
        /\ flush' = [flush EXCEPT !["timer"].at = "begun"]
    BY DEF TimerFires, FlushPlaces, Flushers
  <2>2. flush \in [Flushers -> FlushType(DOMAIN archive, Len(prev))]
    BY DEF Inv, TypeOK
  <2> QED BY <2>1, <2>2, FlushMoves
<1>3. TypeOK'
  BY <1>1, <1>2 DEF Inv, TimerFires, TypeOK, disk, process
<1> QED BY <1>2, <1>3
        DEF Inv, TimerFires, disk, process, BusyOK, Quiet, ReturnsOK, BootOK, Booting, Flushers

LEMMA ReturnsStep ==
  ASSUME Inv, NEW t \in Flushers, Returns(t)
  PROVE  /\ flush' \in [Flushers -> FlushType(DOMAIN archive, Len(prev))]
         /\ flush'[t].at = IF t = "timer" THEN "returned" ELSE "idle"
         /\ \A u \in Flushers \ {t} : flush'[u] = flush[u]
         /\ writer' \in [Writers -> WriterType(Len(prev))]
         /\ \A w \in Writers : writer'[w] = writer[w] \/ writer'[w].at = "idle"
         /\ timer' = timer
<1>1. /\ flush \in [Flushers -> FlushType(DOMAIN archive, Len(prev))]
      /\ writer \in [Writers -> WriterType(Len(prev))] /\ Len(prev) \in Nat
  BY DEF Inv, TypeOK
<1>2. /\ flush' \in [Flushers -> FlushType(DOMAIN archive, Len(prev))]
      /\ flush'[t].at = IF t = "timer" THEN "returned" ELSE "idle"
      /\ \A u \in Flushers \ {t} : flush'[u] = flush[u]
  <2>1. CASE t = "timer"
    <3>1. "returned" \in FlushPlaces /\ flush' = [flush EXCEPT ![t].at = "returned"]
      BY <2>1 DEF Returns, FlushPlaces
    <3>2. /\ flush' \in [Flushers -> FlushType(DOMAIN archive, Len(prev))]
          /\ flush'[t].at = "returned" /\ \A u \in Flushers \ {t} : flush'[u] = flush[u]
      BY <1>1, <3>1, FlushMoves
    <3> QED BY <2>1, <3>2
  <2>2. CASE t # "timer"
    <3>1. flush' = [flush EXCEPT ![t] = NotFlushing] /\ NotFlushing.at = "idle"
      BY <2>2 DEF Returns, NotFlushing
    <3>2. NotFlushing \in FlushType(DOMAIN archive, Len(prev))
      BY NoneOK
    <3> QED BY <1>1, <2>2, <3>1, <3>2
  <2> QED BY <2>1, <2>2
<1>3. /\ writer' \in [Writers -> WriterType(Len(prev))]
      /\ \A w \in Writers : writer'[w] = writer[w] \/ writer'[w].at = "idle"
  <2>1. Resting \in WriterType(Len(prev)) /\ Resting.at = "idle"
    BY <1>1, NoneOK DEF Resting
  <2>2. writer' = writer \/ writer' = [writer EXCEPT !["sync"] = Resting]
    BY DEF Returns
  <2> QED BY <1>1, <2>1, <2>2
<1> QED BY <1>2, <1>3 DEF Returns

LEMMA TimerEndsOK ==
  ASSUME Inv, NEW t \in Flushers, TimerEnds(t)
  PROVE  Inv'
<1>1. Made' = Made /\ OnDisk' = OnDisk
  BY DEF TimerEnds, disk, Made, OnDisk
<1>2. t = "timer" /\ flush["timer"].at # "idle"
  BY DEF Inv, TimerEnds, ReturnsOK, Flushers
<1>3. /\ flush' \in [Flushers -> FlushType(DOMAIN archive, Len(prev))]
      /\ flush'["timer"].at = "idle"
      /\ \A u \in Flushers \ {"timer"} : flush'[u] = flush[u]
  <2>1. flush' = [flush EXCEPT ![t] = NotFlushing] /\ NotFlushing.at = "idle"
    BY DEF TimerEnds, NotFlushing
  <2>2. NotFlushing \in FlushType(DOMAIN archive, Len(prev))
        /\ flush \in [Flushers -> FlushType(DOMAIN archive, Len(prev))]
    BY NoneOK DEF Inv, TypeOK
  <2> QED BY <1>2, <2>1, <2>2
<1>4. TypeOK'
  BY <1>1, <1>3 DEF Inv, TimerEnds, AfterTimer, TypeOK, disk, process
<1> QED BY <1>2, <1>3, <1>4 DEF Inv, TimerEnds, AfterTimer, disk, process, BusyOK, Quiet,
                                ReturnsOK, BootOK, Booting, Flushers

LEMMA NothingToFlushOK ==
  ASSUME Inv, NEW t \in Flushers, NothingToFlush(t)
  PROVE  Inv'
<1>1. Made' = Made /\ OnDisk' = OnDisk
  BY DEF NothingToFlush, disk, Made, OnDisk
<1>2. Returns(t)
  BY DEF NothingToFlush
<1>3. TypeOK'
  BY <1>1, <1>2, ReturnsStep DEF Inv, NothingToFlush, TypeOK, disk, process, Flushers
<1>4. BusyOK'
  BY <1>2, ReturnsStep DEF Inv, BusyOK
<1>5. ReturnsOK' /\ BootOK'
  BY <1>2, ReturnsStep DEF Inv, NothingToFlush, disk, process, Quiet, ReturnsOK, BootOK, Booting,
                           Flushers
<1> QED BY <1>3, <1>4, <1>5 DEF Inv

LEMMA ReadSegmentsOK ==
  ASSUME Inv, NEW t \in Flushers, ReadSegments(t)
  PROVE  Inv'
<1>1. Made' = Made /\ OnDisk' = OnDisk
  BY DEF ReadSegments, disk, Made, OnDisk
<1>2. /\ flush' \in [Flushers -> FlushType(DOMAIN archive, Len(prev))]
      /\ flush'[t].at = "listed" /\ \A u \in Flushers \ {t} : flush'[u] = flush[u]
  <2>1. flush' = [flush EXCEPT ![t] = [at |-> "listed", segments |-> segments, events |-> <<>>]]
    BY DEF ReadSegments
  <2>2. /\ "listed" \in FlushPlaces /\ segments \in Seq(DOMAIN archive)
        /\ <<>> \in Seq(1 .. Len(prev))
        /\ flush \in [Flushers -> FlushType(DOMAIN archive, Len(prev))]
    BY DEF Inv, TypeOK, FlushPlaces, OnDisk
  <2> QED BY <2>1, <2>2, FlushTurns
<1>3. TypeOK'
  BY <1>1, <1>2 DEF Inv, ReadSegments, TypeOK, disk, process, Flushers
<1> QED BY <1>2, <1>3 DEF Inv, ReadSegments, disk, process, BusyOK, Quiet, ReturnsOK, BootOK,
                          Booting, Flushers

LEMMA ReadEventsOK ==
  ASSUME Inv, NEW t \in Flushers, ReadEvents(t)
  PROVE  Inv'
<1>1. Made' = Made /\ OnDisk' = OnDisk
  BY DEF ReadEvents, disk, Made, OnDisk
<1>2. /\ flush' \in [Flushers -> FlushType(DOMAIN archive, Len(prev))]
      /\ flush'[t].at = "encoded" /\ \A u \in Flushers \ {t} : flush'[u] = flush[u]
  <2> DEFINE l == flush[t].segments
  <2>1. flush' = [flush EXCEPT ![t] = [at |-> "encoded", segments |-> l, events |-> events]]
    BY DEF ReadEvents
  <2>2. /\ "encoded" \in FlushPlaces /\ l \in Seq(DOMAIN archive)
        /\ events \in Seq(1 .. Len(prev))
        /\ flush \in [Flushers -> FlushType(DOMAIN archive, Len(prev))]
    BY FlushHolds DEF Inv, TypeOK, FlushPlaces, OnDisk, Made
  <2> HIDE DEF l
  <2> QED BY <2>1, <2>2, FlushTurns
<1>3. TypeOK'
  BY <1>1, <1>2 DEF Inv, ReadEvents, TypeOK, disk, process, Flushers
<1> QED BY <1>2, <1>3 DEF Inv, ReadEvents, disk, process, BusyOK, Quiet, ReturnsOK, BootOK,
                          Booting, Flushers

LEMMA ReplaceFileOK ==
  ASSUME Inv, NEW t \in Flushers, ReplaceFile(t)
  PROVE  Inv'
<1>1. Made' = Made /\ OnDisk' = OnDisk
  BY DEF ReplaceFile, Made, OnDisk
<1>2. /\ flush' \in [Flushers -> FlushType(DOMAIN archive, Len(prev))]
      /\ flush'[t].at = "written" /\ \A u \in Flushers \ {t} : flush'[u] = flush[u]
  <2>1. "written" \in FlushPlaces /\ flush' = [flush EXCEPT ![t].at = "written"]
    BY DEF ReplaceFile, FlushPlaces
  <2>2. flush \in [Flushers -> FlushType(DOMAIN archive, Len(prev))]
    BY DEF Inv, TypeOK
  <2> QED BY <2>1, <2>2, FlushMoves
<1>3. chainfile' \in [segments : OnDisk, events : Seq(Made)]
  BY FlushHolds DEF Inv, ReplaceFile
<1>4. TypeOK'
  BY <1>1, <1>2, <1>3 DEF Inv, ReplaceFile, TypeOK, process, Flushers
<1> QED BY <1>2, <1>4 DEF Inv, ReplaceFile, process, BusyOK, Quiet, ReturnsOK, BootOK,
                          Booting, Flushers

LEMMA CleanOK ==
  ASSUME Inv, NEW t \in Flushers, Clean(t)
  PROVE  Inv'
<1>1. Made' = Made /\ OnDisk' = OnDisk
  BY DEF Clean, disk, Made, OnDisk
<1>2. /\ flush' \in [Flushers -> FlushType(DOMAIN archive, Len(prev))]
      /\ flush'[t].at = "cleaned" /\ \A u \in Flushers \ {t} : flush'[u] = flush[u]
  <2>1. "cleaned" \in FlushPlaces /\ flush' = [flush EXCEPT ![t].at = "cleaned"]
    BY DEF Clean, FlushPlaces
  <2>2. flush \in [Flushers -> FlushType(DOMAIN archive, Len(prev))]
    BY DEF Inv, TypeOK
  <2> QED BY <2>1, <2>2, FlushMoves
<1>3. TypeOK'
  BY <1>1, <1>2 DEF Inv, Clean, TypeOK, disk, process, Flushers
\* While a boot replays, a clean of another thread cannot come before main has read.
<1>4. BootOK'
  BY <1>2 DEF Inv, Clean, disk, process, Quiet, BootOK, Booting, Flushers
<1> QED BY <1>2, <1>3, <1>4 DEF Inv, Clean, BusyOK, ReturnsOK, Flushers

LEMMA ClearWalOK ==
  ASSUME Inv, NEW t \in Flushers, ClearWal(t)
  PROVE  Inv'
<1>1. Made' = Made /\ OnDisk' = OnDisk
  BY DEF ClearWal, Made, OnDisk
<1>2. Returns(t) /\ wal' = Genesis /\ Len(prev) \in Nat
  BY DEF ClearWal, WalCleared, Inv, TypeOK
<1>3. TypeOK'
  <2>1. wal' \in 0 .. Len(prev)
    BY <1>2 DEF Genesis
  <2>2. (timer' = "flushing") = (flush'["timer"].at # "idle")
    BY <1>2, ReturnsStep DEF Inv, TypeOK, Flushers, ClearWal
  <2> QED BY <1>1, <1>2, <2>1, <2>2, ReturnsStep DEF Inv, ClearWal, TypeOK, process
<1>4. BusyOK'
  BY <1>2, ReturnsStep DEF Inv, BusyOK
<1>5. ReturnsOK' /\ BootOK'
  BY <1>2, ReturnsStep DEF Inv, ClearWal, process, Quiet, ReturnsOK, BootOK, Booting, Flushers
<1> QED BY <1>3, <1>4, <1>5 DEF Inv

------------------------------------------------------------------------------
(* Stopping and starting *)

\* What a replay would add is an event.
LEMMA KnownIn ==
  ASSUME Inv
  PROVE  /\ Known \in Seq(Made)
         /\ Replayable(wal) => Append(events, wal) \in Seq(Made)
<1>1. Replayable(wal) => wal \in Made
  BY DEF Inv, TypeOK, Replayable, Made, Genesis
<1>2. events \in Seq(Made)
  BY DEF Inv, TypeOK
<1> QED BY <1>1, <1>2 DEF Known

LEMMA HaltOK ==
  ASSUME Inv, Halt, crashes' \in 0 .. MaxCrashes, exits' \in 0 .. MaxExits
  PROVE  Inv'
<1>1. Made' = Made /\ OnDisk' = OnDisk /\ Len(prev) \in Nat
  BY DEF Halt, disk, Made, OnDisk, Inv, TypeOK
<1>2. writer' \in [Writers -> WriterType(Len(prev))] /\ \A w \in Writers : writer'[w].at = "idle"
  <2>1. Resting \in WriterType(Len(prev)) /\ Resting.at = "idle"
    BY <1>1, NoneOK DEF Resting
  <2> HIDE DEF Resting
  <2> QED BY <2>1 DEF Halt
<1>3. /\ flush' \in [Flushers -> FlushType(DOMAIN archive, Len(prev))]
      /\ \A t \in Flushers : flush'[t].at = "idle"
  <2>1. NotFlushing \in FlushType(DOMAIN archive, Len(prev)) /\ NotFlushing.at = "idle"
    BY NoneOK DEF NotFlushing
  <2> QED BY <2>1 DEF Halt
<1>4. events' \in Seq(Made)
  BY KnownIn DEF Halt
<1>5. TypeOK'
  BY <1>1, <1>2, <1>3, <1>4 DEF Inv, Halt, TypeOK, disk, Flushers
<1> QED BY <1>2, <1>3, <1>5 DEF Inv, Halt, BusyOK, Quiet, ReturnsOK, BootOK, Booting, Flushers

LEMMA StoppingOK ==
  ASSUME Inv, Crash \/ BeginExit \/ EndExit
  PROVE  Inv'
<1>1. CASE Crash
  <2>1. Halt /\ crashes' \in 0 .. MaxCrashes /\ exits' \in 0 .. MaxExits
    BY <1>1, StoreAssumption DEF Crash, Inv, TypeOK
  <2> QED BY <2>1, HaltOK
<1>2. CASE EndExit
  <2>1. Halt /\ crashes' \in 0 .. MaxCrashes /\ exits' \in 0 .. MaxExits
    BY <1>2 DEF EndExit, Inv, TypeOK
  <2> QED BY <2>1, HaltOK
<1>3. CASE BeginExit
  <2>1. Made' = Made /\ OnDisk' = OnDisk
    BY <1>3 DEF BeginExit, disk, Made, OnDisk
  <2>2. /\ flush' \in [Flushers -> FlushType(DOMAIN archive, Len(prev))]
        /\ flush'["main"].at = "begun"
        /\ \A u \in Flushers \ {"main"} : flush'[u] = flush[u]
    <3>1. "begun" \in FlushPlaces /\ "main" \in Flushers
          /\ flush' = [flush EXCEPT !["main"].at = "begun"]
      BY <1>3 DEF BeginExit, FlushPlaces, Flushers
    <3>2. flush \in [Flushers -> FlushType(DOMAIN archive, Len(prev))]
      BY DEF Inv, TypeOK
    <3> QED BY <3>1, <3>2, FlushMoves
  <2>3. TypeOK'
    BY <1>3, <2>1, <2>2, StoreAssumption DEF Inv, BeginExit, TypeOK, disk, Flushers
  <2> QED BY <1>3, <2>2, <2>3
          DEF Inv, BeginExit, disk, BusyOK, Quiet, ReturnsOK, BootOK, Booting, Flushers
<1> QED BY <1>1, <1>2, <1>3

LEMMA SpillsOK ==
  ASSUME Inv, NEW list \in OnDisk, NEW chain \in Seq(Made), Spills(list, chain)
  PROVE  /\ segments' \in OnDisk' /\ OnDisk \subseteq OnDisk'
         /\ DOMAIN archive \subseteq DOMAIN archive' /\ DOMAIN archive' \subseteq Nat \ {0}
         /\ \A k \in DOMAIN archive' : archive'[k] \in Seq(Made)
         /\ FlushType(DOMAIN archive, Len(prev)) \subseteq FlushType(DOMAIN archive', Len(prev))
<1>1. /\ DOMAIN archive \subseteq Nat \ {0} /\ list \in Seq(DOMAIN archive)
      /\ \A k \in DOMAIN archive : archive[k] \in Seq(Made)
  BY DEF Inv, TypeOK, OnDisk
<1>2. CASE Overflow(chain) = 0
  <2>1. segments' = list /\ archive' = archive
    BY <1>2 DEF Spills
  <2> QED BY <1>1, <2>1 DEF OnDisk
<1>3. CASE Overflow(chain) # 0
  <2> DEFINE cold == Cold(chain)
  <2>1. cold \in Seq(Made)
    BY Split
  <2>2. /\ segments' = Append(list, NextFile(list))
        /\ archive' = Filed(archive, NextFile(list), cold)
    BY <1>3 DEF Spills
  <2> HIDE DEF cold
  <2>3. /\ DOMAIN archive \subseteq DOMAIN archive' /\ DOMAIN archive' \subseteq Nat \ {0}
        /\ \A k \in DOMAIN archive' : archive'[k] \in Seq(Made)
        /\ Append(list, NextFile(list)) \in Seq(DOMAIN archive')
    BY <1>1, <2>1, <2>2, FilesGrow
  <2>4. OnDisk \subseteq OnDisk'
    BY <2>3, SeqMonotonic DEF OnDisk
  <2> QED BY <2>2, <2>3, <2>4 DEF OnDisk, FlushType
<1> QED BY <1>2, <1>3

LEMMA BootOKs ==
  ASSUME Inv, Boot
  PROVE  Inv'
<1>1. Made' = Made /\ Len(prev) \in Nat
  BY DEF Boot, Made, Inv, TypeOK
<1>2. chainfile.events \in Seq(Made) /\ chainfile.segments \in OnDisk
  BY DEF Inv, TypeOK
<1>3. events' \in Seq(Made)
  BY <1>2, Split DEF Boot
<1>4. /\ segments' \in OnDisk' /\ OnDisk \subseteq OnDisk'
      /\ DOMAIN archive \subseteq DOMAIN archive' /\ DOMAIN archive' \subseteq Nat \ {0}
      /\ \A k \in DOMAIN archive' : archive'[k] \in Seq(Made)
      /\ FlushType(DOMAIN archive, Len(prev)) \subseteq FlushType(DOMAIN archive', Len(prev))
  BY <1>2, SpillsOK DEF Boot
<1>5. /\ flush' \in [Flushers -> FlushType(DOMAIN archive', Len(prev))]
      /\ flush'["main"].at # "returned"
      /\ \A u \in Flushers \ {"main"} : flush'[u] = flush[u]
  <2>1. flush \in [Flushers -> FlushType(DOMAIN archive', Len(prev))]
    BY <1>4 DEF Inv, TypeOK
  <2>2. CASE flush' = flush
    BY <2>1, <2>2 DEF Inv, ReturnsOK
  <2>3. CASE flush' = [flush EXCEPT !["main"].at = "begun"]
    <3>1. "begun" \in FlushPlaces /\ "main" \in Flushers
      BY DEF FlushPlaces, Flushers
    <3>2. /\ flush' \in [Flushers -> FlushType(DOMAIN archive', Len(prev))]
          /\ flush'["main"].at = "begun" /\ \A u \in Flushers \ {"main"} : flush'[u] = flush[u]
      BY <2>1, <2>3, <3>1, FlushMoves
    <3> QED BY <3>2
  <2> QED BY <2>2, <2>3 DEF Boot
<1>6. chainfile' \in [segments : OnDisk', events : Seq(Made)]
  BY <1>2, <1>4 DEF Boot, Inv, TypeOK
<1>7. TypeOK'
  BY <1>1, <1>3, <1>4, <1>5, <1>6 DEF Inv, Boot, TypeOK, Flushers
<1> QED BY <1>5, <1>7 DEF Inv, Boot, BusyOK, Quiet, ReturnsOK, BootOK, Booting, Flushers

LEMMA ReplayWalOK ==
  ASSUME Inv, ReplayWal
  PROVE  Inv'
<1> DEFINE chain == Append(events, wal)
<1>1. Made' = Made /\ Len(prev) \in Nat
  BY DEF ReplayWal, Made, Inv, TypeOK
<1>2. chain \in Seq(Made) /\ segments \in OnDisk
  BY KnownIn DEF ReplayWal, Inv, TypeOK
<1>3. events' \in Seq(Made)
  BY <1>2, Split DEF ReplayWal
<1>4. /\ segments' \in OnDisk' /\ OnDisk \subseteq OnDisk'
      /\ DOMAIN archive \subseteq DOMAIN archive' /\ DOMAIN archive' \subseteq Nat \ {0}
      /\ \A k \in DOMAIN archive' : archive'[k] \in Seq(Made)
      /\ FlushType(DOMAIN archive, Len(prev)) \subseteq FlushType(DOMAIN archive', Len(prev))
  <2>1. Spills(segments, chain)
    BY DEF ReplayWal
  <2> HIDE DEF chain
  <2> QED BY <1>2, <2>1, SpillsOK
<1>5. /\ flush' \in [Flushers -> FlushType(DOMAIN archive', Len(prev))]
      /\ flush'["main"].at = "begun"
      /\ \A u \in Flushers \ {"main"} : flush'[u] = flush[u]
  <2>1. flush \in [Flushers -> FlushType(DOMAIN archive', Len(prev))]
    BY <1>4 DEF Inv, TypeOK
  <2>2. /\ "begun" \in FlushPlaces /\ "main" \in Flushers
        /\ flush' = [flush EXCEPT !["main"].at = "begun"]
    BY DEF ReplayWal, FlushPlaces, Flushers
  <2> QED BY <2>1, <2>2, FlushMoves
<1>6. chainfile' \in [segments : OnDisk', events : Seq(Made)]
  BY <1>4 DEF ReplayWal, Inv, TypeOK
<1>7. timer = "none" /\ timer' = "waiting" /\ dirty'
  BY DEF Inv, BootOK, ReplayWal, TimerStarted
<1>8. TypeOK'
  BY <1>1, <1>3, <1>4, <1>5, <1>6, <1>7 DEF Inv, ReplayWal, TypeOK, Flushers
\* The timer that the replay has started has yet to fire.
<1>9. BootOK'
  <2>1. flush'["timer"].at = "idle" /\ flush'["sync"].at = "idle" /\ Quiet
    BY <1>5 DEF Inv, ReplayWal, TypeOK, BootOK, Booting, Flushers
  <2> QED BY <1>5, <1>7, <2>1 DEF ReplayWal, BootOK, Booting, Quiet
<1> QED BY <1>5, <1>8, <1>9 DEF Inv, ReplayWal, BusyOK, ReturnsOK, Flushers

LEMMA StartOK ==
  ASSUME Inv, Start
  PROVE  Inv'
<1>1. CASE DropWal
  <2>1. Made' = Made /\ OnDisk' = OnDisk /\ Len(prev) \in Nat
    BY <1>1 DEF DropWal, Made, OnDisk, Inv, TypeOK
  <2>2. TypeOK'
    BY <1>1, <2>1 DEF Inv, DropWal, TypeOK, Genesis
  <2> QED BY <1>1, <2>2 DEF Inv, DropWal, BusyOK, ReturnsOK, BootOK, Booting
<1>2. CASE EndReplay
  <2>1. Made' = Made /\ OnDisk' = OnDisk
    BY <1>2 DEF EndReplay, disk, Made, OnDisk
  <2>2. TypeOK'
    BY <1>2, <2>1 DEF Inv, EndReplay, TypeOK, disk
  <2> QED BY <1>2, <2>2 DEF Inv, EndReplay, disk, BusyOK, ReturnsOK, BootOK, Booting
<1>3. CASE RejectWal
  <2>1. Made' = Made /\ OnDisk' = OnDisk /\ Len(prev) \in Nat
    BY <1>3 DEF RejectWal, Made, OnDisk, Inv, TypeOK
  <2>2. TypeOK'
    BY <1>3, <2>1 DEF Inv, RejectWal, TypeOK, Genesis
  <2> QED BY <1>3, <2>2 DEF Inv, RejectWal, BusyOK, ReturnsOK, BootOK, Booting
<1> QED BY <1>1, <1>2, <1>3, BootOKs, ReplayWalOK DEF Start

LEMMA StepOK == Inv /\ [Next]_vars => Inv'
<1> SUFFICES ASSUME Inv, [Next]_vars PROVE Inv'
  OBVIOUS
<1>1. ASSUME NEW w \in Writers, Write(w) PROVE Inv'
  BY <1>1, BeginOK, WriteWalOK, ExtendOK, WriteColdOK, ListColdOK, CutHotOK, SetDirtyOK,
     StartTimerOK
  DEF Write
<1>2. ASSUME NEW t \in Flushers, FlushStep(t) PROVE Inv'
  BY <1>2, NothingToFlushOK, ReadSegmentsOK, ReadEventsOK, ReplaceFileOK, CleanOK, ClearWalOK,
     TimerEndsOK
  DEF FlushStep
<1>3. CASE UNCHANGED vars
  <2>1. Made' = Made /\ OnDisk' = OnDisk
    BY <1>3 DEF vars, disk, Made, OnDisk
  <2> QED BY <1>3, <2>1 DEF vars, disk, process, Inv, TypeOK, BusyOK, Quiet, ReturnsOK, BootOK,
                            Booting
<1> QED BY <1>1, <1>2, <1>3, LookSmallOK, ResetOK, TimerFiresOK, StoppingOK, StartOK DEF Next

LEMMA Invariance == Spec => []Inv
BY InitOK, StepOK, PTL DEF Spec

------------------------------------------------------------------------------
(* The theorems *)

\* No list of segments, in memory, in the chain file or in a flush under way,
\* ever names a file that is not on the disk, whoever writes, stops or boots.
THEOREM TypeCorrect == Spec => []TypeOK
<1>1. Inv => TypeOK
  BY DEF Inv
<1> QED BY <1>1, Invariance, PTL

\* Every boot, after whatever crash, ends with an empty write-ahead log: it has
\* been dropped, rejected, or cleared by the flush of its replay, which no other
\* thread can have made idle.
THEOREM BootsRetireWal == Spec => BootRetiresWal
<1>1. Inv /\ [Next]_vars =>
        [(phase \in {"loaded", "replaying"}) /\ phase' = "up" => wal' = Genesis]_vars
  <2> SUFFICES ASSUME Inv, Next, phase \in {"loaded", "replaying"}, phase' = "up"
               PROVE  wal' = Genesis
    BY DEF vars
  <2>1. DropWal \/ EndReplay \/ RejectWal
    BY DEF Next, Write, Begin, WriteWal, Extend, WriteCold, ListCold, CutHot, SetDirty,
           StartTimer, LookSmall, Reset,
           TimerFires, FlushStep, NothingToFlush, ReadSegments, ReadEvents, ReplaceFile, Clean,
           ClearWal, TimerEnds, Crash, Halt, BeginExit, EndExit, Start, Boot, ReplayWal,
           disk, process, Running
  <2> QED BY <2>1 DEF Inv, BootOK, DropWal, EndReplay, RejectWal, disk
<1> QED BY <1>1, Invariance, PTL DEF Spec, BootRetiresWal

------------------------------------------------------------------------------
(* The durable log *)

\* One thread writes, every replay comes in time, nothing outgrows the hot window, and
\* the process stops by crashing: at a clean exit the flush of the timer may overwrite
\* that of the exit with what it read before.
OneWriter == /\ Writers \subseteq {"api"} /\ ~MayBeLate
             /\ MaxEvents <= MaxChainMemory /\ MaxExits = 0

\* Of any chain: each event links to the one before it, which is older.
Backward == \A e \in 1 .. Len(prev) : prev[e] < e
Chained(c) ==
  \A i \in 1 .. Len(c) : /\ c[i] >= i
                         /\ prev[c[i]] = (IF i = 1 THEN Genesis ELSE c[i - 1])
                         /\ \A j \in 1 .. i - 1 : c[j] < c[i]

\* The event of a writer or of the write-ahead log against the chain.
Follows(e) == prev[e] = LastOf(events)
Beyond(e) == prev[e] # Genesis /\ prev[e] \notin Range(events)

WritingOK ==
  \A w \in Writers : /\ writer[w].at \notin {"spill", "list", "cut"}
                     /\ writer[w].at \in {"made", "logged"} => Follows(writer[w].event)

\* What a flush has read is between the chain file and the chain, and two flushes at
\* once have read the same: only a replay flushes beside the timer.
Between(c) == IsPrefix(chainfile.events, c) /\ IsPrefix(c, events)
FlushingOK ==
  /\ flush["sync"].at = "idle"
  /\ phase # "replaying" => flush["main"].at = "idle"
  /\ \A t \in Flushers : flush[t].at = "encoded" =>
        /\ Between(flush[t].events)
        /\ phase = "replaying" => flush[t].events = events

\* The event of the write-ahead log is on the chain or about to be; once the process has
\* stopped it may also follow the chain, or an event that the chain has lost.
WalOK ==
  \/ wal = Genesis
  \/ wal \in Range(events)
  \/ phase \in {"down", "loaded"} /\ (Follows(wal) \/ Beyond(wal))
  \/ \E w \in Writers : writer[w].at = "logged" /\ writer[w].event = wal

ChainOK == Backward /\ Chained(events) /\ IsPrefix(chainfile.events, events)

LogInv == ChainOK /\ WritingOK /\ FlushingOK /\ WalOK /\ phase # "exiting"

LEMMA LastIs ==
  ASSUME NEW k \in Nat, NEW c \in Seq(1 .. k)
  PROVE  /\ LastOf(c) = (IF Len(c) = 0 THEN Genesis ELSE c[Len(c)])
         /\ Len(c) \in Nat /\ LastOf(c) \in 0 .. k
         /\ \A i \in 1 .. Len(c) : c[i] \in 1 .. k
         /\ LastOf(c) # Genesis => LastOf(c) \in Range(c)
BY DEF LastOf, Last, Genesis, Range

\* An event that is made of the end of a chain makes a longer one.
LEMMA ChainedAppend ==
  ASSUME NEW k \in Nat, Len(prev) = k, Backward, NEW c \in Seq(1 .. k), Chained(c),
         NEW e \in 1 .. k, prev[e] = LastOf(c)
  PROVE  e \notin Range(c) /\ Chained(Append(c, e))
<1>1. /\ LastOf(c) = (IF Len(c) = 0 THEN Genesis ELSE c[Len(c)])
      /\ Len(c) \in Nat /\ \A i \in 1 .. Len(c) : c[i] \in 1 .. k
  BY LastIs
<1>2. LastOf(c) < e
  BY DEF Backward
<1>3. \A i \in 1 .. Len(c) : c[i] < e
  <2> SUFFICES ASSUME NEW i \in 1 .. Len(c) PROVE c[i] < e
    OBVIOUS
  <2>1. c[i] <= c[Len(c)]
    <3>1. Len(c) \in 1 .. Len(c) /\ (i = Len(c) \/ i \in 1 .. Len(c) - 1)
      BY <1>1
    <3>2. i \in 1 .. Len(c) - 1 => c[i] < c[Len(c)]
      BY <3>1 DEF Chained
    <3> QED BY <1>1, <3>1, <3>2
  <2>2. c[Len(c)] = LastOf(c) /\ Len(c) \in 1 .. Len(c)
    BY <1>1
  <2> QED BY <1>1, <1>2, <2>1, <2>2
<1>4. e \notin Range(c)
  <2>1. \A i \in DOMAIN c : i \in 1 .. Len(c)
    OBVIOUS
  <2> QED BY <1>1, <1>3, <2>1 DEF Range
<1>5. e >= Len(c) + 1
  <2>1. CASE Len(c) = 0
    BY <2>1
  <2>2. CASE Len(c) # 0
    <3>1. Len(c) \in 1 .. Len(c)
      BY <1>1, <2>2
    <3>2. c[Len(c)] >= Len(c) /\ c[Len(c)] < e
      BY <1>3, <3>1 DEF Chained
    <3> QED BY <1>1, <3>1, <3>2
  <2> QED BY <2>1, <2>2
<1> DEFINE d == Append(c, e)
<1>6. /\ Len(d) = Len(c) + 1 /\ d[Len(c) + 1] = e
      /\ \A i \in 1 .. Len(c) : d[i] = c[i]
  BY Appended
<1> HIDE DEF d
<1>7. ASSUME NEW i \in 1 .. Len(c) + 1
      PROVE  /\ d[i] >= i
             /\ prev[d[i]] = (IF i = 1 THEN Genesis ELSE d[i - 1])
             /\ \A j \in 1 .. i - 1 : d[j] < d[i]
  <2>1. CASE i = Len(c) + 1
    <3>1. \A j \in 1 .. i - 1 : d[j] < d[i]
      BY <1>1, <1>3, <1>6, <2>1
    <3>2. prev[d[i]] = (IF i = 1 THEN Genesis ELSE d[i - 1])
      <4>1. CASE Len(c) = 0
        BY <1>1, <1>6, <2>1, <4>1
      <4>2. CASE Len(c) # 0
        <5>1. i - 1 = Len(c) /\ Len(c) \in 1 .. Len(c) /\ i # 1
          BY <1>1, <2>1, <4>2
        <5> QED BY <1>1, <1>6, <2>1, <4>2, <5>1
      <4> QED BY <4>1, <4>2
    <3> QED BY <1>5, <1>6, <2>1, <3>1, <3>2
  <2>2. CASE i # Len(c) + 1
    <3>1. i \in 1 .. Len(c) /\ (i # 1 => i - 1 \in 1 .. Len(c))
          /\ \A j \in 1 .. i - 1 : j \in 1 .. Len(c)
      BY <1>1, <2>2
    <3>2. /\ c[i] >= i /\ prev[c[i]] = (IF i = 1 THEN Genesis ELSE c[i - 1])
          /\ \A j \in 1 .. i - 1 : c[j] < c[i]
      BY <3>1 DEF Chained
    <3> QED BY <1>6, <3>1, <3>2
  <2> QED BY <2>1, <2>2
<1> QED BY <1>4, <1>6, <1>7 DEF Chained, d

\* The first events of a chain are one.
LEMMA ChainedPrefix ==
  ASSUME NEW k \in Nat, NEW c \in Seq(1 .. k), NEW d \in Seq(1 .. k), Chained(d),
         IsPrefix(c, d)
  PROVE  Chained(c)
<1>1. Len(c) <= Len(d) /\ \A i \in 1 .. Len(c) : d[i] = c[i]
  BY PrefixIs
<1>2. Len(c) \in Nat /\ Len(d) \in Nat
  OBVIOUS
<1>3. ASSUME NEW i \in 1 .. Len(c)
      PROVE  /\ c[i] >= i /\ prev[c[i]] = (IF i = 1 THEN Genesis ELSE c[i - 1])
             /\ \A j \in 1 .. i - 1 : c[j] < c[i]
  <2>1. i \in 1 .. Len(d) /\ (i # 1 => i - 1 \in 1 .. Len(c))
        /\ \A j \in 1 .. i - 1 : j \in 1 .. Len(c)
    BY <1>1, <1>2
  <2>2. /\ d[i] >= i /\ prev[d[i]] = (IF i = 1 THEN Genesis ELSE d[i - 1])
        /\ \A j \in 1 .. i - 1 : d[j] < d[i]
    BY <2>1 DEF Chained
  <2> QED BY <1>1, <2>1, <2>2
<1> QED BY <1>3 DEF Chained

\* A chain has no more events than were made, and so nothing overflows.
LEMMA NoOverflow ==
  ASSUME OneWriter, TypeOK, NEW c \in Seq(Made), Chained(c)
  PROVE  Overflow(c) = 0 /\ Hot(c) = c /\ Len(c) <= Len(prev)
<1>1. c \in Seq(1 .. Len(prev)) /\ Len(prev) \in Nat /\ Len(prev) <= MaxEvents
  BY DEF TypeOK, Made
<1>2. Len(c) <= Len(prev)
  <2>1. CASE Len(c) = 0
    BY <1>1, <2>1
  <2>2. CASE Len(c) # 0
    <3>1. Len(c) \in 1 .. Len(c)
      BY <1>1, <2>2
    <3>2. c[Len(c)] \in 1 .. Len(prev) /\ c[Len(c)] >= Len(c)
      BY <1>1, <3>1 DEF Chained
    <3> QED BY <1>1, <3>1, <3>2
  <2> QED BY <2>1, <2>2
<1>3. Overflow(c) = 0
  BY <1>1, <1>2, StoreAssumption DEF Overflow, OneWriter
<1>4. Hot(c) = c
  BY <1>1, <1>3 DEF Hot, Without
<1> QED BY <1>2, <1>3, <1>4

\* What the invariants say of the chain and of the disk.
LEMMA LogHolds ==
  ASSUME TypeOK, LogInv
  PROVE  /\ Len(prev) \in Nat /\ Made = 1 .. Len(prev)
         /\ events \in Seq(1 .. Len(prev)) /\ chainfile.events \in Seq(1 .. Len(prev))
         /\ Chained(events) /\ Chained(chainfile.events) /\ Backward
         /\ IsPrefix(chainfile.events, events)
         /\ \A t \in Flushers : flush[t].events \in Seq(1 .. Len(prev))
<1>1. /\ Len(prev) \in Nat /\ Made = 1 .. Len(prev)
      /\ events \in Seq(1 .. Len(prev)) /\ chainfile.events \in Seq(1 .. Len(prev))
  BY DEF TypeOK, Made
<1>2. Chained(events) /\ IsPrefix(chainfile.events, events) /\ Backward
  BY DEF LogInv, ChainOK
<1>3. Chained(chainfile.events)
  BY <1>1, <1>2, ChainedPrefix
<1> QED BY <1>1, <1>2, <1>3, FlushHolds DEF Made

\* An event that the log does not hold joins it.
LEMMA JoinsLog ==
  ASSUME NEW e \in Ids, e \notin Range(Known), Known' = Append(Known, e),
         chainfile' = chainfile
  PROVE  Durable!Next
<1>1. Durable!Range(Known) = Range(Known)
  BY DEF Durable!Range, Range
<1> QED BY <1>1 DEF Durable!Next, Durable!Write

\* A step that stays away from the chain and the log.
LEMMA KnownStays ==
  ASSUME UNCHANGED <<prev, events, wal, phase>>
  PROVE  Known' = Known
BY DEF Known, Replayable

LEMMA KnownIsEvents ==
  /\ phase # "loaded" => Known = events
  /\ phase' # "loaded" => Known' = events'
BY DEF Known

\* The flush of a thread goes on and reads no event.
LEMMA FlushingStays ==
  ASSUME FlushingOK, NEW t \in Flushers, flush[t].at # "idle", flush'[t].at # "encoded",
         \A u \in Flushers \ {t} : flush'[u] = flush[u],
         UNCHANGED <<phase, events, chainfile>>
  PROVE  FlushingOK'
<1>1. t # "sync" /\ (phase # "replaying" => t # "main")
  BY DEF FlushingOK
<1>2. flush'["sync"].at = "idle" /\ (phase # "replaying" => flush'["main"].at = "idle")
  BY <1>1 DEF FlushingOK, Flushers
<1>3. \A u \in Flushers : flush'[u].at = "encoded" => u # t
  OBVIOUS
<1> QED BY <1>2, <1>3 DEF FlushingOK, Between

------------------------------------------------------------------------------
(* Writing *)

LEMMA BeginLog ==
  ASSUME OneWriter, Inv, Inv', LogInv, NEW w \in Writers, Begin(w)
  PROVE  LogInv' /\ Known' = Known /\ chainfile' = chainfile
<1> DEFINE k == Len(prev)
<1>1. /\ k \in Nat /\ prev \in Seq(0 .. MaxEvents) /\ events \in Seq(1 .. k)
      /\ wal \in 0 .. k /\ \A x \in Writers : writer[x].event \in 0 .. k
  BY WriterHolds DEF Inv, TypeOK, Made
<1>2. LastOf(events) \in 0 .. k /\ LastOf(events) \in 0 .. MaxEvents
  <2>1. TypeOK /\ k <= MaxEvents
    BY DEF Inv, TypeOK
  <2> QED BY <1>1, <2>1, LastIn, StoreAssumption
<1>3. /\ prev' = Append(prev, LastOf(events)) /\ phase = "up" /\ phase' = "up"
      /\ UNCHANGED <<events, flush, chainfile, wal>>
  BY DEF Begin, disk, process
<1> HIDE DEF k
<1>4. /\ Len(prev') = k + 1 /\ prev'[k + 1] = LastOf(events)
      /\ \A e \in 1 .. k : prev'[e] = prev[e]
  <2>1. Len(prev) = k
    BY DEF k
  <2> QED BY <1>2, <1>3, <1>1, <2>1, Appended
<1>5. Backward'
  <2>1. \A e \in 1 .. k : prev[e] < e
    BY DEF LogInv, ChainOK, Backward, k
  <2>2. \A e \in 1 .. k + 1 : prev'[e] < e
    <3>1. \A e \in 1 .. k + 1 : e = k + 1 \/ e \in 1 .. k
      BY <1>1
    <3>2. LastOf(events) < k + 1
      BY <1>1, <1>2
    <3> QED BY <1>4, <2>1, <3>1, <3>2
  <2> QED BY <1>4, <2>2 DEF Backward
<1>6. Chained(events)'
  <2>1. \A i \in 1 .. Len(events) : events[i] \in 1 .. k
    BY <1>1
  <2> QED BY <1>3, <1>4, <2>1 DEF LogInv, ChainOK, Chained
<1>7. WritingOK'
  <2>1. writer' = [writer EXCEPT ![w] = [at |-> IF w = "api" THEN "made" ELSE "logged",
                                         event |-> k + 1, cold |-> <<>>, file |-> 0]]
    BY DEF Begin, k
  <2>2. \A x \in Writers : x = w
    BY DEF OneWriter
  <2>3. w \in DOMAIN writer
    BY DEF Inv, TypeOK
  <2>4. writer'[w].at \in {"made", "logged"} /\ writer'[w].event = k + 1
    BY <2>1, <2>3
  <2> QED BY <1>3, <1>4, <2>2, <2>4 DEF WritingOK, Follows
<1>8. FlushingOK'
  BY <1>3 DEF LogInv, FlushingOK, Between
<1>9. WalOK'
  <2>1. wal = Genesis \/ wal \in Range(events)
    <3>1. \A x \in Writers : x = w /\ writer[x].at = "idle"
      BY DEF OneWriter, Begin
    <3> QED BY <1>3, <3>1 DEF LogInv, WalOK
  <2> QED BY <1>3, <2>1 DEF WalOK
<1> QED BY <1>3, <1>5, <1>6, <1>7, <1>8, <1>9, KnownIsEvents DEF LogInv, ChainOK

LEMMA WriteWalLog ==
  ASSUME OneWriter, Inv, LogInv, NEW w \in Writers, WriteWal(w)
  PROVE  LogInv' /\ Known' = Known /\ chainfile' = chainfile
<1>1. /\ phase' = phase /\ phase = "up" /\ wal' = writer[w].event
      /\ writer[w].at = "made" /\ UNCHANGED <<prev, events, flush, chainfile>>
  BY DEF WriteWal, process, Running, LogInv
<1>2. writer'[w].at = "logged" /\ writer'[w].event = writer[w].event
  <2>1. "logged" \in Places /\ writer' = [writer EXCEPT ![w].at = "logged"]
    BY DEF WriteWal, Places
  <2>2. writer \in [Writers -> WriterType(Len(prev))]
    BY DEF Inv, TypeOK
  <2> QED BY <2>1, <2>2, WriterMoves
<1>3. \A x \in Writers : x = w
  BY DEF OneWriter
<1>4. WritingOK' /\ WalOK'
  BY <1>1, <1>2, <1>3 DEF LogInv, WritingOK, Follows, WalOK
<1>5. FlushingOK' /\ ChainOK'
  BY <1>1 DEF LogInv, FlushingOK, Between, ChainOK, Backward, Chained
<1> QED BY <1>1, <1>4, <1>5, KnownIsEvents DEF LogInv

LEMMA ExtendLog ==
  ASSUME OneWriter, Inv, Inv', LogInv, NEW w \in Writers, Extend(w)
  PROVE  LogInv' /\ Durable!Next
<1> DEFINE e == writer[w].event
           k == Len(prev)
<1>1. /\ phase' = phase /\ phase = "up" /\ writer[w].at = "logged"
      /\ events' = Append(events, e) /\ UNCHANGED <<prev, flush, chainfile, wal>>
  BY DEF Extend, process, disk, Running, LogInv
<1>2. e \in 1 .. k /\ prev[e] = LastOf(events)
  BY <1>1, WriterHolds DEF Inv, BusyOK, Genesis, LogInv, WritingOK, Follows
<1>3. /\ k \in Nat /\ k <= MaxEvents /\ events \in Seq(1 .. k) /\ Made = 1 .. k
      /\ chainfile.events \in Seq(1 .. k) /\ Chained(events) /\ Backward
      /\ IsPrefix(chainfile.events, events)
      /\ \A t \in Flushers : flush[t].events \in Seq(1 .. k)
  BY LogHolds DEF Inv, TypeOK
<1> HIDE DEF e
<1>4. e \notin Range(events) /\ Chained(Append(events, e)) /\ events' \in Seq(1 .. k)
  <2>1. Len(prev) = k
    OBVIOUS
  <2>2. e \notin Range(events) /\ Chained(Append(events, e))
    <3> HIDE DEF k
    <3> QED BY <1>2, <1>3, <2>1, ChainedAppend
  <2> QED BY <1>1, <1>2, <1>3, <2>2
<1>5. Chained(events') /\ Chained(events)' /\ Backward'
  BY <1>1, <1>3, <1>4 DEF Chained, Backward
<1>6. Overflow(events') = 0
  BY <1>3, <1>4, <1>5, NoOverflow DEF Inv
<1>7. \A x \in Writers : x = w
  BY DEF OneWriter
<1>8. writer'[w].at = "save"
  <2>1. w \in DOMAIN writer
    BY DEF Inv, TypeOK
  <2> QED BY <1>6, <2>1 DEF Extend
<1>9. WritingOK'
  BY <1>7, <1>8 DEF WritingOK
<1>10. \A c \in Seq(1 .. k) : IsPrefix(c, events) => IsPrefix(c, events')
  BY <1>1, <1>2, <1>3, PrefixOrder
<1>11. ChainOK'
  BY <1>1, <1>3, <1>5, <1>10 DEF ChainOK
<1>12. FlushingOK'
  BY <1>1, <1>3, <1>10 DEF LogInv, FlushingOK, Between
<1>13. Range(events') = Range(events) \cup {e}
  <2>1. /\ Len(events') = Len(events) + 1 /\ events'[Len(events) + 1] = e
        /\ \A i \in 1 .. Len(events) : events'[i] = events[i]
    BY <1>1, <1>2, <1>3, Appended
  <2>2. /\ DOMAIN events = 1 .. Len(events) /\ Len(events) \in Nat
        /\ DOMAIN events' = 1 .. Len(events) + 1
    BY <1>3, <1>4, <2>1
  <2>3. \A i : i \in 1 .. Len(events) + 1 <=> i \in 1 .. Len(events) \/ i = Len(events) + 1
    BY <2>2
  <2> QED BY <2>1, <2>2, <2>3 DEF Range
<1>14. WalOK'
  BY <1>1, <1>7, <1>13 DEF LogInv, WalOK, e
<1>15. Durable!Next
  <2>1. Known = events /\ Known' = events' /\ e \in Ids
    BY <1>1, <1>2, <1>3, KnownIsEvents, StoreAssumption DEF Ids
  <2> QED BY <1>1, <1>4, <2>1, JoinsLog
<1> QED BY <1>1, <1>9, <1>11, <1>12, <1>14, <1>15 DEF LogInv

LEMMA SetDirtyLog ==
  ASSUME OneWriter, Inv, LogInv, NEW w \in Writers, SetDirty(w)
  PROVE  LogInv' /\ Known' = Known /\ chainfile' = chainfile
<1>1. /\ phase' = phase /\ phase = "up" /\ writer[w].at = "save"
      /\ UNCHANGED <<prev, events, flush, chainfile, wal>>
  BY DEF SetDirty, process, disk, Running, LogInv
<1>2. writer'[w].at = "marked" /\ \A x \in Writers : x = w
  <2>1. w \in DOMAIN writer /\ writer[w] \in WriterType(Len(prev))
    BY DEF Inv, TypeOK
  <2> QED BY <2>1 DEF SetDirty, OneWriter, WriterType
<1>3. WritingOK' /\ WalOK'
  BY <1>1, <1>2 DEF LogInv, WritingOK, WalOK
<1>4. FlushingOK' /\ ChainOK'
  BY <1>1 DEF LogInv, FlushingOK, Between, ChainOK, Backward, Chained
<1> QED BY <1>1, <1>3, <1>4, KnownIsEvents DEF LogInv

LEMMA StartTimerLog ==
  ASSUME OneWriter, Inv, LogInv, NEW w \in Writers, StartTimer(w)
  PROVE  LogInv' /\ Known' = Known /\ chainfile' = chainfile
<1>1. /\ phase' = phase /\ phase = "up" /\ writer[w].at = "marked"
      /\ UNCHANGED <<prev, events, flush, chainfile, wal>>
  BY DEF StartTimer, process, disk, Running, LogInv
<1>2. writer'[w].at = "idle" /\ \A x \in Writers : x = w
  <2>1. w \in DOMAIN writer
    BY DEF Inv, TypeOK
  <2> QED BY <2>1 DEF StartTimer, Resting, OneWriter
<1>3. WritingOK' /\ WalOK'
  BY <1>1, <1>2 DEF LogInv, WritingOK, WalOK
<1>4. FlushingOK' /\ ChainOK'
  BY <1>1 DEF LogInv, FlushingOK, Between, ChainOK, Backward, Chained
<1> QED BY <1>1, <1>3, <1>4, KnownIsEvents DEF LogInv

------------------------------------------------------------------------------
(* Flushing *)

\* Every step of a flush but the write of the file.
LEMMA FlushLog ==
  ASSUME OneWriter, Inv, LogInv, NEW t \in Flushers,
         \/ NothingToFlush(t) \/ ReadSegments(t) \/ ReadEvents(t)
         \/ Clean(t) \/ ClearWal(t) \/ TimerEnds(t)
  PROVE  LogInv' /\ Known' = Known /\ chainfile' = chainfile
<1>1. /\ flush[t].at # "idle" /\ t # "sync" /\ phase \notin {"loaded", "down"}
      /\ UNCHANGED <<prev, events, chainfile, phase>>
  <2>1. flush[t].at # "idle" /\ UNCHANGED <<prev, events, chainfile, phase>>
    BY DEF NothingToFlush, ReadSegments, ReadEvents, Clean, ClearWal, TimerEnds, disk, process
  <2>2. t # "sync" /\ (t = "main" => phase = "replaying")
    BY <2>1 DEF LogInv, FlushingOK
  <2>3. t = "timer" => timer # "none"
    BY <2>1 DEF Inv, TypeOK
  <2> QED BY <2>1, <2>2, <2>3 DEF Inv, BootOK, Flushers
<1>2. writer' = writer
  BY <1>1 DEF NothingToFlush, ReadSegments, ReadEvents, Clean, ClearWal, TimerEnds, Returns
<1>3. ChainOK' /\ WritingOK'
  BY <1>1, <1>2 DEF LogInv, ChainOK, Backward, Chained, WritingOK, Follows
<1>4. WalOK'
  <2>1. wal' = wal \/ wal' = Genesis
    BY DEF NothingToFlush, ReadSegments, ReadEvents, Clean, ClearWal, TimerEnds, disk, WalCleared
  <2> QED BY <1>1, <1>2, <2>1 DEF LogInv, WalOK, Follows, Beyond
<1>5. flush \in [Flushers -> FlushType(DOMAIN archive, Len(prev))] /\ t \in DOMAIN flush
  BY DEF Inv, TypeOK
<1>6. FlushingOK'
  <2>1. CASE ReadEvents(t)
    <3>1. /\ flush' = [flush EXCEPT ![t] = [at |-> "encoded", segments |-> flush[t].segments,
                                            events |-> events]]
      BY <2>1 DEF ReadEvents
    <3>2. flush'[t].events = events /\ \A u \in Flushers \ {t} : flush'[u] = flush[u]
      BY <1>5, <3>1
    <3>3. Between(events)
      <4>1. events \in Seq(Made) /\ IsPrefix(chainfile.events, events)
        BY DEF Inv, TypeOK, LogInv, ChainOK
      <4>2. Len(events) \in Nat
        BY <4>1
      <4>3. IsPrefix(events, events)
        BY <4>1, <4>2, PrefixIs
      <4> QED BY <4>1, <4>3 DEF Between
    <3>4. t # "sync" /\ (phase # "replaying" => t # "main")
      BY <1>1 DEF LogInv, FlushingOK
    <3>5. flush'["sync"].at = "idle" /\ (phase # "replaying" => flush'["main"].at = "idle")
      BY <3>2, <3>4 DEF LogInv, FlushingOK, Flushers
    <3>6. \A u \in Flushers : flush'[u].at = "encoded" =>
             /\ Between(flush'[u].events)
             /\ phase = "replaying" => flush'[u].events = events
      BY <3>2, <3>3 DEF LogInv, FlushingOK
    <3> QED BY <1>1, <3>5, <3>6 DEF FlushingOK, Between
  <2>2. CASE ~ ReadEvents(t)
    <3>1. flush'[t].at # "encoded" /\ \A u \in Flushers \ {t} : flush'[u] = flush[u]
      <4>1. CASE ReadSegments(t)
        BY <1>5, <4>1 DEF ReadSegments
      <4>2. CASE TimerEnds(t)
        BY <1>5, <4>2 DEF TimerEnds, NotFlushing
      <4>3. CASE Clean(t)
        <5>1. "cleaned" \in FlushPlaces /\ flush' = [flush EXCEPT ![t].at = "cleaned"]
          BY <4>3 DEF Clean, FlushPlaces
        <5>2. flush \in [Flushers -> FlushType(DOMAIN archive, Len(prev))]
          BY <1>5
        <5>3. /\ flush'[t].at = "cleaned" /\ \A u \in Flushers \ {t} : flush'[u] = flush[u]
          BY <5>1, <5>2, FlushMoves
        <5> QED BY <5>3
      <4>4. CASE NothingToFlush(t) \/ ClearWal(t)
        <5>1. Returns(t)
          BY <4>4 DEF NothingToFlush, ClearWal
        <5> QED BY <5>1, ReturnsStep
      <4> QED BY <2>2, <4>1, <4>2, <4>3, <4>4
    <3> QED BY <1>1, <3>1, FlushingStays DEF LogInv
  <2> QED BY <2>1, <2>2
<1> QED BY <1>1, <1>3, <1>4, <1>6, KnownIsEvents DEF LogInv

\* What a flush writes extends the chain file, also when another has written since
\* this one read.
LEMMA ReplaceFileLog ==
  ASSUME OneWriter, Inv, LogInv, NEW t \in Flushers, ReplaceFile(t)
  PROVE  LogInv' /\ Durable!Next
<1> DEFINE k == Len(prev)
           c == flush[t].events
<1>1. /\ flush[t].at = "encoded" /\ chainfile'.events = c
      /\ UNCHANGED <<prev, events, writer, wal, phase>>
  BY DEF ReplaceFile, process
<1>2. t # "sync" /\ phase \notin {"loaded", "down"} /\ (t = "main" => phase = "replaying")
  <2>1. t # "sync" /\ (t = "main" => phase = "replaying")
    BY <1>1 DEF LogInv, FlushingOK
  <2>2. t = "timer" => timer # "none"
    BY <1>1 DEF Inv, TypeOK
  <2> QED BY <2>1, <2>2 DEF Inv, BootOK, Flushers
<1>3. /\ IsPrefix(chainfile.events, c) /\ IsPrefix(c, events)
      /\ phase = "replaying" => c = events
  BY <1>1 DEF LogInv, FlushingOK, Between
<1>4. /\ k \in Nat /\ events \in Seq(1 .. k) /\ c \in Seq(1 .. k)
      /\ \A u \in Flushers : flush[u].events \in Seq(1 .. k)
  BY LogHolds DEF Inv
<1>5. /\ flush'[t].at = "written" /\ \A u \in Flushers \ {t} : flush'[u] = flush[u]
  <2>1. "written" \in FlushPlaces /\ flush' = [flush EXCEPT ![t].at = "written"]
    BY DEF ReplaceFile, FlushPlaces
  <2>2. flush \in [Flushers -> FlushType(DOMAIN archive, Len(prev))]
    BY DEF Inv, TypeOK
  <2> QED BY <2>1, <2>2, FlushMoves
<1>6. ChainOK' /\ WritingOK' /\ WalOK'
  BY <1>1, <1>3 DEF LogInv, ChainOK, Backward, Chained, WritingOK, Follows, WalOK, Beyond
<1>7. FlushingOK'
  <2>1. flush'["sync"].at = "idle" /\ (phase # "replaying" => flush'["main"].at = "idle")
    BY <1>2, <1>5 DEF LogInv, FlushingOK, Flushers
  <2>2. ASSUME NEW u \in Flushers, flush'[u].at = "encoded"
        PROVE  /\ IsPrefix(c, flush[u].events) /\ IsPrefix(flush[u].events, events)
               /\ flush'[u] = flush[u] /\ phase = "replaying" /\ flush[u].events = events
    <3>1. u # t /\ flush'[u] = flush[u]
      BY <1>5, <2>2
    <3>2. phase = "replaying"
      BY <1>2, <2>1, <2>2, <3>1 DEF Flushers
    <3>3. flush[u].events = events /\ c = events
      BY <1>3, <2>2, <3>1, <3>2 DEF LogInv, FlushingOK
    <3>4. IsPrefix(events, events)
      BY <1>3, <1>4, <3>3
    <3> QED BY <3>1, <3>2, <3>3, <3>4
  <2> QED BY <1>1, <2>1, <2>2 DEF FlushingOK, Between
<1>8. Known = events /\ Known' = Known
  BY <1>1, <1>2, KnownIsEvents
<1>9. Durable!Sync
  BY <1>1, <1>3, <1>8 DEF Durable!Sync, Durable!IsPrefix, IsPrefix
<1> QED BY <1>1, <1>6, <1>7, <1>9 DEF LogInv, Durable!Next

LEMMA TimerFiresLog ==
  ASSUME OneWriter, Inv, LogInv, TimerFires
  PROVE  LogInv' /\ Known' = Known /\ chainfile' = chainfile
<1>1. UNCHANGED <<prev, events, writer, wal, phase, chainfile>>
  BY DEF TimerFires, disk, process
<1>2. /\ flush'["timer"].at = "begun"
      /\ \A u \in Flushers \ {"timer"} : flush'[u] = flush[u]
  <2>1. "begun" \in FlushPlaces /\ "timer" \in Flushers
        /\ flush' = [flush EXCEPT !["timer"].at = "begun"]
    BY DEF TimerFires, FlushPlaces, Flushers
  <2>2. flush \in [Flushers -> FlushType(DOMAIN archive, Len(prev))]
    BY DEF Inv, TypeOK
  <2> QED BY <2>1, <2>2, FlushMoves
<1>3. ChainOK' /\ WritingOK' /\ WalOK'
  BY <1>1 DEF LogInv, ChainOK, Backward, Chained, WritingOK, Follows, WalOK, Beyond
<1>4. FlushingOK'
  BY <1>1, <1>2 DEF LogInv, FlushingOK, Between, Flushers
<1> QED BY <1>1, <1>3, <1>4, KnownStays DEF LogInv

------------------------------------------------------------------------------
(* Stopping and starting *)

\* What the write-ahead log adds to the chain makes a longer one.
LEMMA ReplayedChain ==
  ASSUME Inv, LogInv, Replayable(wal)
  PROVE  /\ wal \in 1 .. Len(prev) /\ wal \in Ids /\ wal \notin Range(events)
         /\ Append(events, wal) \in Seq(1 .. Len(prev))
         /\ Chained(Append(events, wal))
         /\ IsPrefix(chainfile.events, Append(events, wal))
         /\ wal \in Range(Append(events, wal))
<1> DEFINE k == Len(prev)
<1>1. /\ k \in Nat /\ k <= MaxEvents /\ events \in Seq(1 .. k)
      /\ chainfile.events \in Seq(1 .. k) /\ Chained(events) /\ Backward
      /\ IsPrefix(chainfile.events, events) /\ wal \in 0 .. k
  BY LogHolds DEF Inv, TypeOK
<1>2. wal \in 1 .. k /\ wal \notin Range(events) /\ prev[wal] = LastOf(events) /\ Len(prev) = k
  BY <1>1 DEF Replayable, Genesis
<1>3. wal \in Ids
  BY <1>1, <1>2, StoreAssumption DEF Ids
<1> HIDE DEF k
<1>4. Chained(Append(events, wal))
  BY <1>1, <1>2, ChainedAppend
<1>5. IsPrefix(chainfile.events, Append(events, wal))
  BY <1>1, <1>2, PrefixOrder
<1>6. /\ Append(events, wal) \in Seq(1 .. k) /\ Len(Append(events, wal)) = Len(events) + 1
      /\ Append(events, wal)[Len(events) + 1] = wal
  BY <1>1, <1>2, Appended
<1>7. wal \in Range(Append(events, wal))
  <2>1. Len(events) + 1 \in DOMAIN Append(events, wal)
    BY <1>1, <1>6
  <2> QED BY <1>6, <2>1 DEF Range
<1> QED BY <1>2, <1>3, <1>4, <1>5, <1>6, <1>7 DEF k

\* Once the process has stopped, no thread writes or flushes.
LEMMA Silent ==
  ASSUME writer' = [w \in Writers |-> Resting], flush' = [t \in Flushers |-> NotFlushing]
  PROVE  WritingOK' /\ FlushingOK'
BY DEF WritingOK, FlushingOK, Resting, NotFlushing, Flushers

LEMMA CrashLog ==
  ASSUME OneWriter, Inv, LogInv, Crash
  PROVE  LogInv' /\ Known' = Known /\ chainfile' = chainfile
<1>1. /\ phase # "down" /\ phase' = "down" /\ events' = Known /\ Known' = Known
      /\ UNCHANGED <<prev, chainfile, wal>>
      /\ writer' = [w \in Writers |-> Resting]
      /\ flush' = [t \in Flushers |-> NotFlushing]
  BY KnownIsEvents DEF Crash, Halt, disk
<1>2. CASE phase = "loaded" /\ Replayable(wal)
  <2>1. events' = Append(events, wal)
    BY <1>1, <1>2 DEF Known
  <2>2. /\ wal \in Range(events') /\ Chained(events') /\ IsPrefix(chainfile.events, events')
    BY <1>2, <2>1, ReplayedChain
  <2>3. WalOK' /\ ChainOK'
    BY <1>1, <2>2 DEF LogInv, ChainOK, Backward, Chained, WalOK
  <2> QED BY <1>1, <2>3, Silent DEF LogInv
<1>3. CASE ~ (phase = "loaded" /\ Replayable(wal))
  <2>1. events' = events
    BY <1>1, <1>3 DEF Known
  <2>2. WalOK'
    <3>1. CASE \E w \in Writers : writer[w].at = "logged" /\ writer[w].event = wal
      <4>1. Follows(wal)
        BY <3>1 DEF LogInv, WritingOK
      <4> QED BY <1>1, <2>1, <4>1 DEF WalOK, Follows
    <3>2. CASE ~ \E w \in Writers : writer[w].at = "logged" /\ writer[w].event = wal
      BY <1>1, <2>1, <3>2 DEF LogInv, WalOK, Follows, Beyond
    <3> QED BY <3>1, <3>2
  <2>3. ChainOK'
    BY <1>1, <2>1 DEF LogInv, ChainOK, Backward, Chained
  <2> QED BY <1>1, <2>2, <2>3, Silent DEF LogInv
<1> QED BY <1>2, <1>3

\* Where a boot finds less of the chain, the event of the write-ahead log is on what is
\* left, follows it, or follows an event that is gone.
LEMMA CutWal ==
  ASSUME NEW k \in Nat, NEW c \in Seq(1 .. k), NEW d \in Seq(1 .. k), Chained(d),
         IsPrefix(c, d), NEW e,
         e \in Range(d) \/ prev[e] = LastOf(d) \/ (prev[e] # Genesis /\ prev[e] \notin Range(d))
  PROVE  \/ e \in Range(c) \/ prev[e] = LastOf(c)
         \/ prev[e] # Genesis /\ prev[e] \notin Range(c)
<1>1. Len(c) <= Len(d) /\ \A i \in 1 .. Len(c) : d[i] = c[i]
  BY PrefixIs
<1>2. /\ Len(c) \in Nat /\ Len(d) \in Nat /\ DOMAIN c = 1 .. Len(c) /\ DOMAIN d = 1 .. Len(d)
      /\ \A i \in 1 .. Len(d) : d[i] \in 1 .. k
  OBVIOUS
<1>3. Range(c) \subseteq Range(d)
  BY <1>1, <1>2 DEF Range
<1>4. CASE prev[e] # Genesis /\ prev[e] \notin Range(d)
  BY <1>3, <1>4
<1>5. ASSUME NEW j \in 1 .. Len(d), Len(c) < j
      PROVE  d[j] \notin Range(c) /\ d[j] # Genesis
  <2>1. \A i \in 1 .. Len(c) : i \in 1 .. j - 1
    BY <1>2, <1>5
  <2>2. \A i \in 1 .. Len(c) : c[i] < d[j] /\ c[i] \in 1 .. k
    BY <1>1, <1>2, <2>1 DEF Chained
  <2>3. d[j] \in 1 .. k
    BY <1>2
  <2> QED BY <1>2, <2>2, <2>3 DEF Range, Genesis
<1>6. CASE prev[e] = LastOf(d)
  <2>1. CASE Len(c) = Len(d)
    <3>1. LastOf(c) = LastOf(d)
      <4>1. /\ LastOf(c) = (IF Len(c) = 0 THEN Genesis ELSE c[Len(c)])
            /\ LastOf(d) = (IF Len(d) = 0 THEN Genesis ELSE d[Len(d)])
        BY LastIs
      <4>2. Len(c) # 0 => Len(c) \in 1 .. Len(c)
        BY <1>2
      <4> QED BY <1>1, <2>1, <4>1, <4>2
    <3> QED BY <1>6, <3>1
  <2>2. CASE Len(c) # Len(d)
    <3>1. Len(d) \in 1 .. Len(d) /\ Len(c) < Len(d)
      <4>1. Len(c) <= Len(d) /\ Len(c) \in Nat /\ Len(d) \in Nat
        BY <1>1, <1>2
      <4>2. Len(c) < Len(d)
        BY <2>2, <4>1
      <4> QED BY <4>1, <4>2
    <3>2. LastOf(d) = d[Len(d)]
      BY <3>1, LastIs
    <3> QED BY <1>5, <1>6, <3>1, <3>2
  <2> QED BY <2>1, <2>2
<1>7. CASE e \in Range(d)
  <2>1. PICK j \in 1 .. Len(d) : e = d[j]
    BY <1>2, <1>7 DEF Range
  <2>2. prev[e] = (IF j = 1 THEN Genesis ELSE d[j - 1])
    BY <2>1 DEF Chained
  <2>3. CASE j <= Len(c)
    <3>1. j \in 1 .. Len(c)
      BY <1>2, <2>3
    <3> QED BY <1>1, <1>2, <2>1, <3>1 DEF Range
  <2>4. CASE j = Len(c) + 1
    <3>1. LastOf(c) = (IF Len(c) = 0 THEN Genesis ELSE c[Len(c)])
      BY LastIs
    <3>2. Len(c) # 0 => Len(c) \in 1 .. Len(c) /\ j # 1 /\ j - 1 = Len(c)
      BY <1>2, <2>4
    <3> QED BY <1>1, <2>2, <2>4, <3>1, <3>2
  <2>5. CASE Len(c) + 1 < j
    <3>1. j - 1 \in 1 .. Len(d) /\ Len(c) < j - 1 /\ j # 1
      BY <1>2, <2>5
    <3> QED BY <1>5, <2>2, <3>1
  <2>6. j <= Len(c) \/ j = Len(c) + 1 \/ Len(c) + 1 < j
    BY <1>2
  <2> QED BY <2>3, <2>4, <2>5, <2>6
<1> QED BY <1>4, <1>6, <1>7

LEMMA BootLog ==
  ASSUME OneWriter, Inv, Inv', LogInv, Boot
  PROVE  LogInv' /\ [Durable!Next]_<<Known, chainfile.events>>
<1> DEFINE k == Len(prev)
           c == chainfile.events
<1>1. /\ k \in Nat /\ k <= MaxEvents /\ Made = 1 .. k
      /\ events \in Seq(1 .. k) /\ c \in Seq(1 .. k) /\ Chained(c) /\ Chained(events)
      /\ Backward /\ IsPrefix(c, events)
  BY LogHolds DEF Inv, TypeOK
<1>2. /\ phase = "down" /\ phase' = "loaded" /\ events' = Hot(c)
      /\ UNCHANGED <<prev, writer, chainfile, wal>>
  BY DEF Boot
<1>3. Overflow(c) = 0 /\ Hot(c) = c
  BY <1>1, NoOverflow DEF Inv
<1>4. events' = c /\ flush' = flush
  BY <1>2, <1>3 DEF Boot
<1>5. \A t \in Flushers : flush[t].at = "idle"
  BY <1>2 DEF Inv, TypeOK, BootOK, Booting, LogInv, FlushingOK, Flushers
<1>6. \A w \in Writers : writer[w].at = "idle"
  BY <1>2 DEF Inv, BootOK, Booting, Quiet
<1>7. WritingOK' /\ FlushingOK'
  BY <1>2, <1>4, <1>5, <1>6 DEF WritingOK, FlushingOK, Flushers
<1>8. IsPrefix(c, c)
  BY <1>1, PrefixOrder
<1>9. ChainOK'
  BY <1>1, <1>2, <1>4, <1>8 DEF ChainOK, Backward, Chained
<1>10. \/ wal = Genesis \/ wal \in Range(c) \/ prev[wal] = LastOf(c)
       \/ prev[wal] # Genesis /\ prev[wal] \notin Range(c)
  <2>1. \/ wal = Genesis \/ wal \in Range(events) \/ prev[wal] = LastOf(events)
        \/ prev[wal] # Genesis /\ prev[wal] \notin Range(events)
    BY <1>6 DEF LogInv, WalOK, Follows, Beyond
  <2> HIDE DEF c, k
  <2> QED BY <1>1, <2>1, CutWal
<1>11. WalOK'
  BY <1>2, <1>4, <1>10 DEF WalOK, Follows, Beyond
<1>12. LogInv'
  BY <1>2, <1>7, <1>9, <1>11 DEF LogInv
<1>13. Known = events
  BY <1>2, KnownIsEvents
\* Without a replay, or with that of the event that was next, part of the end is lost;
\* with that of another event, nothing was lost and it joins the log.
<1>14. [Durable!Next]_<<Known, chainfile.events>>
  <2>1. CASE ~ Replayable(wal)'
    <3>1. Known' = c
      BY <1>2, <1>4, <2>1 DEF Known
    <3>2. Durable!Recover
      BY <1>1, <1>2, <1>8, <1>13, <3>1 DEF Durable!Recover, Durable!IsPrefix, IsPrefix
    <3> QED BY <3>2 DEF Durable!Next
  <2>2. CASE Replayable(wal)'
    <3>1. Known' = Append(c, wal)
      BY <1>2, <1>4, <2>2 DEF Known
    <3>2. wal \in 1 .. k /\ wal # Genesis /\ wal \notin Range(c) /\ prev[wal] = LastOf(c)
      <4>1. wal \in 0 .. k
        BY DEF Inv, TypeOK
      <4> QED BY <1>1, <1>2, <1>4, <2>2, <4>1 DEF Replayable, Genesis
    <3>3. Len(c) <= Len(events) /\ \A i \in 1 .. Len(c) : events[i] = c[i]
      BY <1>1, PrefixIs
    <3>4. Len(c) \in Nat /\ Len(events) \in Nat
      BY <1>1
    <3>5. CASE Len(c) = Len(events)
      <4>1. c = events
        BY <1>1, <3>3, <3>4, <3>5, SeqEqual
      <4>2. wal \in Ids
        BY <1>1, <3>2, StoreAssumption DEF Ids
      <4> QED BY <1>2, <1>13, <3>1, <3>2, <4>1, <4>2, JoinsLog
    <3>6. CASE Len(c) < Len(events)
      <4>1. Len(c) + 1 \in 1 .. Len(events)
        BY <3>4, <3>6
      <4>2. wal = events[Len(c) + 1]
        <5>1. wal \in Range(events) \/ Follows(wal) \/ Beyond(wal)
          BY <1>6, <3>2 DEF LogInv, WalOK
        <5>2. LastOf(c) = (IF Len(c) = 0 THEN Genesis ELSE events[Len(c)])
          <6>1. Len(c) # 0 => Len(c) \in 1 .. Len(c)
            BY <3>4
          <6>2. LastOf(c) = (IF Len(c) = 0 THEN Genesis ELSE c[Len(c)])
            BY <1>1, LastIs
          <6> QED BY <3>3, <6>1, <6>2
        <5>3. DOMAIN events = 1 .. Len(events) /\ \A i \in 1 .. Len(events) : events[i] \in 1 .. k
          BY <1>1
        <5>4. ~ Beyond(wal)
          <6>1. Len(c) # 0 => Len(c) \in DOMAIN events
            BY <3>4, <3>6, <5>3
          <6> QED BY <3>2, <5>2, <6>1 DEF Beyond, Range
        <5>5. \A i \in 1 .. Len(events) : i # 1 => i - 1 \in 1 .. Len(events)
          BY <3>4
        <5>6. \A i, j \in 1 .. Len(events) : events[i] = events[j] => i = j
          <6> SUFFICES ASSUME NEW i \in 1 .. Len(events), NEW j \in 1 .. Len(events), i < j
                       PROVE  events[i] # events[j]
            BY <3>4
          <6>1. i \in 1 .. j - 1
            BY <3>4
          <6>2. events[i] < events[j]
            BY <1>1, <6>1 DEF Chained
          <6> QED BY <5>3, <6>2
        <5>7. ~ Follows(wal)
          <6>1. LastOf(events) = events[Len(events)] /\ Len(events) \in 1 .. Len(events)
            BY <1>1, <3>4, <3>6, LastIs
          <6>2. Len(c) # 0 => Len(c) \in 1 .. Len(events) /\ Len(c) # Len(events)
            BY <3>4, <3>6
          <6>3. events[Len(events)] # Genesis
            BY <5>3, <6>1 DEF Genesis
          <6> QED BY <3>2, <5>2, <5>6, <6>1, <6>2, <6>3 DEF Follows
        <5>8. PICK j \in 1 .. Len(events) : wal = events[j]
          BY <5>1, <5>3, <5>4, <5>7 DEF Range
        <5>9. prev[wal] = (IF j = 1 THEN Genesis ELSE events[j - 1])
          BY <1>1, <5>8 DEF Chained
        <5>10. j = Len(c) + 1
          <6>1. CASE j = 1
            <7>1. Len(c) # 0 => Len(c) \in 1 .. Len(events) /\ events[Len(c)] # Genesis
              <8>1. Len(c) # 0 => Len(c) \in 1 .. Len(events)
                BY <3>4, <3>6
              <8> QED BY <5>3, <8>1 DEF Genesis
            <7> QED BY <3>2, <3>4, <5>2, <5>9, <6>1, <7>1
          <6>2. CASE j # 1
            <7>1. j - 1 \in 1 .. Len(events) /\ events[j - 1] # Genesis
              BY <5>3, <5>5, <6>2 DEF Genesis
            <7>2. Len(c) # 0 /\ events[Len(c)] = events[j - 1]
              BY <3>2, <5>2, <5>9, <6>2, <7>1
            <7>3. Len(c) \in 1 .. Len(events)
              BY <3>4, <3>6, <7>2
            <7>4. Len(c) = j - 1
              BY <5>6, <7>1, <7>2, <7>3
            <7> QED BY <3>4, <7>4
          <6> QED BY <6>1, <6>2
        <5> QED BY <5>8, <5>10
      <4>3. /\ Append(c, wal) \in Seq(1 .. k) /\ Len(Append(c, wal)) = Len(c) + 1
            /\ Append(c, wal)[Len(c) + 1] = wal
            /\ \A i \in 1 .. Len(c) : Append(c, wal)[i] = c[i]
        BY <1>1, <3>2, Appended
      <4>4. IsPrefix(Append(c, wal), events)
        <5>1. \A i \in 1 .. Len(c) + 1 : i = Len(c) + 1 \/ i \in 1 .. Len(c)
          BY <3>4
        <5>2. \A i \in 1 .. Len(c) + 1 : events[i] = Append(c, wal)[i]
          BY <3>3, <4>2, <4>3, <5>1
        <5>3. Len(Append(c, wal)) <= Len(events)
          BY <3>4, <3>6, <4>3
        <5> QED BY <1>1, <4>3, <5>2, <5>3, PrefixIs
      <4>5. IsPrefix(c, Append(c, wal))
        BY <1>1, <1>8, <3>2, PrefixOrder
      <4>6. Durable!Recover
        BY <1>2, <1>13, <3>1, <4>4, <4>5 DEF Durable!Recover, Durable!IsPrefix, IsPrefix
      <4> QED BY <4>6 DEF Durable!Next
    <3> QED BY <3>3, <3>4, <3>5, <3>6
  <2> QED BY <2>1, <2>2
<1> QED BY <1>12, <1>14

LEMMA ReplayWalLog ==
  ASSUME OneWriter, Inv, LogInv, ReplayWal
  PROVE  LogInv' /\ Known' = Known /\ chainfile' = chainfile
<1> DEFINE d == Append(events, wal)
<1>1. /\ phase = "loaded" /\ phase' = "replaying" /\ Replayable(wal) /\ events' = Hot(d)
      /\ UNCHANGED <<prev, writer, chainfile, wal>>
  BY DEF ReplayWal
<1>2. /\ d \in Seq(Made) /\ Chained(d) /\ IsPrefix(chainfile.events, d) /\ wal \in Range(d)
  BY <1>1, ReplayedChain DEF Made
<1>3. events' = d
  <2> HIDE DEF d
  <2> QED BY <1>1, <1>2, NoOverflow DEF Inv
<1>4. Known = d /\ Known' = d
  BY <1>1, <1>3, KnownIsEvents DEF Known
<1>5. flush'["main"].at = "begun" /\ \A u \in Flushers \ {"main"} : flush'[u] = flush[u]
  <2>1. /\ "begun" \in FlushPlaces /\ "main" \in Flushers
        /\ flush' = [flush EXCEPT !["main"].at = "begun"]
    BY DEF ReplayWal, FlushPlaces, Flushers
  <2>2. flush \in [Flushers -> FlushType(DOMAIN archive, Len(prev))]
    BY DEF Inv, TypeOK
  <2> QED BY <2>1, <2>2, FlushMoves
<1>6. FlushingOK'
  <2>1. flush["timer"].at = "idle" /\ flush["sync"].at = "idle"
    BY <1>1 DEF Inv, TypeOK, BootOK, Booting
  <2> QED BY <1>1, <1>5, <2>1 DEF FlushingOK, Flushers
<1>7. WritingOK'
  <2>1. \A w \in Writers : writer[w].at = "idle"
    BY <1>1 DEF Inv, BootOK, Booting, Quiet
  <2> QED BY <1>1, <2>1 DEF WritingOK
<1> HIDE DEF d
<1>8. ChainOK' /\ WalOK'
  BY <1>1, <1>2, <1>3 DEF LogInv, ChainOK, Backward, Chained, WalOK
<1> QED BY <1>1, <1>4, <1>6, <1>7, <1>8 DEF LogInv

\* Nothing is replayed too late.
LEMMA StartLog ==
  ASSUME OneWriter, Inv, LogInv, DropWal \/ EndReplay
  PROVE  LogInv' /\ Known' = Known /\ chainfile' = chainfile
<1>1. /\ phase' = "up" /\ UNCHANGED <<prev, events, writer, flush, chainfile>>
      /\ phase \in {"loaded", "replaying"}
  BY DEF DropWal, EndReplay, disk
<1>2. Known = events /\ Known' = events
  <2>1. CASE DropWal
    BY <1>1, <2>1, KnownIsEvents DEF DropWal, Known
  <2>2. CASE EndReplay
    BY <1>1, <2>2, KnownIsEvents DEF EndReplay
  <2> QED BY <2>1, <2>2
<1>3. WalOK'
  BY DEF Inv, BootOK, DropWal, EndReplay, disk, WalOK
<1>4. ChainOK' /\ WritingOK'
  BY <1>1 DEF LogInv, ChainOK, Backward, Chained, WritingOK, Follows
<1>5. FlushingOK'
  <2>1. flush["main"].at = "idle"
    BY DEF DropWal, EndReplay
  <2> QED BY <1>1, <2>1 DEF LogInv, FlushingOK, Between
<1> QED BY <1>1, <1>2, <1>3, <1>4, <1>5 DEF LogInv

------------------------------------------------------------------------------
(* The refinement *)

LEMMA LogInit == Init => LogInv /\ Durable!Init
<1> SUFFICES ASSUME Init PROVE LogInv /\ Durable!Init
  OBVIOUS
<1>1. events = <<>> /\ chainfile.events = <<>> /\ prev = <<>> /\ Known = <<>>
  BY DEF Init, Known
<1>2. IsPrefix(<<>>, <<>>)
  BY DEF IsPrefix
<1>3. ChainOK
  BY <1>1, <1>2 DEF ChainOK, Backward, Chained
<1>4. WritingOK /\ FlushingOK /\ WalOK /\ phase # "exiting"
  BY DEF Init, WritingOK, FlushingOK, WalOK, Resting, NotFlushing, Flushers
<1> QED BY <1>1, <1>3, <1>4 DEF LogInv, Durable!Init

LEMMA LogStep ==
  ASSUME OneWriter, Inv, Inv', LogInv, [Next]_vars
  PROVE  LogInv' /\ [Durable!Next]_<<Known, chainfile.events>>
<1> DEFINE Stays == LogInv' /\ Known' = Known /\ chainfile' = chainfile
           Moves == LogInv' /\ Durable!Next
<1>1. ASSUME NEW w \in Writers, Write(w) PROVE Stays \/ Moves
  <2>1. ~ (WriteCold(w) \/ ListCold(w) \/ CutHot(w))
    BY DEF LogInv, WritingOK, WriteCold, ListCold, CutHot
  <2> QED BY <1>1, <2>1, BeginLog, WriteWalLog, ExtendLog, SetDirtyLog,
            StartTimerLog
         DEF Write
<1>2. ASSUME NEW t \in Flushers, FlushStep(t) PROVE Stays \/ Moves
  BY <1>2, FlushLog, ReplaceFileLog DEF FlushStep
<1>3. ~ (LookSmall \/ Reset \/ BeginExit \/ EndExit \/ RejectWal)
  BY DEF Inv, TypeOK, OneWriter, LogInv, LookSmall, Reset, BeginExit, EndExit, RejectWal
<1>4. CASE UNCHANGED vars
  <2>1. LogInv'
    BY <1>4 DEF vars, disk, process, LogInv, ChainOK, Backward, Chained, WritingOK, FlushingOK,
                Between, WalOK, Follows, Beyond
  <2>2. UNCHANGED <<prev, events, wal, phase, chainfile>>
    BY <1>4 DEF vars, disk, process
  <2> QED BY <2>1, <2>2, KnownStays
<1>5. CASE Next
  <2> HIDE DEF Stays, Moves
  <2>1. CASE Boot
    BY <2>1, BootLog
  <2>2. CASE ~ Boot
    <3>1. Stays \/ Moves
      <4>1. (TimerFires \/ Crash \/ ReplayWal \/ DropWal \/ EndReplay) => Stays
        BY TimerFiresLog, CrashLog, ReplayWalLog, StartLog DEF Stays
      <4> QED BY <1>1, <1>2, <1>3, <1>5, <2>2, <4>1 DEF Next, Start
    <3> QED BY <3>1 DEF Stays, Moves
  <2> QED BY <2>1, <2>2
<1> QED BY <1>4, <1>5

\* Crashes, boots and replays of the write-ahead log, at whatever step of a write, a
\* flush or an earlier boot, never lose what was flushed, invent an event, repeat one
\* or leave a gap.
THEOREM LogIsDurable == ASSUME OneWriter PROVE Spec => ImplementsDurableLog
<1>1. Init => Inv /\ LogInv /\ Durable!Init
  BY InitOK, LogInit
<1>2. (Inv /\ LogInv) /\ [Next]_vars => (Inv /\ LogInv)'
  BY StepOK, LogStep
<1>3. (Inv /\ LogInv) /\ [Next]_vars => [Durable!Next]_<<Known, chainfile.events>>
  BY StepOK, LogStep
<1> QED BY <1>1, <1>2, <1>3, PTL DEF Spec, ImplementsDurableLog, Durable!Spec

=============================================================================
