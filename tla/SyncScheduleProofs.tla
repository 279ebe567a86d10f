------------------------- MODULE SyncScheduleProofs -------------------------
(***************************************************************************)
(* Theorems about SyncSchedule, for every value of its constants.          *)
(***************************************************************************)
EXTENDS SyncSchedule, FiniteSetTheorems, TLAPS

------------------------------------------------------------------------------
(* The inductive invariant *)

\* What every operation on a worker's state stays in: all states, or those whose
\* delay is bounded.
Closed(S) ==
  /\ S \subseteq States /\ Fresh \in S
  /\ \A s \in S : /\ BeginSync(s) \in S /\ Older(s) \in S
                  /\ FinishOk(s, "ok") \in S /\ FinishOk(s, "solo") \in S
                  /\ FinishFailed(s, "error", Base, 0) \in S
                  /\ \A p \in Peers, answer \in Answers, outcome \in {"error", "fork"} :
                       FinishFailed(s, outcome, BackoffBase(p), RetryAfter(answer)) \in S

\* A thread's copies are like what they were copied from.
CycleOK(c, S) ==
  /\ c.at \in {"idle", "next", "waiting"}
  /\ c.at # "idle" =>
        /\ c.store \in Stores /\ c.state \in S
        /\ c.peers \in Seq(Peers) /\ Len(c.peers) \in 1 .. MaxPeers /\ IsInjective(c.peers)

Inv(S) ==
  /\ runtime \in S /\ file \in Stores
  /\ DOMAIN cycle = Threads /\ \A t \in Threads : CycleOK(cycle[t], S)
  /\ embargo \in [Peers -> 0 .. Clamp] /\ aborts \in 0 .. MaxAborts

------------------------------------------------------------------------------
(* The operators of SyncSchedule *)

LEMMA Numbers ==
  /\ Interval \in Nat \ {0} /\ Base \in Nat \ {0} /\ Cap \in Nat
  /\ Cooldown \in Nat /\ SeedCooldown \in Nat \ {0}
  /\ StaleAfter \in Nat \ {0} /\ Clamp \in Nat /\ Waits \subseteq Nat
  /\ MaxFailures \in Nat \ {0} /\ MaxAborts \in Nat /\ MaxPeers \in Nat \ {0}
BY TimesAssumption, PeersAssumption

\* A queue holds some of the eligible peers, each once.
LEMMA QueueIs ==
  ASSUME NEW store, Eligible(store) # {}, NEW q \in Queues(store)
  PROVE  q \in Seq(Peers) /\ Len(q) \in 1 .. MaxPeers /\ IsInjective(q)
<1> DEFINE E == Eligible(store)
           n == Cardinality(E)
<1>1. E \subseteq Peers /\ IsFiniteSet(E)
  BY FS_Subset, PeersAssumption DEF Eligible
<1>2. n \in Nat /\ n # 0
  BY <1>1, FS_CardinalityType, FS_EmptySet
<1>3. PICK f \in SetToSeqs(E) : q = SubSeq(f, 1, Least(MaxPeers, Len(f)))
  BY DEF Queues
<1>4. f \in [1 .. n -> E] /\ \A i, j \in 1 .. n : i # j => f[i] # f[j]
  BY <1>3 DEF SetToSeqs
<1> HIDE DEF n, E
<1>5. f \in Seq(Peers) /\ Len(f) = n
  BY <1>1, <1>2, <1>4
<1> DEFINE l == Least(MaxPeers, Len(f))
<1>6. l \in 1 .. MaxPeers /\ l \in 0 .. n
  BY <1>2, <1>5, Numbers DEF Least
<1> HIDE DEF l
<1>7. q \in Seq(Peers) /\ Len(q) = l /\ \A i \in 1 .. l : q[i] = f[i]
  BY <1>2, <1>3, <1>5, <1>6 DEF l
<1>8. IsInjective(q)
  <2>1. DOMAIN q = 1 .. l /\ \A i \in 1 .. l : i \in 1 .. n
    BY <1>2, <1>6, <1>7
  <2> QED BY <1>4, <1>7, <2>1 DEF IsInjective
<1> QED BY <1>6, <1>7, <1>8

\* What is left of a queue is one too, if anything is.
LEMMA QueueLeft ==
  ASSUME NEW q \in Seq(Peers), Len(q) \in 1 .. MaxPeers, IsInjective(q), Tail(q) # <<>>
  PROVE  /\ Tail(q) \in Seq(Peers) /\ Len(Tail(q)) \in 1 .. MaxPeers
         /\ IsInjective(Tail(q))
<1>1. q # <<>> /\ Len(q) \in Nat /\ DOMAIN q = 1 .. Len(q)
  OBVIOUS
<1>2. /\ Tail(q) \in Seq(Peers) /\ Len(Tail(q)) = Len(q) - 1
      /\ \A i \in 1 .. Len(q) - 1 : Tail(q)[i] = q[i + 1]
  BY <1>1
<1>3. Len(q) - 1 # 0
  BY <1>2
<1>4. IsInjective(Tail(q))
  <2>1. DOMAIN Tail(q) = 1 .. Len(q) - 1 /\ \A i \in 1 .. Len(q) - 1 : i + 1 \in 1 .. Len(q)
    BY <1>1, <1>2
  <2>2. \A i, j \in 1 .. Len(q) - 1 : q[i + 1] = q[j + 1] => i + 1 = j + 1
    BY <1>1, <2>1 DEF IsInjective
  <2>3. \A i, j \in 1 .. Len(q) - 1 : i + 1 = j + 1 => i = j
    BY <1>1
  <2> QED BY <1>2, <2>1, <2>2, <2>3 DEF IsInjective
<1> QED BY <1>1, <1>2, <1>3, <1>4, Numbers

\* The delay after a failure is at most the cap or what the peer asked for.
LEMMA BackoffIs ==
  ASSUME NEW base \in Nat, NEW failures \in Nat \ {0}, NEW retry \in Nat
  PROVE  /\ Backoff(base, failures, retry) \in Nat
         /\ Backoff(base, failures, retry) <= Cap \/ Backoff(base, failures, retry) = retry
<1>1. failures - 1 \in Nat
  OBVIOUS
<1>2. 2 ^ (failures - 1) \in Int
  BY <1>1
<1> DEFINE raw == base * 2 ^ (failures - 1)
<1>3. raw \in Int
  BY <1>2
<1>4. Backoff(base, failures, retry) =
        IF Cap = 0 THEN retry ELSE Greater(Least(raw, Cap), retry)
  BY DEF Backoff
<1> HIDE DEF raw
<1> QED BY <1>3, <1>4, Numbers DEF Greater, Least

\* What a peer asks for is clamped when it comes with a 429.
LEMMA RetryIs ==
  ASSUME NEW answer \in Answers
  PROVE  /\ RetryAfter(answer) \in Nat
         /\ RetryAfter(answer) <= Clamp \/ (answer.kind = "http" /\ RetryAfter(answer) \in Waits)
<1>1. CASE answer.kind = "429"
  <2>1. answer.wait \in Nat /\ RetryAfter(answer) = Least(answer.wait, Clamp)
    BY <1>1, Numbers DEF Answers, RetryAfter
  <2> QED BY <2>1, Numbers DEF Least
<1>2. CASE answer.kind = "http"
  <2>1. answer.wait \in Waits /\ RetryAfter(answer) = answer.wait
    BY <1>2 DEF Answers, RetryAfter
  <2> QED BY <1>2, <2>1, Numbers
<1>3. CASE answer.kind \notin {"429", "http"}
  <2>1. RetryAfter(answer) = 0
    BY <1>3 DEF RetryAfter
  <2> QED BY <2>1, Numbers
<1> QED BY <1>1, <1>2, <1>3

LEMMA BaseIs ==
  ASSUME NEW p \in Peers
  PROVE  BackoffBase(p) \in Nat /\ CooldownOf(p) \in 0 .. Greater(Cooldown, SeedCooldown)
BY Numbers DEF BackoffBase, CooldownOf, Greater

\* A failure gives a state whose delay is that of Backoff.
LEMMA FailedState ==
  ASSUME NEW s \in States, NEW outcome \in {"error", "fork"}, NEW base \in Nat,
         NEW retry \in Nat
  PROVE  /\ FinishFailed(s, outcome, base, retry) \in States
         /\ \/ FinishFailed(s, outcome, base, retry).due <= Cap
            \/ FinishFailed(s, outcome, base, retry).due = retry
<1> DEFINE f == Least(s.failures + 1, MaxFailures)
           due == Backoff(base, f, retry)
<1>1. s.age \in 0 .. StaleAfter /\ s.failures \in 0 .. MaxFailures
  BY DEF States
<1>2. f \in Nat \ {0} /\ f \in 0 .. MaxFailures
  BY <1>1, Numbers DEF Least
<1>3. FinishFailed(s, outcome, base, retry)
        = [outcome |-> outcome, due |-> due, age |-> s.age, failures |-> f]
  BY DEF FinishFailed
<1> HIDE DEF f
<1>4. due \in Nat /\ (due <= Cap \/ due = retry)
  BY <1>2, BackoffIs
<1> HIDE DEF due
<1> QED BY <1>1, <1>2, <1>3, <1>4 DEF States

LEMMA OtherStates ==
  ASSUME NEW s \in States
  PROVE  /\ BeginSync(s) \in States /\ BeginSync(s).due = s.due
         /\ Older(s) \in States /\ Older(s).due <= s.due
         /\ \A outcome \in {"ok", "solo"} : /\ FinishOk(s, outcome) \in States
                                            /\ FinishOk(s, outcome).due = Interval
<1>1. /\ s.outcome \in {"idle", "running", "ok", "solo", "error", "fork"} /\ s.due \in Nat
      /\ s.age \in 0 .. StaleAfter /\ s.failures \in 0 .. MaxFailures
  BY DEF States
<1>2. BeginSync(s) \in States /\ BeginSync(s).due = s.due
  BY <1>1, Numbers DEF BeginSync, States
<1>3. Sooner(s.due) \in Nat /\ Sooner(s.due) <= s.due /\ Least(s.age + 1, StaleAfter) \in 0 .. StaleAfter
  BY <1>1, Numbers DEF Sooner, Least
<1>4. Older(s) \in States /\ Older(s).due <= s.due
  BY <1>1, <1>3 DEF Older, States
<1>5. \A outcome \in {"ok", "solo"} : /\ FinishOk(s, outcome) \in States
                                      /\ FinishOk(s, outcome).due = Interval
  BY <1>1, Numbers DEF FinishOk, States
<1> QED BY <1>2, <1>4, <1>5

LEMMA FreshState == Fresh \in States /\ Fresh.due = 0
BY Numbers DEF Fresh, States

\* Between them the states of the worker are closed,
LEMMA StatesClosed == Closed(States)
<1>1. ASSUME NEW s \in States
      PROVE  /\ BeginSync(s) \in States /\ Older(s) \in States
             /\ FinishOk(s, "ok") \in States /\ FinishOk(s, "solo") \in States
             /\ FinishFailed(s, "error", Base, 0) \in States
             /\ \A p \in Peers, answer \in Answers, outcome \in {"error", "fork"} :
                  FinishFailed(s, outcome, BackoffBase(p), RetryAfter(answer)) \in States
  <2>1. FinishFailed(s, "error", Base, 0) \in States
    BY FailedState, Numbers
  <2>2. ASSUME NEW p \in Peers, NEW answer \in Answers, NEW outcome \in {"error", "fork"}
        PROVE  FinishFailed(s, outcome, BackoffBase(p), RetryAfter(answer)) \in States
    <3>1. BackoffBase(p) \in Nat /\ RetryAfter(answer) \in Nat
      BY BaseIs, RetryIs
    <3> QED BY <3>1, FailedState
  <2> QED BY <2>1, <2>2, OtherStates
<1> QED BY <1>1, FreshState DEF Closed

\* and so are those whose delay is bounded, as long as no refusal without a clamp asks
\* for more.
Longest == Greater(Greater(Interval, Clamp), Cap)
Bounded == {s \in States : s.due <= Longest}
ClampedRefusals == "http" \in Refusals => \A wait \in Waits : wait <= Clamp

LEMMA BoundedClosed == ASSUME ClampedRefusals PROVE Closed(Bounded)
<1>1. Longest \in Nat /\ Interval <= Longest /\ Clamp <= Longest /\ Cap <= Longest
  BY Numbers DEF Longest, Greater
<1>2. ASSUME NEW s \in States, s.due <= Longest
      PROVE  /\ BeginSync(s) \in Bounded /\ Older(s) \in Bounded
             /\ FinishOk(s, "ok") \in Bounded /\ FinishOk(s, "solo") \in Bounded
             /\ FinishFailed(s, "error", Base, 0) \in Bounded
             /\ \A p \in Peers, answer \in Answers, outcome \in {"error", "fork"} :
                  FinishFailed(s, outcome, BackoffBase(p), RetryAfter(answer)) \in Bounded
  <2>1. FinishFailed(s, "error", Base, 0) \in Bounded
    <3> DEFINE t == FinishFailed(s, "error", Base, 0)
    <3>1. t \in States /\ (t.due <= Cap \/ t.due = 0)
      BY FailedState, Numbers
    <3>2. t.due \in Nat
      BY <3>1 DEF States
    <3> HIDE DEF t
    <3>3. t \in Bounded
      BY <1>1, <3>1, <3>2, Numbers DEF Bounded
    <3> QED BY <3>3 DEF t
  <2>2. ASSUME NEW p \in Peers, NEW answer \in Answers, NEW outcome \in {"error", "fork"}
        PROVE  FinishFailed(s, outcome, BackoffBase(p), RetryAfter(answer)) \in Bounded
    <3> DEFINE base == BackoffBase(p)
               retry == RetryAfter(answer)
               t == FinishFailed(s, outcome, base, retry)
    <3>1. base \in Nat /\ retry \in Nat
      BY BaseIs, RetryIs
    <3>2. retry <= Clamp
      <4>1. CASE answer.kind = "http" /\ retry \in Waits
        <5>1. "http" \in Refusals
          BY <4>1 DEF Answers
        <5> QED BY <4>1, <5>1 DEF ClampedRefusals
      <4> QED BY <4>1, RetryIs
    <3> HIDE DEF base, retry
    <3>3. t \in States /\ (t.due <= Cap \/ t.due = retry)
      BY <3>1, FailedState
    <3>4. t.due \in Nat
      BY <3>3 DEF States
    <3> HIDE DEF t
    <3>5. t \in Bounded
      BY <1>1, <3>1, <3>2, <3>3, <3>4, Numbers DEF Bounded
    <3> QED BY <3>5 DEF t, base, retry
  <2>3. /\ BeginSync(s) \in Bounded /\ FinishOk(s, "ok") \in Bounded
        /\ FinishOk(s, "solo") \in Bounded
    BY <1>1, <1>2, OtherStates DEF Bounded
  <2>4. Older(s) \in Bounded
    <3>1. Older(s) \in States /\ Older(s).due <= s.due
      BY OtherStates
    <3>2. Older(s).due \in Nat /\ s.due \in Nat
      BY <3>1 DEF States
    <3> QED BY <1>1, <1>2, <3>1, <3>2 DEF Bounded
  <2> QED BY <2>1, <2>2, <2>3, <2>4
<1>3. Fresh \in Bounded
  BY <1>1, FreshState DEF Bounded
<1> QED BY <1>2, <1>3 DEF Closed, Bounded

------------------------------------------------------------------------------
(* Every step keeps the invariant *)

LEMMA StoreMoves ==
  ASSUME NEW store \in Stores, NEW p \in Peers,
         NEW k \in 0 .. Greater(Cooldown, SeedCooldown)
  PROVE  [store EXCEPT ![p] = k] \in Stores
BY DEF Stores

LEMMA CoolerIs ==
  ASSUME NEW k \in Nat, NEW store \in [Peers -> 0 .. k]
  PROVE  Cooler(store) \in [Peers -> 0 .. k]
<1>1. \A p \in Peers : Sooner(store[p]) \in 0 .. k
  BY DEF Sooner
<1> QED BY <1>1 DEF Cooler

LEMMA InitOK ==
  ASSUME NEW S, Closed(S), Init
  PROVE  Inv(S)
<1>1. runtime \in S
  BY DEF Closed, Init
<1>2. file \in Stores /\ embargo \in [Peers -> 0 .. Clamp] /\ aborts \in 0 .. MaxAborts
  BY Numbers DEF Init, Stores, Greater
<1>3. DOMAIN cycle = Threads /\ \A t \in Threads : cycle[t].at = "idle"
  BY DEF Init, Idle
<1> QED BY <1>1, <1>2, <1>3 DEF Inv, CycleOK

\* One thread's cycle moves.
LEMMA CycleMoves ==
  ASSUME NEW S, Inv(S), NEW t \in Threads, NEW c, CycleOK(c, S),
         cycle' = [cycle EXCEPT ![t] = c]
  PROVE  DOMAIN cycle' = Threads /\ \A u \in Threads : CycleOK(cycle'[u], S)
<1>1. DOMAIN cycle = Threads /\ \A u \in Threads : CycleOK(cycle[u], S)
  BY DEF Inv
<1>2. DOMAIN cycle' = Threads /\ \A u \in Threads : cycle'[u] = IF u = t THEN c ELSE cycle[u]
  BY <1>1
<1> QED BY <1>1, <1>2

LEMMA IdleOK == \A S : CycleOK(Idle, S)
BY DEF CycleOK, Idle

LEMMA StartOK ==
  ASSUME NEW S, Closed(S), Inv(S), NEW t \in Threads, Start(t)
  PROVE  Inv(S)'
<1>1. UNCHANGED <<file, embargo, aborts>>
  BY DEF Start
<1>2. CASE StartWithPeers(t)
  <2>1. PICK q \in Queues(file) :
          cycle' = [cycle EXCEPT ![t] =
                      [at |-> "next", peers |-> q, store |-> file, state |-> runtime]]
    BY <1>2 DEF StartWithPeers
  <2> DEFINE c == [at |-> "next", peers |-> q, store |-> file, state |-> runtime]
  <2>2. q \in Seq(Peers) /\ Len(q) \in 1 .. MaxPeers /\ IsInjective(q)
    BY <1>2, QueueIs DEF StartWithPeers
  <2>3. CycleOK(c, S)
    BY <2>2 DEF Inv, CycleOK
  <2>4. cycle' = [cycle EXCEPT ![t] = c]
    BY <2>1
  <2> HIDE DEF c
  <2>5. DOMAIN cycle' = Threads /\ \A u \in Threads : CycleOK(cycle'[u], S)
    BY <2>3, <2>4, CycleMoves
  <2> QED BY <1>1, <1>2, <2>5 DEF Inv, StartWithPeers
<1>3. CASE StartWithout(t)
  <2>1. runtime' \in S
    BY <1>3 DEF StartWithout, Inv, Closed
  <2> QED BY <1>1, <1>3, <2>1 DEF Inv, StartWithout
<1> QED BY <1>2, <1>3 DEF Start

LEMMA ContactOK ==
  ASSUME NEW S, Closed(S), Inv(S), NEW t \in Threads, Contact(t)
  PROVE  Inv(S)'
<1> DEFINE started == BeginSync(cycle[t].state)
           c == [at |-> "waiting", peers |-> cycle[t].peers, store |-> cycle[t].store,
                 state |-> started]
<1>1. /\ cycle[t].at = "next" /\ runtime' = started
      /\ UNCHANGED <<file, embargo, aborts>>
  BY DEF Contact
<1>2. cycle' = [cycle EXCEPT ![t] = c]
  BY DEF Contact
<1>3. /\ cycle[t].store \in Stores /\ cycle[t].state \in S /\ cycle[t].peers \in Seq(Peers)
      /\ Len(cycle[t].peers) \in 1 .. MaxPeers /\ IsInjective(cycle[t].peers)
  BY <1>1 DEF Inv, CycleOK
<1>4. started \in S
  BY <1>3 DEF Closed
<1> HIDE DEF started
<1>5. CycleOK(c, S)
  BY <1>3, <1>4 DEF CycleOK
<1> HIDE DEF c
<1>6. DOMAIN cycle' = Threads /\ \A u \in Threads : CycleOK(cycle'[u], S)
  BY <1>2, <1>5, CycleMoves
<1> QED BY <1>1, <1>4, <1>6 DEF Inv

LEMMA FinishOK ==
  ASSUME NEW S, Closed(S), Inv(S), NEW t \in Threads, Finish(t)
  PROVE  Inv(S)'
<1> DEFINE p == Head(cycle[t].peers)
           s == cycle[t].state
<1>1. PICK answer \in Answers :
        /\ IF answer.kind = "ok" THEN Succeed(t, p) ELSE Fail(t, p, answer)
        /\ embargo' = IF answer.kind = "429"
                      THEN [embargo EXCEPT ![p] = Least(answer.wait, Clamp)]
                      ELSE embargo
  BY DEF Finish
<1>2. cycle[t].at = "waiting" /\ UNCHANGED aborts
  BY DEF Finish
<1>3. /\ cycle[t].store \in Stores /\ s \in S /\ cycle[t].peers \in Seq(Peers)
      /\ Len(cycle[t].peers) \in 1 .. MaxPeers /\ IsInjective(cycle[t].peers)
  BY <1>2 DEF Inv, CycleOK
<1>4. p \in Peers
  BY <1>3
<1> HIDE DEF p
<1>5. embargo' \in [Peers -> 0 .. Clamp]
  <2>1. answer.kind = "429" => Least(answer.wait, Clamp) \in 0 .. Clamp
    <3>1. answer.kind = "429" => answer.wait \in Nat
      BY Numbers DEF Answers
    <3> QED BY <3>1, Numbers DEF Least
  <2> QED BY <1>1, <2>1 DEF Inv
<1>6. CASE answer.kind = "ok"
  <2>1. /\ file' = [cycle[t].store EXCEPT ![p] = 0] /\ runtime' = FinishOk(s, "ok")
        /\ cycle' = [cycle EXCEPT ![t] = Idle]
    BY <1>1, <1>6 DEF Succeed
  <2>2. 0 \in 0 .. Greater(Cooldown, SeedCooldown)
    BY Numbers DEF Greater
  <2>3. file' \in Stores
    BY <1>3, <1>4, <2>1, <2>2, StoreMoves
  <2>4. runtime' \in S
    BY <1>3, <2>1 DEF Closed
  <2>5. DOMAIN cycle' = Threads /\ \A u \in Threads : CycleOK(cycle'[u], S)
    BY <2>1, CycleMoves, IdleOK
  <2> QED BY <1>2, <1>5, <2>3, <2>4, <2>5 DEF Inv
<1>7. CASE answer.kind # "ok"
  <2> DEFINE store == [cycle[t].store EXCEPT ![p] = CooldownOf(p)]
             outcome == IF answer.kind = "fork" THEN "fork" ELSE "error"
             state == FinishFailed(s, outcome, BackoffBase(p), RetryAfter(answer))
             left == Tail(cycle[t].peers)
             c == IF answer.kind = "fork" \/ left = <<>> THEN Idle
                  ELSE [at |-> "next", peers |-> left, store |-> store, state |-> state]
  <2>1. file' = store /\ runtime' = state /\ cycle' = [cycle EXCEPT ![t] = c]
    BY <1>1, <1>7 DEF Fail
  <2>2. store \in Stores
    BY <1>3, <1>4, BaseIs, StoreMoves
  <2>3. state \in S
    <3>1. outcome \in {"error", "fork"}
      OBVIOUS
    <3> HIDE DEF outcome
    <3> QED BY <1>3, <1>4, <3>1 DEF Closed
  <2>4. left # <<>> => left \in Seq(Peers) /\ Len(left) \in 1 .. MaxPeers /\ IsInjective(left)
    BY <1>3, QueueLeft
  <2> HIDE DEF store, state, left
  <2>5. CycleOK(c, S)
    BY <2>2, <2>3, <2>4, IdleOK DEF CycleOK
  <2> HIDE DEF c
  <2>6. DOMAIN cycle' = Threads /\ \A u \in Threads : CycleOK(cycle'[u], S)
    BY <2>1, <2>5, CycleMoves
  <2> QED BY <1>2, <1>5, <2>1, <2>2, <2>3, <2>6 DEF Inv
<1> QED BY <1>6, <1>7

LEMMA AbortOK ==
  ASSUME NEW S, Inv(S), NEW t \in Threads, Abort(t)
  PROVE  Inv(S)'
<1>1. DOMAIN cycle' = Threads /\ \A u \in Threads : CycleOK(cycle'[u], S)
  BY CycleMoves, IdleOK DEF Abort
<1> QED BY <1>1, Numbers DEF Inv, Abort

LEMMA TickOK ==
  ASSUME NEW S, Closed(S), Inv(S), Tick
  PROVE  Inv(S)'
<1>1. runtime' \in S /\ aborts' = aborts
  BY DEF Tick, Inv, Closed
<1>2. \A store \in Stores : Cooler(store) \in Stores
  <2>1. Greater(Cooldown, SeedCooldown) \in Nat
    BY Numbers DEF Greater
  <2> QED BY <2>1, CoolerIs DEF Stores
<1>3. file' \in Stores /\ embargo' \in [Peers -> 0 .. Clamp]
  BY <1>2, CoolerIs, Numbers DEF Tick, Inv
<1>4. DOMAIN cycle' = Threads
  BY DEF Tick
<1>5. ASSUME NEW t \in Threads PROVE CycleOK(cycle'[t], S)
  <2>1. CASE cycle[t].at = "idle"
    BY <2>1, IdleOK DEF Tick
  <2>2. CASE cycle[t].at # "idle"
    <3> DEFINE c == [at |-> cycle[t].at, peers |-> cycle[t].peers,
                     store |-> Cooler(cycle[t].store), state |-> Older(cycle[t].state)]
    <3>1. cycle'[t] = c
      BY <2>2 DEF Tick
    <3>2. /\ cycle[t].at \in {"next", "waiting"}
          /\ cycle[t].store \in Stores /\ cycle[t].state \in S
          /\ cycle[t].peers \in Seq(Peers)
          /\ Len(cycle[t].peers) \in 1 .. MaxPeers /\ IsInjective(cycle[t].peers)
      BY <2>2 DEF Inv, CycleOK
    <3>3. Older(cycle[t].state) \in S /\ Cooler(cycle[t].store) \in Stores
      BY <1>2, <3>2 DEF Closed
    <3>4. CycleOK(c, S)
      BY <3>2, <3>3 DEF CycleOK
    <3> QED BY <3>1, <3>4
  <2> QED BY <2>1, <2>2
<1> QED BY <1>1, <1>3, <1>4, <1>5 DEF Inv

LEMMA StepOK ==
  ASSUME NEW S, Closed(S), Inv(S), [Next]_vars
  PROVE  Inv(S)'
<1>1. CASE UNCHANGED vars
  BY <1>1 DEF vars, Inv
<1> QED BY <1>1, StartOK, ContactOK, FinishOK, AbortOK, TickOK DEF Next, Work

------------------------------------------------------------------------------
(* The theorems *)

\* The worker's state, the cooldowns and the copies that two cycles at once work on
\* stay in their ranges, in whatever order the copies are written back, and no cycle
\* holds more peers than it may, or one twice (_run_public_sync_cycle).
THEOREM TypeCorrect == Spec => []TypeOK
<1>1. Init => Inv(States)
  BY StatesClosed, InitOK
<1>2. Inv(States) /\ [Next]_vars => Inv(States)'
  BY StatesClosed, StepOK
<1>3. Inv(States) => TypeOK
  BY DEF Inv, CycleOK, TypeOK
<1> QED BY <1>1, <1>2, <1>3, PTL DEF Spec

\* As long as no refusal without a clamp asks for more, no delay is longer than the
\* interval, the clamp and the cap, whichever copy of the state is written back last
\* (finish_sync, parse_retry_after_header).
THEOREM NobodySilencesUs == ASSUME ClampedRefusals PROVE Spec => []NeverSilent
<1>1. Init => Inv(Bounded)
  BY BoundedClosed, InitOK
<1>2. Inv(Bounded) /\ [Next]_vars => Inv(Bounded)'
  BY BoundedClosed, StepOK
<1>3. Inv(Bounded) => NeverSilent
  BY DEF Inv, Bounded, Longest, NeverSilent
<1> QED BY <1>1, <1>2, <1>3, PTL DEF Spec

=============================================================================
