---------------------------- MODULE SyncSchedule ----------------------------
(***************************************************************************)
(* When an Infonet node contacts which peer: the sync worker's state of    *)
(* backend/services/mesh/mesh_infonet_sync_support.py, the cooldowns of    *)
(* the peer store (mesh_peer_store.py), and the cycle that the sync loop   *)
(* and a kick run on threads of their own (_run_public_sync_cycle,         *)
(* backend/main.py).                                                       *)
(*                                                                         *)
(* A cycle works on copies: the peer store it has loaded and the worker's  *)
(* state it has read; a step ends where it waits for a peer.  Times are    *)
(* kept as what is left of them, in units of the constants.  The order in  *)
(* which a cycle asks the peers is left open; enabling and disabling the   *)
(* node, changes to the list of peers and the warm-up of the onion         *)
(* transport are left out.  What is exchanged with a peer is the subject   *)
(* of InfonetSync.                                                         *)
(***************************************************************************)
EXTENDS Integers, Sequences, FiniteSets, SequencesExt

CONSTANTS
  Peers,            \* enabled peers of the bucket "sync"
  Seeds,            \* those of role "seed"
  Threads,          \* "loop", "kick" or both
  PrivateRequired,  \* _infonet_private_transport_required
  MaxPeers,         \* MESH_SYNC_MAX_PEERS_PER_CYCLE
  Interval,         \* MESH_SYNC_INTERVAL_S
  Base,             \* MESH_SYNC_FAILURE_BACKOFF_S
  Cap,              \* failure_backoff_cap_s
  Cooldown,         \* MESH_RELAY_FAILURE_COOLDOWN_S
  SeedCooldown,     \* MESH_BOOTSTRAP_SEED_FAILURE_COOLDOWN_S
  StaleAfter,       \* a running sync of this age is taken for dead
  Clamp,            \* upper_bound of parse_retry_after_header
  Waits,            \* what peers put in Retry-After
  Refusals,         \* statuses of peers that refuse: "429", "http" or both
  MaxFailures,      \* bound: where the count of failures saturates
  MaxAborts         \* bound: cycles that end in an exception

ASSUME PeersAssumption ==
  /\ Seeds \subseteq Peers /\ IsFiniteSet(Peers) /\ Threads \subseteq {"loop", "kick"}
  /\ PrivateRequired \in BOOLEAN /\ MaxPeers \in Nat \ {0}
ASSUME TimesAssumption ==
  /\ Interval \in Nat \ {0} /\ Base \in Nat \ {0} /\ Cap \in Nat
  /\ Cooldown \in Nat /\ SeedCooldown \in Nat \ {0}
  /\ StaleAfter \in Nat \ {0} /\ Clamp \in Nat /\ Waits \subseteq Nat
  /\ Refusals \subseteq {"429", "http"}
  /\ MaxFailures \in Nat \ {0} /\ Base * 2 ^ (MaxFailures - 1) >= Cap
  /\ MaxAborts \in Nat

VARIABLES
  runtime,  \* the shared SyncWorkerState
  file,     \* peer_store.json: what is left of each peer's cooldown
  cycle,    \* where each thread is in _run_public_sync_cycle, with its copies
  embargo,  \* what is left of the wait a peer has asked for
  aborts    \* so far

vars == <<runtime, file, cycle, embargo, aborts>>

Idle == [at |-> "idle"]

Least(a, b) == IF a <= b THEN a ELSE b
Greater(a, b) == IF a >= b THEN a ELSE b

------------------------------------------------------------------------------
(* mesh_infonet_sync_support *)

Fresh == [outcome |-> "idle", due |-> 0, age |-> 0, failures |-> 0]

BeginSync(state) ==
  [outcome |-> "running", due |-> state.due, age |-> 0, failures |-> state.failures]

\* parse_retry_after_header for a 429; _parse_retry_after_seconds for the rest.
RetryAfterUnclamped(answer) ==
  IF answer.kind \in {"429", "http"} THEN answer.wait ELSE 0
RetryAfter(answer) ==
  CASE answer.kind = "429" -> Least(answer.wait, Clamp)
    [] answer.kind = "http" -> answer.wait
    [] OTHER -> 0

Backoff(base, failures, retry) ==
  IF Cap = 0 THEN retry ELSE Greater(Least(base * 2 ^ (failures - 1), Cap), retry)

FinishOk(state, outcome) ==
  [outcome |-> outcome, due |-> Interval, age |-> state.age, failures |-> 0]

FinishFailed(state, outcome, base, retry) ==
  LET failures == Least(state.failures + 1, MaxFailures)
  IN [outcome |-> outcome, due |-> Backoff(base, failures, retry), age |-> state.age,
      failures |-> failures]

ShouldRunWhenDue(state) == state.outcome # "running" /\ state.due = 0
ShouldRun(state) ==
  IF state.outcome = "running" THEN state.age >= StaleAfter ELSE state.due = 0

------------------------------------------------------------------------------
(* One cycle *)

\* The peers a cycle asks: those that are not cooling down, MaxPeers at most.
Eligible(store) == {p \in Peers : store[p] = 0}
QueuesUncut(store) == SetToSeqs(Eligible(store))
Queues(store) ==
  {SubSeq(q, 1, Least(MaxPeers, Len(q))) : q \in SetToSeqs(Eligible(store))}

\* The cycle loads the peer store and reads the worker's state.
StartWithPeers(t) ==
  /\ Eligible(file) # {}
  /\ \E q \in Queues(file) :
        cycle' = [cycle EXCEPT ![t] =
                    [at |-> "next", peers |-> q, store |-> file, state |-> runtime]]
  /\ UNCHANGED runtime

StartWithout(t) ==
  /\ Eligible(file) = {}
  /\ runtime' = IF PrivateRequired
                THEN FinishFailed(runtime, "error", Base, 0)
                ELSE FinishOk(runtime, "solo")
  /\ UNCHANGED cycle

Start(t) ==
  /\ cycle[t].at = "idle"
  /\ t = "loop" => ShouldRun(runtime)
  /\ StartWithPeers(t) \/ StartWithout(t)
  /\ UNCHANGED <<file, embargo, aborts>>

\* The first of the peers left is asked.
Contact(t) ==
  LET started == BeginSync(cycle[t].state)
  IN /\ cycle[t].at = "next"
     /\ runtime' = started
     /\ cycle' = [cycle EXCEPT ![t] =
                    [at |-> "waiting", peers |-> @.peers, store |-> @.store,
                     state |-> started]]
     /\ UNCHANGED <<file, embargo, aborts>>

Answers == [kind : {"ok", "fork", "error"}, wait : {0}] \cup [kind : Refusals, wait : Waits]

CooldownOf(p) == IF p \in Seeds THEN SeedCooldown ELSE Cooldown
BackoffBase(p) == IF p \in Seeds THEN Greater(Base, SeedCooldown) ELSE Base

Succeed(t, p) ==
  /\ file' = [cycle[t].store EXCEPT ![p] = 0]
  /\ runtime' = FinishOk(cycle[t].state, "ok")
  /\ cycle' = [cycle EXCEPT ![t] = Idle]

\* A failed peer cools down, and the next one is asked unless there was a fork.
Fail(t, p, answer) ==
  LET store == [cycle[t].store EXCEPT ![p] = CooldownOf(p)]
      state == FinishFailed(cycle[t].state,
                            IF answer.kind = "fork" THEN "fork" ELSE "error",
                            BackoffBase(p), RetryAfter(answer))
      left == Tail(cycle[t].peers)
  IN /\ file' = store
     /\ runtime' = state
     /\ cycle' = [cycle EXCEPT ![t] =
                    IF answer.kind = "fork" \/ left = <<>> THEN Idle
                    ELSE [at |-> "next", peers |-> left, store |-> store, state |-> state]]

Finish(t) ==
  LET p == Head(cycle[t].peers)
  IN /\ cycle[t].at = "waiting"
     /\ \E answer \in Answers :
          /\ IF answer.kind = "ok" THEN Succeed(t, p) ELSE Fail(t, p, answer)
          /\ embargo' = IF answer.kind = "429"
                        THEN [embargo EXCEPT ![p] = Least(answer.wait, Clamp)]
                        ELSE embargo
     /\ UNCHANGED aborts

\* An exception leaves the cycle, for one when the store cannot be saved.
Abort(t) ==
  /\ cycle[t].at = "waiting" /\ aborts < MaxAborts
  /\ cycle' = [cycle EXCEPT ![t] = Idle]
  /\ aborts' = aborts + 1
  /\ UNCHANGED <<runtime, file, embargo>>

------------------------------------------------------------------------------
(* Time *)

Sooner(k) == IF k = 0 THEN 0 ELSE k - 1
Older(state) == [outcome |-> state.outcome, due |-> Sooner(state.due),
                 age |-> Least(state.age + 1, StaleAfter), failures |-> state.failures]
Cooler(store) == [p \in Peers |-> Sooner(store[p])]

Tick ==
  /\ runtime' = Older(runtime)
  /\ file' = Cooler(file)
  /\ embargo' = Cooler(embargo)
  /\ cycle' = [t \in Threads |->
                 IF cycle[t].at = "idle" THEN Idle
                 ELSE [at |-> cycle[t].at, peers |-> cycle[t].peers,
                       store |-> Cooler(cycle[t].store), state |-> Older(cycle[t].state)]]
  /\ UNCHANGED aborts

------------------------------------------------------------------------------
Init ==
  /\ runtime = Fresh
  /\ file = [p \in Peers |-> 0]
  /\ cycle = [t \in Threads |-> Idle]
  /\ embargo = [p \in Peers |-> 0]
  /\ aborts = 0

Work(t) == Contact(t) \/ Finish(t)

Next ==
  \/ \E t \in Threads : Start(t) \/ Work(t) \/ Abort(t)
  \/ Tick

Spec == Init /\ [][Next]_vars

\* Time passes, the loop polls, and a request ends, by its timeout at the latest.
\* Kicks come or do not.
FairSpec ==
  /\ Spec
  /\ WF_vars(Tick)
  /\ "loop" \in Threads => WF_vars(Start("loop"))
  /\ \A t \in Threads : WF_vars(Work(t))

------------------------------------------------------------------------------
(* Properties *)

States == [outcome : {"idle", "running", "ok", "solo", "error", "fork"},
           due : Nat, age : 0 .. StaleAfter, failures : 0 .. MaxFailures]
Stores == [Peers -> 0 .. Greater(Cooldown, SeedCooldown)]

\* Every variable stays in its range, and no cycle holds more peers than it may.
TypeOK ==
  /\ runtime \in States /\ file \in Stores
  /\ \A t \in Threads :
        /\ cycle[t].at \in {"idle", "next", "waiting"}
        /\ cycle[t].at # "idle" =>
              /\ cycle[t].store \in Stores /\ cycle[t].state \in States
              /\ Len(cycle[t].peers) \in 1 .. MaxPeers /\ IsInjective(cycle[t].peers)
  /\ embargo \in [Peers -> 0 .. Clamp] /\ aborts \in 0 .. MaxAborts

\* No peer is asked again before the time it has asked for is over (finish_sync: "so
\* we never hammer a peer that asked us to back off").
NeverHammer ==
  [][ \A t \in Threads :
        cycle[t].at = "next" /\ cycle'[t].at = "waiting"
          => embargo[Head(cycle[t].peers)] = 0 ]_vars

\* What peers answer never silences the node for longer than the clamp or the code's
\* own delays (parse_retry_after_header: "so a typo'd or hostile peer can't pin us
\* silent for days").
NeverSilent == runtime.due <= Greater(Greater(Interval, Clamp), Cap)

\* The failures counted are forgotten only when a peer has answered
\* (_failure_backoff_seconds: "repeated failures should slow us down").
FailuresRemembered ==
  [][ runtime'.failures < runtime.failures => runtime'.outcome = "ok" ]_vars

\* With the ladder disabled a failure waits for the base delay (finish_sync: "The
\* pre-fix behavior (constant 60s on every failure) is recoverable by passing
\* failure_backoff_cap_s=0").
CapZeroIsConstant ==
  [][ Cap = 0 /\ runtime.outcome = "running" /\ runtime'.outcome = "error"
        => runtime'.due = Base ]_vars

\* A sync that has died does not keep the node from syncing (should_run_sync).
RunningNeverSticks == runtime.outcome = "running" ~> runtime.outcome # "running"

==============================================================================
