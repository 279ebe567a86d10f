-------------------------- MODULE PrivateDelivery --------------------------
(***************************************************************************)
(* How a sealed message leaves a node: the outbox that keeps it            *)
(* (mesh_private_outbox.py), the worker that judges it every two seconds   *)
(* (mesh_private_release_worker.py), the dispatcher that tries the direct  *)
(* link and then the relay (mesh_private_dispatcher.py), the scoped relay  *)
(* policy (mesh_relay_policy.py, mesh_dm_connect_delivery.py) and the      *)
(* relays of the two nodes as far as the sender meets them                 *)
(* (mesh_dm_relay.py).                                                     *)
(*                                                                         *)
(* One sender, one recipient.  A step of the worker ends where it saves    *)
(* the outbox or waits for the network.  Windows, lifetimes and expiries   *)
(* are steps that may happen at any time.  The outbox is written in every  *)
(* call and rolled back when the write fails, so its file and its memory   *)
(* are one variable; what the code keeps in memory only, a crash forgets.  *)
(***************************************************************************)
EXTENDS Integers, FiniteSets

CONSTANTS
  Items,            \* release keys: a msg_id or an event_id
  Lanes,            \* what each of them may be: "gate", a message in a gate; or a
                    \* direct message, "scoped" when it is a request that names
                    \* the recipient's relay (lookup_peer_url), else "dm"
  ApprovalEnabled,  \* MESH_PRIVATE_RELEASE_APPROVAL_ENABLE
  SecureDm,         \* MESH_DM_SECURE_MODE
  PerSender,        \* MESH_DM_PENDING_PER_SENDER_LIMIT
  Environments,     \* what the transports may report, see EnvironmentType
  MaxTroubles       \* bound: lost sends and answers, crashes and failed
                    \* writes of the outbox, together

Tiers == 0..3  \* public_degraded, private_control_only, private_transitional, private_strong
EnvironmentType ==
  [tier : Tiers, rnsEnabled : BOOLEAN, rns : BOOLEAN, hidden : BOOLEAN,
   anonymous : BOOLEAN, attested : BOOLEAN]

ASSUME ItemsAssumption ==
  /\ IsFiniteSet(Items) /\ Lanes # {}
  /\ Lanes \subseteq [Items -> {"gate", "dm", "scoped"}]
ASSUME SettingsAssumption ==
  /\ ApprovalEnabled \in BOOLEAN /\ SecureDm \in BOOLEAN /\ PerSender \in Nat \ {0}
  /\ Environments \subseteq EnvironmentType /\ Environments # {}
  /\ MaxTroubles \in Nat

VARIABLES
  lane,       \* which of Lanes; it never changes
  items,      \* PrivateOutbox._items: the release_state of each
  approved,   \* PrivateOutbox._session_release_state (memory only): items with
              \* "approved"; the rest of it tells the user when to be asked
  auto,       \* enqueued, with the automatic approval still to come
  policy,     \* whether relay_policy.json grants the relay for the recipient
  worker,     \* where the worker's thread is in run_once
  pushing,    \* messages with a fleet-wide push under way
  relay,      \* what each node's relay has parked: "local", "remote"
  direct,     \* the recipient's Reticulum mailbox
  env,        \* what the transports report
  got,        \* history: how often the recipient has collected each message
  handed,     \* history: messages some transport has taken for the recipient
  consented,  \* history: somebody has agreed to relayed delivery
  troubles    \* how many so far

GateItems == {i \in Items : lane[i] = "gate"}
Scoped == {i \in Items : lane[i] = "scoped"}

outbox == <<items, approved, auto, policy>>
carriers == <<pushing, relay, direct, handed>>
vars == <<lane, items, approved, auto, policy, worker, pushing, relay, direct, env,
          got, handed, consented, troubles>>

------------------------------------------------------------------------------
(* mesh_privacy_policy, mesh_relay_policy *)

Required(i) == IF i \in GateItems \/ env.rnsEnabled THEN 3 ELSE 2

\* evaluate_network_release(...).allowed, for the tier that run_once has read.
Floor(i) == worker.tier >= Required(i)

Enforced == env.anonymous /\ env.hidden

\* relay_policy_grants_dm
Granted == policy /\ env.hidden

\* _relay_consent_granted
ConsentByDefault(agreed) == TRUE
Consent(agreed) == ApprovalEnabled => agreed \/ Granted

------------------------------------------------------------------------------
(* PrivateOutbox *)

PendingOrSent == {i \in Items : items[i] # "none"}
Pending == {i \in Items : items[i] \in {"queued", "releasing"}}

Trouble == troubles < MaxTroubles /\ troubles' = troubles + 1

\* A call that writes the outbox: it may raise instead, with the item put back.
Saves(i, state) == items' = [items EXCEPT ![i] = state] /\ UNCHANGED troubles
WriteFails == Trouble /\ UNCHANGED items

------------------------------------------------------------------------------
(* the user and the application *)

\* _queue_dm_release, _queue_gate_release; every call starts the worker's
\* thread again if it has died.
Started == IF worker.at = "dead" THEN [worker EXCEPT !.at = "idle"] ELSE worker
Enqueue(i) ==
  /\ items[i] # "delivered"
  /\ \/ /\ Saves(i, IF items[i] = "none" THEN "queued" ELSE items[i])
        /\ worker' = Started /\ auto' = auto \union ({i} \intersect Scoped)
     \/ WriteFails /\ UNCHANGED <<worker, auto>>
  /\ UNCHANGED <<approved, policy, env, got, consented, carriers>>

\* approve_relay_release: it also grants the policy for the recipient.
Approve(i) == /\ approved' = approved \union {i}
               /\ policy' = (policy \/ i \notin GateItems)
               /\ consented' = TRUE

\* auto_release_connect_dm_outbox, after the item is in the outbox
AutoRelease(i) ==
  /\ i \in auto /\ auto' = auto \ {i}
  /\ IF items[i] = "none" THEN policy' = TRUE /\ consented' = TRUE /\ UNCHANGED approved
     ELSE Approve(i)
  /\ worker' = Started
  /\ UNCHANGED <<items, env, got, troubles, carriers>>

\* api_wormhole_private_delivery_action: "relay" and "wait" do not start a
\* dead thread.
Relay(i) == i \in Pending /\ Approve(i)
            /\ UNCHANGED <<items, auto, worker, env, got, troubles, carriers>>
Wait(i) == /\ i \in Pending /\ approved' = approved \ {i}
           /\ UNCHANGED <<items, auto, policy, worker, env, got, consented, troubles, carriers>>

\* The policy expires, or severing the contact revokes it.
PolicyEnds == /\ policy /\ policy' = FALSE
              /\ UNCHANGED <<items, approved, auto, worker, env, got, consented, troubles, carriers>>

------------------------------------------------------------------------------
(* PrivateReleaseWorker.run_once: judging an item *)

Idle == [at |-> "idle", tier |-> 0, todo |-> {}, item |-> {}, consent |-> FALSE]

\* One pass: the tier and the pending items are read once, for all of them.
Wake == /\ worker.at = "idle" /\ Pending # {}
        /\ worker' = [Idle EXCEPT !.at = "run", !.tier = env.tier, !.todo = Pending]
        /\ UNCHANGED <<env, got, consented, troubles, outbox, carriers>>

\* _RELAY_APPROVAL_TRIGGER_REASONS holds the reason when the lane is degraded
\* or the strong tier is the one that is missing.
AsksForRelay(i) == ApprovalEnabled /\ i \notin GateItems
                   /\ (worker.tier = 0 \/ Required(i) = 3)

\* The early returns of _dm_release_approval_pending
NoApprovalNeededDirect == ~ApprovalEnabled \/ ~SecureDm \/ env.rns \/ Granted
NoApprovalNeeded == ~ApprovalEnabled \/ ~SecureDm \/ env.anonymous \/ env.rns \/ Granted

Verdict(i) ==
  LET dm == i \notin GateItems IN
  CASE ~Floor(i) -> "floor"
    [] Floor(i) /\ dm /\ env.anonymous /\ ~env.hidden -> "hide"
    [] Floor(i) /\ dm /\ (env.anonymous => env.hidden)
         /\ ~NoApprovalNeeded /\ i \notin approved -> "approval"
    [] OTHER -> IF env.attested THEN "release" ELSE "runtime"

\* Whether clear_release_session_state forgets an approval; noting a failure
\* (note_release_revalidation_failure) keeps it.
Forgets(i) ==
  CASE Verdict(i) = "floor" -> ~AsksForRelay(i)
    [] Verdict(i) = "hide" -> TRUE
    [] OTHER -> i \notin GateItems /\ NoApprovalNeeded
Judged(i) == approved' = IF Forgets(i) THEN approved \ {i} ELSE approved

\* The pass ends with its last item.
Without(i) == IF worker.todo = {i} THEN Idle
              ELSE [worker EXCEPT !.at = "run", !.todo = @ \ {i}, !.item = {}]

\* An exception of a write ends the thread: _loop does not catch it.
Judge(i) ==
  /\ worker.at = "run" /\ i \in worker.todo
  /\ IF Verdict(i) = "release"
       THEN \/ /\ Saves(i, "releasing") /\ Judged(i)
               /\ worker' = [worker EXCEPT !.at = "send", !.item = {i}, !.consent = Consent(i \in approved')]
            \/ WriteFails /\ Judged(i) /\ worker' = [Idle EXCEPT !.at = "dead"]
       ELSE \/ Saves(i, "queued") /\ Judged(i) /\ worker' = Without(i)
            \/ /\ WriteFails /\ worker' = [Idle EXCEPT !.at = "dead"]
               /\ IF Verdict(i) \in {"floor", "hide"} THEN UNCHANGED approved ELSE Judged(i)
  /\ UNCHANGED <<auto, policy, env, got, consented, carriers>>


------------------------------------------------------------------------------
(* attempt_private_release: the dispatcher *)

Now(i) == worker.item = {i}
Dm(i) == i \notin GateItems

\* The worker goes on to record the outcome: "ok" or "fail".
Outcome(o) == worker' = [worker EXCEPT !.at = o, !.consent = FALSE]

HoldBack(i) ==
  /\ worker.at = "send" /\ Now(i)
  /\ \/ ~Floor(i) /\ Outcome("fail")
     \/ Floor(i) /\ Dm(i) /\ env.anonymous /\ ~env.hidden /\ Outcome("fail")
     \/ Floor(i) /\ Dm(i) /\ ~env.anonymous /\ SecureDm /\ ~env.rns
        /\ ~worker.consent /\ Outcome("fail")
  /\ UNCHANGED <<env, got, consented, troubles, outbox, carriers>>

\* rns_bridge.send_private_dm: what the link has taken may still be lost.
SendDirect(i) ==
  /\ worker.at = "send" /\ Now(i) /\ Floor(i) /\ Dm(i)
  /\ SecureDm /\ env.rns /\ ~env.anonymous
  /\ \/ Outcome("ok") /\ direct' = direct \union {i} /\ handed' = handed \union {i}
        /\ UNCHANGED troubles
     \/ Outcome("ok") /\ handed' = handed \union {i} /\ Trouble /\ UNCHANGED direct
     \/ Trouble /\ UNCHANGED <<direct, handed>>
        /\ IF worker.consent THEN worker' = [worker EXCEPT !.at = "park"] ELSE Outcome("fail")
  /\ UNCHANGED <<pushing, relay, env, got, consented, outbox>>

ToRelay(i) ==
  \/ worker.at = "park"
  \/ /\ worker.at = "send" /\ Floor(i) /\ Dm(i)
     /\ Enforced \/ (~env.anonymous /\ (SecureDm => ~env.rns /\ worker.consent))

\* DMRelay.deposit: the limit per sender comes before the test for a duplicate.
\* A scoped message is then pushed to the recipient's relay while the worker
\* waits, any other by a thread of its own.
HasRoomOffByOne(box) == Cardinality(box) <= PerSender
HasRoom(box) == Cardinality(box) < PerSender
Deposit(i) ==
  /\ Now(i) /\ ToRelay(i)
  /\ IF HasRoom(relay.local)
       THEN /\ relay' = [relay EXCEPT !.local = @ \union {i}]
            /\ IF i \in Scoped
                 THEN Outcome("push") /\ UNCHANGED <<pushing, handed>>
                 ELSE Outcome("ok") /\ pushing' = pushing \union {i}
                      /\ handed' = handed \union {i}
       ELSE Outcome("fail") /\ UNCHANGED <<pushing, relay, handed>>
  /\ UNCHANGED <<direct, env, got, consented, troubles, outbox>>

\* DMRelay.accept_replica, on the recipient's node: a duplicate is accepted first.
Accepts(i) == i \in relay.remote \/ HasRoom(relay.remote)
Accepted(i) == relay' = [relay EXCEPT !.remote = @ \union {i}] /\ handed' = handed \union {i}

\* What the push of a message that the peer has refused comes to: the answer is
\* a 200 whose body says so.
RefusedIgnored == "ok"
Refused == "fail"

\* _replicate_envelope_to_peers for a scoped message: three attempts, then it
\* has failed, though one of them may have been accepted.
Replicate(i) ==
  /\ worker.at = "push" /\ Now(i)
  /\ \/ Accepts(i) /\ Accepted(i) /\ Outcome("ok") /\ UNCHANGED troubles
     \/ ~Accepts(i) /\ Outcome(Refused) /\ UNCHANGED <<relay, handed, troubles>>
     \/ Accepts(i) /\ Accepted(i) /\ Outcome("fail") /\ Trouble
     \/ Outcome("fail") /\ Trouble /\ UNCHANGED <<relay, handed>>
  /\ UNCHANGED <<pushing, direct, env, got, consented, outbox>>

\* The thread of _replicate_envelope_to_peers_async; nobody reads its result.
PushAsync(i) ==
  /\ i \in pushing /\ pushing' = pushing \ {i}
  /\ \/ Accepts(i) /\ Accepted(i) /\ UNCHANGED troubles
     \/ ~Accepts(i) /\ UNCHANGED <<relay, handed, troubles>>
     \/ Trouble /\ UNCHANGED <<relay, handed>>
  /\ UNCHANGED <<worker, direct, env, got, consented, outbox>>

\* _dispatch_gate: Tor, or else Reticulum, which tells no failure apart.
PublishGate(i) ==
  /\ worker.at = "send" /\ Now(i) /\ Floor(i) /\ ~Dm(i)
  /\ \/ Outcome("ok") /\ handed' = handed \union {i} /\ UNCHANGED troubles
     \/ Outcome("fail") /\ Trouble /\ UNCHANGED handed
  /\ UNCHANGED <<pushing, relay, direct, env, got, consented, outbox>>

\* run_once after the attempt: mark_delivered, which forgets the approval, or
\* mark_queued for the next pass.
Record(i) ==
  /\ Now(i) /\ worker.at \in {"ok", "fail"} /\ worker' = Without(i)
  /\ IF worker.at = "ok" THEN Saves(i, "delivered") /\ approved' = approved \ {i}
     ELSE Saves(i, "queued") /\ UNCHANGED approved
  /\ UNCHANGED <<auto, policy, env, got, consented, carriers>>
RecordFails(i) ==
  /\ Now(i) /\ worker.at \in {"ok", "fail"} /\ WriteFails
  /\ worker' = [Idle EXCEPT !.at = "dead"]
  /\ UNCHANGED <<approved, auto, policy, env, got, consented, carriers>>

------------------------------------------------------------------------------
(* the recipient, time, and crashes *)

\* _dm_poll_secure_from_signed_request on the recipient's node: both mailboxes
\* are emptied into one answer without repetitions, which may be lost.
Poll ==
  /\ relay.remote \union direct # {}
  /\ relay' = [relay EXCEPT !.remote = {}] /\ direct' = {}
  /\ \/ /\ got' = [i \in Items |-> got[i] + IF i \in relay.remote \union direct THEN 1 ELSE 0]
        /\ UNCHANGED troubles
     \/ Trouble /\ UNCHANGED got
  /\ UNCHANGED <<worker, pushing, handed, env, consented, outbox>>

\* _cleanup_expired at the sender's relay, after the time to live
Expire(i) ==
  /\ i \in relay.local /\ relay' = [relay EXCEPT !.local = @ \ {i}]
  /\ UNCHANGED <<worker, pushing, direct, handed, env, got, consented, troubles, outbox>>

Change == /\ env' \in Environments \ {env}
          /\ UNCHANGED <<worker, got, consented, troubles, outbox, carriers>>

\* PrivateOutbox._load and _normalize_item; a relay keeps messages in memory.
Loaded == [i \in Items |-> IF items[i] = "releasing" THEN "queued" ELSE items[i]]
Crash ==
  /\ Trouble /\ items' = Loaded /\ approved' = {} /\ auto' = {}
  /\ worker' = Idle /\ pushing' = {} /\ relay' = [relay EXCEPT !.local = {}]
  /\ UNCHANGED <<policy, direct, env, got, handed, consented>>

Init ==
  /\ lane \in Lanes /\ items = [i \in Items |-> "none"] /\ approved = {}
  /\ auto = {} /\ policy = FALSE /\ worker = Idle /\ pushing = {}
  /\ relay = [local |-> {}, remote |-> {}] /\ direct = {} /\ env \in Environments
  /\ got = [i \in Items |-> 0] /\ handed = {} /\ consented = FALSE
  /\ troubles = 0

Dispatch(i) ==
  HoldBack(i) \/ SendDirect(i) \/ Deposit(i) \/ Replicate(i) \/ PublishGate(i)
WorkerStep == Wake \/ \E i \in Items : Judge(i) \/ Dispatch(i) \/ Record(i)
User == \E i \in Items : Enqueue(i) \/ Relay(i) \/ Wait(i)
Step ==
  \/ User \/ WorkerStep \/ PolicyEnds \/ Poll \/ Change \/ Crash
  \/ \E i \in Items : AutoRelease(i) \/ PushAsync(i) \/ Expire(i) \/ RecordFails(i)
Next == Step /\ UNCHANGED lane

\* The worker's thread wakes every two seconds and finishes what it has begun;
\* a mailbox's time to live passes; the recipient's client polls.
Fairness == /\ WF_vars(WorkerStep /\ UNCHANGED lane) /\ WF_vars(Poll /\ UNCHANGED lane)
            /\ \A i \in Items : WF_vars(Expire(i) /\ UNCHANGED lane)
Spec == Init /\ [][Next]_vars /\ Fairness

------------------------------------------------------------------------------
WorkerType ==
  [at : {"idle", "run", "send", "park", "push", "ok", "fail", "dead"},
   tier : Tiers, todo : SUBSET Items, item : SUBSET Items, consent : BOOLEAN]

TypeOK ==
  /\ lane \in Lanes
  /\ items \in [Items -> {"none", "queued", "releasing", "delivered"}]
  /\ approved \subseteq Items /\ auto \subseteq Scoped /\ policy \in BOOLEAN
  /\ worker \in WorkerType
  /\ worker.item \subseteq worker.todo /\ Cardinality(worker.item) <= 1
  /\ pushing \subseteq Items \ (Scoped \union GateItems)
  /\ relay \in [local : SUBSET (Items \ GateItems), remote : SUBSET (Items \ GateItems)]
  /\ Cardinality(relay.local) <= PerSender /\ Cardinality(relay.remote) <= PerSender
  /\ direct \subseteq Items \ GateItems /\ env \in Environments
  /\ got \in [Items -> Nat] /\ handed \subseteq Items /\ consented \in BOOLEAN
  /\ troubles \in 0..MaxTroubles

\* What the outbox calls delivered has been taken for the recipient: a scoped
\* message by the recipient's own relay or the direct link, never by the
\* sender's relay alone, whatever was lost, saved or retried on the way.
DeliveredIsHanded == \A i \in Items : items[i] = "delivered" => i \in handed

\* config.py: "Queued DM release requires explicit per-item approval before any
\* weaker relay fallback."  Nothing is parked on a relay before somebody has
\* agreed to it once, except under anonymous mode over a hidden transport.
NoSilentRelay ==
  [][\A i \in Items : /\ i \notin relay.local /\ i \in relay'.local
                       /\ ApprovalEnabled /\ SecureDm
                       => consented \/ Enforced]_vars

\* The recipient sees a message again only after an answer was lost, a node
\* crashed or the outbox could not be written, and once for each at most.
RepeatsNeedFaults ==
  \A i \in Items : got[i] <= 1 + troubles

\* config.py: the limit is a "cap on distinct UNACKED messages"; a retry of a
\* scoped message that the sender's relay has parked is pushed again.
RetryIsPushed ==
  [][\A i \in Items : Deposit(i) /\ i \in relay.local /\ i \in Scoped
                       => worker'.at = "push"]_vars

\* A thread that an exception has ended is started again.
ThreadReturns == worker.at = "dead" ~> worker.at # "dead"

\* Once the transports are ready and the worker's thread lives, for good, every
\* queued item leaves: past lost sends, withheld approvals, crashes, and the
\* limit that a sender's own parked copies fill.
Ready == /\ env.attested /\ \A i \in Items : env.tier >= Required(i)
         /\ Enforced \/ (~env.anonymous /\ SecureDm /\ env.rns)
Steady == <>[](Ready /\ worker.at # "dead") /\ <>[][UNCHANGED env]_vars
Released == Steady => \A i \in Items : items[i] = "queued" ~> items[i] = "delivered"
=============================================================================
