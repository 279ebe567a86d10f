----------------------- MODULE PrivateDeliveryProofs -----------------------
(***************************************************************************)
(* Theorems about PrivateDelivery, for every value of its constants.       *)
(***************************************************************************)
EXTENDS PrivateDelivery, FiniteSetTheorems, TLAPS

------------------------------------------------------------------------------
(* The inductive invariant *)

\* Where the worker is, and what that says of the item in its hands.
Busy == {"send", "park", "push", "ok", "fail"}
HandsOK ==
  /\ worker.todo \subseteq Pending
  /\ worker.at \in Busy => \E i \in Items : worker.item = {i} /\ items[i] = "releasing"
  /\ worker.at \notin Busy => worker.item = {}
  /\ worker.at \in {"park", "push"} => worker.item \intersect GateItems = {}
  /\ worker.at = "ok" => worker.item \subseteq handed

\* Every grant and every approval goes back to somebody's consent.
ConsentOK ==
  /\ policy => consented
  /\ approved # {} => consented
  /\ ApprovalEnabled /\ worker.consent => consented
  /\ worker.at = "park" => worker.consent

\* How often the recipient may still see a message: what has been collected,
\* what waits in the mailboxes, what is under way to them, and what the worker
\* will send.
Unsent(i) == items[i] # "delivered" /\ ~(worker.at = "ok" /\ worker.item = {i})
One(condition) == IF condition THEN 1 ELSE 0
Copies(i) ==
  got[i] + One(i \in relay.remote \/ i \in direct) + One(i \in pushing) + One(Unsent(i))
CopiesOK == \A i \in Items : Copies(i) <= 1 + troubles

Inv == TypeOK /\ HandsOK /\ ConsentOK /\ DeliveredIsHanded /\ CopiesOK

------------------------------------------------------------------------------
(* Helpers *)

\* What kind of message an item is never changes.
LEMMA SameKinds ==
  ASSUME lane' = lane
  PROVE  GateItems' = GateItems /\ Scoped' = Scoped
BY DEF GateItems, Scoped

\* A parked set that has room takes one more and stays within the limit.
LEMMA RoomForOne ==
  ASSUME NEW box \in SUBSET Items, NEW i \in Items, HasRoom(box)
  PROVE  Cardinality(box \union {i}) <= PerSender
<1>1. IsFiniteSet(box) /\ Cardinality(box) \in Nat
  BY ItemsAssumption, FS_Subset, FS_CardinalityType
<1>2. Cardinality(box \union {i}) <= Cardinality(box) + 1
  BY <1>1, FS_AddElement
<1>3. Cardinality(box \union {i}) \in Nat
  BY <1>1, FS_AddElement, FS_CardinalityType
<1> QED BY <1>1, <1>2, <1>3, SettingsAssumption DEF HasRoom

\* Taking from a parked set keeps it within the limit.
LEMMA RoomAfterTaking ==
  ASSUME NEW box \in SUBSET Items, NEW taken, Cardinality(box) <= PerSender
  PROVE  Cardinality(box \ taken) <= PerSender
<1>1. IsFiniteSet(box) /\ Cardinality(box) \in Nat
  BY ItemsAssumption, FS_Subset, FS_CardinalityType
<1>2. box \ taken \in SUBSET box
  OBVIOUS
<1>3. IsFiniteSet(box \ taken) /\ Cardinality(box \ taken) <= Cardinality(box)
  BY <1>1, <1>2, FS_Subset
<1>4. Cardinality(box \ taken) \in Nat
  BY <1>3, FS_CardinalityType
<1> QED BY <1>1, <1>3, <1>4, SettingsAssumption

\* The worker has at most one message in its hands.
LEMMA NoneOrOne ==
  ASSUME NEW box, NEW i, box = {} \/ box = {i}
  PROVE  Cardinality(box) <= 1
<1>1. Cardinality({}) = 0 /\ Cardinality({i}) = 1
  BY FS_EmptySet, FS_Singleton, Zenon
<1>2. Cardinality(box) = 0 \/ Cardinality(box) = 1
  BY <1>1, Zenon
<1> QED BY <1>2

\* The recipient's relay takes a message.
LEMMA Parked ==
  ASSUME TypeOK, NEW i \in Items \ GateItems, Accepts(i), Accepted(i)
  PROVE  /\ relay' \in [local : SUBSET (Items \ GateItems), remote : SUBSET (Items \ GateItems)]
         /\ relay'.local = relay.local /\ relay'.remote = relay.remote \union {i}
         /\ Cardinality(relay'.local) <= PerSender /\ Cardinality(relay'.remote) <= PerSender
<1>1. /\ relay' \in [local : SUBSET (Items \ GateItems), remote : SUBSET (Items \ GateItems)]
      /\ relay'.local = relay.local /\ relay'.remote = relay.remote \union {i}
  BY DEF TypeOK, Accepted
<1>2. Cardinality(relay.remote \union {i}) <= PerSender
  <2>1. CASE i \in relay.remote
    <3>1. relay.remote \union {i} = relay.remote
      BY <2>1
    <3> QED BY <3>1 DEF TypeOK
  <2>2. CASE HasRoom(relay.remote)
    BY <2>2, RoomForOne DEF TypeOK
  <2> QED BY <2>1, <2>2 DEF Accepts
<1> QED BY <1>1, <1>2 DEF TypeOK

\* The worker's record when it has nothing in its hands, alive or dead.
LEMMA EmptyHands ==
  /\ Cardinality({}) = 0
  /\ Idle \in WorkerType /\ Idle.at = "idle"
  /\ Idle.item = {} /\ Idle.todo = {} /\ Idle.consent = FALSE
<1>1. Cardinality({}) = 0
  BY FS_EmptySet, Zenon
<1>2. Idle \in WorkerType /\ Idle.at = "idle"
  BY DEF Idle, WorkerType, Tiers
<1>3. Idle.item = {} /\ Idle.todo = {} /\ Idle.consent = FALSE
  BY DEF Idle
<1> QED BY <1>1, <1>2, <1>3

LEMMA Renamed ==
  ASSUME NEW w \in WorkerType, NEW at \in {"idle", "run", "park", "dead"}
  PROVE  /\ [w EXCEPT !.at = at] \in WorkerType /\ [w EXCEPT !.at = at].at = at
         /\ [w EXCEPT !.at = at].item = w.item /\ [w EXCEPT !.at = at].todo = w.todo
         /\ [w EXCEPT !.at = at].consent = w.consent
BY DEF WorkerType

LEMMA DeadHands ==
  ASSUME worker' = [Idle EXCEPT !.at = "dead"]
  PROVE  /\ worker' \in WorkerType /\ worker'.at = "dead" /\ worker'.item = {}
         /\ worker'.todo = {} /\ worker'.consent = FALSE
BY EmptyHands, Renamed

LEMMA OutcomeKeeps ==
  ASSUME TypeOK, NEW o \in {"ok", "fail", "push"}, Outcome(o)
  PROVE  /\ worker' \in WorkerType /\ worker'.at = o /\ worker'.consent = FALSE
         /\ worker'.item = worker.item /\ worker'.todo = worker.todo
BY DEF TypeOK, WorkerType, Outcome

\* ... or lays it down.
LEMMA WithoutType ==
  ASSUME TypeOK, NEW i \in Items
  PROVE  /\ Without(i) \in WorkerType /\ Without(i).at \in {"idle", "run"}
         /\ Without(i).item = {} /\ Without(i).todo \subseteq worker.todo \ {i}
         /\ Without(i).consent => worker.consent
<1>1. CASE worker.todo = {i}
  BY <1>1, EmptyHands DEF Without
<1>2. CASE worker.todo # {i}
  <2>1. Without(i) = [worker EXCEPT !.at = "run", !.todo = @ \ {i}, !.item = {}]
    BY <1>2 DEF Without
  <2>2. worker \in WorkerType /\ worker.todo \ {i} \in SUBSET Items
    BY DEF TypeOK, WorkerType
  <2>3. /\ Without(i) \in WorkerType /\ Without(i).at = "run" /\ Without(i).item = {}
        /\ Without(i).todo = worker.todo \ {i} /\ Without(i).consent = worker.consent
    BY <2>1, <2>2 DEF WorkerType
  <2> QED BY <2>3
<1> QED BY <1>1, <1>2

------------------------------------------------------------------------------
(* One lemma for each action *)

LEMMA InitOK == Init => Inv
<1> SUFFICES ASSUME Init PROVE Inv
  OBVIOUS
<1>1. TypeOK
  <2>1. Cardinality({}) <= PerSender /\ troubles \in 0..MaxTroubles
    BY EmptyHands, SettingsAssumption DEF Init
  <2>2. worker \in WorkerType /\ worker.item \subseteq worker.todo /\ Cardinality(worker.item) <= 1
    BY EmptyHands DEF Init
  <2>3. Cardinality(relay.local) <= PerSender /\ Cardinality(relay.remote) <= PerSender
    BY <2>1 DEF Init
  <2> QED BY <2>1, <2>2, <2>3 DEF Init, TypeOK
<1>2. HandsOK
  BY DEF Init, HandsOK, Idle, Busy
<1>3. ConsentOK /\ DeliveredIsHanded
  BY DEF Init, ConsentOK, Idle, DeliveredIsHanded
<1>4. CopiesOK
  BY DEF Init, CopiesOK, Copies, One, Idle
<1> QED BY <1>1, <1>2, <1>3, <1>4 DEF Inv

LEMMA EnqueueOK ==
  ASSUME Inv, lane' = lane, NEW i \in Items, Enqueue(i)
  PROVE  Inv'
<1> USE DEF Enqueue, Saves, WriteFails, Trouble, Started, carriers
<1>1. TypeOK'
  BY SameKinds, SettingsAssumption DEF Inv, TypeOK, WorkerType
<1>2. HandsOK'
  BY SameKinds DEF Inv, TypeOK, WorkerType, HandsOK, Busy, Pending
<1>3. ConsentOK' /\ DeliveredIsHanded'
  BY DEF Inv, TypeOK, WorkerType, ConsentOK, DeliveredIsHanded
<1>4. CopiesOK'
  BY SettingsAssumption DEF Inv, TypeOK, CopiesOK, Copies, One, Unsent
<1> QED BY <1>1, <1>2, <1>3, <1>4 DEF Inv

LEMMA AutoReleaseOK ==
  ASSUME Inv, lane' = lane, NEW i \in Items, AutoRelease(i)
  PROVE  Inv'
<1> USE DEF AutoRelease, Approve, Started, carriers
<1>1. TypeOK'
  BY SameKinds, EmptyHands, SettingsAssumption DEF Inv, TypeOK, WorkerType
<1>2. HandsOK'
  BY SameKinds DEF Inv, HandsOK, Busy, Pending
<1>3. ConsentOK' /\ DeliveredIsHanded'
  BY DEF Inv, ConsentOK, DeliveredIsHanded
<1>4. CopiesOK'
  BY SettingsAssumption DEF Inv, CopiesOK, Copies, Unsent
<1> QED BY <1>1, <1>2, <1>3, <1>4 DEF Inv

LEMMA RelayOK ==
  ASSUME Inv, lane' = lane, NEW i \in Items, Relay(i)
  PROVE  Inv'
<1> USE DEF Relay, Approve, carriers
<1>1. TypeOK'
  BY SameKinds, EmptyHands, SettingsAssumption DEF Inv, TypeOK
<1>2. HandsOK'
  BY SameKinds DEF Inv, HandsOK, Pending
<1>3. ConsentOK' /\ DeliveredIsHanded'
  BY DEF Inv, ConsentOK, DeliveredIsHanded
<1>4. CopiesOK'
  BY SettingsAssumption DEF Inv, CopiesOK, Copies, Unsent
<1> QED BY <1>1, <1>2, <1>3, <1>4 DEF Inv

LEMMA WaitOK ==
  ASSUME Inv, lane' = lane, NEW i \in Items, Wait(i)
  PROVE  Inv'
<1> USE DEF Wait, carriers
<1>1. TypeOK'
  BY SameKinds, EmptyHands, SettingsAssumption DEF Inv, TypeOK
<1>2. HandsOK'
  BY SameKinds DEF Inv, HandsOK, Pending
<1>3. ConsentOK' /\ DeliveredIsHanded'
  BY DEF Inv, ConsentOK, DeliveredIsHanded
<1>4. CopiesOK'
  BY SettingsAssumption DEF Inv, CopiesOK, Copies, Unsent
<1> QED BY <1>1, <1>2, <1>3, <1>4 DEF Inv

LEMMA PolicyEndsOK ==
  ASSUME Inv, lane' = lane, PolicyEnds
  PROVE  Inv'
<1> USE DEF PolicyEnds, carriers
<1>1. TypeOK'
  BY SameKinds, EmptyHands, SettingsAssumption DEF Inv, TypeOK
<1>2. HandsOK'
  BY SameKinds DEF Inv, HandsOK, Pending
<1>3. ConsentOK' /\ DeliveredIsHanded'
  BY DEF Inv, ConsentOK, DeliveredIsHanded
<1>4. CopiesOK'
  BY SettingsAssumption DEF Inv, CopiesOK, Copies, Unsent
<1> QED BY <1>1, <1>2, <1>3, <1>4 DEF Inv

LEMMA WakeOK ==
  ASSUME Inv, lane' = lane, Wake
  PROVE  Inv'
<1> USE DEF Wake, Idle, outbox, carriers
<1>1. TypeOK'
  <2>1. Pending \in SUBSET Items /\ env.tier \in Tiers /\ Cardinality({}) = 0
    BY EmptyHands, SettingsAssumption DEF Inv, TypeOK, EnvironmentType, Pending
  <2>2. worker' \in WorkerType /\ worker'.item = {}
    BY <2>1 DEF WorkerType
  <2> QED BY <2>1, <2>2, SameKinds DEF Inv, TypeOK
<1>2. HandsOK'
  BY SameKinds DEF Inv, HandsOK, Busy, Pending
<1>3. ConsentOK' /\ DeliveredIsHanded'
  BY DEF Inv, ConsentOK, DeliveredIsHanded
<1>4. CopiesOK'
  BY SettingsAssumption DEF Inv, CopiesOK, Copies, Unsent
<1> QED BY <1>1, <1>2, <1>3, <1>4 DEF Inv

LEMMA PushAsyncOK ==
  ASSUME Inv, lane' = lane, NEW i \in Items, PushAsync(i)
  PROVE  Inv'
<1> USE DEF PushAsync, Trouble, outbox
<1>1. TypeOK'
  <2>1. relay' = relay \/ (Accepts(i) /\ Accepted(i))
    OBVIOUS
  <2>2. /\ relay' \in [local : SUBSET (Items \ GateItems), remote : SUBSET (Items \ GateItems)]
        /\ Cardinality(relay'.local) <= PerSender /\ Cardinality(relay'.remote) <= PerSender
    BY <2>1, Parked DEF Inv, TypeOK
  <2>3. troubles' \in 0..MaxTroubles
    BY SettingsAssumption DEF Inv, TypeOK
  <2>4. handed' \subseteq Items
    BY DEF Inv, TypeOK, Accepted
  <2> QED BY <2>2, <2>3, <2>4, SameKinds DEF Inv, TypeOK
<1>2. HandsOK'
  BY SameKinds DEF Inv, HandsOK, Pending, Accepted
<1>3. ConsentOK' /\ DeliveredIsHanded'
  BY DEF Inv, ConsentOK, DeliveredIsHanded, Accepted
<1>4. CopiesOK'
  BY SettingsAssumption DEF Inv, TypeOK, CopiesOK, Copies, One, Unsent, Accepted
<1> QED BY <1>1, <1>2, <1>3, <1>4 DEF Inv

LEMMA PollOK ==
  ASSUME Inv, lane' = lane, Poll
  PROVE  Inv'
<1> USE DEF Poll, Trouble, outbox
<1>1. TypeOK'
  BY SameKinds, EmptyHands, SettingsAssumption DEF Inv, TypeOK
<1>2. HandsOK'
  BY SameKinds DEF Inv, HandsOK, Pending
<1>3. ConsentOK' /\ DeliveredIsHanded'
  BY DEF Inv, ConsentOK, DeliveredIsHanded
<1>4. CopiesOK'
  BY SettingsAssumption DEF Inv, TypeOK, CopiesOK, Copies, One, Unsent
<1> QED BY <1>1, <1>2, <1>3, <1>4 DEF Inv

LEMMA ExpireOK ==
  ASSUME Inv, lane' = lane, NEW i \in Items, Expire(i)
  PROVE  Inv'
<1> USE DEF Expire, outbox
<1>1. TypeOK'
  <2>1. Cardinality(relay.local \ {i}) <= PerSender
    BY RoomAfterTaking DEF Inv, TypeOK
  <2> QED BY <2>1, SameKinds DEF Inv, TypeOK
<1>2. HandsOK'
  BY SameKinds DEF Inv, HandsOK, Pending
<1>3. ConsentOK' /\ DeliveredIsHanded'
  BY DEF Inv, ConsentOK, DeliveredIsHanded
<1>4. CopiesOK'
  BY SettingsAssumption DEF Inv, CopiesOK, Copies, Unsent
<1> QED BY <1>1, <1>2, <1>3, <1>4 DEF Inv

LEMMA ChangeOK ==
  ASSUME Inv, lane' = lane, Change
  PROVE  Inv'
<1> USE DEF Change, outbox, carriers
<1>1. TypeOK'
  BY SameKinds, EmptyHands, SettingsAssumption DEF Inv, TypeOK
<1>2. HandsOK'
  BY SameKinds DEF Inv, HandsOK, Pending
<1>3. ConsentOK' /\ DeliveredIsHanded'
  BY DEF Inv, ConsentOK, DeliveredIsHanded
<1>4. CopiesOK'
  BY SettingsAssumption DEF Inv, CopiesOK, Copies, Unsent
<1> QED BY <1>1, <1>2, <1>3, <1>4 DEF Inv

LEMMA CrashOK ==
  ASSUME Inv, lane' = lane, Crash
  PROVE  Inv'
<1> USE DEF Crash, Trouble, Loaded, Idle
<1>1. TypeOK'
  BY SameKinds, EmptyHands, SettingsAssumption DEF Inv, TypeOK
<1>2. HandsOK'
  BY SameKinds DEF Inv, HandsOK, Busy, Pending
<1>3. ConsentOK' /\ DeliveredIsHanded'
  BY DEF Inv, ConsentOK, DeliveredIsHanded
<1>4. CopiesOK'
  BY SettingsAssumption DEF Inv, TypeOK, CopiesOK, Copies, One
<1> QED BY <1>1, <1>2, <1>3, <1>4 DEF Inv

LEMMA HoldBackOK ==
  ASSUME Inv, lane' = lane, NEW i \in Items, HoldBack(i)
  PROVE  Inv'
<1> USE DEF HoldBack, Now, Dm, Outcome, outbox, carriers
<1>1. TypeOK'
  <2>1. worker' = [worker EXCEPT !.at = "fail", !.consent = FALSE]
    OBVIOUS
  <2> USE DEF Inv, TypeOK
  <2>2. worker' \in WorkerType /\ worker'.item = worker.item /\ worker'.todo = worker.todo
    BY <2>1 DEF WorkerType
  <2> QED BY <2>2, SameKinds
<1>2. HandsOK'
  BY SameKinds DEF Inv, TypeOK, WorkerType, HandsOK, Busy, Pending
<1>3. ConsentOK' /\ DeliveredIsHanded'
  BY DEF Inv, TypeOK, WorkerType, ConsentOK, DeliveredIsHanded
<1>4. CopiesOK'
  BY SettingsAssumption DEF Inv, TypeOK, CopiesOK, Copies, One, Unsent
<1> QED BY <1>1, <1>2, <1>3, <1>4 DEF Inv

LEMMA SendDirectOK ==
  ASSUME Inv, lane' = lane, NEW i \in Items, SendDirect(i)
  PROVE  Inv'
<1>1. /\ worker.at = "send" /\ worker.item = {i} /\ i \notin GateItems
      /\ UNCHANGED <<pushing, relay, env, got, consented, items, approved, auto, policy>>
  BY DEF SendDirect, Now, Dm, outbox
<1>2. /\ worker' \in WorkerType /\ worker'.item = {i} /\ worker'.todo = worker.todo
      /\ \/ worker'.at \in {"ok", "fail"} /\ ~worker'.consent
         \/ worker'.at = "park" /\ worker'.consent /\ worker.consent
  <2>1. worker \in WorkerType
    BY DEF Inv, TypeOK
  <2>2. CASE Outcome("ok") \/ Outcome("fail")
    BY <1>1, <2>2, OutcomeKeeps DEF Inv
  <2>3. CASE worker' = [worker EXCEPT !.at = "park"] /\ worker.consent
    BY <1>1, <2>1, <2>3 DEF WorkerType
  <2> QED BY <2>2, <2>3 DEF SendDirect
<1>3. /\ direct' \in {direct, direct \union {i}} /\ handed' \in {handed, handed \union {i}}
      /\ worker'.at = "ok" => i \in handed'
      /\ direct' # direct => worker'.at = "ok"
  <2>1. CASE Outcome("ok") /\ handed' = handed \union {i} /\ direct' \in {direct, direct \union {i}}
    BY <2>1, OutcomeKeeps DEF Inv
  <2>2. CASE direct' = direct /\ handed' = handed /\ worker'.at # "ok"
    BY <2>2
  <2>3. ASSUME UNCHANGED <<direct, handed>>, Outcome("fail") PROVE worker'.at # "ok"
    BY <2>3, OutcomeKeeps DEF Inv
  <2>4. ASSUME worker' = [worker EXCEPT !.at = "park"] PROVE worker'.at # "ok"
    BY <2>4, Renamed DEF Inv
  <2> QED BY <2>1, <2>2, <2>3, <2>4 DEF SendDirect
<1>4. /\ troubles \in Nat /\ troubles' \in {troubles, troubles + 1} /\ troubles' <= MaxTroubles
  BY SettingsAssumption DEF Inv, TypeOK, SendDirect, Trouble
<1>6. TypeOK'
  BY <1>1, <1>2, <1>3, <1>4, SameKinds, SettingsAssumption DEF Inv, TypeOK
<1>7. HandsOK'
  BY <1>1, <1>2, <1>3, <1>4, SameKinds DEF Inv, HandsOK, Busy, Pending
<1>8. ConsentOK' /\ DeliveredIsHanded'
  BY <1>1, <1>2, <1>3, <1>4 DEF Inv, ConsentOK, DeliveredIsHanded
<1>9. CopiesOK'
  BY <1>1, <1>2, <1>3, <1>4, SettingsAssumption DEF Inv, TypeOK, HandsOK, CopiesOK, Copies, One, Unsent
<1> QED BY <1>6, <1>7, <1>8, <1>9 DEF Inv

LEMMA DepositOK ==
  ASSUME Inv, lane' = lane, NEW i \in Items, Deposit(i)
  PROVE  Inv'
<1>1. /\ worker.at \in {"send", "park"} /\ worker.item = {i} /\ i \notin GateItems
      /\ UNCHANGED <<direct, env, got, consented, troubles, items, approved, auto, policy>>
  BY DEF Inv, HandsOK, Deposit, Now, ToRelay, Dm, outbox
<1>2. /\ worker' \in WorkerType /\ worker'.item = {i} /\ worker'.todo = worker.todo
      /\ worker'.at \in {"ok", "fail", "push"} /\ ~worker'.consent
  BY <1>1, OutcomeKeeps DEF Inv, Deposit
<1>3. /\ relay' \in [local : SUBSET (Items \ GateItems), remote : SUBSET (Items \ GateItems)]
      /\ relay'.remote = relay.remote /\ Cardinality(relay'.local) <= PerSender
  BY <1>1, RoomForOne DEF Inv, TypeOK, Deposit
<1>4. \/ worker'.at # "ok" /\ UNCHANGED <<pushing, handed>>
      \/ /\ worker'.at = "ok" /\ i \notin Scoped
         /\ pushing' = pushing \union {i} /\ handed' = handed \union {i}
  BY <1>1, OutcomeKeeps DEF Inv, Deposit
<1>6. TypeOK'
  BY <1>1, <1>2, <1>3, <1>4, SameKinds, SettingsAssumption DEF Inv, TypeOK
<1>7. HandsOK'
  BY <1>1, <1>2, <1>3, <1>4, SameKinds DEF Inv, HandsOK, Busy, Pending
<1>8. ConsentOK' /\ DeliveredIsHanded'
  BY <1>1, <1>2, <1>3, <1>4 DEF Inv, ConsentOK, DeliveredIsHanded
<1>9. CopiesOK'
  BY <1>1, <1>2, <1>3, <1>4, SettingsAssumption DEF Inv, TypeOK, HandsOK, CopiesOK, Copies, One, Unsent
<1> QED BY <1>6, <1>7, <1>8, <1>9 DEF Inv

LEMMA ReplicateOK ==
  ASSUME Inv, lane' = lane, NEW i \in Items, Replicate(i)
  PROVE  Inv'
<1>1. /\ worker.at = "push" /\ worker.item = {i} /\ i \notin GateItems
      /\ UNCHANGED <<pushing, direct, env, got, consented, items, approved, auto, policy>>
  BY DEF Inv, HandsOK, Replicate, Now, outbox
<1>2. /\ worker' \in WorkerType /\ worker'.item = {i} /\ worker'.todo = worker.todo
      /\ worker'.at \in {"ok", "fail"} /\ ~worker'.consent
  BY <1>1, OutcomeKeeps DEF Inv, Replicate, Refused
<1>3. \/ UNCHANGED <<relay, handed>>
      \/ Accepts(i) /\ Accepted(i)
  BY DEF Replicate
<1>4. /\ relay' \in [local : SUBSET (Items \ GateItems), remote : SUBSET (Items \ GateItems)]
      /\ relay'.local = relay.local /\ Cardinality(relay'.remote) <= PerSender
      /\ relay'.remote \in {relay.remote, relay.remote \union {i}}
      /\ handed' \in {handed, handed \union {i}}
  <2>1. CASE UNCHANGED <<relay, handed>>
    BY <2>1 DEF Inv, TypeOK
  <2>2. CASE Accepts(i) /\ Accepted(i)
    <3>1. handed' = handed \union {i}
      BY <2>2 DEF Accepted
    <3> QED BY <1>1, <2>2, <3>1, Parked DEF Inv
  <2> QED BY <1>3, <2>1, <2>2
<1>5. /\ worker'.at = "ok" => i \in handed'
      /\ relay'.remote # relay.remote => worker'.at = "ok" \/ troubles' = troubles + 1
  <2>1. CASE Accepted(i) /\ Outcome("ok")
    BY <2>1, OutcomeKeeps DEF Inv, Accepted
  <2>2. CASE Outcome("fail") /\ (relay' = relay \/ Trouble)
    BY <2>2, OutcomeKeeps DEF Inv, Trouble
  <2> QED BY <2>1, <2>2 DEF Replicate, Refused
<1>10. /\ troubles \in Nat /\ troubles' \in {troubles, troubles + 1} /\ troubles' <= MaxTroubles
  BY SettingsAssumption DEF Inv, TypeOK, Replicate, Trouble
<1>6. TypeOK'
  BY <1>1, <1>2, <1>4, <1>5, <1>10, SameKinds, SettingsAssumption DEF Inv, TypeOK
<1>7. HandsOK'
  BY <1>1, <1>2, <1>4, <1>5, <1>10, SameKinds DEF Inv, HandsOK, Busy, Pending
<1>8. ConsentOK' /\ DeliveredIsHanded'
  BY <1>1, <1>2, <1>4, <1>5, <1>10 DEF Inv, ConsentOK, DeliveredIsHanded
<1>9. CopiesOK'
  BY <1>1, <1>2, <1>4, <1>5, <1>10, SettingsAssumption DEF Inv, TypeOK, HandsOK, CopiesOK, Copies, One, Unsent
<1> QED BY <1>6, <1>7, <1>8, <1>9 DEF Inv

LEMMA PublishGateOK ==
  ASSUME Inv, lane' = lane, NEW i \in Items, PublishGate(i)
  PROVE  Inv'
<1>1. /\ worker.at = "send" /\ worker.item = {i}
      /\ UNCHANGED <<pushing, relay, direct, env, got, consented, items, approved, auto, policy>>
  BY DEF PublishGate, Now, outbox
<1>2. /\ worker' \in WorkerType /\ worker'.item = {i} /\ worker'.todo = worker.todo
      /\ worker'.at \in {"ok", "fail"} /\ ~worker'.consent
  BY <1>1, OutcomeKeeps DEF Inv, PublishGate
<1>3. /\ handed' \in {handed, handed \union {i}}
      /\ worker'.at = "ok" => i \in handed'
  <2>1. CASE Outcome("ok") /\ handed' = handed \union {i}
    BY <2>1
  <2>2. CASE Outcome("fail") /\ handed' = handed
    BY <2>2, OutcomeKeeps DEF Inv
  <2> QED BY <2>1, <2>2 DEF PublishGate
<1>4. /\ troubles \in Nat /\ troubles' \in {troubles, troubles + 1} /\ troubles' <= MaxTroubles
  BY SettingsAssumption DEF Inv, TypeOK, PublishGate, Trouble
<1>6. TypeOK'
  BY <1>1, <1>2, <1>3, <1>4, SameKinds, SettingsAssumption DEF Inv, TypeOK
<1>7. HandsOK'
  BY <1>1, <1>2, <1>3, <1>4, SameKinds DEF Inv, HandsOK, Busy, Pending
<1>8. ConsentOK' /\ DeliveredIsHanded'
  BY <1>1, <1>2, <1>3, <1>4 DEF Inv, ConsentOK, DeliveredIsHanded
<1>9. CopiesOK'
  BY <1>1, <1>2, <1>3, <1>4, SettingsAssumption DEF Inv, TypeOK, CopiesOK, Copies, One, Unsent
<1> QED BY <1>6, <1>7, <1>8, <1>9 DEF Inv

LEMMA RecordOK ==
  ASSUME Inv, lane' = lane, NEW i \in Items, Record(i)
  PROVE  Inv'
<1>1. /\ worker.at \in {"ok", "fail"} /\ worker.item = {i} /\ worker' = Without(i)
      /\ UNCHANGED <<auto, policy, env, got, consented, troubles, pushing, relay, direct, handed>>
  BY DEF Record, Now, Saves, carriers
<1>2. /\ items' = [items EXCEPT ![i] = IF worker.at = "ok" THEN "delivered" ELSE "queued"]
      /\ approved' \subseteq approved
  BY <1>1 DEF Record, Saves
<1>3. /\ worker' \in WorkerType /\ worker'.at \in {"idle", "run"} /\ worker'.item = {}
      /\ worker'.todo \subseteq worker.todo \ {i} /\ (worker'.consent => worker.consent)
  BY <1>1, WithoutType DEF Inv
<1>6. TypeOK'
  BY <1>1, <1>2, <1>3, EmptyHands, SameKinds, SettingsAssumption DEF Inv, TypeOK
<1>4. /\ \A j \in Items : j # i => items'[j] = items[j]
      /\ items'[i] = "delivered" => worker.at = "ok"
  BY <1>1, <1>2 DEF Inv, TypeOK
<1>7. HandsOK'
  <2>1. worker'.todo \subseteq Pending'
    <3> SUFFICES ASSUME NEW j \in worker'.todo PROVE j \in Pending'
      OBVIOUS
    <3>1. j \in worker.todo /\ j # i /\ j \in Pending
      BY <1>3 DEF Inv, HandsOK
    <3> QED BY <1>4, <3>1 DEF Pending
  <2> QED BY <1>3, <2>1 DEF HandsOK, Busy
<1>8. ConsentOK' /\ DeliveredIsHanded'
  <2>1. DeliveredIsHanded'
    BY <1>1, <1>4 DEF Inv, HandsOK, DeliveredIsHanded
  <2>2. ConsentOK'
    <3>1. policy' => consented'
      BY <1>1 DEF Inv, ConsentOK
    <3>2. approved' # {} => consented'
      BY <1>1, <1>2 DEF Inv, ConsentOK
    <3>3. ApprovalEnabled /\ worker'.consent => consented'
      BY <1>1, <1>3 DEF Inv, ConsentOK
    <3>4. worker'.at # "park"
      BY <1>3
    <3> QED BY <3>1, <3>2, <3>3, <3>4 DEF ConsentOK
  <2> QED BY <2>1, <2>2
<1>9. CopiesOK'
  BY SMTT(30), <1>1, <1>2, <1>3, EmptyHands, SettingsAssumption DEF Inv, TypeOK, HandsOK, CopiesOK, Copies, Unsent
<1> QED BY <1>6, <1>7, <1>8, <1>9 DEF Inv

LEMMA RecordFailsOK ==
  ASSUME Inv, lane' = lane, NEW i \in Items, RecordFails(i)
  PROVE  Inv'
<1>1. /\ worker.at \in {"ok", "fail"} /\ worker.item = {i}
      /\ UNCHANGED <<items, approved, auto, policy, env, got, consented, pushing, relay,
                     direct, handed>>
      /\ worker' = [Idle EXCEPT !.at = "dead"]
  BY DEF RecordFails, Now, WriteFails, carriers
<1>2. /\ worker' \in WorkerType /\ worker'.at = "dead" /\ worker'.item = {}
      /\ worker'.todo = {} /\ worker'.consent = FALSE
  BY <1>1, DeadHands
<1>3. /\ troubles \in Nat /\ troubles' = troubles + 1 /\ troubles' <= MaxTroubles
  BY SettingsAssumption DEF Inv, TypeOK, RecordFails, WriteFails, Trouble
<1>4. TypeOK'
  <2>1. Cardinality(worker'.item) <= 1
    BY <1>2, NoneOrOne, Zenon
  <2> QED BY <1>1, <1>2, <1>3, <2>1, SameKinds DEF Inv, TypeOK
<1>5. HandsOK' /\ ConsentOK' /\ DeliveredIsHanded'
  BY <1>1, <1>2 DEF Inv, HandsOK, Busy, ConsentOK, DeliveredIsHanded
<1>6. CopiesOK'
  BY <1>1, <1>2, <1>3 DEF Inv, TypeOK, CopiesOK, Copies, One
<1> QED BY <1>4, <1>5, <1>6 DEF Inv

LEMMA JudgeOK ==
  ASSUME Inv, lane' = lane, NEW i \in Items, Judge(i)
  PROVE  Inv'
<1>1. /\ worker.at = "run" /\ i \in worker.todo /\ worker.item = {} /\ items[i] # "delivered"
      /\ UNCHANGED <<auto, policy, env, got, consented, pushing, relay, direct, handed>>
  BY DEF Inv, HandsOK, Busy, Pending, Judge, carriers
<1>2. approved' \subseteq approved
  BY DEF Judge, Judged
<1>3. /\ troubles \in Nat /\ troubles' \in {troubles, troubles + 1} /\ troubles' <= MaxTroubles
  BY SettingsAssumption DEF Inv, TypeOK, Judge, Saves, WriteFails, Trouble
<1>4. \/ /\ items' = [items EXCEPT ![i] = "releasing"]
         /\ worker' = [worker EXCEPT !.at = "send", !.item = {i}, !.consent = Consent(i \in approved')]
      \/ items' = [items EXCEPT ![i] = "queued"] /\ worker' = Without(i)
      \/ items' = items /\ worker' = [Idle EXCEPT !.at = "dead"]
  BY DEF Judge, Saves, WriteFails
<1>5. Consent(i \in approved') \in BOOLEAN /\ (ApprovalEnabled /\ Consent(i \in approved') => consented)
  BY <1>2 DEF Inv, ConsentOK, Consent, Granted, Enforced
<1>6. /\ worker' \in WorkerType /\ worker'.at \in {"idle", "run", "send", "dead"}
      /\ worker'.todo \subseteq worker.todo
      /\ worker'.at # "send" => worker'.item = {} /\ (worker'.consent => worker.consent)
      /\ worker'.at = "send" => /\ worker'.item = {i} /\ i \in worker'.todo
                                /\ items' = [items EXCEPT ![i] = "releasing"]
                                /\ worker'.consent => (ApprovalEnabled => consented)
      /\ i \in worker'.todo => items'[i] \in {items[i], "releasing"}
  <2>1. worker \in WorkerType /\ items[i] = items[i] /\ items \in [Items -> {"none", "queued", "releasing", "delivered"}]
    BY DEF Inv, TypeOK
  <2>2. CASE /\ items' = [items EXCEPT ![i] = "releasing"]
             /\ worker' = [worker EXCEPT !.at = "send", !.item = {i}, !.consent = Consent(i \in approved')]
    <3>1. /\ worker' \in WorkerType /\ worker'.at = "send" /\ worker'.todo = worker.todo
          /\ worker'.item = {i} /\ worker'.consent = Consent(i \in approved')
      BY <1>5, <2>1, <2>2 DEF WorkerType
    <3>2. items'[i] = "releasing"
      BY <2>1, <2>2
    <3> QED BY <1>1, <1>5, <2>2, <3>1, <3>2
  <2>3. CASE worker' = Without(i)
    BY <2>3, WithoutType DEF Inv
  <2>4. CASE worker' = [Idle EXCEPT !.at = "dead"] /\ items' = items
    BY <2>4, DeadHands
  <2> QED BY <1>4, <2>2, <2>3, <2>4
<1>7. /\ items' \in [Items -> {"none", "queued", "releasing", "delivered"}]
      /\ \A j \in Items : j # i => items'[j] = items[j]
      /\ items'[i] # "delivered"
  BY <1>1, <1>4 DEF Inv, TypeOK
<1>8. TypeOK'
  <2>1. worker'.item \subseteq worker'.todo /\ Cardinality(worker'.item) <= 1
    <3>1. worker'.item = {} \/ (worker'.item = {i} /\ i \in worker'.todo)
      BY <1>6
    <3>2. Cardinality(worker'.item) <= 1
      BY <3>1, NoneOrOne, Zenon
    <3> QED BY <3>1, <3>2
  <2>2. approved' \subseteq Items /\ troubles' \in 0..MaxTroubles
    BY <1>2, <1>3, SettingsAssumption DEF Inv, TypeOK
  <2> QED BY <1>1, <1>6, <1>7, <2>1, <2>2, SameKinds DEF Inv, TypeOK
<1>9. HandsOK'
  <2>1. worker'.todo \subseteq Pending'
    BY <1>1, <1>6, <1>7 DEF Inv, HandsOK, Pending
  <2>2. worker'.at = "send" => items'[i] = "releasing"
    BY <1>6 DEF Inv, TypeOK
  <2> QED BY <1>6, <2>1, <2>2 DEF HandsOK, Busy
<1>10. ConsentOK' /\ DeliveredIsHanded'
  <2>1. ConsentOK'
    BY <1>1, <1>2, <1>6 DEF Inv, ConsentOK
  <2>2. DeliveredIsHanded'
    BY <1>1, <1>7 DEF Inv, DeliveredIsHanded
  <2> QED BY <2>1, <2>2
<1>11. CopiesOK'
  BY <1>1, <1>3, <1>6, <1>7 DEF Inv, TypeOK, CopiesOK, Copies, One, Unsent
<1> QED BY <1>8, <1>9, <1>10, <1>11 DEF Inv

------------------------------------------------------------------------------
(* The theorems *)

LEMMA StepOK == Inv /\ [Next]_vars => Inv'
<1> SUFFICES ASSUME Inv, [Next]_vars PROVE Inv'
  OBVIOUS
<1>1. CASE Next
  <2>1. lane' = lane /\ Step
    BY <1>1 DEF Next
  <2>2. CASE User
    BY <2>1, <2>2, EnqueueOK, RelayOK, WaitOK DEF User
  <2>3. CASE WorkerStep
    BY <2>1, <2>3, WakeOK, JudgeOK, HoldBackOK, SendDirectOK, DepositOK, ReplicateOK,
       PublishGateOK, RecordOK DEF WorkerStep, Dispatch
  <2>4. CASE PolicyEnds \/ Poll \/ Change \/ Crash
    BY <2>1, <2>4, PolicyEndsOK, PollOK, ChangeOK, CrashOK
  <2>5. CASE \E i \in Items : AutoRelease(i) \/ PushAsync(i) \/ Expire(i) \/ RecordFails(i)
    BY <2>1, <2>5, AutoReleaseOK, PushAsyncOK, ExpireOK, RecordFailsOK
  <2> QED BY <2>1, <2>2, <2>3, <2>4, <2>5 DEF Step
<1>2. CASE UNCHANGED vars
  BY <1>2, SameKinds DEF vars, Inv, TypeOK, HandsOK, Pending, ConsentOK, DeliveredIsHanded,
     CopiesOK, Copies, One, Unsent
<1> QED BY <1>1, <1>2

LEMMA Invariance == Spec => []Inv
BY InitOK, StepOK, PTL DEF Spec

\* Every variable keeps its type: no parked box exceeds the limit per sender,
\* and the worker holds at most one of the messages of its pass.
THEOREM TypeCorrect == Spec => []TypeOK
<1>1. Inv => TypeOK
  BY DEF Inv
<1> QED BY <1>1, Invariance, PTL

\* The outbox never calls a message delivered that no transport has taken for
\* the recipient, for any number of messages, crashes and failed writes.
THEOREM DeliveredWasHanded == Spec => []DeliveredIsHanded
<1>1. Inv => DeliveredIsHanded
  BY DEF Inv
<1> QED BY <1>1, Invariance, PTL

\* A message is collected once, and once more for each fault at most.
THEOREM RepeatsAreBounded == Spec => []RepeatsNeedFaults
<1>1. Inv => RepeatsNeedFaults
  <2> SUFFICES ASSUME Inv, NEW i \in Items PROVE got[i] <= 1 + troubles
    BY DEF RepeatsNeedFaults
  <2>1. Copies(i) <= 1 + troubles /\ got[i] \in Nat /\ troubles \in Nat
    BY SettingsAssumption DEF Inv, TypeOK, CopiesOK
  <2> QED BY <2>1 DEF Copies, One
<1> QED BY <1>1, Invariance, PTL

\* A message appears on the sender's relay by Deposit alone, and Deposit finds
\* a consent that the worker has noted, or the hidden transport of anonymous
\* mode.
LEMMA OnlyDepositParks ==
  ASSUME Inv, [Next]_vars, NEW i \in Items, i \notin relay.local, i \in relay'.local
  PROVE  Deposit(i)
<1>1. Step
  <2>1. ~UNCHANGED vars
    BY DEF vars
  <2> QED BY <2>1 DEF Next
<1>2. relay # relay' /\ relay \in [local : SUBSET (Items \ GateItems), remote : SUBSET (Items \ GateItems)]
  BY DEF Inv, TypeOK
<1>3. ~User
  BY <1>2 DEF User, Enqueue, Relay, Wait, carriers
<1>4. ASSUME WorkerStep PROVE Deposit(i)
  <2>1. ~Wake /\ \A j \in Items : ~Judge(j) /\ ~Record(j)
    BY <1>2 DEF Wake, Judge, Record, carriers
  <2>2. PICK j \in Items : Dispatch(j)
    BY <1>4, <2>1 DEF WorkerStep
  <2>3. ~HoldBack(j) /\ ~SendDirect(j) /\ ~PublishGate(j)
    BY <1>2 DEF HoldBack, SendDirect, PublishGate, carriers
  <2>4. ~Replicate(j)
    BY <1>2 DEF Replicate, Accepted
  <2>5. Deposit(j)
    BY <2>2, <2>3, <2>4 DEF Dispatch
  <2>6. relay'.local \subseteq relay.local \union {j}
    BY <1>2, <2>5 DEF Deposit
  <2> QED BY <2>5, <2>6
<1>5. ~PolicyEnds /\ ~Change
  BY <1>2 DEF PolicyEnds, Change, carriers
<1>6. ~Poll /\ ~Crash
  BY <1>2 DEF Poll, Crash
<1>7. \A j \in Items : ~AutoRelease(j) /\ ~RecordFails(j)
  BY <1>2 DEF AutoRelease, RecordFails, carriers
<1>8. \A j \in Items : ~PushAsync(j) /\ ~Expire(j)
  BY <1>2 DEF PushAsync, Accepted, Expire
<1> QED BY <1>1, <1>3, <1>4, <1>5, <1>6, <1>7, <1>8 DEF Step

\* No relay without a consent: the promise of the setting that asks for it.
THEOREM RelayNeedsConsent == Spec => NoSilentRelay
<1>1. Inv /\ [Next]_vars =>
        [\A i \in Items : /\ i \notin relay.local /\ i \in relay'.local
                           /\ ApprovalEnabled /\ SecureDm
                           => consented \/ Enforced]_vars
  <2> SUFFICES ASSUME Inv, [Next]_vars, NEW i \in Items, i \notin relay.local,
                      i \in relay'.local, ApprovalEnabled, SecureDm
               PROVE  consented \/ Enforced
    OBVIOUS
  <2>1. ToRelay(i)
    BY OnlyDepositParks DEF Deposit
  <2>2. CASE worker.consent
    BY <2>2 DEF Inv, ConsentOK
  <2>3. CASE Enforced
    BY <2>3
  <2> QED BY <2>1, <2>2, <2>3 DEF ToRelay, Inv, ConsentOK
<1> QED BY <1>1, Invariance, PTL DEF Spec, NoSilentRelay
=============================================================================
