-------------------------- MODULE DmMailboxProofs --------------------------
(***************************************************************************)
(* Theorems about DmMailbox, for every value of its constants.             *)
(***************************************************************************)
EXTENDS DmMailbox, FiniteSetTheorems, TLAPS

------------------------------------------------------------------------------
(* The inductive invariant *)

CopyType == [key : KeySet, msg : Messages, born : 0..epoch]

\* A copy under a key of the own node's epoch was sent in that epoch, and it is
\* gone when the next one ends.
BornOK ==
  \A p \in box \union direct :
    /\ p.born \in {epoch, epoch - 1}
    /\ p.key[1] = "epoch" => p.key = EpochKey(p.born)

Inv == TypeOK /\ BornOK

------------------------------------------------------------------------------
(* Finite sets of messages *)

LEMMA MessagesAreFinite ==
  ASSUME NEW msgs \in SUBSET Messages
  PROVE  IsFiniteSet(msgs) /\ Cardinality(msgs) \in Nat
BY MailboxAssumption, FS_Subset, FS_CardinalityType

\* A batch of what fits is all of it.
LEMMA WholeBatch ==
  ASSUME NEW msgs \in SUBSET Messages, NEW limit \in Nat,
         NEW b \in Batches(msgs, limit), Cardinality(msgs) <= limit
  PROVE  b = msgs
<1>1. IsFiniteSet(msgs) /\ Cardinality(msgs) \in Nat
  BY MessagesAreFinite
<1>2. b \in SUBSET msgs /\ Cardinality(b) = Cardinality(msgs)
  BY <1>1 DEF Batches
<1> QED BY <1>1, <1>2, FS_Subset

LEMMA BatchFits ==
  ASSUME NEW msgs \in SUBSET Messages, NEW limit \in Nat, NEW b \in Batches(msgs, limit)
  PROVE  b \in SUBSET msgs /\ Cardinality(b) \in Nat /\ Cardinality(b) <= limit
<1>1. Cardinality(msgs) \in Nat
  BY MessagesAreFinite
<1> QED BY <1>1 DEF Batches

\* Two batches cut one after the other fit together.
LEMMA TwoBatchesFit ==
  ASSUME NEW a \in SUBSET Messages, NEW b \in SUBSET Messages, NEW limit \in Nat,
         Cardinality(a) + Cardinality(b) <= limit
  PROVE  Cardinality(a \union b) <= limit
<1>1. IsFiniteSet(a) /\ IsFiniteSet(b) /\ Cardinality(a) \in Nat /\ Cardinality(b) \in Nat
  BY MessagesAreFinite
<1>2. Cardinality(a \union b) = Cardinality(a) + Cardinality(b) - Cardinality(a \intersect b)
  BY <1>1, FS_Union
<1>3. Cardinality(a \intersect b) \in Nat
  BY MessagesAreFinite
<1> QED BY <1>1, <1>2, <1>3

------------------------------------------------------------------------------
(* Parking and taking *)

\* What is parked under a key, of one sender, of any set of copies.
Of(mailboxes, k, s) == {m \in Msgs(mailboxes, {k}) : SenderOf[m] = s}

\* Taking copies away leaves no sender with more.
LEMMA FewerOf ==
  ASSUME NEW all \in SUBSET [key : KeySet, msg : Messages, born : Int], NEW some \in SUBSET all,
         \A k \in KeySet, s \in Senders : Cardinality(Of(all, k, s)) <= PerSender
  PROVE  \A k \in KeySet, s \in Senders : Cardinality(Of(some, k, s)) <= PerSender
<1> SUFFICES ASSUME NEW k \in KeySet, NEW s \in Senders
             PROVE  Cardinality(Of(some, k, s)) <= PerSender
  OBVIOUS
<1>1. Of(all, k, s) \in SUBSET Messages /\ Of(some, k, s) \in SUBSET Of(all, k, s)
  BY DEF Of, Msgs, At
<1>2. IsFiniteSet(Of(all, k, s)) /\ Cardinality(Of(all, k, s)) \in Nat
  BY <1>1, MessagesAreFinite
<1>3. Cardinality(Of(some, k, s)) <= Cardinality(Of(all, k, s))
  BY <1>1, <1>2, FS_Subset
<1>4. Cardinality(Of(some, k, s)) \in Nat
  BY <1>1, MessagesAreFinite
<1> QED BY <1>2, <1>3, <1>4, MailboxAssumption

\* Fewer copies are copies still.
LEMMA Taken ==
  ASSUME TypeOK, box' \subseteq box, direct' \subseteq direct,
         epoch' \in epoch..MaxEpoch, bound' \in {Unbound} \union 0..epoch',
         answer'.messages \subseteq Messages, answer'.more \in BOOLEAN
  PROVE  TypeOK'
<1>1. epoch' \in 0..MaxEpoch /\ 0..epoch \subseteq 0..epoch'
  BY MailboxAssumption DEF TypeOK
<1>2. box' \union direct' \subseteq [key : KeySet, msg : Messages, born : 0..epoch']
  BY <1>1 DEF TypeOK
<1>3. \A p, q \in box' : p.key = q.key /\ p.msg = q.msg => p = q
  BY DEF TypeOK
<1>4. \A k \in KeySet, s \in Senders : Cardinality(Of(box', k, s)) <= PerSender
  <2>1. box \in SUBSET [key : KeySet, msg : Messages, born : Int]
    BY DEF TypeOK
  <2>2. \A k \in KeySet, s \in Senders : Cardinality(Of(box, k, s)) <= PerSender
    BY DEF TypeOK, Of, Pending
  <2> QED BY <2>1, <2>2, FewerOf
<1> QED BY <1>1, <1>2, <1>3, <1>4 DEF TypeOK, Of, Pending

\* A mailbox with room takes one more.
LEMMA ParkOK ==
  ASSUME TypeOK, NEW key \in KeySet, NEW m \in Messages,
         m \in Msgs(box, {key}) \/ Room(key, m)
  PROVE  /\ Park(key, m) \subseteq CopyType
         /\ \A p, q \in Park(key, m) : p.key = q.key /\ p.msg = q.msg => p = q
         /\ \A k \in KeySet, s \in Senders : Cardinality(Of(Park(key, m), k, s)) <= PerSender
<1>1. CASE m \in Msgs(box, {key})
  BY <1>1 DEF TypeOK, Park, CopyType, Of, Pending
<1>2. CASE m \notin Msgs(box, {key}) /\ Room(key, m)
  <2> DEFINE new == Park(key, m)
  <2>1. new = box \union {Parked(key, m, epoch)} /\ Parked(key, m, epoch) \in CopyType
    BY <1>2, MailboxAssumption DEF Park, Parked, CopyType, TypeOK
  <2>2. new \subseteq CopyType
    BY <2>1 DEF TypeOK, CopyType
  <2>3. ASSUME NEW p \in box PROVE ~(p.key = key /\ p.msg = m)
    BY <1>2 DEF Msgs, At
  <2>4. Parked(key, m, epoch).key = key /\ Parked(key, m, epoch).msg = m
    BY DEF Parked
  <2>5. \A p, q \in new : p.key = q.key /\ p.msg = q.msg => p = q
    BY <2>1, <2>3, <2>4 DEF TypeOK
  <2>6. ASSUME NEW k \in KeySet, NEW s \in Senders
        PROVE  Cardinality(Of(new, k, s)) <= PerSender
    <3>1. Of(box, k, s) \in SUBSET Messages /\ Cardinality(Of(box, k, s)) <= PerSender
      BY DEF TypeOK, Of, Pending, Msgs, At
    <3>2. CASE k = key /\ SenderOf[m] = s
      <4>1. Of(new, k, s) = Of(box, k, s) \union {m}
        BY <2>1, <2>4, <3>2 DEF Of, Msgs, At
      <4>2. Cardinality(Of(box, k, s)) < PerSender
        BY <1>2, <3>2 DEF Room, Of
      <4>3. IsFiniteSet(Of(box, k, s)) /\ Cardinality(Of(box, k, s)) \in Nat
        BY <3>1, MessagesAreFinite
      <4>4. Cardinality(Of(box, k, s) \union {m}) \in {Cardinality(Of(box, k, s)), Cardinality(Of(box, k, s)) + 1}
        BY <4>3, FS_AddElement
      <4> QED BY <4>1, <4>2, <4>3, <4>4, MailboxAssumption
    <3>3. CASE ~(k = key /\ SenderOf[m] = s)
      <4>1. Of(new, k, s) = Of(box, k, s)
        BY <2>1, <2>4, <3>3 DEF Of, Msgs, At
      <4> QED BY <3>1, <4>1
    <3> QED BY <3>2, <3>3
  <2> QED BY <2>2, <2>5, <2>6
<1> QED BY <1>1, <1>2

\* Parking under the key of the epoch, or under the token bound, keeps BornOK.
LEMMA KeysOK ==
  ASSUME TypeOK
  PROVE  /\ EpochKey(epoch) \in KeySet /\ DeliveryKey \in KeySet
         /\ \A t : Token(t)[1] # "epoch"
         /\ DeliveryKey[1] = "epoch" => DeliveryKey = EpochKey(epoch)
<1>1. epoch \in 0..MaxEpoch /\ (bound # Unbound => bound \in 0..MaxEpoch)
  BY MailboxAssumption DEF TypeOK
<1>2. EpochKey(epoch) \in KeySet /\ DeliveryKey \in KeySet
  BY <1>1 DEF KeySet, DeliveryKey
<1>3. \A t : Token(t)[1] # "epoch"
  BY DEF Token
<1> QED BY <1>2, <1>3 DEF DeliveryKey

LEMMA BornAfterParking ==
  ASSUME Inv, NEW key \in {EpochKey(epoch), DeliveryKey}, NEW m \in Messages
  PROVE  LET p == Parked(key, m, epoch)
         IN p.born = epoch /\ (p.key[1] = "epoch" => p.key = EpochKey(p.born))
<1>1. Parked(key, m, epoch).key = key /\ Parked(key, m, epoch).born = epoch
  BY DEF Parked
<1>2. key[1] = "epoch" => key = EpochKey(epoch)
  BY KeysOK DEF Inv
<1> QED BY <1>1, <1>2

------------------------------------------------------------------------------
(* One lemma for each action *)

LEMMA InitOK == Init => Inv
<1> SUFFICES ASSUME Init PROVE Inv
  OBVIOUS
<1>1. \A k \in KeySet, s \in Senders : Cardinality(Pending(k, s)) <= PerSender
  <2> SUFFICES ASSUME NEW k \in KeySet, NEW s \in Senders
               PROVE  Cardinality(Pending(k, s)) <= PerSender
    OBVIOUS
  <2>1. Pending(k, s) = {}
    BY DEF Init, Pending, Msgs, At
  <2> QED BY <2>1, FS_EmptySet, MailboxAssumption
<1>2. TypeOK
  BY <1>1, MailboxAssumption DEF Init, TypeOK, NoAnswer, Unbound
<1> QED BY <1>2 DEF Init, Inv, BornOK

LEMMA ParkStepOK ==
  ASSUME Inv, NEW key \in {EpochKey(epoch), DeliveryKey}, NEW m \in Messages,
         m \in Msgs(box, {key}) \/ Room(key, m),
         box' = Park(key, m), Quiet, UNCHANGED <<epoch, bound, direct>>
  PROVE  Inv'
<1>1. key \in KeySet
  BY KeysOK DEF Inv
<1>2. TypeOK'
  <2>1. /\ box' \subseteq [key : KeySet, msg : Messages, born : 0..epoch]
        /\ \A p, q \in box' : p.key = q.key /\ p.msg = q.msg => p = q
    BY <1>1, ParkOK DEF Inv, CopyType
  <2>2. \A k \in KeySet, s \in Senders : Cardinality(Pending(k, s)') <= PerSender
    <3>1. \A k, s : Pending(k, s)' = Of(Park(key, m), k, s)
      BY DEF Pending, Of
    <3> QED BY <1>1, <3>1, ParkOK DEF Inv
  <2> QED BY <2>1, <2>2 DEF Inv, TypeOK, Quiet, NoAnswer
<1>3. box' \subseteq box \union {Parked(key, m, epoch)}
  BY DEF Park
<1>4. BornOK'
  BY <1>3, BornAfterParking DEF Inv, BornOK
<1> QED BY <1>2, <1>4 DEF Inv

\* The key that the sender's node has worked out in an epoch: of the recipient's
\* keys it can only be the one of that epoch.
LEMMA SenderKeysOK ==
  ASSUME TypeOK, NEW m \in Messages, NEW e \in 0..epoch, NEW key \in SenderKeys(m, e)
  PROVE  key \in KeySet /\ (key[1] = "epoch" => key = EpochKey(e))
<1>1. epoch \in 0..MaxEpoch /\ 0..e \subseteq 0..MaxEpoch /\ e \in 0..MaxEpoch
  BY MailboxAssumption DEF TypeOK
<1>2. CASE \E t \in 0..e : key = Token(t)
  BY <1>1, <1>2 DEF KeySet, Token
<1>3. CASE key \in {EpochKey(e), ForeignKey(e)}
  BY <1>1, <1>3 DEF KeySet, EpochKey, ForeignKey
<1> QED BY <1>2, <1>3 DEF SenderKeys

LEMMA ArriveOK ==
  ASSUME Inv, NEW m \in Messages, Arrive(m)
  PROVE  Inv'
<1>1. PICK e \in {epoch, epoch - 1} \intersect Nat : \E key \in SenderKeys(m, e) :
        direct' = direct \union {Parked(key, m, e)}
  BY DEF Arrive
<1>2. PICK key \in SenderKeys(m, e) : direct' = direct \union {Parked(key, m, e)}
  BY <1>1
<1>3. e \in 0..epoch
  BY MailboxAssumption DEF Inv, TypeOK
<1>4. key \in KeySet /\ (key[1] = "epoch" => key = EpochKey(e))
  BY <1>3, SenderKeysOK DEF Inv
<1>5. Parked(key, m, e) \in CopyType
  BY <1>3, <1>4 DEF Parked, CopyType
<1>6. UNCHANGED <<epoch, bound, box>> /\ Quiet
  BY DEF Arrive
<1>7. TypeOK'
  <2>1. \A k \in KeySet, s \in Senders : Cardinality(Pending(k, s)') <= PerSender
    <3>1. \A k, s : Pending(k, s)' = Pending(k, s)
      BY <1>6 DEF Pending, Msgs, At
    <3> QED BY <3>1 DEF Inv, TypeOK
  <2> QED BY <1>2, <1>5, <1>6, <2>1 DEF Inv, TypeOK, CopyType, Quiet, NoAnswer
<1>8. BornOK'
  <2>1. Parked(key, m, e).key = key /\ Parked(key, m, e).born = e
    BY DEF Parked
  <2> QED BY <1>2, <1>4, <1>6, <2>1 DEF Inv, BornOK
<1> QED BY <1>7, <1>8 DEF Inv

\* A poll: what it takes of each source, shows and leaves.
LEMMA PollTakes ==
  ASSUME Inv, NEW anonymous \in BOOLEAN, Poll(anonymous)
  PROVE  \E taken, more \in SUBSET Messages :
           LET stored == Msgs(box, Claimed(epoch))
               waiting == IF anonymous THEN {} ELSE Msgs(direct, Claimed(bound))
               left == DirectBudget(taken)
           IN
           /\ taken \in Batches(stored, Batch) /\ left \in 0..Batch
           /\ more \in (IF left > 0 THEN Batches(waiting, left) ELSE {{}})
           /\ box' = Without(box, Claimed(epoch), taken)
           /\ direct' = IF left > 0 THEN Without(direct, Claimed(bound), more) ELSE direct
           /\ bound' = epoch /\ epoch' = epoch
           /\ answer' = [messages |-> taken \union more, more |-> More(stored, waiting, left, anonymous)]
<1> DEFINE stored == Msgs(box, Claimed(epoch))
           waiting == IF anonymous THEN {} ELSE Msgs(direct, Claimed(bound))
<1>1. stored \in SUBSET Messages /\ waiting \in SUBSET Messages
  BY DEF Inv, TypeOK, Msgs, At
<1>2. PICK taken \in Batches(stored, Batch) :
        \E more \in IF DirectBudget(taken) > 0 THEN Batches(waiting, DirectBudget(taken)) ELSE {{}} :
          /\ box' = Without(box, Claimed(epoch), taken)
          /\ direct' = IF DirectBudget(taken) > 0 THEN Without(direct, Claimed(bound), more) ELSE direct
          /\ bound' = epoch
          /\ \E shown \in Batches(taken \union more, Batch) :
               answer' = [messages |-> shown, more |-> More(stored, waiting, DirectBudget(taken), anonymous)]
          /\ UNCHANGED epoch
  BY DEF Poll
<1>3. PICK more \in IF DirectBudget(taken) > 0 THEN Batches(waiting, DirectBudget(taken)) ELSE {{}} :
          /\ box' = Without(box, Claimed(epoch), taken)
          /\ direct' = IF DirectBudget(taken) > 0 THEN Without(direct, Claimed(bound), more) ELSE direct
          /\ bound' = epoch
          /\ \E shown \in Batches(taken \union more, Batch) :
               answer' = [messages |-> shown, more |-> More(stored, waiting, DirectBudget(taken), anonymous)]
          /\ UNCHANGED epoch
  BY <1>2
<1>4. taken \in SUBSET Messages /\ Cardinality(taken) \in Nat /\ Cardinality(taken) <= Batch
  BY <1>1, BatchFits, MailboxAssumption
<1>5. DirectBudget(taken) \in 0..Batch
  BY <1>4, MailboxAssumption DEF DirectBudget
<1>6. /\ more \in SUBSET Messages
      /\ Cardinality(taken) + Cardinality(more) <= Batch
  <2>1. CASE DirectBudget(taken) > 0
    BY <1>1, <1>3, <1>4, <1>5, <2>1, BatchFits, MailboxAssumption DEF DirectBudget
  <2>2. CASE ~(DirectBudget(taken) > 0)
    <3>1. more = {} /\ Cardinality(more) = 0
      BY <1>3, <2>2, FS_EmptySet
    <3> QED BY <1>4, <3>1, MailboxAssumption
  <2> QED BY <2>1, <2>2
<1>7. Cardinality(taken \union more) <= Batch /\ taken \union more \in SUBSET Messages
  BY <1>4, <1>6, TwoBatchesFit, MailboxAssumption
<1>8. PICK shown \in Batches(taken \union more, Batch) :
        answer' = [messages |-> shown, more |-> More(stored, waiting, DirectBudget(taken), anonymous)]
  BY <1>3
<1>9. shown = taken \union more
  BY <1>7, WholeBatch, MailboxAssumption
<1> HIDE DEF stored, waiting
<1> QED BY <1>2, <1>3, <1>4, <1>5, <1>6, <1>8, <1>9 DEF stored, waiting

LEMMA PollOK ==
  ASSUME Inv, NEW anonymous \in BOOLEAN, Poll(anonymous)
  PROVE  Inv'
<1>1. \A stored, waiting, left : More(stored, waiting, left, anonymous) \in BOOLEAN
  BY DEF More
<1>2. PICK taken, more \in SUBSET Messages :
        /\ box' = Without(box, Claimed(epoch), taken)
        /\ direct' = IF DirectBudget(taken) > 0 THEN Without(direct, Claimed(bound), more) ELSE direct
        /\ bound' = epoch /\ epoch' = epoch
        /\ answer'.messages = taken \union more /\ answer'.more \in BOOLEAN
  BY <1>1, PollTakes
<1>3. box' \subseteq box /\ direct' \subseteq direct
  BY <1>2 DEF Without
<1>4. TypeOK'
  <2>1. epoch' \in epoch..MaxEpoch /\ bound' \in {Unbound} \union 0..epoch'
    BY <1>2, MailboxAssumption DEF Inv, TypeOK
  <2> QED BY <1>2, <1>3, <2>1, Taken DEF Inv
<1>5. BornOK'
  BY <1>2, <1>3 DEF Inv, BornOK
<1> QED BY <1>4, <1>5 DEF Inv

LEMMA OthersOK ==
  ASSUME Inv, Count \/ NextEpoch \/ Expire \/ Unbind \/ Restart
  PROVE  Inv'
<1>1. box' \subseteq box /\ direct' \subseteq direct
  BY DEF Count, NextEpoch, Alive, Expire, Unbind, Restart
<1>2. answer'.messages \subseteq Messages /\ answer'.more \in BOOLEAN
  <2>1. Quiet
    BY DEF Count, NextEpoch, Expire, Unbind, Restart
  <2> QED BY <2>1 DEF Quiet, NoAnswer
<1>3. epoch' \in epoch..MaxEpoch /\ bound' \in {Unbound} \union 0..epoch'
  <2>1. epoch \in 0..MaxEpoch /\ MaxEpoch \in Nat /\ bound \in {Unbound} \union 0..epoch
    BY MailboxAssumption DEF Inv, TypeOK
  <2>2. epoch' \in {epoch, epoch + 1} /\ epoch' <= MaxEpoch /\ bound' \in {bound, epoch, Unbound}
    BY <2>1 DEF Count, NextEpoch, Expire, Unbind, Restart
  <2> QED BY <2>1, <2>2
<1>4. TypeOK'
  BY <1>1, <1>2, <1>3, Taken DEF Inv
<1>5. BornOK'
  <2>1. CASE NextEpoch
    <3>1. epoch \in Nat /\ epoch' = epoch + 1
      BY <2>1, MailboxAssumption DEF NextEpoch, Inv, TypeOK
    <3>2. \A p \in box' \union direct' : p \in box \union direct /\ p.born = epoch
      BY <2>1 DEF NextEpoch, Alive
    <3> QED BY <3>1, <3>2 DEF Inv, BornOK
  <2>2. CASE epoch' = epoch
    BY <1>1, <2>2 DEF Inv, BornOK
  <2>3. NextEpoch \/ epoch' = epoch
    BY DEF Count, Expire, Unbind, Restart
  <2> QED BY <2>1, <2>2, <2>3
<1> QED BY <1>4, <1>5 DEF Inv

LEMMA StepOK == Inv /\ [Next]_vars => Inv'
<1> SUFFICES ASSUME Inv, [Next]_vars PROVE Inv'
  OBVIOUS
<1>1. ASSUME NEW m \in Messages, Hydrate(m) PROVE Inv'
  BY <1>1, ParkStepOK DEF Hydrate
<1>2. ASSUME NEW m \in Messages, Replica(m) PROVE Inv'
  BY <1>2, ParkStepOK DEF Replica
<1>3. CASE UNCHANGED vars
  BY <1>3 DEF vars, Inv, TypeOK, BornOK, Pending, Msgs, At
<1> QED BY <1>1, <1>2, <1>3, ArriveOK, PollOK, OthersOK DEF Next

LEMMA Invariance == Spec => []Inv
BY InitOK, StepOK, PTL DEF Spec

------------------------------------------------------------------------------
(* The theorems *)

\* Every copy is parked once under its key, and no mailbox holds more from one
\* sender than the limit, whichever way the messages came.
THEOREM TypeCorrect == Spec => []TypeOK
<1>1. Inv => TypeOK
  BY DEF Inv
<1> QED BY <1>1, Invariance, PTL

LEMMA KeepsRest ==
  ASSUME Inv, NEW anonymous \in BOOLEAN, Poll(anonymous),
         NEW p \in (box \union direct) \ (box' \union direct')
  PROVE  p.msg \in answer'.messages
<1>1. PICK taken, more \in SUBSET Messages :
        /\ box' = Without(box, Claimed(epoch), taken)
        /\ direct' = IF DirectBudget(taken) > 0 THEN Without(direct, Claimed(bound), more) ELSE direct
        /\ answer'.messages = taken \union more
  BY PollTakes
<1> QED BY <1>1 DEF Without

LEMMA NoMore ==
  ASSUME Inv, Poll(FALSE), ~answer'.more
  PROVE  Fresh \union Msgs(box, Claimed(epoch)) \union Msgs(direct, Claimed(bound))
           = answer'.messages
<1> DEFINE stored == Msgs(box, Claimed(epoch))
           waiting == Msgs(direct, Claimed(bound))
<1>1. PICK taken, more \in SUBSET Messages :
        /\ taken \in Batches(stored, Batch) /\ DirectBudget(taken) \in 0..Batch
        /\ more \in (IF DirectBudget(taken) > 0 THEN Batches(waiting, DirectBudget(taken)) ELSE {{}})
        /\ answer' = [messages |-> taken \union more,
                      more |-> More(stored, waiting, DirectBudget(taken), FALSE)]
  BY PollTakes
<1>2. stored \in SUBSET Messages /\ waiting \in SUBSET Messages
  BY DEF Inv, TypeOK, Msgs, At
<1>3. Cardinality(stored) \in Nat /\ Cardinality(waiting) \in Nat
  BY <1>2, MessagesAreFinite
<1>4. /\ Cardinality(stored) <= Batch /\ DirectBudget(taken) > 0
      /\ Cardinality(waiting) <= DirectBudget(taken)
  BY <1>1, <1>3, MailboxAssumption DEF More
<1>5. taken = stored /\ more = waiting
  BY <1>1, <1>2, <1>4, WholeBatch, MailboxAssumption
\* What was parked under a key of the own node's epoch, this one or the one
\* before, is claimed by every poll.
<1>6. Fresh \subseteq stored \union waiting
  <2> SUFFICES ASSUME NEW p \in box \union direct, p.key[1] = "epoch"
               PROVE  p.msg \in stored \union waiting
    BY DEF Fresh
  <2>1. p.key = EpochKey(p.born) /\ p.born \in {epoch, epoch - 1} /\ p.born \in Nat
    BY DEF Inv, TypeOK, BornOK
  <2>2. p.key \in Claimed(epoch) /\ p.key \in Claimed(bound)
    BY <2>1, MailboxAssumption DEF Claimed, Inv, TypeOK
  <2> QED BY <2>2 DEF Msgs, At
<1> QED BY <1>1, <1>5, <1>6

\* A poll takes only what it shows, and one that says there is no more has
\* shown all there is under the keys it claims and under every key of the own
\* node's epochs, for any limits, batches and epochs, and whatever keys the
\* senders' nodes make with peppers of their own.
THEOREM PollTellsTheTruth == Spec => PollIsHonest
<1>1. Inv /\ [Next]_vars =>
        [(\E anonymous \in BOOLEAN : Poll(anonymous)) =>
           \A p \in (box \union direct) \ (box' \union direct') : p.msg \in answer'.messages]_vars
  BY KeepsRest
<1>2. Inv /\ [Next]_vars =>
        [Poll(FALSE) /\ ~answer'.more =>
           Fresh \union Msgs(box, Claimed(epoch)) \union Msgs(direct, Claimed(bound))
             = answer'.messages]_vars
  BY NoMore
<1> QED BY <1>1, <1>2, Invariance, PTL DEF Spec, PollIsHonest, PollKeepsRest, NoMoreIsAll
=============================================================================
