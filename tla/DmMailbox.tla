----------------------------- MODULE DmMailbox -----------------------------
(***************************************************************************)
(* The mailboxes of a recipient on a relay: which key a message is parked  *)
(* under and which keys a poll claims (mesh_dm_relay.py), the mailbox of   *)
(* the direct link beside it (mesh_rns.py), and the poll and count that    *)
(* read both (backend/main.py).                                            *)
(*                                                                         *)
(* A request is parked under a key of the relay's epoch, or under the      *)
(* token the recipient has bound last; the client derives a new token in   *)
(* every epoch.  One recipient; its endpoints run one at a time on the     *)
(* event loop.  A message lives less than an epoch, so what was parked     *)
(* before an epoch began is gone when that epoch ends.                     *)
(*                                                                         *)
(* A key of an epoch is made with the pepper of the node that works it     *)
(* out (MESH_DM_TOKEN_PEPPER, drawn at random by a node that has none).    *)
(* The recipient's node works it out for the ledger, a replica and a       *)
(* claim, the sender's node for the direct link; a token needs no pepper.  *)
(***************************************************************************)
EXTENDS Integers, FiniteSets

CONSTANTS
  Senders, Messages,
  SenderOf,         \* the sender of each message
  Chain,            \* messages that the ledger's spool carries as well
  Linked,           \* messages that come by the direct link as well
  SamePepper,       \* messages whose sender's node has the recipient's pepper
  MailboxLimit,     \* MESH_DM_REQUEST_MAILBOX_LIMIT
  PerSender,        \* MESH_DM_PENDING_PER_SENDER_LIMIT
  Batch,            \* DM_POLL_BATCH_LIMIT
  KeepsBindings,    \* MESH_DM_METADATA_PERSIST
  Copies,           \* bound: keys that a message waits under on the direct link
  MaxEpoch          \* bound: epochs that pass

ASSUME MailboxAssumption ==
  /\ SenderOf \in [Messages -> Senders] /\ Chain \union Linked \union SamePepper \subseteq Messages
  /\ IsFiniteSet(Messages) /\ MailboxLimit \in Nat \ {0} /\ PerSender \in Nat \ {0}
  /\ Batch \in Nat \ {0} /\ KeepsBindings \in BOOLEAN /\ Copies \in Nat \ {0} /\ MaxEpoch \in Nat

VARIABLES
  epoch,   \* _epoch_bucket(), of relay and client
  bound,   \* _mailbox_bindings: the epoch of the token bound last, or Unbound
  box,     \* _mailboxes: what is parked, under which key, since which epoch
  direct,  \* RNSBridge._dm_mailboxes
  answer   \* what the step has answered, if it was a poll

vars == <<epoch, bound, box, direct, answer>>

Unbound == -1
NoAnswer == [messages |-> {}, more |-> FALSE]
Token(t) == <<"token", t>>       \* _hashed_mailbox_token
EpochKey(e) == <<"epoch", e>>    \* _mailbox_key("requests", ...)
ForeignKey(e) == <<"foreign", e>> \* _pepper_token, with another pepper
KeySet == UNION {{Token(e), EpochKey(e), ForeignKey(e)} : e \in 0..MaxEpoch}
Quiet == answer' = NoAnswer
Parked(key, m, e) == [key |-> key, msg |-> m, born |-> e]

At(mailboxes, keys) == {p \in mailboxes : p.key \in keys}
Msgs(mailboxes, keys) == {p.msg : p \in At(mailboxes, keys)}

------------------------------------------------------------------------------
(* parking *)

RoomIgnoringSender(key, m) == Cardinality(Msgs(box, {key})) < MailboxLimit
\* _per_sender_pending_count and the limit of the mailbox
Room(key, m) ==
  LET here == Msgs(box, {key}) IN
  /\ Cardinality(here) < MailboxLimit
  /\ Cardinality({o \in here : SenderOf[o] = SenderOf[m]}) < PerSender

Park(key, m) == IF m \in Msgs(box, {key}) THEN box ELSE box \union {Parked(key, m, epoch)}

\* deposit, for a message found in the ledger (_hydrate_dm_relay_from_chain)
Hydrate(m) ==
  /\ m \in Chain /\ Room(EpochKey(epoch), m)
  /\ box' = Park(EpochKey(epoch), m) /\ Quiet /\ UNCHANGED <<epoch, bound, direct>>

\* mailbox_key_for_delivery
DeliveryKey == IF bound = Unbound THEN EpochKey(epoch) ELSE Token(bound)

\* accept_replica, for a message that the sender's relay pushes
Replica(m) ==
  /\ m \in Msgs(box, {DeliveryKey}) \/ Room(DeliveryKey, m)
  /\ box' = Park(DeliveryKey, m) /\ Quiet /\ UNCHANGED <<epoch, bound, direct>>

\* mailbox_key_for_delivery at the sender's node: a token that the recipient has
\* bound there and that has not expired, or a key with the pepper of that node
SenderKeys(m, e) ==
  {Token(t) : t \in {u \in 0..e : u + 2 >= e}}
    \union {IF m \in SamePepper THEN EpochKey(e) ELSE ForeignKey(e)}

\* _store_private_dm: the key is stored as it comes, perhaps after an epoch has
\* ended on the way.
Arrive(m) ==
  /\ m \in Linked /\ Cardinality({p \in direct : p.msg = m}) < Copies
  /\ \E e \in {epoch, epoch - 1} \intersect Nat : \E key \in SenderKeys(m, e) :
       /\ m \notin Msgs(direct, {key})
       /\ direct' = direct \union {Parked(key, m, e)}
  /\ Quiet /\ UNCHANGED <<epoch, bound, box>>

------------------------------------------------------------------------------
(* polling *)

ClaimedNow(previous) ==
  {Token(epoch), EpochKey(epoch)} \union (IF previous = Unbound THEN {} ELSE {Token(previous)})
\* _mailbox_keys_for_claim: the token of the claim is bound in passing.
Claimed(previous) ==
  {Token(epoch), EpochKey(epoch)} \union (IF previous = Unbound THEN {} ELSE {Token(previous)})
    \union (IF epoch = 0 THEN {} ELSE {EpochKey(epoch - 1)})

\* _collect_from_keys and collect_private_dm: which messages are the oldest is
\* left open.
Batches(msgs, limit) ==
  {b \in SUBSET msgs : Cardinality(b) = IF Cardinality(msgs) < limit THEN Cardinality(msgs) ELSE limit}

\* What is collected is taken from every mailbox claimed that holds a copy.
Without(mailboxes, keys, taken) ==
  {p \in mailboxes : ~(p.key \in keys /\ p.msg \in taken)}

DirectBudget(taken) == Batch - Cardinality(taken)

\* has_more of the two sources; a direct link that had no budget left counts as
\* having more.
More(stored, waiting, left, anonymous) ==
  \/ Cardinality(stored) > Batch
  \/ IF left > 0 THEN Cardinality(waiting) > left ELSE ~anonymous

\* _dm_poll_secure_from_signed_request: the claims are worked out once for the
\* direct link, and again, after the binding has changed, for the relay; an
\* anonymous recipient does not ask the direct link.
Poll(anonymous) ==
  LET directKeys == Claimed(bound)
      relayKeys == Claimed(epoch)
      stored == Msgs(box, relayKeys)
  IN
  \E taken \in Batches(stored, Batch) :
    LET left == DirectBudget(taken)
        waiting == IF anonymous THEN {} ELSE Msgs(direct, directKeys)
    IN
    \E more \in IF left > 0 THEN Batches(waiting, left) ELSE {{}} :
      /\ box' = Without(box, relayKeys, taken)
      /\ direct' = IF left > 0 THEN Without(direct, directKeys, more) ELSE direct
      /\ bound' = epoch
      /\ \E shown \in Batches(taken \union more, Batch) :
           answer' = [messages |-> shown, more |-> More(stored, waiting, left, anonymous)]
      /\ UNCHANGED epoch

\* _dm_count_secure_from_signed_request: it reads, but it binds the token too.
Count == bound' = epoch /\ Quiet /\ UNCHANGED <<epoch, box, direct>>

------------------------------------------------------------------------------
(* time and restarts *)

Alive(mailboxes) == {p \in mailboxes : p.born = epoch}
NextEpoch == /\ epoch < MaxEpoch /\ epoch' = epoch + 1
             /\ box' = Alive(box) /\ direct' = Alive(direct) /\ Quiet /\ UNCHANGED bound

\* _cleanup_expired, _prune_stale_mailboxes
Expire == /\ \/ \E p \in box : box' = box \ {p} /\ UNCHANGED direct
             \/ \E p \in direct : direct' = direct \ {p} /\ UNCHANGED box
          /\ Quiet /\ UNCHANGED <<epoch, bound>>

\* _prune_stale_mailbox_bindings: a binding idle for twelve hours
Unbind == /\ bound # Unbound /\ bound + 2 <= epoch /\ bound' = Unbound
          /\ Quiet /\ UNCHANGED <<epoch, box, direct>>

\* DMRelay._load: messages are not kept (MESH_DM_PERSIST_SPOOL).
Restart == /\ box' = {} /\ direct' = {} /\ bound' = IF KeepsBindings THEN bound ELSE Unbound
           /\ Quiet /\ UNCHANGED epoch

Init == /\ epoch = 0 /\ bound = Unbound /\ box = {} /\ direct = {}
        /\ answer = NoAnswer

Next ==
  \/ \E m \in Messages : Hydrate(m) \/ Replica(m) \/ Arrive(m)
  \/ \E anonymous \in BOOLEAN : Poll(anonymous)
  \/ Count \/ NextEpoch \/ Expire \/ Unbind \/ Restart

Spec == Init /\ [][Next]_vars

------------------------------------------------------------------------------
Pending(k, s) == {m \in Msgs(box, {k}) : SenderOf[m] = s}

\* Also: no mailbox holds more from one sender than the limit, whichever way the
\* messages came.
TypeOK ==
  /\ epoch \in 0..MaxEpoch /\ bound \in {Unbound} \union 0..epoch
  /\ box \union direct \subseteq [key : KeySet, msg : Messages, born : 0..epoch]
  /\ \A p, q \in box : p.key = q.key /\ p.msg = q.msg => p = q
  /\ \A k \in KeySet, s \in Senders : Cardinality(Pending(k, s)) <= PerSender
  /\ answer.messages \subseteq Messages /\ answer.more \in BOOLEAN

\* A poll takes from the mailboxes only what it shows: what does not fit stays,
\* of both sources, though their batches are cut one after the other.
PollKeepsRest ==
  [][(\E anonymous \in BOOLEAN : Poll(anonymous)) =>
     \A p \in (box \union direct) \ (box' \union direct') : p.msg \in answer'.messages]_vars

\* A poll that says there is no more, of a recipient who is not anonymous, has
\* shown every message under a key it claims, among them all that live under a
\* key of an epoch made with the pepper of the recipient's node: what the ledger
\* or a replica parked so, and of the direct link what a node with that pepper
\* sent, whatever epochs, counts and bindings came between.
Fresh == {p.msg : p \in {q \in box \union direct : q.key[1] = "epoch"}}
NoMoreIsAll ==
  [][Poll(FALSE) /\ ~answer'.more =>
     Fresh \union Msgs(box, Claimed(epoch)) \union Msgs(direct, Claimed(bound))
       = answer'.messages]_vars

\* What a poll answers is what it takes, and when it says that there is no more
\* there is none under the keys of the recipient's own node.
PollIsHonest == PollKeepsRest /\ NoMoreIsAll

\* tests/mesh/test_mesh_dm_security.py: after the token has changed, a claim
\* still covers the mailbox bound before.
PreviousBoundIsClaimed ==
  [][Poll(FALSE) /\ ~answer'.more => Msgs(box, Claimed(bound)) \subseteq answer'.messages]_vars

\* The answer's has_more: what it leaves out on the direct link is there to be
\* asked for.
DirectIsClaimed ==
  [][Poll(FALSE) /\ ~answer'.more => Msgs(direct, KeySet) \subseteq answer'.messages]_vars

\* routers/mesh_peer_sync.py: a recipient "never sees more than
\* MESH_DM_PENDING_PER_SENDER_LIMIT pending from any one sender".
SenderLimitedOverall ==
  \A s \in Senders : Cardinality({m \in Msgs(box, KeySet) : SenderOf[m] = s}) <= PerSender
=============================================================================
