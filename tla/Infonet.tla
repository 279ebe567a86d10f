------------------------------- MODULE Infonet -------------------------------
(***************************************************************************)
(* The Infonet ledger of one node: class Infonet of                        *)
(* backend/services/mesh/mesh_hashchain.py, each operation one step.       *)
(*                                                                         *)
(* Events are named by the order in which they were signed anywhere in the *)
(* network: event e is signed[e], and Genesis (GENESIS_HASH) precedes      *)
(* them all.  An id stands for the SHA-256 of the event's content, so two  *)
(* events never share one and an event is always younger than the event it *)
(* links to.  Signatures, key encodings and payload schemas are assumed    *)
(* valid: an event that fails them is refused before any state changes.    *)
(* A node id is bound to one key, so a revoked key is a revoked node.      *)
(*                                                                         *)
(* The replay filter is left out: an id it remembers that the index does   *)
(* not know belongs to an archived event, whose prev_hash is not the head. *)
(* Persistence and threads are the subject of InfonetStore, the Merkle   *)
(* cache and the running counters are not modelled here.                   *)
(***************************************************************************)
EXTENDS Integers, Sequences, FiniteSets

CONSTANTS
  Nodes,            \* authors
  Targets,          \* mailboxes a dm_message can be addressed to
  NoTarget,         \* the target of every other kind of event
  Kinds,            \* the kinds of event in play, a subset of AllKinds
  MaxChainMemory,   \* MAX_CHAIN_MEMORY
  ChainLockDepth,   \* CHAIN_LOCK_DEPTH
  ResetBelow,       \* the sync worker resets chains shorter than this
  SpoolLimit,       \* DM_HASHCHAIN_SPOOL_LIMIT
  SpoolSenderLimit, \* DM_HASHCHAIN_SPOOL_SENDER_LIMIT
  SpoolTTL,         \* DM_HASHCHAIN_SPOOL_TTL_S
  MaxAge,           \* MESH_INGEST_EVENT_MAX_AGE_S, 0 disables the check
  MaxEvents,        \* bound: events signed in a behaviour
  MaxSequence,      \* bound: sequence numbers authors use in events
  MaxClaim,         \* bound: ... and in private signed writes
  MaxTime,          \* bound: clock
  MaxForkLen,       \* bound: events in one fork proposal, 0 for no forks
  MaxOffChain       \* bound: events signed that are not on this node's chain

AllKinds == {"message", "gate_message", "dm_message", "key_revoke"}

(***************************************************************************)
(* "message" stands for every public kind whose only effect on the ledger  *)
(* is its place in the chain.  "signed_write" is the domain of private     *)
(* signed writes, which consume a sequence number and leave no event.      *)
(***************************************************************************)
Domains == {"public", "gate_message", "dm_message", "signed_write"}

ASSUME KindsAssumption == Kinds \subseteq AllKinds
ASSUME TargetAssumption == NoTarget \notin Targets
ASSUME BoundAssumption ==
  /\ MaxChainMemory \in Nat \ {0}
  /\ ChainLockDepth \in Nat
  /\ ResetBelow \in Nat
  /\ SpoolLimit \in Nat /\ SpoolSenderLimit \in Nat
  /\ SpoolTTL \in Nat /\ MaxAge \in Nat
  /\ MaxEvents \in Nat /\ MaxSequence \in Nat /\ MaxClaim \in Nat
  /\ MaxTime \in Nat \ {0} /\ MaxForkLen \in Nat /\ MaxOffChain \in Nat
\* A chain that has been spilled is longer than any chain the sync worker resets.
ASSUME ResetAssumption == ResetBelow <= MaxChainMemory

VARIABLES
  signed,         \* every event signed so far, by any node
  now,            \* the clock
  events,         \* self.events, the hot window
  cold,           \* the events archived in self._cold_segments
  head_hash,      \* self.head_hash
  event_index,    \* self.event_index, 0 for an id it does not hold
  last_sequence,  \* self.node_sequences ("public") and self.sequence_domains
  revocations     \* self.revocations: the key_revoke event in force, or Genesis

vars == <<signed, now, events, cold, head_hash, event_index, last_sequence,
          revocations>>

------------------------------------------------------------------------------
(* Events *)

Genesis == 0
Ids == 1 .. MaxEvents

Body(k) ==
  CASE k = "dm_message" -> [target : Targets, at : {0}, grace : {0}]
    [] k = "key_revoke" -> {b \in [target : {NoTarget}, at : 1 .. MaxTime,
                                   grace : 1 .. MaxTime] : b.grace >= b.at}
    [] OTHER -> [target : {NoTarget}, at : {0}, grace : {0}]

Event == [prev : {Genesis} \cup Ids, kind : Kinds, node : Nodes,
          seq : 1 .. MaxSequence, ts : 1 .. MaxTime,
          body : [target : Targets \cup {NoTarget}, at : 0 .. MaxTime,
                  grace : 0 .. MaxTime]]

MakeEventUndated(prev, k, n, s, b) ==
  [prev |-> prev, kind |-> k, node |-> n, seq |-> s, ts |-> 0, body |-> b]
MakeEvent(prev, k, n, s, b) ==
  [prev |-> prev, kind |-> k, node |-> n, seq |-> s, ts |-> now, body |-> b]

\* A public event shares its author's sequence; gate and DM events have their own.
DomainOf(k) == IF k \in {"gate_message", "dm_message"} THEN k ELSE "public"

LastOf(chain) == IF chain = <<>> THEN Genesis ELSE chain[Len(chain)]

IndexOf(chain) ==
  [e \in Ids |-> IF \E i \in DOMAIN chain : chain[i] = e
                 THEN CHOOSE i \in DOMAIN chain : chain[i] = e ELSE 0]

\* Positions in chain of the events of one author in one sequence domain.
Authored(chain, n, d) ==
  {i \in DOMAIN chain : /\ signed[chain[i]].node = n
                        /\ DomainOf(signed[chain[i]].kind) = d}

\* The greatest sequence number those events carry, at least `floor`.
Greatest(chain, n, d, floor) ==
  LET seqs == {signed[chain[i]].seq : i \in Authored(chain, n, d)} \cup {floor}
  IN CHOOSE m \in seqs : \A s \in seqs : s <= m

Revokes(chain, n) ==
  {i \in DOMAIN chain : /\ signed[chain[i]].node = n
                        /\ signed[chain[i]].kind = "key_revoke"}

\* The key_revoke in force: the latest among those with the greatest revoked_at.
RevocationOf(chain, n) ==
  LET At(i) == signed[chain[i]].body.at
      R == Revokes(chain, n)
  IN IF R = {} THEN Genesis
     ELSE chain[CHOOSE i \in R :
                  \A j \in R : At(j) < At(i) \/ (At(j) = At(i) /\ j <= i)]

\* _revocation_status: a key is revoked once its grace period is over.
Revoked(n) ==
  revocations[n] # Genesis /\ now > signed[revocations[n]].body.grace

\* A revoked key may still sign a further key_revoke, and nothing else.
KeyUsable(k, n) == k = "key_revoke" \/ ~Revoked(n)

\* _apply_revocation: the revocation in force gives way to one dated no earlier.
SupersedesStrictly(e, n) ==
  \/ revocations[n] = Genesis
  \/ e.body.at > signed[revocations[n]].body.at
Supersedes(e, n) ==
  \/ revocations[n] = Genesis
  \/ e.body.at >= signed[revocations[n]].body.at

\* DM events still active in the spool of a mailbox.
Spool(t) ==
  {i \in DOMAIN events : /\ signed[events[i]].kind = "dm_message"
                         /\ signed[events[i]].body.target = t
                         /\ now - signed[events[i]].ts <= SpoolTTL}

SpoolOf(t, n) == {i \in Spool(t) : signed[events[i]].node = n}

SpoolHasRoomOffByOne(t, n) ==
  /\ Cardinality(SpoolOf(t, n)) < SpoolSenderLimit
  /\ Cardinality(Spool(t)) <= SpoolLimit

SpoolHasRoom(t, n) ==
  /\ Cardinality(SpoolOf(t, n)) < SpoolSenderLimit
  /\ Cardinality(Spool(t)) < SpoolLimit

------------------------------------------------------------------------------
(* Updates shared by several operations *)

\* Events a chain holds beyond MAX_CHAIN_MEMORY.
OverflowOffByOne(chain) ==
  IF Len(chain) > MaxChainMemory THEN Len(chain) - MaxChainMemory + 1 ELSE 0
Overflow(chain) ==
  IF Len(chain) > MaxChainMemory THEN Len(chain) - MaxChainMemory ELSE 0

\* The index of the hot window a chain leaves, given the index of the chain.
SpilledIndexStale(chain, index) == index
SpilledIndex(chain, index) ==
  IF Overflow(chain) = 0 THEN index
  ELSE IndexOf(SubSeq(chain, Overflow(chain) + 1, Len(chain)))

\* _save and the _enforce_memory_cap it starts with.
Save(chain, index) ==
  /\ events' = SubSeq(chain, Overflow(chain) + 1, Len(chain))
  /\ cold' = cold \o SubSeq(chain, 1, Overflow(chain))
  /\ event_index' = SpilledIndex(chain, index)

\* The tail of every append and of an accepted ingest: e, whose id is `id`,
\* becomes the head.
Extend(id, e) ==
  LET chain == Append(events, id)
  IN /\ Save(chain, [event_index EXCEPT ![id] = Len(chain)])
     /\ head_hash' = id
     /\ last_sequence' = [last_sequence EXCEPT ![e.node][DomainOf(e.kind)] = e.seq]
     /\ revocations' =
          IF e.kind = "key_revoke" /\ Supersedes(e, e.node)
          THEN [revocations EXCEPT ![e.node] = id]
          ELSE revocations

\* The sequence a rebuild starts from: private domains keep what they had.
RebuildFloorForgotten(n, d) == 0
RebuildFloor(n, d) ==
  IF d \in {"public", "gate_message"} THEN 0 ELSE last_sequence[n][d]

\* _rebuild_state and _rebuild_revocations: replay state recomputed from a chain.
RebuildFromKeepingHead(chain) ==
  /\ last_sequence' = [n \in Nodes |-> [d \in Domains |->
                         Greatest(chain, n, d, RebuildFloor(n, d))]]
  /\ revocations' = [n \in Nodes |-> RevocationOf(chain, n)]
  /\ UNCHANGED head_hash
RebuildFrom(chain) ==
  /\ last_sequence' = [n \in Nodes |-> [d \in Domains |->
                         Greatest(chain, n, d, RebuildFloor(n, d))]]
  /\ revocations' = [n \in Nodes |-> RevocationOf(chain, n)]
  /\ head_hash' = LastOf(chain)

\* A new event is signed; its id is the next one.
NewId == Len(signed) + 1
Sign(e) == NewId \in Ids /\ signed' = Append(signed, e)

------------------------------------------------------------------------------
Init ==
  /\ signed = <<>>
  /\ now = 1
  /\ events = <<>>
  /\ cold = <<>>
  /\ head_hash = Genesis
  /\ event_index = [e \in Ids |-> 0]
  /\ last_sequence = [n \in Nodes |-> [d \in Domains |-> 0]]
  /\ revocations = [n \in Nodes |-> Genesis]

Tick ==
  /\ now < MaxTime
  /\ now' = now + 1
  /\ UNCHANGED <<signed, events, cold, head_hash, event_index, last_sequence,
                 revocations>>

\* append: a public event of a local author.
AppendPublic(n, k, s, b) ==
  /\ k \in {"message", "key_revoke"}
  /\ s > last_sequence[n]["public"]
  /\ KeyUsable(k, n)
  /\ LET e == MakeEvent(head_hash, k, n, s, b)
     IN Sign(e) /\ Extend(NewId, e)
  /\ UNCHANGED now

\* append_private_gate_message.
AppendGate(n, s, b) ==
  /\ s > last_sequence[n]["gate_message"]
  /\ KeyUsable("gate_message", n)
  /\ LET e == MakeEvent(head_hash, "gate_message", n, s, b)
     IN Sign(e) /\ Extend(NewId, e)
  /\ UNCHANGED now

\* append_private_dm_message.
AppendDm(n, s, b) ==
  /\ s > last_sequence[n]["dm_message"]
  /\ SpoolHasRoom(b.target, n)
  /\ KeyUsable("dm_message", n)
  /\ LET e == MakeEvent(head_hash, "dm_message", n, s, b)
     IN Sign(e) /\ Extend(NewId, e)
  /\ UNCHANGED now

\* Some other node signs an event on a chain of its own.
SignElsewhere(prev, k, n, s, b) ==
  /\ Len(signed) - Len(cold \o events) < MaxOffChain
  /\ Sign(MakeEvent(prev, k, n, s, b))
  /\ UNCHANGED <<now, events, cold, head_hash, event_index, last_sequence,
                 revocations>>

\* ingest_events: what an event from another node must satisfy to be accepted.
Acceptable(id) ==
  LET e == signed[id]
  IN /\ event_index[id] = 0
     /\ e.prev = head_hash
     /\ e.seq > last_sequence[e.node][DomainOf(e.kind)]
     /\ MaxAge = 0 \/ now - e.ts <= MaxAge
     /\ e.kind = "dm_message" => SpoolHasRoom(e.body.target, e.node)
     /\ KeyUsable(e.kind, e.node)

\* ingest_events, for a batch of one event that it accepts.  A longer batch is
\* taken as the same events one by one, which spills after each of them where
\* the code spills once, after the last.
Ingest(id) ==
  /\ Acceptable(id)
  /\ Extend(id, signed[id])
  /\ UNCHANGED <<signed, now>>

\* validate_and_set_sequence for a private signed write.
ClaimSequence(n, s) ==
  /\ s > last_sequence[n]["signed_write"]
  /\ last_sequence' = [last_sequence EXCEPT ![n]["signed_write"] = s]
  /\ UNCHANGED <<signed, now, events, cold, head_hash, event_index, revocations>>

------------------------------------------------------------------------------
(* Forks *)

Linked(chain) ==
  \A i \in 1 .. Len(chain) - 1 : signed[chain[i + 1]].prev = chain[i]

\* Sequences strictly increase for each author and domain.
Increasing(chain) ==
  \A i, j \in DOMAIN chain :
     LET a == signed[chain[i]]
         b == signed[chain[j]]
     IN (i < j /\ a.node = b.node /\ DomainOf(a.kind) = DomainOf(b.kind))
          => a.seq < b.seq

\* A reorganisation may replace at most CHAIN_LOCK_DEPTH events, by more events.
WithinLock(tail) == tail <= ChainLockDepth
OutweighsTied(fork, tail) == Len(fork) >= tail
Outweighs(fork, tail) == Len(fork) > tail

\* Each event of the fork follows, in its author's domain, everything before it.
FollowsPrefixOnly(prefix, fork) ==
  \A i \in DOMAIN fork :
     LET e == signed[fork[i]]
     IN e.seq > Greatest(prefix, e.node, DomainOf(e.kind), 0)
FollowsInSequence(prefix, fork) ==
  \A i \in DOMAIN fork :
     LET e == signed[fork[i]]
         before == prefix \o SubSeq(fork, 1, i - 1)
     IN e.seq > Greatest(before, e.node, DomainOf(e.kind), 0)

\* apply_fork, for a proposal with a quorum of proofs that it accepts.  The
\* proposal is given in chain order, which is how the code reorders it.
ApplyFork(fork) ==
  LET root == signed[fork[1]].prev
      at == event_index[root]
      tail == Len(events) - at
      prefix == SubSeq(events, 1, at)
      chain == prefix \o fork
  IN /\ root # Genesis /\ at # 0
     /\ WithinLock(tail)
     /\ Linked(fork)
     /\ Outweighs(fork, tail)
     /\ \A i \in DOMAIN fork :
           /\ event_index[fork[i]] = 0 \/ event_index[fork[i]] > at
           /\ KeyUsable(signed[fork[i]].kind, signed[fork[i]].node)
     /\ FollowsInSequence(prefix, fork)
     /\ fork[Len(fork)] # head_hash
     /\ RebuildFrom(chain)
     /\ Save(chain, IndexOf(chain))
     /\ UNCHANGED <<signed, now>>

\* reset_chain, which the sync worker calls for a short chain with no ancestor
\* in common with the peer.
ResetChain ==
  /\ events # <<>>
  /\ Len(events) < ResetBelow
  /\ events' = <<>>
  /\ head_hash' = Genesis
  /\ event_index' = [e \in Ids |-> 0]
  /\ last_sequence' = [n \in Nodes |-> [d \in Domains |-> 0]]
  /\ revocations' = [n \in Nodes |-> Genesis]
  /\ UNCHANGED <<signed, now, cold>>

\* A clean shutdown (_flush at exit) and the _load of the next process.
Restart ==
  /\ RebuildFrom(events)
  /\ event_index' = IndexOf(events)
  /\ UNCHANGED <<signed, now, events, cold>>

Next ==
  \/ Tick
  \/ \E n \in Nodes, s \in 1 .. MaxSequence :
       \/ \E k \in Kinds : \E b \in Body(k) : AppendPublic(n, k, s, b)
       \/ /\ "gate_message" \in Kinds
          /\ \E b \in Body("gate_message") : AppendGate(n, s, b)
       \/ /\ "dm_message" \in Kinds
          /\ \E b \in Body("dm_message") : AppendDm(n, s, b)
       \/ \E k \in Kinds, prev \in 0 .. Len(signed) :
            \E b \in Body(k) : SignElsewhere(prev, k, n, s, b)
  \/ \E n \in Nodes, s \in 1 .. MaxClaim : ClaimSequence(n, s)
  \/ \E id \in 1 .. Len(signed) : Ingest(id)
  \/ \E n \in 1 .. MaxForkLen :
       \E fork \in [1 .. n -> 1 .. Len(signed)] : ApplyFork(fork)
  \/ ResetChain
  \/ Restart

Spec == Init /\ [][Next]_vars

------------------------------------------------------------------------------
(* Properties *)

\* The whole chain: what was archived, then the hot window.
Full == cold \o events

\* Every variable stays in its range (the fields Infonet.__init__ declares).
TypeOK ==
  /\ signed \in Seq(Event) /\ Len(signed) <= MaxEvents
  /\ now \in 1 .. MaxTime
  /\ events \in Seq(1 .. Len(signed))
  /\ cold \in Seq(1 .. Len(signed))
  /\ head_hash \in 0 .. Len(signed)
  /\ event_index \in [Ids -> Nat]
  /\ last_sequence \in [Nodes -> [Domains -> Nat]]
  /\ revocations \in [Nodes -> 0 .. Len(signed)]

\* The chain is unbroken from Genesis to head_hash, across the seam between the
\* archive and the hot window, whatever appends, ingests, forks, spills, resets
\* and restarts came before (_enforce_memory_cap: "Hot chain + indexes stay
\* coherent for head/sync").
ChainLinked ==
  /\ Linked(Full)
  /\ Full # <<>> => signed[Full[1]].prev = Genesis
  /\ head_hash = LastOf(Full)

\* event_index finds exactly the events of the hot window, at their positions,
\* and no event is on the chain twice: forks, spills and rebuilds renumber it.
IndexCoherent ==
  /\ \A i \in DOMAIN events : event_index[events[i]] = i
  /\ \A e \in Ids : event_index[e] # 0 =>
        event_index[e] \in DOMAIN events /\ events[event_index[e]] = e
  /\ \A i, j \in DOMAIN Full : Full[i] = Full[j] => i = j

\* The archive is only ever started from a full hot window, and nothing shortens
\* the window afterwards: the sync worker cannot reset a chain it has spilled.
HotWindowFull ==
  /\ Len(events) <= MaxChainMemory
  /\ cold # <<>> => Len(events) = MaxChainMemory

\* In the hot window an author's sequence numbers strictly increase in each
\* domain, and the replay table never admits one that is already there, even
\* after a fork or a restart rebuilt the table (_rebuild_state).
HotSequencesIncrease ==
  /\ Increasing(events)
  /\ \A i \in DOMAIN events :
        LET e == signed[events[i]]
        IN e.seq <= last_sequence[e.node][DomainOf(e.kind)]

\* The same over the whole chain, the archived prefix included.
FullSequencesIncrease == Increasing(Full)

\* Only a reset lets a private sequence number be used a second time: forks and
\* restarts keep those domains (_rebuild_state, "Keep private signed-write
\* replay domains").
PrivateSequencesKept ==
  [][ events = <<>> \/ events' # <<>> =>
        \A n \in Nodes, d \in {"dm_message", "signed_write"} :
           last_sequence'[n][d] >= last_sequence[n][d] ]_vars

\* ... and no operation does, the reset included.
PrivateSequencesNeverReused ==
  [][ \A n \in Nodes : last_sequence'[n]["signed_write"]
                           >= last_sequence[n]["signed_write"] ]_vars

\* The archive and the hot window together behave as one log that only grows at
\* its head, is reorganised no deeper than the chain lock and only for a longer
\* branch, and is emptied only while it is short.
Abstract == INSTANCE Ledger WITH Entries <- Ids, log <- Full
ImplementsLedger == Abstract!Spec

\* No mailbox holds more active dm_messages than its limits
\* (append_private_dm_message: "capped per mailbox target").
SpoolBounded ==
  \A t \in Targets :
     /\ Cardinality(Spool(t)) <= SpoolLimit
     /\ \A n \in Nodes : Cardinality(SpoolOf(t, n)) <= SpoolSenderLimit

\* The revocations kept as events arrive are those a rebuild from the whole
\* chain would find (_apply_revocation against _rebuild_revocations).
RevocationsCoherent ==
  \A n \in Nodes : revocations[n] = RevocationOf(Full, n)

\* An event joins the chain only if the chain before it holds no expired
\* revocation of its author ("public key is revoked").
RevokedKeyNeverExtends ==
  [][ \A i \in {j \in DOMAIN Full' : j > Len(Full) \/ Full'[j] # Full[j]} :
        LET e == signed'[Full'[i]]
            r == RevocationOf(SubSeq(Full, 1, i - 1), signed[Full[i]].node)'
        IN e.kind # "key_revoke" /\ r # Genesis => now <= signed'[r].body.grace
    ]_vars

\* get_events_after_locator: what a peer whose locator is [Genesis] is sent.
ServedFromGenesis == events

\* A peer that starts from nothing can follow what it is sent: the first event
\* links to Genesis (_enforce_memory_cap: "Hot chain + indexes stay coherent
\* for head/sync").
NewPeerCanFollow ==
  ServedFromGenesis # <<>> => signed[ServedFromGenesis[1]].prev = Genesis

==============================================================================
