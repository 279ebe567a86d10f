# A verification of the Infonet of Shadowbroker

Shadowbroker is a backend (Python, FastAPI), a frontend and a desktop shell around
open-source feeds and a mesh. Its own distributed logic is the *Infonet*: every node
keeps a hash-chained ledger of signed events, copies it from and to its peers, and
persists it while several threads work on it. Sealed messages travel beside it over
relays, and an economy of markets, petitions and gates is read off its events. That is
what is modelled here, from the ledger outwards. Paths below are relative to the repository; `mesh/` stands for
`backend/services/mesh/`, `infonet/` for `backend/services/infonet/`.

## 1. Inventory

### 1.1 Components modelled

| component | code | state | operations |
|---|---|---|---|
| ledger | class `Infonet`, `mesh/mesh_hashchain.py` | `events` (hot window), `_cold_segments`, `head_hash`, `event_index`, `node_sequences` and `sequence_domains`, `revocations` | `append`, `append_private_gate_message`, `append_private_dm_message`, `ingest_events`, `apply_fork`, `validate_and_set_sequence`, `_enforce_memory_cap`, `reset_chain`, `_load`/`_rebuild_state` |
| persistence | the same class | `_dirty`, `_save_timer`, chain file, cold segment files, write-ahead log | `_write_wal`, `_save`, `_flush`, `_clear_wal`, `_load`, `_replay_wal`, `_reset_to_genesis`, `atexit` |
| sync and push | `backend/main.py`, `backend/routers/mesh_public.py`, `backend/routers/mesh_peer_sync.py` | each node's chain, requests and answers under way, `_peer_push_last_index` | `_sync_from_peer`, `infonet_sync_post`, `_http_peer_push_loop`, `infonet_peer_push`, `get_locator`, `get_events_after_locator` |
| private outbox and its release | `mesh/mesh_private_outbox.py`, `mesh/mesh_private_release_worker.py`, `mesh/mesh_private_dispatcher.py`, `mesh/mesh_relay_policy.py`, `mesh/mesh_privacy_policy.py` | release state and approval of each item, the scoped relay policy, the worker's round | `enqueue`, `approve_relay_release`, `continue_waiting_for_release`, `auto_release_connect_dm_outbox`, `run_once`, `attempt_private_release`, `mark_releasing`, `mark_queued`, `mark_delivered` |
| DM relay | `mesh/mesh_dm_relay.py`, `mesh/mesh_rns.py`, `backend/main.py` | mailboxes by key, bindings of tokens, the direct link's mailbox | `deposit`, `accept_replica`, `_replicate_envelope_to_peers`, `collect_claims`, `claim_mailbox_keys`, poll and count, expiry |
| markets | `infonet/markets/`, `infonet/reputation/oracle_rep.py`, `infonet/bootstrap/`, `infonet/identity_rotation.py` | none: functions of the chain and its time | `compute_market_status`, `should_advance_phase`, `build_snapshot`, `compute_dispute_outcome`, `effective_outcome`, `compute_oracle_rep`, `resolve_market`, `deduplicate_votes`, `rotation_descendants` |
| governance | `infonet/governance/`, `infonet/reputation/governance_decay.py` | none: functions of the chain and its time | `compute_petition_state`, `compute_upgrade_state`, `compute_challenge_state`, `compute_oracle_rep_active` |
| gates | `infonet/gates/` | none: functions of the chain and its time | `compute_member_set`, `compute_suspension_state`, `compute_shutdown_state`, `validate_*`, `paused_execution_remaining_sec` |
| scheduler | `mesh/mesh_infonet_sync_support.py`, `mesh/mesh_peer_store.py`, `backend/main.py` | `SyncWorkerState`, each peer's cooldown | `_run_public_sync_cycle`, `begin_sync`, `finish_sync`, `finish_solo_sync`, `should_run_sync`, `eligible_sync_peers` |

They share the chain and talk by calls and HTTP. The event loop appends; the sync
worker, which a loop and a "kick" run on threads of their own, ingests what peers
answer and resets small chains; `threading.Timer` flushes; peers read the chain
through the sync endpoint. No lock protects the chain. The scheduler decides when the
sync worker asks which peer, and copies of its state live across the wait for an
answer.

A sealed message waits in the outbox until the worker, a thread that wakes every two
seconds, finds the transports good enough or the user's consent to a relay; the
dispatcher then hands it to the Reticulum link or to the node's own relay, which copies
it to the relays of others, where the recipient's client polls for it. DM events of the
ledger are parked there too. The economy has no state of its own: whoever wants to know
a status computes it from the events of the ledger, whose order and times nobody
controls.

What makes each of them correct:

- *ledger*: one unbroken chain over archive and hot window; an index that finds
  exactly the hot window; sequence numbers that only rise, in each of the domains
  (public, gate, DM, private signed writes); limits of the DM spool; revocations that
  do not depend on the order in which they arrive; reorganisations no deeper than the
  chain lock.
- *persistence*: nothing flushed is ever lost, nothing acknowledged is lost in a
  crash, archive and hot window stay one chain whatever runs in between.
- *sync and push*: a follower holds a prefix of what it follows, gets all of it in the
  end, gives up a small chain of its own, and never a large one.
- *scheduler*: no peer is asked before its time, no node falls silent for ever, no
  dead sync blocks the next.
- *outbox and relays*: nothing is called delivered that no transport has taken, nothing
  goes by relay without consent, a message repeats only after a failure, and every
  message leaves in the end; a poll takes what it shows and says when there is more.
- *economy*: a status goes forward, whatever comes late; what is final stays final and
  only a reversal moves what it has minted; settlements balance; predictors do not
  judge their own markets; no gate is shut without suspension and delay; a late or
  repeated vote changes nothing.

### 1.2 Components not modelled

| component | why, and what is planned |
|---|---|
| incremental verifier, ephemeral cleanup, Merkle cache (`mesh/mesh_hashchain.py`, `mesh/mesh_merkle.py`) | planned, section 8 |
| Reticulum bridge and set reconciliation (`mesh/mesh_rns.py`, `mesh/mesh_ibf.py`) | planned: the quorum of proofs behind `apply_fork` |
| `GateMessageStore` and the gate push and pull loops | planned |
| the rest of the economy: ratification, common reputation, progressive penalties, partitions, privacy contracts | weighted sums over events, and stubs |
| swarm and bootstrap registry | upserts into the peer store; left as an environment of the scheduler |
| wormhole identities, contacts, prekeys, dead drops, root manifests, MLS groups | cryptography and key storage; alias rotation and witness thresholds are candidates |
| signed events, schemas, protocol, crypto | pure validation of one event; the ledger takes it as an oracle |
| router and transports for public envelopes | choice of a transport, little state; relay and privacy policy are in `PrivateDelivery` |
| old reputation and oracle of the mesh | counters in JSON files |
| agent channel (openclaw), updater, supervisors | outside the core |
| feeds, fetchers, analytics, HTTP and authentication | input and output |
| frontend, desktop shell, privacy core (Rust), capture, scripts, charts | user interface, a cryptographic library, packaging |

### 1.3 Hard behaviours

The most important ones, each at its line, are under "hazards" in PROJECT.json, the
rest in the divergences of section 6. By kind: state
read before another thread changes it (`append` against `ingest_events`, `_flush`
against `_enforce_memory_cap`), one shared slot used for several pending things (the
write-ahead log, `next_sync_due_at`), indexes that shift (spill, fork, push index),
tables rebuilt from a part of the chain (spill then restart), crashes between any two
file operations, late answers, pages whose links are cut, waits that overwrite
each other, a consent or a tier read before a send and used after it, a send that
arrived though its answer did not, mailboxes whose keys change between deposit and
poll, and events of the economy that arrive late, twice, malformed or in an order that
their validators would not have let through.

## 2. Modules

| module | what it is |
|---|---|
| `Infonet` | the ledger of one node, one action per operation |
| `Ledger` | the abstract log that `Infonet` implements |
| `InfonetProofs` | theorems about `Infonet`, for every value of its constants |
| `MCInfonet` | its instances for TLC, with the symmetry of authors |
| `InfonetStore` | the same ledger cut into the steps between which threads switch, and the disk |
| `DurableLog` | the abstract durable log that `InfonetStore` implements |
| `InfonetStoreProofs` | theorems about `InfonetStore` |
| `MCInfonetStore` | its instances |
| `InfonetSync` | several nodes, the pull and the push between them |
| `Replication` | the abstract replication that `InfonetSync` implements |
| `InfonetSyncProofs` | theorems about `InfonetSync` |
| `MCInfonetSync` | its instances: who follows and who pushes to whom |
| `SyncSchedule` | when a node asks which peer |
| `SyncScheduleProofs` | theorems about `SyncSchedule` |
| `MCSyncSchedule` | its instances |
| `PrivateDelivery` | a sealed message from the outbox to the recipient's poll |
| `PrivateDeliveryProofs` | theorems about `PrivateDelivery` |
| `DmMailbox` | the mailboxes of one recipient on a relay, and who claims what |
| `DmMailboxProofs` | theorems about `DmMailbox` |
| `Governance` | one petition or one upgrade proposal as readers of the chain see it |
| `GovernanceProofs` | theorems about `Governance` |
| `MarketLife` | status, disputes and minted reputation of one market |
| `MarketResolution` | how one market is decided and its stakes settled |
| `GateLife` | members, locks, suspension and shutdown of one gate |
| `Economy` | the three above as readers of one ledger, for one run |
| `EconomyProofs` | theorems about the markets of `Economy`, their life and their resolution |
| `MCPrivateDelivery`, `MCDmMailbox`, `MCGovernance`, `MCEconomy` | their instances |

The four modules about the ledger are views of one system at four grains. `Infonet` takes
each operation as one step and keeps its whole content; `InfonetStore` drops the
content of events and keeps the order of reads, writes and file operations;
`InfonetSync` drops the disk and the threads inside a node and keeps the network;
`SyncSchedule` drops what is exchanged and keeps time. What one leaves out is the
subject of another, and its head says so.

### 2.1 Infonet

Event `e` is `signed[e]`: ids are handed out in the order in which events are signed
anywhere, and stand for the SHA-256 of the content, so equal ids mean equal events and
a link points to an older event. `events`, `cold`, `head_hash`, `event_index`,
`last_sequence` and `revocations` are the fields of the class (`last_sequence` joins
`node_sequences`, the domain "public", and `sequence_domains`). `cold` is the
concatenation of the archived segments. Positions count from 1, so 0 in `event_index`
is an absent key. Actions are `AppendPublic`, `AppendGate`, `AppendDm`, `Ingest`,
`ClaimSequence`, `ApplyFork`, `ResetChain`, `Restart`, the clock's `Tick`, and
`SignElsewhere`, by which another node signs an event that this one may then be
offered. `Save` is part of every action that changes the chain, as in the code, and
performs the spill.

Abstracted: signatures, keys and schemas are valid; "message" stands for every public
kind that has no effect but its place in the chain; a key belongs to one node; a fork
comes with its quorum and in chain order; a batch is ingested event by event. The
replay filter is left out, because the index and the link to the head refuse what it
would refuse.

### 2.2 InfonetStore

Threads are "api" (event loop), "sync" (sync worker), "timer" (the `threading.Timer`
of `_save`) and "main" (boot and exit). `writer` and `flush` are program counters with
what each thread has read; a writer that spills carries what it has cut off and the
number of its file, because the list may grow before it is cut. `_save` is two steps,
`SetDirty` and `StartTimer`, because a flush may end between the mark and the test of
the timer; the reset of a short chain is `LookSmall` and `Reset`, because the chain may
grow between the count and the reset. `prev[e]` is the event that `e` links to, fixed
when it is made. A file write is atomic, as `_atomic_write_bytes` makes it. `phase` is the life
of the process. `acked` is a history variable: events whose append has returned.

### 2.3 InfonetSync

A pull is `Ask`, `Answer`, `Take` (`TakeFork` or `TakePage`), a push is `SendPush`,
`TakePush`, `EndPush`; each is a step between two waits for the network, and each
message can be lost (`LoseSync`, `LosePush`). Told of a fork, a thread counts its chain
(`TakeFork`) and resets it in a step of its own (`ResetChain`), before which another
thread may have filled it. `Crash` restarts a node with a prefix of
its chain. Kinds of event matter only for what a page shows of them: "private" events
are withheld from some transports, "redacted" ones are sent with fields missing, so
that their signature cannot be verified. `sent` is a history variable.

### 2.4 SyncSchedule

Times are kept as what is left of them and `Tick` counts them down, so the state space
is finite without a bound on the clock. `cycle` holds, for each thread, the copies of
the worker's state and of the peer store on which `_run_public_sync_cycle` works until
it writes them back. `embargo` is a history variable: the wait a peer has asked for
with a 429.

### 2.5 PrivateDelivery

One sender, one recipient. `items` is the outbox, which the code writes to its file in
every call and rolls back when the write fails, so that memory and file are one
variable; `approved` is the memory-only part. `worker` is the program counter of
`run_once` with the tier, the items and the consent it has read. Its steps are `Wake`,
`Judge` (one item judged), `HoldBack`, `SendDirect`, `Deposit`, `Replicate`,
`PublishGate` (the dispatcher) and `Record`; the user has `Enqueue`, `Relay`, `Wait`,
and the application `AutoRelease`. `PushAsync` is the thread that copies an envelope to
the fleet. `MaxTroubles` bounds lost sends and answers, crashes and failed writes
together. `got`, `handed` and `consented` are history variables.

### 2.6 DmMailbox

What `PrivateDelivery` leaves out of the relay: the key under which a message is parked
and the keys that a poll claims, over epochs. A message is parked under a key of the
relay's epoch (`Hydrate`, from the ledger), under the token bound last (`Replica`), or
in the direct link's mailbox (`Arrive`). A key of an epoch is made with the pepper of
the node that works it out: the recipient's own for the ledger, replicas and claims,
the sender's for the direct link, where it is stored as it comes. `SamePepper` says
whose node has the recipient's pepper, `SenderKeys` which keys a sender may use, and
`Copies` bounds under how many of them one message waits. A key with another pepper is
claimed by no poll. `Poll` binds the new token before it works out
what to collect, as the code does, and cuts its batches from both sources one after the
other; which messages are the oldest is left open.

### 2.7 Governance, MarketLife, MarketResolution, GateLife

The code keeps no state for them: each function reads the events of the chain. So the
variables are the events and the time of the chain, the actions append an event or move
the time, and status, outcome, weights and reputation are operators. Two of the modules
(`MarketLife`, `GateLife`) keep the events as a sequence and let an author write from a
view that misses the latest event ("late", at most `MaxLate` times): its validators see
the shorter chain. The other two keep sets, because their functions read the times and
not the order. The time of the chain, a median, may go back (`DrawBack`,
`DayReturns`). `MarketLife` takes any outcome for a final one, `MarketResolution`
computes it. In `GateLife` an event `suspend` is a
`gate_suspend_execute`: of a suspension the code reads nothing else, so a filing changes
no state and the execution, which nothing validates, may come at any time, as may a
`gate_unsuspend` while the gate is suspended. Likewise the votes on a shutdown are the
event with their result. A function of the code that selects events is the set of
their positions in the chain (`At`, `Appeals`, `PassedVotes`), and one that folds the
chain (`Petition`, `MemberSet`) is a recursive function of its length.

Amounts are exact: units are chosen so that every share is whole. In
`MarketResolution` a unit of reputation has fifty times `Parts` parts, and `Parts` is a
multiple of every pool up to `MaxPool`, the most that may be staked. `Economy` extends
`MarketResolution` and takes the other two as instances. In
`Governance` a market counts `Left[Most]`, and each decay age that passes halves it, as
often as the time of the model allows.

## 3. Runs

| run | configuration | shows |
|---|---|---|
| `infonet_forks` | `InfonetForks.cfg` | type invariant, the four invariants of the chain, rising sequences, private domains kept, refinement of `Ledger` |
| `infonet_limits` | `InfonetLimits.cfg` | spool limits and revocations while time passes |
| `store_crash` | `StoreCrash.cfg` | refinement of `DurableLog`; what is saved is written |
| `store_wal` | `StoreWal.cfg` | type invariant with everything at once; a boot leaves no write-ahead log |
| `store_threads` | `StoreThreads.cfg` | violated: `HistoryKept` |
| `sync_line` | `SyncLine.cfg` | refinement of `Replication`; the push index; convergence |
| `sync_heal` | `SyncHeal.cfg` | small forks heal; a long chain is given up only where it can be fetched again |
| `schedule_two` | `ScheduleTwo.cfg` | bounds of every delay; a dead sync does not block |
| `delivery` | `Delivery.cfg` | delivered means handed over; repeats need failures; no relay without consent; everything leaves |
| `mailbox` | `Mailbox.cfg` | limits per sender; a poll takes what it shows, and says so when there is more |
| `governance` | `Gov.cfg` | waiting goes forward; late and repeated events change nothing |
| `economy` | `Economy.cfg` | markets, resolution and gates: statuses go forward, reversals swap, settlements balance, predictors have no say, shutdowns are due, and what is settled stays so |

Bounds, and why they are enough:

- `infonet_forks` has one author of public and gate events and of private writes,
  six events of sequence numbers up to two, a hot window of three, a lock depth of one
  and forks of up to two events, of which two may be signed elsewhere. That is enough
  for a spill, a fork at the seam, a reorganisation, a reset and a restart to follow
  each other in every order, with both sequence domains in one fork.
- `infonet_limits` has three authors and one mailbox of two messages, one for each
  sender, so that both limits bind; time passes once, which is enough for a message to
  leave the spool and for a revocation to expire. No spill and no fork: with a fork
  two of the properties fail (section 6).
- `store_crash` has one writer, four events and three crashes; the write-ahead log has
  one slot, so three events suffice for one to be overwritten and one to follow.
  `store_wal` has both writers and three events, so that both threads spill at once,
  resets below the size of the hot window, a clean exit and boots that come late
  (1.7 million states, the largest space of all).
- `sync_line` has three nodes in a line, pages of one event, two rounds, a push of two
  events, one loss and one crash of a follower. `sync_heal` has two threads on one
  follower, a chain of up to three events of its own, and resets below three, so that
  both sides of the limit occur, and one thread can fill the chain past the limit
  between the other's count and reset.
- `schedule_two` has a seed and another peer, one peer a cycle, both threads, one
  cycle that dies, and a 429 whose wait is longer than the clamp.

- `delivery` has a scoped request with a direct message or a gate message beside it, a
  limit of one per sender so that retries meet it, five reports of the transports
  between which they change at any time, and one failure of any kind anywhere.
- `mailbox` has two senders, three messages of which one comes by the ledger and two by
  the direct link, one from a node with the recipient's pepper and one from a node with
  another, one copy of each there at a time, batches of one, and three epochs, so that a
  binding can be two epochs old when it is pruned.
- `governance` has two nodes of equal or unequal weight, one of which wins or loses a
  market meanwhile, windows of a day each, four days, and four events in any order:
  enough for a signature, a vote, a second vote and an event of any other kind, and
  for a weight to decay.
- `economy` looks at one of its three parts at a time: a market of six events with two
  bettors, one dispute and one late event; a market decided with two pieces of
  evidence, three stakes, three votes and two rotations of identity; a gate of six
  events with two petitions and one late event, on three days, with a suspension and a
  delay of two days and an appeal window of one. Six events are enough for suspension,
  petition, vote, appeal, its end, and the execution, and for a shutdown of a gate whose
  suspension has been lifted and set again. 650,106 distinct states.

The deadlock check is off where the bounds stop the system (events, crashes, losses
run out); `SyncSchedule` never stops and is checked for it.

Every property of a passing run has a mutant in PROJECT.json: a plausible bug in a
mapped definition (an off-by-one in the spill, an index that is not renumbered, a fork
checked against the prefix alone, a replay that does not look at the link, a page that
starts at the matched event, a resolution that mints its bonus, an appeal after the
deadline) under which TLC finds it violated.

## 4. Fairness

- `InfonetStore!FairSpec`: weak fairness of an operation that has begun, of the
  timer, of each thread in `_flush`, of exit and of boot. The operating system runs a
  runnable thread, the timer fires after its delay, a supervisor restarts the process.
  Nothing forces a new event, a crash or an exit.
- `InfonetSync!FairSpec`: weak fairness of each sync thread against each of its peers
  and of the push loop. Both are loops on daemon threads, a peer that is up answers,
  and a crashed node is up again in the same step. Losses are bounded and not fair.
  That a loop comes back to each of its peers is what `SyncSchedule` is about.
- `SyncSchedule!FairSpec`: weak fairness of the clock, of the loop's poll every five
  seconds, and of the end of a request, which its timeout guarantees. A kick may never
  come.

- `PrivateDelivery!Spec`: weak fairness of the worker's thread, which a timeout wakes
  every two seconds, of the recipient's poll, and of expiry. The user, the transports
  and the relays' background copies may do nothing. `Released` assumes in its premise
  that the transports become ready for good and that the thread lives: the code starts
  a dead one again only with the next message.
- The economy has no fairness: nobody has to append an event.

## 5. Proofs

What follows is proved for every value of the constants that the named assumptions of
the module allow; a configuration is one such value.

| module | theorem | property |
|---|---|---|
| `InfonetProofs` | `TypeCorrect` | `TypeOK` |
| | `ChainIsLinked` | `ChainLinked` |
| | `IndexIsCoherent` | `IndexCoherent` |
| | `WindowIsFull` | `HotWindowFull` |
| | `LedgerImplemented` | `ImplementsLedger` |
| | `SequencesRise` | `HotSequencesIncrease` |
| | `PrivateIsKept` | `PrivateSequencesKept` |
| | `SpoolIsBounded`, for `NoForks` | `SpoolBounded` |
| | `RevocationsAgree`, for `NeverSpills` | `RevocationsCoherent` |
| `InfonetStoreProofs` | `TypeCorrect` | `TypeOK` |
| | `BootsRetireWal` | `BootRetiresWal` |
| | `LogIsDurable`, for `OneWriter` | `ImplementsDurableLog` |
| `InfonetSyncProofs` | `TypeCorrect` | `TypeOK` |
| | `LongChainsComeBack`, for `Star` | `LongChainRecoverable` |
| | `NothingIsLeft`, for `PushersKeep` | `NothingNew` |
| | `SyncReplicates`, for `OneAuthor` | `ImplementsReplication` |
| `SyncScheduleProofs` | `TypeCorrect` | `TypeOK` |
| | `NobodySilencesUs`, for `ClampedRefusals` | `NeverSilent` |
| `PrivateDeliveryProofs` | `TypeCorrect` | `TypeOK` |
| | `DeliveredWasHanded` | `DeliveredIsHanded` |
| | `RepeatsAreBounded` | `RepeatsNeedFaults` |
| | `RelayNeedsConsent` | `NoSilentRelay` |
| `DmMailboxProofs` | `TypeCorrect` | `TypeOK` |
| | `PollTellsTheTruth` | `PollIsHonest` |
| `GovernanceProofs` | `TypeCorrect` | `TypeOK` |
| | `StrayIsIgnored` | `StrayEventsIgnored` |
| | `TimeGoesForward` | `WaitingGoesForward` |
| `EconomyProofs` | `SettlementsBalance` | `SettlementBalances` |
| | `PredictorsAreOut` | `PredictorsHaveNoSay` |
| | `SupportIsSafe` | `SupportNeverHurts` |
| | `ResolutionTypeCorrect` | the resolution's part of `TypeOK` |
| | `StatusGoesForward` | `StatusForward` |
| | `ReversalsMove` | `OnlyReversalsMove` |
| | `ShutdownsAreDue` | `ShutdownIsDue` |
| | `ShutsForGood`, for `AppealDays <= DelayDays` | `ShutForGood` |
| | `TypeCorrect` | `TypeOK` |

Eight theorems have a hypothesis on the constants beside the assumptions of the module.
Each names what the property needs, the run of the property fulfils it, and the code
without it violates the property:

| hypothesis | says | because |
|---|---|---|
| `NoForks` | no fork is applied | `apply_fork` does not look at the spool (`ForkDivergences`) |
| `NeverSpills` | the hot window holds the whole chain | a rebuild reads the hot window only, and an archived `key_revoke` is forgotten |
| `OneWriter` | the event loop alone writes, replays come in time, nothing spills, the process stops by crashing | the write-ahead log has one slot, a late replay meets a changed chain, a spill and a flush lose an event between them, and at a clean exit the timer's flush may overwrite the exit's (`StoreDivergences`, `StoreArchive`, `store_threads`) |
| `PushersKeep` | who pushes syncs from nobody, or no chain is small | the push index outlives a reset (`SyncDivergences`) |
| `OneAuthor` | one node appends, which neither crashes nor resets, and nobody starts with a chain of its own | a fork above genesis never heals (`SyncFork`) |
| `Star` | one node appends, neither crashes nor syncs, and is the only peer of all others, who push to nobody | a chain that another author has extended is lost when it is emptied after the count (`SyncDivergences` shows the emptying) |
| `ClampedRefusals` | no refusal other than a 429 asks for more than the clamp | a Retry-After of other statuses is not clamped (`ScheduleDivergences`) |
| `AppealDays <= DelayDays` | no appeal window outlasts the delay of the execution | the schema of `config.py` allows a delay of one day beside a window of 168 hours (the defaults are seven days and 48 hours), and then a single appeal that crosses the execution takes the petition out of "executed" (`ShutdownIsDue` has it as the condition of one of its parts; `SettledForGood` does not need it) |

In each module one lemma per action shows that the step keeps the inductive invariant,
and the theorems follow from that invariant.

*Infonet* assumes a hot window of at least one event, kinds among the known ones, a
target that means none, and `ResetAssumption`: only chains shorter than the hot window
are reset, 20 events against `MAX_CHAIN_MEMORY`. The invariant `ChainInv` is the
conjunction of `TypeOK`, that every signed event links to an older one,
`HotWindowFull`, `ChainLinked` and `IndexCoherent`. None of the last three is inductive
alone. A new event extends the chain without repeating one because ids are fresh or
absent from the index; absent from the index means absent from the *hot* window only,
and an archived event is kept out because its link is not the head, which needs links
to go to older events and the chain to be linked across the seam. A fork keeps the
chain linked because its root is found by the index, so the index must be exact; and a
fork or a reset leaves the archive alone, which is right only while the window in front
of it is full. The core of the lemmas about `Save` is that cutting a sequence in two
and joining it again gives the same sequence. `LedgerImplemented` then maps each action
to `Extend`, `Reorganise`, `Reset` or a stutter of `Ledger`, under `ChainInv`.

*Sequence numbers.* Their part adds `HotSequencesIncrease` to `ChainInv`. A
number is accepted when it is above the table, and the table is above all of the window
when it was kept along or rebuilt; a spill drops the front of the window and a fork is
compared with the prefix it keeps, so both leave a rising sequence. Private domains
have no event to be rebuilt from: `PrivateIsKept` shows that every rebuild carries them
over, and that a reset alone does not.

*Spool and revocations.* The spool is a set of positions of the chain that depends on
the clock, so the lemmas are about its size under a change of the chain, of the clock or
of what is signed: time and a restart only take from it, an accepted DM adds one where
the limit was not reached, and an event signed elsewhere has a time no later than now.
For the revocations the invariant is the property itself: a table that folds the chain
from the left agrees with the last revocation of highest sequence, and agrees again
after one more event, whichever way the two sequences compare.

*InfonetStore.* Beside `TypeOK` the invariant says that a thread in the middle of a
write has an event, that only the timer's thread outlives its flush, and `BootOK`:
during a boot the other threads are still, and while it replays, the flag of its own
flush is set and the timer that the replay has started has not fired. Without the last
part the boot's flush could find nothing to write and leave the log in place. That a
listed segment exists needs no more than that every writer writes its file before it
lists it and that files are never removed; two threads may still list the same one.

*The durable log.* The chain file is `stable` and the chain is `log`. `LogInv` says what
every thread that is somewhere in a write or a flush holds: an event made of the end of
the chain is chained to it, what a flush has read is a prefix of the chain and extends
the file, and the event in the write-ahead log is on the chain, about to be appended,
or, once the process has stopped, follows the chain or has lost its place on it. That
last case is the point: after a crash the replay appends the logged event exactly when
its link is the head, and otherwise it must be one that the chain does not need. Events
link to older ones, so a chain never holds an event beyond the position of its number,
which is why an event that fits cannot be on the chain already.

*InfonetSync.* `TypeCorrect` needs the one non-trivial fact `Sound`: no chain holds an
event at a position beyond its number. It bounds what a push may add to its index, and
survives pages because a page is folded over the chain event by event (`Ingested`, a
recursive function; `Folding` shows that such a function exists).
`NothingNew` adds that all before the push index has been sent, also while a batch is
under way and while its answer is lost. `SyncReplicates` maps the author's chain to the
abstract log and each other chain to its replica; the invariant is that every chain,
also a crashed one, and every page lays out the events in the order of their making.
A page that starts anywhere, arrives late or repeats then extends the chain by a
consecutive part, or not at all.

`LongChainsComeBack` needs that a chain about to be reset, which another thread may fill
after the count, is still short or made of the author's events. `StarInv` says so
(`SessionsSee`), and that each chain holds nothing but the author's events or none of
them (`ChainsBelong`): a chain of a node's own can then only grow by its own pages, of
which there are none, so one that was short when it was counted is short, or gone and
replaced by the author's. `StarMake` is the step in which
the author appends, `StarStep` all others.

*SyncSchedule.* Threads write back copies of the worker's state that they took before a
wait, so an invariant of the state has to hold of the copies, too. `Closed(S)` says that
a set of states is left by none of the operations; any closed set is then an invariant
of the state and of all copies at once. The set of all states gives `TypeOK`, that of
the states whose delay is at most the longest of interval, clamp and cap `NeverSilent`.

*Governance.* Statuses depend on sums of weights over finite sets, with products and
quotients in each weight. `SumIs` gives the library's sum a first-order form, `SumOrder`
says that two sums over one set, one of them below the other everywhere, are equal only
if all their terms are. So when the weight of the network stays while time passes, no
node's weight has decayed, and everything but the comparison with the clock is what it
was (`PassKeeps`); the rest is the order of the deadlines (`Forward`). For stray events
the invariant is that no node votes twice at one time, which makes the first vote of a
node a fact about times and not about the order of arrival (`FirstStays`).

*Market resolution* assumes finite sets of nodes, stakes of positive whole units, the
minima that `CONFIG_SCHEMA` demands to be positive, and that `Parts` divides as said
above. The invariant gives each variable its type, bounds what is staked on a market that
is not a bootstrap market, and says that a node votes once with each hash.
`SettlementsBalance` is a matter of sums. `TotalGrows`, `TotalLinear` and `TotalOfPart`
take apart the library's sum over a set of records. The stakes that count fall into
winners, losers and votes for unavailable data, by the kind of reputation; in each case
of `Reason` one lemma compares what one such stake brings in with what it is paid. The
shares of the winners are whole because the pool that they divide is a multiple of every
pool (`SharesAreWhole`), so their sum is the pool without the burn. The bonus is one
term, the least claim of the winning side, and never more than the bonds that were lost.

For `PredictorsAreOut` the iteration of `Renamed` has to have found every later identity
of a predictor: each round that finds one brings another link whose both ends are found,
so there are at most as many rounds as links (`AllAreFound`). For `SupportIsSafe` three
facts come together: a leader of three quarters that gains leads by three quarters
(`LeaderStays`), what invalidated nothing before still does not (a stake cannot push the
votes for unavailable data over their third), and in a bootstrap market a second vote of
a node replaces its first or is dropped, so the ballot never shrinks (`BallotMoves`,
`OneForOne`).

*The life of a market.* `MarketInv` says that what is on the chain was written by the
actions of the part that is looked at, and that each final event has a well-formed first
snapshot before it. An author who misses the last event then still sees the snapshot of
a market that has ended (`AfterTheEnd`), so neither a late bet nor a late snapshot comes
after the end. What is first of its kind stays first (`FirstStays`); that is all that
`StatusGoesForward` needs beside the clock. What a market brings hangs on bets,
snapshots, final events and reversals (`SameRep`), and a bet gains exactly when its side
is the effective one (`GainSign`).

*The life of a gate.* `GateInv` is in three layers, of which two hold whoever has missed
what. `GateEventOK` holds of every event: it has been written after those it needs, of
which its author may have missed the last. A petition is filed within a suspension that
nothing has lifted, unless it is the event just before; an execution follows its petition
and, on the chain that its author has seen, the whole delay (`Paid`). `Sound` reads a
chain through the status of a petition: "filed" means no vote and no appeal yet, and
"executing" means that its time is one at which the delay is over (`Waited`), whether
the vote or a resolution has set it: a resolution gives back exactly what was left at
the appeal (`ResumedWaits`), counted from the *first* vote that passed, also where a late
second one has come (`PassedWaits`). `Waited` speaks of all resolutions at once and
hence survives a further appeal. `Sound` is asked of the chain and of the chain without
its last event, since that is what a late author sees; what is true of a view stays
true of the beginning of the chain that it is (`BeginningStays`). The third layer holds
while nobody has been late: `Watched` and `OnePending` say that at most one petition is
open, and none after a shutdown. `ShutdownsAreDue` is then read off, but for the
converse part of `ViewsAgree`: that a gate that is shut has an executed petition is an
invariant of its own (`HasExecuted`), kept because at most one event can cross the
execution and an appeal cannot be it. A petition is a recursive function of the chain;
`PetitionGrows` shows that one more event is one more `Step`, and nothing else about
recursion is needed.

For `ShutsForGood` an event that crosses the execution was written on the chain in front
of it. There the petition was executing and its execution due, so an appeal would have
come after its window (`NoLateAppeal`). `ExecutedForGood` speaks of at most one late event
(`late' <= 1`), which the run grants (`MaxLate` is one): with two, an executor may miss
an appeal and a resolver miss that execution, and the petition is void after all.
`SettledForGood` has no such bound. It asks for one event to have followed: then even
the view of a late author shows the petition executed, voided or failed, and no
operation is open to one that is (`PetitionSettledStep`).

*The types of the economy.* That a gate's members are nodes and that its clock is ahead
of its chain is part of `GateInv`; `MarketBounds` bounds what a market's part counts.
The only hard conjunct is that no reputation is negative or above what was ever earned:
both are sums over the same finite set of bets, of which the second leaves the losses
out (`GainsOnly`).

*PrivateDelivery* assumes finite sets of items and positive limits. The invariant adds
three parts to `TypeOK` and `DeliveredIsHanded`. `HandsOK`: what the worker holds is
in the state "releasing", and what it is about to record as sent has been handed over.
`ConsentOK`: a policy, an approval and the consent that the worker has read all go back
to one that somebody gave. `CopiesOK` is an account: what the recipient has seen, what
waits for it, what is under way and what the outbox will still send are at most one
more than the failures so far. Every step moves a copy from one place to the next, and
a repeat is a failure that has put one back.

*DmMailbox* needs, beside `TypeOK`, that a message under a key of an epoch that the
recipient's own pepper has made was sent in that epoch, this one or the one before; a
poll claims just these. The direct link keeps this also for a message that arrives an
epoch late, because its key and its age come from the same sender (`SenderKeysOK`). That
a poll which says there is no more has shown all of these, and all that it claims by
token, is then a fact about batches: a batch takes all that fits. Of what a sender's
node has keyed with another pepper it says nothing, and a poll may say "no more" beside
it (`DirectIsClaimed` in section 6).

Model-checked only: every liveness property (`SavedIsWritten`, `Converges`, `ForksHeal`,
`RunningNeverSticks`, `Released`), because fairness and ENABLED are beyond the proof
system. Every invariant, action property and refinement that a run checks is a theorem.

Facts about least numbers, folds and prefixes that several proofs need stand at the head
of each module that uses them.

## 6. Divergences between the code and what it says

*Two events on one head* is a run of the project (`store_threads`), with its finding in
PROJECT.json: `append` and `ingest_events` run on different threads without a lock.

Others were met on the way. Each has a property in its module and a configuration here
with which TLC finds it violated (`tlc -config <name>.cfg <module>`), outside the
listed runs. A configuration named `...Divergences` has one active property; the others
stand beside it as comments, to be activated one at a time.

| configuration | property | what the code does |
|---|---|---|
| `SpillDivergences` (MCInfonet) | `FullSequencesIncrease` | `_rebuild_state` recomputes sequence numbers from the hot window, so a number of the archive is accepted again |
| | `NewPeerCanFollow` | after a spill a new peer is served from the middle of the chain |
| `ForkDivergences` (MCInfonet) | `SpoolBounded` | `apply_fork` does not look at the spool limits |
| | `RevokedKeyNeverExtends` | `apply_fork` checks a fork against the revocations of the chain it replaces |
| `ResetReplay` (MCInfonet) | `PrivateSequencesNeverReused` | `reset_chain` forgets private sequence numbers |
| `StoreDivergences` (MCInfonetStore) | `AckedSurvives` | the write-ahead log has one slot; a second append within a save interval overwrites it |
| | `WalRetiredWhenDurable` | a flush retires the log entry of a later append |
| | `DirtyIsFlushed` | a save during a flush starts no timer |
| | `CleanExitKeepsAll` | a flush marks clean what it did not write |
| | `TimedIsWritten` | a flush that has encoded before an event may take away the mark that its save has set, and a new timer then finds nothing dirty: an event saved under a waiting timer is not written |
| | `FlushedSurvives` | a stale log entry makes the boot drop the chain file's events |
| `StoreArchive` (MCInfonetStore) | `HistoryKept` | a flush lists segments before a spill and reads events after it |
| `SyncRedacted` (MCInfonetSync) | `Converges` | a vote or key_rotate is served without signed fields, a private event is left out of the page, and no later event can be linked |
| `SyncDivergences` (MCInfonetSync) | `NothingNew` | the push index outlives a reset |
| | `ResetOnlyForLonger` | a small chain is reset for an empty peer |
| | `LongChainKept` | a chain that another thread has filled past the limit, after it was counted and before `reset_chain`, is emptied |
| `SyncFork` (MCInfonetSync) | `ForksHeal` | a fork above genesis is never reported and never healed |
| `ScheduleDivergences` (MCSyncSchedule) | `NeverHammer` | the wait of a 429 is kept in one field that the next peer's outcome overwrites |
| | `NeverSilent` | Retry-After of other statuses is not clamped |
| `ScheduleSolo` (MCSyncSchedule) | `FailuresRemembered` | all peers cooling counts as a solo success |
| `ScheduleCap` (MCSyncSchedule) | `CapZeroIsConstant` | a cap of zero disables the base delay too |
| `DeliveryDivergences` (MCPrivateDelivery) | `RetryIsPushed` | a retry that finds its own first copy parked is refused by the limit per sender and not pushed |
| | `ThreadReturns` | a worker thread that an exception has ended stays dead until the next message |
| `MailboxDivergences` (MCDmMailbox) | `PreviousBoundIsClaimed` | a claim binds the new token first, and what is parked under the one before is not claimed |
| | `DirectIsClaimed` | a message of the direct link keyed with the sender's node pepper is claimed by no poll, which then says there is no more |
| | `SenderLimitedOverall` | the limit per sender is counted in each mailbox of a recipient |
| `GovDivergences` (MCGovernance) | `ExecutedStays` | a late challenge voids a petition that has been executed |
| | `VoteBeginsOnce` | a signature after the vote has begun begins it again |
| | `ActiveIsReady` | an `upgrade_activate` counts without the readiness of the heavy nodes |
| `EconomyDivergences` (MCEconomy) | `LifetimeGrows` | a reversal takes back reputation "ever earned" |
| | `MintsAsFinal` | reputation follows the latest finalisation, the status the first |
| | `FailedStays` | a vote "passed" that misses the one by which a petition failed makes it pending again |
| | `LockedStays` | the lock of a member who leaves no longer counts |
| | `EntryIsRecorded` | an entry after a shutdown is paid for and does not count |
| | `BurnNeedsMinimum` | unavailable data slashes before the minimum of stakes is looked at |

## 7. What is abstracted everywhere

Logging, metrics, counters, hooks that hand an event on, HTTP status codes beyond
those acted upon, authentication, and the content of payloads. Errors of the file
system are not injected. The age limit of ingest is in `Infonet` and, at boot, in
`InfonetStore`; `InfonetSync` leaves it out, so its convergence holds for chains
younger than `MESH_INGEST_EVENT_MAX_AGE_S`, with fleet join enabled.

Beyond that, and worth knowing when a property is read:

- `Infonet!Restart` is a clean stop. A crash loses the private sequence numbers issued
  since the last flush, and a boot that rejects its log (`_reset_to_genesis`) all of
  them; `PrivateSequencesKept` speaks of neither. What else a crash does is in
  `InfonetStore`.
- `SavedIsWritten` starts from a save that begins while nothing is being flushed and no
  timer runs for a mark that has gone; other saves are the subject of `TimedIsWritten`,
  which fails.
- `PrivateDelivery!PushAsync` joins the two attempts of the background thread; the
  second can only bring what the first could have brought. Direct collection there takes
  whatever has arrived; which keys it claims is in `DmMailbox`.
- In `MarketResolution` `Aged` is a constant, where the code works out a node's age from
  its earliest event on the chain: an event that is backdated would make a node older
  than the model lets it be. `SettlementBalances` counts as `Vanished` the pool that
  nobody has won and the forfeits of bootstrap markets, which the code neither pays out
  nor burns: it accounts for them and does not forbid them.
- In `GateLife` a late author has missed one event, the latest; how many authors are
  late is a constant.

## 8. Plan

1. `InfonetVerifier`: `validate_chain_incremental`, the Merkle cache and `cleanup` over
   a chain that spills and forks between two calls, with the verifier on its own
   thread. Composes with `Infonet`.
2. `GateStore`: gate logs with their push index, which repeats the pattern of
   `InfonetSync`.
3. `ForkQuorum`: fork proposals of the Reticulum bridge that lead to `ApplyFork`.
4. Ratification and partitions of the economy.
