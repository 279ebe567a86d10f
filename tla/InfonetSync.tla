----------------------------- MODULE InfonetSync -----------------------------
(***************************************************************************)
(* How Infonet nodes copy each other's chains: the pull of _sync_from_peer *)
(* against infonet_sync_post, by the sync loop and by a kick, and the push *)
(* of _http_peer_push_loop to infonet_peer_push (backend/main.py and the   *)
(* routers mesh_public.py and mesh_peer_sync.py, whose handlers come       *)
(* before their namesakes of main.py), over get_locator,                   *)
(* get_events_after_locator, ingest_events and reset_chain                 *)
(* (backend/services/mesh/mesh_hashchain.py).                              *)
(*                                                                         *)
(* A step ends where the code waits for the network, and between the test  *)
(* of a chain's length and the reset that follows it; requests and replies *)
(* may be lost and nodes may crash.  Events link to made[e].prev and are   *)
(* otherwise valid: the other refusals of ingest are the subject of        *)
(* Infonet, its interleaving with other threads that of InfonetStore.      *)
(* Chains stay below the memory cap.  Which peer is asked when is left     *)
(* open here.  A node pushes to one peer at most.                          *)
(***************************************************************************)
EXTENDS Integers, Sequences, FiniteSets, SequencesExt

CONSTANTS
  Nodes,
  Seed,              \* the node the others follow
  Authors,           \* the nodes that append
  Solo,              \* the nodes, one at most, that begin with a chain of their own
  Peers,             \* the peers a node syncs from
  PushPeers,         \* the peer a node pushes to
  MayCrash,          \* the nodes that crash
  Threads,           \* the threads that sync: "loop", "kick" or both
  Kinds,             \* kinds of the events appended, see KindsOfEvent
  PrivateTransport,  \* _request_appears_private_infonet_transport
  LocatorDense,      \* entries of a locator, after the first, before gaps grow
  LocatorSize,       \* max_entries of get_locator
  PageLimit,         \* page_limit of _sync_from_peer
  MaxRounds,         \* max_rounds of _sync_from_peer
  BatchSize,         \* _PEER_PUSH_BATCH_SIZE
  ResetBelow,        \* the length from which a chain is no more reset
  SoloLength,        \* bound: events a Solo node may begin with
  MaxEvents,         \* bound: events in a behaviour
  MaxCrashes,        \* bound
  MaxLosses          \* bound: requests and replies lost

\* gate_message and dm_message are "private"; vote and key_rotate are "redacted".
KindsOfEvent == {"plain", "private", "redacted"}

ASSUME NodesAssumption ==
  /\ Seed \in Nodes /\ Authors \subseteq Nodes /\ MayCrash \subseteq Nodes
  /\ Solo \subseteq Nodes /\ Cardinality(Solo) <= 1
  /\ Peers \in [Nodes -> SUBSET Nodes] /\ PushPeers \in [Nodes -> SUBSET Nodes]
  /\ \A n \in Nodes : Cardinality(PushPeers[n]) <= 1
ASSUME SyncAssumption ==
  /\ Threads \subseteq {"loop", "kick"} /\ Kinds \subseteq KindsOfEvent
  /\ PrivateTransport \in BOOLEAN
  /\ LocatorDense \in Nat /\ LocatorSize \in Nat \ {0, 1}
  /\ PageLimit \in Nat \ {0} /\ MaxRounds \in Nat \ {0} /\ BatchSize \in Nat \ {0}
  /\ ResetBelow \in Nat /\ MaxEvents \in Nat /\ SoloLength \in 0 .. MaxEvents
  /\ MaxCrashes \in Nat /\ MaxLosses \in Nat

VARIABLES
  made,     \* the events in the order they were made: what each links to, its kind
  chain,    \* infonet.events of each node
  session,  \* where each thread of each node is in _sync_from_peer
  push,     \* each node's push: _peer_push_last_index and the batch under way
  sent,     \* the events each node has pushed with success
  crashes,  \* so far
  losses    \* so far

vars == <<made, chain, session, push, sent, crashes, losses>>

Genesis == 0
LastOf(c) == IF c = <<>> THEN Genesis ELSE Last(c)

Idle == [at |-> "idle"]
NoPush == [next |-> 0, at |-> "idle", batch |-> <<>>]

------------------------------------------------------------------------------
(* Ingesting a page *)

\* An event is on a page as it was made or with fields missing.
Entry(e, whole) == [id |-> e, whole |-> whole]

FollowsAnything(c, x) == x.whole
Follows(c, x) == x.whole /\ made[x.id].prev = LastOf(c)

\* ingest_events passes over events already on the chain and refuses those that do
\* not follow it.
Accept(c, x) ==
  IF x.id \notin Range(c) /\ Follows(c, x) THEN Append(c, x.id) ELSE c

Ingested(c, page) ==
  LET after[i \in 0 .. Len(page)] ==
        IF i = 0 THEN c ELSE Accept(after[i - 1], page[i])
  IN after[Len(page)]

Refuses(c, page) ==
  \E i \in DOMAIN page : page[i].id \notin Range(Ingested(c, page))

------------------------------------------------------------------------------
(* Locators and pages *)

\* get_locator: the last events one by one, then with gaps that double.
Gap(k) == IF k <= LocatorDense THEN k
          ELSE LocatorDense + 2 ^ (k - LocatorDense + 1) - 2

Locator(c) ==
  LET size == Cardinality({k \in 0 .. LocatorSize - 2 : Gap(k) < Len(c)})
  IN [k \in 1 .. size |-> c[Len(c) - Gap(k - 1)]]

\* get_events_after_locator: where the newest entry that the node knows is on its
\* chain; zero stands for Genesis, which ends every locator.
Known(c, locator) ==
  LET k == SelectInSeq(locator, LAMBDA e : e \in Range(c))
  IN IF k = 0 THEN 0 ELSE SelectInSeq(c, LAMBDA e : e = locator[k])

PageFrom(c, start) == SubSeq(c, start + 1, Min({start + PageLimit, Len(c)}))
PageFromMatch(c, start) ==
  SubSeq(c, Max({start, 1}), Min({Max({start, 1}) + PageLimit - 1, Len(c)}))
Page(c, start) == PageFrom(c, start)

\* infonet_sync_post: only an empty chain may share nothing but Genesis.
Forked(start, locator) == start = 0 /\ locator # <<>>

\* _infonet_sync_response_events: private events are withheld from a transport that
\* is not private, and _redact_public_event takes fields out of others.
Shown(e) == made[e].kind # "private" \/ PrivateTransport

Surface(events) ==
  LET page[i \in 0 .. Len(events)] ==
        IF i = 0 THEN <<>>
        ELSE IF Shown(events[i])
             THEN Append(page[i - 1], Entry(events[i], made[events[i]].kind # "redacted"))
             ELSE page[i - 1]
  IN page[Len(events)]

------------------------------------------------------------------------------
(* Operations *)

\* append; kind stands for the event's type.
Make(n, kind) ==
  /\ n \in Authors /\ Len(made) < MaxEvents
  /\ made' = Append(made, [prev |-> LastOf(chain[n]), kind |-> kind])
  /\ chain' = [chain EXCEPT ![n] = Append(@, Len(made) + 1)]
  /\ UNCHANGED <<session, push, sent, crashes, losses>>

\* A round of _sync_from_peer: the request leaves with the locator,
Asking(n, p, rounds) ==
  [at |-> "asked", peer |-> p, rounds |-> rounds, locator |-> Locator(chain[n])]

Ask(n, t, p) ==
  /\ p \in Peers[n]
  /\ \/ /\ session[n][t].at = "idle"
        /\ session' = [session EXCEPT ![n][t] = Asking(n, p, 0)]
     \/ /\ session[n][t].at = "again" /\ session[n][t].peer = p
        /\ session' = [session EXCEPT ![n][t] = Asking(n, p, @.rounds)]
  /\ UNCHANGED <<made, chain, push, sent, crashes, losses>>

\* the peer answers,
Answer(n, t, p) ==
  LET s == session[n][t]
      start == Known(chain[p], s.locator)
  IN /\ s.at = "asked" /\ s.peer = p
     /\ session' = [session EXCEPT ![n][t] =
          [at |-> "answered", peer |-> p, rounds |-> s.rounds,
           forked |-> Forked(start, s.locator),
           page |-> Surface(Page(chain[p], start))]]
     /\ UNCHANGED <<made, chain, push, sent, crashes, losses>>

\* and the thread acts on the answer.
Again(s, rounds) == [at |-> "again", peer |-> s.peer, rounds |-> rounds]

IsSmallNever(c) == FALSE
IsSmallOffByOne(c) == Len(c) <= ResetBelow
IsSmall(c) == Len(c) < ResetBelow

\* Told of a fork, it resets a chain that it finds small,
TakeFork(n, t) ==
  LET s == session[n][t]
  IN /\ s.forked
     /\ session' = [session EXCEPT ![n][t] =
                      IF IsSmall(chain[n])
                      THEN [at |-> "small", peer |-> s.peer, rounds |-> s.rounds]
                      ELSE Idle]
     /\ UNCHANGED chain

\* however long another thread has made it meanwhile.
ResetChain(n, t, p) ==
  LET s == session[n][t]
  IN /\ s.at = "small" /\ s.peer = p
     /\ chain' = [chain EXCEPT ![n] = <<>>]
     /\ session' = [session EXCEPT ![n][t] = Again(s, s.rounds)]
     /\ UNCHANGED <<made, push, sent, crashes, losses>>

\* More may follow a full page that brought something and was not refused.
Continues(c, s) ==
  /\ Len(s.page) = PageLimit
  /\ ~Refuses(c, s.page)
  /\ Ingested(c, s.page) # c
  /\ s.rounds + 1 < MaxRounds

TakePage(n, t) ==
  LET s == session[n][t]
  IN /\ ~s.forked
     /\ chain' = [chain EXCEPT ![n] = Ingested(@, s.page)]
     /\ session' = [session EXCEPT ![n][t] =
                      IF Continues(chain[n], s) THEN Again(s, s.rounds + 1) ELSE Idle]

Take(n, t, p) ==
  /\ session[n][t].at = "answered" /\ session[n][t].peer = p
  /\ TakeFork(n, t) \/ TakePage(n, t)
  /\ UNCHANGED <<made, push, sent, crashes, losses>>

Sync(n, t, p) ==
  Ask(n, t, p) \/ Answer(n, t, p) \/ Take(n, t, p) \/ ResetChain(n, t, p)

\* A request or a reply is lost, and the sync fails.
LoseSync(n, t) ==
  /\ losses < MaxLosses /\ session[n][t].at \in {"asked", "answered"}
  /\ session' = [session EXCEPT ![n][t] = Idle]
  /\ losses' = losses + 1
  /\ UNCHANGED <<made, chain, push, sent, crashes>>

\* _http_peer_push_loop sends what is beyond the last index it has pushed,
SendPush(n) ==
  /\ PushPeers[n] # {} /\ push[n].at = "idle" /\ push[n].next < Len(chain[n])
  /\ push' = [push EXCEPT ![n] =
       [next |-> @.next, at |-> "sent",
        batch |-> SubSeq(chain[n], @.next + 1, Min({@.next + BatchSize, Len(chain[n])}))]]
  /\ UNCHANGED <<made, chain, session, sent, crashes, losses>>

\* infonet_peer_push ingests it, whatever ingest_events refuses,
TakePush(n, p) ==
  LET page == [i \in DOMAIN push[n].batch |-> Entry(push[n].batch[i], TRUE)]
  IN /\ p \in PushPeers[n] /\ push[n].at = "sent"
     /\ chain' = [chain EXCEPT ![p] = Ingested(@, page)]
     /\ push' = [push EXCEPT ![n].at = "taken"]
     /\ UNCHANGED <<made, session, sent, crashes, losses>>

\* and the index moves on.
NextIndexUnbatched(p) == p.next + BatchSize
NextIndex(p) == p.next + Len(p.batch)

EndPush(n) ==
  /\ push[n].at = "taken"
  /\ push' = [push EXCEPT ![n] = [NoPush EXCEPT !.next = NextIndex(push[n])]]
  /\ sent' = [sent EXCEPT ![n] = @ \cup Range(push[n].batch)]
  /\ UNCHANGED <<made, chain, session, crashes, losses>>

Push(n) == SendPush(n) \/ (\E p \in Nodes : TakePush(n, p)) \/ EndPush(n)

\* A push that fails leaves the index where it was.
Failed(p) == [NoPush EXCEPT !.next = p.next]

LosePush(n) ==
  /\ losses < MaxLosses /\ push[n].at \in {"sent", "taken"}
  /\ push' = [push EXCEPT ![n] = Failed(@)]
  /\ losses' = losses + 1
  /\ UNCHANGED <<made, chain, session, sent, crashes>>

\* A node restarts without what had not reached its chain file.
Crash(n) ==
  /\ n \in MayCrash /\ crashes < MaxCrashes
  /\ \E k \in 0 .. Len(chain[n]) :
        chain' = [chain EXCEPT ![n] = SubSeq(@, 1, k)]
  /\ session' = [m \in Nodes |-> [t \in Threads |->
                   IF m = n \/ (session[m][t].at = "asked" /\ session[m][t].peer = n)
                   THEN Idle ELSE session[m][t]]]
  /\ push' = [m \in Nodes |->
                IF m = n THEN NoPush
                ELSE IF push[m].at = "sent" /\ n \in PushPeers[m]
                     THEN Failed(push[m])
                     ELSE push[m]]
  /\ sent' = [sent EXCEPT ![n] = {}]
  /\ crashes' = crashes + 1
  /\ UNCHANGED <<made, losses>>

------------------------------------------------------------------------------
Init ==
  /\ \E k \in 0 .. SoloLength :
        /\ made = [e \in 1 .. (IF Solo = {} THEN 0 ELSE k) |->
                     [prev |-> e - 1, kind |-> "plain"]]
        /\ chain = [n \in Nodes |-> [e \in 1 .. (IF n \in Solo THEN k ELSE 0) |-> e]]
  /\ session = [n \in Nodes |-> [t \in Threads |-> Idle]]
  /\ push = [n \in Nodes |-> NoPush]
  /\ sent = [n \in Nodes |-> {}]
  /\ crashes = 0 /\ losses = 0

Next ==
  \E n \in Nodes :
    \/ \E kind \in Kinds : Make(n, kind)
    \/ \E t \in Threads : LoseSync(n, t) \/ \E p \in Nodes : Sync(n, t, p)
    \/ Push(n) \/ LosePush(n)
    \/ Crash(n)

Spec == Init /\ [][Next]_vars

\* The worker threads run for ever, and a peer that is up answers.
FairSpec ==
  /\ Spec
  /\ \A n \in Nodes : PushPeers[n] # {} => WF_vars(Push(n))
  /\ \A n \in Nodes, t \in Threads : \A p \in Peers[n] : WF_vars(Sync(n, t, p))

------------------------------------------------------------------------------
(* Properties *)

\* Every variable stays in its range, and no push index passes the events made.
TypeOK ==
  /\ \A e \in DOMAIN made : made[e].prev \in 0 .. e - 1 /\ made[e].kind \in KindsOfEvent
  /\ Len(made) <= MaxEvents
  /\ chain \in [Nodes -> Seq(DOMAIN made)]
  /\ \A n \in Nodes : \A t \in Threads :
        /\ session[n][t].at \in {"idle", "asked", "answered", "small", "again"}
        /\ session[n][t].at # "idle" =>
              /\ session[n][t].peer \in Peers[n] /\ session[n][t].rounds \in 0 .. MaxRounds - 1
        /\ session[n][t].at = "answered" => Len(session[n][t].page) <= PageLimit
  /\ \A n \in Nodes : /\ push[n].at \in {"idle", "sent", "taken"}
                       /\ push[n].next \in 0 .. Len(made)
                       /\ Len(push[n].batch) <= BatchSize
  /\ sent \in [Nodes -> SUBSET DOMAIN made]
  /\ crashes \in 0 .. MaxCrashes /\ losses \in 0 .. MaxLosses

\* With one author, whatever is lost, repeated or answered late, and whichever
\* follower crashes, what a follower holds is a prefix of the author's chain.
Replicas == Nodes \ {Seed}
Followed == INSTANCE Replication WITH source <- chain[Seed],
                                      replica <- [n \in Replicas |-> chain[n]]
ImplementsReplication == Followed!Spec

\* In the end every follower has the whole chain (_sync_from_peer: "Sync the local
\* Infonet chain against peer_url").
Converges == <>[](\A n \in Nodes : chain[n] = chain[Seed])

\* A small chain that has forked from the author's does not stay so
\* (_sync_from_peer: "Auto-recover small local forks ... instead of failing
\* forever").
Forks(n) == ~IsPrefix(chain[n], chain[Seed]) /\ ~IsPrefix(chain[Seed], chain[n])
ForksHeal == \A n \in Nodes : Forks(n) /\ Len(chain[n]) < ResetBelow ~> ~Forks(n)

\* Two syncs that race may empty a chain that has grown past the limit between the
\* test of its length and the reset, but then it holds nothing that cannot be fetched
\* again from the author: a long chain of a node's own is never given up
\* (_sync_from_peer, local_count < 20).
LongChainRecoverable ==
  [][ crashes' = crashes =>
        \A n \in Nodes : Len(chain[n]) >= ResetBelow /\ ~IsPrefix(chain[n], chain'[n])
                          => Range(chain[n]) \subseteq Range(chain[Seed]) ]_vars

\* A push index at the end of the chain means that all of it has been pushed
\* (_http_peer_push_loop: "if last_idx >= total: continue  # nothing new").
NothingNew ==
  \A n \in Nodes : PushPeers[n] # {} /\ push[n].next >= Len(chain[n])
                     => Range(chain[n]) \subseteq sent[n]

\* A sync decides to reset a chain only for a peer whose chain is longer
\* (_sync_from_peer: "if the local chain is tiny (< 20 events) and the remote has a
\* longer chain, reset local state").
ResetOnlyForLonger ==
  [][ \A n \in Nodes : \A t \in Threads :
        session[n][t].at = "answered" /\ session'[n][t].at = "small"
          => Len(chain[session[n][t].peer]) > Len(chain[n]) ]_vars

\* No sync, fork or push takes an event from a chain that is no longer small
\* (_sync_from_peer: "if the local chain is tiny (< 20 events)").
LongChainKept ==
  [][ crashes' = crashes =>
        \A n \in Nodes : Len(chain[n]) >= ResetBelow => IsPrefix(chain[n], chain'[n]) ]_vars

==============================================================================
