----------------------------- MODULE InfonetStore -----------------------------
(***************************************************************************)
(* How the Infonet ledger reaches the disk: the write-ahead log, the       *)
(* coalesced flush, the archive of cold segments, crash, clean exit and    *)
(* boot, class Infonet of backend/services/mesh/mesh_hashchain.py.         *)
(*                                                                         *)
(* Four threads share the ledger without a lock.  "api" is the event loop, *)
(* where append runs; "sync" is the sync worker, which ingests and resets; *)
(* "timer" is the threading.Timer that _save starts; "main" loads at boot  *)
(* and flushes at exit.  A step ends where another thread can run: at file *)
(* input and output, which release the interpreter lock, and between the   *)
(* reads and writes of shared fields.  Encoding a snapshot holds the lock. *)
(* Three pairs stay one step each, the second of a pair being the first    *)
(* that another thread sees: an append and the test of the length after    *)
(* it, the cut of the hot window and its dirty mark, and the test of dirty *)
(* and the copy of the list of segments.                                   *)
(*                                                                         *)
(* Every file write is atomic (temp file, fsync, os.replace).  Write       *)
(* errors are left out.  Event e links to prev[e]; its other contents, and *)
(* so the refusals of ingest other than a wrong link and age, are left     *)
(* out: they are the subject of Infonet.                                   *)
(***************************************************************************)
EXTENDS Integers, Sequences, FiniteSets, SequencesExt

CONSTANTS
  Writers,         \* the threads that write events: "api", "sync" or both
  MaxChainMemory,  \* MAX_CHAIN_MEMORY
  ResetBelow,      \* the sync worker resets chains shorter than this
  MayBeLate,       \* a boot may come after MESH_INGEST_EVENT_MAX_AGE_S
  MaxEvents,       \* bound: events written in a behaviour
  MaxCrashes,      \* bound
  MaxExits         \* bound: clean exits

ASSUME WritersAssumption == Writers \subseteq {"api", "sync"}
ASSUME StoreAssumption ==
  /\ MaxChainMemory \in Nat \ {0} /\ ResetBelow \in Nat
  /\ MayBeLate \in BOOLEAN
  /\ MaxEvents \in Nat /\ MaxCrashes \in Nat /\ MaxExits \in Nat

VARIABLES
  prev,      \* the event each event links to, in the order they were created
  events,    \* self.events; while the process is down, what it was
  segments,  \* self._cold_segments: the numbers of the files listed
  dirty,     \* self._dirty
  timer,     \* self._save_timer: "none" (or dead), "waiting", "flushing"
  writer,    \* where each writer is, its event, and what it is archiving
  flush,     \* where each thread is in _flush, and what it has read
  chainfile, \* CHAIN_FILE
  archive,   \* the files of CHAIN_COLD_DIR by number
  wal,       \* WAL_FILE: the event it holds, or Genesis if there is none
  phase,     \* "down", "loaded", "replaying", "up" or "exiting"
  crashes,   \* so far
  exits,     \* so far
  acked      \* events whose append has returned to its caller

disk == <<chainfile, archive, wal>>
process == <<phase, crashes, exits>>
vars == <<prev, events, segments, dirty, timer, writer, flush, disk, process, acked>>

Genesis == 0
Ids == 1 .. MaxEvents
Flushers == {"timer", "main", "sync"}

LastOf(chain) == IF chain = <<>> THEN Genesis ELSE Last(chain)

Resting == [at |-> "idle", event |-> Genesis, cold |-> <<>>, file |-> 0]
NotFlushing == [at |-> "idle", segments |-> <<>>, events |-> <<>>]

Running == phase \in {"up", "exiting"}

\* Every writer is between two operations.
Quiet == \A w \in Writers : writer[w].at = "idle"

------------------------------------------------------------------------------
(* Writing an event: append and ingest_events *)

\* The thread reads head_hash, and makes an event on it or finds one in the
\* batch it ingests.
Begin(w) ==
  /\ phase = "up" /\ writer[w].at = "idle" /\ Len(prev) < MaxEvents
  /\ prev' = Append(prev, LastOf(events))
  /\ writer' = [writer EXCEPT ![w] = [at |-> IF w = "api" THEN "made" ELSE "logged",
                                      event |-> Len(prev) + 1, cold |-> <<>>, file |-> 0]]
  /\ UNCHANGED <<events, segments, dirty, timer, flush, disk, process, acked>>

\* _write_wal, which appends call and ingests do not.
WriteWal(w) ==
  /\ Running /\ writer[w].at = "made"
  /\ wal' = writer[w].event
  /\ writer' = [writer EXCEPT ![w].at = "logged"]
  /\ UNCHANGED <<prev, events, segments, dirty, timer, flush, chainfile, archive,
                 process, acked>>

Overflow(chain) ==
  IF Len(chain) > MaxChainMemory THEN Len(chain) - MaxChainMemory ELSE 0
Cold(chain) == SubSeq(chain, 1, Overflow(chain))
Without(chain, n) == SubSeq(chain, n + 1, Len(chain))
Hot(chain) == Without(chain, Overflow(chain))

\* The event joins the chain, and _save finds it within the memory cap or not.
Extend(w) ==
  /\ Running /\ writer[w].at = "logged"
  /\ events' = Append(events, writer[w].event)
  /\ writer' = [writer EXCEPT ![w] = [at |-> IF Overflow(events') = 0 THEN "save" ELSE "spill",
                                      event |-> @.event, cold |-> Cold(events'), file |-> 0]]
  /\ UNCHANGED <<prev, segments, dirty, timer, flush, disk, process, acked>>

\* _enforce_memory_cap: the overflow goes to a file numbered by the length of the
\* list, the file is listed, and as much is cut from what is then the hot window.
NextFile(list) == Len(list) + 1
Filed(files, k, cold) ==
  [j \in DOMAIN files \cup {k} |-> IF j = k THEN cold ELSE files[j]]

\* The error of a write that failed goes no further.
WriteColdSwallowed(w) ==
  /\ Running /\ writer[w].at = "spill"
  /\ writer' = [writer EXCEPT ![w] = [at |-> "list", event |-> @.event, cold |-> @.cold,
                                      file |-> NextFile(segments)]]
  /\ UNCHANGED <<prev, events, segments, dirty, timer, flush, disk, process, acked>>

WriteCold(w) ==
  /\ Running /\ writer[w].at = "spill"
  /\ archive' = Filed(archive, NextFile(segments), writer[w].cold)
  /\ writer' = [writer EXCEPT ![w] = [at |-> "list", event |-> @.event, cold |-> @.cold,
                                      file |-> NextFile(segments)]]
  /\ UNCHANGED <<prev, events, segments, dirty, timer, flush, chainfile, wal,
                 process, acked>>

ListCold(w) ==
  /\ Running /\ writer[w].at = "list"
  /\ segments' = Append(segments, writer[w].file)
  /\ writer' = [writer EXCEPT ![w].at = "cut"]
  /\ UNCHANGED <<prev, events, dirty, timer, flush, disk, process, acked>>

CutHot(w) ==
  /\ Running /\ writer[w].at = "cut"
  /\ events' = Without(events, Len(writer[w].cold))
  /\ dirty' = TRUE
  /\ writer' = [writer EXCEPT ![w].at = "save"]
  /\ UNCHANGED <<prev, segments, timer, flush, disk, process, acked>>

\* The rest of _save: the chain is marked dirty, then a timer is started unless one
\* is still alive.  A flush may take the mark away in between.
Unmarked == dirty
Marked == TRUE
TimerStarted == IF timer = "none" THEN "waiting" ELSE timer

SetDirty(w) ==
  /\ Running /\ writer[w].at = "save"
  /\ dirty' = Marked
  /\ writer' = [writer EXCEPT ![w].at = "marked"]
  /\ UNCHANGED <<prev, events, segments, timer, flush, disk, process, acked>>

StartTimer(w) ==
  /\ Running /\ writer[w].at = "marked"
  /\ timer' = TimerStarted
  /\ writer' = [writer EXCEPT ![w] = Resting]
  /\ acked' = acked \cup {writer[w].event}
  /\ UNCHANGED <<prev, events, segments, dirty, flush, disk, process>>

\* The sync worker, told of a fork, finds the chain short,
LookSmall ==
  /\ "sync" \in Writers
  /\ phase = "up" /\ writer["sync"].at = "idle"
  /\ events # <<>> /\ Len(events) < ResetBelow
  /\ writer' = [writer EXCEPT !["sync"].at = "small"]
  /\ UNCHANGED <<prev, events, segments, dirty, timer, flush, disk, process, acked>>

\* and reset_chain empties it, however long it has become, and flushes on its own
\* thread.
Reset ==
  /\ "sync" \in Writers
  /\ phase = "up" /\ writer["sync"].at = "small"
  /\ events' = <<>>
  /\ dirty' = TRUE
  /\ writer' = [writer EXCEPT !["sync"].at = "resetting"]
  /\ flush' = [flush EXCEPT !["sync"].at = "begun"]
  /\ UNCHANGED <<prev, segments, timer, disk, process, acked>>

Write(w) ==
  \/ Begin(w) \/ WriteWal(w) \/ Extend(w)
  \/ WriteCold(w) \/ ListCold(w) \/ CutHot(w)
  \/ SetDirty(w) \/ StartTimer(w)

------------------------------------------------------------------------------
(* _flush *)

\* The five seconds of the timer are over: longer than a boot takes from the
\* save of a replay to the test of dirty.
TimerFires ==
  /\ phase # "down" /\ timer = "waiting"
  /\ ~(phase = "replaying" /\ flush["main"].at = "begun")
  /\ timer' = "flushing"
  /\ flush' = [flush EXCEPT !["timer"].at = "begun"]
  /\ UNCHANGED <<prev, events, segments, dirty, writer, disk, process, acked>>

\* _flush returns to its caller; for the timer that is the end of a thread,
\* which _save finds alive until it is over.
Returns(t) ==
  /\ flush' = [flush EXCEPT ![t] =
                 IF t = "timer" THEN [@ EXCEPT !.at = "returned"] ELSE NotFlushing]
  /\ writer' = IF t = "sync" THEN [writer EXCEPT !["sync"] = Resting] ELSE writer
  /\ UNCHANGED timer

AfterTimer == "none"

TimerEnds(t) ==
  /\ flush[t].at = "returned"
  /\ flush' = [flush EXCEPT ![t] = NotFlushing]
  /\ timer' = AfterTimer
  /\ UNCHANGED <<prev, events, segments, dirty, writer, disk, process, acked>>

NothingToFlush(t) ==
  /\ flush[t].at = "begun" /\ ~dirty
  /\ Returns(t)
  /\ UNCHANGED <<prev, events, segments, dirty, disk, process, acked>>

\* The list of segments is copied, then the events are read and encoded.
ReadSegments(t) ==
  /\ flush[t].at = "begun" /\ dirty
  /\ flush' = [flush EXCEPT ![t] = [at |-> "listed", segments |-> segments,
                                    events |-> <<>>]]
  /\ UNCHANGED <<prev, events, segments, dirty, timer, writer, disk, process, acked>>

ReadEvents(t) ==
  /\ flush[t].at = "listed"
  /\ flush' = [flush EXCEPT ![t] = [at |-> "encoded", segments |-> @.segments,
                                    events |-> events]]
  /\ UNCHANGED <<prev, events, segments, dirty, timer, writer, disk, process, acked>>

ReplaceFile(t) ==
  /\ flush[t].at = "encoded"
  /\ chainfile' = [segments |-> flush[t].segments, events |-> flush[t].events]
  /\ flush' = [flush EXCEPT ![t].at = "written"]
  /\ UNCHANGED <<prev, events, segments, dirty, timer, writer, archive, wal, process,
                 acked>>

Clean(t) ==
  /\ flush[t].at = "written"
  /\ dirty' = FALSE
  /\ flush' = [flush EXCEPT ![t].at = "cleaned"]
  /\ UNCHANGED <<prev, events, segments, timer, writer, disk, process, acked>>

WalKept == wal
WalCleared == Genesis

ClearWal(t) ==
  /\ flush[t].at = "cleaned"
  /\ wal' = WalCleared
  /\ Returns(t)
  /\ UNCHANGED <<prev, events, segments, dirty, chainfile, archive, process, acked>>

FlushStep(t) ==
  \/ NothingToFlush(t) \/ ReadSegments(t) \/ ReadEvents(t)
  \/ ReplaceFile(t) \/ Clean(t) \/ ClearWal(t)
  \/ TimerEnds(t)

------------------------------------------------------------------------------
(* Stopping and starting *)

\* _replay_wal: an event already on the chain or linked elsewhere is dropped.
ReplayableUnlinked(e) == e # Genesis /\ e \notin Range(events)
Replayable(e) ==
  e # Genesis /\ e \notin Range(events) /\ prev[e] = LastOf(events)

\* The chain as it will be once the write-ahead log has been replayed.
Known == IF phase = "loaded" /\ Replayable(wal) THEN Append(events, wal) ELSE events

\* The process stops; `events` goes on saying what the ledger was.
Halt ==
  /\ phase' = "down"
  /\ dirty' = FALSE
  /\ timer' = "none"
  /\ writer' = [w \in Writers |-> Resting]
  /\ flush' = [t \in Flushers |-> NotFlushing]
  /\ events' = Known
  /\ UNCHANGED <<prev, segments, disk, acked>>

Crash ==
  /\ phase # "down" /\ crashes < MaxCrashes
  /\ crashes' = crashes + 1
  /\ UNCHANGED exits
  /\ Halt

\* A clean exit: the operations under way are over and atexit calls _flush,
\* while the timer's thread may still be in one.
BeginExit ==
  /\ phase = "up" /\ exits < MaxExits /\ Quiet
  /\ phase' = "exiting"
  /\ exits' = exits + 1
  /\ flush' = [flush EXCEPT !["main"].at = "begun"]
  /\ UNCHANGED <<prev, events, segments, dirty, timer, writer, disk, crashes, acked>>

EndExit ==
  /\ phase = "exiting" /\ flush["main"].at = "idle"
  /\ UNCHANGED <<crashes, exits>>
  /\ Halt

\* _enforce_memory_cap on the only thread there is: what overflows the chain is
\* written to the next file of the list.
Spills(list, chain) ==
  IF Overflow(chain) = 0
  THEN segments' = list /\ UNCHANGED archive
  ELSE /\ segments' = Append(list, NextFile(list))
       /\ archive' = Filed(archive, NextFile(list), Cold(chain))

\* _load: the chain file is read, and a hot window beyond the cap is spilled and
\* flushed.
Boot ==
  /\ phase = "down"
  /\ phase' = "loaded"
  /\ events' = Hot(chainfile.events)
  /\ Spills(chainfile.segments, chainfile.events)
  /\ IF Overflow(chainfile.events) = 0
     THEN UNCHANGED <<dirty, flush>>
     ELSE /\ dirty' = TRUE
          /\ flush' = [flush EXCEPT !["main"].at = "begun"]
  /\ UNCHANGED <<prev, timer, writer, chainfile, wal, crashes, exits,
                 acked>>

\* _replay_wal drops an event that cannot follow the chain,
DropWal ==
  /\ phase = "loaded" /\ flush["main"].at = "idle"
  /\ ~Replayable(wal)
  /\ wal' = Genesis
  /\ phase' = "up"
  /\ UNCHANGED <<prev, events, segments, dirty, timer, writer, flush, chainfile,
                 archive, crashes, exits, acked>>

\* ingests one that does and flushes at once,
ReplayWal ==
  /\ phase = "loaded" /\ flush["main"].at = "idle"
  /\ Replayable(wal)
  /\ LET chain == Append(events, wal)
     IN /\ events' = Hot(chain)
        /\ Spills(segments, chain)
  /\ dirty' = TRUE
  /\ timer' = TimerStarted
  /\ flush' = [flush EXCEPT !["main"].at = "begun"]
  /\ phase' = "replaying"
  /\ UNCHANGED <<prev, writer, chainfile, wal, crashes, exits,
                 acked>>

EndReplay ==
  /\ phase = "replaying" /\ flush["main"].at = "idle"
  /\ phase' = "up"
  /\ UNCHANGED <<prev, events, segments, dirty, timer, writer, flush, disk, crashes,
                 exits, acked>>

\* and for one that ingest finds too old starts again from nothing: the file is
\* quarantined and _reset_to_genesis empties the chain in memory.
RejectWal ==
  /\ MayBeLate
  /\ phase = "loaded" /\ flush["main"].at = "idle"
  /\ Replayable(wal)
  /\ wal' = Genesis
  /\ events' = <<>>
  /\ phase' = "up"
  /\ UNCHANGED <<prev, segments, dirty, timer, writer, flush, chainfile, archive,
                 crashes, exits, acked>>

Start == Boot \/ DropWal \/ ReplayWal \/ EndReplay \/ RejectWal

------------------------------------------------------------------------------
Init ==
  /\ prev = <<>>
  /\ events = <<>> /\ segments = <<>>
  /\ dirty = FALSE /\ timer = "none"
  /\ writer = [w \in Writers |-> Resting]
  /\ flush = [t \in Flushers |-> NotFlushing]
  /\ chainfile = [segments |-> <<>>, events |-> <<>>]
  /\ archive = <<>>
  /\ wal = Genesis
  /\ phase = "up" /\ crashes = 0 /\ exits = 0
  /\ acked = {}

Next ==
  \/ \E w \in Writers : Write(w)
  \/ LookSmall \/ Reset
  \/ TimerFires
  \/ \E t \in Flushers : FlushStep(t)
  \/ Crash \/ BeginExit \/ EndExit
  \/ Start

Spec == Init /\ [][Next]_vars

\* The operating system runs every thread that can run, and restarts the
\* process: an operation that has begun ends, and a timer fires.
FairSpec ==
  /\ Spec
  /\ \A w \in Writers : WF_vars(Write(w) /\ writer[w].at # "idle")
  /\ WF_vars(Reset) /\ WF_vars(TimerFires)
  /\ \A t \in Flushers : WF_vars(FlushStep(t))
  /\ WF_vars(EndExit) /\ WF_vars(Start)

------------------------------------------------------------------------------
(* Properties *)

\* Every variable stays in its range, the timer is alive and past its delay exactly
\* while its thread is in _flush, and every file that the list, the chain file or a
\* flush under way names is on the disk.
Places == {"idle", "made", "logged", "spill", "list", "cut", "save", "marked",
           "small", "resetting"}
FlushPlaces == {"idle", "begun", "listed", "encoded", "written", "cleaned", "returned"}
WriterType(made) == [at : Places, event : 0 .. made, cold : Seq(1 .. made), file : Nat]
FlushType(files, made) == [at : FlushPlaces, segments : Seq(files), events : Seq(1 .. made)]
Made == 1 .. Len(prev)
OnDisk == Seq(DOMAIN archive)

TypeOK ==
  /\ prev \in Seq(0 .. MaxEvents) /\ Len(prev) <= MaxEvents
  /\ events \in Seq(Made) /\ segments \in OnDisk
  /\ dirty \in BOOLEAN /\ timer \in {"none", "waiting", "flushing"}
  /\ writer \in [Writers -> WriterType(Len(prev))]
  /\ \A w \in Writers : writer[w].at = "list" => writer[w].file \in DOMAIN archive
  /\ flush \in [Flushers -> FlushType(DOMAIN archive, Len(prev))]
  /\ chainfile \in [segments : OnDisk, events : Seq(Made)]
  /\ DOMAIN archive \subseteq Nat \ {0} /\ \A k \in DOMAIN archive : archive[k] \in Seq(Made)
  /\ wal \in 0 .. Len(prev)
  /\ phase \in {"down", "loaded", "replaying", "up", "exiting"}
  /\ crashes \in 0 .. MaxCrashes /\ exits \in 0 .. MaxExits
  /\ acked \subseteq Made
  /\ (timer = "flushing") = (flush["timer"].at # "idle")

\* With one writer the hot window and the chain file are a durable log: crashes,
\* boots and replays of the write-ahead log never lose what was flushed, invent
\* an event, repeat one or leave a gap (_flush, _replay_wal).
Durable == INSTANCE DurableLog WITH Entry <- Ids, log <- Known,
                                    stable <- chainfile.events
ImplementsDurableLog == Durable!Spec

\* The whole chain, archive included.
Full == FlattenSeq([k \in DOMAIN segments |-> archive[segments[k]]]) \o events

Linked(chain) ==
  /\ chain # <<>> => prev[chain[1]] = Genesis
  /\ \A i \in 1 .. Len(chain) - 1 : prev[chain[i + 1]] = chain[i]

\* Between two operations, the archive and the hot window make one unbroken
\* chain (_enforce_memory_cap: "History is archived on disk (not deleted)").
HistoryKept == phase = "up" /\ Quiet => Linked(Full)

\* Whatever point of a write, a flush or an earlier boot the process stopped at,
\* a boot leaves no write-ahead log behind (_replay_wal: "_flush() clears the WAL
\* as part of a successful write").
BootRetiresWal ==
  [][ (phase \in {"loaded", "replaying"}) /\ phase' = "up" => wal' = Genesis ]_vars

\* A save that begins while nothing is being flushed, and while no timer is under
\* way for a mark that a flush has taken away, gets its event into the chain file in
\* the end, unless the process stops (_save: "schedule a coalesced disk write").
TimerUnderWay == timer # "none" \/ \E w \in Writers : writer[w].at = "marked"
SavedIsWritten ==
  \A e \in Ids :
    (/\ \E w \in Writers : writer[w].at = "save" /\ writer[w].event = e
     /\ \A t \in Flushers : flush[t].at = "idle"
     /\ TimerUnderWay => dirty)
      ~> (e \in Range(chainfile.events) \/ phase = "down")

\* An event whose save ended with a timer that had yet to fire is in the chain file
\* in the end, unless the process stops.
TimedIsWritten ==
  \A e \in Ids :
    (e \in acked /\ e \in Range(events) /\ timer = "waiting")
      ~> (e \in Range(chainfile.events) \/ phase = "down")

\* The write-ahead log is retired only when its event has reached the chain file
\* or cannot follow it any more (_flush: "clears the WAL only after the chain
\* file has been durably written").
WalRetiredWhenDurable ==
  [][ wal # Genesis /\ wal' = Genesis /\ wal \in acked =>
        wal \in Range(chainfile'.events) ]_vars

\* A crash never costs an event whose append has returned (_flush: "A crash
\* before _flush() succeeds leaves the WAL in place so _replay_wal() can recover
\* on next boot").
AckedSurvives ==
  phase = "up" /\ Quiet => acked \subseteq Range(events)

\* What _save marked dirty is written in the end ("schedule a coalesced disk
\* write").
DirtyIsFlushed == dirty ~> ~dirty

\* After a clean exit the chain file holds every event.
CleanExitKeepsAll ==
  [][ phase = "exiting" /\ phase' = "down" /\ crashes' = crashes =>
        chainfile'.events = events ]_vars

\* A boot keeps every event of the chain file.
FlushedSurvives ==
  [][ phase = "loaded" /\ phase' = "up" => IsPrefix(chainfile.events, events') ]_vars

==============================================================================
