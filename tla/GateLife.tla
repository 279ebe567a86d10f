----------------------------- MODULE GateLife -----------------------------
(***************************************************************************)
(* What the ledger's events say of one gate (services/infonet/gates): its  *)
(* members, whether its rules are locked, whether it is suspended, and     *)
(* where the petitions to shut it down and the appeals against them stand. *)
(* All of it is computed anew from the events, in the order of their       *)
(* times, which is the order of the chain here: its time only goes on.     *)
(*                                                                         *)
(* Whoever appends an event has validated it against the chain it has      *)
(* seen; the latest event may not have reached it yet.  Such an event is   *)
(* called late.  Votes on petitions are tallied elsewhere.                 *)
(***************************************************************************)
EXTENDS Integers, Sequences, SequencesExt, FiniteSets, FiniteSetsExt, TLC

CONSTANTS
  Members,            \* the nodes that may enter
  MaxPetitions,       \* how many shutdown petitions may be filed (bound)
  LockMin,            \* gate_lock_min_members
  SuspendDays,        \* gate_suspend_duration_days
  DelayDays,          \* gate_shutdown_execution_delay_days
  AppealDays,         \* gate_shutdown_appeal_window_hours
  MaxTime, MaxLength, MaxSocial, MaxLate   \* bounds

VARIABLES
  chain,   \* the events of the gate; gate_create comes before them
  now,     \* chain_majority_time
  late     \* how many events were late

gateVars == <<chain, now, late>>

None == -1

\* The events of a day follow one another by seconds.
Day == MaxLength + 1
Clock == now * Day + Len(chain)

\* events_for_gate: where the events of a kind stand.
At(v, type) == {i \in DOMAIN v : v[i].type = type}
LastTime(v, type) == IF At(v, type) = {} THEN None ELSE v[Max(At(v, type))].ts

------------------------------------------------------------------------------
(* sacrifice.py, locking.py *)

IsShutDown(v) == At(v, "execute") # {}

\* compute_member_set: a shutdown empties the gate, and nobody enters after it.
Admits(v, i) == v[i].type = "enter" /\ \A j \in At(v, "execute") : j > i
MemberSet(v) ==
  LET members[i \in 0..Len(v)] ==
        IF i = 0 \/ i \in At(v, "execute") THEN {}
        ELSE IF i \in At(v, "exit") THEN members[i - 1] \ {v[i].node}
        ELSE IF Admits(v, i) THEN members[i - 1] \union {v[i].node}
        ELSE members[i - 1]
  IN members[Len(v)]

\* _collect_lock_contributions: who is a member now and has paid at any time.
LockedBy(v) == {v[i].node : i \in At(v, "lock")} \intersect MemberSet(v)
IsLocked(v) == Cardinality(LockedBy(v)) >= LockMin

------------------------------------------------------------------------------
(* suspend.py *)

\* compute_suspension_state
Suspension(v, t) ==
  LET at == LastTime(v, "suspend") IN
  IF IsShutDown(v) THEN "shutdown"
  ELSE IF at = None \/ LastTime(v, "unsuspend") > at \/ t >= at + SuspendDays * Day
    THEN "active" ELSE "suspended"

------------------------------------------------------------------------------
(* shutdown.py, appeal.py *)

\* compute_shutdown_state: what an event makes of its petition.
Step(e, petition) ==
  CASE e.type = "vote" /\ e.vote = "passed" ->
         [status |-> "executing", at |-> e.ts + DelayDays * Day]
    [] e.type = "vote" /\ e.vote = "failed" -> [petition EXCEPT !.status = "failed"]
    [] e.type = "appeal" -> [status |-> "appealed", at |-> None]
    [] e.type = "resolve" /\ e.outcome = "voided" -> [petition EXCEPT !.status = "voided_appeal"]
    [] e.type = "resolve" /\ e.outcome = "resumed" -> [status |-> "executing", at |-> e.at]
    [] e.type = "execute" -> [petition EXCEPT !.status = "executed"]
    [] OTHER -> petition

Filed(v) == {v[i].id : i \in At(v, "file")}
Concerns(e, id) == e.type \in {"file", "vote", "appeal", "resolve", "execute"} /\ e.id = id
Petition(v, id) ==
  LET petition[i \in 0..Len(v)] ==
        IF i = 0 THEN [status |-> "filed", at |-> None]
        ELSE IF Concerns(v[i], id) THEN Step(v[i], petition[i - 1]) ELSE petition[i - 1]
  IN petition[Len(v)]

PendingStatus == {"filed", "executing", "appealed"}
Pending(v) == {id \in Filed(v) : Petition(v, id).status \in PendingStatus}

\* The first petition that is pending, in the order of filing.
PendingFirst(v) == v[Min({i \in At(v, "file") : v[i].id \in Pending(v)})].id

\* validate_shutdown_filing
MayFile(v, t) == Suspension(v, t) = "suspended" /\ Pending(v) = {}

PassedVotes(v, id) == {i \in At(v, "vote") : v[i].id = id /\ v[i].vote = "passed"}
PassedAt(v, id) == v[Min(PassedVotes(v, id))].ts
Appeals(v, id) == {i \in At(v, "appeal") : v[i].id = id}

MayAppealAnytime(v, t, id) ==
  /\ id \in Filed(v) /\ Appeals(v, id) = {}
  /\ Pending(v) # {} /\ Petition(v, PendingFirst(v)).status = "executing"
  /\ PassedVotes(v, id) # {}

\* validate_appeal_filing looks at the status of the first pending petition.
MayAppeal(v, t, id) ==
  /\ id \in Filed(v) /\ Appeals(v, id) = {}
  /\ Pending(v) # {} /\ Petition(v, PendingFirst(v)).status = "executing"
  /\ PassedVotes(v, id) # {} /\ t <= PassedAt(v, id) + AppealDays * Day

RemainingAlways(v, id, appealedAt) ==
  Max({0, PassedAt(v, id) + DelayDays * Day - Clock})

\* paused_execution_remaining_sec
Remaining(v, id, appealedAt) ==
  Max({0, PassedAt(v, id) + DelayDays * Day - appealedAt})

------------------------------------------------------------------------------
(* the chain grows *)

Views ==
  {chain} \union (IF late < MaxLate /\ chain # <<>> THEN {Front(chain)} ELSE {})
Write(v, event) ==
  /\ Len(chain) < MaxLength
  /\ chain' = Append(chain, event)
  /\ late' = (IF v = chain THEN late ELSE late + 1)
  /\ UNCHANGED now

Social == {"enter", "exit", "lock"}
SocialRoom == Len(SelectSeq(chain, LAMBDA e : e.type \in Social)) < MaxSocial

\* can_enter: the reputation is there; a gate that is shut down does not refuse.
Enter(v, n) ==
  /\ SocialRoom /\ n \notin MemberSet(v) /\ Write(v, [type |-> "enter", ts |-> Clock, node |-> n])
Exit(v, n) ==
  /\ SocialRoom /\ n \in MemberSet(v) /\ Write(v, [type |-> "exit", ts |-> Clock, node |-> n])
\* validate_lock_request
Lock(v, n) ==
  /\ SocialRoom /\ n \in MemberSet(v) \ LockedBy(v)
  /\ Write(v, [type |-> "lock", ts |-> Clock, node |-> n])

\* gate_suspend_execute: several filings may be pending from a time when the gate
\* was active (validate_suspend_filing), and nothing validates their execution.
Suspend(v) == Write(v, [type |-> "suspend", ts |-> Clock])
\* Nothing validates a gate_unsuspend.
Unsuspend(v) == Suspension(v, Clock) = "suspended" /\ Write(v, [type |-> "unsuspend", ts |-> Clock])

\* Petitions are numbered as they are filed.
File(v, id) ==
  /\ id = Cardinality(Filed(chain)) + 1 /\ MayFile(v, Clock)
  /\ Write(v, [type |-> "file", ts |-> Clock, id |-> id])
Tally(v, id, vote) ==
  /\ id \in Filed(v) /\ Petition(v, id).status = "filed"
  /\ Write(v, [type |-> "vote", ts |-> Clock, id |-> id, vote |-> vote])
Appeal(v, id) == MayAppeal(v, Clock, id) /\ Write(v, [type |-> "appeal", ts |-> Clock, id |-> id])
ResolveAppeal(v, id, outcome) ==
  /\ id \in Filed(v) /\ Petition(v, id).status = "appealed"
  /\ Write(v, [type |-> "resolve", ts |-> Clock, id |-> id, outcome |-> outcome,
               at |-> Clock + Remaining(v, id, v[Max(Appeals(v, id))].ts)])
Execute(v, id) ==
  /\ id \in Filed(v) /\ Petition(v, id).status = "executing" /\ Clock >= Petition(v, id).at
  /\ Write(v, [type |-> "execute", ts |-> Clock, id |-> id])

DayPasses == now < MaxTime /\ now' = now + 1 /\ UNCHANGED <<chain, late>>

GateInit == chain = <<>> /\ now = 0 /\ late = 0
GateNext ==
  \/ \E v \in Views :
       \/ \E n \in Members : Enter(v, n) \/ Exit(v, n) \/ Lock(v, n)
       \/ Suspend(v) \/ Unsuspend(v)
       \/ \E id \in 1..MaxPetitions :
            \/ File(v, id) \/ Appeal(v, id) \/ Execute(v, id)
            \/ \E vote \in {"passed", "failed"} : Tally(v, id, vote)
            \/ \E outcome \in {"voided", "resumed"} : ResolveAppeal(v, id, outcome)
  \/ DayPasses
GateSpec == GateInit /\ [][GateNext]_gateVars

------------------------------------------------------------------------------
GateTypeOK ==
  /\ now \in 0..MaxTime /\ late \in 0..MaxLate /\ Len(chain) <= MaxLength
  /\ \A i \in DOMAIN chain :
       chain[i].type \in Social \union {"suspend", "unsuspend", "file", "vote",
                                        "appeal", "resolve", "execute"}
  /\ \A i, j \in DOMAIN chain : i < j => chain[i].ts < chain[j].ts
  /\ MemberSet(chain) \subseteq Members
  /\ Suspension(chain, Clock) \in {"active", "suspended", "shutdown"}

\* A gate that is shut down is left by everybody and stays so, whatever is
\* still on its way.
ShutStays ==
  [][IsShutDown(chain) => IsShutDown(chain') /\ MemberSet(chain') = {}]_gateVars

\* "a gate cannot be shut down without first surviving a suspension period":
\* when the petition that shuts a gate was filed, a suspension had not run out, and
\* nothing had lifted it, but for an event that the filing may have crossed.
ShutWasSuspended ==
  \A i \in At(chain, "execute") :
    \E j \in At(chain, "file"), k \in At(chain, "suspend") :
      /\ chain[j].id = chain[i].id /\ k < j /\ j < i
      /\ chain[j].ts < chain[k].ts + SuspendDays * Day
      /\ \A u \in At(chain, "unsuspend") : k < u /\ u < j => late > 0 /\ u = j - 1

\* The delay of a petition is over at t, as far as v shows: all of it since the first
\* vote that passed, and the time from the last appeal to any resolution that let it
\* go on is not counted.
Resumed(v, id) == {i \in At(v, "resolve") : v[i].id = id /\ v[i].outcome = "resumed"}
Waited(v, id, t) ==
  /\ PassedVotes(v, id) # {} /\ t - PassedAt(v, id) >= DelayDays * Day
  /\ Appeals(v, id) # {} =>
       /\ Resumed(v, id) # {}
       /\ \A i \in Resumed(v, id) :
            t - PassedAt(v, id) >= DelayDays * Day + (v[i].ts - v[Max(Appeals(v, id))].ts)

\* However many events are late: an execution comes after the whole delay by what
\* was on the chain before it; if events were late, all but the last of it, perhaps.
FullDelay ==
  \A i \in At(chain, "execute") : \E missed \in (IF late = 0 THEN {0} ELSE {0, 1}) :
    Waited(SubSeq(chain, 1, i - 1 - missed), chain[i].id, chain[i].ts)

\* The two views of a shutdown agree: a gate with an executed petition is shut,
\* however many events were late; with at most one, and when appeals end before the
\* delay does, a gate that is shut has one; with none, it has no petition pending.
ViewsAgree ==
  LET executed == {id \in Filed(chain) : Petition(chain, id).status = "executed"} IN
  /\ executed # {} => IsShutDown(chain)
  /\ IsShutDown(chain) /\ (late = 0 \/ (late = 1 /\ AppealDays <= DelayDays)) => executed # {}
  /\ IsShutDown(chain) /\ late = 0 => Pending(chain) = {}

\* An executed petition stays executed when one event crosses the execution: the
\* time for appeals is over before.
ExecutedForGood ==
  [][late' <= 1 => \A id \in Filed(chain) : Petition(chain, id).status = "executed"
       => Petition(chain', id).status = "executed"]_gateVars

\* However many events are late: what an event has executed, voided, or failed with
\* no vote to the contrary, stays so once another event has followed.
Settled(v, id) ==
  \/ Petition(v, id).status \in {"executed", "voided_appeal"}
  \/ Petition(v, id).status = "failed" /\ PassedVotes(v, id) = {}
SettledForGood ==
  [][\A id \in Filed(chain) :
       Settled(chain, id) /\ Petition(Front(chain), id).status = Petition(chain, id).status
         => Petition(chain', id).status = Petition(chain, id).status]_gateVars

\* A shutdown comes to its end as the rules of shutdown.py say.
ShutdownIsDue == ShutWasSuspended /\ FullDelay /\ ViewsAgree

\* ... and the end is the end, of the gate and of the petition.
ShutForGood == ShutStays /\ ExecutedForGood /\ SettledForGood

\* shutdown.py: a petition that has failed is not pending any more.
FailedStays ==
  [][\A id \in Filed(chain) : Petition(chain, id).status = "failed"
       => Petition(chain', id).status = "failed"]_gateVars

\* locking.py: "Once locked, the gate's rules become immutable".
LockedStays == [][IsLocked(chain) => IsLocked(chain')]_gateVars

\* sacrifice.py: "the entry is accepted, entry_sacrifice is burned [...], and the
\* node is recorded as a member".
EntryIsRecorded ==
  [][\A n \in Members : chain' # chain /\ Last(chain').type = "enter" /\ Last(chain').node = n
       => n \in MemberSet(chain')]_gateVars
=============================================================================
