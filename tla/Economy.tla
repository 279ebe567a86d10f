------------------------------ MODULE Economy ------------------------------
(***************************************************************************)
(* Three readers of one ledger (services/infonet), each looked at on its   *)
(* own: the life of a market with the reputation it mints, the resolution  *)
(* of a market, and the life of a gate.  They share the form: a chain that *)
(* anybody extends, its time, and a state computed from it whenever it is  *)
(* asked for.  The resolution comes with the module extended, the other    *)
(* two as instances.                                                       *)
(***************************************************************************)
EXTENDS MarketResolution

CONSTANTS
  \* MarketLife
  Bettors, DisputeIds, Picks, Trigger, EvidenceWindow, ResolutionWindow,
  MinParticipants, MinTotalStake, MarketTime, MaxBets, MarketLength,
  \* GateLife
  Members, MaxPetitions, LockMin, SuspendDays, DelayDays, AppealDays,
  GateTime, GateLength, MaxSocial,
  MaxLate

ASSUME MarketAssumption ==
  /\ IsFiniteSet(DisputeIds) /\ MarketLength \in Nat /\ EvidenceWindow \in Nat
  /\ Picks \subseteq [node : Bettors, side : Sides, paid : BOOLEAN]
ASSUME GateAssumption ==
  /\ GateLength \in Nat /\ GateTime \in Nat /\ MaxPetitions \in Nat
  /\ {SuspendDays, DelayDays, AppealDays} \subseteq Nat
ASSUME LateAssumption == MaxLate \in Nat /\ MarketTime \in Nat

VARIABLES
  subject,          \* which of the three is looked at
  chain, now, late

Market == INSTANCE MarketLife WITH MaxTime <- MarketTime, MaxLength <- MarketLength
Gate == INSTANCE GateLife WITH MaxTime <- GateTime, MaxLength <- GateLength

chainVars == <<chain, now, late>>
vars == <<subject, chainVars, resolutionVars>>

Init ==
  /\ subject \in {"market", "resolution", "gate"}
  /\ chain = <<>> /\ now = 0 /\ late = 0
  /\ ResolutionInit
  /\ subject # "resolution" => ~boot

Next ==
  \/ subject = "market" /\ Market!MarketNext /\ UNCHANGED <<subject, resolutionVars>>
  \/ subject = "resolution" /\ ResolutionNext /\ UNCHANGED <<subject, chainVars>>
  \/ subject = "gate" /\ Gate!GateNext /\ UNCHANGED <<subject, resolutionVars>>

Spec == Init /\ [][Next]_vars

------------------------------------------------------------------------------
\* Every part has its type.
TypeOK ==
  /\ subject = "market" => Market!MarketTypeOK
  /\ subject = "gate" => Gate!GateTypeOK
  /\ ResolutionTypeOK

(* The properties of the other two, by their names there; a chain without     *)
(* events of a part says nothing of it.                                       *)

\* lifecycle.py: a phase that was left does not come again, the end is the end.
StatusForward == Market!StatusForward
\* dispute.py, oracle_rep.py: after the end only reversals move what a market
\* brings, and they move it to the other side.
OnlyReversalsMove == Market!OnlyReversalsMove

\* suspend.py, shutdown.py, appeal.py: no shutdown without a suspension that lasts
\* and the whole delay, appeals not counted, and when the two readers agree on it.
ShutdownIsDue == Gate!ShutdownIsDue
\* sacrifice.py, shutdown.py: shut is shut, and empty; what is settled stays so.
ShutForGood == Gate!ShutForGood

(* What comments of the code promise and the events do not keep.              *)

\* oracle_rep.py: the reputation ever earned only grows.
LifetimeGrows == Market!LifetimeGrows
\* lifecycle.py: a later finalize does not replace the first, nor mint.
MintsAsFinal == Market!MintsAsFinal
\* shutdown.py: a petition that has failed is not pending any more.
FailedStays == Gate!FailedStays
\* locking.py: a locked gate stays locked.
LockedStays == Gate!LockedStays
\* sacrifice.py: who has paid for entry is a member.
EntryIsRecorded == Gate!EntryIsRecorded
=============================================================================
