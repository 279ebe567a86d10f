------------------------------ MODULE DurableLog ------------------------------
(***************************************************************************)
(* What the persistence of one writer's log promises: the log only grows,  *)
(* a prefix of it is stable and only grows too, and a crash may cost the   *)
(* log its end but nothing of the stable prefix.                           *)
(***************************************************************************)
EXTENDS Integers, Sequences, SequencesExt

CONSTANT Entry

VARIABLES log, stable

Init == log = <<>> /\ stable = <<>>

Write == \E e \in Entry \ Range(log) : log' = Append(log, e) /\ UNCHANGED stable

Sync == /\ IsPrefix(stable, stable') /\ IsPrefix(stable', log)
        /\ UNCHANGED log

Recover == /\ IsPrefix(stable, log') /\ IsPrefix(log', log)
           /\ UNCHANGED stable

Next == Write \/ Sync \/ Recover

Spec == Init /\ [][Next]_<<log, stable>>

==============================================================================
