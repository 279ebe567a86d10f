---------------------------- MODULE Replication ----------------------------
(***************************************************************************)
(* What sync promises nodes that follow one author: whatever a replica     *)
(* holds is a prefix of the source.  Copies extend a replica; a restart or *)
(* a reset may cost a replica its end.                                     *)
(***************************************************************************)
EXTENDS Sequences, SequencesExt

CONSTANT Replicas

VARIABLES source, replica

Init == source = <<>> /\ replica = [r \in Replicas |-> <<>>]

Write == /\ Len(source') = Len(source) + 1 /\ IsPrefix(source, source')
         /\ UNCHANGED replica

Copy(r) == /\ IsPrefix(replica[r], replica'[r]) /\ IsPrefix(replica'[r], source)
           /\ replica' = [replica EXCEPT ![r] = replica'[r]]
           /\ UNCHANGED source

Forget(r) == /\ IsPrefix(replica'[r], replica[r])
             /\ replica' = [replica EXCEPT ![r] = replica'[r]]
             /\ UNCHANGED source

Next == Write \/ \E r \in Replicas : Copy(r) \/ Forget(r)

Spec == Init /\ [][Next]_<<source, replica>>

==============================================================================
