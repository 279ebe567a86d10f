------------------------------ MODULE MCInfonet ------------------------------
(* Instances of Infonet for TLC. *)
EXTENDS Infonet, TLC

NodeSymmetry == Permutations(Nodes)

==============================================================================
