--------------------------- MODULE MCInfonetStore ---------------------------
(* Instances of InfonetStore for TLC. *)
EXTENDS InfonetStore

==============================================================================
