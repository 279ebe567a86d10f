--------------------------- MODULE MCSyncSchedule ---------------------------
(* Instances of SyncSchedule for TLC. *)
EXTENDS SyncSchedule

==============================================================================
