-------------------------------- MODULE Ledger --------------------------------
(***************************************************************************)
(* What a node's ledger promises to those who read it: one log.  An entry  *)
(* is added at its head; a longer branch may replace its last entries, at  *)
(* most ChainLockDepth of them and never the first; and a log that is      *)
(* still short may be dropped to start again from another node's.          *)
(***************************************************************************)
EXTENDS Integers, Sequences

CONSTANTS Entries, ChainLockDepth, ResetBelow

VARIABLE log

\* No entry is in the log twice.
Once(l) == \A i, j \in DOMAIN l : l[i] = l[j] => i = j

Init == log = <<>>

Extend ==
  \E e \in Entries : log' = Append(log, e) /\ Once(log')

Reorganise ==
  /\ log' \in Seq(Entries) /\ Once(log')
  /\ Len(log') > Len(log)
  /\ \E at \in 1 .. Len(log) :
        /\ at >= Len(log) - ChainLockDepth
        /\ SubSeq(log', 1, at) = SubSeq(log, 1, at)

Reset == Len(log) < ResetBelow /\ log' = <<>>

Next == Extend \/ Reorganise \/ Reset

Spec == Init /\ [][Next]_log

==============================================================================
