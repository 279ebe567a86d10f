---------------------------- MODULE MCInfonetSync ----------------------------
(* Instances of InfonetSync for TLC: who follows whom. *)
EXTENDS InfonetSync

Two == {"seed", "a"}
Three == {"seed", "a", "b"}

Nobody == [n \in Nodes |-> {}]
Line == [n \in Nodes |-> CASE n = "seed" -> {} [] n = "a" -> {"seed"} [] n = "b" -> {"a"}]
SeedPushesToA == [n \in Nodes |-> IF n = "seed" THEN {"a"} ELSE {}]
APushesToSeed == [n \in Nodes |-> IF n = "a" THEN {"seed"} ELSE {}]

==============================================================================
