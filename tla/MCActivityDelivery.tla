------------------------- MODULE MCActivityDelivery -------------------------
(* Two instances of one for_each task, with two attempts and a deadline,   *)
(* and an instance of another task with a single attempt.                  *)
EXTENDS ActivityDelivery
NoDeps == [n \in Node |-> {}]
TwoOfOneTask == [n \in Node |-> IF n = 3 THEN "other" ELSE "each"]
LastOnce == [n \in Node |-> IF n = 3 THEN 1 ELSE 2]
============================================================================
