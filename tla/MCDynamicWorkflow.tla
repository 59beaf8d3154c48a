------------------------- MODULE MCDynamicWorkflow -------------------------
(* Plans for model checking DynamicWorkflow.                               *)
EXTENDS DynamicWorkflow, TLC

(* Two roots, a conditional for_each over the result of one, and after it  *)
(* a conditional wait and a for_each over its aggregate: two expansions    *)
(* compete for the node limit, and instances of several tasks share the    *)
(* waves.                                                                  *)
FanNode == 1 .. 5
FanDeps == (1 :> {3, 4}) @@ (2 :> {3, 5}) @@ (3 :> {4}) @@ (4 :> {}) @@ (5 :> {})
FanSource == (2 :> 3) @@ (3 :> 4)

(* A task that becomes ready late but sorts before a half-dispatched       *)
(* for_each.                                                               *)
LateNode == 1 .. 4
LateDeps == (1 :> {2}) @@ (2 :> {4}) @@ (3 :> {4}) @@ (4 :> {})
LateSource == (1 :> 2) @@ (3 :> 4)
============================================================================
