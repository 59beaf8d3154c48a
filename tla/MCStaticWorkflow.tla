-------------------------- MODULE MCStaticWorkflow --------------------------
(* Plans for model checking StaticWorkflow.                                *)
EXTENDS StaticWorkflow, TLC

(* Two chains that meet, with a wait on one of them and a third root, so   *)
(* that three tasks are ready when only two fit a wave. The first wave     *)
(* mixes a task that continues on errors with one that does not.           *)
JoinNode == 1 .. 6
JoinDeps == (1 :> {5, 2}) @@ (2 :> {6}) @@ (3 :> {}) @@ (4 :> {}) @@ (5 :> {4}) @@ (6 :> {})
============================================================================
