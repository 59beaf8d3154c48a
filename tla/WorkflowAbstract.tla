-------------------------- MODULE WorkflowAbstract --------------------------
(***************************************************************************)
(* What a workflow promises whichever scheduler runs it (docs/workflows.md *)
(* and the docstrings of workflows/engine.py): a task starts only when     *)
(* everything it depends on has a result, a result is committed once, the  *)
(* orchestration completes only with a result for every task, and it is    *)
(* canceled or failed only while one is missing.                           *)
(***************************************************************************)
CONSTANTS Node, Deps

VARIABLES
  resolved,  (* the tasks whose result is committed                        *)
  started,   (* the tasks with an Activity or a timer scheduled            *)
  phase      (* "running", "completed", "canceled" or "failed"             *)

vars == <<resolved, started, phase>>

TypeOK ==
  /\ resolved \subseteq Node
  /\ started \subseteq Node
  /\ phase \in {"running", "completed", "canceled", "failed"}

Init ==
  /\ resolved = {}
  /\ started = {}
  /\ phase = "running"

Ready(S) == \A n \in S : Deps[n] \subseteq resolved /\ n \notin resolved

(* Activities and timers of ready tasks are scheduled; a for_each task is  *)
(* scheduled over several waves.                                           *)
Start(S) ==
  /\ phase = "running"
  /\ Ready(S)
  /\ started' = started \cup S
  /\ UNCHANGED <<resolved, phase>>

(* A task commits its result: after running, or without running when it is *)
(* skipped or expands to nothing.                                          *)
Resolve(S) ==
  /\ phase = "running"
  /\ Ready(S)
  /\ resolved' = resolved \cup S
  /\ UNCHANGED <<started, phase>>

Complete ==
  /\ phase = "running"
  /\ resolved = Node
  /\ phase' = "completed"
  /\ UNCHANGED <<resolved, started>>

Stop(how) ==
  /\ phase = "running"
  /\ resolved # Node
  /\ phase' = how
  /\ UNCHANGED <<resolved, started>>

Next ==
  \/ \E S \in SUBSET Node : Start(S)
  \/ \E S \in SUBSET Node : Resolve(S)
  \/ Complete
  \/ Stop("canceled")
  \/ Stop("failed")

Spec == Init /\ [][Next]_vars
============================================================================
