---------------------------- MODULE WaveOutcome ----------------------------
(***************************************************************************)
(* What both schedulers of workflows/engine.py share: the persisted plan   *)
(* they run and how a delivered task of a wave is turned into a result, a  *)
(* continued failure or the failure of the whole orchestration.            *)
(*                                                                         *)
(* A task id is a natural number, its rank in the sorted order of ids that *)
(* fixes every scheduling decision of the engine.                          *)
(***************************************************************************)
EXTENDS Naturals, FiniteSets

CONSTANTS
  Node,            (* the task ids of the validated plan                   *)
  Deps,            (* depends_on of each task                              *)
  Timer,           (* tasks of type wait                                   *)
  Policy,          (* tasks with a retry policy frozen into the payload    *)
  Continue,        (* tasks whose frozen policy has continue_on_error      *)
  MaxParallelism   (* schema.MAX_PARALLELISM, the size limit of a wave     *)

(* Every set of tasks holds one that depends on none of the others: what   *)
(* the cycle check of validate_plan establishes.                           *)
Acyclic == \A S \in SUBSET Node : S # {} => \E n \in S : Deps[n] \cap S = {}

ASSUME PlanAssumption ==
  /\ Node \subseteq Nat
  /\ IsFiniteSet(Node)
  /\ Deps \in [Node -> SUBSET Node]
  /\ Timer \subseteq Node
  /\ Policy \subseteq Node \ Timer
  /\ Continue \subseteq Policy
  /\ MaxParallelism \in Nat \ {0}
  /\ Acyclic

----------------------------------------------------------------------------
(* What Durable delivers for a task: a fired timer, the result of a        *)
(* handler, a failure the Activity returned as an ok:false envelope, or an *)
(* exception. "handler_transient" is the exception left when the native    *)
(* retries are used up; "opaque" is every exception that carries no        *)
(* versioned failure of the runtime.                                       *)

ReturnedFailure ==
  {"handler_terminal", "execution_unknown", "handler_contract", "authorization"}

Failure == ReturnedFailure \cup {"handler_transient"}

Continuable == {"handler_transient", "handler_terminal", "execution_unknown"}

Delivery == Failure \cup {"fired", "value", "opaque"}

DeliveriesOf(n) ==
  IF n \in Timer THEN {"fired"}
  ELSE {"value", "opaque"} \cup (IF n \in Policy THEN Failure ELSE {})

(* One task that enables continuation makes the whole wave be processed    *)
(* task by task.                                                           *)
ContinuationWave(nodes) == \E n \in nodes : n \in Continue

(* A failure is continued only for the task that asked for it, and only if *)
(* its kind is in the closed set.                                          *)
Continues(n, d) == n \in Continue /\ d \in Continuable

(* Reading the delivery fails the orchestration while the rest of the wave *)
(* is still running.                                                       *)
StopsWave(n, d, continuation) ==
  \/ d = "opaque"
  \/ continuation /\ d \in Failure /\ ~Continues(n, d)
  \/ ~continuation /\ d = "handler_transient"

(* Outside a continuation wave an ok:false envelope is read only once the  *)
(* whole wave has completed.                                               *)
FailsOnApplyNever(d, continuation) == FALSE

FailsOnApply(d, continuation) == ~continuation /\ d \in ReturnedFailure

(* What the task commits as its result: of a continued failure only the    *)
(* bounded object.                                                         *)
ResultOf(d) == IF d \in Failure THEN "failure" ELSE d
============================================================================
