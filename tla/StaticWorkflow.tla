--------------------------- MODULE StaticWorkflow ---------------------------
(***************************************************************************)
(* The scheduler of workflows/engine.py for plans without when and         *)
(* for_each: the ready tasks run in waves of at most MaxParallelism, and a *)
(* wave ends before the next one is chosen.                                *)
(***************************************************************************)
EXTENDS WaveOutcome

VARIABLES
  pc,        (* "await" at the yield of the generator                      *)
  ending,
  results,   (* results, by task                                           *)
  wave,      (* the tasks of the awaited wave                              *)
  delivered, (* what Durable delivered for each scheduled task             *)
  canceledTimers

vars == <<pc, ending, results, wave, delivered, canceledTimers>>

TypeOK ==
  /\ pc \in {"select", "await", "apply", "done"}
  /\ ending \in {"none", "completed", "canceled", "raised", "stalled"}
  /\ results \in [Node -> {"unset", "value", "fired", "failure"}]
  /\ wave \subseteq Node
  /\ delivered \in [Node -> Delivery \cup {"none"}]
  /\ canceledTimers \subseteq Timer

Init ==
  /\ pc = "select"
  /\ ending = "none"
  /\ results = [n \in Node |-> "unset"]
  /\ wave = {}
  /\ delivered = [n \in Node |-> "none"]
  /\ canceledTimers = {}

End(how) == pc' = "done" /\ ending' = how

Resolved == {n \in Node : results[n] # "unset"}

Remaining == Node \ Resolved

ReadyIfSucceeded == {n \in Remaining : \A m \in Deps[n] : results[m] \notin {"unset", "failure"}}

ReadyTasks == {n \in Remaining : Deps[n] \subseteq Resolved}

(* The first MaxParallelism ready tasks in the order of their ids.         *)
NextWave ==
  {n \in ReadyTasks : Cardinality({m \in ReadyTasks : m < n}) < MaxParallelism}

(* A task with upstream results may hold a template that does not resolve, *)
(* and a wait may exceed the horizon on the orchestration's clock.         *)
MayRaise(n) == n \in Timer \/ Deps[n] # {}

SelectWave ==
  /\ pc = "select"
  /\ Remaining # {}
  /\ IF ReadyTasks = {}
     THEN End("stalled") /\ UNCHANGED wave
     ELSE \/ /\ wave' = NextWave
             /\ pc' = "await"
             /\ UNCHANGED ending
          \/ /\ \E n \in NextWave : MayRaise(n)
             /\ End("raised")
             /\ UNCHANGED wave
  /\ UNCHANGED <<results, delivered, canceledTimers>>

Finish ==
  /\ pc = "select"
  /\ Remaining = {}
  /\ End("completed")
  /\ UNCHANGED <<results, wave, delivered, canceledTimers>>

----------------------------------------------------------------------------
Continuation == ContinuationWave(wave)

Outstanding == {n \in wave : delivered[n] = "none"}

AbandonTimersNever(left) == canceledTimers' = canceledTimers

AbandonTimers(left) == canceledTimers' = canceledTimers \cup (left \cap Timer)

(* Durable delivers one task of the wave.                                  *)
TaskCompletes(n, d) ==
  /\ pc = "await"
  /\ n \in Outstanding
  /\ d \in DeliveriesOf(n)
  /\ delivered' = [delivered EXCEPT ![n] = d]
  /\ \/ /\ StopsWave(n, d, Continuation)
        /\ End("raised")
        /\ AbandonTimers(Outstanding \ {n})
     \/ /\ ~StopsWave(n, d, Continuation)
        /\ pc' = IF Outstanding = {n} THEN "apply" ELSE "await"
        /\ UNCHANGED <<ending, canceledTimers>>
  /\ UNCHANGED <<results, wave>>

(* Cancellation wins when_any: the output carries the results committed by *)
(* the earlier waves and nothing of this one.                              *)
CancelWinsKeeping ==
  /\ pc = "await"
  /\ End("canceled")
  /\ AbandonTimers(Outstanding)
  /\ results' = [n \in Node |-> IF n \in wave \ Outstanding THEN ResultOf(delivered[n])
                                ELSE results[n]]
  /\ UNCHANGED <<wave, delivered>>

CancelWins ==
  /\ pc = "await"
  /\ End("canceled")
  /\ AbandonTimers(Outstanding)
  /\ UNCHANGED <<results, wave, delivered>>

ApplyWave ==
  /\ pc = "apply"
  /\ \/ /\ \E n \in wave : FailsOnApply(delivered[n], Continuation)
        /\ End("raised")
        /\ UNCHANGED <<results, wave>>
     \/ /\ \A n \in wave : ~FailsOnApply(delivered[n], Continuation)
        /\ results' = [n \in Node |-> IF n \in wave THEN ResultOf(delivered[n])
                                      ELSE results[n]]
        /\ wave' = {}
        /\ pc' = "select"
        /\ UNCHANGED ending
  /\ UNCHANGED <<delivered, canceledTimers>>

----------------------------------------------------------------------------
Turn == SelectWave \/ Finish \/ ApplyWave

Durable == \E n \in Node : \E d \in Delivery : TaskCompletes(n, d)

Next == Turn \/ Durable \/ CancelWins

Spec == Init /\ [][Next]_vars

FairSpec == Spec /\ WF_vars(Turn) /\ WF_vars(Durable)

----------------------------------------------------------------------------
(* The "workflow stalled" error marks a validation bug: a plan without a   *)
(* dependency cycle always has a ready task while one remains.             *)
NeverStalls == ending # "stalled"

(* A task is in flight or committed only after its dependencies committed. *)
DependenciesFirst == \A n \in wave \cup Resolved : Deps[n] \subseteq Resolved

(* A committed result is never an opaque, authorization or contract        *)
(* failure, and is a failure only for a task that enabled continuation.    *)
FailuresSurface ==
  \A n \in Resolved :
    /\ delivered[n] \notin {"none", "opaque", "authorization", "handler_contract"}
    /\ delivered[n] \in Failure => n \in Continue

(* No timer outlives the orchestration.                                    *)
TimersSettled ==
  pc = "done" =>
    \A n \in wave \cap Timer : delivered[n] = "fired" \/ n \in canceledTimers

(* The static scheduler keeps the promises of every workflow.              *)
Abstract == INSTANCE WorkflowAbstract WITH
  resolved <- Resolved,
  started <- Resolved \cup wave,
  phase <- CASE ending = "none" -> "running"
             [] ending \in {"completed", "canceled"} -> ending
             [] OTHER -> "failed"

ImplementsWorkflow == Abstract!Spec

(* Every orchestration ends.                                               *)
Termination == <>(pc = "done")
============================================================================
