-------------------------- MODULE DynamicWorkflow --------------------------
(***************************************************************************)
(* The data-driven scheduler of workflows/engine.py: for_each expansion,   *)
(* when predicates, waves of at most MaxParallelism instances, aggregation *)
(* and cooperative cancellation. Durable is the environment: it delivers   *)
(* the tasks of the awaited wave one at a time, in any order, and may      *)
(* deliver the cancel event before any of them.                            *)
(***************************************************************************)
EXTENDS WaveOutcome, Integers

CONSTANTS
  ForEach,         (* the tasks with a for_each                            *)
  Source,          (* the upstream task each for_each reference names      *)
  Conditional,     (* the tasks with a when                                *)
  MaxNodes,        (* schema.MAX_NODES                                     *)
  MaxLen           (* bound: the longest array a handler returns           *)

ASSUME DynamicAssumption ==
  /\ ForEach \subseteq Node \ Timer
  /\ Source \in [ForEach -> Node]
  /\ Conditional \subseteq Node
  /\ \A n \in ForEach \cup Conditional : Deps[n] # {}
  /\ MaxNodes \in Nat
  /\ Cardinality(Node) <= MaxNodes
  /\ MaxLen \in Nat

(* An instance is a task with an index; index None is -1, as in the sort   *)
(* key of _collect_runnable_instances.                                     *)
None == -1
InstanceId == Node \X (None .. MaxNodes - 1)

LogicalState == {"pending", "running", "skipped", "expanded", "aggregated",
                 "completed", "failed"}
InstanceState == {"absent", "pending", "running", "skipped", "completed"}
Result == {"unset", "value", "fired", "failure", "null", "array"}

(* How the orchestration ends: "completed" and "canceled" are outputs, the *)
(* controlled failures are outputs that carry failed, and the last two are *)
(* raised.                                                                 *)
ControlledFailures == {"value_error", "not_array", "node_limit"}
Ending == {"none", "completed", "canceled", "raised", "stalled"} \cup ControlledFailures

VARIABLES
  allowed,   (* the tasks the persisted owner policy allows; none when the *)
             (* payload was written before policies                        *)
  pc,        (* the phase of the generator, "await" at its yield           *)
  ending,    (* how the orchestration ended                                *)
  pass,      (* tasks the current materialization pass has yet to visit    *)
  progressed,
  logical,   (* logical_state                                              *)
  inst,      (* node_instances: the state of every instance                *)
  expanded,  (* expanded_count                                             *)
  budget,    (* budget_used                                                *)
  results,   (* results, the committed result of each task                 *)
  wave,      (* the instances of the awaited wave                          *)
  delivered, (* what Durable delivered for each dispatched instance        *)
  canceledTimers

vars == <<allowed, pc, ending, pass, progressed, logical, inst, expanded, budget,
          results, wave, delivered, canceledTimers>>

TypeOK ==
  /\ allowed \subseteq Node \ Timer
  /\ pc \in {"scan", "aggregate", "dispatch", "await", "apply", "done"}
  /\ ending \in Ending
  /\ pass \subseteq Node
  /\ progressed \in BOOLEAN
  /\ logical \in [Node -> LogicalState]
  /\ inst \in [InstanceId -> InstanceState]
  /\ expanded \in [ForEach -> Nat]
  /\ budget \in Nat
  /\ results \in [Node -> Result]
  /\ wave \subseteq InstanceId
  /\ delivered \in [InstanceId -> Delivery \cup {"none"}]
  /\ canceledTimers \subseteq InstanceId

----------------------------------------------------------------------------
Resolved == {n \in Node : results[n] # "unset"}

DepsMet(n) == Deps[n] \subseteq Resolved

InstancesOf(n) == {i \in InstanceId : i[1] = n /\ inst[i] # "absent"}

Materialized == {i \in InstanceId : inst[i] # "absent"}

(* The tasks a materialization pass visits, in the order of their ids.     *)
Unmaterialized(log, ins) ==
  {n \in Node : log[n] = "pending"
                /\ \A k \in None .. MaxNodes - 1 : ins[<<n, k>>] = "absent"}

Before(i, j) == i[1] < j[1] \/ (i[1] = j[1] /\ i[2] < j[2])

End(how) == pc' = "done" /\ ending' = how

(* The lengths of the array a for_each reference to task s resolves to;    *)
(* none when the result of s cannot hold an array. A reference to the      *)
(* whole of an aggregate yields one element per instance, and one below it *)
(* reads the result of an instance.                                        *)
ArrayLengths(s) ==
  CASE results[s] = "value" -> 0 .. MaxLen
    [] results[s] = "array" ->
         {expanded[s]} \cup
           IF \E i \in InstancesOf(s) : inst[i] = "completed" THEN 0 .. MaxLen ELSE {}
    [] OTHER -> {}

----------------------------------------------------------------------------
Init ==
  /\ allowed \in {Node \ Timer, {}}
  /\ pc = "scan"
  /\ ending = "none"
  /\ pass = Node
  /\ progressed = FALSE
  /\ logical = [n \in Node |-> "pending"]
  /\ inst = [i \in InstanceId |-> "absent"]
  /\ expanded = [n \in ForEach |-> 0]
  /\ budget = Cardinality(Node \ ForEach)
  /\ results = [n \in Node |-> "unset"]
  /\ wave = {}
  /\ delivered = [i \in InstanceId |-> "none"]
  /\ canceledTimers = {}

(* _dynamic_failure: the failed task is marked and the envelope returned.  *)
ControlledFailure(n, code) ==
  /\ logical' = [logical EXCEPT ![n] = "failed"]
  /\ End(code)
  /\ UNCHANGED progressed

Visit(n) ==
  /\ pc = "scan"
  /\ n \in pass
  /\ \A m \in pass : n <= m
  /\ pass' = pass \ {n}
  /\ UNCHANGED <<allowed, wave, delivered, canceledTimers>>

(* A task with an unresolved dependency waits for a later pass.            *)
SkipBlocked(n) ==
  /\ Visit(n)
  /\ ~DepsMet(n)
  /\ UNCHANGED <<pc, ending, progressed, logical, inst, expanded, budget, results>>

(* The when predicate is evaluated before the value fields are resolved;   *)
(* "error" is a failing reference in either. A task with no upstream has   *)
(* nothing to refer to, and a wait no value fields.                        *)
Decisions(n) ==
  {"run"} \cup (IF n \in Conditional THEN {"skip"} ELSE {})
          \cup (IF Deps[n] # {} /\ n \notin Timer \ Conditional THEN {"error"} ELSE {})

MaterializeNormal(n) ==
  /\ Visit(n)
  /\ DepsMet(n)
  /\ n \notin ForEach
  /\ UNCHANGED <<expanded, budget>>
  /\ \E d \in Decisions(n) :
       \/ /\ d = "error"
          /\ ControlledFailure(n, "value_error")
          /\ UNCHANGED <<inst, results>>
       \/ /\ d = "skip"
          /\ inst' = [inst EXCEPT ![<<n, None>>] = "skipped"]
          /\ results' = [results EXCEPT ![n] = "null"]
          /\ logical' = [logical EXCEPT ![n] = "skipped"]
          /\ progressed' = TRUE
          /\ UNCHANGED <<pc, ending>>
       \/ /\ d = "run"
          /\ inst' = [inst EXCEPT ![<<n, None>>] = "pending"]
          /\ progressed' = TRUE
          /\ UNCHANGED <<pc, ending, logical, results>>

ExceedsLimitOffByOne(count) == budget + count > MaxNodes + 1

ExceedsLimit(count) == budget + count > MaxNodes

(* The reference does not resolve, does not name an array, or names one    *)
(* that would take the plan over the materialized-node limit; nothing of   *)
(* the expansion is kept.                                                  *)
RejectExpansion(n) ==
  /\ Visit(n)
  /\ DepsMet(n)
  /\ n \in ForEach
  /\ \/ ControlledFailure(n, "value_error")
     \/ ControlledFailure(n, "not_array")
     \/ /\ \E count \in ArrayLengths(Source[n]) : ExceedsLimit(count)
        /\ ControlledFailure(n, "node_limit")
  /\ UNCHANGED <<inst, expanded, budget, results>>

(* One decision per element, in order; the first error ends the workflow   *)
(* with the instances before it on record.                                 *)
ExpandedStates(n, count, decide) ==
  [i \in InstanceId |->
     IF i[1] # n \/ i[2] \notin 0 .. count - 1 THEN inst[i]
     ELSE IF \E k \in 0 .. i[2] : decide[k] = "error" THEN "absent"
     ELSE IF decide[i[2]] = "skip" THEN "skipped"
     ELSE "pending"]

NothingToRun(decide) == \A k \in DOMAIN decide : decide[k] = "skip"

ExpandForEach(n) ==
  /\ Visit(n)
  /\ DepsMet(n)
  /\ n \in ForEach
  /\ \E count \in ArrayLengths(Source[n]) :
       /\ ~ExceedsLimit(count)
       /\ budget' = budget + count
       /\ expanded' = [expanded EXCEPT ![n] = count]
       /\ \E decide \in [0 .. count - 1 -> Decisions(n)] :
            /\ inst' = ExpandedStates(n, count, decide)
            /\ \/ /\ \E k \in DOMAIN decide : decide[k] = "error"
                  /\ ControlledFailure(n, "value_error")
                  /\ UNCHANGED results
               \/ /\ \A k \in DOMAIN decide : decide[k] # "error"
                  /\ NothingToRun(decide)
                  /\ results' = [results EXCEPT ![n] = "array"]
                  /\ logical' = [logical EXCEPT ![n] = "aggregated"]
                  /\ progressed' = TRUE
                  /\ UNCHANGED <<pc, ending>>
               \/ /\ \A k \in DOMAIN decide : decide[k] # "error"
                  /\ ~NothingToRun(decide)
                  /\ logical' = [logical EXCEPT ![n] = "expanded"]
                  /\ progressed' = TRUE
                  /\ UNCHANGED <<pc, ending, results>>

FinishPass ==
  /\ pc = "scan"
  /\ pass = {}
  /\ pc' = "aggregate"
  /\ UNCHANGED <<allowed, ending, pass, progressed, logical, inst, expanded,
                 budget, results, wave, delivered, canceledTimers>>

AggregatableWaveDone ==
  {n \in ForEach :
     /\ logical[n] \in {"expanded", "running"}
     /\ InstancesOf(n) # {}
     /\ \E i \in InstancesOf(n) : inst[i] = "completed"}

AggregatableExpanded ==
  {n \in ForEach :
     /\ logical[n] = "expanded"
     /\ InstancesOf(n) # {}
     /\ \A i \in InstancesOf(n) : inst[i] \in {"completed", "skipped"}}

(* The for_each tasks whose every instance has ended.                      *)
Aggregatable ==
  {n \in ForEach :
     /\ logical[n] \in {"expanded", "running"}
     /\ InstancesOf(n) # {}
     /\ \A i \in InstancesOf(n) : inst[i] \in {"completed", "skipped"}}

CompleteNoneInFlight(log) == \A n \in Node : log[n] \notin {"pending", "running"}

Complete(log) == \A n \in Node : log[n] \in {"completed", "skipped", "aggregated"}

(* Aggregation ends a pass; another pass follows whenever one made         *)
(* progress, and otherwise the loop completes or dispatches a wave.        *)
ProgressOnEnded ==
  progressed \/ \E n \in ForEach :
                   /\ InstancesOf(n) # {}
                   /\ \A i \in InstancesOf(n) : inst[i] \in {"completed", "skipped"}

Progress == progressed \/ Aggregatable # {}

Aggregate ==
  /\ pc = "aggregate"
  /\ results' = [n \in Node |-> IF n \in Aggregatable THEN "array" ELSE results[n]]
  /\ logical' = [n \in Node |-> IF n \in Aggregatable THEN "aggregated" ELSE logical[n]]
  /\ \/ /\ Progress
        /\ pc' = "scan"
        /\ pass' = Unmaterialized(logical', inst)
        /\ progressed' = FALSE
        /\ UNCHANGED ending
     \/ /\ ~Progress
        /\ Complete(logical)
        /\ End("completed")
        /\ UNCHANGED <<pass, progressed>>
     \/ /\ ~Progress
        /\ ~Complete(logical)
        /\ pc' = "dispatch"
        /\ UNCHANGED <<pass, progressed, ending>>
  /\ UNCHANGED <<allowed, inst, expanded, budget, wave, delivered, canceledTimers>>

Runnable == {i \in InstanceId : inst[i] = "pending"}

(* The first MaxParallelism runnable instances in (task, index) order.     *)
NextWave ==
  {i \in Runnable : Cardinality({j \in Runnable : Before(j, i)}) < MaxParallelism}

(* Dispatching a tool or a Sub Agent outside the persisted owner policy    *)
(* raises, and so does a wait beyond the horizon re-checked against the    *)
(* orchestration's clock. Durable drops what that turn had scheduled.      *)
Denied(i) == i[1] \notin Timer \cup allowed

Dispatch ==
  /\ pc = "dispatch"
  /\ \/ /\ Runnable = {}
        /\ End("stalled")
        /\ UNCHANGED <<wave, inst, logical>>
     \/ /\ \E i \in NextWave : Denied(i) \/ i[1] \in Timer
        /\ End("raised")
        /\ UNCHANGED <<wave, inst, logical>>
     \/ /\ Runnable # {}
        /\ \A i \in NextWave : ~Denied(i)
        /\ wave' = NextWave
        /\ inst' = [i \in InstanceId |-> IF i \in NextWave THEN "running" ELSE inst[i]]
        /\ logical' = [n \in Node |-> IF \E i \in NextWave : i[1] = n
                                      THEN "running" ELSE logical[n]]
        /\ pc' = "await"
        /\ UNCHANGED ending
  /\ UNCHANGED <<allowed, pass, progressed, expanded, budget, results, delivered,
                 canceledTimers>>

----------------------------------------------------------------------------
Continuation == ContinuationWave({i[1] : i \in wave})

Outstanding == {i \in wave : delivered[i] = "none"}

(* The timers of the wave that have not fired are canceled when the wave   *)
(* is abandoned.                                                           *)
AbandonTimersNever(left) == canceledTimers' = canceledTimers

AbandonTimers(left) ==
  canceledTimers' = canceledTimers \cup {i \in left : i[1] \in Timer}

(* Durable delivers one task of the wave.                                  *)
TaskCompletes(i, d) ==
  /\ pc = "await"
  /\ i \in Outstanding
  /\ d \in DeliveriesOf(i[1])
  /\ delivered' = [delivered EXCEPT ![i] = d]
  /\ \/ /\ StopsWave(i[1], d, Continuation)
        /\ End("raised")
        /\ AbandonTimers(Outstanding \ {i})
     \/ /\ ~StopsWave(i[1], d, Continuation)
        /\ pc' = IF Outstanding = {i} THEN "apply" ELSE "await"
        /\ UNCHANGED <<ending, canceledTimers>>
  /\ UNCHANGED <<allowed, pass, progressed, logical, inst, expanded, budget,
                 results, wave>>

(* Cancellation wins the race of when_any: what the wave already delivered *)
(* is discarded and its instances are pending again.                       *)
Restored(n) == IF n \in ForEach THEN "expanded" ELSE "pending"

CancelWinsInPlace ==
  /\ pc = "await"
  /\ End("canceled")
  /\ AbandonTimers(Outstanding)
  /\ UNCHANGED <<allowed, inst, logical, pass, progressed, expanded, budget, results,
                 wave, delivered>>

CancelWins ==
  /\ pc = "await"
  /\ End("canceled")
  /\ AbandonTimers(Outstanding)
  /\ inst' = [i \in InstanceId |-> IF i \in wave THEN "pending" ELSE inst[i]]
  /\ logical' = [n \in Node |-> IF \E i \in wave : i[1] = n THEN Restored(n) ELSE logical[n]]
  /\ UNCHANGED <<allowed, pass, progressed, expanded, budget, results, wave, delivered>>

(* The whole wave has been delivered: commit it, or fail on the first      *)
(* ok:false envelope in wave order.                                        *)
ApplyWave ==
  /\ pc = "apply"
  /\ \/ /\ \E i \in wave : FailsOnApply(delivered[i], Continuation)
        /\ End("raised")
        /\ UNCHANGED <<inst, results, logical, pass, progressed, wave>>
     \/ /\ \A i \in wave : ~FailsOnApply(delivered[i], Continuation)
        /\ inst' = [i \in InstanceId |-> IF i \in wave THEN "completed" ELSE inst[i]]
        /\ results' = [n \in Node |-> IF <<n, None>> \in wave
                                      THEN ResultOf(delivered[<<n, None>>]) ELSE results[n]]
        /\ logical' = [n \in Node |-> IF <<n, None>> \in wave THEN "completed" ELSE logical[n]]
        /\ wave' = {}
        /\ pc' = "scan"
        /\ pass' = Unmaterialized(logical', inst')
        /\ progressed' = FALSE
        /\ UNCHANGED ending
  /\ UNCHANGED <<allowed, expanded, budget, delivered, canceledTimers>>

----------------------------------------------------------------------------
Turn ==
  \/ \E n \in Node : SkipBlocked(n)
  \/ \E n \in Node : MaterializeNormal(n)
  \/ \E n \in Node : RejectExpansion(n)
  \/ \E n \in Node : ExpandForEach(n)
  \/ FinishPass
  \/ Aggregate
  \/ Dispatch
  \/ ApplyWave

Durable == \E i \in InstanceId : \E d \in Delivery : TaskCompletes(i, d)

Next == Turn \/ Durable \/ CancelWins

Spec == Init /\ [][Next]_vars

(* The worker finishes the turn it started, and Durable eventually         *)
(* delivers every task it scheduled. Nobody has to cancel.                 *)
FairSpec == Spec /\ WF_vars(Turn) /\ WF_vars(Durable)
----------------------------------------------------------------------------
(* The materialized instances never outnumber the limit, however many      *)
(* for_each tasks expand, nest their data or skip: the budget charged in   *)
(* _materialize_for_each_node covers the authored tasks that have yet to   *)
(* materialize.                                                            *)
NodeLimit == Cardinality(Materialized) <= MaxNodes

(* At most MaxParallelism instances are in flight.                         *)
ParallelismLimit == Cardinality({i \in InstanceId : inst[i] = "running"}) <= MaxParallelism

(* An instance exists only when every task its task depends on has its     *)
(* committed result, so the templates it resolves read final values.       *)
DependenciesFirst == \A i \in Materialized : Deps[i[1]] \subseteq Resolved

(* "workflow stalled: no runnable instances" is unreachable: whenever the  *)
(* loop finds nothing to materialize or aggregate, it is complete or has   *)
(* an instance to run.                                                     *)
NeverStalls == ending # "stalled"

(* An aggregate is committed only with one ended instance per element of   *)
(* the source, across all the waves the instances were spread over.        *)
AggregateAligned ==
  \A n \in ForEach :
    results[n] = "array" =>
      /\ InstancesOf(n) = {n} \X (0 .. expanded[n] - 1)
      /\ \A i \in InstancesOf(n) : inst[i] \in {"completed", "skipped"}

(* A failure is swallowed only for a task that enabled continuation and    *)
(* only if its kind may be continued: authorization, handler contract and  *)
(* opaque failures never become a result, whatever the rest of the wave    *)
(* asked for.                                                              *)
FailuresSurface ==
  \A i \in InstanceId :
    inst[i] = "completed" =>
      /\ delivered[i] \notin {"none", "opaque", "authorization", "handler_contract"}
      /\ delivered[i] \in Failure => i[1] \in Continue

(* The published status and the engine agree: while a wave is awaited its  *)
(* instances and no others are running, and an orchestration that returns  *)
(* an output leaves none of them running.                                  *)
RunningIsTheWave ==
  LET running == {i \in InstanceId : inst[i] = "running"}
  IN  /\ pc = "await" => running = wave
      /\ ending \in ControlledFailures \cup {"completed", "canceled"} => running = {}
      /\ \A i \in running : logical[i[1]] = "running"

(* No timer outlives the orchestration: every timer of a wave that ended   *)
(* it has fired or was canceled.                                           *)
TimersSettled ==
  pc = "done" =>
    \A i \in wave : i[1] \in Timer => delivered[i] = "fired" \/ i \in canceledTimers

(* What is dispatched is accounted for whichever way a wave ends: never    *)
(* more than the limit, nothing running outside the awaited wave, and no   *)
(* timer left armed (engine.py:1101-1235).                                 *)
WaveAccounted == ParallelismLimit /\ RunningIsTheWave /\ TimersSettled

(* docs/workflows.md:859: a for_each task is "running while any instance   *)
(* is in flight". Read at the statuses the orchestrator leaves published:  *)
(* when it yields and when it returns.                                     *)
(* The code does not keep this: README.md, section 5.                      *)
RunningMeansInFlight ==
  pc = "await" \/ ending = "canceled" =>
    \A n \in ForEach : logical[n] = "running" => \E i \in InstancesOf(n) : inst[i] = "running"

(* The data-driven scheduler keeps the promises of every workflow.         *)
Abstract == INSTANCE WorkflowAbstract WITH
  resolved <- Resolved,
  started <- {n \in Node : \E i \in InstanceId :
                 i[1] = n /\ (inst[i] \in {"running", "completed"} \/ i \in wave)},
  phase <- CASE ending = "none" -> "running"
             [] ending \in {"completed", "canceled"} -> ending
             [] OTHER -> "failed"

ImplementsWorkflow == Abstract!Spec

(* Every orchestration ends, whatever its plan, its data and its failures. *)
Termination == <>(pc = "done")
============================================================================
