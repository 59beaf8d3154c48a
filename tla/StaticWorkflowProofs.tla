------------------------ MODULE StaticWorkflowProofs ------------------------
(***************************************************************************)
(* Proofs about the static scheduler, for every acyclic plan, every mix of *)
(* retry and continuation policies and every wave size.                    *)
(***************************************************************************)
EXTENDS StaticWorkflow, WellFoundedInduction, FiniteSetTheorems, TLAPS

-----------------------------------------------------------------------------
(* Lemmas about plans, deliveries and waves.                               *)

(* A nonempty set of task ids has a least element.                         *)
LEMMA LeastTask ==
  ASSUME NEW S \in SUBSET Nat, S # {}
  PROVE  \E n \in S : \A m \in S : ~(m < n)
<1> DEFINE Below == {0 .. n - 1 : n \in S}
<1>1. Below \subseteq FiniteSubsetsOf(Nat) /\ Below # {}
  <2>1. ASSUME NEW n \in S PROVE 0 .. n - 1 \in FiniteSubsetsOf(Nat)
    <3>1. IsFiniteSet(0 .. n - 1)
      BY FS_Interval
    <3> QED BY <3>1 DEF FiniteSubsetsOf
  <2> QED BY <2>1
<1>2. PICK X \in Below : \A Y \in Below : <<Y, X>> \notin StrictSubsetOrdering(Nat)
  <2> HIDE DEF Below
  <2> QED BY <1>1, WFMin, FS_StrictSubsetOrderingWellFounded
<1>3. PICK n \in S : X = 0 .. n - 1
  BY <1>2
<1>4. ASSUME NEW m \in S, m < n PROVE FALSE
  <2>1. 0 .. m - 1 \subseteq 0 .. n - 1
    BY <1>4
  <2>2. m \in 0 .. n - 1 /\ m \notin 0 .. m - 1
    BY <1>4
  <2>3. <<0 .. m - 1, X>> \in StrictSubsetOrdering(Nat)
    BY <1>3, <2>1, <2>2 DEF StrictSubsetOrdering
  <2> QED BY <1>2, <2>3
<1> QED BY <1>4

(* The kinds a delivery of a plan can have, and what the step that reads   *)
(* it lets through.                                                        *)
LEMMA HarmlessDelivery ==
  ASSUME NEW n \in Node, NEW d \in Delivery, NEW cw \in BOOLEAN,
         ~StopsWave(n, d, cw), ~FailsOnApply(d, cw)
  PROVE  /\ d \notin {"none", "opaque", "authorization", "handler_contract"}
         /\ d \in Failure => n \in Continue
         /\ ResultOf(d) \in {"value", "fired", "failure"}
<1>1. CASE d \in Failure
  <2>1. cw /\ Continues(n, d)
    BY <1>1 DEF StopsWave, FailsOnApply, Failure
  <2> QED BY <1>1, <2>1 DEF Continues, Continuable, ResultOf
<1>2. CASE d \notin Failure
  BY <1>2 DEF StopsWave, Delivery, ResultOf, Failure, ReturnedFailure
<1> QED BY <1>1, <1>2

(* The strengthening. A wave in flight holds uncommitted tasks whose       *)
(* dependencies are committed; what it has delivered so far neither stops  *)
(* the wave nor, once everything is there, is opaque; and no task outside  *)
(* the wave has a delivery that was not committed.                         *)
PhaseInv ==
  /\ pc = "done" <=> ending # "none"
  /\ ending = "completed" => Resolved = Node
  /\ ending \in {"canceled", "raised", "stalled"} => Resolved # Node
  /\ pc = "select" => wave = {}
  /\ pc \in {"await", "apply"} => wave # {} /\ wave \subseteq Remaining

DeliveryInv ==
  /\ pc \in {"await", "apply"} =>
       \A n \in wave : delivered[n] = "none"
                       \/ ~StopsWave(n, delivered[n], Continuation)
  /\ pc = "apply" => \A n \in wave : delivered[n] # "none"
  /\ \A n \in Remaining \ wave : delivered[n] = "none"

IInv ==
  TypeOK /\ PhaseInv /\ DeliveryInv /\ DependenciesFirst /\ FailuresSurface /\ NeverStalls

----------------------------------------------------------------------------
(* A wave is never empty while a task is ready.                            *)
LEMMA NextWaveNonEmpty ==
  ASSUME ReadyTasks # {}
  PROVE  NextWave # {} /\ NextWave \subseteq ReadyTasks
<1>1. ReadyTasks \in SUBSET Nat
  BY PlanAssumption DEF ReadyTasks, Remaining
<1>2. PICK n \in ReadyTasks : \A m \in ReadyTasks : ~(m < n)
  BY <1>1, LeastTask
<1>3. {m \in ReadyTasks : m < n} = {}
  BY <1>2
<1>4. Cardinality({m \in ReadyTasks : m < n}) = 0
  BY <1>3, FS_EmptySet
<1>5. n \in NextWave
  BY <1>4, PlanAssumption DEF NextWave
<1> QED BY <1>5 DEF NextWave

(* While a task remains, one whose dependencies are committed remains.     *)
LEMMA SomeTaskReady ==
  ASSUME TypeOK, Remaining # {}
  PROVE  ReadyTasks # {}
<1>1. Remaining \in SUBSET Node
  BY DEF Remaining
<1>2. PICK n \in Remaining : Deps[n] \cap Remaining = {}
  BY <1>1, PlanAssumption DEF Acyclic
<1>3. Deps[n] \subseteq Node
  BY <1>1, PlanAssumption
<1>4. n \in ReadyTasks
  BY <1>2, <1>3 DEF ReadyTasks, Remaining
<1> QED BY <1>4

----------------------------------------------------------------------------
(* The initial state satisfies the inductive invariant.                    *)
LEMMA InitInv == Init => IInv
  BY PlanAssumption DEF Init, IInv, TypeOK, PhaseInv, DeliveryInv, DependenciesFirst,
     FailuresSurface, NeverStalls, Resolved, Remaining, Delivery

(* Selecting the next wave preserves the invariant.                        *)
LEMMA SelectWaveInv == ASSUME IInv, SelectWave PROVE IInv'
<1> USE DEF IInv
<1>1. ReadyTasks # {} /\ NextWave # {} /\ NextWave \subseteq ReadyTasks
  BY SomeTaskReady, NextWaveNonEmpty DEF SelectWave
<1>2. Resolved' = Resolved /\ Remaining' = Remaining
  BY DEF SelectWave, Resolved, Remaining
<1>3. ending = "none" /\ wave = {}
  BY DEF SelectWave, PhaseInv, TypeOK
<1>4. CASE wave' = NextWave /\ pc' = "await" /\ UNCHANGED ending
  <2>1. NextWave \subseteq Remaining /\ NextWave \subseteq Node
    BY <1>1 DEF ReadyTasks, Remaining
  <2>2. TypeOK'
    BY <1>4, <2>1 DEF SelectWave, TypeOK
  <2>3. PhaseInv'
    BY <1>1, <1>2, <1>3, <1>4, <2>1 DEF PhaseInv
  <2>4. DeliveryInv'
    BY <1>2, <1>3, <1>4, <2>1 DEF SelectWave, DeliveryInv
  <2>5. DependenciesFirst'
    BY <1>1, <1>2, <1>3, <1>4 DEF DependenciesFirst, ReadyTasks
  <2>6. FailuresSurface' /\ NeverStalls'
    BY <1>2, <1>3, <1>4 DEF SelectWave, FailuresSurface, NeverStalls
  <2> QED BY <2>2, <2>3, <2>4, <2>5, <2>6
<1>5. CASE End("raised") /\ UNCHANGED wave
  <2>1. TypeOK' /\ NeverStalls'
    BY <1>5 DEF SelectWave, TypeOK, End, NeverStalls
  <2>2. PhaseInv'
    BY <1>2, <1>5 DEF PhaseInv, End, SelectWave, Remaining
  <2>3. DeliveryInv'
    BY <1>2, <1>5 DEF SelectWave, DeliveryInv, End
  <2>4. DependenciesFirst' /\ FailuresSurface'
    BY <1>2, <1>5 DEF SelectWave, DependenciesFirst, FailuresSurface
  <2> QED BY <2>1, <2>2, <2>3, <2>4
<1> QED BY <1>1, <1>4, <1>5 DEF SelectWave

(* Finishing the workflow preserves the invariant.                         *)
LEMMA FinishInv == ASSUME IInv, Finish PROVE IInv'
<1> USE DEF IInv
<1>1. Resolved' = Resolved /\ Remaining' = Remaining
  BY DEF Finish, Resolved, Remaining
<1>2. TypeOK' /\ NeverStalls'
  BY DEF Finish, TypeOK, End, NeverStalls
<1>3. PhaseInv'
  BY <1>1 DEF Finish, PhaseInv, End, Remaining, Resolved
<1>4. DeliveryInv'
  BY <1>1 DEF Finish, DeliveryInv, End
<1>5. DependenciesFirst' /\ FailuresSurface'
  BY <1>1 DEF Finish, DependenciesFirst, FailuresSurface
<1> QED BY <1>2, <1>3, <1>4, <1>5


(* A completed delivery preserves the invariant.                           *)
LEMMA TaskCompletesInv ==
  ASSUME IInv, NEW n \in Node, NEW d \in Delivery, TaskCompletes(n, d)
  PROVE  IInv'
<1> USE DEF IInv
<1>1. /\ pc = "await" /\ n \in wave /\ delivered[n] = "none" /\ n \in Remaining
      /\ results' = results /\ wave' = wave /\ delivered' = [delivered EXCEPT ![n] = d]
  BY DEF TaskCompletes, Outstanding, PhaseInv
<1>2. Resolved' = Resolved /\ Remaining' = Remaining /\ Continuation' = Continuation
  BY <1>1 DEF Resolved, Remaining, Continuation
<1>3. d # "none"
  BY DEF Delivery, Failure, ReturnedFailure
<1>4. TypeOK'
  BY <1>1 DEF TaskCompletes, TypeOK, AbandonTimers, Outstanding, End
<1>5. PhaseInv' /\ NeverStalls'
  <2>1. Remaining # {} /\ ending = "none"
    BY <1>1 DEF PhaseInv, TypeOK
  <2>2. CASE End("raised")
    BY <1>1, <1>2, <2>1, <2>2 DEF PhaseInv, NeverStalls, End, Remaining
  <2>3. CASE pc' \in {"await", "apply"} /\ UNCHANGED ending
    BY <1>1, <1>2, <2>1, <2>3 DEF PhaseInv, NeverStalls, Remaining
  <2> QED BY <2>2, <2>3 DEF TaskCompletes
<1>6. DeliveryInv'
  <2>1. \A m \in Remaining \ wave : delivered'[m] = "none"
    BY <1>1, PlanAssumption DEF DeliveryInv, TypeOK, Remaining
  <2>2. ASSUME pc' \in {"await", "apply"}, NEW m \in wave
        PROVE  delivered'[m] = "none" \/ ~StopsWave(m, delivered'[m], Continuation)
    <3>1. ~StopsWave(n, d, Continuation)
      BY <2>2 DEF TaskCompletes, End
    <3>2. CASE m = n
      BY <1>1, <3>1, <3>2 DEF TypeOK
    <3>3. CASE m # n
      BY <1>1, <3>3 DEF DeliveryInv, TypeOK
    <3> QED BY <3>2, <3>3
  <2>3. ASSUME pc' = "apply", NEW m \in wave PROVE delivered'[m] # "none"
    <3>1. Outstanding = {n}
      BY <1>1, <2>3 DEF TaskCompletes, End
    <3>2. CASE m = n
      BY <1>1, <1>3, <3>2 DEF TypeOK
    <3>3. CASE m # n
      BY <1>1, <3>1, <3>3 DEF Outstanding, TypeOK
    <3> QED BY <3>2, <3>3
  <2> QED BY <1>1, <1>2, <2>1, <2>2, <2>3 DEF DeliveryInv
<1>7. DependenciesFirst'
  BY <1>1, <1>2 DEF DependenciesFirst
<1>8. FailuresSurface'
  BY <1>1, <1>2 DEF FailuresSurface, Remaining, TypeOK
<1> QED BY <1>4, <1>5, <1>6, <1>7, <1>8

(* A cancellation that wins the wave preserves the invariant.              *)
LEMMA CancelWinsInv == ASSUME IInv, CancelWins PROVE IInv'
<1> USE DEF IInv
<1>1. /\ Resolved' = Resolved /\ Remaining' = Remaining
      /\ Remaining # {} /\ pc = "await"
  BY DEF CancelWins, Resolved, Remaining, PhaseInv
<1>2. TypeOK' /\ NeverStalls'
  BY DEF CancelWins, TypeOK, AbandonTimers, Outstanding, End, NeverStalls
<1>3. PhaseInv'
  BY <1>1 DEF CancelWins, PhaseInv, End, Remaining
<1>4. DeliveryInv'
  BY <1>1 DEF CancelWins, DeliveryInv, End
<1>5. DependenciesFirst' /\ FailuresSurface'
  BY <1>1 DEF CancelWins, DependenciesFirst, FailuresSurface
<1> QED BY <1>2, <1>3, <1>4, <1>5

(* Applying a whole wave preserves the invariant.                          *)
LEMMA ApplyWaveInv == ASSUME IInv, ApplyWave PROVE IInv'
<1> USE DEF IInv
<1>1. pc = "apply" /\ wave # {} /\ wave \subseteq Remaining /\ ending = "none"
      /\ UNCHANGED <<delivered, canceledTimers>>
  BY DEF ApplyWave, PhaseInv, TypeOK
<1>2. CASE End("raised") /\ UNCHANGED <<results, wave>>
  <2>1. Resolved' = Resolved /\ Remaining' = Remaining
    BY <1>2 DEF Resolved, Remaining
  <2>2. TypeOK' /\ NeverStalls'
    BY <1>1, <1>2 DEF TypeOK, End, NeverStalls
  <2>3. PhaseInv'
    BY <1>1, <1>2, <2>1 DEF PhaseInv, End, Remaining
  <2>4. DeliveryInv'
    BY <1>1, <1>2, <2>1 DEF DeliveryInv, End
  <2>5. DependenciesFirst' /\ FailuresSurface'
    BY <1>1, <1>2, <2>1 DEF DependenciesFirst, FailuresSurface
  <2> QED BY <2>2, <2>3, <2>4, <2>5
<1>3. CASE /\ \A n \in wave : ~FailsOnApply(delivered[n], Continuation)
           /\ results' = [n \in Node |-> IF n \in wave THEN ResultOf(delivered[n])
                                         ELSE results[n]]
           /\ wave' = {}
           /\ pc' = "select"
           /\ UNCHANGED ending
  <2>1. ASSUME NEW n \in wave
        PROVE  /\ delivered[n] \notin {"none", "opaque", "authorization", "handler_contract"}
               /\ delivered[n] \in Failure => n \in Continue
               /\ ResultOf(delivered[n]) \in {"value", "fired", "failure"}
    <3>1. n \in Node /\ delivered[n] \in Delivery /\ Continuation \in BOOLEAN
      BY <1>1 DEF TypeOK, DeliveryInv, Continuation, ContinuationWave
    <3>2. ~StopsWave(n, delivered[n], Continuation)
      BY <1>1 DEF DeliveryInv
    <3> QED BY <1>3, <3>1, <3>2, HarmlessDelivery
  <2>2. Resolved' = Resolved \cup wave /\ Remaining' = Remaining \ wave
    BY <1>3, <2>1 DEF Resolved, Remaining, TypeOK
  <2>3. TypeOK' /\ NeverStalls'
    BY <1>1, <1>3, <2>1 DEF TypeOK, NeverStalls
  <2>4. PhaseInv'
    BY <1>1, <1>3 DEF PhaseInv
  <2>5. DeliveryInv'
    BY <1>1, <1>3, <2>2 DEF DeliveryInv
  <2>6. DependenciesFirst'
    BY <1>3, <2>2 DEF DependenciesFirst
  <2>7. FailuresSurface'
    BY <1>1, <2>1, <2>2 DEF FailuresSurface
  <2> QED BY <2>3, <2>4, <2>5, <2>6, <2>7
<1> QED BY <1>2, <1>3 DEF ApplyWave

(* Every step, stuttering included, preserves the inductive invariant.     *)
LEMMA NextInv == IInv /\ [Next]_vars => IInv'
<1> SUFFICES ASSUME IInv, [Next]_vars PROVE IInv'
  OBVIOUS
<1>1. CASE Turn
  BY <1>1, SelectWaveInv, FinishInv, ApplyWaveInv DEF Turn
<1>2. CASE Durable
  BY <1>2, TaskCompletesInv DEF Durable
<1>3. CASE CancelWins
  BY <1>3, CancelWinsInv
<1>4. CASE UNCHANGED vars
  BY <1>4 DEF vars, IInv, TypeOK, PhaseInv, DeliveryInv, DependenciesFirst,
     FailuresSurface, NeverStalls, Resolved, Remaining, Continuation
<1> QED BY <1>1, <1>2, <1>3, <1>4 DEF Next

----------------------------------------------------------------------------
(* The strengthened invariant holds of every reachable state; the          *)
(* properties below are conjuncts of it.                                   *)
THEOREM Invariance == Spec => []IInv
  BY InitInv, NextInv, PTL DEF Spec

(* The variables of the static scheduler keep their types: in particular a *)
(* committed failure is always the bounded failure object.                 *)
THEOREM TypeCorrect == Spec => []TypeOK
<1>1. IInv => TypeOK
  BY DEF IInv
<1> QED BY <1>1, Invariance, PTL

(* The "workflow stalled" error of _run_static_workflow is unreachable for *)
(* every acyclic plan.                                                     *)
THEOREM StallFree == Spec => []NeverStalls
<1>1. IInv => NeverStalls
  BY DEF IInv
<1> QED BY <1>1, Invariance, PTL

(* No task runs or commits before everything it depends on has committed.  *)
THEOREM DependencyOrder == Spec => []DependenciesFirst
<1>1. IInv => DependenciesFirst
  BY DEF IInv
<1> QED BY <1>1, Invariance, PTL

(* Failures are continued only for tasks that asked for it, and opaque,    *)
(* authorization and contract failures never become a result.              *)
THEOREM FailuresNeverSwallowed == Spec => []FailuresSurface
<1>1. IInv => FailuresSurface
  BY DEF IInv
<1> QED BY <1>1, Invariance, PTL

----------------------------------------------------------------------------
(* The values the mapping gives the variables of WorkflowAbstract.         *)
AbstractPhase == CASE ending = "none" -> "running"
                   [] ending \in {"completed", "canceled"} -> ending
                   [] OTHER -> "failed"

AbstractStarted == Resolved \cup wave

(* Adding ready tasks to the started ones is a step of the abstraction.    *)
LEMMA AbstractStart ==
  ASSUME AbstractPhase = "running", UNCHANGED <<Resolved, AbstractPhase>>,
         NEW S \in SUBSET (Node \ Resolved), \A n \in S : Deps[n] \subseteq Resolved,
         AbstractStarted' = AbstractStarted \cup S
  PROVE  Abstract!Next
<1>1. Abstract!Start(S)
  BY DEF Abstract!Start, Abstract!Ready, AbstractPhase, AbstractStarted
<1> QED BY <1>1 DEF Abstract!Next

(* Resolving ready tasks is a step of the abstract workflow.               *)
LEMMA AbstractResolve ==
  ASSUME AbstractPhase = "running", UNCHANGED <<AbstractStarted, AbstractPhase>>,
         NEW S \in SUBSET (Node \ Resolved), \A n \in S : Deps[n] \subseteq Resolved,
         Resolved' = Resolved \cup S
  PROVE  Abstract!Next
<1>1. Abstract!Resolve(S)
  BY DEF Abstract!Resolve, Abstract!Ready, AbstractPhase, AbstractStarted
<1> QED BY <1>1 DEF Abstract!Next

(* Stopping before every task has a result is an abstract step.            *)
LEMMA AbstractStop ==
  ASSUME AbstractPhase = "running", UNCHANGED <<Resolved, AbstractStarted>>,
         Resolved # Node, AbstractPhase' \in {"failed", "canceled"}
  PROVE  Abstract!Next
<1>1. Abstract!Stop("failed") \/ Abstract!Stop("canceled")
  BY DEF Abstract!Stop, AbstractPhase, AbstractStarted
<1> QED BY <1>1 DEF Abstract!Next

(* Every step of the static scheduler is a step of the abstract workflow   *)
(* or leaves its variables alone.                                          *)
LEMMA StepImplements ==
  ASSUME IInv, [Next]_vars
  PROVE  [Abstract!Next]_(Abstract!vars)
<1> USE DEF IInv
<1>1. ASSUME pc # "done" PROVE ending = "none" /\ AbstractPhase = "running"
  BY <1>1 DEF PhaseInv, TypeOK, AbstractPhase
<1>2. ASSUME UNCHANGED <<ending, results, wave>> PROVE UNCHANGED Abstract!vars
  BY <1>2 DEF Abstract!vars, Resolved
<1>3. ASSUME ending' \in {"raised", "stalled"} PROVE AbstractPhase' = "failed"
  BY <1>3 DEF AbstractPhase
<1>4. ASSUME UNCHANGED <<results, wave>> PROVE UNCHANGED <<Resolved, AbstractStarted>>
  BY <1>4 DEF Resolved, AbstractStarted
<1>5. CASE SelectWave
  <2>1. Resolved # Node /\ wave = {} /\ UNCHANGED Resolved
    BY <1>5 DEF SelectWave, Remaining, PhaseInv, Resolved
  <2>2. CASE UNCHANGED wave /\ ending' \in {"raised", "stalled"}
    BY <1>1, <1>3, <1>4, <1>5, <2>1, <2>2, AbstractStop DEF SelectWave
  <2>3. CASE wave' = NextWave /\ pc' = "await" /\ UNCHANGED ending
    <3>1. NextWave \in SUBSET (Node \ Resolved) /\ \A n \in NextWave : Deps[n] \subseteq Resolved
      BY DEF NextWave, ReadyTasks, Remaining
    <3>2. AbstractStarted' = AbstractStarted \cup NextWave
      BY <2>1, <2>3 DEF AbstractStarted
    <3>3. AbstractPhase = "running" /\ UNCHANGED AbstractPhase
      BY <1>1, <1>5, <2>3 DEF SelectWave, AbstractPhase
    <3> QED BY <2>1, <3>1, <3>2, <3>3, AbstractStart
  <2> QED BY <1>5, <2>2, <2>3 DEF SelectWave, End
<1>6. CASE Finish
  <2>1. Resolved = Node /\ UNCHANGED <<Resolved, AbstractStarted>>
    BY <1>4, <1>6 DEF Finish, Remaining, Resolved
  <2>2. AbstractPhase = "running" /\ AbstractPhase' = "completed"
    BY <1>1, <1>6 DEF Finish, End, AbstractPhase
  <2>3. Abstract!Complete
    BY <2>1, <2>2 DEF Abstract!Complete, AbstractPhase, AbstractStarted
  <2> QED BY <2>3 DEF Abstract!Next
<1>7. CASE ApplyWave
  <2>1. /\ wave # {} /\ wave \subseteq Node \ Resolved /\ AbstractPhase = "running"
        /\ \A n \in wave : Deps[n] \subseteq Resolved
    BY <1>1, <1>7 DEF ApplyWave, PhaseInv, Remaining, DependenciesFirst
  <2>2. CASE End("raised") /\ UNCHANGED <<results, wave>>
    BY <1>3, <1>4, <2>1, <2>2, AbstractStop DEF End
  <2>3. CASE /\ \A n \in wave : ~FailsOnApply(delivered[n], Continuation)
             /\ results' = [n \in Node |-> IF n \in wave THEN ResultOf(delivered[n])
                                           ELSE results[n]]
             /\ wave' = {}
             /\ UNCHANGED ending
    <3>1. ASSUME NEW n \in wave PROVE ResultOf(delivered[n]) # "unset"
      BY <1>7, <2>1 DEF ResultOf, TypeOK, DeliveryInv, ApplyWave, Delivery, Failure,
         ReturnedFailure
    <3>2. Resolved' = Resolved \cup wave
      BY <2>1, <2>3, <3>1 DEF Resolved, TypeOK
    <3>3. UNCHANGED <<AbstractStarted, AbstractPhase>>
      BY <2>3, <3>2 DEF AbstractStarted, AbstractPhase
    <3> QED BY <2>1, <3>2, <3>3, AbstractResolve
  <2> QED BY <1>7, <2>2, <2>3 DEF ApplyWave
<1>8. CASE Durable
  <2>1. PICK n \in Node, d \in Delivery : TaskCompletes(n, d)
    BY <1>8 DEF Durable
  <2>2. Resolved # Node /\ AbstractPhase = "running" /\ UNCHANGED <<results, wave>>
    BY <1>1, <2>1 DEF TaskCompletes, PhaseInv, Remaining
  <2>3. CASE ending' = "raised"
    BY <1>3, <1>4, <2>2, <2>3, AbstractStop
  <2>4. CASE UNCHANGED ending
    BY <1>2, <2>2, <2>4
  <2> QED BY <2>1, <2>3, <2>4 DEF TaskCompletes, End
<1>9. CASE CancelWins
  <2>1. Resolved # Node /\ AbstractPhase = "running" /\ UNCHANGED <<results, wave>>
    BY <1>1, <1>9 DEF CancelWins, PhaseInv, Remaining
  <2>2. AbstractPhase' = "canceled"
    BY <1>9 DEF CancelWins, End, AbstractPhase
  <2> QED BY <1>4, <2>1, <2>2, AbstractStop
<1>10. CASE UNCHANGED vars
  BY <1>2, <1>10 DEF vars
<1> QED BY <1>5, <1>6, <1>7, <1>8, <1>9, <1>10 DEF Next, Turn

(* The static scheduler implements the abstract workflow: results in       *)
(* dependency order, each committed once, and one ending that says         *)
(* completed exactly when nothing is missing.                              *)
THEOREM Implements == Spec => ImplementsWorkflow
<1>1. Init => Abstract!Init
  BY DEF Init, Abstract!Init, Resolved
<1> QED BY <1>1, StepImplements, Invariance, PTL DEF Spec, ImplementsWorkflow, Abstract!Spec

----------------------------------------------------------------------------
(* Durable delivers nothing for a timer but that it fired, which is what   *)
(* an abandoned wave needs to tell the timers it has to cancel.            *)
TimerInv == TimersSettled /\ \A n \in Timer : delivered[n] \in {"none", "fired"}

LEMMA TimerNext ==
  ASSUME IInv, TimerInv, [Next]_vars
  PROVE  TimerInv'
<1>1. Timer \subseteq Node /\ delivered \in [Node -> Delivery \cup {"none"}]
  BY PlanAssumption DEF IInv, TypeOK
<1>2. ASSUME NEW n \in Node, NEW d \in Delivery, TaskCompletes(n, d)
      PROVE  TimerInv'
  <2>1. /\ n \in wave /\ d \in DeliveriesOf(n) /\ UNCHANGED wave
        /\ delivered' = [delivered EXCEPT ![n] = d]
    BY <1>2 DEF TaskCompletes, Outstanding
  <2>2. n \in Timer => d = "fired"
    BY <2>1 DEF DeliveriesOf
  <2>3. \A m \in Timer : delivered'[m] \in {"none", "fired"}
    BY <1>1, <2>1, <2>2 DEF TimerInv
  <2>4. ASSUME pc' = "done", NEW m \in wave \cap Timer
        PROVE  delivered'[m] = "fired" \/ m \in canceledTimers'
    <3>1. canceledTimers' = canceledTimers \cup ((Outstanding \ {n}) \cap Timer)
      BY <1>2, <2>4 DEF TaskCompletes, AbandonTimers
    <3>2. CASE m = n
      BY <1>1, <2>1, <2>2, <3>2
    <3>3. CASE m # n
      BY <1>1, <2>1, <3>1, <3>3 DEF TimerInv, Outstanding
    <3> QED BY <3>2, <3>3
  <2> QED BY <2>1, <2>3, <2>4 DEF TimerInv, TimersSettled
<1>3. CASE CancelWins
  BY <1>3 DEF CancelWins, AbandonTimers, Outstanding, TimerInv, TimersSettled
<1>4. CASE SelectWave \/ Finish
  BY <1>4 DEF SelectWave, Finish, End, IInv, PhaseInv, TimerInv, TimersSettled
<1>5. CASE ApplyWave
  BY <1>5 DEF ApplyWave, End, IInv, DeliveryInv, TimerInv, TimersSettled
<1>6. CASE UNCHANGED vars
  BY <1>6 DEF vars, TimerInv, TimersSettled
<1> QED BY <1>2, <1>3, <1>4, <1>5, <1>6 DEF Next, Turn, Durable

(* However a wave is abandoned or applied, every timer of the wave that    *)
(* ended the orchestration has fired or was canceled.                      *)
THEOREM TimersAreSettled == Spec => []TimersSettled
<1>1. Init => TimerInv
  BY PlanAssumption DEF Init, TimerInv, TimersSettled
<1>2. TimerInv => TimersSettled
  BY DEF TimerInv
<1> QED BY <1>1, <1>2, TimerNext, Invariance, PTL DEF Spec
============================================================================
