----------------------- MODULE DynamicWorkflowProofs -----------------------
(***************************************************************************)
(* Proofs about the data-driven scheduler, for every acyclic plan, every   *)
(* array length, node limit, wave size and mix of policies.                *)
(***************************************************************************)
EXTENDS DynamicWorkflow, WellFoundedInduction, FiniteSetTheorems, TLAPS

-----------------------------------------------------------------------------
(* Lemmas about plans, deliveries and waves.                               *)

(* A nonempty set of task ids has a least element.                         *)
LEMMA LeastTask ==
  ASSUME NEW S \in SUBSET Nat, S # {}
  PROVE  \E n \in S : \A m \in S : ~(m < n)
<1> DEFINE Below == {0 .. n - 1 : n \in S}
<1>1. Below \subseteq FiniteSubsetsOf(Nat) /\ Below # {}
  <2>1. ASSUME NEW n \in S PROVE 0 .. n - 1 \in FiniteSubsetsOf(Nat)
    <3>1. IsFiniteSet(0 .. n - 1)
      BY FS_Interval
    <3> QED BY <3>1 DEF FiniteSubsetsOf
  <2> QED BY <2>1
<1>2. PICK X \in Below : \A Y \in Below : <<Y, X>> \notin StrictSubsetOrdering(Nat)
  <2> HIDE DEF Below
  <2> QED BY <1>1, WFMin, FS_StrictSubsetOrderingWellFounded
<1>3. PICK n \in S : X = 0 .. n - 1
  BY <1>2
<1>4. ASSUME NEW m \in S, m < n PROVE FALSE
  <2>1. 0 .. m - 1 \subseteq 0 .. n - 1
    BY <1>4
  <2>2. m \in 0 .. n - 1 /\ m \notin 0 .. m - 1
    BY <1>4
  <2>3. <<0 .. m - 1, X>> \in StrictSubsetOrdering(Nat)
    BY <1>3, <2>1, <2>2 DEF StrictSubsetOrdering
  <2> QED BY <1>2, <2>3
<1> QED BY <1>4

(* The kinds a delivery of a plan can have, and what the step that reads   *)
(* it lets through.                                                        *)
LEMMA HarmlessDelivery ==
  ASSUME NEW n \in Node, NEW d \in Delivery, NEW cw \in BOOLEAN,
         ~StopsWave(n, d, cw), ~FailsOnApply(d, cw)
  PROVE  /\ d \notin {"none", "opaque", "authorization", "handler_contract"}
         /\ d \in Failure => n \in Continue
         /\ ResultOf(d) \in {"value", "fired", "failure"}
<1>1. CASE d \in Failure
  <2>1. cw /\ Continues(n, d)
    BY <1>1 DEF StopsWave, FailsOnApply, Failure
  <2> QED BY <1>1, <2>1 DEF Continues, Continuable, ResultOf
<1>2. CASE d \notin Failure
  BY <1>2 DEF StopsWave, Delivery, ResultOf, Failure, ReturnedFailure
<1> QED BY <1>1, <1>2

(* The elements of an ordered finite set that have fewer than m others     *)
(* before them are at most m: a wave is cut at its limit.                  *)
LEMMA WaveBound ==
  ASSUME NEW S, IsFiniteSet(S), NEW R, NEW m \in Nat,
         \A i, j, k \in S : <<i, j>> \in R /\ <<j, k>> \in R => <<i, k>> \in R,
         \A i \in S : <<i, i>> \notin R,
         \A i, j \in S : i = j \/ <<i, j>> \in R \/ <<j, i>> \in R,
         NEW ahead \in [S -> SUBSET S], \A i, j \in S : j \in ahead[i] <=> <<j, i>> \in R,
         NEW W \in SUBSET S, \A i \in W : Cardinality(ahead[i]) < m
  PROVE  IsFiniteSet(W) /\ Cardinality(W) <= m
<1> DEFINE Ahead(i) == ahead[i]
           rank == [i \in W |-> Cardinality(Ahead(i))]
<1>1. ASSUME NEW i \in S PROVE IsFiniteSet(Ahead(i)) /\ Cardinality(Ahead(i)) \in Nat
  <2>1. IsFiniteSet(Ahead(i))
    BY FS_Subset
  <2> QED BY <2>1, FS_CardinalityType
<1>2. ASSUME NEW i \in S, NEW j \in S, <<i, j>> \in R
      PROVE  Cardinality(Ahead(i)) < Cardinality(Ahead(j))
  <2>1. Ahead(i) \subseteq Ahead(j) \ {i} /\ i \in Ahead(j)
    BY <1>2
  <2>2. IsFiniteSet(Ahead(j)) /\ Cardinality(Ahead(j)) \in Nat /\ Cardinality(Ahead(i)) \in Nat
    BY <1>1
  <2> HIDE DEF Ahead
  <2>3. IsFiniteSet(Ahead(j) \ {i}) /\ Cardinality(Ahead(j) \ {i}) = Cardinality(Ahead(j)) - 1
    BY <2>1, <2>2, FS_RemoveElement
  <2>4. Cardinality(Ahead(i)) <= Cardinality(Ahead(j) \ {i})
    BY <2>1, <2>3, FS_Subset
  <2> QED BY <2>2, <2>3, <2>4
<1>3. rank \in Injection(W, 0 .. m - 1)
  <2>1. rank \in [W -> 0 .. m - 1]
    <3>1. ASSUME NEW i \in W PROVE Cardinality(Ahead(i)) \in 0 .. m - 1
      <4>1. Cardinality(Ahead(i)) \in Nat
        BY <1>1
      <4>2. Cardinality(Ahead(i)) < m
        OBVIOUS
      <4> QED BY <4>1, <4>2
    <3> QED BY <3>1
  <2>2. ASSUME NEW i \in W, NEW j \in W, i # j PROVE rank[i] # rank[j]
    <3>1. i \in S /\ j \in S /\ (<<i, j>> \in R \/ <<j, i>> \in R)
      BY <2>2
    <3> HIDE DEF Ahead
    <3>2. Cardinality(Ahead(i)) \in Nat /\ Cardinality(Ahead(j)) \in Nat
      BY <1>1, <3>1
    <3>3. Cardinality(Ahead(i)) < Cardinality(Ahead(j)) \/ Cardinality(Ahead(j)) < Cardinality(Ahead(i))
      BY <1>2, <3>1
    <3> QED BY <3>2, <3>3
  <2> QED BY <2>1, <2>2 DEF Injection, IsInjective
<1>4. IsFiniteSet(0 .. m - 1) /\ Cardinality(0 .. m - 1) = m
  BY FS_Interval
<1> HIDE DEF rank
<1> QED BY <1>3, <1>4, FS_Injection

(* The strengthening, by the part of the engine it speaks of.              *)

(* Wave and phase: the running instances are those of the awaited wave.    *)
WaveInv ==
  /\ pc = "done" <=> ending # "none"
  /\ pc # "done" =>
       /\ \A i \in InstanceId : inst[i] = "running" <=> i \in wave
       /\ wave # {} <=> pc \in {"await", "apply"}

(* What was delivered so far neither stops the wave nor belongs to an      *)
(* instance that was never dispatched.                                     *)
DeliveryInv ==
  /\ pc \in {"await", "apply"} =>
       \A i \in wave : delivered[i] = "none"
                       \/ ~StopsWave(i[1], delivered[i], Continuation)
  /\ pc = "apply" => \A i \in wave : delivered[i] # "none"
  /\ pc # "done" =>
       \A i \in InstanceId :
          inst[i] \in {"absent", "pending", "skipped"} => delivered[i] = "none"

ArrayInv == \A n \in Node : results[n] = "array" => n \in ForEach

(* The logical state of a task mirrors its instances and its result.       *)
NormalInv(n) ==
  /\ logical[n] = IF inst[<<n, None>>] = "absent" THEN "pending" ELSE inst[<<n, None>>]
  /\ results[n] = "unset" <=> logical[n] \in {"pending", "running"}
  /\ \A k \in 0 .. MaxNodes - 1 : inst[<<n, k>>] = "absent"

ForEachInv(n) ==
  /\ logical[n] \in {"pending", "expanded", "running", "aggregated"}
  /\ results[n] = IF logical[n] = "aggregated" THEN "array" ELSE "unset"
  /\ inst[<<n, None>>] = "absent"
  /\ logical[n] = "pending" => \A k \in 0 .. MaxNodes - 1 : inst[<<n, k>>] = "absent"
  /\ logical[n] # "pending" =>
       /\ expanded[n] <= MaxNodes
       /\ \A k \in 0 .. MaxNodes - 1 : inst[<<n, k>>] # "absent" <=> k < expanded[n]
  /\ logical[n] \in {"expanded", "running"} => expanded[n] > 0
  /\ logical[n] = "aggregated" =>
       \A k \in 0 .. MaxNodes - 1 : inst[<<n, k>>] \in {"absent", "completed", "skipped"}

NodeInv ==
  pc # "done" =>
    /\ \A n \in Node \ ForEach : NormalInv(n)
    /\ \A n \in ForEach : ForEachInv(n)

(* A pass that made no progress left only tasks with unmet dependencies.   *)
Waiting == Unmaterialized(logical, inst)

PassInv ==
  /\ pc = "scan" => pass \subseteq Waiting
  /\ pc = "scan" /\ ~progressed => \A n \in Waiting : n \in pass \/ ~DepsMet(n)
  /\ pc = "aggregate" /\ ~progressed => \A n \in Waiting : ~DepsMet(n)
  /\ pc = "dispatch" =>
       /\ \A n \in Waiting : ~DepsMet(n)
       /\ Aggregatable = {}
       /\ ~Complete(logical)

(* Every authored task without a for_each is charged from the start, an    *)
(* instance of a for_each when its task expands.                           *)
Charged == Materialized \cup {<<n, None>> : n \in Node \ ForEach}

BudgetInv ==
  /\ budget <= MaxNodes
  /\ IsFiniteSet(Charged)
  /\ Cardinality(Charged) <= budget

SafeInv == DependenciesFirst /\ FailuresSurface /\ AggregateAligned /\ NeverStalls

IInv ==
  /\ TypeOK
  /\ WaveInv
  /\ DeliveryInv
  /\ ArrayInv
  /\ NodeInv
  /\ PassInv
  /\ BudgetInv
  /\ SafeInv

----------------------------------------------------------------------------
(* An instance is a task and a slot: None or an element number.            *)
LEMMA InstanceFacts ==
  /\ None \in None .. MaxNodes - 1
  /\ \A n \in Node : \A k \in None .. MaxNodes - 1 : <<n, k>> \in InstanceId
  /\ \A i \in InstanceId :
       i[1] \in Node /\ i[2] \in None .. MaxNodes - 1 /\ i = <<i[1], i[2]>>
  BY DynamicAssumption DEF InstanceId, None

(* The initial state satisfies the inductive invariant.                    *)
LEMMA InitInv == Init => IInv
<1> SUFFICES ASSUME Init PROVE IInv
  OBVIOUS
<1>1. TypeOK
  <2>1. IsFiniteSet(Node \ ForEach)
    BY PlanAssumption, FS_Difference
  <2>2. Cardinality(Node \ ForEach) \in Nat
    BY <2>1, FS_CardinalityType
  <2> QED BY <2>2 DEF Init, TypeOK, InstanceState, LogicalState, Result, Ending, Delivery
<1>2. WaveInv /\ DeliveryInv /\ ArrayInv
  BY DEF Init, WaveInv, DeliveryInv, ArrayInv
<1>3. NodeInv
  BY InstanceFacts, DynamicAssumption DEF Init, NodeInv, NormalInv, ForEachInv, None
<1>4. PassInv
  <2>1. ASSUME NEW n \in Node, NEW k \in None .. MaxNodes - 1 PROVE inst[<<n, k>>] = "absent"
    BY InstanceFacts DEF Init
  <2>2. Waiting = Node
    BY <2>1 DEF Init, Waiting, Unmaterialized
  <2> QED BY <2>2 DEF Init, PassInv
<1>5. BudgetInv
  <2> DEFINE T == {<<n, None>> : n \in Node \ ForEach}
             f == [n \in Node \ ForEach |-> <<n, None>>]
  <2>1. Materialized = {} /\ Charged = T
    BY DEF Init, Materialized, Charged
  <2>2. IsFiniteSet(Node \ ForEach) /\ Cardinality(Node \ ForEach) <= Cardinality(Node)
    BY PlanAssumption, FS_Subset
  <2>3. f \in Surjection(Node \ ForEach, T)
    BY DEF Surjection
  <2>4. IsFiniteSet(T) /\ Cardinality(T) <= Cardinality(Node \ ForEach)
    BY <2>2, <2>3, FS_Surjection
  <2>5. Cardinality(Node) \in Nat /\ Cardinality(Node \ ForEach) \in Nat
    BY <2>2, PlanAssumption, FS_CardinalityType
  <2> QED BY <2>1, <2>2, <2>4, <2>5, DynamicAssumption DEF Init, BudgetInv
<1>6. SafeInv
  BY DynamicAssumption
  DEF Init, SafeInv, DependenciesFirst, FailuresSurface, AggregateAligned, NeverStalls,
     Materialized
<1> QED BY <1>1, <1>2, <1>3, <1>4, <1>5, <1>6 DEF IInv

(* The invariant when a step ends the orchestration: the instances on      *)
(* record stay, except that running ones may be restored to pending.       *)
LEMMA EndInv ==
  ASSUME IInv, TypeOK', pc # "done", pc' = "done", ending' \notin {"none", "stalled"},
         UNCHANGED <<results, expanded, budget>>,
         \A i \in InstanceId : i \in wave \/ inst'[i] = inst[i],
         \A i \in wave : inst'[i] \in {"running", "pending"},
         \A i \in InstanceId : i \in wave \/ delivered'[i] = delivered[i]
  PROVE  IInv'
<1>1. \A i \in InstanceId : inst[i] # "running" => inst'[i] = inst[i] /\ delivered'[i] = delivered[i]
  BY DEF IInv, WaveInv
<1>2. \A i \in InstanceId : inst[i] = "running" => inst'[i] \in {"running", "pending"}
  BY DEF IInv, WaveInv
<1>3. /\ Materialized' = Materialized /\ Charged' = Charged /\ Resolved' = Resolved
      /\ \A n \in Node : InstancesOf(n)' = InstancesOf(n)
  BY <1>1, <1>2 DEF Materialized, Charged, Resolved, InstancesOf
<1>4. WaveInv' /\ DeliveryInv' /\ NodeInv' /\ PassInv'
  BY DEF WaveInv, DeliveryInv, NodeInv, PassInv
<1>5. ArrayInv' /\ BudgetInv'
  BY <1>3 DEF IInv, ArrayInv, BudgetInv
<1>6. DependenciesFirst' /\ NeverStalls'
  BY <1>3 DEF IInv, SafeInv, DependenciesFirst, NeverStalls
<1>7. FailuresSurface'
  BY <1>1, <1>2 DEF IInv, SafeInv, FailuresSurface
<1>8. AggregateAligned'
  BY <1>1, <1>3, DynamicAssumption DEF IInv, SafeInv, AggregateAligned, InstancesOf
<1> QED BY <1>4, <1>5, <1>6, <1>7, <1>8 DEF IInv, SafeInv

(* The same when the step leaves every instance as it is.                  *)
LEMMA EndUnchanged ==
  ASSUME IInv, TypeOK', pc # "done", pc' = "done", ending' \notin {"none", "stalled"},
         UNCHANGED <<results, expanded, budget, inst, delivered>>
  PROVE  IInv'
<1>1. \A i \in wave : inst[i] = "running"
  BY DEF IInv, WaveInv, TypeOK
<1> QED BY <1>1, EndInv

(* Skipping a blocked task preserves the invariant.                        *)
LEMMA SkipBlockedInv == ASSUME IInv, NEW n \in Node, SkipBlocked(n) PROVE IInv'
<1> USE DEF SkipBlocked, Visit
<1>1. /\ Waiting' = Waiting /\ Resolved' = Resolved /\ Charged' = Charged
      /\ Materialized' = Materialized /\ Continuation' = Continuation
  BY DEF Waiting, Unmaterialized, Resolved, Charged, Materialized, Continuation
<1>2. TypeOK' /\ WaveInv' /\ DeliveryInv' /\ ArrayInv'
  BY <1>1 DEF IInv, TypeOK, WaveInv, DeliveryInv, ArrayInv
<1>3. NodeInv' /\ BudgetInv'
  BY <1>1 DEF IInv, NodeInv, NormalInv, ForEachInv, BudgetInv
<1>4. PassInv'
  BY <1>1 DEF IInv, PassInv, DepsMet
<1>5. SafeInv'
  BY <1>1 DEF IInv, SafeInv, DependenciesFirst, FailuresSurface, AggregateAligned,
     NeverStalls, InstancesOf
<1> QED BY <1>2, <1>3, <1>4, <1>5 DEF IInv

(* Leaving the materialization pass preserves the invariant.               *)
LEMMA FinishPassInv == ASSUME IInv, FinishPass PROVE IInv'
<1> USE DEF FinishPass
<1>1. /\ Waiting' = Waiting /\ Resolved' = Resolved /\ Charged' = Charged
      /\ Materialized' = Materialized /\ Continuation' = Continuation
  BY DEF Waiting, Unmaterialized, Resolved, Charged, Materialized, Continuation
<1>2. TypeOK' /\ WaveInv' /\ DeliveryInv' /\ ArrayInv'
  BY <1>1 DEF IInv, TypeOK, WaveInv, DeliveryInv, ArrayInv
<1>3. NodeInv' /\ BudgetInv'
  BY <1>1 DEF IInv, NodeInv, NormalInv, ForEachInv, BudgetInv
<1>4. PassInv'
  BY <1>1 DEF IInv, PassInv, DepsMet
<1>5. SafeInv'
  BY <1>1 DEF IInv, SafeInv, DependenciesFirst, FailuresSurface, AggregateAligned,
     NeverStalls, InstancesOf
<1> QED BY <1>2, <1>3, <1>4, <1>5 DEF IInv

(* A task the pass visits has no instance yet.                             *)
LEMMA Visited ==
  ASSUME IInv, NEW n \in Node, Visit(n)
  PROVE  /\ pc = "scan" /\ ending = "none" /\ wave = {}
         /\ logical[n] = "pending"
         /\ \A k \in None .. MaxNodes - 1 : inst[<<n, k>>] = "absent"
         /\ n \notin ForEach => NormalInv(n) /\ results[n] = "unset"
         /\ n \in ForEach => ForEachInv(n) /\ results[n] = "unset"
<1>1. pc = "scan" /\ n \in Waiting
  BY DEF Visit, IInv, PassInv
<1>2. ending = "none" /\ wave = {}
  BY <1>1 DEF IInv, WaveInv, TypeOK
<1>3. logical[n] = "pending" /\ \A k \in None .. MaxNodes - 1 : inst[<<n, k>>] = "absent"
  BY <1>1 DEF Waiting, Unmaterialized
<1>4. n \notin ForEach => NormalInv(n) /\ results[n] = "unset"
  BY <1>1, <1>3 DEF IInv, NodeInv, NormalInv
<1>5. n \in ForEach => ForEachInv(n) /\ results[n] = "unset"
  BY <1>1, <1>3 DEF IInv, NodeInv, ForEachInv
<1> QED BY <1>1, <1>2, <1>3, <1>4, <1>5

(* Materializing a task without for_each preserves the invariant.          *)
LEMMA MaterializeNormalInv ==
  ASSUME IInv, NEW n \in Node, MaterializeNormal(n)
  PROVE  IInv'
<1> DEFINE v == <<n, None>>
<1> USE DEF Visit
<1>1. /\ n \notin ForEach /\ DepsMet(n) /\ Visit(n) /\ pass' = pass \ {n}
      /\ UNCHANGED <<allowed, wave, delivered, canceledTimers, expanded, budget>>
  BY DEF MaterializeNormal
<1>2. /\ pc = "scan" /\ ending = "none" /\ wave = {} /\ v \in InstanceId
      /\ logical[n] = "pending" /\ inst[v] = "absent" /\ results[n] = "unset"
      /\ NormalInv(n) /\ v \in Charged
  BY <1>1, Visited, InstanceFacts DEF Charged
<1>3. CASE ControlledFailure(n, "value_error") /\ UNCHANGED <<inst, results>>
  <2>1. TypeOK'
    BY <1>1, <1>3 DEF IInv, TypeOK, ControlledFailure, End, LogicalState, Ending,
       ControlledFailures
  <2>2. /\ pc' = "done" /\ ending' \notin {"none", "stalled"}
        /\ UNCHANGED <<results, expanded, budget, inst, delivered>>
    BY <1>1, <1>3 DEF ControlledFailure, End
  <2> QED BY <1>2, <2>1, <2>2, EndUnchanged
<1>4. CASE /\ progressed' = TRUE
           /\ UNCHANGED <<pc, ending>>
           /\ \/ /\ inst' = [inst EXCEPT ![v] = "skipped"]
                 /\ results' = [results EXCEPT ![n] = "null"]
                 /\ logical' = [logical EXCEPT ![n] = "skipped"]
              \/ /\ inst' = [inst EXCEPT ![v] = "pending"]
                 /\ UNCHANGED <<logical, results>>
  <2>1. /\ inst'[v] \in {"pending", "skipped"}
        /\ \A i \in InstanceId : i # v => inst'[i] = inst[i]
        /\ inst' \in [InstanceId -> InstanceState]
    BY <1>2, <1>4 DEF IInv, TypeOK, InstanceState
  <2>2. \A m \in Node : m # n => logical'[m] = logical[m] /\ results'[m] = results[m]
    BY <1>4 DEF IInv, TypeOK
  <2>3. TypeOK'
    BY <1>1, <1>4, <2>1 DEF IInv, TypeOK, LogicalState, Result
  <2>4. WaveInv'
    BY <1>1, <1>2, <1>4, <2>1 DEF IInv, WaveInv
  <2>5. DeliveryInv'
    BY <1>1, <1>2, <1>4, <2>1 DEF IInv, DeliveryInv
  <2>6. ArrayInv'
    BY <1>2, <1>4, <2>2 DEF IInv, ArrayInv, TypeOK
  <2>7. NodeInv'
    <3>1. NormalInv(n)'
      BY <1>2, <1>4, <2>1, InstanceFacts DEF NormalInv, IInv, TypeOK, None
    <3>2. ASSUME NEW m \in Node \ ForEach, m # n PROVE NormalInv(m)'
      <4>1. \A k \in None .. MaxNodes - 1 : inst'[<<m, k>>] = inst[<<m, k>>]
        BY <2>1, <3>2, InstanceFacts
      <4> QED BY <1>2, <2>2, <3>2, <4>1, InstanceFacts DEF NormalInv, IInv, NodeInv, None
    <3>3. ASSUME NEW m \in ForEach PROVE ForEachInv(m)'
      <4>1. \A k \in None .. MaxNodes - 1 : inst'[<<m, k>>] = inst[<<m, k>>]
        BY <1>1, <2>1, InstanceFacts, DynamicAssumption
      <4>2. logical'[m] = logical[m] /\ results'[m] = results[m] /\ expanded'[m] = expanded[m]
        BY <1>1, <2>2, DynamicAssumption
      <4> QED BY <1>2, <4>1, <4>2, InstanceFacts DEF ForEachInv, IInv, NodeInv, None
    <3> QED BY <3>1, <3>2, <3>3 DEF NodeInv
  <2>8. PassInv'
    <3>1. Waiting' = Waiting \ {n}
      <4>1. n \notin Waiting'
        BY <2>1, InstanceFacts DEF Waiting, Unmaterialized
      <4>2. ASSUME NEW m \in Node, m # n PROVE m \in Waiting' <=> m \in Waiting
        BY <2>1, <2>2, <4>2, InstanceFacts DEF Waiting, Unmaterialized
      <4> QED BY <4>1, <4>2 DEF Waiting, Unmaterialized
    <3> QED BY <1>1, <1>2, <1>4, <3>1 DEF IInv, PassInv
  <2>9. Materialized' = Materialized \cup {v} /\ Charged' = Charged
    BY <1>2, <2>1 DEF Materialized, Charged
  <2>10. BudgetInv'
    BY <1>1, <2>9 DEF IInv, BudgetInv
  <2>11. SafeInv'
    <3>1. Resolved \subseteq Resolved'
      BY <1>2, <2>2 DEF Resolved
    <3>2. DependenciesFirst'
      BY <1>1, <2>9, <3>1 DEF IInv, SafeInv, DependenciesFirst, DepsMet
    <3>3. FailuresSurface' /\ NeverStalls'
      BY <1>1, <1>4, <2>1 DEF IInv, SafeInv, FailuresSurface, NeverStalls
    <3>4. AggregateAligned'
      <4>1. ASSUME NEW m \in ForEach
            PROVE  InstancesOf(m)' = InstancesOf(m) /\ results'[m] = results[m]
                   /\ \A i \in InstancesOf(m) : inst'[i] = inst[i]
        BY <1>1, <2>1, <2>2, DynamicAssumption DEF InstancesOf
      <4> QED BY <1>1, <4>1 DEF IInv, SafeInv, AggregateAligned
    <3> QED BY <3>2, <3>3, <3>4 DEF SafeInv
  <2> QED BY <2>3, <2>4, <2>5, <2>6, <2>7, <2>8, <2>10, <2>11 DEF IInv
<1> QED BY <1>3, <1>4 DEF MaterializeNormal

(* Ending on a rejected expansion preserves the invariant.                 *)
LEMMA RejectExpansionInv ==
  ASSUME IInv, NEW n \in Node, RejectExpansion(n)
  PROVE  IInv'
<1>1. /\ Visit(n) /\ UNCHANGED <<inst, expanded, budget, results>>
      /\ \E code \in ControlledFailures : ControlledFailure(n, code)
  BY DEF RejectExpansion, ControlledFailures
<1>2. pc # "done" /\ UNCHANGED delivered
  BY <1>1, Visited DEF Visit
<1>3. /\ pc' = "done" /\ ending' \notin {"none", "stalled"}
      /\ ending' \in Ending /\ logical' \in [Node -> LogicalState] /\ UNCHANGED progressed
  BY <1>1 DEF ControlledFailure, End, ControlledFailures, Ending, LogicalState, IInv, TypeOK
<1>4. TypeOK'
  BY <1>1, <1>3 DEF IInv, TypeOK, Visit
<1> QED BY <1>1, <1>2, <1>3, <1>4, EndUnchanged

(* A cancellation that wins the wave preserves the invariant.              *)
LEMMA CancelWinsInv == ASSUME IInv, CancelWins PROVE IInv'
<1>1. /\ \A i \in InstanceId : i \in wave \/ inst'[i] = inst[i]
      /\ \A i \in wave : inst'[i] = "pending"
      /\ inst' \in [InstanceId -> InstanceState]
  BY DEF CancelWins, IInv, TypeOK, InstanceState
<1>2. logical' \in [Node -> LogicalState]
  BY DEF CancelWins, IInv, TypeOK, LogicalState, Restored
<1>3. pc # "done" /\ pc' = "done" /\ ending' = "canceled"
  BY DEF CancelWins, End
<1>4. TypeOK'
  BY <1>1, <1>2, <1>3 DEF CancelWins, IInv, TypeOK, Ending, AbandonTimers, Outstanding
<1>5. UNCHANGED <<results, expanded, budget, delivered>>
  BY DEF CancelWins
<1> QED BY <1>1, <1>3, <1>4, <1>5, EndInv

(* A completed delivery preserves the invariant.                           *)
LEMMA TaskCompletesInv ==
  ASSUME IInv, NEW i \in InstanceId, NEW d \in Delivery, TaskCompletes(i, d)
  PROVE  IInv'
<1>1. /\ pc = "await" /\ i \in wave /\ delivered[i] = "none" /\ inst[i] = "running"
      /\ delivered' = [delivered EXCEPT ![i] = d]
      /\ UNCHANGED <<allowed, pass, progressed, logical, inst, expanded, budget, results, wave>>
  BY DEF TaskCompletes, Outstanding, IInv, WaveInv
<1>2. /\ delivered'[i] = d /\ d # "none"
      /\ \A j \in InstanceId : j # i => delivered'[j] = delivered[j]
      /\ delivered' \in [InstanceId -> Delivery \cup {"none"}]
  BY <1>1 DEF IInv, TypeOK, Delivery, Failure, ReturnedFailure
<1>3. CASE End("raised") /\ AbandonTimers(Outstanding \ {i})
  <2>1. pc' = "done" /\ ending' = "raised"
    BY <1>3 DEF End
  <2>2. TypeOK'
    BY <1>1, <1>2, <1>3, <2>1 DEF IInv, TypeOK, Ending, AbandonTimers, Outstanding
  <2>3. \A j \in wave : inst'[j] = "running"
    BY <1>1 DEF IInv, WaveInv, TypeOK
  <2> QED BY <1>1, <1>2, <2>1, <2>2, <2>3, EndInv
<1>4. CASE /\ ~StopsWave(i[1], d, Continuation)
           /\ pc' = IF Outstanding = {i} THEN "apply" ELSE "await"
           /\ UNCHANGED <<ending, canceledTimers>>
  <2>1. /\ Waiting' = Waiting /\ Resolved' = Resolved /\ Charged' = Charged
        /\ Materialized' = Materialized /\ Continuation' = Continuation
    BY <1>1 DEF Waiting, Unmaterialized, Resolved, Charged, Materialized, Continuation
  <2>2. TypeOK' /\ WaveInv' /\ ArrayInv'
    BY <1>1, <1>2, <1>4 DEF IInv, TypeOK, WaveInv, ArrayInv
  <2>3. DeliveryInv'
    <3>1. ASSUME NEW j \in wave
          PROVE  delivered'[j] = "none" \/ ~StopsWave(j[1], delivered'[j], Continuation)
      <4>1. CASE j = i
        BY <1>2, <1>4, <4>1
      <4>2. CASE j # i
        BY <1>1, <1>2, <4>2 DEF IInv, DeliveryInv, TypeOK
      <4> QED BY <4>1, <4>2
    <3>2. ASSUME pc' = "apply", NEW j \in wave PROVE delivered'[j] # "none"
      <4>1. Outstanding = {i}
        BY <1>4, <3>2
      <4>2. CASE j # i
        BY <1>2, <4>1, <4>2 DEF Outstanding, IInv, TypeOK
      <4> QED BY <1>2, <4>2
    <3>3. \A j \in InstanceId :
             inst[j] \in {"absent", "pending", "skipped"} => delivered'[j] = "none"
      BY <1>1, <1>2 DEF IInv, DeliveryInv
    <3> QED BY <1>1, <2>1, <3>1, <3>2, <3>3 DEF DeliveryInv
  <2>4. NodeInv' /\ BudgetInv'
    BY <1>1, <1>4, <2>1 DEF IInv, NodeInv, NormalInv, ForEachInv, BudgetInv
  <2>5. PassInv'
    BY <1>4 DEF PassInv
  <2>6. DependenciesFirst' /\ AggregateAligned' /\ NeverStalls'
    BY <1>1, <1>4, <2>1 DEF IInv, SafeInv, DependenciesFirst, AggregateAligned,
       NeverStalls, InstancesOf
  <2>7. FailuresSurface'
    BY <1>1, <1>2 DEF IInv, SafeInv, FailuresSurface
  <2> QED BY <2>2, <2>3, <2>4, <2>5, <2>6, <2>7 DEF IInv, SafeInv
<1> QED BY <1>3, <1>4 DEF TaskCompletes

(* Applying a whole wave preserves the invariant.                          *)
LEMMA ApplyWaveInv == ASSUME IInv, ApplyWave PROVE IInv'
<1>1. /\ pc = "apply" /\ ending = "none" /\ UNCHANGED <<allowed, expanded, budget, delivered, canceledTimers>>
      /\ \A i \in InstanceId : inst[i] = "running" <=> i \in wave
  BY DEF ApplyWave, IInv, WaveInv, TypeOK
<1>2. CASE End("raised") /\ UNCHANGED <<inst, results, logical, pass, progressed, wave>>
  <2>1. pc' = "done" /\ ending' = "raised"
    BY <1>2 DEF End
  <2>2. TypeOK'
    BY <1>1, <1>2, <2>1 DEF IInv, TypeOK, Ending
  <2> QED BY <1>1, <1>2, <2>1, <2>2, EndUnchanged
<1>3. CASE /\ \A i \in wave : ~FailsOnApply(delivered[i], Continuation)
           /\ inst' = [i \in InstanceId |-> IF i \in wave THEN "completed" ELSE inst[i]]
           /\ results' = [n \in Node |-> IF <<n, None>> \in wave
                                         THEN ResultOf(delivered[<<n, None>>]) ELSE results[n]]
           /\ logical' = [n \in Node |-> IF <<n, None>> \in wave THEN "completed" ELSE logical[n]]
           /\ wave' = {}
           /\ pc' = "scan"
           /\ pass' = Unmaterialized(logical', inst')
           /\ progressed' = FALSE
           /\ UNCHANGED ending
  <2>1. ASSUME NEW i \in wave
        PROVE  /\ delivered[i] \notin {"none", "opaque", "authorization", "handler_contract"}
               /\ delivered[i] \in Failure => i[1] \in Continue
               /\ ResultOf(delivered[i]) \in {"value", "fired", "failure"}
    <3>1. i[1] \in Node /\ delivered[i] \in Delivery /\ Continuation \in BOOLEAN
      BY <1>1, InstanceFacts DEF IInv, TypeOK, DeliveryInv, Continuation, ContinuationWave
    <3>2. ~StopsWave(i[1], delivered[i], Continuation)
      BY <1>1, <3>1 DEF IInv, DeliveryInv
    <3> QED BY <1>3, <3>1, <3>2, HarmlessDelivery
  <2>2. /\ \A i \in wave : inst'[i] = "completed" /\ inst[i] = "running"
        /\ \A i \in InstanceId : i \in wave \/ inst'[i] = inst[i]
        /\ \A i \in InstanceId : inst'[i] = "absent" <=> inst[i] = "absent"
        /\ \A i \in InstanceId : inst'[i] # "running"
    BY <1>1, <1>3 DEF IInv, TypeOK
  <2>3. /\ \A n \in Node : <<n, None>> \in wave =>
              results'[n] \in {"value", "fired", "failure"} /\ logical'[n] = "completed"
        /\ \A n \in Node : <<n, None>> \notin wave =>
              results'[n] = results[n] /\ logical'[n] = logical[n]
    BY <1>3, <2>1
  <2>4. TypeOK'
    <3>1. inst' \in [InstanceId -> InstanceState]
      BY <1>3 DEF IInv, TypeOK, InstanceState
    <3>2. results' \in [Node -> Result]
      BY <1>3, <2>1 DEF IInv, TypeOK, Result
    <3>3. logical' \in [Node -> LogicalState]
      BY <1>3 DEF IInv, TypeOK, LogicalState
    <3> QED BY <1>1, <1>3, <3>1, <3>2, <3>3 DEF IInv, TypeOK, Unmaterialized
  <2>5. WaveInv' /\ DeliveryInv'
    BY <1>1, <1>3, <2>2 DEF IInv, WaveInv, DeliveryInv
  <2>6. ASSUME NEW n \in ForEach
        PROVE  /\ results'[n] = results[n] /\ logical'[n] = logical[n]
               /\ <<n, None>> \notin wave
    <3>1. inst[<<n, None>>] = "absent"
      BY <1>1 DEF IInv, NodeInv, ForEachInv
    <3>2. <<n, None>> \notin wave
      BY <2>2, <3>1
    <3> QED BY <2>3, <3>2, DynamicAssumption
  <2>7. ArrayInv'
    BY <2>3 DEF IInv, ArrayInv
  <2>8. NodeInv'
    <3>1. ASSUME NEW n \in Node \ ForEach PROVE NormalInv(n)'
      <4>1. NormalInv(n)
        BY <1>1, <3>1 DEF IInv, NodeInv
      <4>2. \A k \in 0 .. MaxNodes - 1 : inst'[<<n, k>>] = "absent"
        BY <2>2, <4>1, InstanceFacts DEF NormalInv, None
      <4>3. CASE <<n, None>> \in wave
        BY <2>2, <2>3, <4>2, <4>3 DEF NormalInv
      <4>4. CASE <<n, None>> \notin wave
        BY <2>2, <2>3, <4>1, <4>2, <4>4, InstanceFacts DEF NormalInv
      <4> QED BY <4>3, <4>4
    <3>2. ASSUME NEW n \in ForEach PROVE ForEachInv(n)'
      <4>1. ForEachInv(n)
        BY <1>1 DEF IInv, NodeInv
      <4>2. inst'[<<n, None>>] = "absent"
        BY <2>2, <4>1, InstanceFacts, DynamicAssumption DEF ForEachInv
      <4>3. ASSUME NEW k \in 0 .. MaxNodes - 1
            PROVE  /\ inst'[<<n, k>>] = "absent" <=> inst[<<n, k>>] = "absent"
                   /\ inst'[<<n, k>>] \in {inst[<<n, k>>], "completed"}
        <5>1. <<n, k>> \in InstanceId
          BY DynamicAssumption DEF InstanceId, None
        <5> QED BY <2>2, <5>1
      <4>4. UNCHANGED <<logical[n], results[n], expanded[n]>>
        BY <1>1, <2>6
      <4>5. \A k \in 0 .. MaxNodes - 1 : inst'[<<n, k>>] = "absent" <=> inst[<<n, k>>] = "absent"
        BY <4>3
      <4>6. \A k \in 0 .. MaxNodes - 1 : inst'[<<n, k>>] \in {inst[<<n, k>>], "completed"}
        BY <4>3
      <4>7. logical[n] = "aggregated" =>
              \A k \in 0 .. MaxNodes - 1 : inst'[<<n, k>>] \in {"absent", "completed", "skipped"}
        BY <4>1, <4>6 DEF ForEachInv
      <4> QED BY <4>1, <4>2, <4>4, <4>5, <4>7 DEF ForEachInv
    <3> QED BY <3>1, <3>2 DEF NodeInv
  <2>9. PassInv'
    BY <1>3 DEF PassInv, Waiting
  <2>10. Materialized' = Materialized /\ Charged' = Charged
    BY <2>2 DEF Materialized, Charged
  <2>11. BudgetInv'
    BY <1>1, <2>10 DEF IInv, BudgetInv
  <2>12. DependenciesFirst'
    <3>1. Resolved \subseteq Resolved'
      BY <2>3 DEF Resolved
    <3> QED BY <2>10, <3>1 DEF IInv, SafeInv, DependenciesFirst
  <2>13. FailuresSurface'
    BY <1>1, <2>1, <2>2 DEF IInv, SafeInv, FailuresSurface
  <2>14. AggregateAligned'
    <3>1. ASSUME NEW n \in ForEach
          PROVE  InstancesOf(n)' = InstancesOf(n)
                 /\ \A i \in InstancesOf(n) : inst'[i] \in {inst[i], "completed"}
      BY <2>2 DEF InstancesOf
    <3>2. ASSUME NEW n \in ForEach, results'[n] = "array"
          PROVE  /\ InstancesOf(n)' = {n} \X (0 .. expanded'[n] - 1)
                 /\ \A i \in InstancesOf(n)' : inst'[i] \in {"completed", "skipped"}
      <4>1. /\ InstancesOf(n) = {n} \X (0 .. expanded[n] - 1)
            /\ \A i \in InstancesOf(n) : inst[i] \in {"completed", "skipped"}
        BY <2>6, <3>2 DEF IInv, SafeInv, AggregateAligned
      <4>2. \A i \in InstancesOf(n) : inst'[i] \in {"completed", "skipped"}
        BY <3>1, <4>1
      <4> QED BY <1>1, <3>1, <4>1, <4>2
    <3> QED BY <3>2 DEF AggregateAligned
  <2>15. NeverStalls'
    BY <1>1, <1>3 DEF NeverStalls
  <2> QED BY <2>4, <2>5, <2>7, <2>8, <2>9, <2>11, <2>12, <2>13, <2>14, <2>15 DEF IInv, SafeInv
<1> QED BY <1>2, <1>3 DEF ApplyWave

(* A wave is never empty while an instance is runnable.                    *)
LEMMA NextWaveNonEmpty ==
  ASSUME Runnable # {}
  PROVE  NextWave # {}
<1> DEFINE tasks == {i[1] : i \in Runnable}
           first == {i \in Runnable : \A j \in Runnable : ~(j[1] < i[1])}
           indexes == {i[2] + 1 : i \in first}
<1>1. \A i \in Runnable : i[1] \in Nat /\ i[2] \in Int /\ i[2] + 1 \in Nat /\ i \in InstanceId
  BY InstanceFacts, PlanAssumption, DynamicAssumption DEF Runnable, None
<1>2. first # {}
  <2>1. tasks \in SUBSET Nat /\ tasks # {}
    BY <1>1
  <2>2. PICK n \in tasks : \A m \in tasks : ~(m < n)
    <3> HIDE DEF tasks
    <3> QED BY <2>1, LeastTask
  <2> QED BY <2>2
<1>3. PICK i \in first : \A j \in first : ~(j[2] < i[2])
  <2>1. indexes \in SUBSET Nat /\ indexes # {}
    BY <1>1, <1>2
  <2>2. PICK k \in indexes : \A m \in indexes : ~(m < k)
    <3> HIDE DEF indexes
    <3> QED BY <2>1, LeastTask
  <2>3. PICK i \in first : k = i[2] + 1
    BY <2>2
  <2>4. ASSUME NEW j \in first PROVE ~(j[2] < i[2])
    <3>1. j[2] + 1 \in indexes /\ j \in Runnable
      BY Zenon
    <3>2. j[2] \in Int /\ i[2] \in Int /\ ~(j[2] + 1 < k)
      BY <1>1, <2>2, <3>1
    <3> HIDE DEF indexes, first
    <3> QED BY <2>3, <3>2
  <2> QED BY <2>4
<1>4. \A j \in Runnable : ~Before(j, i)
  <2> SUFFICES ASSUME NEW j \in Runnable, Before(j, i) PROVE FALSE
    OBVIOUS
  <2>1. j[1] = i[1] /\ j[2] < i[2]
    BY DEF Before
  <2>2. j \in first
    BY <2>1
  <2> QED BY <1>3, <2>1, <2>2
<1>5. {j \in Runnable : Before(j, i)} = {}
  BY <1>4
<1>6. Cardinality({j \in Runnable : Before(j, i)}) = 0
  BY <1>5, FS_EmptySet
<1>7. i \in NextWave
  BY <1>6, PlanAssumption DEF NextWave
<1> QED BY <1>7

(* When nothing is left to materialize or to aggregate, an incomplete      *)
(* workflow has a runnable instance.                                       *)
LEMMA SomeRunnable == ASSUME IInv, pc = "dispatch" PROVE Runnable # {}
<1> DEFINE open == {n \in Node : logical[n] \notin {"completed", "skipped", "aggregated"}}
<1>1. /\ \A n \in Node \ ForEach : NormalInv(n)
      /\ \A n \in ForEach : ForEachInv(n)
      /\ \A i \in InstanceId : inst[i] # "running"
  BY DEF IInv, NodeInv, WaveInv
<1>2. \A n \in Waiting : ~DepsMet(n)
  BY DEF IInv, PassInv
<1>3. open \in SUBSET Node /\ open # {}
  BY DEF IInv, PassInv, Complete
<1>4. PICK n \in open : Deps[n] \cap open = {}
  <2> HIDE DEF open
  <2> QED BY <1>3, PlanAssumption DEF Acyclic
<1>5. DepsMet(n)
  <2>1. ASSUME NEW m \in Deps[n] PROVE m \in Resolved
    <3>1. m \in Node /\ logical[m] \in {"completed", "skipped", "aggregated"}
      BY <1>4, PlanAssumption
    <3>2. CASE m \in ForEach
      BY <1>1, <3>1, <3>2 DEF ForEachInv, Resolved
    <3>3. CASE m \notin ForEach
      BY <1>1, <3>1, <3>3 DEF NormalInv, Resolved
    <3> QED BY <3>2, <3>3
  <2> QED BY <2>1 DEF DepsMet
<1>6. n \in Node /\ n \notin Waiting /\ logical[n] \notin {"completed", "skipped", "aggregated"}
  BY <1>2, <1>4, <1>5
<1>7. CASE n \notin ForEach
  <2>1. NormalInv(n) /\ <<n, None>> \in InstanceId
    BY <1>1, <1>6, <1>7, InstanceFacts
  <2>2. inst[<<n, None>>] # "absent"
    <3>1. ASSUME inst[<<n, None>>] = "absent" PROVE n \in Waiting
      <4>1. \A k \in None .. MaxNodes - 1 : k = None \/ k \in 0 .. MaxNodes - 1
        BY DynamicAssumption DEF None
      <4> QED BY <1>6, <2>1, <3>1, <4>1 DEF NormalInv, Waiting, Unmaterialized
    <3> QED BY <1>6, <3>1
  <2>3. inst[<<n, None>>] = "pending"
    BY <1>1, <1>6, <2>1, <2>2 DEF NormalInv, IInv, TypeOK, InstanceState
  <2> QED BY <2>1, <2>3 DEF Runnable
<1>8. CASE n \in ForEach
  <2>1. ForEachInv(n)
    BY <1>1, <1>8
  <2>2. logical[n] # "pending"
    <3>1. ASSUME logical[n] = "pending" PROVE n \in Waiting
      <4>1. \A k \in None .. MaxNodes - 1 : k = None \/ k \in 0 .. MaxNodes - 1
        BY DynamicAssumption DEF None
      <4> QED BY <1>6, <2>1, <3>1, <4>1 DEF ForEachInv, Waiting, Unmaterialized
    <3> QED BY <1>6, <3>1
  <2>3. logical[n] \in {"expanded", "running"}
    BY <1>6, <2>1, <2>2 DEF ForEachInv
  <2>4. n \notin Aggregatable
    BY DEF IInv, PassInv
  <2>5. <<n, 0>> \in InstancesOf(n)
    <3>1. 0 \in 0 .. MaxNodes - 1 /\ <<n, 0>> \in InstanceId /\ 0 < expanded[n]
      BY <1>8, <2>1, <2>3, DynamicAssumption DEF ForEachInv, InstanceId, None, IInv, TypeOK
    <3>2. inst[<<n, 0>>] # "absent"
      BY <2>1, <2>2, <3>1 DEF ForEachInv
    <3> QED BY <3>1, <3>2 DEF InstancesOf
  <2>6. PICK i \in InstancesOf(n) : inst[i] \notin {"completed", "skipped"}
    BY <1>8, <2>3, <2>4, <2>5 DEF Aggregatable
  <2>7. i \in InstanceId /\ inst[i] # "absent"
    BY DEF InstancesOf
  <2>8. inst[i] = "pending"
    BY <1>1, <2>6, <2>7 DEF IInv, TypeOK, InstanceState
  <2> QED BY <2>7, <2>8 DEF Runnable
<1> QED BY <1>7, <1>8

(* Dispatching the next wave preserves the invariant.                      *)
LEMMA DispatchInv == ASSUME IInv, Dispatch PROVE IInv'
<1>1. /\ pc = "dispatch" /\ ending = "none" /\ Runnable # {} /\ NextWave # {}
      /\ NextWave \subseteq Runnable /\ wave = {}
      /\ UNCHANGED <<allowed, pass, progressed, expanded, budget, results, delivered,
                     canceledTimers>>
  BY SomeRunnable, NextWaveNonEmpty DEF Dispatch, NextWave, IInv, WaveInv, TypeOK
<1>2. CASE End("raised") /\ UNCHANGED <<wave, inst, logical>>
  <2>1. pc' = "done" /\ ending' = "raised"
    BY <1>2 DEF End
  <2>2. TypeOK'
    BY <1>1, <1>2, <2>1 DEF IInv, TypeOK, Ending
  <2> QED BY <1>1, <1>2, <2>1, <2>2, EndUnchanged
<1>3. CASE /\ wave' = NextWave
           /\ inst' = [i \in InstanceId |-> IF i \in NextWave THEN "running" ELSE inst[i]]
           /\ logical' = [n \in Node |-> IF \E i \in NextWave : i[1] = n
                                         THEN "running" ELSE logical[n]]
           /\ pc' = "await"
           /\ UNCHANGED ending
  <2>1. /\ \A i \in NextWave : i \in InstanceId /\ inst[i] = "pending" /\ inst'[i] = "running"
        /\ \A i \in InstanceId : i \in NextWave \/ inst'[i] = inst[i]
        /\ \A i \in InstanceId : inst'[i] = "absent" <=> inst[i] = "absent"
    BY <1>1, <1>3 DEF Runnable
  <2>2. \A i \in InstanceId : inst'[i] = "running" <=> i \in NextWave
    <3>1. \A i \in InstanceId : inst[i] # "running"
      BY <1>1 DEF IInv, WaveInv
    <3> QED BY <2>1, <3>1
  <2>3. TypeOK'
    <3>1. inst' \in [InstanceId -> InstanceState]
      BY <1>3 DEF IInv, TypeOK, InstanceState
    <3>2. logical' \in [Node -> LogicalState]
      BY <1>3 DEF IInv, TypeOK, LogicalState
    <3> QED BY <1>1, <1>3, <2>1, <3>1, <3>2 DEF IInv, TypeOK
  <2>4. WaveInv'
    BY <1>1, <1>3, <2>2 DEF WaveInv
  <2>5. DeliveryInv'
    <3>1. \A i \in NextWave : delivered[i] = "none"
      BY <1>1, <2>1 DEF IInv, DeliveryInv
    <3>2. \A i \in InstanceId :
             inst'[i] \in {"absent", "pending", "skipped"} => delivered[i] = "none"
      BY <1>1, <2>1 DEF IInv, DeliveryInv
    <3> QED BY <1>1, <1>3, <3>1, <3>2 DEF DeliveryInv
  <2>6. NodeInv'
    <3>1. ASSUME NEW n \in Node \ ForEach PROVE NormalInv(n)'
      <4>1. NormalInv(n)
        BY <1>1 DEF IInv, NodeInv
      <4>2. \A k \in 0 .. MaxNodes - 1 : inst'[<<n, k>>] = "absent"
        BY <2>1, <4>1, InstanceFacts DEF NormalInv, None
      <4>3. (\E i \in NextWave : i[1] = n) <=> <<n, None>> \in NextWave
        <5>1. ASSUME NEW i \in NextWave, i[1] = n PROVE i = <<n, None>>
          <6>1. i = <<n, i[2]>> /\ i[2] \in None .. MaxNodes - 1 /\ inst[i] # "absent"
            BY <2>1, <5>1, InstanceFacts
          <6>2. i[2] \notin 0 .. MaxNodes - 1
            BY <4>1, <6>1 DEF NormalInv
          <6>3. i[2] = None
            BY <6>1, <6>2, DynamicAssumption DEF None
          <6> QED BY <6>1, <6>3
        <5> QED BY <5>1
      <4>4. /\ logical'[n] = IF <<n, None>> \in NextWave THEN "running" ELSE logical[n]
            /\ results'[n] = results[n]
        BY <1>1, <1>3, <4>3
      <4>5. CASE <<n, None>> \in NextWave
        <5>1. inst[<<n, None>>] = "pending" /\ inst'[<<n, None>>] = "running"
          BY <2>1, <4>5
        <5> QED BY <4>1, <4>2, <4>4, <4>5, <5>1 DEF NormalInv
      <4>6. CASE <<n, None>> \notin NextWave
        <5>1. inst'[<<n, None>>] = inst[<<n, None>>]
          BY <2>1, <4>6, InstanceFacts
        <5> QED BY <4>1, <4>2, <4>4, <4>6, <5>1 DEF NormalInv
      <4> QED BY <4>5, <4>6
    <3>2. ASSUME NEW n \in ForEach PROVE ForEachInv(n)'
      <4>1. ForEachInv(n) /\ n \in Node
        BY <1>1, DynamicAssumption DEF IInv, NodeInv
      <4>2. ASSUME NEW i \in NextWave, i[1] = n PROVE logical[n] \in {"expanded", "running"}
        <5>1. i = <<n, i[2]>> /\ i[2] \in None .. MaxNodes - 1 /\ inst[i] = "pending"
          BY <2>1, <4>2, InstanceFacts
        <5>2. i[2] # None
          BY <4>1, <5>1 DEF ForEachInv
        <5>3. i[2] \in 0 .. MaxNodes - 1
          BY <5>1, <5>2, DynamicAssumption DEF None
        <5> QED BY <4>1, <5>1, <5>3 DEF ForEachInv
      <4>3. inst'[<<n, None>>] = "absent"
        BY <2>1, <4>1, InstanceFacts DEF ForEachInv
      <4>4. \A k \in 0 .. MaxNodes - 1 : inst'[<<n, k>>] = "absent" <=> inst[<<n, k>>] = "absent"
        <5>1. ASSUME NEW k \in 0 .. MaxNodes - 1 PROVE <<n, k>> \in InstanceId
          BY <4>1, DynamicAssumption DEF InstanceId, None
        <5> QED BY <2>1, <5>1
      <4>5. UNCHANGED <<results[n], expanded[n]>>
        BY <1>1
      <4>6. CASE \E i \in NextWave : i[1] = n
        <5>1. logical[n] \in {"expanded", "running"} /\ logical'[n] = "running"
          BY <1>3, <4>1, <4>2, <4>6
        <5> QED BY <4>1, <4>3, <4>4, <4>5, <5>1 DEF ForEachInv
      <4>7. CASE \A i \in NextWave : i[1] # n
        <5>1. logical'[n] = logical[n]
          BY <1>3, <4>1, <4>7
        <5>2. \A k \in 0 .. MaxNodes - 1 : inst'[<<n, k>>] = inst[<<n, k>>]
          <6>1. ASSUME NEW k \in 0 .. MaxNodes - 1
                PROVE  <<n, k>> \in InstanceId /\ <<n, k>> \notin NextWave
            BY <4>1, <4>7, DynamicAssumption DEF InstanceId, None
          <6> QED BY <2>1, <6>1
        <5> QED BY <4>1, <4>3, <4>4, <4>5, <5>1, <5>2 DEF ForEachInv
      <4> QED BY <4>6, <4>7
    <3> QED BY <3>1, <3>2 DEF NodeInv
  <2>7. ArrayInv' /\ PassInv' /\ NeverStalls'
    BY <1>1, <1>3 DEF IInv, ArrayInv, PassInv, NeverStalls
  <2>8. Materialized' = Materialized /\ Charged' = Charged /\ Resolved' = Resolved
    BY <1>1, <2>1 DEF Materialized, Charged, Resolved
  <2>9. BudgetInv' /\ DependenciesFirst'
    BY <1>1, <2>8 DEF IInv, BudgetInv, SafeInv, DependenciesFirst
  <2>10. FailuresSurface'
    <3>1. \A i \in InstanceId : inst'[i] = "completed" => inst[i] = "completed"
      BY <2>1
    <3> QED BY <1>1, <3>1 DEF IInv, SafeInv, FailuresSurface
  <2>11. AggregateAligned'
    <3>1. ASSUME NEW n \in ForEach, results[n] = "array"
          PROVE  /\ InstancesOf(n)' = {n} \X (0 .. expanded[n] - 1)
                 /\ \A i \in InstancesOf(n)' : inst'[i] \in {"completed", "skipped"}
      <4>1. /\ InstancesOf(n) = {n} \X (0 .. expanded[n] - 1)
            /\ \A i \in InstancesOf(n) : inst[i] \in {"completed", "skipped"}
        BY <3>1 DEF IInv, SafeInv, AggregateAligned
      <4>2. InstancesOf(n)' = InstancesOf(n)
        BY <2>1 DEF InstancesOf
      <4>3. ASSUME NEW i \in InstancesOf(n) PROVE inst'[i] = inst[i]
        BY <2>1, <4>1 DEF InstancesOf
      <4> QED BY <4>1, <4>2, <4>3
    <3> QED BY <1>1, <3>1 DEF AggregateAligned
  <2> QED BY <2>3, <2>4, <2>5, <2>6, <2>7, <2>9, <2>10, <2>11 DEF IInv, SafeInv
<1> QED BY <1>1, <1>2, <1>3 DEF Dispatch

(* The instances of an expanded task are those its count says.             *)
LEMMA ExpandedInstances ==
  ASSUME NEW n \in ForEach, ForEachInv(n), logical[n] # "pending", expanded[n] \in Nat
  PROVE  InstancesOf(n) = {n} \X (0 .. expanded[n] - 1)
<1>1. n \in Node /\ MaxNodes \in Nat /\ inst[<<n, None>>] = "absent"
  BY DynamicAssumption DEF ForEachInv
<1>2. expanded[n] <= MaxNodes
  BY DEF ForEachInv
<1>3. \A k \in 0 .. MaxNodes - 1 : inst[<<n, k>>] # "absent" <=> k < expanded[n]
  BY DEF ForEachInv
<1>4. ASSUME NEW i \in InstancesOf(n) PROVE i \in {n} \X (0 .. expanded[n] - 1)
  <2>1. i = <<n, i[2]>> /\ i[2] \in None .. MaxNodes - 1 /\ inst[i] # "absent"
    BY InstanceFacts DEF InstancesOf
  <2>2. i[2] # None
    BY <1>1, <2>1
  <2>3. i[2] \in 0 .. MaxNodes - 1
    BY <1>1, <2>1, <2>2 DEF None
  <2>4. i[2] < expanded[n]
    BY <1>3, <2>1, <2>3
  <2>5. i[2] \in 0 .. expanded[n] - 1
    BY <1>1, <2>3, <2>4
  <2> QED BY <2>1, <2>5
<1>5. ASSUME NEW k \in 0 .. expanded[n] - 1 PROVE <<n, k>> \in InstancesOf(n)
  <2>1. k \in 0 .. MaxNodes - 1 /\ k < expanded[n]
    BY <1>1, <1>2
  <2>2. inst[<<n, k>>] # "absent"
    BY <1>3, <2>1
  <2>3. <<n, k>> \in InstanceId
    BY <1>1, <2>1 DEF InstanceId, None
  <2> QED BY <2>2, <2>3 DEF InstancesOf
<1> QED BY <1>4, <1>5

(* Aggregating an expanded task preserves the invariant.                   *)
LEMMA AggregateInv == ASSUME IInv, Aggregate PROVE IInv'
<1>1. /\ pc = "aggregate" /\ ending = "none"
      /\ UNCHANGED <<allowed, inst, expanded, budget, wave, delivered, canceledTimers>>
      /\ results' = [n \in Node |-> IF n \in Aggregatable THEN "array" ELSE results[n]]
      /\ logical' = [n \in Node |-> IF n \in Aggregatable THEN "aggregated" ELSE logical[n]]
  BY DEF Aggregate, IInv, WaveInv, TypeOK
<1>2. results' \in [Node -> Result] /\ logical' \in [Node -> LogicalState]
  BY <1>1 DEF IInv, TypeOK, Result, LogicalState
<1>3. Aggregatable = {} => results' = results /\ logical' = logical
  BY <1>1 DEF IInv, TypeOK
<1>4. CASE ~Progress /\ Complete(logical) /\ End("completed") /\ UNCHANGED <<pass, progressed>>
  <2>1. results' = results /\ logical' = logical /\ pc' = "done" /\ ending' = "completed"
    BY <1>3, <1>4 DEF Progress, End
  <2>2. TypeOK'
    BY <1>1, <1>4, <2>1 DEF IInv, TypeOK, Ending
  <2> QED BY <1>1, <2>1, <2>2, EndUnchanged
<1>5. CASE /\ pc' \in {"scan", "dispatch"}
           /\ pass' \subseteq Node
           /\ progressed' \in BOOLEAN
           /\ PassInv'
           /\ UNCHANGED ending
  <2>1. TypeOK'
    BY <1>1, <1>2, <1>5 DEF IInv, TypeOK
  <2>2. WaveInv' /\ DeliveryInv'
    BY <1>1, <1>5 DEF IInv, WaveInv, DeliveryInv
  <2>3. ArrayInv' /\ NeverStalls'
    BY <1>1, <1>5 DEF IInv, ArrayInv, Aggregatable, NeverStalls
  <2>4. ASSUME NEW n \in Aggregatable
        PROVE  /\ n \in ForEach /\ n \in Node /\ logical[n] \in {"expanded", "running"}
               /\ ForEachInv(n)
               /\ \A i \in InstancesOf(n) : inst[i] \in {"completed", "skipped"}
    BY <1>1, DynamicAssumption DEF Aggregatable, IInv, NodeInv
  <2>5. NodeInv'
    <3>1. ASSUME NEW n \in Node \ ForEach PROVE NormalInv(n)'
      <4>1. UNCHANGED <<logical[n], results[n], inst>> /\ NormalInv(n)
        BY <1>1, <2>4 DEF IInv, NodeInv
      <4> QED BY <4>1 DEF NormalInv
    <3>2. ASSUME NEW n \in ForEach PROVE ForEachInv(n)'
      <4>1. ForEachInv(n) /\ n \in Node /\ UNCHANGED <<inst, expanded>>
        BY <1>1, DynamicAssumption DEF IInv, NodeInv
      <4>2. CASE n \notin Aggregatable
        <5>1. UNCHANGED <<logical[n], results[n]>>
          BY <1>1, <4>1, <4>2
        <5> QED BY <4>1, <5>1 DEF ForEachInv
      <4>3. CASE n \in Aggregatable
        <5>1. logical'[n] = "aggregated" /\ results'[n] = "array"
          BY <1>1, <4>1, <4>3
        <5>2. ASSUME NEW k \in 0 .. MaxNodes - 1, inst[<<n, k>>] # "absent"
              PROVE  inst[<<n, k>>] \in {"completed", "skipped"}
          <6>1. <<n, k>> \in InstancesOf(n)
            BY <4>1, <5>2, DynamicAssumption DEF InstancesOf, InstanceId, None
          <6> QED BY <2>4, <4>3, <6>1
        <5> QED BY <2>4, <4>1, <4>3, <5>1, <5>2 DEF ForEachInv
      <4> QED BY <4>2, <4>3
    <3> QED BY <3>1, <3>2 DEF NodeInv
  <2>6. Materialized' = Materialized /\ Charged' = Charged /\ Resolved \subseteq Resolved'
    BY <1>1 DEF Materialized, Charged, Resolved
  <2>7. BudgetInv' /\ DependenciesFirst' /\ FailuresSurface'
    BY <1>1, <2>6 DEF IInv, BudgetInv, SafeInv, DependenciesFirst, FailuresSurface
  <2>8. AggregateAligned'
    <3>1. ASSUME NEW n \in ForEach, results'[n] = "array"
          PROVE  /\ InstancesOf(n) = {n} \X (0 .. expanded[n] - 1)
                 /\ \A i \in InstancesOf(n) : inst[i] \in {"completed", "skipped"}
      <4>1. CASE n \in Aggregatable
        <5>1. ForEachInv(n) /\ logical[n] # "pending" /\ expanded[n] \in Nat
          BY <2>4, <4>1 DEF IInv, TypeOK
        <5> QED BY <2>4, <4>1, <5>1, ExpandedInstances
      <4>2. CASE n \notin Aggregatable
        <5>1. results[n] = "array"
          BY <1>1, <3>1, <4>2, DynamicAssumption
        <5> QED BY <5>1 DEF IInv, SafeInv, AggregateAligned
      <4> QED BY <4>1, <4>2
    <3>2. \A n \in ForEach : InstancesOf(n)' = InstancesOf(n)
      BY <1>1 DEF InstancesOf
    <3> QED BY <1>1, <3>1, <3>2 DEF AggregateAligned
  <2> QED BY <1>5, <2>1, <2>2, <2>3, <2>5, <2>7, <2>8 DEF IInv, SafeInv
<1>6. CASE /\ pc' = "scan"
           /\ pass' = Unmaterialized(logical', inst)
           /\ progressed' = FALSE
           /\ UNCHANGED ending
  <2>1. pass' = Waiting' /\ pass' \subseteq Node
    BY <1>1, <1>6 DEF Waiting, Unmaterialized
  <2>2. PassInv'
    BY <1>6, <2>1 DEF PassInv
  <2> QED BY <1>5, <1>6, <2>1, <2>2
<1>7. CASE /\ ~Progress
           /\ ~Complete(logical)
           /\ pc' = "dispatch"
           /\ UNCHANGED <<pass, progressed, ending>>
  <2>1. Aggregatable = {} /\ ~progressed /\ UNCHANGED <<results, logical, inst>>
    BY <1>1, <1>3, <1>7 DEF Progress
  <2>2. Waiting' = Waiting /\ Resolved' = Resolved
    BY <2>1 DEF Waiting, Unmaterialized, Resolved
  <2>3. Aggregatable' = Aggregatable
    BY <2>1 DEF Aggregatable, InstancesOf
  <2>4. \A n \in Waiting : ~DepsMet(n)
    BY <1>1, <2>1 DEF IInv, PassInv
  <2>5. PassInv'
    BY <1>7, <2>1, <2>2, <2>3, <2>4 DEF PassInv, DepsMet, Complete
  <2>6. pass' \subseteq Node /\ progressed' \in BOOLEAN
    BY <1>7 DEF IInv, TypeOK
  <2> QED BY <1>5, <1>7, <2>5, <2>6
<1> QED BY <1>4, <1>6, <1>7 DEF Aggregate

(* An array reference resolves to a natural number of elements.            *)
LEMMA ArrayLengthsNat ==
  ASSUME IInv, NEW s \in Node, NEW count \in ArrayLengths(s)
  PROVE  count \in Nat
<1>1. results[s] = "array" => expanded[s] \in Nat
  BY DEF IInv, ArrayInv, TypeOK
<1>2. 0 .. MaxLen \subseteq Nat
  BY DynamicAssumption
<1>3. results[s] \in {"array", "value"}
  BY DEF ArrayLengths
<1>4. CASE results[s] = "value"
  BY <1>2, <1>4 DEF ArrayLengths
<1>5. CASE results[s] = "array"
  BY <1>1, <1>2, <1>5 DEF ArrayLengths
<1> QED BY <1>3, <1>4, <1>5

(* Expanding charges at most one instance per element.                     *)
LEMMA ExpansionCharge ==
  ASSUME NEW n, NEW count \in Nat, NEW S, IsFiniteSet(S),
         NEW T \in SUBSET (S \cup ({n} \X (0 .. count - 1)))
  PROVE  IsFiniteSet(T) /\ Cardinality(T) <= Cardinality(S) + count
<1> DEFINE X == {n} \X (0 .. count - 1)
           f == [k \in 0 .. count - 1 |-> <<n, k>>]
<1>1. IsFiniteSet(0 .. count - 1) /\ Cardinality(0 .. count - 1) = count
  <2>1. 0 \in Int /\ count - 1 \in Int
    OBVIOUS
  <2>2. /\ IsFiniteSet(0 .. count - 1)
        /\ Cardinality(0 .. count - 1) = IF 0 > count - 1 THEN 0 ELSE count - 1 - 0 + 1
    BY <2>1, FS_Interval
  <2> QED BY <2>2
<1>2. f \in Surjection(0 .. count - 1, X)
  <2>1. f \in [0 .. count - 1 -> X]
    OBVIOUS
  <2>2. ASSUME NEW x \in X PROVE \E k \in 0 .. count - 1 : f[k] = x
    <3>1. x[2] \in 0 .. count - 1 /\ x = <<n, x[2]>>
      OBVIOUS
    <3>2. f[x[2]] = x
      BY <3>1
    <3> QED BY <3>1, <3>2
  <2> HIDE DEF f, X
  <2> QED BY <2>1, <2>2 DEF Surjection
<1>3. IsFiniteSet(X) /\ Cardinality(X) <= count
  BY <1>1, <1>2, FS_Surjection
<1>4. /\ IsFiniteSet(S \cup X) /\ IsFiniteSet(S \cap X)
      /\ Cardinality(S \cup X) = Cardinality(S) + Cardinality(X) - Cardinality(S \cap X)
  BY <1>3, FS_Union, FS_Intersection
<1>5. /\ Cardinality(S) \in Nat /\ Cardinality(X) \in Nat /\ Cardinality(S \cup X) \in Nat
      /\ Cardinality(S \cap X) \in Nat
  BY <1>3, <1>4, FS_CardinalityType
<1>6. IsFiniteSet(T) /\ Cardinality(T) <= Cardinality(S \cup X)
  BY <1>4, FS_Subset
<1>7. Cardinality(T) \in Nat
  BY <1>6, FS_CardinalityType
<1> QED BY <1>3, <1>4, <1>5, <1>6, <1>7

(* Expanding a for_each task preserves the invariant.                      *)
LEMMA ExpandForEachInv ==
  ASSUME IInv, NEW n \in Node, ExpandForEach(n)
  PROVE  IInv'
<1>1. /\ n \in ForEach /\ DepsMet(n) /\ Visit(n) /\ pass' = pass \ {n}
      /\ UNCHANGED <<allowed, wave, delivered, canceledTimers>>
  BY DEF ExpandForEach, Visit
<1>2. /\ pc = "scan" /\ ending = "none" /\ wave = {}
      /\ \A k \in None .. MaxNodes - 1 : inst[<<n, k>>] = "absent"
      /\ ForEachInv(n) /\ results[n] = "unset" /\ logical[n] = "pending"
  BY <1>1, Visited
<1>3. PICK count \in ArrayLengths(Source[n]) :
        /\ ~ExceedsLimit(count)
        /\ budget' = budget + count
        /\ expanded' = [expanded EXCEPT ![n] = count]
        /\ \E decide \in [0 .. count - 1 -> Decisions(n)] :
            /\ inst' = ExpandedStates(n, count, decide)
            /\ \/ /\ \E k \in DOMAIN decide : decide[k] = "error"
                  /\ ControlledFailure(n, "value_error")
                  /\ UNCHANGED results
               \/ /\ \A k \in DOMAIN decide : decide[k] # "error"
                  /\ NothingToRun(decide)
                  /\ results' = [results EXCEPT ![n] = "array"]
                  /\ logical' = [logical EXCEPT ![n] = "aggregated"]
                  /\ progressed' = TRUE
                  /\ UNCHANGED <<pc, ending>>
               \/ /\ \A k \in DOMAIN decide : decide[k] # "error"
                  /\ ~NothingToRun(decide)
                  /\ logical' = [logical EXCEPT ![n] = "expanded"]
                  /\ progressed' = TRUE
                  /\ UNCHANGED <<pc, ending, results>>
  BY DEF ExpandForEach
<1>4. PICK decide \in [0 .. count - 1 -> Decisions(n)] :
            /\ inst' = ExpandedStates(n, count, decide)
            /\ \/ /\ \E k \in DOMAIN decide : decide[k] = "error"
                  /\ ControlledFailure(n, "value_error")
                  /\ UNCHANGED results
               \/ /\ \A k \in DOMAIN decide : decide[k] # "error"
                  /\ NothingToRun(decide)
                  /\ results' = [results EXCEPT ![n] = "array"]
                  /\ logical' = [logical EXCEPT ![n] = "aggregated"]
                  /\ progressed' = TRUE
                  /\ UNCHANGED <<pc, ending>>
               \/ /\ \A k \in DOMAIN decide : decide[k] # "error"
                  /\ ~NothingToRun(decide)
                  /\ logical' = [logical EXCEPT ![n] = "expanded"]
                  /\ progressed' = TRUE
                  /\ UNCHANGED <<pc, ending, results>>
  BY <1>3
<1>5. count \in Nat /\ budget \in Nat /\ MaxNodes \in Nat /\ budget + count <= MaxNodes
  <2>1. Source[n] \in Node
    BY <1>1, DynamicAssumption
  <2>2. count \in Nat
    BY <2>1, ArrayLengthsNat
  <2> QED BY <1>3, <2>2, DynamicAssumption DEF ExceedsLimit, IInv, TypeOK
(* What the step does to the instances.                                    *)
<1>6. inst' \in [InstanceId -> InstanceState]
  BY <1>4 DEF ExpandedStates, IInv, TypeOK, InstanceState
<1>7. \A i \in InstanceId : i[1] # n => inst'[i] = inst[i]
  BY <1>4 DEF ExpandedStates
<1>8. \A k \in None .. MaxNodes - 1 : k \notin 0 .. count - 1 => inst'[<<n, k>>] = "absent"
  BY <1>2, <1>4, InstanceFacts DEF ExpandedStates
<1>9. \A i \in InstanceId : i[1] = n => inst'[i] \in {"absent", "pending", "skipped"}
  <2>1. ASSUME NEW i \in InstanceId, i[1] = n
        PROVE  inst'[i] \in {inst[i], "absent", "pending", "skipped"} /\ inst[i] = "absent"
    BY <1>2, <1>4, <2>1, InstanceFacts DEF ExpandedStates
  <2> QED BY <2>1
<1>10. \A k \in 0 .. count - 1 :
         <<n, k>> \in InstanceId /\ k \in 0 .. MaxNodes - 1
  BY <1>5 DEF InstanceId, None
<1>11. ASSUME \A k \in DOMAIN decide : decide[k] # "error", NEW k \in 0 .. count - 1
       PROVE  inst'[<<n, k>>] = IF decide[k] = "skip" THEN "skipped" ELSE "pending"
  <2>1. \A j \in 0 .. k : j \in DOMAIN decide
    BY <1>5
  <2> QED BY <1>4, <1>10, <1>11, <2>1 DEF ExpandedStates
(* What the step does to the other tasks.                                  *)
<1>12. /\ results' \in [Node -> Result] /\ logical' \in [Node -> LogicalState]
       /\ \A m \in Node : m # n => results'[m] = results[m] /\ logical'[m] = logical[m]
       /\ results'[n] \in {"unset", "array"}
  BY <1>2, <1>4 DEF IInv, TypeOK, ControlledFailure, Result, LogicalState
<1>13. /\ expanded' \in [ForEach -> Nat] /\ expanded'[n] = count
       /\ \A m \in ForEach : m # n => expanded'[m] = expanded[m]
  BY <1>1, <1>3, <1>5 DEF IInv, TypeOK
<1>14. TypeOK'
  <2>1. pc' \in {"scan", "done"} /\ ending' \in Ending /\ progressed' \in BOOLEAN
    BY <1>2, <1>4 DEF ControlledFailure, End, Ending, ControlledFailures, IInv, TypeOK
  <2>2. budget' \in Nat
    BY <1>3, <1>5
  <2> QED BY <1>1, <1>6, <1>12, <1>13, <2>1, <2>2 DEF IInv, TypeOK
<1>15. ArrayInv'
  BY <1>1, <1>12 DEF IInv, ArrayInv
<1>16. Materialized' \subseteq Materialized \cup ({n} \X (0 .. count - 1))
  <2>1. ASSUME NEW i \in InstanceId, inst'[i] # "absent", i[1] = n
        PROVE  i \in {n} \X (0 .. count - 1)
    <3>1. i = <<n, i[2]>> /\ i[2] \in None .. MaxNodes - 1
      BY <2>1, InstanceFacts
    <3>2. i[2] \in 0 .. count - 1
      BY <1>8, <2>1, <3>1
    <3> QED BY <3>1, <3>2
  <2>2. ASSUME NEW i \in InstanceId, inst'[i] # "absent", i[1] # n
        PROVE  i \in Materialized
    BY <1>7, <2>2 DEF Materialized
  <2> QED BY <2>1, <2>2 DEF Materialized
<1>17. BudgetInv'
  <2>1. Charged' \subseteq Charged \cup ({n} \X (0 .. count - 1))
    BY <1>16 DEF Charged
  <2>2. IsFiniteSet(Charged) /\ Cardinality(Charged) <= budget /\ Cardinality(Charged) \in Nat
    BY FS_CardinalityType DEF IInv, BudgetInv
  <2>3. IsFiniteSet(Charged') /\ Cardinality(Charged') <= Cardinality(Charged) + count
    BY <1>5, <2>1, <2>2, ExpansionCharge
  <2>4. Cardinality(Charged') \in Nat
    BY <2>3, FS_CardinalityType
  <2>5. Cardinality(Charged)' = Cardinality(Charged')
    OBVIOUS
  <2> QED BY <1>3, <1>5, <2>2, <2>3, <2>4, <2>5 DEF BudgetInv
<1>18. DependenciesFirst'
  <2>1. Resolved \subseteq Resolved'
    BY <1>2, <1>12 DEF Resolved
  <2>2. ASSUME NEW i \in Materialized' PROVE Deps[i[1]] \subseteq Resolved
    <3>1. CASE i \in Materialized
      BY <3>1 DEF IInv, SafeInv, DependenciesFirst
    <3>2. CASE i \in {n} \X (0 .. count - 1)
      <4>1. i[1] = n
        BY <3>2
      <4> QED BY <1>1, <4>1 DEF DepsMet
    <3> QED BY <1>16, <3>1, <3>2
  <2> QED BY <2>1, <2>2 DEF DependenciesFirst
<1>19. FailuresSurface'
  <2>1. \A i \in InstanceId : inst'[i] = "completed" => inst[i] = "completed"
    BY <1>7, <1>9
  <2> QED BY <1>1, <2>1 DEF IInv, SafeInv, FailuresSurface
<1>20. NeverStalls'
  BY <1>2, <1>4 DEF NeverStalls, ControlledFailure, End
<1>21. ASSUME NEW m \in ForEach, m # n, results'[m] = "array"
       PROVE  /\ InstancesOf(m)' = {m} \X (0 .. expanded'[m] - 1)
              /\ \A i \in InstancesOf(m)' : inst'[i] \in {"completed", "skipped"}
  <2>1. InstancesOf(m)' = InstancesOf(m) /\ \A i \in InstancesOf(m) : inst'[i] = inst[i]
    BY <1>7, <1>21 DEF InstancesOf
  <2>2. results[m] = "array" /\ expanded'[m] = expanded[m]
    BY <1>12, <1>13, <1>21, DynamicAssumption
  <2>3. /\ InstancesOf(m) = {m} \X (0 .. expanded[m] - 1)
        /\ \A i \in InstancesOf(m) : inst[i] \in {"completed", "skipped"}
    BY <2>2 DEF IInv, SafeInv, AggregateAligned
  <2> QED BY <2>1, <2>2, <2>3
<1>22. ASSUME results'[n] = "array"
       PROVE  /\ InstancesOf(n)' = {n} \X (0 .. expanded'[n] - 1)
              /\ \A i \in InstancesOf(n)' : inst'[i] \in {"completed", "skipped"}
  <2>1. \A k \in DOMAIN decide : decide[k] # "error" /\ decide[k] = "skip"
    BY <1>2, <1>4, <1>22 DEF NothingToRun
  <2>2. \A k \in 0 .. count - 1 : inst'[<<n, k>>] = "skipped"
    BY <1>11, <2>1
  <2>3. ASSUME NEW i \in InstancesOf(n)' PROVE i \in {n} \X (0 .. count - 1)
    <3>1. i \in InstanceId /\ i[1] = n /\ inst'[i] # "absent"
      BY DEF InstancesOf
    <3>2. i = <<n, i[2]>> /\ i[2] \in None .. MaxNodes - 1
      BY <3>1, InstanceFacts
    <3>3. i[2] \in 0 .. count - 1
      BY <1>8, <3>1, <3>2
    <3> QED BY <3>2, <3>3
  <2>4. ASSUME NEW k \in 0 .. count - 1 PROVE <<n, k>> \in InstancesOf(n)'
    BY <1>10, <2>2 DEF InstancesOf
  <2>5. InstancesOf(n)' = {n} \X (0 .. count - 1)
    BY <2>3, <2>4
  <2>6. ASSUME NEW i \in {n} \X (0 .. count - 1) PROVE inst'[i] = "skipped"
    <3>1. i = <<n, i[2]>> /\ i[2] \in 0 .. count - 1
      OBVIOUS
    <3> QED BY <2>2, <3>1
  <2> QED BY <1>13, <2>5, <2>6
<1>23. AggregateAligned'
  BY <1>21, <1>22 DEF AggregateAligned
<1>24. CASE pc' = "done" /\ ending' # "none"
  <2>1. WaveInv' /\ DeliveryInv' /\ NodeInv' /\ PassInv'
    BY <1>24 DEF WaveInv, DeliveryInv, NodeInv, PassInv
  <2> QED BY <1>14, <1>15, <1>17, <1>18, <1>19, <1>20, <1>23, <2>1 DEF IInv, SafeInv
<1>25. CASE /\ \A k \in DOMAIN decide : decide[k] # "error"
            /\ \/ /\ NothingToRun(decide)
                  /\ results'[n] = "array"
                  /\ logical'[n] = "aggregated"
               \/ /\ ~NothingToRun(decide)
                  /\ logical'[n] = "expanded"
                  /\ UNCHANGED results
            /\ progressed' = TRUE
            /\ UNCHANGED <<pc, ending>>
  <2>1. WaveInv'
    <3>1. \A i \in InstanceId : inst'[i] # "running"
      BY <1>2, <1>7, <1>9 DEF IInv, WaveInv
    <3> QED BY <1>1, <1>2, <1>25, <3>1 DEF WaveInv
  <2>2. DeliveryInv'
    <3>1. \A i \in InstanceId :
             inst'[i] \in {"absent", "pending", "skipped"} => delivered[i] = "none"
      <4>1. ASSUME NEW i \in InstanceId, i[1] = n PROVE inst[i] = "absent"
        BY <1>2, <4>1, InstanceFacts
      <4> QED BY <1>2, <1>7, <4>1 DEF IInv, DeliveryInv
    <3> QED BY <1>1, <1>2, <1>25, <3>1 DEF DeliveryInv
  <2>3. ForEachInv(n)'
    <3>1. \A k \in 0 .. MaxNodes - 1 : inst'[<<n, k>>] # "absent" <=> k < count
      <4>1. ASSUME NEW k \in 0 .. MaxNodes - 1, k < count PROVE inst'[<<n, k>>] # "absent"
        <5>1. k \in 0 .. count - 1
          BY <1>5, <4>1
        <5> QED BY <1>11, <1>25, <5>1
      <4>2. ASSUME NEW k \in 0 .. MaxNodes - 1, ~(k < count) PROVE inst'[<<n, k>>] = "absent"
        <5>1. k \notin 0 .. count - 1 /\ k \in None .. MaxNodes - 1
          BY <1>5, <4>2 DEF None
        <5> QED BY <1>8, <5>1
      <4> QED BY <4>1, <4>2
    <3>2. inst'[<<n, None>>] = "absent"
      <4>1. None \notin 0 .. count - 1 /\ None \in None .. MaxNodes - 1
        BY <1>5 DEF None
      <4> QED BY <1>8, <4>1
    <3>3. count <= MaxNodes
      BY <1>5
    <3>4. CASE NothingToRun(decide) /\ results'[n] = "array" /\ logical'[n] = "aggregated"
      <4>1. \A k \in 0 .. count - 1 : inst'[<<n, k>>] = "skipped"
        BY <1>11, <1>25, <3>4 DEF NothingToRun
      <4>2. \A k \in 0 .. MaxNodes - 1 : inst'[<<n, k>>] \in {"absent", "completed", "skipped"}
        <5>1. ASSUME NEW k \in 0 .. MaxNodes - 1, k < count PROVE inst'[<<n, k>>] = "skipped"
          <6>1. k \in 0 .. count - 1
            BY <1>5, <5>1
          <6> QED BY <4>1, <6>1
        <5> QED BY <3>1, <5>1
      <4> QED BY <1>13, <3>1, <3>2, <3>3, <3>4, <4>2 DEF ForEachInv
    <3>5. CASE ~NothingToRun(decide) /\ logical'[n] = "expanded" /\ UNCHANGED results
      <4>1. count > 0
        BY <1>5, <3>5 DEF NothingToRun
      <4> QED BY <1>2, <1>13, <3>1, <3>2, <3>3, <3>5, <4>1 DEF ForEachInv
    <3> QED BY <1>25, <3>4, <3>5
  <2>4. NodeInv'
    <3>1. ASSUME NEW m \in Node \ ForEach PROVE NormalInv(m)'
      <4>1. NormalInv(m) /\ m # n /\ m \in Node
        BY <1>1, <1>2 DEF IInv, NodeInv
      <4>2. UNCHANGED <<results[m], logical[m]>>
        BY <1>12, <4>1
      <4>3. \A k \in None .. MaxNodes - 1 : inst'[<<m, k>>] = inst[<<m, k>>]
        BY <1>7, <4>1, InstanceFacts
      <4>4. \A k \in 0 .. MaxNodes - 1 : inst'[<<m, k>>] = inst[<<m, k>>]
        BY <1>5, <4>3 DEF None
      <4>5. inst'[<<m, None>>] = inst[<<m, None>>]
        BY <4>3, InstanceFacts
      <4> QED BY <4>1, <4>2, <4>4, <4>5 DEF NormalInv
    <3>2. ASSUME NEW m \in ForEach, m # n PROVE ForEachInv(m)'
      <4>1. ForEachInv(m) /\ m \in Node
        BY <1>2, DynamicAssumption DEF IInv, NodeInv
      <4>2. UNCHANGED <<results[m], logical[m], expanded[m]>>
        BY <1>12, <1>13, <3>2, <4>1
      <4>3. \A k \in None .. MaxNodes - 1 : inst'[<<m, k>>] = inst[<<m, k>>]
        BY <1>7, <3>2, <4>1, InstanceFacts
      <4>4. \A k \in 0 .. MaxNodes - 1 : inst'[<<m, k>>] = inst[<<m, k>>]
        BY <1>5, <4>3 DEF None
      <4>5. inst'[<<m, None>>] = inst[<<m, None>>]
        BY <4>3, InstanceFacts
      <4> QED BY <4>1, <4>2, <4>4, <4>5 DEF ForEachInv
    <3> QED BY <2>3, <3>1, <3>2 DEF NodeInv
  <2>5. PassInv'
    <3>1. ASSUME NEW m \in Waiting, m # n PROVE m \in Waiting'
      <4>1. m \in Node /\ logical'[m] = "pending"
        BY <1>12, <3>1 DEF Waiting, Unmaterialized
      <4>2. \A k \in None .. MaxNodes - 1 : inst'[<<m, k>>] = "absent"
        BY <1>7, <3>1, InstanceFacts DEF Waiting, Unmaterialized
      <4> QED BY <4>1, <4>2 DEF Waiting, Unmaterialized
    <3>2. pass \subseteq Waiting
      BY <1>2 DEF IInv, PassInv
    <3> QED BY <1>1, <1>2, <1>25, <3>1, <3>2 DEF PassInv
  <2> QED BY <1>14, <1>15, <1>17, <1>18, <1>19, <1>20, <1>23, <2>1, <2>2, <2>4, <2>5
      DEF IInv, SafeInv
<1>26. \/ pc' = "done" /\ ending' # "none"
       \/ /\ \A k \in DOMAIN decide : decide[k] # "error"
          /\ \/ /\ NothingToRun(decide)
                /\ results'[n] = "array"
                /\ logical'[n] = "aggregated"
             \/ /\ ~NothingToRun(decide)
                /\ logical'[n] = "expanded"
                /\ UNCHANGED results
          /\ progressed' = TRUE
          /\ UNCHANGED <<pc, ending>>
  BY <1>4 DEF ControlledFailure, End, IInv, TypeOK
<1> QED BY <1>24, <1>25, <1>26

(* Every step, stuttering included, preserves the inductive invariant.     *)
LEMMA NextInv == IInv /\ [Next]_vars => IInv'
<1> SUFFICES ASSUME IInv, [Next]_vars PROVE IInv'
  OBVIOUS
<1>1. CASE Turn
  BY <1>1, SkipBlockedInv, MaterializeNormalInv, RejectExpansionInv, ExpandForEachInv,
     FinishPassInv, AggregateInv, DispatchInv, ApplyWaveInv DEF Turn
<1>2. CASE Durable
  BY <1>2, TaskCompletesInv DEF Durable
<1>3. CASE CancelWins
  BY <1>3, CancelWinsInv
<1>4. CASE UNCHANGED vars
  <2>1. /\ Waiting' = Waiting /\ Resolved' = Resolved /\ Charged' = Charged
        /\ Materialized' = Materialized /\ Continuation' = Continuation
        /\ Aggregatable' = Aggregatable
    BY <1>4 DEF vars, Waiting, Unmaterialized, Resolved, Charged, Materialized,
       Continuation, Aggregatable, InstancesOf
  <2>2. TypeOK' /\ WaveInv' /\ DeliveryInv' /\ ArrayInv'
    BY <1>4, <2>1 DEF vars, IInv, TypeOK, WaveInv, DeliveryInv, ArrayInv
  <2>3. NodeInv' /\ BudgetInv'
    BY <1>4, <2>1 DEF vars, IInv, NodeInv, NormalInv, ForEachInv, BudgetInv
  <2>4. PassInv'
    BY <1>4, <2>1 DEF vars, IInv, PassInv, DepsMet, Complete
  <2>5. SafeInv'
    BY <1>4, <2>1 DEF vars, IInv, SafeInv, DependenciesFirst, FailuresSurface,
       AggregateAligned, NeverStalls, InstancesOf
  <2> QED BY <2>2, <2>3, <2>4, <2>5 DEF IInv
<1> QED BY <1>1, <1>2, <1>3, <1>4 DEF Next

----------------------------------------------------------------------------
(* The strengthened invariant holds of every reachable state.              *)
THEOREM Invariance == Spec => []IInv
  BY InitInv, NextInv, PTL DEF Spec

(* The variables of the data-driven scheduler keep their types.            *)
THEOREM TypeCorrect == Spec => []TypeOK
<1>1. IInv => TypeOK
  BY DEF IInv
<1> QED BY <1>1, Invariance, PTL

(* The materialized instances never outnumber MAX_NODES, whatever the      *)
(* lengths of the arrays the expansions meet at run time.                  *)
THEOREM NodeLimitHolds == Spec => []NodeLimit
<1>1. IInv => NodeLimit
  <2> SUFFICES ASSUME IInv PROVE NodeLimit
    OBVIOUS
  <2>1. Materialized \in SUBSET Charged /\ IsFiniteSet(Charged)
    BY DEF Charged, IInv, BudgetInv
  <2>2. /\ IsFiniteSet(Materialized) /\ Cardinality(Materialized) <= Cardinality(Charged)
        /\ Cardinality(Materialized) \in Nat /\ Cardinality(Charged) \in Nat
    BY <2>1, FS_Subset, FS_CardinalityType
  <2> QED BY <2>2, DynamicAssumption DEF IInv, BudgetInv, NodeLimit, TypeOK
<1> QED BY <1>1, Invariance, PTL

(* An instance exists only when everything its task depends on has its     *)
(* committed result.                                                       *)
THEOREM DependencyOrder == Spec => []DependenciesFirst
<1>1. IInv => DependenciesFirst
  BY DEF IInv, SafeInv
<1> QED BY <1>1, Invariance, PTL

(* Failures are continued only for tasks that asked for it, and opaque,    *)
(* authorization and contract failures never become a result.              *)
THEOREM FailuresNeverSwallowed == Spec => []FailuresSurface
<1>1. IInv => FailuresSurface
  BY DEF IInv, SafeInv
<1> QED BY <1>1, Invariance, PTL

(* A committed aggregate holds exactly one ended instance per element of   *)
(* the array the task expanded over.                                       *)
THEOREM AggregatesAligned == Spec => []AggregateAligned
<1>1. IInv => AggregateAligned
  BY DEF IInv, SafeInv
<1> QED BY <1>1, Invariance, PTL

(* The "workflow stalled" error of _run_dynamic_workflow is unreachable    *)
(* for every acyclic plan.                                                 *)
THEOREM StallFree == Spec => []NeverStalls
<1>1. IInv => NeverStalls
  BY DEF IInv, SafeInv
<1> QED BY <1>1, Invariance, PTL

----------------------------------------------------------------------------
(* The values the mapping gives the variables of WorkflowAbstract.         *)
AbstractPhase == CASE ending = "none" -> "running"
                   [] ending \in {"completed", "canceled"} -> ending
                   [] OTHER -> "failed"

AbstractStarted ==
  {n \in Node : \E i \in InstanceId :
     i[1] = n /\ (inst[i] \in {"running", "completed"} \/ i \in wave)}

(* Adding ready tasks to the started ones is a step of the abstraction.    *)
LEMMA AbstractStart ==
  ASSUME AbstractPhase = "running", UNCHANGED <<Resolved, AbstractPhase>>,
         NEW S \in SUBSET (Node \ Resolved), \A n \in S : Deps[n] \subseteq Resolved,
         AbstractStarted' = AbstractStarted \cup S
  PROVE  Abstract!Next
<1>1. Abstract!Start(S)
  BY DEF Abstract!Start, Abstract!Ready, AbstractPhase, AbstractStarted
<1> QED BY <1>1 DEF Abstract!Next

(* Resolving ready tasks is a step of the abstract workflow.               *)
LEMMA AbstractResolve ==
  ASSUME AbstractPhase = "running", UNCHANGED <<AbstractStarted, AbstractPhase>>,
         NEW S \in SUBSET (Node \ Resolved), \A n \in S : Deps[n] \subseteq Resolved,
         Resolved' = Resolved \cup S
  PROVE  Abstract!Next
<1>1. Abstract!Resolve(S)
  BY DEF Abstract!Resolve, Abstract!Ready, AbstractPhase, AbstractStarted
<1> QED BY <1>1 DEF Abstract!Next

(* Stopping before every task has a result is an abstract step.            *)
LEMMA AbstractStop ==
  ASSUME AbstractPhase = "running", UNCHANGED <<Resolved, AbstractStarted>>,
         Resolved # Node, AbstractPhase' \in {"failed", "canceled"}
  PROVE  Abstract!Next
<1>1. Abstract!Stop("failed") \/ Abstract!Stop("canceled")
  BY DEF Abstract!Stop, AbstractPhase, AbstractStarted
<1> QED BY <1>1 DEF Abstract!Next

(* Completing once every task has a result is an abstract step.            *)
LEMMA AbstractComplete ==
  ASSUME AbstractPhase = "running", UNCHANGED <<Resolved, AbstractStarted>>,
         Resolved = Node, AbstractPhase' = "completed"
  PROVE  Abstract!Next
<1>1. Abstract!Complete
  BY DEF Abstract!Complete, AbstractPhase, AbstractStarted
<1> QED BY <1>1 DEF Abstract!Next

(* A task with an instance that has yet to end has no result.              *)
LEMMA OpenInstance ==
  ASSUME IInv, pc # "done", NEW i \in InstanceId, inst[i] \in {"pending", "running"}
  PROVE  i[1] \in Node \ Resolved /\ Deps[i[1]] \subseteq Resolved
<1>1. i[1] \in Node /\ i = <<i[1], i[2]>> /\ i[2] \in None .. MaxNodes - 1 /\ MaxNodes \in Nat
  BY InstanceFacts, DynamicAssumption
<1>2. Deps[i[1]] \subseteq Resolved
  BY DEF IInv, SafeInv, DependenciesFirst, Materialized
<1>3. i[2] = None \/ i[2] \in 0 .. MaxNodes - 1
  BY <1>1 DEF None
<1>4. CASE i[1] \in ForEach
  <2>1. ForEachInv(i[1])
    BY <1>4 DEF IInv, NodeInv
  <2>2. i[2] \in 0 .. MaxNodes - 1
    BY <1>1, <1>3, <2>1 DEF ForEachInv
  <2>3. logical[i[1]] # "aggregated"
    BY <1>1, <2>1, <2>2 DEF ForEachInv
  <2> QED BY <1>1, <1>2, <2>1, <2>3 DEF ForEachInv, Resolved
<1>5. CASE i[1] \notin ForEach
  <2>1. NormalInv(i[1])
    BY <1>1, <1>5 DEF IInv, NodeInv
  <2>2. i[2] = None
    BY <1>1, <1>3, <2>1 DEF NormalInv
  <2>3. logical[i[1]] \in {"pending", "running"}
    BY <1>1, <2>1, <2>2 DEF NormalInv
  <2> QED BY <1>1, <1>2, <2>1, <2>3 DEF NormalInv, Resolved
<1> QED BY <1>4, <1>5

(* A task the pass visits can be resolved once its dependencies are.       *)
LEMMA ResolveVisited ==
  ASSUME IInv, NEW n \in Node, Visit(n), DepsMet(n), ending' = ending,
         AbstractStarted' = AbstractStarted,
         \A m \in Node : m # n => results'[m] = results[m],
         results'[n] # "unset" \/ results' = results
  PROVE  [Abstract!Next]_(Abstract!vars)
<1>1. n \in Node \ Resolved /\ Deps[n] \subseteq Resolved /\ AbstractPhase = "running"
  BY Visited DEF Resolved, DepsMet, AbstractPhase
<1>2. AbstractPhase' = AbstractPhase
  BY DEF AbstractPhase
<1>3. CASE results'[n] # "unset"
  <2>1. Resolved' = Resolved \cup {n}
    BY <1>1, <1>3 DEF Resolved
  <2>2. {n} \in SUBSET (Node \ Resolved) /\ \A m \in {n} : Deps[m] \subseteq Resolved
    BY <1>1
  <2> QED BY <1>1, <1>2, <2>1, <2>2, AbstractResolve
<1>4. CASE results' = results
  BY <1>2, <1>4 DEF Abstract!vars, Resolved, AbstractPhase, AbstractStarted
<1> QED BY <1>3, <1>4

(* What starts no instance leaves the abstract started tasks alone.        *)
LEMMA StartedSame ==
  ASSUME UNCHANGED wave,
         \A i \in InstanceId : inst'[i] \in {"running", "completed"}
                               <=> inst[i] \in {"running", "completed"}
  PROVE  AbstractStarted' = AbstractStarted
  BY DEF AbstractStarted

(* Expanding a task starts nothing and resolves at most that task.         *)
LEMMA ExpandEffect ==
  ASSUME IInv, NEW n \in Node, ExpandForEach(n)
  PROVE  /\ AbstractStarted' = AbstractStarted
         /\ \A m \in Node : m # n => results'[m] = results[m]
         /\ results'[n] # "unset" \/ results' = results
         /\ \/ UNCHANGED ending
            \/ ending' = "value_error" /\ UNCHANGED results
<1>1. Visit(n) /\ UNCHANGED wave
  BY DEF ExpandForEach, Visit
<1>2. PICK count \in ArrayLengths(Source[n]) :
         \E decide \in [0 .. count - 1 -> Decisions(n)] : inst' = ExpandedStates(n, count, decide)
  BY DEF ExpandForEach
<1>3. ASSUME NEW i \in InstanceId
      PROVE  inst'[i] \in {"running", "completed"} <=> inst[i] \in {"running", "completed"}
  <2>1. i[1] = n => inst[i] = "absent"
    BY <1>1, Visited, InstanceFacts
  <2>2. inst'[i] \in {inst[i], "absent", "skipped", "pending"}
    BY <1>2 DEF ExpandedStates
  <2>3. i[1] # n => inst'[i] = inst[i]
    BY <1>2 DEF ExpandedStates
  <2> QED BY <2>1, <2>2, <2>3
<1>4. \/ UNCHANGED <<ending, results>>
      \/ UNCHANGED ending /\ results' = [results EXCEPT ![n] = "array"]
      \/ ending' = "value_error" /\ UNCHANGED results
  BY DEF ExpandForEach, ControlledFailure, End
<1>5. /\ \A m \in Node : m # n => results'[m] = results[m]
      /\ results'[n] # "unset" \/ results' = results
  BY <1>4 DEF IInv, TypeOK
<1> QED BY <1>1, <1>3, <1>4, <1>5, StartedSame

(* Materializing a task starts nothing and resolves at most that task.     *)
LEMMA MaterializeEffect ==
  ASSUME IInv, NEW n \in Node, MaterializeNormal(n)
  PROVE  /\ AbstractStarted' = AbstractStarted
         /\ \A m \in Node : m # n => results'[m] = results[m]
         /\ results'[n] # "unset" \/ results' = results
         /\ \/ UNCHANGED ending
            \/ ending' = "value_error" /\ UNCHANGED results
<1>1. Visit(n) /\ UNCHANGED wave
  BY DEF MaterializeNormal, Visit
<1>2. <<n, None>> \in InstanceId /\ inst[<<n, None>>] = "absent"
  BY <1>1, Visited, InstanceFacts
<1>3. \/ UNCHANGED inst
      \/ inst' = [inst EXCEPT ![<<n, None>>] = "skipped"]
      \/ inst' = [inst EXCEPT ![<<n, None>>] = "pending"]
  BY DEF MaterializeNormal
<1>4. ASSUME NEW i \in InstanceId
      PROVE  inst'[i] \in {"running", "completed"} <=> inst[i] \in {"running", "completed"}
  BY <1>2, <1>3 DEF IInv, TypeOK
<1>5. \/ UNCHANGED <<ending, results>>
      \/ UNCHANGED ending /\ results' = [results EXCEPT ![n] = "null"]
      \/ ending' = "value_error" /\ UNCHANGED results
  BY DEF MaterializeNormal, ControlledFailure, End
<1>6. /\ \A m \in Node : m # n => results'[m] = results[m]
      /\ results'[n] # "unset" \/ results' = results
  BY <1>5 DEF IInv, TypeOK
<1> QED BY <1>1, <1>4, <1>5, <1>6, StartedSame

(* Failing on a task the pass visits stops the abstract workflow.          *)
LEMMA StopVisited ==
  ASSUME IInv, NEW n \in Node, Visit(n), AbstractStarted' = AbstractStarted,
         UNCHANGED results, ending' \in ControlledFailures
  PROVE  Abstract!Next
<1>1. Resolved # Node /\ AbstractPhase = "running" /\ Resolved' = Resolved
  BY Visited DEF Resolved, AbstractPhase
<1>2. AbstractPhase' = "failed"
  BY DEF AbstractPhase, ControlledFailures
<1> QED BY <1>1, <1>2, AbstractStop

(* A step that leaves the instances, the results and the ending alone is   *)
(* invisible to the abstract workflow.                                     *)
LEMMA Invisible ==
  ASSUME UNCHANGED <<inst, wave, results, ending>>
  PROVE  UNCHANGED Abstract!vars
  BY DEF Abstract!vars, Resolved

(* While the loop dispatches, awaits or applies, some task has no result.  *)
LEMMA Unfinished ==
  ASSUME IInv, pc \in {"dispatch", "await", "apply"}
  PROVE  Resolved # Node /\ AbstractPhase = "running"
<1>1. \E i \in InstanceId : inst[i] \in {"pending", "running"}
  <2>1. CASE pc = "dispatch"
    BY <2>1, SomeRunnable DEF Runnable
  <2>2. CASE pc \in {"await", "apply"}
    BY <2>2 DEF IInv, WaveInv, TypeOK
  <2> QED BY <2>1, <2>2
<1>2. ending = "none"
  BY DEF IInv, WaveInv, TypeOK
<1> QED BY <1>1, <1>2, OpenInstance DEF AbstractPhase

(* Dispatching a wave starts ready abstract tasks, or stops the workflow.  *)
LEMMA DispatchImplements == ASSUME IInv, Dispatch PROVE [Abstract!Next]_(Abstract!vars)
<1>1. /\ Resolved # Node /\ AbstractPhase = "running" /\ pc = "dispatch"
      /\ Runnable # {} /\ NextWave \subseteq Runnable /\ wave = {} /\ UNCHANGED results
  BY Unfinished, SomeRunnable DEF Dispatch, NextWave, IInv, WaveInv
<1>2. Resolved' = Resolved
  BY <1>1 DEF Resolved
<1>3. CASE ending' = "raised" /\ UNCHANGED <<wave, inst>>
  <2>1. AbstractStarted' = AbstractStarted /\ AbstractPhase' = "failed"
    BY <1>3 DEF AbstractStarted, AbstractPhase
  <2> QED BY <1>1, <1>2, <2>1, AbstractStop
<1>4. CASE /\ wave' = NextWave /\ UNCHANGED ending
           /\ inst' = [i \in InstanceId |-> IF i \in NextWave THEN "running" ELSE inst[i]]
  <2> DEFINE S == {i[1] : i \in NextWave}
  <2>1. \A i \in NextWave : i \in InstanceId /\ inst[i] = "pending" /\ inst'[i] = "running"
    BY <1>1, <1>4 DEF Runnable
  <2>2. S \in SUBSET (Node \ Resolved) /\ \A n \in S : Deps[n] \subseteq Resolved
    BY <1>1, <2>1, OpenInstance
  <2>3. AbstractPhase' = AbstractPhase
    BY <1>4 DEF AbstractPhase
  <2>4. AbstractStarted' = AbstractStarted \cup S
    <3>1. ASSUME NEW i \in InstanceId
          PROVE  (inst'[i] \in {"running", "completed"} \/ i \in NextWave)
                 <=> (inst[i] \in {"running", "completed"} \/ i \in NextWave)
      BY <1>4
    <3>2. ASSUME NEW n \in Node
          PROVE  n \in AbstractStarted' <=> n \in AbstractStarted \/ n \in S
      BY <1>1, <1>4, <2>1, <3>1 DEF AbstractStarted
    <3>3. AbstractStarted \subseteq Node /\ AbstractStarted' \subseteq Node /\ S \subseteq Node
      BY <2>2 DEF AbstractStarted
    <3> HIDE DEF S
    <3> QED BY <3>2, <3>3
  <2> HIDE DEF S
  <2> QED BY <1>1, <1>2, <2>2, <2>3, <2>4, AbstractStart
<1> QED BY <1>1, <1>3, <1>4 DEF Dispatch, End

(* Applying a wave resolves its plain tasks, or stops the workflow.        *)
LEMMA ApplyWaveImplements == ASSUME IInv, ApplyWave PROVE [Abstract!Next]_(Abstract!vars)
<1>1. /\ Resolved # Node /\ AbstractPhase = "running" /\ pc = "apply"
      /\ \A i \in InstanceId : inst[i] = "running" <=> i \in wave
      /\ wave \subseteq InstanceId
  BY Unfinished DEF ApplyWave, IInv, WaveInv, TypeOK
<1>2. CASE ending' = "raised" /\ UNCHANGED <<wave, inst, results>>
  <2>1. /\ AbstractStarted' = AbstractStarted /\ AbstractPhase' = "failed"
        /\ Resolved' = Resolved
    BY <1>2 DEF AbstractStarted, AbstractPhase, Resolved
  <2> QED BY <1>1, <2>1, AbstractStop
<1>3. CASE /\ \A i \in wave : ~FailsOnApply(delivered[i], Continuation)
           /\ inst' = [i \in InstanceId |-> IF i \in wave THEN "completed" ELSE inst[i]]
           /\ results' = [n \in Node |-> IF <<n, None>> \in wave
                                         THEN ResultOf(delivered[<<n, None>>]) ELSE results[n]]
           /\ wave' = {}
           /\ UNCHANGED ending
  <2> DEFINE S == {n \in Node : <<n, None>> \in wave}
  <2>1. S \in SUBSET (Node \ Resolved) /\ \A n \in S : Deps[n] \subseteq Resolved
    <3>1. ASSUME NEW n \in S PROVE n \in Node \ Resolved /\ Deps[n] \subseteq Resolved
      <4>1. <<n, None>> \in InstanceId /\ inst[<<n, None>>] = "running" /\ <<n, None>>[1] = n
        BY <1>1
      <4> QED BY <1>1, <4>1, OpenInstance
    <3> QED BY <3>1
  <2>2. \A n \in S : results'[n] # "unset"
    <3>1. \A i \in wave : delivered[i] \in Delivery
      BY <1>1 DEF IInv, TypeOK, DeliveryInv
    <3> QED BY <1>3, <3>1 DEF ResultOf, Delivery, Failure, ReturnedFailure
  <2>3. \A n \in Node \ S : results'[n] = results[n]
    BY <1>3
  <2>4. Resolved' = Resolved \cup S
    <3> HIDE DEF S
    <3> QED BY <2>1, <2>2, <2>3 DEF Resolved
  <2>5. AbstractPhase' = AbstractPhase
    BY <1>3 DEF AbstractPhase
  <2>6. AbstractStarted' = AbstractStarted
    <3>1. ASSUME NEW i \in InstanceId
          PROVE  inst'[i] \in {"running", "completed"}
                 <=> (inst[i] \in {"running", "completed"} \/ i \in wave)
      BY <1>1, <1>3
    <3> QED BY <1>3, <3>1 DEF AbstractStarted
  <2> HIDE DEF S
  <2> QED BY <1>1, <2>1, <2>4, <2>5, <2>6, AbstractResolve
<1> QED BY <1>2, <1>3 DEF ApplyWave, End

(* Aggregating resolves the aggregated tasks, or completes the workflow.   *)
LEMMA AggregateImplements == ASSUME IInv, Aggregate PROVE [Abstract!Next]_(Abstract!vars)
<1>1. /\ pc = "aggregate" /\ ending = "none" /\ AbstractPhase = "running"
      /\ UNCHANGED <<inst, wave>>
      /\ results' = [n \in Node |-> IF n \in Aggregatable THEN "array" ELSE results[n]]
  BY DEF Aggregate, IInv, WaveInv, TypeOK, AbstractPhase
<1>2. AbstractStarted' = AbstractStarted
  BY <1>1 DEF AbstractStarted
<1>3. CASE UNCHANGED ending
  <2>1. ASSUME NEW n \in Aggregatable
        PROVE  n \in Node \ Resolved /\ Deps[n] \subseteq Resolved
    <3>1. n \in ForEach /\ n \in Node /\ logical[n] \in {"expanded", "running"} /\ ForEachInv(n)
      BY <1>1, DynamicAssumption DEF Aggregatable, IInv, NodeInv
    <3>2. n \notin Resolved
      BY <3>1 DEF ForEachInv, Resolved
    <3>3. PICK i \in InstancesOf(n) : TRUE
      BY DEF Aggregatable
    <3>4. i \in Materialized /\ i[1] = n
      BY DEF InstancesOf, Materialized
    <3> QED BY <3>1, <3>2, <3>4 DEF IInv, SafeInv, DependenciesFirst
  <2>2. Resolved' = Resolved \cup Aggregatable
    BY <1>1, <2>1 DEF Resolved
  <2>3. Aggregatable \in SUBSET (Node \ Resolved) /\ AbstractPhase' = AbstractPhase
    BY <1>3, <2>1 DEF AbstractPhase
  <2> QED BY <1>1, <1>2, <2>1, <2>2, <2>3, AbstractResolve
<1>4. CASE ~Progress /\ Complete(logical) /\ ending' = "completed"
  <2>1. UNCHANGED results
    BY <1>1, <1>4 DEF Progress, IInv, TypeOK
  <2>2. ASSUME NEW n \in Node PROVE results[n] # "unset"
    <3>1. logical[n] \in {"completed", "skipped", "aggregated"}
      BY <1>4 DEF Complete
    <3>2. CASE n \in ForEach
      BY <1>1, <3>1, <3>2 DEF IInv, NodeInv, ForEachInv
    <3>3. CASE n \notin ForEach
      BY <1>1, <3>1, <3>3 DEF IInv, NodeInv, NormalInv
    <3> QED BY <3>2, <3>3
  <2>3. Resolved = Node /\ Resolved' = Resolved
    BY <2>1, <2>2 DEF Resolved
  <2>4. AbstractPhase' = "completed"
    BY <1>4 DEF AbstractPhase
  <2> QED BY <1>1, <1>2, <2>3, <2>4, AbstractComplete
<1> QED BY <1>3, <1>4 DEF Aggregate, End

(* A delivery is a stutter of the abstract workflow, or stops it.          *)
LEMMA TaskCompletesImplements ==
  ASSUME IInv, NEW i \in InstanceId, NEW d \in Delivery, TaskCompletes(i, d)
  PROVE  [Abstract!Next]_(Abstract!vars)
<1>1. Resolved # Node /\ AbstractPhase = "running" /\ UNCHANGED <<inst, wave, results>>
  BY Unfinished DEF TaskCompletes
<1>2. CASE UNCHANGED ending
  BY <1>1, <1>2, Invisible
<1>3. CASE ending' = "raised"
  <2>1. /\ AbstractStarted' = AbstractStarted /\ AbstractPhase' = "failed"
        /\ Resolved' = Resolved
    BY <1>1, <1>3 DEF AbstractStarted, AbstractPhase, Resolved
  <2> QED BY <1>1, <2>1, AbstractStop
<1> QED BY <1>2, <1>3 DEF TaskCompletes, End

(* A cancellation that wins stops the abstract workflow.                   *)
LEMMA CancelWinsImplements == ASSUME IInv, CancelWins PROVE [Abstract!Next]_(Abstract!vars)
<1>1. /\ Resolved # Node /\ AbstractPhase = "running" /\ UNCHANGED <<wave, results>>
      /\ ending' = "canceled"
      /\ inst' = [i \in InstanceId |-> IF i \in wave THEN "pending" ELSE inst[i]]
  BY Unfinished DEF CancelWins, End
<1>2. ASSUME NEW i \in InstanceId
      PROVE  (inst'[i] \in {"running", "completed"} \/ i \in wave)
             <=> (inst[i] \in {"running", "completed"} \/ i \in wave)
  BY <1>1
<1>3. AbstractStarted' = AbstractStarted
  BY <1>1, <1>2 DEF AbstractStarted
<1>4. AbstractPhase' = "canceled" /\ Resolved' = Resolved
  BY <1>1 DEF AbstractPhase, Resolved
<1> QED BY <1>1, <1>3, <1>4, AbstractStop

(* Every step of the data-driven scheduler is a step of the abstract       *)
(* workflow or leaves its variables alone.                                 *)
LEMMA StepImplements == ASSUME IInv, [Next]_vars PROVE [Abstract!Next]_(Abstract!vars)
<1>1. ASSUME NEW n \in Node, MaterializeNormal(n) \/ ExpandForEach(n)
      PROVE  [Abstract!Next]_(Abstract!vars)
  <2>1. Visit(n) /\ DepsMet(n)
    BY <1>1 DEF MaterializeNormal, ExpandForEach
  <2>2. /\ AbstractStarted' = AbstractStarted
        /\ \A m \in Node : m # n => results'[m] = results[m]
        /\ results'[n] # "unset" \/ results' = results
    BY <1>1, MaterializeEffect, ExpandEffect
  <2>3. CASE UNCHANGED ending
    BY <2>1, <2>2, <2>3, ResolveVisited
  <2>4. CASE ending' = "value_error" /\ UNCHANGED results
    BY <2>1, <2>2, <2>4, StopVisited DEF ControlledFailures
  <2> QED BY <1>1, <2>3, <2>4, MaterializeEffect, ExpandEffect
<1>2. ASSUME NEW n \in Node, SkipBlocked(n) PROVE [Abstract!Next]_(Abstract!vars)
  BY <1>2, Invisible DEF SkipBlocked, Visit
<1>3. ASSUME NEW n \in Node, RejectExpansion(n) PROVE [Abstract!Next]_(Abstract!vars)
  <2>1. /\ Visit(n) /\ UNCHANGED <<inst, wave, results>> /\ ending' \in ControlledFailures
    BY <1>3 DEF RejectExpansion, ControlledFailure, End, ControlledFailures, Visit
  <2>2. AbstractStarted' = AbstractStarted
    BY <2>1 DEF AbstractStarted
  <2> QED BY <2>1, <2>2, StopVisited
<1>4. CASE FinishPass
  BY <1>4, Invisible DEF FinishPass
<1>5. CASE Turn
  BY <1>1, <1>2, <1>3, <1>4, <1>5, AggregateImplements, DispatchImplements,
     ApplyWaveImplements DEF Turn
<1>6. CASE Durable
  BY <1>6, TaskCompletesImplements DEF Durable
<1>7. CASE UNCHANGED vars
  BY <1>7, Invisible DEF vars
<1> QED BY <1>5, <1>6, <1>7, CancelWinsImplements DEF Next

(* The data-driven scheduler implements the abstract workflow, for every   *)
(* plan, every data and every failure.                                     *)
THEOREM Implements == Spec => ImplementsWorkflow
<1>1. Init => Abstract!Init
  <2> SUFFICES ASSUME Init PROVE Abstract!Init
    OBVIOUS
  <2>1. Resolved = {} /\ AbstractPhase = "running"
    BY DEF Init, Resolved, AbstractPhase
  <2>2. AbstractStarted = {}
    BY DEF Init, AbstractStarted
  <2> QED BY <2>1, <2>2 DEF Abstract!Init, AbstractPhase, AbstractStarted
<1> QED BY <1>1, StepImplements, Invariance, PTL DEF Spec, ImplementsWorkflow, Abstract!Spec

----------------------------------------------------------------------------
(* What is dispatched is accounted for: the strengthening adds that an     *)
(* instance that runs has its task marked so, and that Durable delivers    *)
(* nothing for a timer but that it fired.                                  *)
Running == {i \in InstanceId : inst[i] = "running"}

AccountInv ==
  /\ IsFiniteSet(Running) /\ Cardinality(Running) <= MaxParallelism
  /\ \A i \in Running : logical[i[1]] = "running"
  /\ \A i \in InstanceId : i[1] \in Timer => delivered[i] \in {"none", "fired"}
  /\ ending \in ControlledFailures \cup {"completed", "canceled"} => Running = {}
  /\ TimersSettled

(* There are finitely many instances, and their order is a strict total    *)
(* one.                                                                    *)
LEMMA InstancesFinite == IsFiniteSet(InstanceId)
<1>1. MaxNodes - 1 \in Int /\ None \in Int
  BY DynamicAssumption DEF None
<1>2. IsFiniteSet(None .. MaxNodes - 1)
  BY <1>1, FS_Interval
<1> QED BY <1>2, FS_Product, PlanAssumption DEF InstanceId

LEMMA WaveLimited == IsFiniteSet(NextWave) /\ Cardinality(NextWave) <= MaxParallelism
<1> DEFINE R == {p \in InstanceId \X InstanceId : Before(p[1], p[2])}
<1>1. Runnable \in SUBSET InstanceId /\ IsFiniteSet(Runnable)
  BY InstancesFinite, FS_Subset DEF Runnable
<1>2. \A i \in InstanceId : i[1] \in Nat /\ i[2] \in Int /\ i = <<i[1], i[2]>>
  BY InstanceFacts, PlanAssumption, DynamicAssumption DEF None
<1>3. \A i, j \in InstanceId : <<i, j>> \in R <=> Before(i, j)
  OBVIOUS
<1>4. ASSUME NEW i \in InstanceId, NEW j \in InstanceId
      PROVE  i = j \/ Before(i, j) \/ Before(j, i)
  <2>1. i[1] = j[1] /\ i[2] = j[2] => i = j
    BY <1>2
  <2> QED BY <1>2, <2>1 DEF Before
<1>5. \A i, j, k \in InstanceId : Before(i, j) /\ Before(j, k) => Before(i, k)
  BY <1>2 DEF Before
<1>6. \A i \in InstanceId : ~Before(i, i)
  BY <1>2 DEF Before
<1> HIDE DEF R
<1> DEFINE ahead == [i \in Runnable |-> {j \in Runnable : Before(j, i)}]
<1>7. ASSUME NEW i \in NextWave PROVE Cardinality(ahead[i]) < MaxParallelism
  <2>1. i \in Runnable /\ Cardinality({j \in Runnable : Before(j, i)}) < MaxParallelism
    BY <1>7 DEF NextWave
  <2> QED BY <2>1
<1>8. NextWave \in SUBSET Runnable /\ MaxParallelism \in Nat
  BY PlanAssumption DEF NextWave
<1>9. /\ \A i, j, k \in Runnable : <<i, j>> \in R /\ <<j, k>> \in R => <<i, k>> \in R
      /\ \A i \in Runnable : <<i, i>> \notin R
      /\ \A i, j \in Runnable : i = j \/ <<i, j>> \in R \/ <<j, i>> \in R
  BY <1>1, <1>3, <1>4, <1>5, <1>6
<1>10. /\ ahead \in [Runnable -> SUBSET Runnable]
       /\ \A i, j \in Runnable : j \in ahead[i] <=> <<j, i>> \in R
  BY <1>1, <1>3
<1> HIDE DEF ahead
<1> QED BY <1>1, <1>7, <1>8, <1>9, <1>10, WaveBound

(* Fewer instances run, and no delivery is taken back: the accounts stay.  *)
LEMMA FewerRunning ==
  ASSUME IInv, AccountInv, Running' \subseteq Running
  PROVE  IsFiniteSet(Running)' /\ Cardinality(Running)' <= MaxParallelism
<1>1. IsFiniteSet(Running') /\ Cardinality(Running') <= Cardinality(Running)
  BY FS_Subset DEF AccountInv
<1>2. Cardinality(Running) \in Nat /\ Cardinality(Running') \in Nat /\ MaxParallelism \in Nat
  BY <1>1, FS_CardinalityType, PlanAssumption DEF AccountInv
<1> QED BY <1>1, <1>2 DEF AccountInv

(* Between two waves nothing runs, and no step but a dispatch changes that. *)
LEMMA QuietInv ==
  ASSUME IInv, AccountInv, IInv', pc \in {"scan", "aggregate", "dispatch"}, pc' # "await",
         \A i \in InstanceId : inst'[i] = "running" => inst[i] = "running",
         UNCHANGED <<wave, delivered, canceledTimers>>
  PROVE  AccountInv'
<1>1. wave = {} /\ Running = {}
  BY DEF IInv, WaveInv, Running
<1>2. Running' = {}
  BY <1>1 DEF Running
<1>3. IsFiniteSet(Running)' /\ Cardinality(Running)' <= MaxParallelism
  BY <1>1, <1>2, FewerRunning
<1>4. TimersSettled'
  BY <1>1 DEF TimersSettled
<1> QED BY <1>2, <1>3, <1>4 DEF AccountInv

(* Dispatching a wave runs it and nothing else, and at most its limit.     *)
LEMMA DispatchAccounts ==
  ASSUME IInv, AccountInv, IInv', Dispatch
  PROVE  AccountInv'
<1>1. pc = "dispatch" /\ wave = {} /\ Running = {} /\ UNCHANGED <<delivered, canceledTimers>>
  BY DEF Dispatch, IInv, WaveInv, Running
<1>2. CASE pc' = "await"
  <2>1. /\ UNCHANGED ending /\ NextWave \subseteq InstanceId
        /\ inst' = [i \in InstanceId |-> IF i \in NextWave THEN "running" ELSE inst[i]]
        /\ logical' = [n \in Node |-> IF \E i \in NextWave : i[1] = n
                                      THEN "running" ELSE logical[n]]
    BY <1>2 DEF Dispatch, End, NextWave, Runnable
  <2>2. Running' = NextWave
    BY <1>1, <2>1 DEF Running
  <2>3. \A i \in NextWave : logical'[i[1]] = "running"
    BY <2>1, InstanceFacts
  <2>4. ending' = "none" /\ TimersSettled'
    BY <1>1, <1>2, <2>1 DEF IInv, WaveInv, TypeOK, TimersSettled
  <2> QED BY <1>1, <2>2, <2>3, <2>4, WaveLimited DEF AccountInv, ControlledFailures
<1>3. CASE pc' # "await"
  <2>1. UNCHANGED <<wave, inst>>
    BY <1>1, <1>3 DEF Dispatch
  <2> QED BY <1>1, <1>3, <2>1, QuietInv
<1> QED BY <1>2, <1>3

(* A delivery leaves the wave running; the one that ends the workflow has  *)
(* the timers of the wave fired or canceled.                               *)
LEMMA TaskCompletesAccounts ==
  ASSUME IInv, AccountInv, NEW i \in InstanceId, NEW d \in Delivery, TaskCompletes(i, d)
  PROVE  AccountInv'
<1>1. /\ pc = "await" /\ i \in Outstanding /\ i \in wave /\ wave \subseteq InstanceId
      /\ delivered' = [delivered EXCEPT ![i] = d] /\ d \in DeliveriesOf(i[1])
      /\ UNCHANGED <<inst, logical, wave>>
      /\ delivered \in [InstanceId -> Delivery \cup {"none"}]
      /\ ending = "none"
  BY DEF TaskCompletes, Outstanding, IInv, TypeOK, WaveInv
<1>2. Running' = Running
  BY <1>1 DEF Running
<1>3. \A j \in InstanceId : j[1] \in Timer => delivered'[j] \in {"none", "fired"}
  <2>1. i[1] \in Timer => d = "fired"
    BY <1>1 DEF DeliveriesOf
  <2> QED BY <1>1, <2>1 DEF AccountInv
<1>4. ending' \in {"none", "raised"}
  BY <1>1 DEF TaskCompletes, End
<1>5. TimersSettled'
  <2> SUFFICES ASSUME pc' = "done", NEW j \in wave, j[1] \in Timer
               PROVE  delivered'[j] = "fired" \/ j \in canceledTimers'
    BY <1>1 DEF TimersSettled
  <2>1. canceledTimers' = canceledTimers \cup {k \in Outstanding \ {i} : k[1] \in Timer}
    BY DEF TaskCompletes, AbandonTimers
  <2>2. CASE j = i
    BY <1>1, <2>2 DEF DeliveriesOf
  <2>3. CASE j # i /\ delivered[j] = "none"
    BY <2>1, <2>3 DEF Outstanding
  <2>4. CASE j # i /\ delivered[j] # "none"
    BY <1>1, <2>4 DEF AccountInv
  <2> QED BY <2>2, <2>3, <2>4
<1> QED BY <1>1, <1>2, <1>3, <1>4, <1>5 DEF AccountInv, ControlledFailures

(* A cancellation that wins leaves nothing running and no timer armed.     *)
LEMMA CancelWinsAccounts == ASSUME IInv, AccountInv, CancelWins PROVE AccountInv'
<1>1. /\ pc = "await" /\ wave \subseteq InstanceId /\ UNCHANGED <<wave, delivered>>
      /\ inst' = [i \in InstanceId |-> IF i \in wave THEN "pending" ELSE inst[i]]
      /\ \A i \in InstanceId : inst[i] = "running" <=> i \in wave
      /\ canceledTimers' = canceledTimers \cup {i \in Outstanding : i[1] \in Timer}
  BY DEF CancelWins, AbandonTimers, IInv, TypeOK, WaveInv
<1>2. Running' = {}
  BY <1>1 DEF Running
<1>3. IsFiniteSet(Running)' /\ Cardinality(Running)' <= MaxParallelism
  BY <1>2, FewerRunning
<1>4. TimersSettled'
  <2> SUFFICES ASSUME NEW j \in wave, j[1] \in Timer
               PROVE  delivered[j] = "fired" \/ j \in canceledTimers'
    BY <1>1 DEF TimersSettled
  <2> QED BY <1>1 DEF AccountInv, Outstanding
<1> QED BY <1>1, <1>2, <1>3, <1>4 DEF AccountInv

(* A wave is applied when every timer of it has fired.                     *)
LEMMA ApplyWaveAccounts == ASSUME IInv, AccountInv, ApplyWave PROVE AccountInv'
<1>1. /\ pc = "apply" /\ UNCHANGED <<delivered, canceledTimers>> /\ wave \subseteq InstanceId
      /\ \A i \in wave : delivered[i] # "none"
      /\ \A i \in InstanceId : inst[i] = "running" <=> i \in wave
      /\ ending = "none"
  BY DEF ApplyWave, IInv, WaveInv, DeliveryInv, TypeOK
<1>2. \A i \in wave : i[1] \in Timer => delivered[i] = "fired"
  BY <1>1 DEF AccountInv
<1>3. CASE UNCHANGED <<inst, logical, wave>> /\ ending' = "raised"
  <2>1. Running' = Running
    BY <1>3 DEF Running
  <2>2. TimersSettled'
    BY <1>1, <1>2, <1>3 DEF TimersSettled
  <2> QED BY <1>1, <1>3, <2>1, <2>2 DEF AccountInv, ControlledFailures
<1>4. CASE /\ wave' = {} /\ UNCHANGED ending
           /\ inst' = [i \in InstanceId |-> IF i \in wave THEN "completed" ELSE inst[i]]
  <2>1. Running' = {}
    BY <1>1, <1>4 DEF Running
  <2>2. IsFiniteSet(Running)' /\ Cardinality(Running)' <= MaxParallelism
    BY <2>1, FewerRunning
  <2>3. TimersSettled'
    BY <1>4 DEF TimersSettled
  <2> QED BY <1>1, <1>4, <2>1, <2>2, <2>3 DEF AccountInv
<1> QED BY <1>3, <1>4 DEF ApplyWave, End

(* No step spoils the accounts.                                            *)
LEMMA AccountNext ==
  ASSUME IInv, AccountInv, [Next]_vars
  PROVE  AccountInv'
<1>1. IInv'
  BY NextInv
<1>2. ASSUME NEW n \in Node,
             SkipBlocked(n) \/ MaterializeNormal(n) \/ RejectExpansion(n) \/ ExpandForEach(n)
      PROVE  AccountInv'
  <2>1. pc = "scan" /\ pc' # "await" /\ UNCHANGED <<wave, delivered, canceledTimers>>
    BY <1>2 DEF SkipBlocked, MaterializeNormal, RejectExpansion, ExpandForEach, Visit,
       ControlledFailure, End
  <2>2. \A i \in InstanceId : inst'[i] = "running" => inst[i] = "running"
    <3>1. CASE SkipBlocked(n) \/ RejectExpansion(n)
      BY <3>1 DEF SkipBlocked, RejectExpansion
    <3>2. CASE MaterializeNormal(n)
      BY <3>2 DEF MaterializeNormal, IInv, TypeOK
    <3>3. CASE ExpandForEach(n)
      BY <3>3 DEF ExpandForEach, ExpandedStates
    <3> QED BY <1>2, <3>1, <3>2, <3>3
  <2> QED BY <1>1, <2>1, <2>2, QuietInv
<1>3. CASE FinishPass \/ Aggregate
  <2>1. /\ pc \in {"scan", "aggregate"} /\ pc' # "await"
        /\ UNCHANGED <<inst, wave, delivered, canceledTimers>>
    BY <1>3 DEF FinishPass, Aggregate, End
  <2> QED BY <1>1, <2>1, QuietInv
<1>4. CASE Turn
  BY <1>1, <1>2, <1>3, <1>4, DispatchAccounts, ApplyWaveAccounts DEF Turn
<1>5. CASE Durable
  BY <1>5, TaskCompletesAccounts DEF Durable
<1>6. CASE UNCHANGED vars
  BY <1>6 DEF vars, AccountInv, Running, TimersSettled
<1> QED BY <1>4, <1>5, <1>6, CancelWinsAccounts DEF Next

(* What is dispatched is accounted for whichever way a wave ends: at most  *)
(* the limit in flight, nothing running but the awaited wave, no timer     *)
(* left armed, and no instance left running by an output.                  *)
THEOREM WavesAreAccounted == Spec => []WaveAccounted
<1>1. Init => AccountInv
  <2> SUFFICES ASSUME Init PROVE AccountInv
    OBVIOUS
  <2>1. Running = {}
    BY DEF Init, Running
  <2>2. IsFiniteSet(Running) /\ Cardinality(Running) <= MaxParallelism
    BY <2>1, FS_EmptySet, PlanAssumption
  <2> QED BY <2>1, <2>2 DEF Init, AccountInv, TimersSettled
<1>2. IInv /\ AccountInv => WaveAccounted
  BY DEF IInv, TypeOK, WaveInv, AccountInv, Running, WaveAccounted, ParallelismLimit,
     RunningIsTheWave
<1> QED BY <1>1, <1>2, AccountNext, Invariance, PTL DEF Spec
============================================================================
