----------------------------- MODULE PlanSchema -----------------------------
(***************************************************************************)
(* What a workflow plan is and which plans are valid: the checks of        *)
(* workflows/schema.py on one task, on the dependency graph and on the     *)
(* references, the freezing of a task's retry policy, and what resolving   *)
(* a reference yields at run time.  Operators only; SubmittedPlan is the   *)
(* state machine that applies them in the code's order.                    *)
(*                                                                         *)
(* A task is a record: id, type, fields (the optional fields it sets),     *)
(* target (its tool or agent), deps (a sequence of ids), refs (the ${...}  *)
(* references in its args or task text), each and when (a reference or     *)
(* NONE), wait (hours until a wait ends, NONE if malformed), policy.       *)
(***************************************************************************)
EXTENDS Integers, Sequences, FiniteSets, SequencesExt

CONSTANTS MaxNodes,      \* MAX_NODES
          NONE

ASSUME MaxNodesAssumption == MaxNodes \in Nat \ {0}

Minute == 60             \* durations count seconds, the code milliseconds
MaxWait == 24            \* MAX_WAIT_DURATION, in hours

Ids(plan) == {plan[i].id : i \in DOMAIN plan}
TaskOf(plan, id) == CHOOSE t \in Range(plan) : t.id = id

-----------------------------------------------------------------------------
(* The fields of each task type, and the target it may name. *)

Required == [tool |-> {"tool"}, wait |-> {}, sub_agent |-> {"agent", "task"}]
Permitted == [tool |-> {"tool", "args", "execution", "for_each", "when"},
              wait |-> {"duration", "until", "when"},
              sub_agent |-> {"agent", "task", "execution", "for_each", "when"}]

\* What the two parsers make of a wait: a length of time, or the time from the
\* submitter's clock to a moment given with its zone; NONE when they refuse it
\* (a text of another form, no component, too large a number, no zone).
DurationFits(t) == t.wait # NONE /\ t.wait > 0 /\ t.wait <= MaxWait
UntilFits(t) == t.wait # NONE /\ t.wait <= MaxWait

\* A wait names exactly one deadline.  A moment may already have passed.
WaitFits(t) ==
    /\ Cardinality({"duration", "until"} \cap t.fields) = 1
    /\ "duration" \in t.fields => DurationFits(t)
    /\ "until" \in t.fields => UntilFits(t)

\* The target is a literal name the coordinator's policy allows.
TargetFits(t, allowed) == 
    t.target \notin {"blank", "templated"} /\ <<t.type, t.target>> \in allowed

-----------------------------------------------------------------------------
(* Authored policies: [retry, timeout, continue], each NONE when not given. *)

BackoffFits(b) ==
    /\ b.initial \in 1 .. 5 * Minute
    /\ b.max \in b.initial .. 15 * Minute
    /\ b.tenths \in 10 .. 100
RetryFits(r) ==
    /\ r.attempts \in 1 .. 5
    /\ (r.attempts = 1) <=> (r.backoff = NONE)
    /\ r.backoff # NONE => BackoffFits(r.backoff)
TimeoutFits(seconds) == seconds \in 1 .. 10 * Minute

PolicyFits(p) ==
    /\ p # NONE
    /\ \E part \in {"retry", "timeout", "continue"} : p[part] # NONE
    /\ p.retry # NONE => RetryFits(p.retry)
    /\ p.timeout # NONE => TimeoutFits(p.timeout)

\* The delay before retry i+1, rounded up to a whole unit.
Delay(backoff, i) ==
    LET raw == backoff.initial * backoff.tenths ^ i
    IN  Min({backoff.max, (raw + 10 ^ i - 1) \div 10 ^ i})
ElapsedCeiling(retry, timeout) ==
    (IF retry.backoff = NONE THEN 0
     ELSE MapThenSumSet(LAMBDA i : Delay(retry.backoff, i), 0 .. retry.attempts - 2))
    + (IF timeout = NONE THEN 0 ELSE retry.attempts * timeout)

\* What one task runs with: the tool's own declaration before the plan's, and a
\* single attempt when neither says.  NONE keeps the task on the legacy path.
Declared(t, tools) == IF t.type = "tool" THEN tools[t.target] ELSE NONE
HasPolicy(t, tools) == "execution" \in t.fields \/ Declared(t, tools) # NONE
Chosen(t, tools, part) ==
    LET own == Declared(t, tools)
    IN  IF own # NONE /\ own[part] # NONE THEN own[part]
        ELSE IF t.policy # NONE THEN t.policy[part] ELSE NONE
ChosenRetry(t, tools) ==
    LET retry == Chosen(t, tools, "retry")
    IN  IF retry # NONE THEN retry ELSE [attempts |-> 1, backoff |-> NONE]
WithinHour(t, tools) ==
    ElapsedCeiling(ChosenRetry(t, tools), Chosen(t, tools, "timeout")) <= 60 * Minute

\* Durable's policy: a single attempt has no delays.
RetryInput(retry) ==
    LET backoff == retry.backoff
    IN  [attempts |-> retry.attempts,
         first |-> IF backoff = NONE THEN 0 ELSE backoff.initial,
         ceiling |-> IF backoff = NONE THEN 0 ELSE backoff.max,
         tenths |-> IF backoff = NONE THEN 10 ELSE backoff.tenths]

Frozen(t, tools) ==
    IF ~HasPolicy(t, tools) THEN NONE
    ELSE [retry |-> RetryInput(ChosenRetry(t, tools)),
          timeout |-> Chosen(t, tools, "timeout"),
          continue |-> IF t.policy = NONE THEN NONE ELSE t.policy.continue]

\* What the Activity accepts of a frozen policy before it looks at the target.
Executable(e) ==
    LET r == e.retry
    IN  /\ r.attempts \in 1 .. 5
        /\ r.first \in 0 .. 15 * Minute
        /\ r.ceiling \in 0 .. 15 * Minute
        /\ r.tenths \in 10 .. 100
        /\ e.timeout # NONE => TimeoutFits(e.timeout)
        /\ IF r.attempts = 1 THEN r.first = 0 /\ r.ceiling = 0
           ELSE r.first >= 1 /\ r.ceiling >= r.first

-----------------------------------------------------------------------------
(* One task on its own, then its dependencies, then its references. *)

TaskFits(t, allowed) ==
    /\ t.id \notin {"item", "index"}
    /\ t.type \in DOMAIN Required
    /\ Required[t.type] \subseteq t.fields
    /\ t.fields \subseteq Permitted[t.type]
    /\ "execution" \in t.fields => PolicyFits(t.policy)
    /\ IF t.type = "wait" THEN WaitFits(t) ELSE TargetFits(t, allowed)

FreshId(plan, i) == \A j \in 1 .. i - 1 : plan[j].id # plan[i].id

DepsFit(plan, t) ==
    /\ t.id \notin Range(t.deps)
    /\ IsInjective(t.deps)
    /\ Range(t.deps) \subseteq Ids(plan)

\* A closure that stops at the direct dependencies (mutant of Upstream).
DirectOnly(plan) == [id \in Ids(plan) |-> Range(TaskOf(plan, id).deps)]

\* Every transitive dependency of every task of an acyclic plan.
Upstream(plan) ==
    LET up[id \in Ids(plan)] ==
            LET deps == Range(TaskOf(plan, id).deps)
            IN  deps \cup UNION {up[d] : d \in deps}
    IN  up

\* A reference is to a node's result, to the iteration's item or index, to
\* item.result (which reads as either), or is malformed.
NodeOf(ref) == IF ref.kind = "item_result" THEN "item" ELSE ref.node
Local(ref) == ref.kind \in {"item", "index", "item_result"}
Named(ref) == ref.kind \in {"node", "item_result"}

\* A reference to any known task (mutant of RefFits).
KnownOnly(t, ref, plan, upstream) ==
    (Local(ref) /\ t.each # NONE) \/ (Named(ref) /\ NodeOf(ref) \in Ids(plan))

RefFits(t, ref, plan, upstream) ==
    \/ Local(ref) /\ t.each # NONE
    \/ Named(ref) /\ NodeOf(ref) \in Ids(plan) /\ NodeOf(ref) \in upstream
EachFits(t, plan, upstream) ==
    t.each # NONE => /\ Named(t.each)
                     /\ NodeOf(t.each) \in Ids(plan) \cap upstream
WhenFits(t, plan, upstream) == t.when # NONE => RefFits(t, t.when, plan, upstream)

RefsFit(t, plan, upstream) ==
    /\ \A ref \in t.refs : RefFits(t, ref, plan, upstream)
    /\ EachFits(t, plan, upstream)
    /\ WhenFits(t, plan, upstream)

-----------------------------------------------------------------------------
(* Run time. *)

\* How a reference resolves, given the tasks with a result and whether the
\* instance has an item.  A path that fails inside a value is the data's fault
\* and is not told apart from a value.
Resolve(ref, results, bound) ==
    IF Local(ref) /\ (bound \/ ~Named(ref)) THEN IF bound THEN "value" ELSE "unbound"
    ELSE IF Named(ref) THEN IF NodeOf(ref) \in results THEN "value" ELSE "no_result"
    ELSE "leftover"

\* The references a task resolves before it is dispatched: for_each is read
\* before an item is bound, when and the arguments with it.
Resolves(t, results) ==
    LET bound == t.each # NONE
    IN  /\ bound => Resolve(t.each, results, FALSE) = "value"
        /\ t.when # NONE => Resolve(t.when, results, bound) = "value"
        /\ \A ref \in t.refs : Resolve(ref, results, bound) = "value"

\* A wait is measured again, against the orchestration's clock.
WaitHolds(t, clock) == "until" \in t.fields => t.wait - clock <= MaxWait

IsDynamic(plan) == \E t \in Range(plan) : t.each # NONE \/ t.when # NONE
=============================================================================
