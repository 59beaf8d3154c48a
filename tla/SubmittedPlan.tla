---------------------------- MODULE SubmittedPlan ----------------------------
(***************************************************************************)
(* The life of a submitted plan: start_workflow validates it check by      *)
(* check (the cycle search step by step), freezes each task's policy into  *)
(* the payload, and the orchestrator later dispatches the tasks from that  *)
(* payload alone, replaying its decisions, while the app may be deployed   *)
(* again with other tools and policies.                                    *)
(***************************************************************************)
EXTENDS PlanSchema

CONSTANTS Plans,         \* the plans a coordinator submits
          Deployments    \* what an app version allows and declares:
                         \* [allowed |-> <<type, target>> pairs, tools |-> target -> policy]

\* A plan has been parsed into tasks; only the field "execution" carries a policy.
ASSUME PlansAssumption ==
    \A p \in Plans :
        /\ p \in Seq(Range(p))
        /\ \A t \in Range(p) : /\ t.deps \in Seq(Range(t.deps))
                               /\ t.wait \in Int \cup {NONE}
                               /\ "execution" \in t.fields \/ t.policy = NONE

\* The tools allowed are registered, and what a tool declares has passed the checks
\* of an authored policy.
ASSUME DeploymentsAssumption ==
    \A d \in Deployments :
        /\ \A pair \in d.allowed : pair[1] = "tool" => pair[2] \in DOMAIN d.tools
        /\ \A target \in DOMAIN d.tools :
               d.tools[target] # NONE =>
                   /\ d.tools[target].retry # NONE => RetryFits(d.tools[target].retry)
                   /\ d.tools[target].timeout # NONE => TimeoutFits(d.tools[target].timeout)

VARIABLES plan, stage, verdict, cycle,
          color, stack, path, parent,    \* _detect_cycle
          deployed, payload,             \* the app version; the frozen policies
          clock, results, dispatched, failed

search == <<color, stack, path, parent>>
running == <<clock, results, dispatched, failed>>
vars == <<plan, stage, verdict, cycle, search, deployed, payload, running>>

Init ==
    /\ plan \in Plans
    /\ stage = "tasks" /\ verdict = "none" /\ cycle = <<>>
    /\ color = [id \in Ids(plan) |-> "white"]
    /\ stack = <<>> /\ path = <<>> /\ parent = <<>>
    /\ deployed \in Deployments /\ payload = <<>>
    /\ clock = 0 /\ results = {} /\ dispatched = {} /\ failed = {}

-----------------------------------------------------------------------------
(* validate_plan: each check raises at its first failure. *)

Reject(reason) ==
    /\ stage' = "done" /\ verdict' = reason
    /\ UNCHANGED <<plan, search, deployed, payload, running>>
Check(here, holds, next, reason) ==
    /\ stage = here
    /\ IF holds
       THEN stage' = next /\ UNCHANGED <<plan, verdict, search, deployed, payload, running>>
       ELSE Reject(reason)
    /\ UNCHANGED cycle

CheckTasks ==
    Check("tasks",
          /\ Len(plan) <= MaxNodes
          /\ \A i \in DOMAIN plan : TaskFits(plan[i], deployed.allowed) /\ FreshId(plan, i),
          "deps", "task")
CheckDeps ==
    Check("deps", \A i \in DOMAIN plan : DepsFit(plan, plan[i]), "search", "dependency")

-----------------------------------------------------------------------------
(* _detect_cycle: an iterative depth-first search over depends_on. *)

Node == Last(stack).node
Next_ == Last(stack).next
Children == TaskOf(plan, Node).deps
Push(s, id) == Append(s, [node |-> id, next |-> 0])

\* The next root is the first task of the plan still white.
Whites == {i \in DOMAIN plan : color[plan[i].id] = "white"}
SearchFrom ==
    /\ stage = "search" /\ stack = <<>>
    /\ IF Whites = {} THEN stage' = "refs" /\ UNCHANGED stack
       ELSE stack' = Push(<<>>, plan[Min(Whites)].id) /\ UNCHANGED stage
    /\ UNCHANGED <<plan, verdict, cycle, color, path, parent, deployed, payload, running>>

\* A gray node reached again closes a cycle: walk the parents back to it.
ClosedAt ==
    LET back[n \in 0 .. Len(plan)] ==
            IF n = 0 THEN Last(path)
            ELSE IF back[n - 1] \in DOMAIN parent THEN parent[back[n - 1]] ELSE back[n - 1]
        k == Min({n \in 0 .. Len(plan) : back[n] = Node})
    IN  Reverse(<<Node>> \o [i \in 1 .. k |-> back[i - 1]] \o <<Node>>)
FindCycle ==
    /\ stage = "search" /\ stack # <<>>
    /\ Next_ = 0 /\ color[Node] = "gray"
    /\ cycle' = ClosedAt
    /\ Reject("cycle")

\* Enter a white node, then follow its next dependency or leave it black.  A
\* dependency already black is passed over, which leaves lines 905-907, for a black
\* node that is entered again, nothing to do (VerdictIsExact says so).
Expand ==
    /\ stage = "search" /\ stack # <<>>
    /\ Next_ > 0 \/ color[Node] = "white"
    /\ LET entered == IF Next_ = 0 THEN [color EXCEPT ![Node] = "gray"] ELSE color
           walked  == IF Next_ = 0 THEN Append(path, Node) ELSE path
           moved   == [stack EXCEPT ![Len(stack)].next = Next_ + 1]
       IN  IF Next_ < Len(Children)
           THEN LET child == Children[Next_ + 1]
                    follow == entered[child] # "black"
                IN  /\ color' = entered /\ path' = walked
                    /\ stack' = IF follow THEN Push(moved, child) ELSE moved
                    /\ parent' = IF follow
                                 THEN [id \in DOMAIN parent \cup {child} |->
                                          IF id = child THEN Node ELSE parent[id]]
                                 ELSE parent
           ELSE /\ color' = [entered EXCEPT ![Node] = "black"]
                /\ path' = Front(walked) /\ stack' = Front(stack)
                /\ UNCHANGED parent
    /\ UNCHANGED <<plan, stage, verdict, cycle, deployed, payload, running>>

CheckRefs ==
    Check("refs", LET up == Upstream(plan)
                  IN  \A i \in DOMAIN plan : RefsFit(plan[i], plan, up[plan[i].id]),
          "freeze", "reference")

-----------------------------------------------------------------------------
(* start_workflow freezes the policies and submits; the orchestration runs. *)

Freeze ==
    /\ stage = "freeze"
    /\ IF \A t \in Range(plan) : HasPolicy(t, deployed.tools) => WithinHour(t, deployed.tools)
       THEN /\ payload' = [id \in Ids(plan) |-> Frozen(TaskOf(plan, id), deployed.tools)]
            /\ stage' = "running" /\ verdict' = "accepted"
            /\ UNCHANGED <<plan, search, deployed, running>>
       ELSE Reject("schedule")
    /\ UNCHANGED cycle

\* Only the payload decides how a task is dispatched.
\* The policy of the version deployed now (mutant of PersistedExecution).
CurrentExecution(id) == Frozen(TaskOf(plan, id), deployed.tools)
PersistedExecution(id) == payload[id]

\* The orchestrator dispatches a task whose dependencies have results; a replay
\* dispatches again what it dispatched before.
Dispatch(id) ==
    LET t == TaskOf(plan, id)
    IN  /\ stage = "running" /\ Range(t.deps) \subseteq results
        /\ id \notin failed
        /\ IF WaitHolds(t, clock) /\ Resolves(t, results)
           THEN /\ dispatched' = dispatched \cup
                       {[task |-> id, policy |-> PersistedExecution(id),
                         dynamic |-> IsDynamic(plan)]}
                /\ UNCHANGED failed
           ELSE failed' = failed \cup {id} /\ UNCHANGED dispatched
        /\ UNCHANGED <<plan, stage, verdict, cycle, search, deployed, payload, clock, results>>

\* The tool and the Sub Agent Activity look the target up in the version they run in.
Authorized(t) == <<t.type, t.target>> \in deployed.allowed

\* An Activity validates the policy it was given before it asks for its target.
ActivityRuns(d) ==
    LET t == TaskOf(plan, d.task)
    IN  /\ d \in dispatched /\ d.task \notin results \cup failed
        /\ IF t.type # "wait" /\ ~((d.policy # NONE => Executable(d.policy))
                                   /\ Authorized(t))
           THEN failed' = failed \cup {d.task} /\ UNCHANGED results
           ELSE results' = results \cup {d.task} /\ UNCHANGED failed
        /\ UNCHANGED <<plan, stage, verdict, cycle, search, deployed, payload, clock, dispatched>>

Redeploy ==
    /\ stage = "running" /\ clock = 0
    /\ deployed' \in Deployments /\ clock' = 1
    /\ UNCHANGED <<plan, stage, verdict, cycle, search, payload, results, dispatched, failed>>

Search == SearchFrom \/ FindCycle \/ Expand
Validate == CheckTasks \/ CheckDeps \/ Search \/ CheckRefs \/ Freeze
Next ==
    \/ Validate
    \/ \E id \in Ids(plan) : Dispatch(id)
    \/ \E d \in dispatched : ActivityRuns(d)
    \/ Redeploy

\* Validation is a synchronous call: once entered it runs on.
Spec == Init /\ [][Next]_vars /\ WF_vars(Validate)

-----------------------------------------------------------------------------
(* Properties. *)

Deps(id) == Range(TaskOf(plan, id).deps)

\* y is in every set of tasks that holds x's dependencies and, with a task, its own.
Reaches(x, y) ==
    \A S \in SUBSET Ids(plan) :
        (Deps(x) \subseteq S /\ \A z \in S : Deps(z) \subseteq S) => y \in S

\* What the schedulers assume of a plan, said without the validator's graph
\* algorithms.
Sound ==
    /\ Len(plan) <= MaxNodes
    /\ \A i, j \in DOMAIN plan : plan[i].id = plan[j].id => i = j
    /\ \A t \in Range(plan) : TaskFits(t, deployed.allowed) /\ DepsFit(plan, t)
    /\ \A x \in Ids(plan) : ~Reaches(x, x)
    /\ \A t \in Range(plan) :
           RefsFit(t, plan, {y \in Ids(plan) : Reaches(t.id, y)})

\* The cycle _detect_cycle hands to the coordinator (schema.py:894-904) is a
\* closed walk along depends_on, whatever branches the search had left before.
CycleIsReal ==
    verdict = "cycle" =>
        /\ Len(cycle) > 1 /\ cycle[1] = Last(cycle)
        /\ \A i \in 1 .. Len(cycle) - 1 : cycle[i + 1] \in Deps(cycle[i])
        /\ IsInjective(Tail(cycle))

\* The verdict of the checks in their order (schema.py:587-815) is exact: a plan
\* that reaches the freezing of its policies is acyclic with every reference to
\* a transitive dependency, a plan refused before that is not, and the cycle it is
\* refused for is one; and the search never enters a task it has left.
VerdictIsExact ==
    /\ (stage = "freeze" => Sound)
    /\ CycleIsReal
    /\ (stage = "search" /\ stack # <<>> /\ Next_ = 0 => color[Node] # "black")
    /\ (verdict \in {"task", "dependency", "cycle", "reference"} => ~Sound)

\* No check made at submission fails again later: an accepted plan's task is not
\* refused for its wait, its references or its frozen policy, only for a target
\* that a later version of the app no longer allows.
RecheckAgrees ==
    \A id \in failed : LET t == TaskOf(plan, id)
                       IN  t.type # "wait" /\ ~Authorized(t)

\* A replay, under whatever version is deployed by then, dispatches a task with
\* the policy frozen at submission (engine.py:159-183).
ReplayIsDeterministic ==
    \A d, e \in dispatched : d.task = e.task => d = e

\* schema.py:527: the hour's limit is "unreachable with per-field bounds".
\* The code does not keep this: README.md, section 5.
HourIsEnough == verdict # "schedule"
=============================================================================
