---------------------------- MODULE AppComposition ----------------------------
(***************************************************************************)
(* create_function_app: app.py's two-pass composition of an app root into  *)
(* a function app, with the parts of config/, discovery/, registration/    *)
(* and workflows/integration.py that decide which tools, delegates and     *)
(* plan targets each agent is given.  A process may compose several times, *)
(* its files may be edited at any moment, and it may be restarted.         *)
(***************************************************************************)
EXTENDS ToolDiscovery, FiniteSets

CONSTANTS
  DelegateTool,     \* slug -> delegate_<slug>
  ManagementTools,  \* RUNTIME_WORKFLOW_TOOL_NAMES
  SandboxTool,      \* fhs_execute_python
  WebTool,          \* web_request
  ReservedSkill,    \* data-driven-workflows
  MaxEdits, MaxCompositions,  \* bounds of the exploration
  NoApp

\* _runtime_tool_names.py keeps its names apart from delegate_<slug>, files are
\* listed in order, and an inventory is not an unread cache.
ASSUME CompositionAssumption ==
  /\ Range(DelegateTool) \cap (ManagementTools \cup {SandboxTool}) = {}
  /\ \A t \in ToolDirs :
       /\ Scan(t) # Unread /\ t \in Seq(Range(t))
       /\ \A file \in Range(t) : file.targets \in Seq(Range(file.targets))
  /\ \A a \in AgentDirs :
       /\ a \in Seq(Range(a))
       /\ \A spec \in Range(a) : "slug" \in DOMAIN spec /\ spec.slug \in DOMAIN DelegateTool
  /\ \A s \in Settings : {"tools", "agents"} \cap DOMAIN s = {}

VARIABLES
  pc,        \* the phase of the composition under way
  strict,    \* the harness bound to the app validates agents (Copilot)
  config,    \* the global configuration it read
  specs,     \* the agent specs it read, in the order of their files
  found,     \* the inventories it read
  at,        \* the agent a pass has reached
  catalog,   \* slug -> resolved agent and its capabilities
  app,       \* the app object of pass 2
  bound,     \* hosted-skill bindings made on the served app
  seen,      \* the tools a direct run of this process discovered last
  edits, compositions

compositionVars == <<disk, cache, pc, strict, config, specs, found, at, catalog, app, bound, seen, edits, compositions>>

-------------------------------------------------------------------------------
(* Configuration: loader.py and merge.py. *)

\* _load_agent_spec raises on a file that does not parse.
Readable(spec) == spec.parses

ReadableFiles == {k \in DOMAIN disk.agents : Readable(disk.agents[k])}

\* apply_tools_filter: what an agent hides adds to what the app hides.
HiddenTools(spec) == IF spec.toolsOff THEN {} ELSE spec.hides \cup config.hides

\* _resolve_sandbox is opt-in for the app, _resolve_web_request opt-out,
\* and an agent may refuse either.
SandboxConfigured(spec) == spec.sandbox /\ config.sandbox
WebConfigured(spec) == spec.web /\ config.web

\* compose
Resolve(spec) ==
  [spec EXCEPT !.hides = HiddenTools(spec), !.sandbox = SandboxConfigured(spec),
               !.web = WebConfigured(spec)]

Resolved == [k \in DOMAIN specs |-> Resolve(specs[k])]

KnownSlugs == {r.slug : r \in Range(Resolved)}

DuplicateSlugs == Cardinality(KnownSlugs) # Len(specs)

\* validate_subagent_references, validate_workflow_subagent_references.
BadReferences(r, refs) ==
  \E k \in DOMAIN refs :
    refs[k] = r.slug \/ refs[k] \notin KnownSlugs \/ \E j \in 1..(k - 1) : refs[j] = refs[k]

\* RUNTIME tools a role adds to the authored ones.
SandboxTools(r) == IF r.sandbox /\ ~r.toolsOff THEN {SandboxTool} ELSE {}
WebTools(r) == IF r.web /\ ~r.toolsOff THEN {WebTool} ELSE {}

-------------------------------------------------------------------------------
(* Capabilities: registration/capabilities.py. *)

NotHidden(tools, r) == SelectSeq(tools, LAMBDA n : n \notin r.hides)

UserTools(r) == IF r.toolsOff THEN <<>> ELSE NotHidden(found.user, r)

PlanTargets(r) ==
  {t \in Range(found.targets) : r.wf /\ t.name \notin r.wfHides}

Servers(r) == found.servers \ r.mcpHides

Capabilities(r) ==
  [resolved |-> r, user |-> UserTools(r), targets |-> PlanTargets(r), servers |-> Servers(r)]

\* existing_tool_names
ExistingTools(r) ==
  Range(UserTools(r)) \cup Servers(r) \cup {t.name : t \in PlanTargets(r)}
    \cup WebTools(r) \cup SandboxTools(r)

\* validate_runtime_tool_name_collisions
Collides(r, workflows) ==
  Range(UserTools(r)) \cap
    ((IF workflows THEN ManagementTools ELSE {}) \cup SandboxTools(r)) # {}

DirectRole(r) == r.trigger # "none" \/ r.endpoints

\* validate_copilot_agent; the default harness has no validator.
HarnessRejects(r) ==
  /\ strict
  /\ \/ ~IsInjective(UserTools(r))
     \/ Range(UserTools(r)) \cap WebTools(r) # {}
     \/ Collides(r, r.wf)

\* Mutant: an agent without a trigger is taken for a leaf.
DelegatesCollideIfTriggered(r) ==
  /\ r.trigger # "none"
  /\ \E k \in DOMAIN r.subs : DelegateTool[r.subs[k]] \in ExistingTools(r)

\* validate_subagent_tool_names
DelegatesCollide(r) ==
  \E k \in DOMAIN r.subs : DelegateTool[r.subs[k]] \in ExistingTools(r)

\* validate_workflow_agent_trigger
TriggerRejected(r) == r.wf /\ r.trigger = "unknown"

\* What pass 1b checks of one agent before it enters the catalog.
Rejected(r) ==
  \/ r.trigger = "durable"
  \/ ~(r.mcpHides \subseteq found.servers)
  \/ TriggerRejected(r)
  \/ DirectRole(r) /\ Collides(r, r.wf)
  \/ DelegatesCollide(r)
  \/ HarnessRejects(r)

-------------------------------------------------------------------------------
(* Workflow targets and policies: workflows/integration.py. *)

\* make_workflow_tool_entry accepts the target.
Runnable(t) == t.handler /\ t.name \notin ManagementTools

\* build_workflow_handler_catalog: the first declaration of a name wins.
Declares(k, n) == found.targets[k].name = n /\ Runnable(found.targets[k])

FirstOf(n) ==
  CHOOSE k \in DOMAIN found.targets : Declares(k, n) /\ \A j \in 1..(k - 1) : ~Declares(j, n)

Handlers ==
  [n \in {t.name : t \in {x \in Range(found.targets) : Runnable(x)}} |->
     found.targets[FirstOf(n)]]

\* Mutant: visibility is read from the agent's own list of declarations.
AllowedAsDeclared(entry) ==
  {t.name : t \in {x \in entry.targets : x.name \in DOMAIN Handlers /\ x.public}}

\* build_workflow_agent_policy_catalog
Allowed(entry) ==
  {t.name : t \in {x \in entry.targets :
                     x.name \in DOMAIN Handlers /\ Handlers[x.name].public}}

Policy(entry) == [tools |-> Allowed(entry), subs |-> Range(entry.resolved.wfSubs)]

WorkflowAgents == {s \in DOMAIN catalog : catalog[s].resolved.wf}

Policies == [s \in WorkflowAgents |-> Policy(catalog[s])]

-------------------------------------------------------------------------------
(* The composition, one action per phase. *)

Fresh ==
  /\ config' = Unread /\ specs' = <<>> /\ found' = Unread /\ at' = 1
  /\ catalog' = <<>> /\ app' = NoApp /\ bound' = {}

Fail ==
  /\ pc' = "failed"
  /\ app' = NoApp

CompositionInit ==
  /\ InitDiscovery
  /\ pc = "idle" /\ strict = FALSE /\ config = Unread /\ specs = <<>> /\ found = Unread /\ at = 1
  /\ catalog = <<>> /\ app = NoApp /\ bound = {} /\ seen = Unread
  /\ edits = 0 /\ compositions = 0

\* The app is composed, for the first time or again in the same process.
BeginComposition ==
  /\ pc \in {"idle", "served", "failed"}
  /\ compositions < MaxCompositions
  /\ compositions' = compositions + 1
  /\ pc' = "config"
  /\ strict' \in BOOLEAN
  /\ Fresh
  /\ UNCHANGED <<disk, cache, seen, edits>>

\* load_global_config raises on a file that does not validate.
LoadConfig ==
  /\ pc = "config"
  /\ IF disk.config.valid
     THEN pc' = "specs" /\ config' = disk.config /\ UNCHANGED app
     ELSE Fail /\ UNCHANGED config
  /\ UNCHANGED <<disk, cache, strict, specs, found, at, catalog, bound, seen, edits, compositions>>

\* load_agent_specs: such a file is skipped, and the order of the paths kept.
LoadSpecs ==
  /\ pc = "specs"
  /\ \E path \in [1..Cardinality(ReadableFiles) -> ReadableFiles] :
       /\ \A m, n \in DOMAIN path : m < n => path[m] < path[n]
       /\ specs' = [n \in DOMAIN path |-> disk.agents[path[n]]]
  /\ pc' = "discovery"
  /\ UNCHANGED <<disk, cache, strict, config, found, at, catalog, app, bound, seen, edits, compositions>>

Discover ==
  /\ pc = "discovery"
  /\ ReadAll
  /\ found' = [user |-> DiscoverTools.user, targets |-> DiscoverTools.targets,
               servers |-> DiscoverServers]
  /\ IF ReservedSkill \in DiscoverSkills THEN Fail ELSE pc' = "identity" /\ UNCHANGED app
  /\ UNCHANGED <<disk, strict, config, specs, at, catalog, bound, seen, edits, compositions>>

\* Pass 1a: slugs are unique and references resolve before anything else.
Identify ==
  /\ pc = "identity"
  /\ IF \/ DuplicateSlugs
        \/ \E r \in Range(Resolved) : BadReferences(r, r.subs) \/ BadReferences(r, r.wfSubs)
     THEN Fail
     ELSE pc' = "validation" /\ UNCHANGED app
  /\ UNCHANGED <<disk, cache, strict, config, specs, found, at, catalog, bound, seen, edits, compositions>>

\* Pass 1b, one agent: validate it and enter it into the catalog.
ValidateNext ==
  /\ pc = "validation" /\ at <= Len(specs)
  /\ LET r == Resolved[at]
     IN  IF Rejected(r)
         THEN Fail /\ UNCHANGED <<at, catalog>>
         ELSE /\ catalog' = Over([s \in {r.slug} |-> Capabilities(r)], catalog)
              /\ at' = at + 1
              /\ UNCHANGED <<pc, app>>
  /\ UNCHANGED <<disk, cache, strict, config, specs, found, bound, seen, edits, compositions>>

\* register_workflow_runtime, once for the whole app, if any agent has a policy.
WithRuntime(a) == [a EXCEPT !.runtime = DOMAIN a.policies # {}]

\* The catalogs are frozen and the app object is created.
Freeze ==
  /\ pc = "validation" /\ at > Len(specs)
  /\ app' = WithRuntime([functions |-> {}, handlers |-> Handlers, policies |-> Policies,
                         runtime |-> FALSE])
  /\ pc' = "registration" /\ at' = 1
  /\ UNCHANGED <<disk, cache, strict, config, specs, found, catalog, bound, seen, edits, compositions>>

\* register_agent and register_builtin_endpoints of one agent: a trigger
\* the library has no decorator for is skipped, the endpoints are not.
AgentSurfaces(r) ==
  (IF r.trigger \in {"http", "timer"} THEN {<<r.slug, "trigger">>} ELSE {})
    \cup (IF r.endpoints THEN {<<r.slug, "endpoints">>} ELSE {})

Registers(r) == app' = [app EXCEPT !.functions = @ \cup AgentSurfaces(r)]

\* Pass 2, one agent; an http_trigger without a route raises here, after
\* the app has been changed.
RegisterNext ==
  /\ pc = "registration" /\ at <= Len(specs)
  /\ LET r == catalog[Resolved[at].slug].resolved
     IN  IF r.trigger = "http" /\ ~r.routed
         THEN Fail /\ UNCHANGED at
         ELSE Registers(r) /\ at' = at + 1 /\ UNCHANGED pc
  /\ UNCHANGED <<disk, cache, strict, config, specs, found, catalog, bound, seen, edits, compositions>>

Serve ==
  /\ pc = "registration" /\ at > Len(specs)
  /\ pc' = "served"
  /\ UNCHANGED <<disk, cache, strict, config, specs, found, at, catalog, app, bound, seen, edits, compositions>>

\* The hosted_skill decorator on the returned app.
BindHostedSkill(s) ==
  /\ pc = "served" /\ s \in DOMAIN catalog \ bound
  /\ LET r == catalog[s].resolved
     IN  r.subs = <<>> /\ ~r.wf /\ ~Collides(r, FALSE)
  /\ bound' = bound \cup {s}
  /\ UNCHANGED <<disk, cache, pc, strict, config, specs, found, at, catalog, app, seen, edits, compositions>>

\* run_agent called without tools, by a program that uses the runner's API.
RunDirectly ==
  /\ ReadTools
  /\ seen' = Range(DiscoverTools.user)
  /\ UNCHANGED <<disk, pc, strict, config, specs, found, at, catalog, app, bound, edits, compositions>>

EditFiles ==
  /\ edits < MaxEdits
  /\ Edit
  /\ edits' = edits + 1
  /\ UNCHANGED <<pc, strict, config, specs, found, at, catalog, app, bound, seen, compositions>>

\* The process ends, whatever it was doing, and a new one starts.
Restart ==
  /\ pc # "idle"
  /\ ForgetAll
  /\ pc' = "idle" /\ seen' = Unread
  /\ Fresh
  /\ UNCHANGED <<strict, edits, compositions>>

CompositionNext ==
  \/ BeginComposition \/ LoadConfig \/ LoadSpecs \/ Discover \/ Identify
  \/ ValidateNext \/ Freeze \/ RegisterNext \/ Serve
  \/ \E s \in DOMAIN DelegateTool : BindHostedSkill(s)
  \/ RunDirectly \/ EditFiles \/ Restart

CompositionSpec == CompositionInit /\ [][CompositionNext]_compositionVars

-------------------------------------------------------------------------------
(* Properties. *)

\* The declaration of a target that a plan naming it will run: the first
\* one, over all tool files, that has a callable handler and a free name.
Runs(n, t) ==
  \E k \in DOMAIN found.targets :
    /\ found.targets[k] = t /\ t.name = n /\ Runnable(t)
    /\ \A j \in 1..(k - 1) : found.targets[j].name = n => ~Runnable(found.targets[j])

\* Once an app object exists, every agent that was read is in the catalog,
\* every delegate and plan target its agents were given exists, and the
\* code behind an allowed target is public and not excluded for the agent:
\* the runner's assertions and _build_plan_policy's error are unreachable,
\* and no declaration of another file lends a private one its visibility.
GrantsResolve ==
  app # NoApp =>
    /\ DOMAIN catalog = KnownSlugs
    /\ \A s \in DOMAIN catalog : Range(catalog[s].resolved.subs) \subseteq DOMAIN catalog
    /\ \A s \in DOMAIN app.policies :
         /\ app.policies[s].subs \subseteq DOMAIN catalog
         /\ \A n \in app.policies[s].tools :
              /\ n \notin catalog[s].resolved.wfHides
              /\ \E t \in Range(found.targets) : Runs(n, t) /\ t.public

AuthoredTools(s) == Range(catalog[s].user)

DelegateNames(s) == {DelegateTool[x] : x \in Range(catalog[s].resolved.subs)}

RuntimeTools(s) ==
  SandboxTools(catalog[s].resolved) \cup (IF s \in WorkflowAgents THEN ManagementTools ELSE {})

\* In every role a served agent runs in, as a trigger, behind endpoints or
\* as a hosted skill, a name the runtime owns or derives for a delegate
\* names one tool: a model that calls it reaches what the runtime meant.
RuntimeNamesAreUnique ==
  pc = "served" =>
    \A s \in {f[1] : f \in app.functions} \cup bound :
      /\ RuntimeTools(s) \cap (AuthoredTools(s) \cup DelegateNames(s)) = {}
      /\ DelegateNames(s) \cap (AuthoredTools(s) \cup catalog[s].servers
                              \cup WebTools(catalog[s].resolved)) = {}

\* Within one process a direct run discovers the very tools the app was
\* composed with, however the files changed and whichever came first.
OneInventoryPerProcess ==
  found # Unread /\ seen # Unread => seen = Range(found.user)
===============================================================================
