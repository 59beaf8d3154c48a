# A TLA+ development of the Azure Functions agents runtime

The runtime turns Markdown agent definitions into an Azure Functions app: HTTP,
trigger and MCP endpoints that run an agent turn on one of two harnesses (GitHub
Copilot SDK or Microsoft Agent Framework), and a workflow engine on Durable
Functions that agents start from their chat turns. The modules here model the parts
of `src/azure_functions_agents` where several actors, failures or time meet, check
them with TLC on small instances, and prove the most important properties for every
value of the parameters with TLAPS. Paths below are relative to
`src/azure_functions_agents/` unless they start with `docs/`.

## 1. Inventory of the system

| Component | State it keeps | Operations | Interacts with | Hard behaviour | What makes it correct |
|---|---|---|---|---|---|
| Data-driven scheduler, `workflows/engine.py` | logical states, node instances, expanded counts, budget, results, the awaited wave | materialize, expand `for_each`, aggregate, dispatch a wave, await, cancel, apply | Durable, tool and sub-agent Activities | completion order, a cancel event racing the wave, partial failure, limits charged across expansions | tasks start after their dependencies, limits hold, no plan stalls, failures surface |
| Static scheduler, `workflows/engine.py` | results, the awaited wave | select, dispatch, await, apply, cancel | Durable, Activities | the same without data | the same |
| Activity delivery, `workflows/activity.py`, `native_retry.py` | attempts (in Durable), the handler's run | refuse, invoke, classify, time out, raise or return, decode | Durable, handlers and the services they call | at-least-once delivery, work that survives its deadline | effects once per key; what comes out is what happened |
| Workflow admission, `workflows/tools.py`, `context.py` | none: the Durable service holds it | start, cancel, terminate, count | Durable client, concurrent turns | count and schedule without a lock; a schedule call whose answer is lost | active workflows per session bounded |
| Plan schema, `workflows/schema.py` | none | validate, freeze policies, resolve templates | admission, schedulers | cycle check, references, limits | an accepted plan is acyclic and well referenced |
| Workflow session registry, `workflows/context.py` | session table under a lock | register, look up, unregister by token | request handlers, workflow tools | overlapping turns of a session | a turn removes only its own registration |
| Copilot runtime owner, `harness/copilot_sdk/_copilot_runtime.py`, `harness/_harness_lifecycle.py` | cached client, start task, credential, close flag, shutdown callbacks | ask for a client, start, refresh a token, close, shut down all | native process, requests, host shutdown | start racing close, canceled waiters, bounded waits | no process lost, none started twice, shutdown ends |
| Copilot turn, `harness/copilot_sdk/_copilot_execution.py`, `harness/_harness_execution.py` | session locks, deadline, the resources a turn has entered | lock, open storage, create or resume, send, abort, disconnect, delete a leaf, close | owner, session file system, SDK session | failure, cancellation or deadline at every await; nested cleanups | turns of a session are isolated; a success leaves nothing behind; the lock comes free |
| Copilot session file system, `_copilot_session_fs.py`, `_local`, `_blob` | adapter lock, closed flag; files or blobs | callbacks of the native process, persisted-state check, close | SDK, disk, Blob service | deadline inside an operation, multi-step blob operations | refused after close or deadline; operations all or nothing |
| Copilot stream, `_copilot_runner.py` | bounded event queue, wake-up flag, drop count | emit, read, end, close by the client | turn task, HTTP client | slow or absent reader, overflow, client leaving | session known first, drops accounted, the verdict honest, no turn left running |
| Copilot tool calls, `_copilot_tool_calls.py` | one record per call | native start and completion, wrapper start and end, end of the turn | SDK events, tool wrappers, stream | both sides in either order, repeated or missing | one start before one end per call, the wrapper's result, one measurement |
| Agent Framework turn, `harness/agent_framework/_maf_execution.py` | session lock, the model's stream, pending tool calls, usage | run, stream, finalize | model client, history, reader | a reader that leaves at any yield, deadline, failure while finalizing | frames well formed, everything settled before the lock is free |
| Agent Framework history, `_maf_blob_history.py` | append blob | load, create, append | Blob service, other workers | first saves racing each other, requests cut in the middle | outside that race every message is kept once, in one line per worker |
| Harness binding, `harness/_harness_binding.py` | per-root default, each app's selection | select, bind | environment, registration, direct calls | setting changed while the process lives | one harness per app and per root |
| Runner and delegation, `runner.py` | error count of a tracker | run, stream, delegate with the remaining time | harnesses | budgets of nested turns, delegates left behind | a delegate ends before its coordinator's deadline |
| Registration, endpoints, handlers, `registration/` | none after start-up | trigger, HTTP, chat, stream, MCP, history | runner, harness | errors, contracts and cancellation in a response | answer, session id and telemetry agree with what ran |
| App composition, `app.py`, `config/`, `discovery/`, `workflows/integration.py`, `_hosted_skill_app.py` | discovery caches, the app under composition | discover, resolve, validate, freeze, register, bind a hosted skill | files, harness, Durable library | files edited between steps, caches older than specs, checks split over roles | every grant resolves, no name of `_runtime_tool_names.py` or of a delegate twice, one inventory per process |
| Plan target registry, `workflows/registry.py` | none | make entries, look up | composition, Activities | | only public targets with a handler are offered |
| Observability, trigger serialization, system tools, providers | none that outlives a call | convert, trace, exchange | | sequential | mostly not a subject of this development |

The actors meet as follows. An app is composed from its files in two passes and served;
a handler calls the runner, which runs the request on the app's harness. A Copilot turn
takes the session lock, asks the owner for the shared client, opens its session over a
storage adapter that the native process calls back, and emits events into the stream's
queue. Workflow tools called inside a turn go through admission to the Durable service,
which runs the orchestrator generator (one of the two schedulers). The schedulers hand
waves to Activities, which call tools or run a leaf agent turn. An Agent Framework turn
takes the same kind of session lock, loads the session's history, streams and saves. A
host shutdown calls the close callback of every owner.

`PROJECT.json` lists the hazards found in this code, each at its line, with the
properties that would catch it or the reason none does yet.

## 2. Modules

| Module | Models |
|---|---|
| `WorkflowAbstract` | what any workflow promises: results in dependency order, committed once, a final end |
| `WaveOutcome` | the plan's constants, what Durable may deliver for a task, and how the engine classifies it (continue, stop, fail on apply); shared by both schedulers |
| `DynamicWorkflow` | `_run_dynamic_workflow` and its helpers |
| `StaticWorkflow` | `_run_static_workflow` |
| `ActivityDelivery` | a wave of policy-aware Activities below the schedulers: deliveries, attempts, deadlines, the decoded failure; it extends `WaveOutcome` and yields its deliveries |
| `WorkflowAdmission` | `start_workflow`, `cancel_workflow`, `terminate_workflow` against the Durable service |
| `CopilotRuntime` | `CopilotRuntime` objects, `get_runtime`, `shutdown_runtime` |
| `SessionTurn` | `_run` of the Copilot harness, from the session lock to its release |
| `EventStream` | `run_agent_stream` and `_StreamEventQueue` |
| `CopilotToolCalls` | `CopilotToolCalls`, `on_event` and the tool wrapper, on top of `EventStream` |
| `SessionFiles` | the blob backend of the session file system behind its adapter |
| `PlanSchema`, `SubmittedPlan` | the checks on a plan as operators; submission, execution and redeployment as steps |
| `FrameworkHistory`, `FrameworkTurn` | the append blob; `run` and `run_stream` of the Agent Framework harness on top of it |
| `HarnessBinding`, `Delegation`, `RequestSurfaces` | the selection of a harness; delegate tools and their clock; the endpoints. Each extends the one before it |
| `ToolDiscovery`, `AppComposition` | discovery and its caches; `create_function_app` on top of it |
| `MC*` | constants for TLC |
| `*Proofs` | the theorems of the modules they extend; four of them cover several modules: `CopilotTurnProofs` `SessionTurn`, `EventStream` and `CopilotToolCalls`, `CopilotRuntimeProofs` `CopilotRuntime` and `SessionFiles`, `RequestSurfacesProofs` the endpoints and `AppComposition`, `DurableServiceProofs` `WorkflowAdmission` and `ActivityDelivery` |

### Workflows

`DynamicWorkflow` keeps the generator's locals: `logical` is `logical_state`, `inst`
`node_instances`, `expanded` and `budget` the counters, `wave` the tasks at the yield,
and `pc` the phase of the loop (`scan`, `aggregate`, `dispatch`, `await`, `apply`). A
materialization pass visits the tasks in sorted order, one per step (`SkipBlocked`,
`MaterializeNormal`, `RejectExpansion`, `ExpandForEach`), because each visit reads what
the previous ones charged. `Dispatch` is `_dispatch_dynamic_wave` with its
authorization check; `TaskCompletes` is one resumption of `_await_wave` or
`_await_continuation_wave`; `CancelWins` is a cancel event that wins the race;
`ApplyWave` commits the results. Payloads are abstracted to what the properties tell
apart: a value, a fired timer, a continued failure, null, or an array with its length.
A task id is a number, its rank among the sorted ids.

`StaticWorkflow` is the same at the grain of tasks. Both refine `WorkflowAbstract`
through `Abstract == INSTANCE WorkflowAbstract WITH ...`. Durable is the environment:
it delivers the tasks of the wave one at a time in any order, with any outcome
`WaveOutcome!DeliveriesOf` allows, and the cancel event at any time.

`ActivityDelivery` opens that environment up. `Refuse`, `Invoke`, `HandlerEnds` and
`TimesOut` are one delivery inside the worker, `Raises` is the split between raising for
a retry and returning an envelope, `Settle` what Durable makes of it, `Interrupt` and
`Redeliver` the host and at-least-once delivery, and `loose` the handler runs that go on
after nobody waits for them. The service behind a handler is a set of reserved keys. The
handler's side of the contract (reserve the key, then act; return only afterwards) is an
assumption, taken from docs/workflows.md:702-722.

`WorkflowAdmission` splits `start_workflow` at its awaits: `RequestStart` (plan
validated, id drawn, count asked), `Counted` or `Refused`, then `Scheduled` or
`ScheduleFails`. The service creates instances on its own (`Create`), also after a call
that was reported as failed, which the history variable `late` records. The count is
one consistent snapshot; an invalid plan changes nothing and is left out.

`PlanSchema` holds the checks of `validate_plan` as operators, `SubmittedPlan` applies
them in the code's order. The cycle search is stepwise: `stack`, `color`, `path` and
`parent` are the locals of `_detect_cycle`, one visit per step. `Freeze` resolves each
task's policy into the payload, `Dispatch` is the orchestrator's check before it
schedules, for any task whose dependencies have results and again on a replay, and
`Redeploy` puts another version of the app under it. Numbers are kept where a bound is
checked (attempts, seconds, tenths of the coefficient); templates, dates and schemas
are reduced to what they name and whether they parse.

### Copilot

`CopilotRuntime`: a step reaches from one await to the next on the event loop, and the
lock sections hold no await, so they are whole steps. `start` follows the task that
constructs and starts a client, `requests` who waits for or uses one, and `closer` is
the running shutdown with the locals of the `close()` it is in. One shutdown runs at a
time, as the host calls it, and `close()` itself is not canceled.

`SessionTurn`: `phase` is where `_run` is in its nested contexts; `BodyFails` is any
error, cancellation or deadline at the await the body is in, followed by the cleanups
entered so far; `CleanupFails` is a cleanup that raises, is canceled or outlasts its
five seconds. `Live` says that after the deadline nothing of the body and no cleanup of
an answered turn completes. The native process writes through the adapter at any
moment while its session exists (`WriteStarts`, `WriteLands`); a write that the deadline
abandons becomes `stray` and may land later, as a `to_thread` call or a sent Blob
request does. Assumed of the SDK: `disconnect` completes only when no callback of the
session is in flight and no callback follows it.

`EventStream`: `queue`, `available`, `finished`, `dropped` are the queue's fields and
`out` the history of what the client got. Closing the generator and canceling the
request are one action, `ClientCloses`. A turn that succeeds has a nonblank answer, and
its text is streamed either entirely or not at all. On its own the module lets the turn
emit any events (`TurnEvent`); the run checks it under `CopilotToolCalls`, where they
come from the callbacks.

`CopilotToolCalls`: `calls` is the table of records, with the fields that decide
anything; `AnswerEvent`, `NativeStarts` and `NativeCompletes` are `on_event`,
`WrapperStarts` and `WrapperEnds` the wrapper of a host tool, and `ToolTurnEnds` is the
end of `_run` with `finish_telemetry`. The end event of a native completion is a step of
its own (`NativeEndEvent`), because the record is resolved before it. A wrapper that is
canceled does not end here, and the turn has a run span.

`SessionFiles`: `blobs` maps names to contents, a file and the marker of a directory
being separate names; `todo` holds the requests an operation still has to send, computed
from what it read when it began: the adapter's lock keeps other writers out. A listing
comes in the service's order (`Listings`). `SendRequest` sends the next one, `Cut` ends
the operation by an error, a cancellation or the deadline with the request in flight
carried out or not, and `Open` starts the next turn on what is left. A simplification: a
request that was cut is carried out then or never, not later, which only `SessionTurn` and
`FrameworkHistory` have. Refused operations change nothing and are left out.

### Agent Framework

`FrameworkTurn`: `pc` is the await or the yield a turn is at, `frames` what a stream has
yielded, `unread` the turns suspended at a yield, where a reader may go on (`Reads`) or
leave (`Closes`). `call` is one tool call whose arguments arrive in fragments. `stream`
follows the model's stream until it is exhausted or finalized, `usage` counts the records
of it. `Breaks` is an error, the deadline or a cancellation at any await. The model's
library saves the history inside the run or before its stream ends (`Save`), as the
history provider is called by it. `FrameworkHistory` splits a save at its requests:
append, and if the blob is missing create and append again, in two worker processes that
share nothing but the blob. The creation states no condition
(`_maf_blob_history.py:150-151`), and the service starts an empty append blob whatever was
there before: the `ResourceExistsError` the code is ready to suppress comes only from the
fake in tests/test_maf_blob_history.py:67. `CreateBlob` therefore empties a blob another
save has filled. What that costs is measured by `rivals`, which is not state of the code:
for each turn, those that had found no blob and whose request to create it was still to be
served when the turn's messages were appended. A request that fails or is cut (`Fails`) is
either not served or served later (`Lands`), when nobody waits for it. That the client
library may send a request again whose answer was lost is left out: it could append a
block twice.

### Requests

`HarnessBinding` has the switch in the environment, which may be changed or made
unreadable, the per-root default and what an app captured when it was composed.
`Delegation` adds a clock (`Tick`), the deadline of a request and the delegates it
started; a coordinator that ends may cancel its delegates or leave them. `wait_for` fires
on time: the clock cannot pass the limit of a running delegate. `RequestSurfaces` takes a
request from its arrival through the input checks of its surface to the run, the answer
and the outcome on the span, each surface in its own order. Status codes are abstracted
to an answer, an error and an exception that leaves the handler; a stream has no span of
its own here.

### Composition

`ToolDiscovery` has the files and the caches of one process. `AppComposition` walks
`_compose_function_app` phase by phase (`pc`), one agent per step where the code loops
and may raise, with `catalog` for the resolved agents and their capabilities and `app`
for what the app object has been given. Files may be edited, one part at a time, between
any two steps (`EditFiles`); a process may compose again, run an agent directly
(`RunDirectly`) or restart. Tool names are strings, as collisions are what is asked.
`strict` is the harness that validates the agents, chosen per composition. The names the
runtime owns are those of `_runtime_tool_names.py` (the sandbox and workflow management)
and the delegates'. `web_request` is not among them: nothing on the Agent Framework
harness refuses an authored tool of that name, and the properties do not say it is
unique. Models,
timeouts and authentication are not here, nor the other harness's validation of hosted
skills.

## 3. What the runs check

| Run | States | Question and properties |
|---|---|---|
| `dynamic_fan` | 17,427 | Two `for_each` expansions, one over the aggregate of the other, compete for the node limit and share waves with a wait. `NodeLimit`, `NeverStalls`, `AggregateAligned`, `FailuresSurface`, `WaveAccounted` (wave size, nothing running outside the wave, timers settled), the refinement `ImplementsWorkflow`, `Termination` |
| `static_join` | 233 | Two joins, a wait, tasks with and without continuation, more ready roots than a wave holds: `NeverStalls`, `TimersSettled`, `ImplementsWorkflow` |
| `plan_schema` | 213,911 | Every graph on four tasks, every reference, field combination and policy edge: `VerdictIsExact` (accepted means acyclic with references upstream, refused means not, the reported cycle is one), `RecheckAgrees` (an accepted task is refused later only for a target a newer app no longer allows), `ReplayIsDeterministic` |
| `activity_delivery` | 1,667,776 | Two instances of one `for_each` task and one of another, with two attempts and one: `EffectOnce` (at most one effect per instance, one if a value comes out) and `RetriesFaithful` (only transient or unclassified failures are retried, the budget is used up, the failure names its instance) |
| `admission` | 853,702 | Two racing turns of a session beside one of another: `OvershootBounded`, the limit is passed by less than the number of concurrent callers |
| `copilot_runtime` | 655,302 | Two owners, two clients, two requests, two shutdowns: `ClientsAccounted` (a cached client runs, no process is forgotten, one per owner, a late start is reaped), `ShutdownEnds` |
| `session_turn` | 191,924 | Two turns of one session, or a turn and a leaf, in every mix of roles: `TurnsDoNotMix` (only a turn that failed can write into another's; a session with state is resumed, not created over), `SuccessIsSettled` (an answer leaves no native session, open adapter, write or leaf tree), `RequestEnds` |
| `session_files` | 941,963 | Four operations over two turns, cut anywhere: `NothingLost` (what a returned write stored stays until overwritten or removed), `TreeWellFormed` (no name is a file and a directory, nothing is inside a file), `PersistedStateIsExact` |
| `event_stream` | 772,770 | One turn with a host and a native tool call, its queue and a client: `EventsAccounted` (session first, every drop counted), `VerdictHonest`, `ToolEventsPaired`, `CallsAccounted`, `TurnStoppedWithStream`, `EndReachesReader` |
| `framework_turn` | 1,874,713 | Three turns, two of them in one worker, one streamed: `HistoryIsKept` (a save that returned stays in the history once, and turns of a worker do not fork it, unless a rival was about to create the blob; a rival is another worker's or had been cut), `StreamIsWellFormed`, `SettledBeforeRelease`, `TurnsEnd` |
| `request_surfaces` | 1,454,479 | A request on every surface of an app, with a delegate beside one on the surfaces that take a session: `HarnessFixed`, `AnswersAreTrue` (a minted session id is told only if it can be resumed; the span's outcome is the answer's, and it carries an error exactly when the request failed), `DelegateInBudget` |
| `app_composition` | 665,784 | Two agents, two tool files, one edit and two compositions: `GrantsResolve`, `RuntimeNamesAreUnique`, `OneInventoryPerProcess` |

### Bounds

- Workflows: five and six tasks, arrays of up to three entries, two instances per wave
  and a node limit of eight are the smallest values at which two expansions exceed the
  limit together, a wave cuts one `for_each` in two, and a wave mixes a timer, a
  continuing and a non-continuing task. The theorems have no such bound.
- `ActivityDelivery`: two attempts show a first, a retried and a last attempt; one task
  with two instances and another task show that keys separate instances. Redeliveries
  are not bounded.
- `WorkflowAdmission`: limit 1, four instance ids, so that the second caller overshoots
  and a freed place is taken again.
- `CopilotRuntime`: `MaxShutdowns = 2`, two clients: a second client is the one a close
  must not confuse with the first, and a second owner the one registered during a
  shutdown.
- `SessionTurn`: two requests; its properties relate pairs, and the lock is all that
  requests share.
- `CopilotToolCalls`: capacity 2 of 128 and four events, so that the queue overflows with
  and without the session event at its head and again after the reader caught up; three
  callbacks, so that one side of a call can be repeated after both were seen; two event
  ids tell a repeated event from a second one.
- `SessionFiles`: paths of up to two names, so that a directory has a child and a sibling;
  four operations let a cut one be followed by three that meet what it left; two turns
  have one reopening. Names are numbers in the order the service lists them.
- `SubmittedPlan`: four tasks hold a diamond, a cycle behind an acyclic part and two
  disjoint cycles; `MaxNodes` is 4 so that five tasks exceed it.
- `FrameworkTurn`: two turns in one worker share the lock, a third in another shares only
  the blob; two updates show a text and a tool call, or a call in two fragments. With three
  turns a rival of either kind can empty the blob after a save, and another turn load it.
- `RequestSurfaces`: `Through` gives each request the surfaces it may arrive by. One takes
  every surface and may delegate; the other, a chat or a direct call, is there to share the
  app and the clock with it. One flip of the switch separates the two; a clock of
  two with the leaf's timeout above the run's, so that the remaining time is the smaller.
  `MaxTime`, `MaxFlips` bound the clock and the switch.
- `AppComposition`: `MaxEdits = 1`, `MaxCompositions = 2`: a second composition in the
  process that has cached the first one's discovery, with one file changed in between. The
  agents are every coordinator and planner beside a plain leaf, and a plain coordinator or
  planner beside every other kind of second agent.

### Fairness

- Workflows: the worker takes the turn it can take (`WF(Turn)`) and Durable delivers
  what was scheduled (`WF(Durable)`), which is Durable's contract. Nobody has to cancel.
- `CopilotRuntime`: `WF(ShutdownStep)` only: every await of `close()` is under a
  timeout. Starts may hang.
- `SessionTurn`: the deadline passes (`WF(Expire)`), timers fire (`WF(TimerFires)`: the
  body's after the deadline, each cleanup's after five seconds), and the one cleanup
  without a bound, the close of a provider that failed to open
  (`_copilot_session_fs.py:228`), returns (`WF(Revert)`). The native process may hang.
- `EventStream` and `CopilotToolCalls`: the event loop runs the generator when it can run
  (`WF(ToolStreamStep)`), a callback that has resolved its record goes on to its end event
  (`WF(NativeEndEvent)`), and a turn that was canceled ends, as `SessionTurn` shows. A
  turn may hang and a client stop reading.
- `FrameworkTurn`: the deadline passes for a turn waiting for the lock
  (`WF(LockTimesOut)`) or at any later await (`WF(Breaks(t, "error"))`), a turn that is
  done leaves its contexts (`WF(Leave)`), and a suspended generator is read or closed by
  the host (`WF(Reads \/ Closes)`). The model itself may hang.
- The other modules check safety only.

Deadlock checking is off throughout: each model ends (a workflow is done, requests are
over, bounds are used up). For the schedulers `NeverStalls` and `Termination` say that
the end is never a hang.

## 4. What is proved

Of the 38 properties the runs check, theorems state 32, for every value of the
constants: every invariant, and the refinement of `WorkflowAbstract` by both schedulers.
They assume only the named `ASSUME`s of the modules, which every run evaluates:

- plans are acyclic, finite, with known dependencies and positive limits
  (`PlanAssumption`, `DynamicAssumption`, `DeliveryAssumption`);
- callers and delegates are finite sets, timeouts are numbers, null values are fresh
  (`AdmissionAssumption`, `DelegationAssumption`, `BindingAssumption`,
  `SurfaceAssumption`, `WorkerAssumption`, `TurnAssumption`, `SessionAssumption`,
  `RuntimeAssumption`, `StreamAssumption`, `CallsAssumption`);
- paths are sequences of names, and the workspace is a directory below the root
  (`FilesAssumption`); agents and tools are read in the order of their files, and no
  delegate tool has the name of a management tool or of the sandbox, as
  `_runtime_tool_names.py` chooses them (`CompositionAssumption`);
- a submitted plan has been parsed: its tasks and dependencies are sequences, a wait is a
  number of hours or malformed, and only the field `execution` carries a policy
  (`PlansAssumption`); an app's allowed tools are registered, as
  `workflows/integration.py:498-506` takes them from the handler catalog, and what a tool
  declares passed the checks of an authored policy (`DeploymentsAssumption`).

Each proof follows one line: an inductive `IInv`, `Init => IInv`, one lemma per action for
`IInv /\ [Next]_vars => IInv'`, and `IInv => Property`; a property seldom is inductive
alone, and what had to be added is the argument.

- `StaticWorkflowProofs`: `TypeCorrect`, `StallFree`, `DependencyOrder`,
  `FailuresNeverSwallowed`, `TimersAreSettled`, `Implements`. The invariant adds what the
  phase says of the wave (it is ready, unresolved, and holds every delivery not yet
  committed). `StallFree` takes the least unresolved task of the acyclic plan.
- `DynamicWorkflowProofs`: the same, with `NodeLimitHolds`, `AggregatesAligned` and
  `WavesAreAccounted`. The heart is the set `Charged`, the materialized instances together
  with the slot of every authored task without `for_each`: it never outgrows `budget`, nor
  `budget` the node limit, which is why one expansion cannot take what another task needs.
  `PassInv` says what the current pass may still change, `NodeInv` how a logical state
  constrains the task's instances. That a wave is no larger than its limit follows from
  ranking its instances below it (`WaveBound`). `Implements` maps each action to a step of
  `WorkflowAbstract` or a stutter.
- `SubmittedPlanProofs`: `VerdictsAreExact` is the correctness of the iterative
  depth-first search. `SearchInv` says that the path holds the gray tasks in the order of
  the stack (`PathInv`), that every dependency an entry has passed is black but the one
  the search is in (`KidsInv`), that parents follow the stack except under a task about to
  be entered again (`ParentInv`), and that the black tasks are closed under dependencies
  and have no circle among them (`BlackInv`). When the stack runs empty with nothing
  white, all tasks are black, so the plan is acyclic; when a gray task is met, the walk back
  along the parents is the stack from there on, which makes the cycle a real one
  (`CycleOnStack`, `CycleFound`). `UpstreamIsReach` shows that on an acyclic plan the
  recursive closure of the reference check is reachability: its equation has one
  solution. `RechecksAgree` adds that results are closed under dependencies while the plan
  runs, so every reference accepted resolves; until a redeployment nothing fails, and after
  it only for a target. `FrozenPolicyExecutes` relates two sets of limits written down in
  different files (the authored policy's, the Activity's); `ReplayDeterministic` says that
  every dispatch carries what the payload says.
- `DurableServiceProofs`: `OvershootIsBounded`, `EffectAtMostOnce` and
  `RetriesAreFaithful`. The overshoot is not inductive: a schedule call that is out will
  become active. The invariant counts both, active and timely plus pending calls of the
  session, against `Limit` plus callers minus one. `Reserved` ties the number of effects
  to the set of keys the service has seen; `DeliveryTypeCorrect` also shows that what an
  instance delivers is what `WaveOutcome` assumes of it.
- `CopilotTurnProofs`, the session: `TurnsAreIsolated` and `AnswersAreSettled`. An adapter
  is opened under the session's lock and writes only while it is open or by a write left
  behind (`StorageInv`); an answer survives a cleanup only if the cleanup did its work, so
  the order of the cleanups says what is gone by when (`AnswerInv`); and until the turn
  that minted a session id announces it, no other request is on that session (`MintInv`).
- `CopilotTurnProofs`, the stream: `EventsAccountedAlways` and `VerdictHonestAlways`.
  `StreamInv` cuts what was yielded at some k. Up to k it is the turn's events, in the
  order they were emitted, and every event emitted is one of these, queued, hidden or
  counted as dropped (`Passing`); after k comes nothing while the turn streams
  (`Streaming`), or exactly the tail that the end of the turn calls for (`Finishing`). An
  overflow spares the session's event at the head of the queue, so the session is first.
- `CopilotTurnProofs`, the tool calls: `CallsAccountedAlways` and
  `ToolEventsPairedAlways`. `ToolCallsImplementStream` shows that the module refines
  `EventStream`, each callback emitting one event, none, or nothing at all, so the stream's
  theorems hold of it. `RecordsInv` says how the two sides of a call may have met in its
  record, `NotedInv` what the end of the turn notes, `ShownInv` which emitted events a
  record's flags stand for, and `PendingInv` that a completion between its record and its
  end event still has what it will show.
- `CopilotRuntimeProofs`, the owner: `ClientsAccountedAlways`. The books (`StartInv`,
  `OwnerInv`, `CloserInv`, `StoppingInv`) say of each client who answers for it: its
  start, the owner that caches it, or the close that took it. A client that is taken for
  closing leaves the cache in the same section, and a start that ends while its owner's
  close flag is set is never cached.
- `CopilotRuntimeProofs`, the session's files, for paths of any depth. What makes the
  properties inductive is to count the future in: the names stored **and** those a running
  operation will still write form a well-formed tree (`TreeInv`), and each kept write is in
  a file that no remaining request deletes or overwrites before another has stored it for
  good (`StoredInv`). Neither depends on the rest of the requests being sent, which is why
  a cut keeps both. For a rename this takes three facts: sources and copies are apart
  (a directory is not moved into itself), each copy precedes its delete, and no two copies
  share a name. `ScaffoldInv` says what exists before the first operation.
- `FrameworkTurnProofs`: `HistoriesAreKept`, `StreamsAreWellFormed`, `SettledFirst`. The
  lock excludes the turns of one worker, so what a turn loads is what the turns before it
  saved (`LockInv`, `SeenInv`). Once a turn has saved without rivals nobody is left to
  create the blob, and nobody will be, as the blob is there: the turn stays in it at exactly
  one place, while one whose append was not served is at none (`BlobInv`). A turn of the
  same worker is no rival unless it was cut, as it would hold the lock while it waits for
  its creation (`RequestInv`, `RivalsElsewhere`). Frames are clean until a terminal one
  closes them (`FramesInv`), and where a turn is says how far its stream and usage are
  settled (`PhaseInv`).
- `RequestSurfacesProofs`, the endpoints: `HarnessIsFixed`, `DelegatesStayInBudget`,
  `AnswersTellTheTruth`. The invariant follows a request through its phases: the harness
  its app or the root was given (`Placed`), the end of every running delegate against the
  deadline of its coordinator and the clock (`Delegated`), and what the span holds against
  what happened (`Recorded`, `Truthful`).
- `RequestSurfacesProofs`, the composition: `GrantsAlwaysResolve`,
  `RuntimeNamesAlwaysUnique`, `OneInventoryAlways`, for any files and any edits between
  the steps. `CompositionInv` says what a phase may rely on: the process reads each
  inventory once (`FilesInv`, `ReadInv`); validation starts only with references that
  resolve, and the catalog holds exactly the agents it has passed, none of them rejected
  (`CatalogInv`); functions and hosted-skill bindings go only to agents validated for
  that role (`AppInv`).

Type correctness and dependency order of the schedulers, and `FailuresSurface` of the
static one, are proved and no longer checked by a run of their own; the refinement run
implies the order.

Only model-checked is liveness: `Termination`, `ShutdownEnds`, `RequestEnds`, `TurnsEnd`,
`TurnStoppedWithStream` and `EndReachesReader`. Fairness and ENABLED are beyond the prover.

Two limits of the prover shaped the modules. An induction principle over data cannot be
instantiated; where the code recurses (a plan's closure, `mkdir` with its parents, a
rename's requests joined in one sequence) the models have recursive functions, and the
proofs take the least counterexample (`LeastNumber`, `LeastTask`). And library operators
that are defined through recursion or a chosen order (`SelectSeq`, `SetToSortSeq`, `@@`)
cannot be unfolded in a proof; where a theorem depends on what they return, the models
say it with functions and relations, such as `Listings`.

## 5. Known disagreements with the documentation

The modules state seven promises of the documentation that the code does not keep. No
configuration lists them, since a run would stop at them; adding the name as an INVARIANT
(`AdapterClosesWithRequest` as a PROPERTY) to the configuration shows the execution.

| Definition | Add to | The document | The code |
|---|---|---|---|
| `RunningMeansInFlight` | `MCDynamicFan.cfg`, with `Node <- LateNode`, `Deps <- LateDeps`, `Source <- LateSource`, `ForEach = {1, 3}`, `Timer = {}`, `Conditional = {1, 3}`, `Policy = {2}`, `Continue = {}`, `MaxNodes = 7` | docs/workflows.md:859-861: a `for_each` node is `running` while any instance is in flight | `engine.py:1183`: stays `running` between its waves and after a cancellation |
| `ShutdownReleasesOwner` | `MCCopilotRuntime.cfg` | docs/architecture.md:127: "Bounded shutdown releases the runner's owner reference" | `_copilot_runtime.py:224`: not after a client constructor that raised; the failed task stays the owner's `_client_task` |
| `ShutdownReachesClients` | `MCCopilotRuntime.cfg` | `__init__.py:50`: "Close resources acquired by bound runtime harnesses" | `_copilot_runtime.py:312`: `close()` releases an owner to whom a request has meanwhile given a new client |
| `ActiveLimit` | `MCWorkflowAdmission.cfg` | docs/workflows.md:524-531: the limit is enforced "during plan validation and at runtime" | `tools.py:509`: two starts that both count before either schedules exceed it |
| `AdapterClosesWithRequest` | `MCSessionTurn.cfg`, as a PROPERTY | docs/copilot-preview-operations.md:244-246: the adapter closes before the request returns, including on failure or cancellation | `_copilot_execution.py:304`: after five seconds behind a native write, `_bounded_cleanup` gives up and the request returns with the adapter open |
| `HourIsEnough` | `MCSubmittedPlan.cfg` | schema.py:527-528: exceeding PT1H is "currently unreachable with per-field bounds" | `schema.py:530-533` adds every attempt's timeout: five attempts of six minutes and fifty minutes of delays are refused |
| `OverlapsOnlyReorder` | `MCFrameworkTurn.cfg` | docs/architecture.md:486-487: of overlapping turns, "append-blob transcript entries can arrive in either order", likewise docs/copilot-preview-operations.md:230-232; losing updates is said of the Copilot harness only | `_maf_blob_history.py:151`: a first save creates the blob unconditionally, which empties one that another worker's first save has just created and filled; a turn that was answered is then gone from the transcript |

## 6. What is not modelled

- Wall-clock time: durations, backoff, the one-hour admission rule, the wait horizon.
  Where a clock decides between two paths, both are possible.
- Durable's history: `SubmittedPlan` models that decisions are taken again under another
  version of the app; the schedulers are modelled in their execution, the generator being
  deterministic by Durable's contract.
- Content: templates, predicates, prompts, tool arguments, wording of errors, telemetry
  other than the outcome of a span.
- The caches of clients and containers in the Agent Framework history and the shutdown of
  its clients (`_maf_blob_history.py:240-276`), the file history, and the construction of
  MCP tools and model clients.
- The read-only workflow endpoints and tools, the chat page, authorization levels.
- The workflow session registry of `workflows/context.py:141-200`: the package exports it
  and never calls it.
- A Durable client owned by a stream is closed by the generator around it
  (`endpoints.py:553-559`); in which order nested generators are torn down when the host
  drops the outer one is up to the interpreter and is not modelled.
- A start that a shutdown cancels surfaces in a stream as `CancelledError` although its
  client did not leave (`_copilot_runner.py:346`); it needs the composition named below.
- The components listed as not modelled in `PROJECT.json`, with their reasons.

## 7. Plan

Next, most important first:

1. Composition of `SessionTurn` with `CopilotRuntime` (a shutdown that cancels a start a
   turn waits for) and with `CopilotToolCalls` (what a stream says of it).
2. `SessionFiles` as the refinement of an atomic file system for operations that return.
3. The client cache and shutdown of the blob history.

Theorems next: the refinement of item 2, which `StoreInv` prepares, and for item 1 that a
turn's promises survive the composition.
