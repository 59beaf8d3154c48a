--------------------------- MODULE MCAppComposition ---------------------------
(* A small instance of AppComposition: two agents, two tool files. *)
EXTENDS AppComposition

Delegate == [a |-> "delegate_a", b |-> "delegate_b"]
Management == {"fhs_start_workflow"}

Leaf(s) ==
  [slug |-> s, parses |-> TRUE, trigger |-> "none", routed |-> TRUE, endpoints |-> FALSE,
   subs |-> <<>>, wf |-> FALSE, wfSubs |-> <<>>, hides |-> {}, wfHides |-> {},
   toolsOff |-> FALSE, sandbox |-> TRUE, web |-> TRUE, mcpHides |-> {}]

Chat(s) == [Leaf(s) EXCEPT !.endpoints = TRUE]
Coordinator == [Chat("a") EXCEPT !.subs = <<"b">>]
Planner == [Chat("a") EXCEPT !.wf = TRUE, !.wfSubs = <<"b">>]

Coordinators ==
  {Coordinator,
   [Coordinator EXCEPT !.hides = {"delegate_b", "fhs_execute_python"}],
   [Coordinator EXCEPT !.toolsOff = TRUE, !.mcpHides = {"delegate_b"}],
   [Coordinator EXCEPT !.subs = <<"b", "b">>],
   [Coordinator EXCEPT !.trigger = "unknown"],
   [Coordinator EXCEPT !.trigger = "http", !.routed = FALSE],
   [Coordinator EXCEPT !.trigger = "durable"]}

Planners ==
  {Planner,
   [Planner EXCEPT !.wfHides = {"job"}, !.trigger = "timer", !.endpoints = FALSE],
   [Planner EXCEPT !.trigger = "unknown", !.sandbox = FALSE]}

Seconds == {Leaf("b"), [Leaf("b") EXCEPT !.parses = FALSE], Leaf("a"), [Chat("b") EXCEPT !.trigger = "http"]}

Agents ==
  {<<first, Leaf("b")>> : first \in Coordinators \cup Planners}
  \cup {<<first, second>> : first \in {Coordinator, Planner}, second \in Seconds}

File(pick, targets) == [loads |-> TRUE, pick |-> pick, targets |-> targets]
Target(public, handler) == [name |-> "job", public |-> public, handler |-> handler]

Tools ==
  {<<File("t", <<>>), File("t", <<Target(TRUE, TRUE)>>)>>,
   <<File("t", <<>>), File("delegate_b", <<>>)>>,
   <<File("fhs_start_workflow", <<>>), File("fhs_execute_python", <<>>)>>,
   <<File(NoTool, <<Target(FALSE, TRUE)>>), File(NoTool, <<Target(TRUE, TRUE)>>)>>,
   <<File(NoTool, <<Target(TRUE, FALSE)>>), File(Raises, <<Target(TRUE, TRUE)>>)>>,
   <<File("web_request", <<>>), [loads |-> FALSE, pick |-> NoTool, targets |-> <<>>]>>}

Global == [valid |-> TRUE, hides |-> {}, sandbox |-> FALSE, web |-> TRUE]
Plain == [config |-> Global, servers |-> {}, skills |-> {}]

SomeSettings ==
  {Plain,
   [Plain EXCEPT !.config.sandbox = TRUE],
   [Plain EXCEPT !.config.hides = {"t"}, !.config.web = FALSE,
                 !.servers = {[name |-> "delegate_b", usable |-> FALSE]}],
   [Plain EXCEPT !.servers = {[name |-> "delegate_b", usable |-> TRUE]}],
   [Plain EXCEPT !.skills = {ReservedSkill}],
   [Plain EXCEPT !.config.valid = FALSE]}
===============================================================================
