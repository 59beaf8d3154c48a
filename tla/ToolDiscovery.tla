---------------------------- MODULE ToolDiscovery ----------------------------
(***************************************************************************)
(* What an app root holds and what one process of the runtime has read of  *)
(* it: discovery/tools.py, discovery/mcp.py and discovery/skills.py.       *)
(* Discovery reads a directory once per process and answers every later    *)
(* call from its cache, while the files may have been edited since.        *)
(***************************************************************************)
EXTENDS Integers, Sequences, SequencesExt

CONSTANTS
  ToolDirs,   \* what tools/ may hold: sequences of files, by name
  AgentDirs,  \* the agent files there may be, by path
  Settings,   \* what agents.config.yaml, mcp.json and skills/ may hold
  Unread,     \* a cache that nothing has filled yet
  NoTool,     \* a tool file that offers no ordinary tool
  Raises      \* a tool file whose ordinary tool cannot be built

VARIABLES
  disk,       \* the files: tools, servers, skills, agents, config
  cache       \* what this process has read: tools, servers, skills

\* Entries put over those there are.
Over(new, old) ==
  [x \in DOMAIN new \cup DOMAIN old |-> IF x \in DOMAIN new THEN new[x] ELSE old[x]]

Disks ==
  {Over(s, [tools |-> t, agents |-> a]) : s \in Settings, t \in ToolDirs, a \in AgentDirs}

(***************************************************************************)
(* A tool file either fails to execute (loads is FALSE) or declares        *)
(* workflow targets and picks at most one ordinary tool.  The targets are  *)
(* recorded before the tool is picked, so a file whose tool cannot be      *)
(* built is reported as failed and still contributes its targets.          *)
(***************************************************************************)
TargetsOf(file) == IF file.loads THEN file.targets ELSE <<>>

Picks(file) == file.loads /\ file.pick \notin {NoTool, Raises}

Scan(files) ==
  [user    |-> [k \in 1..Len(SelectSeq(files, Picks)) |-> SelectSeq(files, Picks)[k].pick],
   targets |-> FlattenSeq([k \in DOMAIN files |-> TargetsOf(files[k])])]

EmptyCache == [tools |-> Unread, servers |-> Unread, skills |-> Unread]

\* A server entry without a usable url or type is left out and reported.
UsableServers == {s.name : s \in {x \in disk.servers : x.usable}}

DiscoverTools   == IF cache.tools = Unread THEN Scan(disk.tools) ELSE cache.tools
DiscoverServers == IF cache.servers = Unread THEN UsableServers ELSE cache.servers
DiscoverSkills  == IF cache.skills = Unread THEN disk.skills ELSE cache.skills

\* Mutant: a scan with a file that failed is not cached.
RememberUnlessFailed(tools) ==
  [cache EXCEPT !.tools =
     IF \E k \in DOMAIN disk.tools : ~disk.tools[k].loads THEN cache.tools ELSE tools]

\* discover_project_tools keeps its result whether or not a file failed.
Remember(tools) == [cache EXCEPT !.tools = tools]

\* A caller of the runner's API that passes no tools discovers them itself.
ReadTools == cache' = Remember(DiscoverTools)

\* A composition reads all three inventories, one after the other.
ReadAll ==
  cache' = [Remember(DiscoverTools) EXCEPT
              !.servers = DiscoverServers, !.skills = DiscoverSkills]

InitDiscovery == disk \in Disks /\ cache = EmptyCache

\* Files are edited by somebody else, at any moment, one place at a time.
Edit ==
  /\ \/ \E t \in ToolDirs : t # disk.tools /\ disk' = [disk EXCEPT !.tools = t]
     \/ \E a \in AgentDirs : a # disk.agents /\ disk' = [disk EXCEPT !.agents = a]
     \/ \E s \in Settings : disk' = Over(s, disk) /\ disk' # disk
  /\ UNCHANGED cache

\* A new process starts with empty caches on the files as they are.
ForgetAll == cache' = EmptyCache /\ UNCHANGED disk
==============================================================================
