--------------------------- MODULE HarnessBinding ---------------------------
(***************************************************************************)
(* Which harness runs an agent (harness/_harness_binding.py).  A switch in *)
(* the environment selects it; an application captures its own selection   *)
(* when it is composed, and everything that names no harness shares the    *)
(* first selection made for the application root.                          *)
(***************************************************************************)
EXTENDS Naturals, FiniteSets

CONSTANTS Apps,          \* function applications registered over one root
          NONE,          \* no harness
          MaxFlips       \* bound on the changes of the switch

VARIABLES switch,        \* "off", "on" or "bad", an unreadable value
          flips,         \* changes of the switch so far
          default,       \* _HARNESSES[root], or NONE
          chosen,        \* app -> the harness its registration was validated with, or NONE
          carried        \* app -> the harness its capabilities carry to its handlers, or NONE

bindvars == <<switch, flips, default, chosen, carried>>

\* A harness is known by whose selection it was and by its kind.
Harness == [owner : Apps \cup {"root"}, kind : {"maf", "copilot"}]

ASSUME BindingAssumption == "root" \notin Apps /\ NONE \notin Harness

InitBinding ==
    /\ switch \in {"off", "on"} /\ flips = 0
    /\ default = NONE
    /\ chosen = [a \in Apps |-> NONE]
    /\ carried = [a \in Apps |-> NONE]

FlipSwitch ==
    /\ flips < MaxFlips /\ flips' = flips + 1
    /\ switch' \in {"off", "on", "bad"} \ {switch}
    /\ UNCHANGED <<default, chosen, carried>>

\* A selection: an unreadable switch raises, and the Copilot harness raises when its
\* provider or its storage is not configured.  Each selection is an object of its own.
Selections(owner) ==
    CASE switch = "off" -> {[owner |-> owner, kind |-> "maf"]}
      [] switch = "on"  -> {[owner |-> owner, kind |-> "copilot"], NONE}
      [] switch = "bad" -> {NONE}

\* get_harness() for a caller that brings no harness: the first selection is kept.
GetHarness(h) ==
    IF default # NONE THEN h = default /\ UNCHANGED default
    ELSE h \in Selections("root") /\ default' = h

\* A composed application selects for itself and leaves the shared default alone; its
\* capabilities carry the selection.  An application whose endpoints are registered by
\* hand binds to the shared default, and register_builtin_endpoints puts that into the
\* capabilities it hands on.  Either is validated first, and may be refused.
Compose(a) ==
    /\ chosen[a] = NONE
    /\ \E h \in Selections(a) \ {NONE} :
           /\ chosen' = [chosen EXCEPT ![a] = h]
           /\ carried' = [carried EXCEPT ![a] = h]
    /\ UNCHANGED <<switch, flips, default>>
RegisterByHand(a) ==
    /\ chosen[a] = NONE
    /\ \E h \in Selections("root") \cup {default} :
           /\ GetHarness(h)
           /\ \/ chosen' = [chosen EXCEPT ![a] = h] /\ carried' = [carried EXCEPT ![a] = h]
              \/ UNCHANGED <<chosen, carried>>
    /\ UNCHANGED <<switch, flips>>

\* bind_harness, at registration and again for each request of a chat endpoint.
BindDefault(a, h) == GetHarness(h)   \* mutant: forgets what the capabilities carry
BindHarness(a, h) ==
    IF carried[a] # NONE THEN h = carried[a] /\ UNCHANGED default
    ELSE GetHarness(h)

BindingStep == FlipSwitch \/ \E a \in Apps : Compose(a) \/ RegisterByHand(a)
=============================================================================
