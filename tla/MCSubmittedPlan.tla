--------------------------- MODULE MCSubmittedPlan ---------------------------
EXTENDS SubmittedPlan

Ref(kind, node) == [kind |-> kind, node |-> node]
Task(id, type, fields, deps) ==
    [id |-> id, type |-> type, fields |-> fields, deps |-> deps,
     target |-> IF type = "tool" THEN "fetch" ELSE "helper",
     refs |-> {}, wait |-> 1, policy |-> NONE,
     each |-> IF "for_each" \in fields THEN Ref("node", "a") ELSE NONE,
     when |-> IF "when" \in fields THEN Ref("node", "a") ELSE NONE]
Tool(id, deps) == Task(id, "tool", {"tool"}, deps)
First == Tool("a", <<>>)

\* Every dependency graph on four tasks, and on three with every order of deps.
Sets(others) == {SetToSeq(s) : s \in SUBSET others}
Graphs ==
    {<<Tool("a", da), Tool("b", db), Tool("c", dc), Tool("d", dd)>> :
        da \in Sets({"b", "c", "d"}), db \in Sets({"a", "c", "d"}),
        dc \in Sets({"a", "b", "d"}), dd \in Sets({"a", "b", "c"})}
    \cup {<<Tool("c", dc), Tool("a", da), Tool("b", db)>> :
        da \in SetToAllKPermutations({"b", "c"}), db \in SetToAllKPermutations({"a", "c"}),
        dc \in SetToAllKPermutations({"a", "b"})}

\* Every kind of reference, to a node upstream, beside, unknown or the task itself.
Refs == {Ref("node", n) : n \in {"a", "b", "c", "x"}} \cup
        {Ref(k, "a") : k \in {"item", "index", "item_result", "malformed"}}
References ==
    {<<First, [Tool("b", <<"a">>) EXCEPT !.deps = d],
       [Tool("c", <<"b">>) EXCEPT !.refs = r, !.each = e, !.when = w]>> :
        d \in {<<>>, <<"a">>, <<"a", "a">>, <<"b">>, <<"x">>, <<"c">>},
        r \in {{}} \cup {{f} : f \in Refs}, e \in Refs \cup {NONE}, w \in Refs \cup {NONE}}

\* Every combination of fields on every type, and the edges of a wait.
Fields ==
    {<<First, Task("b", type, fields, <<"a">>)>> :
        type \in {"tool", "wait", "sub_agent", "other"},
        fields \in SUBSET {"tool", "agent", "task", "duration", "until", "args", "for_each", "when"}}
    \cup {<<First, [Task(id, "wait", {kind}, <<>>) EXCEPT !.wait = h]>> :
        id \in {"a", "b", "item"}, kind \in {"duration", "until"}, h \in {NONE, -1, 0, 1, 24, 25}}
    \cup {<<[First EXCEPT !.target = g]>> : g \in {"blank", "templated", "helper"}}

\* The edges of an authored policy.
Backoff(i, m, t) == [initial |-> i, max |-> m, tenths |-> t]
Retries == {NONE, [attempts |-> 1, backoff |-> NONE], [attempts |-> 2, backoff |-> NONE],
            [attempts |-> 1, backoff |-> Backoff(1, 1, 10)]} \cup
           {[attempts |-> n, backoff |-> b] : n \in {2, 5, 6},
              b \in {Backoff(0, 1, 10), Backoff(1, 1, 10), Backoff(2, 1, 15), Backoff(3, 8, 15),
                     Backoff(5 * Minute, 15 * Minute, 100), Backoff(5 * Minute, 5 * Minute, 9)}}
Policies ==
    {<<[Task("a", type, {"execution"} \cup Required[type], <<>>) EXCEPT
            !.policy = [retry |-> r, timeout |-> t, continue |-> c]]>> :
        type \in {"tool", "sub_agent"}, r \in Retries,
        t \in {NONE, 0, 1, 6 * Minute, 10 * Minute, 10 * Minute + 1}, c \in {NONE, FALSE, TRUE}}

MCPlans == Graphs \cup References \cup Fields \cup Policies \cup {<<First, First, First, First, First>>}
MCDeployments ==
    {[allowed |-> {<<"tool", "fetch">>, <<"sub_agent", "helper">>},
      tools |-> [fetch |-> NONE]],
     [allowed |-> {<<"tool", "fetch">>},
      tools |-> [fetch |-> [retry |-> [attempts |-> 3, backoff |-> Backoff(1, 2, 20)],
                            timeout |-> 20]]]}
=============================================================================
