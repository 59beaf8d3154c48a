--------------------------- MODULE RequestSurfaces ---------------------------
(***************************************************************************)
(* The surfaces a request reaches an agent through (registration/          *)
(* _handlers.py, registration/endpoints.py, runner.py): a trigger, an HTTP *)
(* trigger, the chat, chat stream, MCP and history endpoints of an         *)
(* application, and the runner's own API.  Each decides on which harness   *)
(* the request runs, under which session, and what it answers and records. *)
(***************************************************************************)
EXTENDS Delegation

CONSTANTS Contracted,    \* the applications whose HTTP agents promise a response format
          Through        \* request -> the surfaces it may arrive through

VARIABLE req             \* request -> its state

vars == <<bindvars, delvars, req>>

Surfaces == {"trigger", "http", "chat", "mcp", "stream", "history", "direct"}
Spanned == {"trigger", "http", "chat", "mcp"}

ASSUME SurfaceAssumption ==
    /\ Through \in [Requests -> SUBSET Surfaces]
    /\ NONE \notin {"success", "error", "canceled"}

NewRequest == [pc |-> "idle", surface |-> NONE, scope |-> NONE, own |-> FALSE, harness |-> NONE,
               resumable |-> FALSE, told |-> FALSE, answer |-> NONE, outcome |-> NONE,
               error |-> FALSE, reported |-> 0]

Init ==
    /\ InitBinding /\ InitDelegation
    /\ req = [r \in Requests |-> NewRequest]

Is(r, pc, surfaces) == req[r].pc = pc /\ req[r].surface \in surfaces
Becomes(r, q) == req' = [req EXCEPT ![r] = q]

\* A request arrives at an endpoint of a registered application, or calls the runner
\* itself; the caller may bring a session id.
Arrives(r) ==
    /\ req[r].pc = "idle"
    /\ \E s \in Through[r], a \in Apps \cup {"root"}, own \in BOOLEAN :
           /\ s = "direct" <=> a = "root"
           /\ a # "root" => chosen[a] # NONE
           /\ s = "trigger" => ~own
           /\ Becomes(r, [req[r] EXCEPT !.pc = "open", !.surface = s, !.scope = a, !.own = own])
    /\ UNCHANGED <<bindvars, delvars>>

-----------------------------------------------------------------------------
(* What an answer tells, and what the span of the invocation records. *)

\* _session_id_response_headers: the caller's own id is echoed, one the runtime made up
\* is told only when the harness can resume its session.
EchoesId(r) == req[r].own \/ req[r].resumable
\* The MCP endpoint answers with it in the body, once the id is settled.
McpEchoesId(r) == req[r].harness # NONE /\ (req[r].own \/ req[r].resumable)
\* A stream tells it in a session event, the caller's own one before anything else.
StreamTells(r) == req[r].own \/ req[r].resumable
TellsId(r) ==
    CASE req[r].surface \in {"http", "chat"} -> EchoesId(r)
      [] req[r].surface = "mcp" -> McpEchoesId(r)
      [] req[r].surface = "stream" -> StreamTells(r)
      [] req[r].surface = "direct" -> req[r].pc = "returned"
      [] OTHER -> FALSE

Answered(r, answer) == [req[r] EXCEPT !.pc = "ended", !.answer = answer, !.told = TellsId(r)]
WithError(r, q) == IF q.surface \in Spanned THEN [q EXCEPT !.outcome = "error", !.error = TRUE] ELSE q

\* Leaving the span on an exception: a harness whose spans record exceptions themselves
\* gets the error from the span, the other one an outcome of its own.
Canceled(r) ==
    LET q == Answered(r, "raised")
    IN  CASE req[r].surface \notin Spanned -> q
          [] req[r].harness.kind = "maf" -> [q EXCEPT !.error = TRUE]
          [] OTHER -> [q EXCEPT !.outcome = "canceled"]

-----------------------------------------------------------------------------
(* Before the run. *)

\* Authorization is decided before the span is opened, and its refusal echoes the
\* caller's id alone.
Unauthorized(r) ==
    /\ Is(r, "open", {"http", "chat", "stream", "history"})
    /\ Becomes(r, [Answered(r, "error") EXCEPT
                       !.told = req[r].own /\ req[r].surface # "history"])

\* A body the schema refuses, and a schema that is itself invalid.
HttpInvalid(r) ==
    /\ Is(r, "open", {"http"})
    /\ Becomes(r, WithError(r, Answered(r, "error")))
ChatWithoutPrompt(r) ==
    Is(r, "open", {"chat"}) /\ Becomes(r, WithError(r, Answered(r, "error")))
StreamWithoutPrompt(r) ==
    Is(r, "open", {"stream"}) /\ Becomes(r, Answered(r, "error"))
McpWithoutPrompt(r) ==
    /\ Is(r, "open", {"mcp"})
    /\ Becomes(r, [WithError(r, Answered(r, "error")) EXCEPT !.told = req[r].own])
TriggerUnserializable(r) ==
    Is(r, "open", {"trigger"}) /\ Becomes(r, WithError(r, Answered(r, "raised")))
Refuses(r) ==
    /\ \/ Unauthorized(r) \/ HttpInvalid(r) \/ ChatWithoutPrompt(r)
       \/ StreamWithoutPrompt(r) \/ McpWithoutPrompt(r) \/ TriggerUnserializable(r)
    /\ UNCHANGED <<bindvars, delvars>>

\* The transcript endpoint reads through the harness of the registration; only the Agent
\* Framework can replay one.
ReadsHistory(r) ==
    /\ Is(r, "open", {"history"})
    /\ LET h == chosen[req[r].scope] IN
         \E a \in IF h.kind = "copilot" THEN {"error"} ELSE {"ok", "error"} :
             Becomes(r, [Answered(r, a) EXCEPT !.harness = h])
    /\ UNCHANGED <<bindvars, delvars>>

\* The harness is settled, the session named, the clock started; a selection that raises,
\* an invalid id or a collision of tool names ends the request at once.
HandlerHarness(r, h) == h = chosen[req[r].scope] /\ UNCHANGED default
RunHarness(r, h) ==
    CASE req[r].surface \in {"trigger", "http"} -> HandlerHarness(r, h)
      [] req[r].surface \in {"chat", "stream", "mcp"} -> BindHarness(req[r].scope, h)
      [] OTHER -> GetHarness(h)
StartsRun(r) ==
    /\ Is(r, "open", Surfaces \ {"history"})
    /\ \E h \in {chosen[a] : a \in Apps} \cup Selections("root") \cup {default} :
           /\ RunHarness(r, h)
           /\ h # NONE
           /\ Becomes(r, [req[r] EXCEPT !.pc = "running", !.harness = h])
    /\ deadline' = [deadline EXCEPT ![r] = now + RunTimeout]
    /\ UNCHANGED <<switch, flips, chosen, carried, now, leaf, tracker>>
NoHarness(r) ==
    /\ Is(r, "open", {"direct"}) /\ default = NONE /\ NONE \in Selections("root")
    /\ Becomes(r, Answered(r, "raised"))
    /\ UNCHANGED <<bindvars, delvars>>

-----------------------------------------------------------------------------
(* The run, and its answer. *)

Running(r) == Is(r, "running", Surfaces)

\* The harness has a session it can resume: the Agent Framework once the agent is built,
\* Copilot once the native session is open.
Resumable(r) ==
    /\ Running(r) /\ ~req[r].resumable
    /\ Becomes(r, [req[r] EXCEPT !.resumable = TRUE])
    /\ UNCHANGED <<bindvars, delvars>>

Catalog(r) == IF req[r].scope = "root" THEN {carried[a] : a \in Apps} ELSE {carried[req[r].scope]}
Delegates(r) ==
    /\ Running(r) /\ req[r].resumable
    /\ \E c \in Calls[r], own \in Catalog(r) : Dispatch(r, c, own, req[r].harness)
    /\ UNCHANGED <<bindvars, req>>
LeafStep(r) == (\E c \in Calls[r] : LeafEnds(r, c)) /\ UNCHANGED <<bindvars, req>>

\* The run has a result: the span's summary and outcome are set, before the answer is
\* checked and built.
Returns(r) ==
    /\ Running(r) /\ req[r].resumable /\ InFlight(r) = {}
    /\ Becomes(r, [req[r] EXCEPT !.pc = "returned", !.reported = tracker[r],
                       !.outcome = IF req[r].surface \in Spanned THEN "success" ELSE NONE])
    /\ deadline' = [deadline EXCEPT ![r] = 0]
    /\ UNCHANGED <<bindvars, now, leaf, tracker>>

\* validate_response_contract, for an HTTP agent that promises a format.
KeepsSuccess(r, q) == q   \* mutant: the outcome set when the run returned stays
ContractBroken(r, q) == WithError(r, q)
Contracts(r) ==
    /\ Is(r, "returned", {"http"}) /\ req[r].scope \in Contracted
    /\ Becomes(r, ContractBroken(r, Answered(r, "error")))
    /\ UNCHANGED <<bindvars, delvars>>
Answers(r) ==
    /\ Is(r, "returned", Surfaces)
    /\ Becomes(r, Answered(r, "ok"))
    /\ UNCHANGED <<bindvars, delvars>>
\* Logging the result or building the answer raises after the outcome was set.
AnswerFails(r) ==
    /\ Is(r, "returned", Spanned)
    /\ Becomes(r, WithError(r, Answered(r, IF req[r].surface = "trigger" THEN "raised" ELSE "error")))
    /\ UNCHANGED <<bindvars, delvars>>

\* An error of the run, of its session storage included, is answered with a status, an
\* error body or an error event; a trigger and the runner's API raise it.
Leaves(r) ==
    /\ UNCHANGED leaf \/ CancelLeaves(r)
    /\ deadline' = [deadline EXCEPT ![r] = IF InFlight(r)' = {} THEN 0 ELSE @]
    /\ UNCHANGED <<bindvars, now, tracker>>
RunFails(r) ==
    /\ Running(r)
    /\ Becomes(r, WithError(r, Answered(r,
           IF req[r].surface \in {"trigger", "direct"} THEN "raised" ELSE "error")))
    /\ Leaves(r)
RunCanceled(r) ==
    /\ Running(r)
    /\ Becomes(r, Canceled(r))
    /\ Leaves(r)

Next ==
    \/ BindingStep /\ UNCHANGED <<delvars, req>>
    \/ Tick /\ UNCHANGED <<bindvars, req>>
    \/ \E r \in Requests :
           \/ Arrives(r) \/ Refuses(r) \/ ReadsHistory(r) \/ StartsRun(r) \/ NoHarness(r)
           \/ Resumable(r) \/ Delegates(r) \/ LeafStep(r)
           \/ Returns(r) \/ Contracts(r) \/ Answers(r) \/ AnswerFails(r)
           \/ RunFails(r) \/ RunCanceled(r)

Spec == Init /\ [][Next]_vars

-----------------------------------------------------------------------------
(* Properties. *)

RequestState ==
    [pc : {"idle", "open", "running", "returned", "ended"}, surface : Surfaces \cup {NONE},
     scope : Apps \cup {"root", NONE}, own : BOOLEAN, harness : Harness \cup {NONE},
     resumable : BOOLEAN, told : BOOLEAN, answer : {"ok", "error", "raised", NONE},
     outcome : {"success", "error", "canceled", NONE}, error : BOOLEAN, reported : Nat]
LeafState ==
    [at : {"none", "running", "ok", "failed", "canceled"}, until : Nat, on : Harness \cup {NONE}]

TypeOK ==
    /\ switch \in {"off", "on", "bad"} /\ flips \in Nat
    /\ default \in Harness \cup {NONE}
    /\ chosen \in [Apps -> Harness \cup {NONE}] /\ carried \in [Apps -> Harness \cup {NONE}]
    /\ now \in Nat /\ deadline \in [Requests -> Nat] /\ tracker \in [Requests -> Nat]
    /\ DOMAIN leaf = Requests /\ \A r \in Requests : leaf[r] \in [Calls[r] -> LeafState]
    /\ req \in [Requests -> RequestState]

\* Whatever happens to the environment's switch, all requests to one application, reads
\* of its transcripts included, run on the harness its registration was validated with;
\* all direct calls run on one harness; and a delegate runs on its coordinator's.
HarnessFixed ==
    /\ \A r, q \in Requests :
           req[r].harness # NONE /\ req[q].harness # NONE /\ req[r].scope = req[q].scope
               => req[r].harness = req[q].harness
    /\ \A r \in Requests : \A c \in InFlight(r) : leaf[r][c].on = req[r].harness

\* An id the caller did not bring is told only if its session can be resumed, on every
\* surface and whether the request succeeds or fails.
MintedIdIsResumable ==
    \A r \in Requests : req[r].told /\ ~req[r].own => req[r].resumable

\* A request that reached a harness, or was refused with its span open: one refused
\* before leaves no span.
Traced(r) == req[r].harness # NONE \/ req[r].outcome # NONE \/ req[r].error

\* The span of an invocation says success exactly when its caller was answered with a
\* result, carries an error exactly when it does not, unless the request was canceled,
\* and counts every delegate that failed.
SpanTellsTheAnswer ==
    \A r \in Requests : Is(r, "ended", Spanned) /\ Traced(r) =>
        /\ req[r].answer = "ok" <=> req[r].outcome = "success"
        /\ req[r].error <=> req[r].outcome \in {"error", NONE}
        /\ req[r].outcome = "success" => req[r].reported = Failed(r)

\* What a request leaves with its caller and with the telemetry is true of the run it
\* made (_handlers.py:157-170, 239-460; endpoints.py).
AnswersAreTrue == MintedIdIsResumable /\ SpanTellsTheAnswer

\* No delegate runs past its coordinator's deadline, even one its coordinator left behind.
DelegateInBudget ==
    \A r \in Requests : InFlight(r) # {} => now <= deadline[r]
=============================================================================
