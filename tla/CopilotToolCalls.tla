--------------------------- MODULE CopilotToolCalls ---------------------------
(***************************************************************************)
(* The tool calls of a streamed Copilot turn                               *)
(* (harness/copilot_sdk/_copilot_tool_calls.py and on_event and _tool of   *)
(* _copilot_execution.py).  A call is reported by the SDK's native events  *)
(* and, when the tool is the host's, by the wrapper that runs it; the two  *)
(* come in any order and may be repeated.  They are correlated into one    *)
(* record per call, one pair of events of EventStream and one span.        *)
(***************************************************************************)
EXTENDS EventStream

CONSTANTS
  Calls,          (* tool_call_ids                                         *)
  HostCalls,      (* those of them that call a tool of custom_tool_names   *)
  Ids,            (* native event ids                                      *)
  NoId, NoCall,   (* none of them                                          *)
  MaxCallbacks    (* bound on the callbacks of the turn                    *)

ASSUME CallsAssumption == HostCalls \subseteq Calls /\ NoCall \notin Calls /\ NoId \notin Ids

VARIABLES
  calls,          (* _records                                              *)
  wrapping,       (* the wrappers of a call that are running               *)
  wrapped,        (* history: the result of the wrapper that ended last    *)
  pendingEnd,     (* on_event is about to emit the end of this call        *)
  shown,          (* history: the tool events emitted, by event number     *)
  callbacks

toolVars == <<calls, wrapping, wrapped, pendingEnd, shown, callbacks>>
allVars == <<streamVars, toolVars>>

Unknown ==
  [known |-> FALSE, custom |-> FALSE, completed |-> FALSE, result |-> "none",
   startEmitted |-> FALSE, endEmitted |-> FALSE,
   reserved |-> FALSE, claimed |-> FALSE, startId |-> NoId, ambiguous |-> FALSE,
   closed |-> FALSE, seen |-> {}, noted |-> FALSE, spans |-> 0]

ToolInit ==
  /\ StreamInit
  /\ calls = [c \in Calls |-> Unknown]
  /\ wrapping = [c \in Calls |-> 0]
  /\ wrapped = [c \in Calls |-> "none"]
  /\ pendingEnd = NoCall
  /\ shown = {}
  /\ callbacks = 0

----------------------------------------------------------------------------
(* Events. start_event and end_event emit nothing the second time.         *)
Shows(c, which, result) ==
  /\ Emit("other")
  /\ shown' = shown \cup {[n |-> emitted + 1, call |-> c, which |-> which, result |-> result]}

ShowsNothing == UNCHANGED <<emitted, queueVars, shown>>

StartEventAgain(c, r) ==
  /\ calls' = [calls EXCEPT ![c] = [r EXCEPT !.startEmitted = TRUE]]
  /\ Shows(c, "start", "none")

StartEvent(c, r) ==
  /\ calls' = [calls EXCEPT ![c] = [r EXCEPT !.startEmitted = TRUE]]
  /\ \/ r.startEmitted /\ ShowsNothing
     \/ ~r.startEmitted /\ Shows(c, "start", "none")

EndEvent(c, r) ==
  /\ calls' = [calls EXCEPT ![c] = [r EXCEPT !.endEmitted = r.endEmitted \/ r.completed]]
  /\ \/ (~r.completed \/ r.endEmitted) /\ ShowsNothing
     \/ r.completed /\ ~r.endEmitted /\ Shows(c, "end", r.result)

(* A callback of the SDK, while the turn is sending.                       *)
Callback ==
  /\ turn = "sending" /\ pendingEnd = NoCall
  /\ emitted < MaxEvents /\ callbacks < MaxCallbacks
  /\ callbacks' = callbacks + 1
  /\ UNCHANGED <<callerSupplied, turn, resumable, canceling, readerVars>>

----------------------------------------------------------------------------
(* The wrapper of a host tool.                                             *)
TakenOver(r) == [r EXCEPT !.known = TRUE, !.custom = TRUE, !.result = "none", !.reserved = TRUE]

(* Mutant: every invocation of the wrapper opens a span.                   *)
ClaimedEachTime(r) == [TakenOver(r) EXCEPT !.claimed = TRUE, !.spans = @ + 1]

(* start_custom and custom_span: the first invocation claims the span.     *)
Claimed(r) ==
  [TakenOver(r) EXCEPT !.claimed = TRUE, !.spans = IF r.claimed THEN @ ELSE @ + 1]

WrapperStarts(c) ==
  /\ Callback
  /\ c \in HostCalls
  /\ StartEvent(c, Claimed(calls[c]))
  /\ wrapping' = [wrapping EXCEPT ![c] = @ + 1]
  /\ UNCHANGED <<wrapped, pendingEnd>>

(* A canceled wrapper completes nothing: it is one that never ends here.   *)
WrapperEnds(c, result) ==
  /\ Callback
  /\ wrapping[c] > 0
  /\ EndEvent(c, [calls[c] EXCEPT !.result = result, !.completed = TRUE])
  /\ wrapping' = [wrapping EXCEPT ![c] = @ - 1]
  /\ wrapped' = [wrapped EXCEPT ![c] = result]
  /\ UNCHANGED pendingEnd

----------------------------------------------------------------------------
(* Native events, for calls of every tool.                                 *)
Noted(r) == [r EXCEPT !.noted = TRUE]

(* start_native: the event names the tool, so a host tool's is reserved    *)
(* for its wrapper; two different starts make the interval ambiguous.      *)
Observed(c, id, named) ==
  [calls[c] EXCEPT !.known = TRUE,
                   !.reserved = @ \/ (named /\ c \in HostCalls),
                   !.seen = @ \cup ({id} \ {NoId})]

TimedFrom(r, id) ==
  CASE r.reserved -> r
    [] ~r.reserved /\ id = NoId -> Noted(r)
    [] ~r.reserved /\ id # NoId /\ r.closed -> r
    [] OTHER ->
         [r EXCEPT !.startId = IF @ = NoId THEN id ELSE @,
                   !.ambiguous = @ \/ r.startId \notin {NoId, id}]

NativeStarts(c, id) ==
  /\ Callback
  /\ LET r == TimedFrom(Observed(c, id, TRUE), id)
     IN  IF r.custom
         THEN calls' = [calls EXCEPT ![c] = r] /\ ShowsNothing
         ELSE StartEvent(c, r)
  /\ UNCHANGED <<wrapping, wrapped, pendingEnd>>

(* _record_native_span, in a turn with a span of its own to hang it on: an *)
(* ambiguous interval, or one without two distinct ends, is only noted, and *)
(* so is one whose clocks or exporter turn out unusable.                   *)
RecordSpan(r, id) ==
  {Noted(r)} \cup
  {s \in {[r EXCEPT !.spans = @ + 1]} : ~r.ambiguous /\ r.startId \notin {NoId, id}}

(* complete_native: a call that no wrapper claims is closed by the first   *)
(* completion, with a span or with a note that says why there is none; one *)
(* that cannot be identified is always noted.                              *)
Measured(c, r, id) ==
  LET done == [r EXCEPT !.closed = TRUE]
  IN  CASE r.reserved -> {r}
        [] ~r.reserved /\ id = NoId -> {Noted(done)}
        [] ~r.reserved /\ id # NoId /\ (r.claimed \/ r.closed) -> {r}
        [] OTHER -> IF id \in calls[c].seen THEN {Noted(done)} ELSE RecordSpan(done, id)

(* Mutant: a native completion overwrites the wrapper's result.            *)
ResolvedByLast(r) == [r EXCEPT !.completed = TRUE, !.result = "native"]

ResolvedBy(r) ==
  IF r.custom \/ r.completed THEN r ELSE [r EXCEPT !.completed = TRUE, !.result = "native"]

NativeCompletes(c, id, named) ==
  /\ Callback
  /\ \E measured \in Measured(c, Observed(c, id, named), id) :
       LET r == ResolvedBy(measured)
       IN  IF r.custom
           THEN /\ calls' = [calls EXCEPT ![c] = r]
                /\ ShowsNothing /\ UNCHANGED pendingEnd
           ELSE StartEvent(c, r) /\ pendingEnd' = c
  /\ UNCHANGED <<wrapping, wrapped>>

(* The second event of the same callback: nothing comes between.           *)
NativeEndEvent ==
  /\ pendingEnd # NoCall
  /\ EndEvent(pendingEnd, calls[pendingEnd])
  /\ pendingEnd' = NoCall
  /\ UNCHANGED <<wrapping, wrapped, callbacks>>
  /\ UNCHANGED <<callerSupplied, turn, resumable, canceling, readerVars>>

(* finish_telemetry, in the finally of the turn.                           *)
Interrupted(r) == ~r.reserved /\ ~r.claimed /\ r.startId # NoId /\ ~r.closed

FinishTelemetry ==
  calls' = [c \in Calls |-> IF Interrupted(calls[c]) THEN Noted(calls[c]) ELSE calls[c]]

----------------------------------------------------------------------------
Idle == pendingEnd = NoCall

AnswerEvent ==
  /\ Idle /\ turn = "sending" /\ emitted < MaxEvents
  /\ Emit("delta")
  /\ UNCHANGED <<callerSupplied, turn, resumable, canceling, readerVars, toolVars>>

ToolTurnEnds ==
  /\ Idle /\ TurnEnds /\ FinishTelemetry
  /\ UNCHANGED <<wrapping, wrapped, pendingEnd, shown, callbacks>>

ToolStreamStep == Idle /\ StreamStep /\ UNCHANGED toolVars

ToolNext ==
  \/ Idle /\ (OpenSession \/ AnnounceSession \/ ClientReads \/ ClientCloses) /\ UNCHANGED toolVars
  \/ AnswerEvent \/ ToolTurnEnds \/ ToolStreamStep \/ NativeEndEvent
  \/ \E c \in Calls :
       \/ WrapperStarts(c)
       \/ \E result \in {"wrapper", "failure"} : WrapperEnds(c, result)
       \/ \E id \in Ids \cup {NoId} :
            \/ NativeStarts(c, id)
            \/ \E named \in BOOLEAN :
                 NativeCompletes(c, id, named)

ToolSpec ==
  /\ ToolInit /\ [][ToolNext]_allVars
  /\ WF_allVars(ToolStreamStep) /\ WF_allVars(NativeEndEvent)
  /\ WF_allVars(canceling /\ ToolTurnEnds)
----------------------------------------------------------------------------
EventOf(i) == CHOOSE e \in shown : e.n = out[i].n
ToolEvents == {i \in Passed : \E e \in shown : e.n = out[i].n}

(* However native events and wrappers interleave and repeat, the client    *)
(* sees at most one tool_start and one tool_end of a call, the start       *)
(* first, and an end without its start only if events were dropped; an end *)
(* shows the result of what completed the call, never an emptied record.   *)
ToolEventsPaired ==
  /\ \A i, j \in ToolEvents :
       EventOf(i).call = EventOf(j).call /\ i < j =>
         EventOf(i).which = "start" /\ EventOf(j).which = "end"
  /\ \A i \in ToolEvents :
       EventOf(i).which = "end" =>
         dropped > 0 \/ \E j \in ToolEvents : j < i /\ EventOf(j).call = EventOf(i).call
  /\ \A e \in shown :
       e.which = "end" =>
         e.result # "none" /\ (e.result # "native" => calls[e.call].custom)

(* The record handed to the caller as evidence of a host tool's call is    *)
(* the wrapper's: no native event that comes before or after replaces its  *)
(* result, and a duplicate invocation only until it ends.                  *)
WrapperOwnsRecord ==
  \A c \in Calls :
    wrapped[c] # "none" /\ wrapping[c] = 0 => calls[c].result = wrapped[c]

(* A call is never measured twice, and when the turn has ended each call   *)
(* is measured or noted as incomplete, unless it is a host tool's whose    *)
(* wrapper never ran.                                                      *)
CallsMeasuredOnce ==
  \A c \in Calls :
    /\ calls[c].spans <= 1
    /\ calls[c].claimed => calls[c].spans = 1
    /\ turn \in TurnEnded /\ calls[c].known =>
         calls[c].reserved \/ calls[c].spans = 1 \/ calls[c].noted

(* The caller's evidence and the metrics of a call agree with what ran,    *)
(* once (_copilot_tool_calls.py:120-420).                                  *)
CallsAccounted == WrapperOwnsRecord /\ CallsMeasuredOnce
============================================================================
