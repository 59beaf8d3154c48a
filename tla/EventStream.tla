---------------------------- MODULE EventStream ----------------------------
(***************************************************************************)
(* The server-sent events of a Copilot turn                                *)
(* (harness/copilot_sdk/_copilot_runner.py): run_agent_stream runs the     *)
(* turn in a task of its own, which pushes events into a bounded queue     *)
(* while the client reads at its own pace, may close the stream at any     *)
(* yield, and is told at the end how the turn ended.                       *)
(***************************************************************************)
EXTENDS Naturals, Sequences, FiniteSets

CONSTANTS
  Capacity,       (* _STREAM_EVENT_QUEUE_CAPACITY                          *)
  MaxEvents       (* bound on the events of the turn                       *)

ASSUME StreamAssumption ==
  /\ Capacity \in Nat \ {0, 1}
  /\ MaxEvents \in Nat

VARIABLES
  callerSupplied,  (* whether the caller named the session                 *)
  turn,            (* the execution task                                   *)
  canceling,       (* execution.cancel() was called                        *)
  resumable,       (* session_state.resumable                              *)
  emitted,         (* the number of events emitted so far                  *)
  queue,           (* _events                                              *)
  available,       (* _available                                           *)
  finished,        (* _finished                                            *)
  dropped,         (* dropped_events                                       *)
  reader,          (* where run_agent_stream is                            *)
  emittedSession,  (* its locals emitted_session and emitted_text          *)
  emittedText,
  tail,            (* what is left to yield once the turn has ended        *)
  out              (* history: the events yielded to the client            *)

queueVars == <<queue, available, finished, dropped>>
turnVars == <<turn, resumable, emitted>>
seenVars == <<emittedSession, emittedText>>
endVars == <<tail, out>>
readerVars == <<reader, seenVars, endVars>>
streamVars == <<callerSupplied, turnVars, canceling, queueVars, readerVars>>

TurnEnded == {"ok", "failed", "canceled"}
Event == [kind : {"session", "delta", "other"}, n : 1 .. MaxEvents + 1]
Final == [kind : {"truncated"}, n : 1 .. MaxEvents]
         \cup [kind : {"session", "message", "delta", "done", "error"}, n : {0}]

StreamTypeOK ==
  /\ turn \in {"none", "setup", "open", "sending"} \cup TurnEnded
  /\ canceling \in BOOLEAN
  /\ callerSupplied \in BOOLEAN /\ resumable \in BOOLEAN
  /\ emitted \in 0 .. MaxEvents + 1
  /\ queue \in Seq(Event) /\ Len(queue) <= Capacity
  /\ finished = (turn \in TurnEnded)
  /\ available \in BOOLEAN
  /\ dropped \in 0 .. MaxEvents
  /\ reader \in {"start", "ready", "waiting", "yielding", "result",
                 "closing", "ended", "closed"}
  /\ emittedSession \in BOOLEAN /\ emittedText \in BOOLEAN
  /\ tail \in Seq(Final)
  /\ out \in Seq(Event \cup Final)

StreamInit ==
  /\ turn = "none" /\ canceling = FALSE /\ resumable = FALSE /\ emitted = 0
  /\ queue = <<>> /\ available = FALSE /\ finished = FALSE /\ dropped = 0
  /\ reader = "start"
  /\ callerSupplied \in BOOLEAN
  /\ emittedSession = callerSupplied /\ emittedText = FALSE
  /\ tail = <<>> /\ out = <<>>

Ending(kind) == [kind |-> kind, n |-> 0]

----------------------------------------------------------------------------
(* The queue.                                                              *)
DropHead(q) == Tail(q)

(* The oldest event goes, but a session event at the head stays.           *)
DropOldest(q) ==
  IF Head(q).kind = "session" THEN <<Head(q)>> \o SubSeq(q, 3, Len(q)) ELSE Tail(q)

Emit(kind) ==
  LET e == [kind |-> kind, n |-> emitted + 1]
  IN  /\ emitted' = emitted + 1
      /\ \/ /\ Len(queue) >= Capacity
            /\ queue' = Append(DropOldest(queue), e)
            /\ dropped' = dropped + 1
         \/ /\ Len(queue) < Capacity
            /\ queue' = Append(queue, e)
            /\ UNCHANGED dropped
      /\ available' = TRUE
      /\ UNCHANGED finished

FinishSilently ==
  /\ finished' = TRUE
  /\ UNCHANGED <<queue, available, dropped>>

Finish ==
  /\ finished' = TRUE
  /\ available' = TRUE
  /\ UNCHANGED <<queue, dropped>>

----------------------------------------------------------------------------
(* The turn. Its session is created or resumed, its tools are verified and *)
(* only then is the session announced.                                     *)
OpenSession ==
  /\ turn = "setup"
  /\ turn' = "open"
  /\ resumable' = TRUE
  /\ UNCHANGED <<callerSupplied, emitted, canceling, queueVars, readerVars>>

AnnounceSession ==
  /\ turn = "open"
  /\ turn' = "sending"
  /\ Emit("session")
  /\ UNCHANGED <<callerSupplied, resumable, canceling, readerVars>>

(* An answer delta, or an intermediate or tool event.                      *)
TurnEvent ==
  /\ turn = "sending"
  /\ emitted <= MaxEvents
  /\ \E kind \in {"delta", "other"} : Emit(kind)
  /\ UNCHANGED <<callerSupplied, turn, resumable, canceling, readerVars>>

(* The turn's task ends: with a result after the session has disconnected, *)
(* with an error from any step, or canceled, by the reader or by a         *)
(* shutdown that cancels the client start it waits for.                    *)
TurnEnds ==
  /\ \/ turn = "sending" /\ ~canceling /\ turn' = "ok"
     \/ turn \in {"setup", "open", "sending"} /\ ~canceling /\ turn' = "failed"
     \/ turn = "setup" /\ turn' = "canceled"
     \/ turn \in {"setup", "open", "sending"} /\ canceling /\ turn' = "canceled"
  /\ Finish
  /\ UNCHANGED <<callerSupplied, resumable, emitted, canceling, readerVars>>

----------------------------------------------------------------------------
(* run_agent_stream. An unusable session ID is answered with an error.     *)
StartStream ==
  /\ reader = "start"
  /\ \/ /\ turn' = "setup"
        /\ reader' = "ready"
        /\ UNCHANGED <<tail, out>>
     \/ /\ out' = <<Ending("error")>>
        /\ reader' = "yielding"
        /\ UNCHANGED <<turn, tail>>
  /\ UNCHANGED <<callerSupplied, resumable, emitted, canceling, queueVars, seenVars>>

(* The next event is taken and yielded, unless it is a session event the   *)
(* client has or supplied.                                                 *)
TakeEvent ==
  /\ reader = "ready"
  /\ queue # <<>>
  /\ LET e == Head(queue)
     IN  /\ queue' = Tail(queue)
         /\ available' = IF Len(queue) = 1 THEN FALSE ELSE available
         /\ emittedSession' = (emittedSession \/ e.kind = "session")
         /\ emittedText' = (emittedText \/ e.kind = "delta")
         /\ \/ e.kind = "session" /\ emittedSession /\ UNCHANGED <<reader, out>>
            \/ /\ e.kind # "session" \/ ~emittedSession
               /\ reader' = "yielding"
               /\ out' = Append(out, e)
  /\ UNCHANGED <<callerSupplied, turnVars, canceling, finished, dropped, tail>>

AwaitEvent ==
  /\ reader = "ready"
  /\ queue = <<>>
  /\ reader' = IF finished THEN "result" ELSE "waiting"
  /\ available' = IF finished THEN available ELSE FALSE
  /\ UNCHANGED <<callerSupplied, turnVars, canceling, queue, finished, dropped, seenVars, endVars>>

Awake ==
  /\ reader = "waiting"
  /\ available
  /\ reader' = "ready"
  /\ UNCHANGED <<callerSupplied, turnVars, canceling, queueVars, seenVars, endVars>>

(* What ends the stream of a finished turn.                                *)
SuccessTailEventsOnly ==
  IF dropped > 0
  THEN <<[kind |-> "truncated", n |-> dropped], Ending("message"), Ending("done")>>
  ELSE <<Ending("done")>>

SuccessTail ==
  CASE dropped > 0 ->
         <<[kind |-> "truncated", n |-> dropped], Ending("message"), Ending("done")>>
    [] dropped = 0 /\ ~emittedText -> <<Ending("delta"), Ending("done")>>
    [] OTHER -> <<Ending("done")>>

FailureTail ==
  IF resumable /\ ~emittedSession
  THEN <<Ending("session"), Ending("error")>>
  ELSE <<Ending("error")>>

Yield(events) ==
  /\ out' = Append(out, Head(events))
  /\ tail' = Tail(events)
  /\ reader' = "yielding"

TakeResult ==
  /\ reader = "result"
  /\ turn \in TurnEnded
  /\ \/ turn = "ok" /\ Yield(SuccessTail)
     \/ turn = "failed" /\ Yield(FailureTail)
     \/ turn = "canceled" /\ reader' = "closed" /\ UNCHANGED <<tail, out>>
  /\ UNCHANGED <<callerSupplied, turnVars, canceling, queueVars, seenVars>>

(* The client has read what was yielded and asks for more.                 *)
ClientReads ==
  /\ reader = "yielding"
  /\ \/ tail # <<>> /\ Yield(tail)
     \/ /\ tail = <<>>
        /\ reader' = IF out[Len(out)].kind \in {"done", "error"} THEN "ended" ELSE "ready"
        /\ UNCHANGED <<tail, out>>
  /\ UNCHANGED <<callerSupplied, turnVars, canceling, queueVars, seenVars>>

(* The client goes away; the finally block cancels the turn and awaits it. *)
ClientClosesAlone ==
  /\ reader \in {"yielding", "waiting", "result"}
  /\ reader' = "closing"
  /\ UNCHANGED <<callerSupplied, canceling, turnVars, queueVars, seenVars, endVars>>

ClientCloses ==
  /\ reader \in {"yielding", "waiting", "result"}
  /\ reader' = "closing"
  /\ canceling' = (turn \notin TurnEnded \cup {"none"})
  /\ UNCHANGED <<callerSupplied, turnVars, queueVars, seenVars, endVars>>

Closed ==
  /\ reader = "closing"
  /\ turn \in TurnEnded \cup {"none"}
  /\ reader' = "closed"
  /\ UNCHANGED <<callerSupplied, turnVars, canceling, queueVars, seenVars, endVars>>

----------------------------------------------------------------------------
StreamStep == StartStream \/ TakeEvent \/ AwaitEvent \/ Awake \/ TakeResult \/ Closed

StreamNext ==
  \/ OpenSession \/ AnnounceSession \/ TurnEvent \/ TurnEnds
  \/ StreamStep \/ ClientReads \/ ClientCloses

StreamSpec == StreamInit /\ [][StreamNext]_streamVars

(* The event loop runs what can run, and a canceled turn ends because each *)
(* of its cleanups has a timeout. A turn is otherwise free to hang and the *)
(* client to stop reading.                                                 *)
FairStreamSpec == StreamSpec /\ WF_streamVars(StreamStep) /\ WF_streamVars(canceling /\ TurnEnds)
----------------------------------------------------------------------------
Yielded(kind) == {i \in 1 .. Len(out) : out[i].kind = kind}
Passed == {i \in 1 .. Len(out) : out[i].n > 0 /\ out[i].kind # "truncated"}

(* The client learns the session before anything else of the turn, once,   *)
(* and even if the turn fails after the session was made or the queue      *)
(* overflows; a session the caller named is not repeated.                  *)
SessionFirst ==
  /\ Yielded("session") \subseteq {1}
  /\ callerSupplied => Yielded("session") = {}
  /\ ~callerSupplied /\ (Passed # {} \/ Yielded("done") # {}
                         \/ (resumable /\ Yielded("error") # {}))
     => Yielded("session") = {1}

(* A turn that ended well accounts for every event: each was yielded in    *)
(* the order of its emission, or the stream says how many are missing and  *)
(* then gives the whole answer (docs/architecture.md:443).                 *)
DropsAccounted ==
  /\ \A i, j \in Passed : i < j => out[i].n < out[j].n
  /\ Yielded("done") # {} =>
       LET hidden == IF callerSupplied THEN 1 ELSE 0
           missing == emitted - hidden - Cardinality(Passed)
       IN  IF missing = 0
           THEN Yielded("truncated") = {} /\ Yielded("message") = {}
           ELSE \E i \in Yielded("truncated") :
                  out[i].n = missing /\ out[i + 1].kind = "message"

(* The two together: the client knows its session before anything else and *)
(* can account for every event of the turn, whatever the queue dropped     *)
(* (_StreamEventQueue, run_agent_stream).                                  *)
EventsAccounted == SessionFirst /\ DropsAccounted

(* done is said last and only of a turn that ended well, whose answer the  *)
(* client has by then; error is said last and only of one that did not.    *)
VerdictHonest ==
  \A i \in Yielded("done") \cup Yielded("error") :
    /\ i = Len(out)
    /\ out[i].kind = "done" => turn = "ok" /\ Yielded("delta") \cup Yielded("message") # {}
    /\ out[i].kind = "error" => turn \in {"failed", "none"}

(* A client that goes away leaves no turn behind.                          *)
TurnStoppedWithStream ==
  reader = "closing" ~> reader = "closed" /\ turn \in TurnEnded \cup {"none"}

(* The reader is never left asleep: once the turn has ended it yields the  *)
(* rest, unless it is the client that is not reading.                      *)
EndReachesReader == turn \in TurnEnded ~> reader \in {"yielding", "ended", "closed"}
============================================================================
