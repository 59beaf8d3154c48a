---------------------------- MODULE FrameworkTurn ----------------------------
(***************************************************************************)
(* Turns of one session on the Agent Framework harness                     *)
(* (_maf_execution.py): each builds its agent, takes the session's lock in *)
(* its worker, runs the model with the session's history, streams frames   *)
(* to a reader or returns a result, and settles everything before it lets  *)
(* the lock go, whether it ends, fails, times out, is canceled or is       *)
(* closed by its reader.  FrameworkHistory is the history it reads and     *)
(* appends to.                                                             *)
(***************************************************************************)
EXTENDS FrameworkHistory

CONSTANTS Streams,       \* the turns that stream; the others return a result
          MaxUpdates     \* bound on the updates a streaming turn receives

Outcome == {"success", "error", "canceled", "closed"}
ASSUME TurnAssumption == Streams \subseteq Turns /\ MaxUpdates \in Nat /\ NONE \notin Outcome

VARIABLES pc,            \* turn -> where it is
          holder,        \* worker -> the turn holding the session's lock, or NONE
          frames,        \* turn -> what it has yielded
          unread,        \* the turns suspended at a yield
          call,          \* turn -> its tool call: none, partial, complete
          started,       \* the turns whose tool_start has been yielded
          updates,       \* turn -> updates received
          stream,        \* turn -> the model's stream: none, open, exhausted, finalized
          usage,         \* turn -> usage records emitted
          outcome        \* turn -> how it ended, or NONE

turn == <<frames, unread, call, started, updates, stream, usage, outcome>>
vars == <<hvars, pc, holder, turn>>

Frame == {"session", "delta", "start", "end", "done", "error"}
IoState ==
    Requests \cup {"none", "loaded", "saved", "failed", "late append", "late create"}
TypeOK ==
    /\ blob \in Seq(Turns) \cup {NONE}
    /\ io \in [Turns -> IoState]
    /\ rivals \in [Turns -> SUBSET Turns]
    /\ seen \in [Turns -> (SUBSET Turns) \cup {NONE}]
    /\ pc \in [Turns -> {"idle", "lock", "model", "tail", "ended"}]
    /\ holder \in [Workers -> Turns \cup {NONE}]
    /\ frames \in [Turns -> Seq(Frame)]
    /\ unread \subseteq Turns /\ started \subseteq Turns
    /\ call \in [Turns -> {"none", "partial", "complete"}]
    /\ updates \in [Turns -> 0 .. MaxUpdates]
    /\ stream \in [Turns -> {"none", "open", "exhausted", "finalized"}]
    /\ usage \in [Turns -> {0, 1}]
    /\ outcome \in [Turns -> Outcome \cup {NONE}]

Init ==
    /\ InitHistory
    /\ pc = [t \in Turns |-> "idle"]
    /\ holder = [w \in Workers |-> NONE]
    /\ unread = {} /\ started = {}
    /\ frames = [t \in Turns |-> <<>>]
    /\ call = [t \in Turns |-> "none"]
    /\ updates = [t \in Turns |-> 0]
    /\ stream = [t \in Turns |-> "none"]
    /\ usage = [t \in Turns |-> 0]
    /\ outcome = [t \in Turns |-> NONE]

Goto(t, from, to) == pc[t] = from /\ pc' = [pc EXCEPT ![t] = to]
Ready(t) == t \notin unread

\* A streaming turn yields frames and stays suspended until they are read.
Yields(t, fs) ==
    IF t \in Streams /\ fs # <<>>
    THEN frames' = [frames EXCEPT ![t] = @ \o fs] /\ unread' = unread \cup {t}
    ELSE UNCHANGED <<frames, unread>>

\* The recorder emits at most one record per invocation.
EmitUsage(t) == usage' = [usage EXCEPT ![t] = IF @ = 0 THEN 1 ELSE @]

\* An answer's usage comes with it, or is asked of the finished stream, briefly
\* and before the deadline; when it cannot be had the record is empty.
FinalUsage(t) == IF outcome[t] = "success" THEN EmitUsage(t) ELSE UNCHANGED usage

-----------------------------------------------------------------------------
(* Opening: the session event, the agent, the lock. *)

\* The session event comes first: at once when the caller supplied the session,
\* otherwise after the agent is built; a build that fails ends the turn.
Built(t) ==
    /\ Goto(t, "idle", "lock") /\ Yields(t, <<"session">>)
    /\ UNCHANGED outcome
BuildFails(t) ==
    /\ Goto(t, "idle", "ended")
    /\ \E supplied \in BOOLEAN :
           Yields(t, IF supplied THEN <<"session", "error">> ELSE <<"error">>)
    /\ outcome' = [outcome EXCEPT ![t] = "error"]
Begin(t) ==
    /\ Built(t) \/ BuildFails(t)
    /\ UNCHANGED <<hvars, holder, call, started, updates, stream, usage>>

\* The lock is the worker's for this agent and session, and waiting for it is
\* bounded by the deadline.  The model starts with the session's history.
LockFree(t) == holder[Worker[t]] = NONE
AcquireLock(t) ==
    /\ Ready(t) /\ LockFree(t)
    /\ Goto(t, "lock", "model")
    /\ holder' = [holder EXCEPT ![Worker[t]] = t]
    /\ stream' = [stream EXCEPT ![t] = "open"]
    /\ Load(t)
    /\ UNCHANGED <<frames, unread, call, started, updates, usage, outcome>>
LockTimesOut(t) ==
    /\ Ready(t)
    /\ Goto(t, "lock", "ended")
    /\ Yields(t, <<"error">>)
    /\ outcome' = [outcome EXCEPT ![t] = "error"]
    /\ UNCHANGED <<hvars, holder, call, started, updates, stream, usage>>

-----------------------------------------------------------------------------
(* The model runs: it loads the history, streams updates, saves, ends. *)

Running(t) == pc[t] = "model" /\ Ready(t)
InModel == <<pc, holder>>

\* Nothing is yielded while the history is read or written.
Streaming(t) == Running(t) /\ io[t] = "loaded" /\ stream[t] = "open"
Receives(t) ==
    /\ t \in Streams /\ Streaming(t) /\ updates[t] < MaxUpdates
    /\ updates' = [updates EXCEPT ![t] = @ + 1]
    /\ UNCHANGED <<hvars, InModel, stream, usage, outcome>>

ReceiveText(t) ==
    Receives(t) /\ Yields(t, <<"delta">>) /\ UNCHANGED <<call, started>>

\* Fragments of a call's arguments are merged until they parse; only then is the
\* call announced, and only once.
Merged(previous, whole) == IF whole \/ previous = "complete" THEN "complete" ELSE "partial"
ReceiveCall(t, whole) ==
    /\ Receives(t)
    /\ call' = [call EXCEPT ![t] = Merged(@, whole)]
    /\ IF call'[t] = "complete" /\ t \notin started
       THEN started' = started \cup {t} /\ Yields(t, <<"start">>)
       ELSE UNCHANGED <<started, frames, unread>>

\* A result announces its call first if nothing else has.
StartAgain(t) == IF call[t] = "none" THEN <<>> ELSE <<"start">>   \* mutant of StartIfPending
StartIfPending(t) == IF call[t] # "none" /\ t \notin started THEN <<"start">> ELSE <<>>
ReceiveResult(t) ==
    /\ Receives(t) /\ call[t] # "none"
    /\ started' = started \cup {t}
    /\ Yields(t, StartIfPending(t) \o <<"end">>)
    /\ UNCHANGED call

\* The framework saves the turn's messages before its stream ends.
BeginSave(t) ==
    /\ Streaming(t) /\ Save(t) /\ UNCHANGED <<InModel, turn>>
\* Storage serves the turn, or what the turn had asked for when it was cut.
StorageStep(t) ==
    /\ \/ Running(t) /\ HistoryStep(t)
       \/ Lands(t)
    /\ UNCHANGED <<InModel, turn>>

Completes(t) ==
    /\ Running(t) /\ stream[t] = "open" /\ io[t] = "saved"
    /\ stream' = [stream EXCEPT ![t] = "exhausted"]
    /\ outcome' = [outcome EXCEPT ![t] = "success"]
    /\ Goto(t, "model", "tail")
    /\ UNCHANGED <<hvars, holder, call, updates, usage>>
\* A call whose arguments never parsed is announced before the done frame.
Exhausted(t) ==
    /\ t \in Streams /\ Completes(t)
    /\ Yields(t, StartIfPending(t) \o <<"done">>)
    /\ started' = IF call[t] # "none" THEN started \cup {t} ELSE started
Returns(t) ==
    t \notin Streams /\ Completes(t) /\ UNCHANGED <<frames, unread, started>>

-----------------------------------------------------------------------------
(* Ends: every one settles the stream and the usage before the lock goes. *)

\* Cleanup that skips a stream torn down at a yield (mutant of Finalizes).
FinalizesUnlessClosed(t, end) ==
    stream' = [stream EXCEPT ![t] = IF end = "closed" THEN @ ELSE "finalized"]
\* Each stream of the chain that has cleanup hooks has them run; the first one's
\* run is what makes the turn's stream end, and it ends once.
CleanedUp(s) == IF s = "open" THEN "finalized" ELSE s
Finalizes(t, end) == stream' = [stream EXCEPT ![t] = CleanedUp(@)]

\* The deadline passes (whenever it may: an error too), the model or the storage fails,
\* or the turn is canceled: an operation of the history is cut where it is.
WaitStorage(t) ==   \* a deadline that lets the storage finish (mutant of CutStorage)
    io[t] \notin Requests /\ UNCHANGED hvars
CutStorage(t) ==
    IF io[t] \in Requests THEN Fails(t) ELSE UNCHANGED hvars
Breaks(t, end) ==
    /\ Running(t) /\ stream[t] = "open"
    /\ CutStorage(t)
    /\ Finalizes(t, end) /\ EmitUsage(t)
    /\ outcome' = [outcome EXCEPT ![t] = end]
    /\ Yields(t, IF end = "canceled" THEN <<>> ELSE <<"error">>)
    /\ Goto(t, "model", "tail")
    /\ UNCHANGED <<holder, call, started, updates>>

\* The reader goes away: the generator is closed at its yield.  Before it has the
\* lock there is nothing to settle; after "done" the outcome stands.
Closes(t) ==
    /\ t \in unread /\ pc[t] \notin {"idle", "ended"}
    /\ unread' = unread \ {t}
    /\ IF pc[t] = "model" THEN Finalizes(t, "closed") /\ EmitUsage(t)
       ELSE UNCHANGED <<stream, usage>>
    /\ outcome' = [outcome EXCEPT ![t] = IF @ = NONE THEN "closed" ELSE @]
    /\ pc' = [pc EXCEPT ![t] = IF holder[Worker[t]] = t THEN "tail" ELSE "ended"]
    /\ UNCHANGED <<hvars, holder, frames, call, started, updates>>

\* The lock goes last.
Leave(t) ==
    /\ Ready(t) /\ Goto(t, "tail", "ended")
    /\ FinalUsage(t)
    /\ holder' = [holder EXCEPT ![Worker[t]] = NONE]
    /\ UNCHANGED <<hvars, frames, unread, call, started, updates, stream, outcome>>

-----------------------------------------------------------------------------
(* The world around the turns. *)

Reads(t) ==
    /\ t \in unread /\ unread' = unread \ {t}
    /\ UNCHANGED <<hvars, pc, holder, frames, call, started, updates, stream, usage, outcome>>

Opens(t) == Begin(t) \/ AcquireLock(t) \/ LockTimesOut(t)
Works(t) ==
    \/ BeginSave(t) \/ StorageStep(t)
    \/ ReceiveText(t) \/ ReceiveResult(t) \/ Exhausted(t) \/ Returns(t)
    \/ \E whole \in BOOLEAN : ReceiveCall(t, whole)
Ends(t) ==
    \/ \E end \in {"error", "canceled"} : Breaks(t, end)
    \/ Leave(t)
Next ==
    \E t \in Turns : Opens(t) \/ Works(t) \/ Ends(t) \/ Closes(t) \/ Reads(t)

\* The deadline of a turn comes, a turn that has ended leaves, a reader reads or goes.
Fairness ==
    \A t \in Turns :
        /\ WF_vars(LockTimesOut(t)) /\ WF_vars(Breaks(t, "error"))
        /\ WF_vars(Leave(t)) /\ WF_vars(Reads(t) \/ Closes(t))
Spec == Init /\ [][Next]_vars /\ Fairness

-----------------------------------------------------------------------------
(* Properties. *)

\* The creation of the blob can only undo a save of another worker, or one after a turn
\* that was cut in the middle of it: a turn that has the session's lock meets no other
\* creation of its own worker (_harness_execution.py:76-90).
RivalsElsewhere ==
    \A t \in Turns : \A u \in rivals[t] :
        Worker[u] # Worker[t] \/ io[u] \in {"late create", "failed"}

Undisturbed(t) == io[t] = "saved" /\ rivals[t] = {}
Occurs(t) == Cardinality({i \in DOMAIN blob : blob[i] = t})

\* Two turns of a session in one worker never fork its history: of any two that
\* saved undisturbed, one had loaded what the other saved (the lock of
\* _harness_execution.py:76-90 around _maf_execution.py:650-675 and 822-975).
NoForkedHistory ==
    \A t, u \in Turns :
        t # u /\ Worker[t] = Worker[u] /\ Undisturbed(t) /\ Undisturbed(u)
            => t \in seen[u] \/ u \in seen[t]

\* The messages of a save that returned stay in the blob, once, whatever other turns and
\* workers do, unless a turn that had found no blob was still to create it
\* (_maf_blob_history.py:127-152).
SavedIsKept == \A t \in Turns : Undisturbed(t) => blob # NONE /\ Occurs(t) = 1

\* A session's conversation keeps every message that was saved, in one line of descent
\* per worker; what the first saves of a session can lose to each other's creation of
\* the blob is what another worker saved, or what was saved after a cut first save
\* (_harness_execution.py:76-90, _maf_blob_history.py:127-152).
HistoryIsKept == RivalsElsewhere /\ NoForkedHistory /\ SavedIsKept

\* What the documents promise of overlapping turns, that only the order of the appended
\* entries may vary (docs/architecture.md:486-487,
\* docs/copilot-preview-operations.md:230-232), and the code does not keep.
OverlapsOnlyReorder == \A t \in Turns : io[t] = "saved" => blob # NONE /\ Occurs(t) = 1

Count(t, f) == Cardinality({i \in DOMAIN frames[t] : frames[t][i] = f})
Terminal == {"done", "error"}

\* What a reader sees is well formed on every path: the session comes first, a
\* tool call starts once and before it ends, nothing follows the terminal frame,
\* and that frame agrees with the recorded outcome.
StreamIsWellFormed ==
    \A t \in Streams :
        /\ \A i \in DOMAIN frames[t] :
              /\ frames[t][i] = "session" => i = 1
              /\ frames[t][i] = "end" => \E j \in 1 .. i - 1 : frames[t][j] = "start"
              /\ frames[t][i] \in Terminal => i = Len(frames[t])
        /\ Count(t, "start") <= 1
        /\ Count(t, "done") = 1 <=> outcome[t] = "success"
        /\ Count(t, "error") = 1 <=> outcome[t] = "error"

\* A turn lets the lock go only after the model's stream has ended or been
\* finalized and its one usage record emitted (_maf_execution.py:849-975), so
\* that nothing of it runs into the next turn of the session.
SettledBeforeRelease ==
    \A t \in Turns :
        stream[t] # "none" /\ holder[Worker[t]] # t =>
            /\ pc[t] = "ended" /\ usage[t] = 1
            /\ stream[t] \in {"exhausted", "finalized"}

\* Every turn that begins ends, however slow the model, the storage or the other turns
\* are: from some point on none is between its beginning and its end.
TurnsEnd == <>[](\A t \in Turns : pc[t] \in {"idle", "ended"})
=============================================================================
