---------------------------- MODULE SessionTurn ----------------------------
(***************************************************************************)
(* One turn of the Copilot harness from the session lock to its release    *)
(* (harness/copilot_sdk/_copilot_execution.py, _run): nested cleanups that *)
(* must run in order whatever fails, an invocation deadline, and the       *)
(* session filesystem adapter whose callbacks the native process calls.    *)
(* Every primary request here is on one session of one agent; a leaf has a *)
(* session, a tree and no lock of its own. A write of the native process   *)
(* stands for every operation of the adapter that changes the tree.        *)
(***************************************************************************)
EXTENDS Naturals, FiniteSets

CONSTANTS Request, None

ASSUME SessionAssumption == None \notin Request

VARIABLES
  role,      (* HarnessRequest: a leaf, or a primary on a minted session   *)
             (* id ("new") or on one the client supplied ("supplied")      *)
  phase,     (* where _run is                                              *)
  verdict,   (* running, answered or failed: the pending outcome of _run   *)
  holder,    (* who holds the session's entry of _SESSION_LOCKS            *)
  adapter,   (* the CopilotSessionFs of the request                        *)
  native,    (* the native session, in the SDK's process                   *)
  writing,   (* a native write is inside the adapter, under its _lock      *)
  stray,     (* an abandoned write: a to_thread or a sent Blob request     *)
  expired,   (* request.deadline has passed                                *)
  creates,   (* new_session as decided for _open_session                   *)
  files,     (* requests whose writes are in their tree                    *)
  foreign    (* history: writes of a request, with who held the lock when  *)
             (* they landed, if that was not the request itself            *)

vars == <<role, phase, verdict, holder, adapter, native, writing, stray, expired,
          creates, files, foreign>>

Body == {"locking", "opening", "starting", "classifying", "joining", "verifying",
         "turn"}
Cleanup == {"reverting", "aborting", "disconnecting", "deleting", "closing"}
Begun(r) == phase[r] \in Body \cup Cleanup
Leaf(r) == role[r] = "leaf"
Primary == {r \in Request : ~Leaf(r)}

TypeOK ==
  /\ role \in [Request -> {"new", "supplied", "leaf"}]
  /\ phase \in [Request -> {"idle", "ended"} \cup Body \cup Cleanup]
  /\ verdict \in [Request -> {"running", "answered", "failed"}]
  /\ \A r \in Request : verdict[r] = "running" <=> phase[r] \in Body \cup {"idle"}
  /\ holder \in Primary \cup {None}
  /\ \A r \in Primary : holder = r <=> Begun(r) /\ phase[r] # "locking"
  /\ adapter \in [Request -> {"none", "open", "closed"}]
  /\ native \in [Request -> {"none", "opening", "open", "gone"}]
  /\ writing \subseteq {r \in Request : adapter[r] = "open"}
  /\ stray \subseteq expired
  /\ expired \subseteq {r \in Request : phase[r] # "idle"}
  /\ creates \subseteq Request
  /\ files \subseteq Request
  /\ foreign \subseteq Primary \X (Request \cup {None})

Init ==
  /\ role \in {f \in [Request -> {"new", "supplied", "leaf"}] :
                 \A m, n \in Request : f[m] = "new" /\ f[n] = "new" => m = n}
  /\ phase = [r \in Request |-> "idle"]
  /\ verdict = [r \in Request |-> "running"]
  /\ holder = None
  /\ adapter = [r \in Request |-> "none"]
  /\ native = [r \in Request |-> "none"]
  /\ writing = {}
  /\ stray = {}
  /\ expired = {}
  /\ creates = {}
  /\ files = {}
  /\ foreign = {}

Enter(r, p) == phase' = [phase EXCEPT ![r] = p]

(***************************************************************************)
(* Once the deadline fires, asyncio.timeout_at cancels whatever _run       *)
(* awaits: nothing of the body, and no cleanup of an answered turn, can    *)
(* then complete. The cleanups of a failed turn swallow the cancellation.  *)
(***************************************************************************)
Live(r) == verdict[r] = "failed" \/ r \notin expired

(* A minted session id is in nobody else's hands before the turn it was    *)
(* minted for has announced it.                                            *)
Known == \A m \in Request : role[m] = "new" => phase[m] \in {"turn", "ended"} \cup Cleanup

Begin(r) ==
  /\ phase[r] = "idle"
  /\ role[r] = "supplied" => Known
  /\ Enter(r, IF Leaf(r) THEN "opening" ELSE "locking")
  /\ UNCHANGED <<role, verdict, holder, adapter, native, writing, stray, expired,
                 creates, files, foreign>>

LockIgnored == TRUE
LockFree == holder = None

AcquireLock(r) ==
  /\ phase[r] = "locking" /\ Live(r)
  /\ LockFree
  /\ holder' = r
  /\ Enter(r, "opening")
  /\ UNCHANGED <<role, verdict, adapter, native, writing, stray, expired, creates,
                 files, foreign>>

OpenStorage(r) ==
  /\ phase[r] = "opening" /\ Live(r)
  /\ adapter' = [adapter EXCEPT ![r] = "open"]
  /\ Enter(r, "starting")
  /\ UNCHANGED <<role, verdict, holder, native, writing, stray, expired, creates,
                 files, foreign>>

(* _acquire_client has answered: a primary on a supplied id still has to   *)
(* look at its tree, the others create their session.                      *)
StartClient(r) ==
  /\ phase[r] = "starting" /\ Live(r)
  /\ IF role[r] = "supplied"
     THEN Enter(r, "classifying") /\ UNCHANGED <<creates, native>>
     ELSE /\ Enter(r, "joining")
          /\ creates' = creates \cup {r}
          /\ native' = [native EXCEPT ![r] = "opening"]
  /\ UNCHANGED <<role, verdict, holder, adapter, writing, stray, expired, files,
                 foreign>>

(* has_persisted_state: more than the empty scaffolding open_session_fs    *)
(* makes is in the tree.                                                   *)
PersistedState == files \cap Primary # {}

Classify(r) ==
  /\ phase[r] = "classifying" /\ Live(r)
  /\ creates' = IF PersistedState THEN creates ELSE creates \cup {r}
  /\ native' = [native EXCEPT ![r] = "opening"]
  /\ Enter(r, "joining")
  /\ UNCHANGED <<role, verdict, holder, adapter, writing, stray, expired, files,
                 foreign>>

Join(r) ==
  /\ phase[r] = "joining" /\ Live(r) /\ native[r] = "open"
  /\ Enter(r, "verifying")
  /\ UNCHANGED <<role, verdict, holder, adapter, native, writing, stray, expired,
                 creates, files, foreign>>

(* The tool catalog is as configured, or is not looked at.                 *)
Verify(r) ==
  /\ phase[r] = "verifying" /\ Live(r)
  /\ Enter(r, "turn")
  /\ UNCHANGED <<role, verdict, holder, adapter, native, writing, stray, expired,
                 creates, files, foreign>>

Answer(r) ==
  /\ phase[r] = "turn" /\ Live(r)
  /\ verdict' = [verdict EXCEPT ![r] = "answered"]
  /\ Enter(r, "disconnecting")
  /\ UNCHANGED <<role, holder, adapter, native, writing, stray, expired, creates,
                 files, foreign>>

(* _run is over: the lock's context is left last.                          *)
Leave(r) ==
  /\ Enter(r, "ended")
  /\ holder' = IF holder = r THEN None ELSE holder

AfterFailure(r) ==
  CASE phase[r] = "opening" -> "reverting"
    [] phase[r] = "turn" -> "aborting"
    [] phase[r] = "verifying" -> "disconnecting"
    [] OTHER -> IF Leaf(r) THEN "deleting" ELSE "closing"

(* An error, a cancellation of the request, or the deadline ends the await *)
(* the body is in; the cleanups entered so far follow.                     *)
BodyFails(r) ==
  /\ phase[r] \in Body
  /\ verdict' = [verdict EXCEPT ![r] = "failed"]
  /\ IF phase[r] = "locking"
     THEN Leave(r)
     ELSE Enter(r, AfterFailure(r)) /\ UNCHANGED holder
  /\ UNCHANGED <<role, adapter, native, writing, stray, expired, creates, files,
                 foreign>>

(* open_session_fs closes the provider it could not open, with no bound.   *)
Revert(r) ==
  /\ phase[r] = "reverting"
  /\ Leave(r)
  /\ UNCHANGED <<role, verdict, adapter, native, writing, stray, expired, creates,
                 files, foreign>>

AbortedOnAnswer(r) ==
  /\ phase[r] = "aborting" /\ native[r] = "gone"
  /\ Enter(r, "disconnecting")
  /\ UNCHANGED <<role, verdict, holder, adapter, native, writing, stray, expired,
                 creates, files, foreign>>

(* _abort: answered, raised or timed out, all the same.                    *)
Aborted(r) ==
  /\ phase[r] = "aborting"
  /\ Enter(r, "disconnecting")
  /\ UNCHANGED <<role, verdict, holder, adapter, native, writing, stray, expired,
                 creates, files, foreign>>

AfterDisconnect(r) == IF Leaf(r) THEN "deleting" ELSE "closing"

(* session.disconnect answers once the native session is gone, and that    *)
(* once no callback of it is in flight.                                    *)
Disconnect(r) ==
  /\ phase[r] = "disconnecting" /\ Live(r)
  /\ r \notin writing
  /\ native' = [native EXCEPT ![r] = "gone"]
  /\ Enter(r, AfterDisconnect(r))
  /\ UNCHANGED <<role, verdict, holder, adapter, writing, stray, expired, creates,
                 files, foreign>>

DeleteLeaf(r) ==
  /\ phase[r] = "deleting" /\ Live(r)
  /\ files' = files \ {r}
  /\ Enter(r, "closing")
  /\ UNCHANGED <<role, verdict, holder, adapter, native, writing, stray, expired,
                 creates, foreign>>

(* CopilotSessionFs.close waits for the adapter's own lock.                *)
CloseStorage(r) ==
  /\ phase[r] = "closing" /\ Live(r)
  /\ r \notin writing
  /\ adapter' = [adapter EXCEPT ![r] = "closed"]
  /\ Leave(r)
  /\ UNCHANGED <<role, verdict, native, writing, stray, expired, creates, files,
                 foreign>>

UnsettledIgnored(r) == verdict
Unsettled(r) == [verdict EXCEPT ![r] = "failed"]

(* _bounded_cleanup: the operation raised, was canceled, or outlasted      *)
(* _CLEANUP_TIMEOUT_SECONDS. An answer becomes a failure; a failure stays  *)
(* what it was; the cleanups outside this one still run.                   *)
CleanupFails(r) ==
  /\ phase[r] \in {"disconnecting", "deleting", "closing"}
  /\ verdict' = Unsettled(r)
  /\ CASE phase[r] = "disconnecting" -> Enter(r, AfterDisconnect(r)) /\ UNCHANGED holder
       [] phase[r] = "deleting" -> Enter(r, "closing") /\ UNCHANGED holder
       [] phase[r] = "closing" -> Leave(r)
  /\ UNCHANGED <<role, adapter, native, writing, stray, expired, creates, files,
                 foreign>>

(* The deadline passes: the adapter's operation in flight is canceled and  *)
(* gives its lock up, but what it started may still land.                  *)
Expire(r) ==
  /\ phase[r] # "idle" /\ r \notin expired
  /\ expired' = expired \cup {r}
  /\ writing' = writing \ {r}
  /\ stray' = IF r \in writing THEN stray \cup {r} ELSE stray
  /\ UNCHANGED <<role, phase, verdict, holder, adapter, native, creates, files,
                 foreign>>

(* The process opens the session it was asked for, also when the request   *)
(* has stopped waiting for it.                                             *)
NativeOpens(r) ==
  /\ native[r] = "opening"
  /\ native' = [native EXCEPT ![r] = "open"]
  /\ UNCHANGED <<role, phase, verdict, holder, adapter, writing, stray, expired,
                 creates, files, foreign>>

(* _call refuses once the deadline has passed or the adapter is closed.    *)
WriteStarts(r) ==
  /\ native[r] \in {"opening", "open"}
  /\ adapter[r] = "open" /\ r \notin expired /\ r \notin writing
  /\ writing' = writing \cup {r}
  /\ UNCHANGED <<role, phase, verdict, holder, adapter, native, stray, expired,
                 creates, files, foreign>>

Lands(r) ==
  /\ files' = files \cup {r}
  /\ foreign' = IF Leaf(r) \/ holder = r THEN foreign
                ELSE foreign \cup {<<r, holder>>}

WriteLands(r) ==
  /\ r \in writing
  /\ writing' = writing \ {r}
  /\ Lands(r)
  /\ UNCHANGED <<role, phase, verdict, holder, adapter, native, stray, expired,
                 creates>>

StrayLands(r) ==
  /\ r \in stray
  /\ stray' = stray \ {r}
  /\ Lands(r)
  /\ UNCHANGED <<role, phase, verdict, holder, adapter, native, writing, expired,
                 creates>>

Next ==
  \E r \in Request :
    \/ Begin(r) \/ AcquireLock(r) \/ OpenStorage(r) \/ StartClient(r)
    \/ Classify(r) \/ Join(r) \/ Verify(r) \/ Answer(r) \/ BodyFails(r)
    \/ Revert(r) \/ Aborted(r) \/ Disconnect(r) \/ DeleteLeaf(r)
    \/ CloseStorage(r) \/ CleanupFails(r) \/ Expire(r)
    \/ NativeOpens(r) \/ WriteStarts(r) \/ WriteLands(r) \/ StrayLands(r)

Spec == Init /\ [][Next]_vars

(***************************************************************************)
(* The deadline passes in time, the timers that guard the body and each    *)
(* cleanup fire, and a backend that failed to open closes. Nothing is      *)
(* assumed of the native process, the storage or the requests before.      *)
(***************************************************************************)
TimerFires(r) == (r \in expired /\ BodyFails(r)) \/ Aborted(r) \/ CleanupFails(r)

FairSpec ==
  /\ Spec
  /\ \A r \in Request : WF_vars(Expire(r)) /\ WF_vars(TimerFires(r)) /\ WF_vars(Revert(r))

(***************************************************************************)
(* Properties                                                              *)
(***************************************************************************)

(* A turn has its session's tree to itself but for failed turns: a write   *)
(* that lands while its request does not hold the session lock (in another *)
(* request's turn, or between two) is of a request that ended in failure.  *)
TurnIsolated ==
  \A pair \in foreign : phase[pair[1]] = "ended" /\ verdict[pair[1]] = "failed"

(* A session is created over state of another turn only if that state came *)
(* late: what a turn wrote under the lock, answered or not, makes the next *)
(* one resume.                                                             *)
CreateOnlyFresh ==
  \A r \in Primary : phase[r] = "joining" /\ r \in creates =>
    \A w \in (files \cap Primary) \ {r} : \E pair \in foreign : pair[1] = w

(* Two turns of a session never see each other's work in progress: neither *)
(* writes into the other's tree, and neither creates the session anew over *)
(* what the other left (_harness_execution.py:62-90,                       *)
(* _copilot_execution.py:332-360).                                         *)
TurnsDoNotMix == TurnIsolated /\ CreateOnlyFresh

(* A request that answers has left nothing behind: its native session is   *)
(* gone, its adapter closed, no write of it is in flight, and a leaf's     *)
(* tree is deleted.                                                        *)
SuccessIsSettled ==
  \A r \in Request : phase[r] = "ended" /\ verdict[r] = "answered" =>
    /\ native[r] = "gone" /\ adapter[r] = "closed"
    /\ r \notin writing \cup stray
    /\ Leaf(r) => r \notin files

(* Every request that begins ends, whatever hangs under it, and so gives   *)
(* the session lock to the next one.                                       *)
RequestEnds == \A r \in Request : phase[r] # "idle" ~> phase[r] = "ended"

(* docs/copilot-preview-operations.md:243-246: the adapter closes before   *)
(* the request returns, including on failure or cancellation. So a request *)
(* whose adapter is inside a write stays until close() could take the      *)
(* adapter's lock.                                                         *)
(* The code does not keep this: README.md, section 5.                      *)
AdapterClosesWithRequest ==
  [][\A r \in Request : phase[r] = "closing" /\ r \in writing
       => phase'[r] = "closing"]_vars
=============================================================================
