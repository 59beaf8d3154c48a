--------------------------- MODULE CopilotRuntime ---------------------------
(***************************************************************************)
(* The native-client owner of one app binding                              *)
(* (harness/copilot_sdk/_copilot_runtime.py): requests that share one lazy *)
(* client, its start in a task of its own, and shutdown_runtime(), which   *)
(* closes every registered owner. Everything runs on one event loop, so a  *)
(* step reaches from one await to the next; no await happens under the     *)
(* start lock, so its sections are whole steps.                            *)
(***************************************************************************)
EXTENDS Naturals, FiniteSets

CONSTANTS
  Owner,         (* CopilotRuntime objects, made one after the other       *)
  Client,        (* the client each start builds; names its start too      *)
  Request,
  None,
  MaxShutdowns   (* bound on the calls of shutdown_runtime                 *)

ASSUME RuntimeAssumption ==
  None \notin Owner \cup Client /\ MaxShutdowns \in Nat

VARIABLES
  runtime,     (* runner.runtime, the owner new requests are given         *)
  created,     (* the owners constructed so far                            *)
  registered,  (* owners whose close callback is in _SHUTDOWN_CALLBACKS    *)
  requested,   (* _close_requested of each owner                           *)
  cached,      (* _client                                                  *)
  task,        (* _client_task                                             *)
  credential,  (* whether _credential is set                               *)
  of,          (* the owner that built each client                         *)
  start,       (* where the start of each client is                        *)
  native,      (* the native process of each client                        *)
  requests,    (* what each request is doing, with its owner and client    *)
  closer,      (* the running shutdown: the owners left of its snapshot    *)
               (* and the locals of the close() it is in                   *)
  shutdowns

vars == <<runtime, created, registered, requested, cached, task, credential, of,
          start, native, requests, closer, shutdowns>>

LiveStart == {"building", "starting", "reaping"}
EndedStart == {"succeeded", "failed"}

TypeOK ==
  /\ runtime \in created \cup {None}
  /\ created \subseteq Owner
  /\ registered \subseteq created
  /\ requested \in [Owner -> BOOLEAN]
  /\ cached \in [Owner -> Client \cup {None}]
  /\ task \in [Owner -> Client \cup {None}]
  /\ credential \in [Owner -> BOOLEAN]
  /\ of \in [Client -> Owner \cup {None}]
  /\ start \in [Client -> {"none"} \cup LiveStart \cup EndedStart]
  /\ native \in [Client -> {"none", "running", "stopped", "abandoned"}]
  /\ requests \in [Request ->
       [phase : {"idle"}, owner : {None}, client : {None}]
       \cup [phase : {"held"}, owner : created, client : {None}]
       \cup [phase : {"waiting", "using"}, owner : created, client : Client]]
  /\ closer \in [phase : {"idle", "next", "awaiting", "stopping", "credential"},
                 queue : SUBSET created,
                 owner : created \cup {None},
                 start : Client \cup {None},
                 client : Client \cup {None},
                 credential : BOOLEAN,
                 release : BOOLEAN]
  /\ shutdowns \in 0 .. MaxShutdowns

Idle == [phase |-> "idle", owner |-> None, client |-> None]
NoCloser == [phase |-> "idle", queue |-> {}, owner |-> None, start |-> None,
             client |-> None, credential |-> FALSE, release |-> FALSE]

Init ==
  /\ runtime = None
  /\ created = {}
  /\ registered = {}
  /\ requested = [o \in Owner |-> FALSE]
  /\ cached = [o \in Owner |-> None]
  /\ task = [o \in Owner |-> None]
  /\ credential = [o \in Owner |-> FALSE]
  /\ of = [c \in Client |-> None]
  /\ start = [c \in Client |-> "none"]
  /\ native = [c \in Client |-> "none"]
  /\ requests = [r \in Request |-> Idle]
  /\ closer = NoCloser
  /\ shutdowns = 0

(* _release_runtime                                                        *)
Release(o) ==
  /\ runtime' = IF runtime = o THEN None ELSE runtime
  /\ registered' = registered \ {o}

ReleaseIf(condition, o) ==
  IF condition THEN Release(o) ELSE UNCHANGED <<runtime, registered>>

(* credential(): the first use registers the owner.                        *)
UseCredential(o) ==
  /\ credential' = [credential EXCEPT ![o] = TRUE]
  /\ registered' = IF credential[o] THEN registered ELSE registered \cup {o}

----------------------------------------------------------------------------
(* The owner and the client constructed next, if the bounds leave one.     *)
NewOwner == IF created = Owner THEN {} ELSE {CHOOSE o \in Owner : o \notin created}

Unbuilt == {c \in Client : start[c] = "none"}
NewClient == IF Unbuilt = {} THEN {} ELSE {CHOOSE c \in Unbuilt : TRUE}

(* A request takes the owner of its binding, a new one when none is set,   *)
(* and resolves its provider, which uses the credential when the provider  *)
(* authenticates with one.                                                 *)
GetRuntime(r) ==
  /\ requests[r].phase = "idle"
  /\ \E o \in IF runtime = None THEN NewOwner ELSE {runtime} :
       /\ runtime' = o
       /\ created' = created \cup {o}
       /\ requests' = [requests EXCEPT ![r] = [phase |-> "held", owner |-> o, client |-> None]]
       /\ UseCredential(o) \/ UNCHANGED <<credential, registered>>
  /\ UNCHANGED <<requested, cached, task, of, start, native, closer, shutdowns>>

(* Between two awaits other coroutines run, so the owner may have been     *)
(* closed and released by the time the request asks it for its client.     *)
StartClient(r, o, c) ==
  /\ start' = [start EXCEPT ![c] = "building"]
  /\ of' = [of EXCEPT ![c] = o]
  /\ task' = [task EXCEPT ![o] = c]
  /\ requested' = [requested EXCEPT ![o] = FALSE]
  /\ registered' = registered \cup {o}
  /\ requests' = [requests EXCEPT ![r].phase = "waiting", ![r].client = c]

Share(r, phase, c) ==
  /\ requests' = [requests EXCEPT ![r].phase = phase, ![r].client = c]
  /\ UNCHANGED <<requested, registered, task, of, start>>

AskClientAlone(r) ==
  LET o == requests[r].owner
  IN  /\ requests[r].phase = "held"
      /\ \/ /\ cached[o] # None
            /\ Share(r, "using", cached[o])
         \/ /\ cached[o] = None
            /\ \E c \in NewClient : StartClient(r, o, c)
      /\ UNCHANGED <<runtime, created, cached, credential, native, closer, shutdowns>>

AskClient(r) ==
  LET o == requests[r].owner
  IN  /\ requests[r].phase = "held"
      /\ \/ /\ cached[o] # None
            /\ Share(r, "using", cached[o])
         \/ /\ cached[o] = None /\ task[o] # None
            /\ Share(r, "waiting", task[o])
         \/ /\ cached[o] = None /\ task[o] = None
            /\ \E c \in NewClient : StartClient(r, o, c)
      /\ UNCHANGED <<runtime, created, cached, credential, native, closer, shutdowns>>

(* The shielded start answers everyone who waits for it.                   *)
StartAnswers(r) ==
  /\ requests[r].phase = "waiting"
  /\ \/ /\ start[requests[r].client] = "succeeded"
        /\ requests' = [requests EXCEPT ![r].phase = "using"]
     \/ /\ start[requests[r].client] = "failed"
        /\ requests' = [requests EXCEPT ![r] = Idle]
  /\ UNCHANGED <<runtime, created, registered, requested, cached, task, credential, of,
                 start, native, closer, shutdowns>>

(* A token callback of the session in use.                                 *)
RefreshToken(r) ==
  /\ requests[r].phase = "using"
  /\ UseCredential(requests[r].owner)
  /\ UNCHANGED <<runtime, created, requested, cached, task, of, start, native,
                 requests, closer, shutdowns>>

(* The request is answered, fails, is canceled or passes its deadline; the *)
(* start it waited for goes on without it.                                 *)
Leave(r) ==
  /\ requests[r].phase # "idle"
  /\ requests' = [requests EXCEPT ![r] = Idle]
  /\ UNCHANGED <<runtime, created, registered, requested, cached, task, credential, of,
                 start, native, closer, shutdowns>>

----------------------------------------------------------------------------
(* _construct_and_start_client. The constructor runs before the try, so    *)
(* its failure leaves the failed task in place.                            *)
BuildFails(c) ==
  /\ start[c] = "building"
  /\ start' = [start EXCEPT ![c] = "failed"]
  /\ UNCHANGED <<runtime, created, registered, requested, cached, task, credential, of,
                 native, requests, closer, shutdowns>>

Built(c) ==
  /\ start[c] = "building"
  /\ \/ /\ requested[of[c]]
        /\ start' = [start EXCEPT ![c] = "reaping"]
        /\ UNCHANGED native
     \/ /\ ~requested[of[c]]
        /\ start' = [start EXCEPT ![c] = "starting"]
        /\ native' = [native EXCEPT ![c] = "running"]
  /\ UNCHANGED <<runtime, created, registered, requested, cached, task, credential, of,
                 requests, closer, shutdowns>>

StartFails(c) ==
  /\ start[c] = "starting"
  /\ start' = [start EXCEPT ![c] = "reaping"]
  /\ UNCHANGED <<runtime, created, registered, requested, cached, task, credential, of,
                 native, requests, closer, shutdowns>>

(* The started client is published unless a close was requested meanwhile. *)
Publish(c) ==
  /\ cached' = [cached EXCEPT ![of[c]] = c]
  /\ task' = [task EXCEPT ![of[c]] = None]
  /\ start' = [start EXCEPT ![c] = "succeeded"]

StartedNotReaped(c) ==
  /\ start[c] = "starting"
  /\ \/ /\ requested[of[c]]
        /\ start' = [start EXCEPT ![c] = "failed"]
        /\ task' = [task EXCEPT ![of[c]] = None]
        /\ UNCHANGED cached
     \/ /\ ~requested[of[c]]
        /\ Publish(c)
  /\ UNCHANGED <<runtime, created, registered, requested, credential, of, native,
                 requests, closer, shutdowns>>

Started(c) ==
  /\ start[c] = "starting"
  /\ \/ /\ requested[of[c]]
        /\ start' = [start EXCEPT ![c] = "reaping"]
        /\ UNCHANGED <<cached, task>>
     \/ /\ ~requested[of[c]]
        /\ Publish(c)
  /\ UNCHANGED <<runtime, created, registered, requested, credential, of, native,
                 requests, closer, shutdowns>>

(* _stop_client: a graceful stop, then a forced one; a client that resists *)
(* both is given up.                                                       *)
Stopped(c) ==
  \/ native' = [native EXCEPT ![c] = IF native[c] = "running" THEN "stopped" ELSE native[c]]
  \/ native' = [native EXCEPT ![c] = IF native[c] = "running" THEN "abandoned" ELSE native[c]]

(* The failed start has been cleaned up: its finally block.                *)
Reaped(c) ==
  LET o == of[c]
  IN  /\ start[c] = "reaping"
      /\ Stopped(c)
      /\ start' = [start EXCEPT ![c] = "failed"]
      /\ task' = IF task[o] = c THEN [task EXCEPT ![o] = None] ELSE task
      /\ ReleaseIf(requested[o] /\ task'[o] = None /\ cached[o] = None /\ ~credential[o], o)
      /\ UNCHANGED <<created, requested, cached, credential, of, requests, closer, shutdowns>>

----------------------------------------------------------------------------
(* shutdown_runtime: the callbacks registered when it begins, one after    *)
(* the other.                                                              *)
BeginShutdown ==
  /\ closer.phase = "idle"
  /\ shutdowns < MaxShutdowns
  /\ shutdowns' = shutdowns + 1
  /\ closer' = [NoCloser EXCEPT !.phase = "next", !.queue = registered]
  /\ UNCHANGED <<runtime, created, registered, requested, cached, task, credential, of,
                 start, native, requests>>

EndShutdown ==
  /\ closer.phase = "next"
  /\ closer.queue = {}
  /\ closer' = NoCloser
  /\ UNCHANGED <<runtime, created, registered, requested, cached, task, credential, of,
                 start, native, requests, shutdowns>>

(* close() goes from one of its awaits to the next, and after the last     *)
(* releases the owner if no start was in flight when it began.             *)
NextPhase(c) ==
  CASE c.start # None -> "awaiting"
    [] c.start = None /\ c.client # None -> "stopping"
    [] c.start = None /\ c.client = None /\ c.credential -> "credential"
    [] OTHER -> "next"

GoOn(c) ==
  /\ closer' = IF NextPhase(c) = "next"
               THEN [NoCloser EXCEPT !.phase = "next", !.queue = c.queue]
               ELSE [c EXCEPT !.phase = NextPhase(c)]
  /\ ReleaseIf(NextPhase(c) = "next" /\ c.release, c.owner)

(* A start that has already failed is not waited for.                      *)
InFlight(o) == task[o] # None /\ start[task[o]] \in LiveStart

Close(o) ==
  /\ closer.phase = "next"
  /\ o \in closer.queue
  /\ requested' = [requested EXCEPT ![o] = TRUE]
  /\ cached' = [cached EXCEPT ![o] = None]
  /\ credential' = [credential EXCEPT ![o] = FALSE]
  /\ GoOn([closer EXCEPT !.queue = @ \ {o},
                         !.owner = o,
                         !.start = IF cached[o] = None /\ InFlight(o)
                                    THEN task[o] ELSE None,
                         !.client = cached[o],
                         !.credential = credential[o],
                         !.release = task[o] = None])
  /\ UNCHANGED <<created, task, of, start, native, requests, shutdowns>>

(* The wait for a start in flight ends with it or at the cleanup timeout.  *)
AwaitEndsUnbounded ==
  /\ closer.phase = "awaiting"
  /\ start[closer.start] \in EndedStart
  /\ GoOn([closer EXCEPT !.start = None])
  /\ UNCHANGED <<created, requested, cached, task, credential, of, start, native,
                 requests, shutdowns>>

AwaitEnds ==
  /\ closer.phase = "awaiting"
  /\ GoOn([closer EXCEPT !.start = None])
  /\ UNCHANGED <<created, requested, cached, task, credential, of, start, native,
                 requests, shutdowns>>

StopEnds ==
  /\ closer.phase = "stopping"
  /\ Stopped(closer.client)
  /\ GoOn([closer EXCEPT !.client = None])
  /\ UNCHANGED <<created, requested, cached, task, credential, of, start, requests, shutdowns>>

CredentialEnds ==
  /\ closer.phase = "credential"
  /\ GoOn([closer EXCEPT !.credential = FALSE])
  /\ UNCHANGED <<created, requested, cached, task, credential, of, start, native,
                 requests, shutdowns>>

----------------------------------------------------------------------------
RequestStep(r) ==
  GetRuntime(r) \/ AskClient(r) \/ StartAnswers(r) \/ RefreshToken(r) \/ Leave(r)

StartStep(c) ==
  BuildFails(c) \/ Built(c) \/ StartFails(c) \/ Started(c) \/ Reaped(c)

ShutdownStep ==
  EndShutdown \/ AwaitEnds \/ StopEnds \/ CredentialEnds \/ \E o \in Owner : Close(o)

Next ==
  \/ \E r \in Request : RequestStep(r)
  \/ \E c \in Client : StartStep(c)
  \/ BeginShutdown
  \/ ShutdownStep

Spec == Init /\ [][Next]_vars

(* A shutdown that has begun runs on: every wait of it has a timeout.      *)
(* Nothing is asked of the starts and of the requests.                     *)
FairSpec == Spec /\ WF_vars(ShutdownStep)
----------------------------------------------------------------------------
Closing(o) == closer.phase # "idle" /\ closer.owner = o

(* docs/copilot-preview-operations.md:253: cached handles are cleared so   *)
(* that a stopped or closing resource is never reused. A request that asks *)
(* its owner is given a client no shutdown has touched.                    *)
CachedIsRunning ==
  \A o \in Owner : cached[o] # None =>
    /\ of[cached[o]] = o
    /\ native[cached[o]] = "running"
    /\ closer.client # cached[o]

(* A native process always has someone who will stop it: the owner that    *)
(* caches it, its own start, or the close that took it over.               *)
NoClientForgotten ==
  \A c \in Client : native[c] = "running" =>
    \/ cached[of[c]] = c
    \/ task[of[c]] = c /\ start[c] \in LiveStart
    \/ closer.client = c

(* However many requests ask at once, an owner starts one client: of its   *)
(* clients at most one is in use or on its way, the others being stopped.  *)
OneClientPerOwner ==
  \A c, d \in Client :
    /\ native[c] = "running" /\ closer.client # c
    /\ native[d] = "running" /\ closer.client # d
    /\ of[c] = of[d]
    => c = d

(* A start that was in flight when its owner was closed cleans up after    *)
(* itself: once it and the close have ended, the owner runs nothing.       *)
LateStartReaped ==
  \A o \in Owner :
    requested[o] /\ ~Closing(o) /\ ~InFlight(o)
    => \A c \in Client : of[c] = o => native[c] # "running"

(* The owner's books agree with the processes that exist, through every    *)
(* race of starts, cancellations and closes (_copilot_runtime.py:201-314). *)
ClientsAccounted ==
  /\ CachedIsRunning
  /\ NoClientForgotten
  /\ OneClientPerOwner
  /\ LateStartReaped

(* Every shutdown ends, even if a start it waits for never does.           *)
ShutdownEnds == closer.phase # "idle" ~> closer.phase = "idle"

(* docs/architecture.md:127: "Bounded shutdown releases the runner's owner *)
(* reference". Read once the shutdown has ended and nothing of the owner   *)
(* is left to clean up.                                                    *)
(* The code does not keep this: README.md, section 5.                      *)
ShutdownReleasesOwner ==
  closer.phase = "idle" /\ runtime # None =>
    \/ ~requested[runtime]
    \/ credential[runtime]
    \/ InFlight(runtime)

(* azure_functions_agents/__init__.py:50: shutdown_runtime closes the      *)
(* "resources acquired by bound runtime harnesses". The owner of a cached  *)
(* client is among those it visits, or it is being closed.                 *)
(* The code does not keep this: README.md, section 5.                      *)
ShutdownReachesClients ==
  \A o \in Owner : cached[o] # None => o \in registered \/ Closing(o)
============================================================================
