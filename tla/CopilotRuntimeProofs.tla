------------------------ MODULE CopilotRuntimeProofs ------------------------
(***************************************************************************)
(* Proofs about CopilotRuntime: the owner's books agree with the native    *)
(* processes that exist, for any number of owners, requests, starts and    *)
(* shutdowns (harness/copilot_sdk/_copilot_runtime.py); and about          *)
(* SessionFiles: whatever paths a session's file operations are given, and *)
(* wherever they are cut, its tree stays well formed and finished writes   *)
(* stay stored (harness/copilot_sdk/_copilot_session_blob.py).             *)
(***************************************************************************)
EXTENDS CopilotRuntime, SessionFiles, FiniteSetTheorems, SequenceTheorems,
        WellFoundedInduction, TLAPS

RequestRecord ==
  [phase : {"idle"}, owner : {None}, client : {None}]
  \cup [phase : {"held"}, owner : created, client : {None}]
  \cup [phase : {"waiting", "using"}, owner : created, client : Client]

CloserRecord ==
  [phase : {"idle", "next", "awaiting", "stopping", "credential"},
   queue : SUBSET created, owner : created \cup {None},
   start : Client \cup {None}, client : Client \cup {None},
   credential : BOOLEAN, release : BOOLEAN]

(* What is kept while a client is built, started and cleaned up.           *)
StartInv(c) ==
  /\ of[c] = None <=> start[c] = "none"
  /\ start[c] \in {"none", "building", "failed"} => native[c] # "running"
  /\ start[c] = "starting" => native[c] = "running"
  /\ start[c] \in LiveStart => task[of[c]] = c
  /\ start[c] = "succeeded" /\ native[c] = "running" =>
       cached[of[c]] = c \/ closer.client = c

(* An owner has a client or the start of one, its own; a client it shows   *)
(* to requests runs, and no close of the owner has been asked since.       *)
OwnerInv(o) ==
  /\ task[o] # None =>
       of[task[o]] = o /\ start[task[o]] \in LiveStart \cup {"failed"}
  /\ cached[o] # None =>
       /\ task[o] = None /\ ~requested[o]
       /\ of[cached[o]] = o /\ start[cached[o]] = "succeeded"
       /\ native[cached[o]] = "running" /\ closer.client # cached[o]

(* A close has a client to stop only until it has stopped it.              *)
CloserInv ==
  closer.client # None =>
    /\ closer.phase \in {"awaiting", "stopping"}
    /\ start[closer.client] = "succeeded" /\ of[closer.client] = closer.owner

StoppingInv == closer.phase = "stopping" => closer.client # None

BooksInv ==
  /\ \A c \in Client : StartInv(c)
  /\ \A o \in Owner : OwnerInv(o)
  /\ CloserInv
  /\ StoppingInv

RuntimeInv == TypeOK /\ BooksInv

bookVars == <<requested, cached, task, of, start, native>>

----------------------------------------------------------------------------
(* What the fields of a request and of the running shutdown can be.        *)
LEMMA RequestShape ==
  ASSUME TypeOK, NEW r \in Request
  PROVE  /\ requests[r].phase \in {"idle", "held", "waiting", "using"}
         /\ requests[r].phase # "idle" => requests[r].owner \in created
         /\ requests[r].phase \in {"waiting", "using"} => requests[r].client \in Client
<1>1. requests[r] \in RequestRecord
  BY DEF TypeOK, RequestRecord
<1> QED BY <1>1 DEF RequestRecord

LEMMA CloserShape ==
  ASSUME TypeOK
  PROVE  closer \in CloserRecord
BY DEF TypeOK, CloserRecord

(* A request moves on with its owner.                                      *)
LEMMA RequestMoves ==
  ASSUME TypeOK, NEW r \in Request, requests[r].phase # "idle",
         NEW phase \in {"waiting", "using"}, NEW c \in Client,
         requests' = [requests EXCEPT ![r].phase = phase, ![r].client = c],
         created' = created
  PROVE  requests' \in [Request -> RequestRecord]'
<1>1. requests \in [Request -> RequestRecord]
  BY DEF TypeOK, RequestRecord
<1>2. requests' \in [Request -> RequestRecord]
  <2>1. requests[r].owner \in created
    BY RequestShape
  <2>2. requests'[r] = [phase |-> phase, owner |-> requests[r].owner, client |-> c]
    <3> DEFINE q == requests[r]
    <3>1. q \in RequestRecord
      BY <1>1
    <3>2. PICK w : w = [q EXCEPT !.phase = phase] /\ requests'[r] = [w EXCEPT !.client = c]
      BY <1>1
    <3> HIDE DEF q
    <3>3. PICK a, b, d : q = [phase |-> a, owner |-> b, client |-> d]
      BY <3>1 DEF RequestRecord
    <3>4. q.owner = b /\ w = [phase |-> phase, owner |-> b, client |-> d]
      BY <3>2, <3>3
    <3>5. requests'[r] = [phase |-> phase, owner |-> q.owner, client |-> c]
      <4>1. [w EXCEPT !.client = c] = [phase |-> phase, owner |-> b, client |-> c]
        BY <3>4
      <4> QED BY <3>2, <3>4, <4>1
    <3> QED BY <3>5 DEF q
  <2>3. requests'[r] \in RequestRecord
    <3>1. [phase |-> phase, owner |-> requests[r].owner, client |-> c]
            \in [phase : {"waiting", "using"}, owner : created, client : Client]
      BY <2>1
    <3> QED BY <2>2, <3>1 DEF RequestRecord
  <2>4. \A q \in Request : q # r => requests'[q] = requests[q]
    BY <1>1
  <2>5. requests' \in [Request -> {requests'[q] : q \in Request}]
    BY <1>1
  <2> QED BY <1>1, <2>3, <2>4, <2>5
<1> QED BY <1>2 DEF RequestRecord

(* GoOn keeps the client a close still has to stop, and nothing else.      *)
LEMMA GoesOn ==
  ASSUME TypeOK, NEW c \in CloserRecord, c.owner \in Owner, GoOn(c)
  PROVE  /\ closer' \in CloserRecord
         /\ closer'.client = c.client
         /\ c.client # None =>
              closer'.owner = c.owner /\ closer'.phase \in {"awaiting", "stopping"}
         /\ closer'.phase = "stopping" => closer'.client # None
         /\ runtime' \in {runtime, None} /\ registered' \subseteq registered
<1>1. runtime' \in {runtime, None} /\ registered' \subseteq registered
  BY DEF GoOn, ReleaseIf, Release
<1>2. CASE c.start # None
  <2>1. NextPhase(c) = "awaiting"
    BY <1>2 DEF NextPhase
  <2>2. closer' = [c EXCEPT !.phase = "awaiting"]
    BY <2>1 DEF GoOn
  <2> QED BY <1>1, <2>2 DEF CloserRecord
<1>3. CASE c.start = None /\ c.client # None
  <2>1. NextPhase(c) = "stopping"
    BY <1>3 DEF NextPhase
  <2>2. closer' = [c EXCEPT !.phase = "stopping"]
    BY <2>1 DEF GoOn
  <2> QED BY <1>1, <1>3, <2>2 DEF CloserRecord
<1>4. CASE c.start = None /\ c.client = None /\ c.credential
  <2>1. NextPhase(c) = "credential"
    BY <1>4 DEF NextPhase
  <2>2. closer' = [c EXCEPT !.phase = "credential"]
    BY <2>1 DEF GoOn
  <2> QED BY <1>1, <1>4, <2>2 DEF CloserRecord
<1>5. CASE c.start = None /\ c.client = None /\ ~c.credential
  <2>1. NextPhase(c) = "next"
    BY <1>5 DEF NextPhase
  <2>2. closer' = [NoCloser EXCEPT !.phase = "next", !.queue = c.queue]
    BY <2>1 DEF GoOn
  <2>3. closer' = [phase |-> "next", queue |-> c.queue, owner |-> None, start |-> None,
                   client |-> None, credential |-> FALSE, release |-> FALSE]
    BY <2>2 DEF NoCloser
  <2> QED BY <1>1, <1>5, <2>3 DEF CloserRecord
<1> QED BY <1>2, <1>3, <1>4, <1>5 DEF CloserRecord

(* What the books say does not depend on requests and registrations.       *)
LEMMA BooksKept ==
  ASSUME BooksInv, UNCHANGED bookVars, closer'.client = closer.client,
         closer'.phase = closer.phase, closer'.owner = closer.owner
  PROVE  BooksInv'
BY DEF BooksInv, StartInv, OwnerInv, CloserInv, StoppingInv, bookVars, LiveStart

LEMMA InitInv == Init => RuntimeInv
<1> SUFFICES ASSUME Init PROVE RuntimeInv
  OBVIOUS
<1>1. TypeOK
  BY RuntimeAssumption DEF Init, TypeOK, Idle, NoCloser, LiveStart, EndedStart
<1>2. BooksInv
  BY RuntimeAssumption DEF Init, BooksInv, StartInv, OwnerInv, CloserInv, StoppingInv,
     NoCloser, LiveStart
<1> QED BY <1>1, <1>2 DEF RuntimeInv

----------------------------------------------------------------------------
(* Requests.                                                               *)
LEMMA NewOwnerIsNew ==
  ASSUME created \subseteq Owner, NEW o \in NewOwner
  PROVE  o \in Owner
BY DEF NewOwner

LEMMA GetRuntimeStep ==
  ASSUME RuntimeInv, NEW r \in Request, GetRuntime(r)
  PROVE  RuntimeInv'
<1> USE DEF RuntimeInv
<1>1. PICK o \in IF runtime = None THEN NewOwner ELSE {runtime} :
        /\ runtime' = o
        /\ created' = created \cup {o}
        /\ requests' = [requests EXCEPT ![r] = [phase |-> "held", owner |-> o,
                                                client |-> None]]
        /\ UseCredential(o) \/ UNCHANGED <<credential, registered>>
  BY DEF GetRuntime
<1>2. o \in Owner
  BY <1>1, NewOwnerIsNew DEF TypeOK
<1>3. UNCHANGED <<requested, cached, task, of, start, native, closer, shutdowns>>
  BY DEF GetRuntime
<1>4. requests' \in [Request -> RequestRecord]'
  BY <1>1 DEF TypeOK, RequestRecord
<1>5. closer' \in CloserRecord'
  BY <1>1, <1>3 DEF TypeOK, CloserRecord
<1>6. credential' \in [Owner -> BOOLEAN] /\ registered' \subseteq created'
  BY <1>1 DEF TypeOK, UseCredential
<1>7. TypeOK'
  BY <1>1, <1>2, <1>3, <1>4, <1>5, <1>6 DEF TypeOK, RequestRecord, CloserRecord
<1>8. BooksInv'
  BY <1>3, BooksKept DEF bookVars
<1> QED BY <1>7, <1>8

LEMMA StartClientStep ==
  ASSUME RuntimeInv, NEW r \in Request, NEW c \in NewClient, requests[r].phase = "held",
         cached[requests[r].owner] = None, task[requests[r].owner] = None,
         StartClient(r, requests[r].owner, c),
         UNCHANGED <<runtime, created, cached, credential, native, closer, shutdowns>>
  PROVE  RuntimeInv'
<1> USE DEF RuntimeInv
<1> DEFINE o == requests[r].owner
<1>1. o \in created /\ o \in Owner
  BY RequestShape DEF TypeOK
<1>2. c \in Client /\ start[c] = "none"
  BY DEF NewClient, Unbuilt
<1>3. TypeOK'
  <2>1. requests' \in [Request -> RequestRecord]'
    BY <1>2, RequestMoves DEF StartClient
  <2>2. registered' \subseteq created
    BY <1>1 DEF StartClient, TypeOK
  <2>3. /\ start' \in [Client -> {"none"} \cup LiveStart \cup EndedStart]
        /\ of' \in [Client -> Owner \cup {None}]
        /\ task' \in [Owner -> Client \cup {None}]
        /\ requested' \in [Owner -> BOOLEAN]
    BY <1>1, <1>2 DEF StartClient, TypeOK, LiveStart
  <2> QED BY <2>1, <2>2, <2>3 DEF TypeOK, RequestRecord
<1>4. /\ start' = [start EXCEPT ![c] = "building"] /\ of' = [of EXCEPT ![c] = o]
      /\ task' = [task EXCEPT ![o] = c] /\ requested' = [requested EXCEPT ![o] = FALSE]
  BY DEF StartClient
<1>5. of[c] = None /\ native[c] # "running"
  BY <1>2 DEF BooksInv, StartInv
<1>6. /\ start \in [Client -> {"none"} \cup LiveStart \cup EndedStart]
      /\ of \in [Client -> Owner \cup {None}]
      /\ task \in [Owner -> Client \cup {None}] /\ requested \in [Owner -> BOOLEAN]
      /\ cached \in [Owner -> Client \cup {None}]
      /\ closer.client \in Client \cup {None}
  BY CloserShape DEF TypeOK, CloserRecord
<1>7. /\ start'[c] = "building" /\ of'[c] = o /\ task'[o] = c
      /\ \A d \in Client : d # c => start'[d] = start[d] /\ of'[d] = of[d]
      /\ \A p \in Owner : p # o => task'[p] = task[p] /\ requested'[p] = requested[p]
  BY <1>1, <1>2, <1>4, <1>6
<1>8. /\ UNCHANGED <<cached, native, closer>> /\ cached[o] = None /\ task[o] = None
      /\ None \notin Client /\ None \notin Owner
  BY RuntimeAssumption
<1> HIDE DEF o
<1>9. ASSUME NEW d \in Client PROVE StartInv(d)'
  <2>1. CASE d = c
    BY <2>1, <1>1, <1>5, <1>7, <1>8 DEF StartInv, LiveStart
  <2>2. CASE d # c
    <3>1. StartInv(d)
      BY DEF BooksInv
    <3>2. start[d] \in LiveStart => of[d] \in Owner /\ of[d] # o
      BY <3>1, <1>6, <1>8 DEF StartInv, LiveStart
    <3> QED BY <2>2, <3>1, <3>2, <1>7, <1>8 DEF StartInv
  <2> QED BY <2>1, <2>2
<1>10. ASSUME NEW p \in Owner PROVE OwnerInv(p)'
  <2>1. CASE p = o
    BY <2>1, <1>7, <1>8 DEF OwnerInv, LiveStart
  <2>2. CASE p # o
    <3>1. OwnerInv(p) /\ task[p] \in Client \cup {None} /\ cached[p] \in Client \cup {None}
      BY <1>6 DEF BooksInv
    <3>2. task[p] # c /\ cached[p] # c
      BY <3>1, <1>2, <1>8 DEF OwnerInv, LiveStart
    <3> QED BY <2>2, <3>1, <3>2, <1>7, <1>8 DEF OwnerInv
  <2> QED BY <2>1, <2>2
<1>11. CloserInv' /\ StoppingInv'
  <2>1. closer.client # c
    BY <1>2, <1>8 DEF BooksInv, CloserInv
  <2> QED BY <2>1, <1>6, <1>7, <1>8 DEF BooksInv, CloserInv, StoppingInv
<1> QED BY <1>3, <1>9, <1>10, <1>11 DEF BooksInv

LEMMA ShareStep ==
  ASSUME RuntimeInv, NEW r \in Request, NEW phase \in {"waiting", "using"}, NEW c \in Client,
         requests[r].phase = "held", Share(r, phase, c),
         UNCHANGED <<runtime, created, cached, credential, native, closer, shutdowns>>
  PROVE  RuntimeInv'
<1> USE DEF RuntimeInv
<1>1. requests' \in [Request -> RequestRecord]'
  BY RequestMoves DEF Share
<1>2. TypeOK'
  BY <1>1 DEF TypeOK, RequestRecord, Share
<1>3. BooksInv'
  BY BooksKept DEF bookVars, Share
<1> QED BY <1>2, <1>3

LEMMA AskClientStep ==
  ASSUME RuntimeInv, NEW r \in Request, AskClient(r)
  PROVE  RuntimeInv'
<1> DEFINE o == requests[r].owner
<1>1. /\ requests[r].phase = "held"
      /\ UNCHANGED <<runtime, created, cached, credential, native, closer, shutdowns>>
  BY DEF AskClient
<1>2. cached[o] \in Client \cup {None} /\ task[o] \in Client \cup {None}
  BY <1>1, RequestShape DEF RuntimeInv, TypeOK
<1>3. CASE cached[o] # None /\ Share(r, "using", cached[o])
  BY <1>1, <1>2, <1>3, ShareStep
<1>4. CASE cached[o] = None /\ task[o] # None /\ Share(r, "waiting", task[o])
  BY <1>1, <1>2, <1>4, ShareStep
<1>5. ASSUME cached[o] = None, task[o] = None, NEW c \in NewClient, StartClient(r, o, c)
      PROVE  RuntimeInv'
  BY <1>1, <1>5, StartClientStep
<1> QED BY <1>3, <1>4, <1>5 DEF AskClient

LEMMA OtherRequestSteps ==
  ASSUME RuntimeInv, NEW r \in Request, StartAnswers(r) \/ RefreshToken(r) \/ Leave(r)
  PROVE  RuntimeInv'
<1> USE DEF RuntimeInv
<1>1. UNCHANGED <<runtime, created, requested, cached, task, of, start, native, closer,
                  shutdowns>>
  BY DEF StartAnswers, RefreshToken, Leave
<1>2. BooksInv'
  BY <1>1, BooksKept DEF bookVars
<1>3. requests' \in [Request -> RequestRecord]'
  <2>1. requests \in [Request -> RequestRecord] /\ Idle \in RequestRecord
    BY DEF TypeOK, RequestRecord, Idle
  <2>2. CASE requests' = [requests EXCEPT ![r] = Idle] \/ requests' = requests
    BY <2>1, <2>2, <1>1 DEF RequestRecord
  <2>3. CASE requests[r].phase = "waiting" /\ requests' = [requests EXCEPT ![r].phase = "using"]
    <3>1. requests[r].client \in Client /\ requests[r].owner \in created
      BY <2>3, RequestShape
    <3>2. requests' = [requests EXCEPT ![r].phase = "using",
                                       ![r].client = requests[r].client]
      BY <2>1, <2>3 DEF RequestRecord
    <3> QED BY <2>3, <3>1, <3>2, <1>1, RequestMoves
  <2> QED BY <2>2, <2>3 DEF StartAnswers, RefreshToken, Leave
<1>4. credential' \in [Owner -> BOOLEAN] /\ registered' \subseteq created
  <2>1. CASE RefreshToken(r)
    <3>1. requests[r].owner \in created
      BY <2>1, RequestShape DEF RefreshToken
    <3> QED BY <2>1, <3>1 DEF RefreshToken, UseCredential, TypeOK
  <2>2. CASE StartAnswers(r) \/ Leave(r)
    BY <2>2 DEF StartAnswers, Leave, TypeOK
  <2> QED BY <2>1, <2>2
<1>5. TypeOK'
  BY <1>1, <1>3, <1>4 DEF TypeOK, RequestRecord
<1> QED BY <1>2, <1>5

----------------------------------------------------------------------------
(* The start of a client. Its owner waits for this one.                    *)
LEMMA LiveStartOwner ==
  ASSUME RuntimeInv, NEW c \in Client, start[c] \in LiveStart
  PROVE  /\ of[c] \in Owner /\ task[of[c]] = c /\ cached[of[c]] = None
         /\ closer.client # c
         /\ \A p \in Owner : cached[p] # c
         /\ \A p \in Owner : p # of[c] => task[p] # c
<1>1. of[c] \in Owner
  BY DEF RuntimeInv, TypeOK, BooksInv, StartInv, LiveStart
<1>2. task[of[c]] = c
  BY DEF RuntimeInv, BooksInv, StartInv
<1>3. /\ c # None /\ start[c] # "succeeded"
  BY RuntimeAssumption DEF LiveStart
<1>4. cached[of[c]] = None
  BY <1>1, <1>2, <1>3 DEF RuntimeInv, BooksInv, OwnerInv
<1>5. closer.client # c
  BY <1>3 DEF RuntimeInv, BooksInv, CloserInv
<1>6. ASSUME NEW p \in Owner PROVE cached[p] # c
  BY <1>3 DEF RuntimeInv, BooksInv, OwnerInv
<1>7. ASSUME NEW p \in Owner, p # of[c] PROVE task[p] # c
  BY <1>3, <1>7 DEF RuntimeInv, BooksInv, OwnerInv
<1> QED BY <1>1, <1>2, <1>4, <1>5, <1>6, <1>7

(* A step of a start that leaves the owner's client and task alone, moves  *)
(* the start on and starts the process only on the way there.              *)
LEMMA StartMoves ==
  ASSUME RuntimeInv, NEW c \in Client, start[c] \in LiveStart,
         NEW s \in LiveStart \cup {"failed"}, NEW n \in {"none", "running", "stopped", "abandoned"},
         s \in {"building", "failed"} => n # "running",
         s = "starting" => n = "running",
         start' = [start EXCEPT ![c] = s], native' = [native EXCEPT ![c] = n],
         UNCHANGED <<created, requested, cached, of, credential, closer, shutdowns, requests>>,
         task' \in {task, [task EXCEPT ![of[c]] = None]},
         task' # task => s = "failed",
         runtime' \in {runtime, None}, registered' \subseteq registered
  PROVE  RuntimeInv'
<1> DEFINE o == of[c]
<1>1. /\ o \in Owner /\ task[o] = c /\ cached[o] = None /\ closer.client # c
      /\ \A p \in Owner : cached[p] # c
      /\ \A p \in Owner : p # o => task[p] # c
  BY LiveStartOwner
<1>2. /\ start \in [Client -> {"none"} \cup LiveStart \cup EndedStart]
      /\ native \in [Client -> {"none", "running", "stopped", "abandoned"}]
      /\ of \in [Client -> Owner \cup {None}]
      /\ task \in [Owner -> Client \cup {None}]
      /\ cached \in [Owner -> Client \cup {None}]
      /\ closer.client \in Client \cup {None}
      /\ None \notin Client /\ None \notin Owner
  BY CloserShape, RuntimeAssumption DEF RuntimeInv, TypeOK, CloserRecord
<1>3. /\ start'[c] = s /\ native'[c] = n
      /\ \A d \in Client : d # c => start'[d] = start[d] /\ native'[d] = native[d]
      /\ \A p \in Owner : p # o => task'[p] = task[p]
      /\ task'[o] \in {c, None} /\ (s # "failed" => task'[o] = c)
  BY <1>1, <1>2
<1>4. TypeOK'
  <2>1. start' \in [Client -> {"none"} \cup LiveStart \cup EndedStart]
    BY <1>2 DEF EndedStart
  <2>2. native' \in [Client -> {"none", "running", "stopped", "abandoned"}]
    BY <1>2
  <2>3. task' \in [Owner -> Client \cup {None}]
    BY <1>1, <1>2
  <2>4. runtime' \in created \cup {None} /\ registered' \subseteq created
    BY DEF RuntimeInv, TypeOK
  <2> QED BY <2>1, <2>2, <2>3, <2>4 DEF RuntimeInv, TypeOK
<1> HIDE DEF o
<1>5. UNCHANGED <<requested, cached, of, closer>> /\ of[c] = o
  BY DEF o
<1>6. ASSUME NEW d \in Client PROVE StartInv(d)'
  <2>1. CASE d = c
    BY <2>1, <1>1, <1>2, <1>3, <1>5 DEF StartInv, LiveStart
  <2>2. CASE d # c
    <3>1. StartInv(d)
      BY DEF RuntimeInv, BooksInv
    <3>2. start[d] \in LiveStart => of[d] \in Owner /\ of[d] # o
      BY <3>1, <2>2, <1>1, <1>2 DEF StartInv, LiveStart
    <3> QED BY <2>2, <3>1, <3>2, <1>3, <1>5 DEF StartInv
  <2> QED BY <2>1, <2>2
<1>7. ASSUME NEW p \in Owner PROVE OwnerInv(p)'
  <2>1. OwnerInv(p) /\ task[p] \in Client \cup {None} /\ cached[p] \in Client \cup {None}
    BY <1>2 DEF RuntimeInv, BooksInv
  <2>2. CASE p = o
    BY <2>2, <2>1, <1>1, <1>2, <1>3, <1>5 DEF OwnerInv
  <2>3. CASE p # o
    BY <2>3, <2>1, <1>1, <1>3, <1>5 DEF OwnerInv
  <2> QED BY <2>2, <2>3
<1>8. CloserInv' /\ StoppingInv'
  BY <1>1, <1>2, <1>3, <1>5 DEF RuntimeInv, BooksInv, CloserInv, StoppingInv
<1> QED BY <1>4, <1>6, <1>7, <1>8 DEF RuntimeInv, BooksInv

LEMMA NativeKinds ==
  ASSUME RuntimeInv, NEW c \in Client
  PROVE  /\ native[c] \in {"none", "running", "stopped", "abandoned"}
         /\ native = [native EXCEPT ![c] = native[c]]
BY DEF RuntimeInv, TypeOK

(* A client that was stopped does not run.                                 *)
LEMMA StoppedEnds ==
  ASSUME RuntimeInv, NEW c \in Client, Stopped(c)
  PROVE  \E n \in {"none", "stopped", "abandoned"} : native' = [native EXCEPT ![c] = n]
BY DEF Stopped, RuntimeInv, TypeOK

LEMMA BuildingSteps ==
  ASSUME RuntimeInv, NEW c \in Client, BuildFails(c) \/ Built(c) \/ StartFails(c)
  PROVE  RuntimeInv'
<1>1. /\ native[c] \in {"none", "running", "stopped", "abandoned"}
      /\ native = [native EXCEPT ![c] = native[c]]
      /\ start[c] = "building" => native[c] # "running"
  BY NativeKinds DEF RuntimeInv, BooksInv, StartInv
<1>2. /\ start[c] \in LiveStart
      /\ UNCHANGED <<runtime, created, registered, requested, cached, task, credential, of,
                     requests, closer, shutdowns>>
  BY DEF BuildFails, Built, StartFails, LiveStart
<1>3. CASE BuildFails(c)
  <2>1. native' = [native EXCEPT ![c] = native[c]] /\ start' = [start EXCEPT ![c] = "failed"]
    BY <1>1, <1>3 DEF BuildFails
  <2>2. native[c] # "running"
    BY <1>1, <1>3 DEF BuildFails
  <2> QED BY <1>1, <1>2, <2>1, <2>2, StartMoves
<1>4. CASE start' = [start EXCEPT ![c] = "reaping"] /\ native' = native
  <2>1. native' = [native EXCEPT ![c] = native[c]]
    BY <1>1, <1>4
  <2> QED BY <1>1, <1>2, <1>4, <2>1, StartMoves DEF LiveStart
<1>5. CASE start' = [start EXCEPT ![c] = "starting"] /\ native' = [native EXCEPT ![c] = "running"]
  BY <1>2, <1>5, StartMoves DEF LiveStart
<1> QED BY <1>3, <1>4, <1>5 DEF BuildFails, Built, StartFails

(* A start cleans up: its process is stopped and its owner may go.         *)
LEMMA ReapedStep ==
  ASSUME RuntimeInv, NEW c \in Client, Reaped(c)
  PROVE  RuntimeInv'
<1>1. PICK n \in {"none", "stopped", "abandoned"} : native' = [native EXCEPT ![c] = n]
  BY StoppedEnds DEF Reaped
<1>2. runtime' \in {runtime, None} /\ registered' \subseteq registered
  BY DEF Reaped, ReleaseIf, Release
<1>3. task' \in {task, [task EXCEPT ![of[c]] = None]}
  BY DEF Reaped
<1>4. /\ start[c] \in LiveStart /\ start' = [start EXCEPT ![c] = "failed"]
      /\ UNCHANGED <<created, requested, cached, credential, of, requests, closer, shutdowns>>
  BY DEF Reaped, LiveStart
<1> QED BY <1>1, <1>2, <1>3, <1>4, StartMoves

(* The started client becomes the owner's, or its start turns to reap it.  *)
LEMMA StartedStep ==
  ASSUME RuntimeInv, NEW c \in Client, Started(c)
  PROVE  RuntimeInv'
<1> DEFINE o == of[c]
<1>1. start[c] = "starting" /\ start[c] \in LiveStart /\ native[c] = "running"
  BY DEF Started, LiveStart, RuntimeInv, BooksInv, StartInv
<1>2. UNCHANGED <<runtime, created, registered, requested, credential, of, native,
                  requests, closer, shutdowns>>
  BY DEF Started
<1>3. CASE requested[o] /\ start' = [start EXCEPT ![c] = "reaping"] /\ UNCHANGED <<cached, task>>
  <2>1. native' = [native EXCEPT ![c] = native[c]]
    BY <1>2, NativeKinds
  <2> QED BY <1>1, <1>2, <1>3, <2>1, StartMoves DEF LiveStart
<1>4. CASE ~requested[o] /\ Publish(c)
  <2>1. /\ o \in Owner /\ task[o] = c /\ cached[o] = None /\ closer.client # c
        /\ \A p \in Owner : cached[p] # c
        /\ \A p \in Owner : p # o => task[p] # c
    BY <1>1, LiveStartOwner
  <2>2. /\ start \in [Client -> {"none"} \cup LiveStart \cup EndedStart]
        /\ of \in [Client -> Owner \cup {None}]
        /\ task \in [Owner -> Client \cup {None}]
        /\ cached \in [Owner -> Client \cup {None}]
        /\ closer.client \in Client \cup {None}
        /\ None \notin Client /\ None \notin Owner
    BY CloserShape, RuntimeAssumption DEF RuntimeInv, TypeOK, CloserRecord
  <2>3. /\ cached' = [cached EXCEPT ![o] = c] /\ task' = [task EXCEPT ![o] = None]
        /\ start' = [start EXCEPT ![c] = "succeeded"]
    BY <1>4 DEF Publish
  <2>4. TypeOK'
    <3>1. /\ start' \in [Client -> {"none"} \cup LiveStart \cup EndedStart]
          /\ task' \in [Owner -> Client \cup {None}]
          /\ cached' \in [Owner -> Client \cup {None}]
      BY <2>1, <2>2, <2>3 DEF EndedStart
    <3> QED BY <1>2, <3>1 DEF RuntimeInv, TypeOK
  <2>5. /\ start'[c] = "succeeded" /\ cached'[o] = c /\ task'[o] = None
        /\ \A d \in Client : d # c => start'[d] = start[d]
        /\ \A p \in Owner : p # o => task'[p] = task[p] /\ cached'[p] = cached[p]
    BY <2>1, <2>2, <2>3
  <2>6. UNCHANGED <<requested, native, of, closer>> /\ of[c] = o /\ ~requested[o]
    BY <1>2, <1>4
  <2> HIDE DEF o
  <2>7. ASSUME NEW d \in Client PROVE StartInv(d)'
    <3>1. StartInv(d) /\ StartInv(c)
      BY DEF RuntimeInv, BooksInv
    <3>2. CASE d = c
      BY <3>1, <3>2, <1>1, <2>1, <2>2, <2>5, <2>6 DEF StartInv, LiveStart
    <3>3. CASE d # c
      <4>1. start[d] \in LiveStart => of[d] \in Owner /\ of[d] # o
        BY <3>1, <3>3, <2>1, <2>2 DEF StartInv, LiveStart
      <4>2. start[d] = "succeeded" /\ native[d] = "running" =>
              closer.client = d \/ (of[d] # o /\ of[d] \in Owner /\ cached[of[d]] = d)
        BY <3>1, <2>1, <2>2 DEF StartInv
      <4> QED BY <3>1, <3>3, <4>1, <4>2, <2>5, <2>6 DEF StartInv
    <3> QED BY <3>2, <3>3
  <2>8. ASSUME NEW p \in Owner PROVE OwnerInv(p)'
    <3>1. OwnerInv(p) /\ task[p] \in Client \cup {None} /\ cached[p] \in Client \cup {None}
      BY <2>2 DEF RuntimeInv, BooksInv
    <3>2. CASE p = o
      BY <3>2, <1>1, <2>1, <2>2, <2>5, <2>6 DEF OwnerInv
    <3>3. CASE p # o
      BY <3>1, <3>3, <2>1, <2>5, <2>6 DEF OwnerInv
    <3> QED BY <3>2, <3>3
  <2>9. CloserInv' /\ StoppingInv'
    BY <2>1, <2>2, <2>5, <2>6 DEF RuntimeInv, BooksInv, CloserInv, StoppingInv
  <2> QED BY <2>4, <2>7, <2>8, <2>9 DEF RuntimeInv, BooksInv
<1> QED BY <1>3, <1>4 DEF Started

----------------------------------------------------------------------------
(* A shutdown. Between two waits nothing is taken from an owner.           *)
LEMMA WaitEnds ==
  ASSUME RuntimeInv, NEW c \in CloserRecord, c.client = closer.client,
         c.owner = closer.owner, c.owner \in Owner, GoOn(c),
         UNCHANGED <<created, requested, cached, task, credential, of, start, native,
                     requests, shutdowns>>
  PROVE  RuntimeInv'
<1>1. /\ closer' \in CloserRecord /\ closer'.client = c.client
      /\ c.client # None =>
           closer'.owner = c.owner /\ closer'.phase \in {"awaiting", "stopping"}
      /\ closer'.phase = "stopping" => closer'.client # None
      /\ runtime' \in {runtime, None} /\ registered' \subseteq registered
  BY GoesOn DEF RuntimeInv
<1>2. TypeOK'
  BY <1>1 DEF RuntimeInv, TypeOK, CloserRecord
<1>3. closer'.client = closer.client
  BY <1>1
<1>4. (\A d \in Client : StartInv(d))' /\ (\A p \in Owner : OwnerInv(p))'
  BY <1>3 DEF RuntimeInv, BooksInv, StartInv, OwnerInv
<1>5. CloserInv' /\ StoppingInv'
  BY <1>1 DEF RuntimeInv, BooksInv, CloserInv, StoppingInv
<1> QED BY <1>2, <1>4, <1>5 DEF RuntimeInv, BooksInv

(* The owner a close works on is known while it waits.                     *)
ClosingInv == closer.phase \notin {"idle", "next"} => closer.owner \in Owner

LEMMA AwaitEndsStep ==
  ASSUME RuntimeInv, ClosingInv, AwaitEnds \/ CredentialEnds
  PROVE  RuntimeInv'
<1>1. closer \in CloserRecord
  BY CloserShape DEF RuntimeInv
<1>2. closer.owner \in Owner
  BY DEF ClosingInv, AwaitEnds, CredentialEnds
<1>3. UNCHANGED <<created, requested, cached, task, credential, of, start, native,
                  requests, shutdowns>>
  BY DEF AwaitEnds, CredentialEnds
<1>4. PICK c : c \in CloserRecord /\ c.client = closer.client /\ c.owner = closer.owner /\ GoOn(c)
  <2>1. CASE AwaitEnds
    <3> DEFINE c == [closer EXCEPT !.start = None]
    <3>1. c \in CloserRecord /\ c.client = closer.client /\ c.owner = closer.owner
      BY <1>1 DEF CloserRecord
    <3> QED BY <2>1, <3>1 DEF AwaitEnds
  <2>2. CASE CredentialEnds
    <3> DEFINE c == [closer EXCEPT !.credential = FALSE]
    <3>1. c \in CloserRecord /\ c.client = closer.client /\ c.owner = closer.owner
      BY <1>1 DEF CloserRecord
    <3> QED BY <2>2, <3>1 DEF CredentialEnds
  <2> QED BY <2>1, <2>2
<1> QED BY <1>2, <1>3, <1>4, WaitEnds

LEMMA StopEndsStep ==
  ASSUME RuntimeInv, ClosingInv, StopEnds
  PROVE  RuntimeInv'
<1> DEFINE d == closer.client
<1>1. /\ closer \in CloserRecord /\ closer.owner \in Owner /\ closer.phase = "stopping"
      /\ d \in Client
  BY CloserShape DEF RuntimeInv, BooksInv, StoppingInv, ClosingInv, StopEnds, CloserRecord
<1>2. PICK n \in {"none", "stopped", "abandoned"} : native' = [native EXCEPT ![d] = n]
  BY <1>1, StoppedEnds DEF StopEnds
<1>3. UNCHANGED <<created, requested, cached, task, credential, of, start, requests, shutdowns>>
  BY DEF StopEnds
<1>4. PICK c : c \in CloserRecord /\ c.client = None /\ c.owner = closer.owner /\ GoOn(c)
  <2> DEFINE c == [closer EXCEPT !.client = None]
  <2>1. c \in CloserRecord /\ c.client = None /\ c.owner = closer.owner
    BY <1>1 DEF CloserRecord
  <2> QED BY <2>1 DEF StopEnds
<1>5. /\ closer' \in CloserRecord /\ closer'.client = None
      /\ closer'.phase = "stopping" => closer'.client # None
      /\ runtime' \in {runtime, None} /\ registered' \subseteq registered
  BY <1>1, <1>4, GoesOn DEF RuntimeInv
<1>6. /\ native'[d] = n /\ \A e \in Client : e # d => native'[e] = native[e]
      /\ None \notin Client
  BY <1>1, <1>2, RuntimeAssumption DEF RuntimeInv, TypeOK
<1>7. TypeOK'
  <2>1. native' \in [Client -> {"none", "running", "stopped", "abandoned"}]
    BY <1>2 DEF RuntimeInv, TypeOK
  <2> QED BY <1>3, <1>5, <2>1 DEF RuntimeInv, TypeOK, CloserRecord
<1>8. /\ start[d] = "succeeded" /\ closer.client = d
      /\ \A p \in Owner : cached[p] # d
  BY <1>1, <1>6 DEF RuntimeInv, BooksInv, CloserInv, OwnerInv
<1> HIDE DEF d
<1>9. ASSUME NEW e \in Client PROVE StartInv(e)'
  <2>1. StartInv(e)
    BY DEF RuntimeInv, BooksInv
  <2>2. CASE e = d
    BY <2>1, <2>2, <1>3, <1>6, <1>8 DEF StartInv, LiveStart
  <2>3. CASE e # d
    BY <2>1, <2>3, <1>3, <1>6, <1>8 DEF StartInv
  <2> QED BY <2>2, <2>3
<1>10. ASSUME NEW p \in Owner PROVE OwnerInv(p)'
  <2>1. OwnerInv(p) /\ cached[p] \in Client \cup {None} /\ cached[p] # d
    BY <1>8 DEF RuntimeInv, BooksInv, TypeOK
  <2>2. cached[p] # None => native'[cached[p]] = native[cached[p]]
    BY <1>6, <2>1
  <2> QED BY <2>1, <2>2, <1>3, <1>5, <1>6 DEF OwnerInv
<1>11. CloserInv' /\ StoppingInv'
  BY <1>5 DEF CloserInv, StoppingInv
<1> QED BY <1>7, <1>9, <1>10, <1>11 DEF RuntimeInv, BooksInv

(* A close takes over the client that its owner cached.                    *)
LEMMA CloseStep ==
  ASSUME RuntimeInv, NEW o \in Owner, Close(o)
  PROVE  RuntimeInv'
<1>1. closer \in CloserRecord /\ closer.phase = "next" /\ o \in closer.queue /\ o \in created
  BY CloserShape DEF RuntimeInv, Close, CloserRecord
<1>2. UNCHANGED <<created, task, of, start, native, requests, shutdowns>>
  BY DEF Close
<1>3. /\ requested' = [requested EXCEPT ![o] = TRUE] /\ cached' = [cached EXCEPT ![o] = None]
      /\ credential' = [credential EXCEPT ![o] = FALSE]
  BY DEF Close
<1>4. /\ cached \in [Owner -> Client \cup {None}] /\ task \in [Owner -> Client \cup {None}]
      /\ requested \in [Owner -> BOOLEAN] /\ credential \in [Owner -> BOOLEAN]
      /\ None \notin Client
  BY RuntimeAssumption DEF RuntimeInv, TypeOK
<1>5. PICK c : c \in CloserRecord /\ c.client = cached[o] /\ c.owner = o /\ GoOn(c)
  <2> DEFINE waited == IF cached[o] = None /\ InFlight(o) THEN task[o] ELSE None
             idle == task[o] = None
             c == [closer EXCEPT !.queue = @ \ {o}, !.owner = o, !.start = waited,
                                 !.client = cached[o], !.credential = credential[o],
                                 !.release = idle]
  <2>1. waited \in Client \cup {None} /\ idle \in BOOLEAN /\ cached[o] \in Client \cup {None}
        /\ credential[o] \in BOOLEAN
    BY <1>4
  <2>2. GoOn(c)
    BY DEF Close
  <2>3. c \in CloserRecord /\ c.client = cached[o] /\ c.owner = o
    <3> HIDE DEF waited, idle
    <3> QED BY <1>1, <2>1 DEF CloserRecord
  <2> QED BY <2>2, <2>3
<1>6. /\ closer' \in CloserRecord /\ closer'.client = cached[o]
      /\ cached[o] # None => closer'.owner = o /\ closer'.phase \in {"awaiting", "stopping"}
      /\ closer'.phase = "stopping" => closer'.client # None
      /\ runtime' \in {runtime, None} /\ registered' \subseteq registered
  BY <1>5, GoesOn DEF RuntimeInv
<1>7. TypeOK'
  <2>1. /\ requested' \in [Owner -> BOOLEAN] /\ credential' \in [Owner -> BOOLEAN]
        /\ cached' \in [Owner -> Client \cup {None}]
    BY <1>3, <1>4
  <2> QED BY <1>2, <1>6, <2>1 DEF RuntimeInv, TypeOK, CloserRecord
<1>8. /\ cached'[o] = None
      /\ \A p \in Owner : p # o => cached'[p] = cached[p] /\ requested'[p] = requested[p]
      /\ closer.client = None
  BY <1>1, <1>3, <1>4 DEF RuntimeInv, BooksInv, CloserInv
<1>9. ASSUME NEW d \in Client PROVE StartInv(d)'
  <2>1. StartInv(d) /\ of[d] \in Owner \cup {None}
    BY DEF RuntimeInv, BooksInv, TypeOK
  <2>2. start[d] # "none" => of[d] \in Owner
    BY <2>1 DEF StartInv
  <2>3. start[d] = "succeeded" /\ native[d] = "running" =>
          cached'[of[d]] = d \/ closer'.client = d
    BY <2>1, <2>2, <1>4, <1>6, <1>8 DEF StartInv
  <2> QED BY <2>1, <2>3, <1>2 DEF StartInv
<1>10. ASSUME NEW p \in Owner PROVE OwnerInv(p)'
  <2>1. OwnerInv(p) /\ OwnerInv(o)
    BY DEF RuntimeInv, BooksInv
  <2>2. CASE p = o
    BY <2>1, <2>2, <1>2, <1>8 DEF OwnerInv
  <2>3. CASE p # o
    <3>1. cached[p] # None => cached[p] # cached[o]
      BY <2>1, <2>3 DEF OwnerInv
    <3> QED BY <2>1, <2>3, <3>1, <1>2, <1>6, <1>8 DEF OwnerInv
  <2> QED BY <2>2, <2>3
<1>11. CloserInv' /\ StoppingInv'
  <2>1. cached[o] # None => start[cached[o]] = "succeeded" /\ of[cached[o]] = o
    BY DEF RuntimeInv, BooksInv, OwnerInv
  <2> QED BY <2>1, <1>2, <1>6 DEF CloserInv, StoppingInv
<1> QED BY <1>7, <1>9, <1>10, <1>11 DEF RuntimeInv, BooksInv

LEMMA BeginEndSteps ==
  ASSUME RuntimeInv, BeginShutdown \/ EndShutdown
  PROVE  RuntimeInv'
<1>1. /\ UNCHANGED <<runtime, created, registered, requested, cached, task, credential, of,
                     start, native, requests>>
      /\ shutdowns' \in 0 .. MaxShutdowns
  BY RuntimeAssumption DEF BeginShutdown, EndShutdown, RuntimeInv, TypeOK
<1>2. closer.client = None
  BY DEF RuntimeInv, BooksInv, CloserInv, BeginShutdown, EndShutdown
<1>3. closer' \in CloserRecord /\ closer'.client = None /\ closer'.phase \in {"idle", "next"}
  <2>1. NoCloser \in CloserRecord /\ NoCloser.client = None /\ NoCloser.phase = "idle"
    BY DEF NoCloser, CloserRecord
  <2>2. CASE BeginShutdown
    <3>1. registered \subseteq created
      BY DEF RuntimeInv, TypeOK
    <3>2. closer' = [phase |-> "next", queue |-> registered, owner |-> None, start |-> None,
                     client |-> None, credential |-> FALSE, release |-> FALSE]
      BY <2>2 DEF BeginShutdown, NoCloser
    <3> QED BY <3>1, <3>2 DEF CloserRecord
  <2> QED BY <2>1, <2>2 DEF EndShutdown
<1>4. TypeOK'
  BY <1>1, <1>3 DEF RuntimeInv, TypeOK, CloserRecord
<1>5. BooksInv'
  BY <1>1, <1>2, <1>3 DEF RuntimeInv, BooksInv, StartInv, OwnerInv, CloserInv, StoppingInv
<1> QED BY <1>4, <1>5 DEF RuntimeInv

LEMMA OwnerOfClose ==
  ASSUME NEW c \in CloserRecord, c.owner \in Owner, GoOn(c)
  PROVE  ClosingInv'
<1>1. CASE NextPhase(c) = "next"
  <2>1. closer' = [NoCloser EXCEPT !.phase = "next", !.queue = c.queue]
    BY <1>1 DEF GoOn
  <2>2. closer'.phase = "next"
    BY <2>1 DEF NoCloser
  <2> QED BY <2>2 DEF ClosingInv
<1>2. CASE NextPhase(c) # "next"
  <2>1. closer' = [c EXCEPT !.phase = NextPhase(c)]
    BY <1>2 DEF GoOn
  <2>2. closer'.owner = c.owner
    BY <2>1 DEF CloserRecord
  <2> QED BY <2>2 DEF ClosingInv
<1> QED BY <1>1, <1>2

LEMMA ClosingKept ==
  ASSUME RuntimeInv, ClosingInv, [Next]_vars
  PROVE  ClosingInv'
<1>1. closer \in CloserRecord
  BY CloserShape DEF RuntimeInv
<1>2. CASE closer' = closer
  BY <1>2 DEF ClosingInv
<1>3. CASE BeginShutdown \/ EndShutdown
  <2>1. closer'.phase \in {"idle", "next"}
    <3>1. CASE BeginShutdown
      <4>1. closer' = [phase |-> "next", queue |-> registered, owner |-> None, start |-> None,
                       client |-> None, credential |-> FALSE, release |-> FALSE]
        BY <3>1 DEF BeginShutdown, NoCloser
      <4> QED BY <4>1
    <3>2. CASE EndShutdown
      BY <3>2 DEF EndShutdown, NoCloser
    <3> QED BY <1>3, <3>1, <3>2
  <2> QED BY <2>1 DEF ClosingInv
<1>4. ASSUME AwaitEnds \/ StopEnds \/ CredentialEnds PROVE ClosingInv'
  <2>1. closer.owner \in Owner
    BY <1>4 DEF AwaitEnds, StopEnds, CredentialEnds, ClosingInv
  <2>2. PICK c : c \in CloserRecord /\ c.owner = closer.owner /\ GoOn(c)
    <3>1. /\ [closer EXCEPT !.start = None] \in CloserRecord
          /\ [closer EXCEPT !.start = None].owner = closer.owner
      BY <1>1 DEF CloserRecord
    <3>2. /\ [closer EXCEPT !.client = None] \in CloserRecord
          /\ [closer EXCEPT !.client = None].owner = closer.owner
      BY <1>1 DEF CloserRecord
    <3>3. /\ [closer EXCEPT !.credential = FALSE] \in CloserRecord
          /\ [closer EXCEPT !.credential = FALSE].owner = closer.owner
      BY <1>1 DEF CloserRecord
    <3> QED BY <1>4, <3>1, <3>2, <3>3 DEF AwaitEnds, StopEnds, CredentialEnds
  <2> QED BY <2>1, <2>2, OwnerOfClose
<1>5. ASSUME NEW o \in Owner, Close(o) PROVE ClosingInv'
  <2> DEFINE waited == IF cached[o] = None /\ InFlight(o) THEN task[o] ELSE None
             idle == task[o] = None
             c == [closer EXCEPT !.queue = @ \ {o}, !.owner = o, !.start = waited,
                                 !.client = cached[o], !.credential = credential[o],
                                 !.release = idle]
  <2>1. /\ waited \in Client \cup {None} /\ idle \in BOOLEAN
        /\ cached[o] \in Client \cup {None} /\ credential[o] \in BOOLEAN /\ o \in created
    BY <1>1, <1>5 DEF RuntimeInv, TypeOK, Close, CloserRecord
  <2>2. c \in CloserRecord /\ c.owner = o
    <3> HIDE DEF waited, idle
    <3> QED BY <1>1, <2>1 DEF CloserRecord
  <2>3. GoOn(c)
    BY <1>5 DEF Close
  <2> HIDE DEF c
  <2> QED BY <2>2, <2>3, OwnerOfClose
<1>6. ASSUME NEW r \in Request, RequestStep(r) PROVE closer' = closer
  BY <1>6 DEF RequestStep, GetRuntime, AskClient, StartAnswers, RefreshToken, Leave
<1>7. ASSUME NEW c \in Client, StartStep(c) PROVE closer' = closer
  BY <1>7 DEF StartStep, BuildFails, Built, StartFails, Started, Reaped
<1> QED BY <1>2, <1>3, <1>4, <1>5, <1>6, <1>7 DEF Next, ShutdownStep, vars

IInv == RuntimeInv /\ ClosingInv

LEMMA NextInv == IInv /\ [Next]_vars => IInv'
<1> SUFFICES ASSUME IInv, [Next]_vars PROVE IInv'
  OBVIOUS
<1> USE DEF IInv
<1>1. ClosingInv'
  BY ClosingKept
<1>2. CASE UNCHANGED vars
  <2>1. TypeOK'
    BY <1>2 DEF RuntimeInv, TypeOK, vars
  <2>2. UNCHANGED bookVars /\ closer' = closer
    BY <1>2 DEF vars, bookVars
  <2> QED BY <1>1, <2>1, <2>2, BooksKept DEF RuntimeInv
<1>3. ASSUME NEW r \in Request, RequestStep(r) PROVE RuntimeInv'
  BY <1>3, GetRuntimeStep, AskClientStep, OtherRequestSteps DEF RequestStep
<1>4. ASSUME NEW c \in Client, StartStep(c) PROVE RuntimeInv'
  BY <1>4, BuildingSteps, StartedStep, ReapedStep DEF StartStep
<1>5. ASSUME BeginShutdown \/ ShutdownStep PROVE RuntimeInv'
  BY <1>5, BeginEndSteps, AwaitEndsStep, StopEndsStep, CloseStep DEF ShutdownStep
<1> QED BY <1>1, <1>2, <1>3, <1>4, <1>5 DEF Next

----------------------------------------------------------------------------
(* The strengthening from which the owner's books follow.                  *)
THEOREM Invariance == Spec => []IInv
<1>1. Init => IInv
  BY InitInv DEF IInv, ClosingInv, Init, NoCloser
<1> QED BY <1>1, NextInv, PTL DEF Spec

(* Every variable keeps its type: a shutdown and the requests know only    *)
(* owners that were constructed.                                           *)
THEOREM TypeCorrect == Spec => []TypeOK
<1>1. IInv => TypeOK
  BY DEF IInv, RuntimeInv
<1> QED BY <1>1, Invariance, PTL

(* An owner shows only a running client of its own that no shutdown has    *)
(* touched; every running process has someone who will stop it; an owner   *)
(* runs one client; and a start that was in flight at its owner's close    *)
(* reaps what it started (_copilot_runtime.py:201-314).                    *)
THEOREM ClientsAccountedAlways == Spec => []ClientsAccounted
<1> SUFFICES IInv => ClientsAccounted
  BY Invariance, PTL
<1> SUFFICES ASSUME IInv PROVE ClientsAccounted
  OBVIOUS
<1>1. /\ of \in [Client -> Owner \cup {None}]
      /\ start \in [Client -> {"none"} \cup LiveStart \cup EndedStart]
      /\ cached \in [Owner -> Client \cup {None}]
      /\ None \notin Client /\ None \notin Owner
  BY RuntimeAssumption DEF IInv, RuntimeInv, TypeOK
<1>2. ASSUME NEW c \in Client, native[c] = "running"
      PROVE  /\ of[c] \in Owner
             /\ \/ cached[of[c]] = c
                \/ task[of[c]] = c /\ start[c] \in LiveStart
                \/ closer.client = c
  <2>1. StartInv(c)
    BY DEF IInv, RuntimeInv, BooksInv
  <2>2. start[c] \in LiveStart \/ start[c] = "succeeded"
    BY <2>1, <1>1, <1>2 DEF StartInv, LiveStart, EndedStart
  <2> QED BY <2>1, <2>2, <1>1, <1>2 DEF StartInv, LiveStart
<1>3. CachedIsRunning
  BY DEF IInv, RuntimeInv, BooksInv, OwnerInv, CachedIsRunning
<1>4. NoClientForgotten
  BY <1>2 DEF NoClientForgotten
<1>5. OneClientPerOwner
  <2> SUFFICES ASSUME NEW c \in Client, NEW d \in Client, of[c] = of[d],
                      native[c] = "running", closer.client # c,
                      native[d] = "running", closer.client # d
               PROVE  c = d
    BY DEF OneClientPerOwner
  <2>1. OwnerInv(of[c])
    BY <1>2 DEF IInv, RuntimeInv, BooksInv
  <2> QED BY <2>1, <1>1, <1>2 DEF OwnerInv
<1>6. LateStartReaped
  <2> SUFFICES ASSUME NEW o \in Owner, requested[o], ~Closing(o), ~InFlight(o),
                      NEW c \in Client, of[c] = o, native[c] = "running"
               PROVE  FALSE
    BY DEF LateStartReaped
  <2>1. cached[o] # c
    BY <1>1 DEF IInv, RuntimeInv, BooksInv, OwnerInv
  <2>2. ~(task[o] = c /\ start[c] \in LiveStart)
    BY <1>1 DEF InFlight
  <2>3. closer.client # c
    BY <1>1 DEF IInv, RuntimeInv, BooksInv, CloserInv, Closing
  <2> QED BY <2>1, <2>2, <2>3, <1>2
<1> QED BY <1>3, <1>4, <1>5, <1>6 DEF ClientsAccounted

-----------------------------------------------------------------------------
(***************************************************************************)
(* The session's files.  An operation makes all its checks before its      *)
(* first request, so the invariant speaks of the requests that are left:   *)
(* the names stored and the names still to be written make a well formed   *)
(* tree (TreeInv); each kept write is in a file that no request deletes or *)
(* overwrites before it is stored elsewhere for good (StoredInv); and      *)
(* before the first operation there are only the workspace and the root    *)
(* (ScaffoldInv).                                                          *)
(***************************************************************************)
Name == [path : Seq(Nat), marker : BOOLEAN]
Content == Seq(1 .. MaxCalls)
Requests == [name : Name, put : BOOLEAN, content : Content]

\* What is sent and stored: a marker holds nothing.
ShapeInv ==
    /\ IsFiniteSet(Names)
    /\ \A b \in Names : b \in Name /\ blobs[b] \in Content /\ (b.marker => blobs[b] = <<>>)
    /\ todo \in Seq(Requests)
    /\ \A n \in 1 .. Len(todo) : todo[n].name.marker => todo[n].content = <<>>
    /\ adapter \in {"none", "opening", "open", "closed"} /\ expired \in BOOLEAN
    /\ adding \subseteq 1 .. MaxCalls /\ kept \subseteq 1 .. calls
    /\ calls \in 0 .. MaxCalls /\ turns \in 0 .. MaxTurns

\* An operation runs while it has requests left.
OperationInv ==
    /\ adapter \in {"none", "closed"} => todo = <<>>
    /\ todo = <<>> => adding = {}
    /\ adding \subseteq {calls}

\* A file is neither above nor at the place of another name.
WellFormed(names) ==
    \A b \in names : ~b.marker =>
        b.path # <<>> /\ \A c \in names : IsPrefix(b.path, c.path) => c.path = b.path /\ ~c.marker

\* The names that requests write.
Puts(s) == {s[n].name : n \in {m \in 1 .. Len(s) : s[m].put}}

TreeInv == WellFormed(Names \cup Puts(todo))

\* Opening a session leaves its workspace and the root, whatever is cut.
ScaffoldInv == calls = 0 => Names \cup Puts(todo) \subseteq {Marker(<<>>), Marker(Workspace)}

\* The requests from i to j leave k in b.
Spared(s, b, k, i, j) ==
    \A n \in i .. j : s[n].name = b => s[n].put /\ k \in ToSet(s[n].content)

\* Request n stores k for good.
Stores(s, n, k) ==
    /\ s[n].put /\ k \in ToSet(s[n].content)
    /\ Spared(s, s[n].name, k, n + 1, Len(s))

\* k stays in b until it is stored elsewhere.
Survives(s, b, k) ==
    \/ Spared(s, b, k, 1, Len(s))
    \/ \E n \in 1 .. Len(s) : Stores(s, n, k) /\ Spared(s, b, k, 1, n - 1)

\* k is stored, and goes nowhere before it is stored again.
Held(k) == \E b \in Names : k \in ToSet(blobs[b]) /\ Survives(todo, b, k)

\* k will be stored when the running operation returns.
Coming(k) == Held(k) \/ \E n \in 1 .. Len(todo) : Stores(todo, n, k)

StoredInv == (\A k \in kept : Held(k)) /\ (\A k \in adding : Coming(k))

StoreInv == ShapeInv /\ OperationInv /\ TreeInv /\ ScaffoldInv /\ StoredInv

-----------------------------------------------------------------------------
LEMMA LeastNumber ==
    ASSUME NEW S \in SUBSET Nat, S # {}
    PROVE  \E n \in S : \A m \in S : ~(m < n)
<1> DEFINE Below == {0 .. n - 1 : n \in S}
<1>1. Below \subseteq FiniteSubsetsOf(Nat) /\ Below # {}
  <2>1. ASSUME NEW n \in S PROVE 0 .. n - 1 \in FiniteSubsetsOf(Nat)
    <3>1. IsFiniteSet(0 .. n - 1)
      BY FS_Interval
    <3> QED BY <3>1 DEF FiniteSubsetsOf
  <2> QED BY <2>1
<1>2. PICK X \in Below : \A Y \in Below : <<Y, X>> \notin StrictSubsetOrdering(Nat)
  <2> HIDE DEF Below
  <2> QED BY <1>1, WFMin, FS_StrictSubsetOrderingWellFounded
<1>3. PICK n \in S : X = 0 .. n - 1
  BY <1>2
<1>4. ASSUME NEW m \in S, m < n PROVE FALSE
  <2>1. 0 .. m - 1 \subseteq 0 .. n - 1 /\ m \in 0 .. n - 1 /\ m \notin 0 .. m - 1
    BY <1>4
  <2>2. <<0 .. m - 1, X>> \in StrictSubsetOrdering(Nat)
    BY <1>3, <2>1 DEF StrictSubsetOrdering
  <2> QED BY <1>2, <2>2
<1> QED BY <1>4

-----------------------------------------------------------------------------
(* Paths. *)
Path == Seq(Nat)

LEMMA PrefixIs ==
    ASSUME NEW s \in Path, NEW t \in Path
    PROVE  IsPrefix(s, t) <=> Len(s) <= Len(t) /\ \A i \in 1 .. Len(s) : s[i] = t[i]
<1>1. Len(s) \in Nat /\ Len(t) \in Nat
  BY DEF Path
<1>2. CASE Len(s) <= Len(t)
  <2> DEFINE a == SubSeq(s, 1, Len(s))
             b == SubSeq(t, 1, Len(s))
  <2>1. a \in Path /\ Len(a) = Len(s) /\ \A i \in 1 .. Len(s) : a[i] = s[i]
    <3>1. \A i \in 1 .. Len(s) : s[i] \in Nat
      BY DEF Path
    <3> QED BY <1>1, <3>1, SubSeqProperties DEF Path
  <2>2. b \in Path /\ Len(b) = Len(s) /\ \A i \in 1 .. Len(s) : b[i] = t[i]
    <3>1. \A i \in 1 .. Len(s) : t[i] \in Nat
      BY <1>1, <1>2 DEF Path
    <3> QED BY <1>1, <3>1, SubSeqProperties DEF Path
  <2> HIDE DEF a, b
  <2>3. a = b <=> \A i \in 1 .. Len(s) : s[i] = t[i]
    <3>1. ASSUME \A i \in 1 .. Len(s) : s[i] = t[i] PROVE a = b
      <4>1. \A i \in 1 .. Len(a) : a[i] = b[i]
        BY <2>1, <2>2, <3>1
      <4> QED BY <2>1, <2>2, <4>1, SeqEqual DEF Path
    <3> QED BY <2>1, <2>2, <3>1
  <2> QED BY <1>2, <2>3 DEF IsPrefix, a, b
<1> QED BY <1>1, <1>2 DEF IsPrefix

LEMMA PathEqual ==
    ASSUME NEW s \in Path, NEW t \in Path, IsPrefix(s, t), Len(t) <= Len(s)
    PROVE  s = t
<1>1. Len(s) = Len(t) /\ \A i \in 1 .. Len(s) : s[i] = t[i]
  BY PrefixIs DEF Path
<1> QED BY <1>1, SeqEqual DEF Path

LEMMA PrefixOrder ==
    ASSUME NEW r \in Path, NEW s \in Path, NEW t \in Path
    PROVE  /\ IsPrefix(s, s)
           /\ IsPrefix(s, t) => Len(s) <= Len(t)
           /\ IsPrefix(r, s) /\ IsPrefix(s, t) => IsPrefix(r, t)
           /\ IsPrefix(r, t) /\ IsPrefix(s, t) /\ Len(r) <= Len(s) => IsPrefix(r, s)
<1>1. Len(r) \in Nat /\ Len(s) \in Nat /\ Len(t) \in Nat
  BY DEF Path
<1>2. IsPrefix(s, s) /\ (IsPrefix(s, t) => Len(s) <= Len(t))
  BY <1>1, PrefixIs
<1>3. ASSUME IsPrefix(r, s), IsPrefix(s, t) PROVE IsPrefix(r, t)
  <2>1. Len(r) <= Len(s) /\ Len(s) <= Len(t)
    BY <1>3, PrefixIs
  <2>2. (\A i \in 1 .. Len(r) : r[i] = s[i]) /\ \A i \in 1 .. Len(s) : s[i] = t[i]
    BY <1>3, PrefixIs
  <2>3. \A i \in 1 .. Len(r) : r[i] = t[i]
    BY <1>1, <2>1, <2>2
  <2> QED BY <1>1, <2>1, <2>3, PrefixIs
<1>4. ASSUME IsPrefix(r, t), IsPrefix(s, t), Len(r) <= Len(s) PROVE IsPrefix(r, s)
  <2>1. (\A i \in 1 .. Len(r) : r[i] = t[i]) /\ \A i \in 1 .. Len(s) : s[i] = t[i]
    BY <1>4, PrefixIs
  <2>2. \A i \in 1 .. Len(r) : r[i] = s[i]
    BY <1>1, <1>4, <2>1
  <2> QED BY <1>4, <2>2, PrefixIs
<1> QED BY <1>2, <1>3, <1>4

\* The first n names of a path.
First(p, n) == SubSeq(p, 1, n)

LEMMA FirstNames ==
    ASSUME NEW p \in Path, NEW n \in 0 .. Len(p)
    PROVE  /\ First(p, n) \in Path /\ Len(First(p, n)) = n /\ IsPrefix(First(p, n), p)
           /\ \A r \in Path : IsPrefix(r, p) /\ Len(r) = n => r = First(p, n)
<1> DEFINE q == First(p, n)
<1>1. Len(p) \in Nat /\ \A i \in 1 .. n : p[i] \in Nat
  BY DEF Path
<1>2. q \in Path /\ Len(q) = n /\ \A i \in 1 .. n : q[i] = p[i]
  BY <1>1, SubSeqProperties DEF Path, First
<1> HIDE DEF q
<1>3. IsPrefix(q, p)
  <2>1. Len(q) <= Len(p) /\ \A i \in 1 .. Len(q) : q[i] = p[i]
    BY <1>1, <1>2
  <2> QED BY <1>2, <2>1, PrefixIs
<1>4. ASSUME NEW r \in Path, IsPrefix(r, p), Len(r) = n PROVE r = q
  <2>1. IsPrefix(r, q)
    BY <1>2, <1>3, <1>4, PrefixOrder
  <2> QED BY <1>2, <1>4, <2>1, PathEqual
<1> QED BY <1>2, <1>3, <1>4 DEF q

\* The parent of a path, and what is above it.
LEMMA ParentIs ==
    ASSUME NEW p \in Path, p # <<>>
    PROVE  Parent(p) \in Path /\ Len(Parent(p)) = Len(p) - 1 /\ IsPrefix(Parent(p), p)
<1>1. Len(p) \in Nat /\ Len(p) # 0
  BY DEF Path
<1>2. Len(p) - 1 \in 0 .. Len(p)
  BY <1>1
<1>3. Parent(p) = First(p, Len(p) - 1)
  BY DEF Parent, First
<1> QED BY <1>2, <1>3, FirstNames

LEMMA AboveIs ==
    ASSUME NEW p \in Path, NEW q \in Path, IsPrefix(q, p), Len(q) < Len(p), q # <<>>
    PROVE  q \in Ancestors(p)
<1>1. Len(q) \in 1 .. Len(p) - 1 /\ Len(q) \in 0 .. Len(p)
  BY DEF Path
<1>2. q = First(p, Len(q))
  BY <1>1, FirstNames
<1> QED BY <1>1, <1>2 DEF Ancestors, First

\* A path below src, moved to the same place below dest.
Shifted(src, dest, t) == dest \o SubSeq(t, Len(src) + 1, Len(t))

LEMMA ShiftedIs ==
    ASSUME NEW src \in Path, NEW dest \in Path, NEW t \in Path, IsPrefix(src, t)
    PROVE  /\ Shifted(src, dest, t) \in Path
           /\ Len(Shifted(src, dest, t)) = Len(dest) + (Len(t) - Len(src))
           /\ IsPrefix(dest, Shifted(src, dest, t))
           /\ \A i \in 1 .. Len(t) - Len(src) :
                Shifted(src, dest, t)[Len(dest) + i] = t[Len(src) + i]
<1> DEFINE rest == SubSeq(t, Len(src) + 1, Len(t))
           m == dest \o rest
<1>1. Len(src) \in Nat /\ Len(dest) \in Nat /\ Len(t) \in Nat /\ Len(src) <= Len(t)
  BY PrefixIs DEF Path
<1>2. /\ rest \in Path /\ Len(rest) = Len(t) - Len(src)
      /\ \A i \in 1 .. Len(t) - Len(src) : rest[i] = t[Len(src) + i]
  <2>1. \A i \in Len(src) + 1 .. Len(t) : t[i] \in Nat
    BY <1>1 DEF Path
  <2>2. /\ rest \in Seq(Nat)
        /\ Len(rest) = IF Len(src) + 1 <= Len(t) THEN Len(t) - (Len(src) + 1) + 1 ELSE 0
        /\ \A i \in 1 .. Len(t) - (Len(src) + 1) + 1 : rest[i] = t[Len(src) + 1 + i - 1]
    BY <1>1, <2>1, SubSeqProperties
  <2> HIDE DEF rest
  <2>3. \A i \in 1 .. Len(t) - Len(src) : rest[i] = t[Len(src) + i]
    <3> TAKE i \in 1 .. Len(t) - Len(src)
    <3>1. i \in 1 .. Len(t) - (Len(src) + 1) + 1 /\ Len(src) + 1 + i - 1 = Len(src) + i
      BY <1>1
    <3> QED BY <2>2, <3>1
  <2>4. Len(rest) = Len(t) - Len(src)
    BY <1>1, <2>2
  <2>5. rest \in Path
    BY <2>2 DEF Path
  <2> QED BY <2>3, <2>4, <2>5
<1> HIDE DEF rest
<1>3. /\ m \in Path /\ Len(m) = Len(dest) + Len(rest)
      /\ \A i \in 1 .. Len(dest) + Len(rest) :
           m[i] = IF i <= Len(dest) THEN dest[i] ELSE rest[i - Len(dest)]
  BY <1>2, ConcatProperties DEF Path
<1> HIDE DEF m
<1>4. IsPrefix(dest, m)
  <2>1. Len(dest) <= Len(m) /\ \A i \in 1 .. Len(dest) : dest[i] = m[i]
    BY <1>1, <1>2, <1>3
  <2> QED BY <1>3, <2>1, PrefixIs
<1>5. ASSUME NEW i \in 1 .. Len(t) - Len(src) PROVE m[Len(dest) + i] = t[Len(src) + i]
  <2>1. /\ Len(dest) + i \in 1 .. Len(dest) + Len(rest) /\ ~(Len(dest) + i <= Len(dest))
        /\ Len(dest) + i - Len(dest) = i
    BY <1>1, <1>2
  <2>2. m[Len(dest) + i] = rest[i]
    BY <1>3, <2>1
  <2> QED BY <1>2, <2>2
<1>6. Shifted(src, dest, t) = m
  BY DEF Shifted, m, rest
<1> QED BY <1>2, <1>3, <1>4, <1>5, <1>6

LEMMA ShiftedApart ==
    ASSUME NEW src \in Path, NEW dest \in Path,
           NEW s \in Path, IsPrefix(src, s), NEW t \in Path, IsPrefix(src, t),
           IsPrefix(Shifted(src, dest, s), Shifted(src, dest, t))
    PROVE  IsPrefix(s, t)
<1> DEFINE a == Shifted(src, dest, s)
           b == Shifted(src, dest, t)
<1>1. Len(src) \in Nat /\ Len(dest) \in Nat /\ Len(s) \in Nat /\ Len(t) \in Nat
  BY DEF Path
<1>2. Len(src) <= Len(s) /\ Len(src) <= Len(t)
  BY PrefixIs
<1>3. \A i \in 1 .. Len(src) : s[i] = src[i] /\ t[i] = src[i]
  <2>1. \A i \in 1 .. Len(src) : src[i] = s[i]
    BY PrefixIs
  <2>2. \A i \in 1 .. Len(src) : src[i] = t[i]
    BY PrefixIs
  <2> QED BY <2>1, <2>2
<1>4. /\ a \in Path /\ Len(a) = Len(dest) + (Len(s) - Len(src))
      /\ \A i \in 1 .. Len(s) - Len(src) : a[Len(dest) + i] = s[Len(src) + i]
  BY ShiftedIs
<1>5. /\ b \in Path /\ Len(b) = Len(dest) + (Len(t) - Len(src))
      /\ \A i \in 1 .. Len(t) - Len(src) : b[Len(dest) + i] = t[Len(src) + i]
  BY ShiftedIs
<1>6. IsPrefix(a, b)
  OBVIOUS
<1> HIDE DEF a, b
<1>7. Len(a) <= Len(b) /\ \A i \in 1 .. Len(a) : a[i] = b[i]
  BY <1>4, <1>5, <1>6, PrefixIs
<1>8. Len(s) <= Len(t)
  BY <1>1, <1>4, <1>5, <1>7
<1>9. ASSUME NEW i \in 1 .. Len(s) PROVE s[i] = t[i]
  <2>1. CASE i <= Len(src)
    BY <1>1, <1>3, <2>1
  <2>2. CASE i > Len(src)
    <3>1. PICK j \in 1 .. Len(s) - Len(src) : i = Len(src) + j
      <4>1. i - Len(src) \in 1 .. Len(s) - Len(src) /\ i = Len(src) + (i - Len(src))
        BY <1>1, <2>2
      <4> QED BY <4>1
    <3>2. j \in 1 .. Len(t) - Len(src) /\ Len(dest) + j \in 1 .. Len(a)
      BY <1>1, <1>2, <1>4, <1>8, <3>1
    <3> QED BY <1>4, <1>5, <1>7, <3>1, <3>2
  <2> QED BY <1>1, <2>1, <2>2
<1> QED BY <1>8, <1>9, PrefixIs

-----------------------------------------------------------------------------
(* Names and requests. *)

LEMMA NamesAre ==
    ASSUME NEW p \in Path
    PROVE  /\ File(p) \in Name /\ File(p).path = p /\ ~File(p).marker
           /\ Marker(p) \in Name /\ Marker(p).path = p /\ Marker(p).marker
BY DEF File, Marker, Name, Path

LEMMA NameIs ==
    ASSUME NEW b \in Name
    PROVE  /\ b.path \in Path /\ b.marker \in BOOLEAN
           /\ b = IF b.marker THEN Marker(b.path) ELSE File(b.path)
           /\ \A p : /\ b = File(p) <=> b.path = p /\ ~b.marker
                     /\ b = Marker(p) <=> b.path = p /\ b.marker
BY DEF File, Marker, Name, Path

LEMMA RequestsAre ==
    ASSUME NEW b \in Name, NEW c \in Content
    PROVE  /\ Put(b, c) \in Requests /\ Put(b, c).put
           /\ Put(b, c).name = b /\ Put(b, c).content = c
           /\ Delete(b) \in Requests /\ ~Delete(b).put
           /\ Delete(b).name = b /\ Delete(b).content = <<>>
BY DEF Put, Delete, Requests, Content

\* A part of a well formed tree is well formed.
LEMMA WellFormedPart ==
    ASSUME NEW S, WellFormed(S), NEW T \in SUBSET S PROVE WellFormed(T)
BY DEF WellFormed

\* What a request does to the names and their contents.
LEMMA DoneIs ==
    ASSUME NEW r
    PROVE  /\ DOMAIN Done(r) = IF r.put THEN Names \cup {r.name} ELSE Names \ {r.name}
           /\ \A b \in DOMAIN Done(r) :
                Done(r)[b] = IF r.put /\ b = r.name THEN r.content ELSE blobs[b]
BY DEF Done

-----------------------------------------------------------------------------
(* A request reaches the service. *)

\* k is stored once the first request is done, and no later one costs it.
HeldOn(k) ==
    \E b \in DOMAIN Done(todo[1]) :
        /\ k \in ToSet(Done(todo[1])[b])
        /\ \/ Spared(todo, b, k, 2, Len(todo))
           \/ \E n \in 2 .. Len(todo) : Stores(todo, n, k) /\ Spared(todo, b, k, 2, n - 1)

LEMMA StaysHeld ==
    ASSUME ShapeInv, todo # <<>>, NEW k, Held(k)
    PROVE  HeldOn(k)
<1>1. 1 \in 1 .. Len(todo) /\ Len(todo) \in Nat
  BY DEF ShapeInv
<1>2. PICK b \in Names :
        /\ k \in ToSet(blobs[b])
        /\ \/ Spared(todo, b, k, 1, Len(todo))
           \/ \E n \in 1 .. Len(todo) : Stores(todo, n, k) /\ Spared(todo, b, k, 1, n - 1)
  BY DEF Held, Survives
<1>3. ASSUME NEW m \in 1 .. Len(todo), Spared(todo, b, k, 1, m)
      PROVE  b \in DOMAIN Done(todo[1]) /\ k \in ToSet(Done(todo[1])[b]) /\ Spared(todo, b, k, 2, m)
  <2>1. 1 \in 1 .. m /\ \A j \in 2 .. m : j \in 1 .. m
    OBVIOUS
  <2>2. todo[1].name = b => todo[1].put /\ k \in ToSet(todo[1].content)
    BY <1>3, <2>1 DEF Spared
  <2>3. b \in DOMAIN Done(todo[1])
    <3>1. CASE todo[1].put
      BY <1>2, <3>1 DEF Done
    <3>2. CASE ~todo[1].put
      BY <1>2, <2>2, <3>2 DEF Done
    <3> QED BY <3>1, <3>2
  <2>4. k \in ToSet(Done(todo[1])[b])
    BY <1>2, <2>2, <2>3, DoneIs
  <2>5. Spared(todo, b, k, 2, m)
    BY <1>3, <2>1 DEF Spared
  <2> QED BY <2>3, <2>4, <2>5
<1>4. CASE Spared(todo, b, k, 1, Len(todo))
  <2>1. Len(todo) \in 1 .. Len(todo)
    BY <1>1
  <2> QED BY <1>3, <1>4, <2>1 DEF HeldOn
<1>5. ASSUME NEW n \in 1 .. Len(todo), Stores(todo, n, k), Spared(todo, b, k, 1, n - 1)
      PROVE  HeldOn(k)
  <2>1. CASE n = 1
    <3>1. todo[1].put /\ k \in ToSet(todo[1].content) /\ Spared(todo, todo[1].name, k, 2, Len(todo))
      BY <1>5, <2>1 DEF Stores
    <3>2. todo[1].name \in DOMAIN Done(todo[1])
          /\ k \in ToSet(Done(todo[1])[todo[1].name])
      BY <3>1, DoneIs
    <3> QED BY <3>1, <3>2 DEF HeldOn
  <2>2. CASE n # 1
    <3>1. n - 1 \in 1 .. Len(todo) /\ n \in 2 .. Len(todo)
      BY <2>2
    <3>2. /\ b \in DOMAIN Done(todo[1]) /\ k \in ToSet(Done(todo[1])[b])
          /\ Spared(todo, b, k, 2, n - 1)
      BY <1>3, <1>5, <3>1
    <3> QED BY <1>5, <3>1, <3>2 DEF HeldOn
  <2> QED BY <2>1, <2>2
<1> QED BY <1>2, <1>4, <1>5

LEMMA StillComing ==
    ASSUME ShapeInv, todo # <<>>, NEW k, Coming(k)
    PROVE  HeldOn(k) \/ \E n \in 2 .. Len(todo) : Stores(todo, n, k)
<1>1. CASE Held(k)
  BY <1>1, StaysHeld
<1>2. ASSUME NEW n \in 1 .. Len(todo), Stores(todo, n, k)
      PROVE  HeldOn(k) \/ \E m \in 2 .. Len(todo) : Stores(todo, m, k)
  <2>1. CASE n = 1
    <3>1. todo[1].put /\ k \in ToSet(todo[1].content) /\ Spared(todo, todo[1].name, k, 2, Len(todo))
      BY <1>2, <2>1 DEF Stores
    <3>2. todo[1].name \in DOMAIN Done(todo[1])
          /\ k \in ToSet(Done(todo[1])[todo[1].name])
      BY <3>1, DoneIs
    <3> QED BY <3>1, <3>2 DEF HeldOn
  <2>2. CASE n # 1
    <3>1. n \in 2 .. Len(todo)
      BY <2>2 DEF ShapeInv
    <3> QED BY <1>2, <3>1
  <2> QED BY <2>1, <2>2
<1> QED BY <1>1, <1>2 DEF Coming

\* The requests that are left, one place further on.
LEMMA TailIs ==
    ASSUME ShapeInv, todo # <<>>
    PROVE  /\ Head(todo) = todo[1] /\ todo[1] \in Requests
           /\ Tail(todo) \in Seq(Requests) /\ Len(Tail(todo)) = Len(todo) - 1
           /\ \A i \in 1 .. Len(todo) - 1 : Tail(todo)[i] = todo[i + 1]
           /\ Len(todo) \in Nat \ {0}
BY HeadTailProperties DEF ShapeInv

LEMMA MovesOn ==
    ASSUME ShapeInv, todo # <<>>, todo' = Tail(todo), NEW k
    PROVE  /\ \A b : Spared(todo, b, k, 2, Len(todo)) => Spared(todo, b, k, 1, Len(todo))'
           /\ \A n \in 2 .. Len(todo) :
                /\ n - 1 \in 1 .. Len(todo')
                /\ Stores(todo, n, k) => Stores(todo, n - 1, k)'
                /\ \A b : Spared(todo, b, k, 2, n - 1) => Spared(todo, b, k, 1, n - 2)'
<1>1. Len(todo') = Len(todo) - 1 /\ Len(todo) \in Nat
  BY TailIs
<1>0. Len(todo') \in 0 .. Len(todo) - 1
  BY <1>1, TailIs
<1>2. \A i \in 1 .. Len(todo) - 1 : todo'[i] = todo[i + 1]
  BY TailIs
<1>3. ASSUME NEW b, NEW i \in 1 .. Len(todo), NEW j \in 0 .. Len(todo) - 1,
             Spared(todo, b, k, i + 1, j + 1)
      PROVE  Spared(todo, b, k, i, j)'
  <2>1. ASSUME NEW m \in i .. j, todo'[m].name = b
        PROVE  todo'[m].put /\ k \in ToSet(todo'[m].content)
    <3>1. m + 1 \in i + 1 .. j + 1 /\ m \in 1 .. Len(todo) - 1
      BY <1>1
    <3> QED BY <1>2, <1>3, <2>1, <3>1 DEF Spared
  <2> QED BY <2>1 DEF Spared
<1>4. ASSUME NEW b, Spared(todo, b, k, 2, Len(todo)) PROVE Spared(todo, b, k, 1, Len(todo))'
  <2>1. PICK m \in 0 .. Len(todo) - 1 : m = Len(todo')
    BY <1>0
  <2>2. 1 + 1 = 2 /\ m + 1 = Len(todo) /\ 1 \in 1 .. Len(todo)
    BY <1>1, <2>1, TailIs
  <2>3. Spared(todo, b, k, 1, m)'
    BY <1>3, <1>4, <2>2
  <2> QED BY <2>1, <2>3 DEF Spared
<1>5. ASSUME NEW n \in 2 .. Len(todo)
      PROVE  /\ n - 1 \in 1 .. Len(todo')
             /\ Stores(todo, n, k) => Stores(todo, n - 1, k)'
             /\ \A b : Spared(todo, b, k, 2, n - 1) => Spared(todo, b, k, 1, n - 2)'
  <2>1. n - 1 \in 1 .. Len(todo') /\ n - 1 \in 1 .. Len(todo) - 1 /\ n - 1 + 1 = n /\ n \in Int
    BY <1>1
  <2>2. todo'[n - 1] = todo[n]
    BY <1>2, <2>1
  <2>3. ASSUME Stores(todo, n, k) PROVE Stores(todo, n - 1, k)'
    <3>1. PICK m \in 0 .. Len(todo) - 1 : m = Len(todo')
      BY <1>0
    <3>2. n \in 1 .. Len(todo) /\ m + 1 = Len(todo)
      BY <1>1, <3>1
    <3>3. Spared(todo, todo[n].name, k, n + 1, m + 1)
      BY <2>3, <3>2 DEF Stores
    <3>4. ASSUME NEW b, b = todo[n].name PROVE Spared(todo, b, k, n, m)'
      BY <1>3, <3>2, <3>3, <3>4
    <3>5. Spared(todo, todo[n - 1].name, k, n - 1 + 1, Len(todo))'
      BY <2>1, <2>2, <3>1, <3>4 DEF Spared
    <3> QED BY <2>2, <2>3, <3>5 DEF Stores
  <2>4. ASSUME NEW b, Spared(todo, b, k, 2, n - 1) PROVE Spared(todo, b, k, 1, n - 2)'
    <3>1. n - 2 \in 0 .. Len(todo) - 1 /\ n - 2 + 1 = n - 1 /\ 1 \in 1 .. Len(todo) /\ 1 + 1 = 2
      BY <1>1
    <3> QED BY <1>3, <2>4, <3>1
  <2> QED BY <2>1, <2>3, <2>4
<1> QED BY <1>4, <1>5

LEMMA HeldMovesOn ==
    ASSUME ShapeInv, todo # <<>>, blobs' = Done(todo[1]), todo' = Tail(todo), NEW k
    PROVE  /\ Held(k) => Held(k)'
           /\ Coming(k) => Coming(k)'
<1>1. ASSUME HeldOn(k) PROVE Held(k)'
  <2>1. PICK b \in Names' :
          /\ k \in ToSet(blobs'[b])
          /\ \/ Spared(todo, b, k, 2, Len(todo))
             \/ \E n \in 2 .. Len(todo) : Stores(todo, n, k) /\ Spared(todo, b, k, 2, n - 1)
    BY <1>1 DEF HeldOn, Names
  <2>2. CASE Spared(todo, b, k, 2, Len(todo))
    <3>1. Spared(todo, b, k, 1, Len(todo))'
      BY <2>2, MovesOn
    <3> QED BY <2>1, <3>1 DEF Held, Survives
  <2>3. ASSUME NEW n \in 2 .. Len(todo), Stores(todo, n, k), Spared(todo, b, k, 2, n - 1)
        PROVE  Held(k)'
    <3>1. n - 1 \in 1 .. Len(todo') /\ Stores(todo, n - 1, k)' /\ Spared(todo, b, k, 1, n - 2)'
      BY <2>3, MovesOn
    <3>2. n - 1 - 1 = n - 2
      BY <2>3
    <3> QED BY <2>1, <3>1, <3>2 DEF Held, Survives
  <2> QED BY <2>1, <2>2, <2>3
<1>2. ASSUME NEW n \in 2 .. Len(todo), Stores(todo, n, k) PROVE Coming(k)'
  BY <1>2, MovesOn DEF Coming
<1>3. Held(k) => Held(k)'
  BY <1>1, StaysHeld
<1>4. Coming(k) => Coming(k)'
  <2>1. Held(k)' => Coming(k)'
    BY DEF Coming
  <2> QED BY <1>1, <1>2, <2>1, StillComing
<1> QED BY <1>3, <1>4

LEMMA DoneNames ==
    ASSUME ShapeInv, todo # <<>>
    PROVE  DOMAIN Done(todo[1]) \subseteq Names \cup Puts(todo)
<1>1. 1 \in 1 .. Len(todo)
  BY TailIs
<1>2. CASE todo[1].put
  <2>1. todo[1].name \in Puts(todo)
    BY <1>1, <1>2 DEF Puts
  <2> QED BY <1>2, <2>1 DEF Done
<1>3. CASE ~todo[1].put
  BY <1>3 DEF Done
<1> QED BY <1>2, <1>3

\* The names that are there and to come do not grow while an operation runs.
LEMMA NamesShrink ==
    ASSUME ShapeInv, todo # <<>>, blobs' = Done(todo[1]), todo' = Tail(todo)
    PROVE  Names' \subseteq Names \cup Puts(todo) /\ Puts(todo)' \subseteq Puts(todo)
<1>1. Len(todo') = Len(todo) - 1 /\ Len(todo) \in Nat \ {0}
  BY TailIs
<1>2. \A i \in 1 .. Len(todo) - 1 : todo'[i] = todo[i + 1]
  BY TailIs
<1>3. Names' \subseteq Names \cup Puts(todo)
  BY DoneNames DEF Names
<1>4. ASSUME NEW b \in Puts(todo)' PROVE b \in Puts(todo)
  <2>1. PICK n \in 1 .. Len(todo') : todo'[n].put /\ b = todo'[n].name
    BY <1>4 DEF Puts
  <2>2. n + 1 \in 1 .. Len(todo) /\ todo'[n] = todo[n + 1]
    BY <1>1, <1>2, <2>1
  <2> QED BY <2>1, <2>2 DEF Puts
<1> QED BY <1>3, <1>4

LEMMA TreeShrinks ==
    ASSUME TreeInv, ScaffoldInv, calls' = calls,
           Names' \cup Puts(todo)' \subseteq Names \cup Puts(todo)
    PROVE  TreeInv' /\ ScaffoldInv'
<1>1. TreeInv'
  <2>1. WellFormed(Names \cup Puts(todo))
    BY DEF TreeInv
  <2>2. \A T : T \subseteq Names \cup Puts(todo) => WellFormed(T)
    BY <2>1, WellFormedPart
  <2> QED BY <2>2 DEF TreeInv
<1>2. ScaffoldInv'
  BY DEF ScaffoldInv, Marker
<1> QED BY <1>1, <1>2

\* What is stored has a type, after a request as before it.
LEMMA DoneShape ==
    ASSUME ShapeInv, todo # <<>>, NEW b \in DOMAIN Done(todo[1])
    PROVE  /\ b \in Name /\ Done(todo[1])[b] \in Content
           /\ b.marker => Done(todo[1])[b] = <<>>
<1>1. todo[1] \in Requests /\ 1 \in 1 .. Len(todo)
  BY TailIs
<1>2. todo[1].name \in Name /\ todo[1].content \in Content
      /\ (todo[1].name.marker => todo[1].content = <<>>)
  BY <1>1 DEF Requests, ShapeInv
<1>3. CASE todo[1].put /\ b = todo[1].name
  BY <1>2, <1>3, DoneIs
<1>4. CASE ~(todo[1].put /\ b = todo[1].name)
  <2>1. b \in Names
    BY <1>4 DEF Done
  <2>2. Done(todo[1])[b] = blobs[b]
    BY <1>4, DoneIs
  <2> QED BY <2>1, <2>2 DEF ShapeInv
<1> QED BY <1>3, <1>4

LEMMA DoneFinite == ASSUME ShapeInv, NEW r PROVE IsFiniteSet(DOMAIN Done(r))
<1>1. IsFiniteSet(Names) /\ IsFiniteSet({r.name})
  BY FS_Singleton DEF ShapeInv
<1>2. IsFiniteSet(Names \cup {r.name}) /\ IsFiniteSet(Names \ {r.name})
  BY <1>1, FS_Union, FS_Difference
<1> QED BY <1>2, DoneIs

LEMMA SendRequestInv == StoreInv /\ SendRequest => StoreInv'
<1> SUFFICES ASSUME StoreInv, SendRequest PROVE StoreInv'
  OBVIOUS
<1>1. /\ todo # <<>> /\ blobs' = Done(todo[1]) /\ todo' = Tail(todo)
      /\ UNCHANGED <<expired, calls, turns>> /\ ShapeInv
  BY TailIs DEF SendRequest, StoreInv
<1>2. /\ Len(todo) > 1 => UNCHANGED <<adapter, adding, kept>>
      /\ Len(todo) = 1 => adapter' = "open" /\ kept' = kept \cup adding /\ adding' = {}
      /\ Len(todo) \in Nat \ {0} /\ (Len(todo) > 1 \/ Len(todo) = 1)
  <2>1. Len(todo) \in Nat \ {0}
    BY <1>1, TailIs
  <2> DEFINE L == Len(todo)
  <2>0. L \in Nat /\ L # 0
    BY <2>1
  <2> HIDE DEF L
  <2>2. (L > 1 \/ L = 1) /\ (L > 1 => L # 1)
    BY <2>0
  <2> USE DEF L
  <2>3. CASE Len(todo) > 1
    <3>1. Len(todo) # 1
      BY <2>2, <2>3
    <3>2. UNCHANGED <<adapter, adding, kept>>
      BY <3>1 DEF SendRequest
    <3> QED BY <2>1, <2>3, <3>1, <3>2
  <2>4. CASE Len(todo) = 1
    <3>1. ~(Len(todo) > 1)
      BY <2>4
    <3>2. Returned
      BY <3>1 DEF SendRequest
    <3> QED BY <2>1, <2>4, <3>1, <3>2 DEF Returned
  <2> QED BY <2>2, <2>3, <2>4
<1>3. todo' \in Seq(Requests) /\ Len(todo') = Len(todo) - 1
      /\ \A i \in 1 .. Len(todo) - 1 : todo'[i] = todo[i + 1]
  BY <1>1, TailIs
<1>4. ShapeInv'
  <2>1. \A b \in Names' : b \in Name /\ blobs'[b] \in Content /\ (b.marker => blobs'[b] = <<>>)
    BY <1>1, DoneShape DEF Names
  <2>2. \A n \in 1 .. Len(todo') : todo'[n].name.marker => todo'[n].content = <<>>
    <3> SUFFICES ASSUME NEW n \in 1 .. Len(todo') 
                 PROVE todo'[n].name.marker => todo'[n].content = <<>>
      OBVIOUS
    <3>1. n + 1 \in 1 .. Len(todo) /\ todo'[n] = todo[n + 1]
      BY <1>2, <1>3
    <3> QED BY <1>1, <3>1 DEF ShapeInv
  <2>3. adding \subseteq {calls} /\ adding \subseteq 1 .. MaxCalls /\ kept \subseteq 1 .. calls
        /\ calls \in 0 .. MaxCalls
    BY <1>1 DEF StoreInv, OperationInv, ShapeInv
  <2>4. kept' \subseteq 1 .. calls /\ adding' \subseteq 1 .. MaxCalls
    <3>1. adding \subseteq 1 .. calls
      BY <2>3
    <3> QED BY <1>2, <2>3, <3>1
  <2>5. adapter' \in {"none", "opening", "open", "closed"}
    BY <1>1, <1>2 DEF ShapeInv
  <2>6. IsFiniteSet(Names')
    BY <1>1, DoneFinite DEF Names
  <2> QED BY <1>1, <1>3, <2>1, <2>2, <2>4, <2>5, <2>6 DEF ShapeInv
<1>5. OperationInv'
  <2>1. CASE Len(todo) = 1
    <3>1. todo' = <<>>
      BY <1>3, <2>1
    <3> QED BY <1>2, <2>1, <3>1 DEF OperationInv
  <2>2. CASE Len(todo) > 1
    <3>1. todo' # <<>>
      BY <1>3, <2>2
    <3> QED BY <1>1, <1>2, <2>2, <3>1 DEF StoreInv, OperationInv
  <2> QED BY <1>2, <2>1, <2>2
<1>6. TreeInv' /\ ScaffoldInv'
  <2>1. Names' \cup Puts(todo)' \subseteq Names \cup Puts(todo)
    BY <1>1, NamesShrink
  <2> QED BY <1>1, <2>1, TreeShrinks DEF StoreInv
<1>7. StoredInv'
  <2>1. ASSUME NEW k, Held(k) PROVE Held(k)'
    BY <1>1, <2>1, HeldMovesOn
  <2>2. ASSUME NEW k, Coming(k) PROVE Coming(k)'
    BY <1>1, <2>2, HeldMovesOn
  <2>3. (\A k \in kept : Held(k)) /\ (\A k \in adding : Coming(k))
    BY DEF StoreInv, StoredInv
  <2>4. CASE Len(todo) > 1
    BY <1>2, <2>1, <2>2, <2>3, <2>4 DEF StoredInv
  <2>5. CASE Len(todo) = 1
    <3>1. ASSUME NEW k, Coming(k)' PROVE Held(k)'
      <4>1. 1 .. Len(todo') = {}
        BY <1>3, <2>5
      <4> QED BY <3>1, <4>1 DEF Coming
    <3> QED BY <1>2, <2>1, <2>2, <2>3, <2>5, <3>1 DEF StoredInv
  <2> QED BY <1>2, <2>4, <2>5
<1> QED BY <1>4, <1>5, <1>6, <1>7 DEF StoreInv

\* An operation is cut: what it kept is stored, whether its request was done or not.
LEMMA CutInv ==
    ASSUME StoreInv, Cut, UNCHANGED <<calls, turns, kept>>, expired' \in BOOLEAN
    PROVE  StoreInv'
<1>1. /\ todo # <<>> /\ todo' = <<>> /\ adding' = {}
      /\ blobs' \in {blobs, Done(todo[1])} /\ adapter' \in {adapter, "closed"}
  BY TailIs DEF Cut, StoreInv
<1>2. Len(todo') = 0 /\ todo' \in Seq(Requests) /\ 1 .. Len(todo') = {} /\ Puts(todo)' = {}
  BY <1>1 DEF Puts
<1>3. Names' \subseteq Names \cup Puts(todo)
  BY <1>1, DoneNames DEF Names, StoreInv
<1>4. ShapeInv'
  <2>1. \A b \in Names' : b \in Name /\ blobs'[b] \in Content /\ (b.marker => blobs'[b] = <<>>)
    <3>1. CASE blobs' = blobs
      BY <3>1 DEF StoreInv, ShapeInv, Names
    <3>2. CASE blobs' = Done(todo[1])
      BY <1>1, <3>2, DoneShape DEF StoreInv, Names
    <3> QED BY <1>1, <3>1, <3>2
  <2>2. adapter' \in {"none", "opening", "open", "closed"}
    BY <1>1 DEF StoreInv, ShapeInv
  <2>3. IsFiniteSet(Names')
    <3>1. ShapeInv
      BY DEF StoreInv
    <3>2. IsFiniteSet(DOMAIN Done(todo[1])) /\ IsFiniteSet(Names)
      BY <3>1, DoneFinite DEF ShapeInv
    <3>3. Names' = Names \/ Names' = DOMAIN Done(todo[1])
      BY <1>1 DEF Names
    <3> QED BY <3>2, <3>3
  <2> QED BY <1>1, <1>2, <2>1, <2>2, <2>3 DEF StoreInv, ShapeInv
<1>5. OperationInv'
  BY <1>1 DEF OperationInv
<1>6. TreeInv' /\ ScaffoldInv'
  BY <1>2, <1>3, TreeShrinks DEF StoreInv
<1>7. StoredInv'
  <2>1. ASSUME NEW k \in kept PROVE Held(k)'
    <3>1. Held(k)
      BY DEF StoreInv, StoredInv
    <3>2. \E b \in Names' : k \in ToSet(blobs'[b])
      <4>1. CASE blobs' = blobs
        BY <3>1, <4>1 DEF Held, Survives, Names
      <4>2. CASE blobs' = Done(todo[1])
        BY <1>1, <3>1, <4>2, StaysHeld DEF StoreInv, HeldOn, Names
      <4> QED BY <1>1, <4>1, <4>2
    <3> QED BY <1>2, <3>2 DEF Held, Survives, Spared
  <2> QED BY <1>1, <2>1 DEF StoredInv
<1> QED BY <1>4, <1>5, <1>6, <1>7 DEF StoreInv

LEMMA CloseFilesInv == StoreInv /\ CloseFiles => StoreInv'
<1> SUFFICES ASSUME StoreInv, CloseFiles PROVE StoreInv'
  OBVIOUS
<1>1. /\ UNCHANGED <<blobs, expired, todo, adding, calls, turns, kept>>
      /\ todo = <<>> /\ adapter' = "closed"
  BY DEF CloseFiles
<1>2. ShapeInv'
  BY <1>1 DEF StoreInv, ShapeInv, Names
<1>3. OperationInv'
  BY <1>1 DEF StoreInv, OperationInv
<1>4. TreeInv' /\ ScaffoldInv' /\ StoredInv'
  BY <1>1 DEF StoreInv, TreeInv, ScaffoldInv, StoredInv, Held,
     Survives, Coming, Stores, Spared, Names, Puts
<1> QED BY <1>2, <1>3, <1>4 DEF StoreInv

LEMMA ExpireInv == StoreInv /\ Expire => StoreInv'
<1> SUFFICES ASSUME StoreInv, Expire PROVE StoreInv'
  OBVIOUS
<1>1. expired' = TRUE /\ UNCHANGED <<calls, turns, kept>>
  BY DEF Expire
<1>2. CASE Cut
  BY <1>1, <1>2, CutInv
<1>3. CASE todo = <<>> /\ UNCHANGED <<blobs, todo, adding, adapter>>
  <2>1. ShapeInv'
    BY <1>1, <1>3 DEF StoreInv, ShapeInv, Names
  <2>2. OperationInv'
    BY <1>1, <1>3 DEF StoreInv, OperationInv
  <2>3. TreeInv' /\ ScaffoldInv' /\ StoredInv'
    BY <1>1, <1>3 DEF StoreInv, TreeInv, ScaffoldInv, StoredInv, Held,
       Survives, Coming, Stores, Spared, Names, Puts
  <2> QED BY <2>1, <2>2, <2>3 DEF StoreInv
<1> QED BY <1>2, <1>3 DEF Expire

-----------------------------------------------------------------------------
(* Directories. *)

\* The markers that mkdir may touch on its way to p.
Touched(p) == {Touch(First(p, n)) : n \in 0 .. Len(p)}

Makes(f, p, m) ==
    f = [n \in 0 .. m |->
           IF IsDirectory(SubSeq(p, 1, n)) THEN <<>>
           ELSE IF n = 0 THEN <<Touch(SubSeq(p, 1, n))>>
           ELSE f[n - 1] \o <<Touch(SubSeq(p, 1, n)), Touch(Parent(SubSeq(p, 1, n)))>>]

LEMMA MakeExists ==
    ASSUME NEW p, NEW m \in Nat PROVE \E f : Makes(f, p, m)
<1> DEFINE Own(n) == Touch(SubSeq(p, 1, n))
           Both(n) == <<Touch(SubSeq(p, 1, n)), Touch(Parent(SubSeq(p, 1, n)))>>
           Is(n) == IsDirectory(SubSeq(p, 1, n))
           Made(f, l) == f = [n \in 0 .. l |-> IF Is(n) THEN <<>> ELSE IF n = 0 THEN <<Own(n)>>
                                               ELSE f[n - 1] \o Both(n)]
           Stuck == {n \in Nat : ~\E f : Made(f, n)}
<1>0. ASSUME NEW f, Made(f, m) PROVE Makes(f, p, m)
  BY <1>0 DEF Makes
<1> HIDE DEF Own, Both, Is
<1> SUFFICES ASSUME Stuck # {} PROVE FALSE
  <2>1. Stuck = {} => \E f : Made(f, m)
    OBVIOUS
  <2> QED BY <1>0, <2>1
<1>1. PICK n \in Stuck : \A l \in Stuck : ~(l < n)
  BY LeastNumber
<1>2. CASE n = 0
  <2> DEFINE f == [l \in 0 .. 0 |-> IF Is(0) THEN <<>> ELSE <<Own(0)>>]
  <2>1. \A l \in 0 .. 0 : f[l] = IF Is(l) THEN <<>> ELSE IF l = 0 THEN <<Own(l)>>
                                 ELSE f[l - 1] \o Both(l)
    OBVIOUS
  <2>2. f = [l \in 0 .. 0 |-> f[l]]
    OBVIOUS
  <2> HIDE DEF f
  <2>3. Made(f, 0)
    BY <2>1, <2>2
  <2> QED BY <1>1, <1>2, <2>3
<1>3. CASE n # 0
  <2>1. n \in Nat /\ n - 1 \in Nat /\ n - 1 < n
    BY <1>1, <1>3
  <2>2. PICK g : Made(g, n - 1)
    BY <1>1, <2>1
  <2> DEFINE f == [l \in 0 .. n |->
                     IF l < n THEN g[l] ELSE IF Is(n) THEN <<>> ELSE g[n - 1] \o Both(n)]
  <2>3. ASSUME NEW i \in 0 .. n
        PROVE  f[i] = IF Is(i) THEN <<>> ELSE IF i = 0 THEN <<Own(i)>> ELSE f[i - 1] \o Both(i)
    <3>1. CASE i = n
      <4>1. i - 1 \in 0 .. n /\ i - 1 < n /\ ~(i < n) /\ i # 0
        BY <1>3, <2>1, <3>1
      <4> QED BY <3>1, <4>1
    <3>2. CASE i # n
      <4>1. i \in 0 .. n - 1 /\ i < n /\ (i # 0 => i - 1 \in 0 .. n /\ i - 1 < n)
        BY <2>1, <3>2
      <4>2. g[i] = IF Is(i) THEN <<>> ELSE IF i = 0 THEN <<Own(i)>> ELSE g[i - 1] \o Both(i)
        BY <2>2, <4>1
      <4> QED BY <4>1, <4>2
    <3> QED BY <3>1, <3>2
  <2>4. f = [i \in 0 .. n |-> f[i]]
    OBVIOUS
  <2> HIDE DEF f
  <2>5. Made(f, n)
    BY <2>3, <2>4
  <2> QED BY <1>1, <2>5
<1> QED BY <1>2, <1>3

LEMMA MadeIs ==
    ASSUME NEW p \in Path PROVE MakeDirectory(p) \in Seq(Touched(p))
<1> DEFINE L == Len(p)
           make == CHOOSE f : Makes(f, p, L)
           Wrong == {n \in Nat : n \in 0 .. L /\ make[n] \notin Seq(Touched(p))}
<1>1. L \in Nat
  BY DEF Path
<1>2. Makes(make, p, L)
  BY <1>1, MakeExists
<1>3. MakeDirectory(p) = make[L]
  BY DEF MakeDirectory, Makes
<1> HIDE DEF make
<1>4. ASSUME Wrong # {} PROVE FALSE
  <2>1. PICK n \in Wrong : \A l \in Wrong : ~(l < n)
    BY <1>4, LeastNumber
  <2>2. make[n] = IF IsDirectory(SubSeq(p, 1, n)) THEN <<>>
                  ELSE IF n = 0 THEN <<Touch(SubSeq(p, 1, n))>>
                  ELSE make[n - 1] \o <<Touch(SubSeq(p, 1, n)), Touch(Parent(SubSeq(p, 1, n)))>>
    BY <1>2, <2>1 DEF Makes
  <2>3. Touch(SubSeq(p, 1, n)) \in Touched(p)
    BY <2>1 DEF Touched, First
  <2>0. make[n] \notin Seq(Touched(p)) /\ n \in Nat
    BY <2>1
  <2> DEFINE own == Touch(SubSeq(p, 1, n))
             T == Touched(p)
             s == make[n]
  <2>4. CASE n = 0
    <3>1. s = IF IsDirectory(SubSeq(p, 1, n)) THEN <<>> ELSE <<own>>
      BY <2>2, <2>4
    <3>2. own \in T /\ s \notin Seq(T)
      BY <2>0, <2>3
    <3> HIDE DEF own, T, s
    <3>3. <<own>> \in Seq(T) /\ <<>> \in Seq(T)
      BY <3>2
    <3> QED BY <3>1, <3>2, <3>3
  <2>5. CASE n # 0
    <3>1. n - 1 \in 0 .. L /\ n - 1 < n /\ n - 1 \in Nat /\ n \in 0 .. L
      BY <1>1, <2>1, <2>5
    <3>2. make[n - 1] \in Seq(Touched(p))
      BY <2>1, <3>1
    <3>3. Parent(SubSeq(p, 1, n)) = First(p, n - 1)
      <4>1. First(p, n) \in Path /\ Len(First(p, n)) = n /\ IsPrefix(First(p, n), p)
        BY <3>1, FirstNames
      <4>2. First(p, n) # <<>>
        BY <2>5, <4>1
      <4>3. /\ Parent(First(p, n)) \in Path /\ Len(Parent(First(p, n))) = n - 1
            /\ IsPrefix(Parent(First(p, n)), First(p, n))
        BY <4>1, <4>2, ParentIs
      <4>4. IsPrefix(Parent(First(p, n)), p)
        BY <4>1, <4>3, PrefixOrder
      <4> QED BY <3>1, <4>3, <4>4, FirstNames DEF First
    <3>4. Touch(Parent(SubSeq(p, 1, n))) \in Touched(p)
      BY <3>1, <3>3 DEF Touched
    <3> DEFINE r == make[n - 1]
               above == Touch(Parent(SubSeq(p, 1, n)))
    <3>5. s = IF IsDirectory(SubSeq(p, 1, n)) THEN <<>> ELSE r \o <<own, above>>
      BY <2>2, <2>5
    <3>6. own \in T /\ above \in T /\ r \in Seq(T) /\ s \notin Seq(T)
      BY <2>0, <2>3, <3>2, <3>4
    <3> HIDE DEF own, above, T, r, s
    <3>7. <<own, above>> \in Seq(T) /\ <<>> \in Seq(T)
      BY <3>6
    <3>8. r \o <<own, above>> \in Seq(T)
      BY <3>6, <3>7, ConcatProperties
    <3> QED BY <3>5, <3>6, <3>7, <3>8
  <2> QED BY <2>4, <2>5
<1>5. L \in 0 .. L /\ L \notin Wrong
  BY <1>1, <1>4
<1> QED BY <1>1, <1>3, <1>5

LEMMA FailInv == StoreInv /\ Fail => StoreInv'
<1> SUFFICES ASSUME StoreInv, Fail PROVE StoreInv'
  OBVIOUS
<1>1. Cut /\ UNCHANGED <<calls, turns, kept>> /\ expired' \in BOOLEAN
  BY DEF Fail, StoreInv, ShapeInv
<1> QED BY <1>1, CutInv

LEMMA FilesStart == FilesInit => StoreInv
<1> SUFFICES ASSUME FilesInit PROVE StoreInv
  OBVIOUS
<1>1. /\ Names = {} /\ todo = <<>> /\ adapter = "none" /\ expired = FALSE /\ adding = {}
      /\ calls = 0 /\ turns = 0 /\ kept = {}
  BY DEF FilesInit, Names
<1>2. Len(todo) = 0 /\ todo \in Seq(Requests) /\ 1 .. Len(todo) = {} /\ Puts(todo) = {}
  BY <1>1 DEF Puts
<1>3. ShapeInv
  <2>1. calls \in 0 .. MaxCalls /\ turns \in 0 .. MaxTurns
    BY <1>1, FilesAssumption
  <2>2. adapter \in {"none", "opening", "open", "closed"} /\ expired \in BOOLEAN
    BY <1>1
  <2>3. kept \subseteq 1 .. calls /\ adding \subseteq 1 .. MaxCalls
    BY <1>1
  <2>4. \A n \in 1 .. Len(todo) : todo[n].name.marker => todo[n].content = <<>>
    BY <1>2
  <2>5. IsFiniteSet(Names)
    BY <1>1, FS_EmptySet
  <2> QED BY <1>1, <1>2, <2>1, <2>2, <2>3, <2>4, <2>5 DEF ShapeInv
<1>4. OperationInv
  BY <1>1 DEF OperationInv
<1>5. TreeInv /\ ScaffoldInv /\ StoredInv
  BY <1>1, <1>2 DEF TreeInv, WellFormed, ScaffoldInv, StoredInv
<1> QED BY <1>3, <1>4, <1>5 DEF StoreInv

\* Requests that a running operation may have.
Sound(s) == s \in Seq(Requests) /\ \A n \in 1 .. Len(s) : s[n].name.marker => s[n].content = <<>>

\* Files hold everything: a marker is never where something is stored.
LEMMA HolderIsFile ==
    ASSUME ShapeInv, NEW b \in Names, NEW k \in ToSet(blobs[b])
    PROVE  b \in Name /\ ~b.marker /\ b = File(b.path) /\ blobs[b] \in Content
<1>1. b \in Name /\ blobs[b] \in Content /\ (b.marker => blobs[b] = <<>>)
  BY DEF ShapeInv
<1>2. ToSet(<<>>) = {}
  BY DEF ToSet
<1>3. ~b.marker
  BY <1>1, <1>2
<1> QED BY <1>1, <1>3, NameIs

\* Touching directories costs no file its content.
LEMMA TouchSpares ==
    ASSUME NEW b, ~b.marker, NEW s, NEW k, NEW i, NEW j,
           \A n \in i .. j : s[n].name.marker
    PROVE  Spared(s, b, k, i, j)
BY DEF Spared

\* What opening a session touches: the root and the workspace.
LEMMA WorkspaceIs ==
    /\ Workspace \in Path /\ <<>> \in Path /\ Workspace # <<>>
    /\ Touched(Workspace) = {Touch(<<>>), Touch(Workspace)}
    /\ Touched(<<>>) = {Touch(<<>>)}
<1>1. Workspace \in Path /\ <<>> \in Path /\ Len(Workspace) = 1 /\ Len(<<>>) = 0
  BY FilesAssumption DEF Path
<1>2. 0 \in 0 .. Len(Workspace) /\ 1 \in 0 .. Len(Workspace)
  BY <1>1
<1>3. First(Workspace, 0) = <<>>
  <2>1. Len(First(Workspace, 0)) = 0 /\ First(Workspace, 0) \in Path
    BY <1>1, <1>2, FirstNames
  <2> QED BY <2>1 DEF Path
<1>4. First(Workspace, 1) = Workspace
  <2>1. IsPrefix(Workspace, Workspace)
    BY <1>1, PrefixOrder
  <2> QED BY <1>1, <1>2, <2>1, FirstNames
<1>5. First(<<>>, 0) = <<>>
  <2>1. Len(First(<<>>, 0)) = 0 /\ First(<<>>, 0) \in Path
    BY <1>1, FirstNames
  <2> QED BY <2>1 DEF Path
<1>6. 0 .. Len(Workspace) = {0, 1} /\ 0 .. Len(<<>>) = {0}
  BY <1>1
<1>7. Touched(Workspace) = {Touch(<<>>), Touch(Workspace)}
  BY <1>3, <1>4, <1>6 DEF Touched
<1>8. Touched(<<>>) = {Touch(<<>>)}
  BY <1>5, <1>6 DEF Touched
<1> QED BY <1>1, <1>7, <1>8

\* A touch is a request that stores nothing.
LEMMA TouchIs ==
    ASSUME NEW p \in Path
    PROVE  /\ Touch(p) \in Requests /\ Touch(p).put /\ Touch(p).name = Marker(p)
           /\ Touch(p).content = <<>> /\ Touch(p).name.marker
<1>1. <<>> \in Content
  BY DEF Content
<1> QED BY <1>1, NamesAre, RequestsAre DEF Touch

LEMMA TouchesAre ==
    ASSUME NEW P \in SUBSET Path, NEW s \in Seq({Touch(q) : q \in P})
    PROVE  /\ Sound(s) /\ Puts(s) \subseteq {Marker(q) : q \in P}
           /\ \A n \in 1 .. Len(s) : s[n].put /\ s[n].name.marker
<1>1. Len(s) \in Nat /\ \A n \in 1 .. Len(s) : s[n] \in {Touch(q) : q \in P}
  OBVIOUS
<1>2. \A n \in 1 .. Len(s) : \E q \in P : s[n] = Touch(q)
  BY <1>1
<1>3. \A n \in 1 .. Len(s) :
        s[n] \in Requests /\ s[n].put /\ s[n].name.marker /\ s[n].content = <<>>
  BY <1>2, TouchIs
<1>4. s \in Seq(Requests)
  <2>1. {Touch(q) : q \in P} \subseteq Requests
    BY TouchIs
  <2> QED BY <2>1
<1>5. Puts(s) \subseteq {Marker(q) : q \in P}
  BY <1>2, TouchIs DEF Puts
<1> QED BY <1>3, <1>4, <1>5 DEF Sound

\* No file is above p or at its place.
Clear(p) == \A r \in Path \ {<<>>} : IsPrefix(r, p) => ~IsFile(r)

LEMMA ClearIs ==
    ASSUME NEW p \in Path, ParentsChecked(p)
    PROVE  /\ ~IsFile(p) => Clear(p)
           /\ p # <<>> => Clear(Parent(p))
<1>1. ASSUME NEW r \in Path \ {<<>>}, IsPrefix(r, p), Len(r) < Len(p) PROVE ~IsFile(r)
  BY <1>1, AboveIs DEF ParentsChecked
<1>2. ASSUME ~IsFile(p), NEW r \in Path \ {<<>>}, IsPrefix(r, p) PROVE ~IsFile(r)
  <2>1. Len(r) \in Nat /\ Len(p) \in Nat
    BY DEF Path
  <2>2. CASE Len(p) <= Len(r)
    BY <1>2, <2>2, PathEqual
  <2>3. CASE Len(r) < Len(p)
    BY <1>1, <1>2, <2>3
  <2> QED BY <2>1, <2>2, <2>3
<1>3. ASSUME p # <<>>, NEW r \in Path \ {<<>>}, IsPrefix(r, Parent(p)) PROVE ~IsFile(r)
  <2>1. Parent(p) \in Path /\ Len(Parent(p)) = Len(p) - 1 /\ IsPrefix(Parent(p), p)
    BY <1>3, ParentIs
  <2>2. IsPrefix(r, p) /\ Len(r) <= Len(p) - 1
    BY <1>3, <2>1, PrefixOrder
  <2>3. Len(r) < Len(p)
    BY <2>2 DEF Path
  <2> QED BY <1>1, <1>3, <2>2, <2>3
<1> QED BY <1>2, <1>3 DEF Clear

LEMMA ClearBelow ==
    ASSUME NEW p \in Path, Clear(p), NEW q \in Path, IsPrefix(q, p) PROVE Clear(q)
BY PrefixOrder DEF Clear

\* Markers fit where no file is in their way.
LEMMA MarkersFit ==
    ASSUME NEW N \in SUBSET Name, WellFormed(N), NEW P \in SUBSET Path,
           \A b \in N, q \in P : ~b.marker => ~IsPrefix(b.path, q)
    PROVE  WellFormed(N \cup {Marker(q) : q \in P})
<1> DEFINE M == {Marker(q) : q \in P}
<1>1. ASSUME NEW b \in N \cup M, ~b.marker PROVE b \in N
  BY <1>1, NamesAre
<1>2. ASSUME NEW b \in N, ~b.marker, NEW c \in N \cup M, IsPrefix(b.path, c.path)
      PROVE  c \in N
  <2>1. CASE c \in M
    <3>1. PICK q \in P : c = Marker(q)
      BY <2>1
    <3>2. c.path = q
      BY <3>1, NamesAre
    <3> QED BY <1>2, <3>2
  <2> QED BY <2>1
<1> QED BY <1>1, <1>2 DEF WellFormed

LEMMA ClearFits ==
    ASSUME ShapeInv, WellFormed(Names), NEW P \in SUBSET Path, \A q \in P : Clear(q)
    PROVE  WellFormed(Names \cup {Marker(q) : q \in P})
<1>1. Names \in SUBSET Name
  BY DEF ShapeInv
<1>2. ASSUME NEW b \in Names, NEW q \in P, ~b.marker, IsPrefix(b.path, q) PROVE FALSE
  <2>1. b \in Name /\ b.path \in Path /\ b = File(b.path)
    BY <1>1, <1>2, NameIs
  <2>2. b.path # <<>>
    BY <1>2 DEF WellFormed
  <2> QED BY <1>2, <2>1, <2>2 DEF Clear, IsFile
<1> QED BY <1>1, <1>2, MarkersFit

LEMMA OpenInv == StoreInv /\ Open => StoreInv'
<1> SUFFICES ASSUME StoreInv, Open PROVE StoreInv'
  OBVIOUS
<1>1. /\ turns < MaxTurns /\ turns' = turns + 1 /\ expired' = FALSE
      /\ UNCHANGED <<blobs, adding, calls, kept>>
      /\ ShapeInv /\ OperationInv /\ TreeInv /\ ScaffoldInv /\ StoredInv
  BY DEF Open, StoreInv
<1>2. todo = <<>>
  BY <1>1 DEF Open, OperationInv
<1>3. Names' = Names /\ Len(todo) = 0 /\ Puts(todo) = {}
  BY <1>1, <1>2 DEF Names, Puts
<1>4. todo' \in Seq({Touch(q) : q \in {<<>>, Workspace}})
      /\ (IsFile(Workspace) => todo' = <<>>)
  <2>1. {Touch(q) : q \in {<<>>, Workspace}} = Touched(Workspace)
    BY WorkspaceIs
  <2>2. MakeDirectory(Workspace) \in Seq(Touched(Workspace))
    BY WorkspaceIs, MadeIs
  <2>3. CASE IsFile(Workspace)
    <3>1. todo' = <<>>
      BY <2>3 DEF Open
    <3> QED BY <3>1
  <2>4. CASE ~IsFile(Workspace)
    <3>1. todo' = MakeDirectory(Workspace)
      BY <2>4 DEF Open
    <3> QED BY <2>1, <2>2, <2>4, <3>1
  <2> QED BY <2>3, <2>4
<1>5. PICK s : s = todo'
  OBVIOUS
<1>6. /\ Sound(s) /\ Puts(s) \subseteq {Marker(q) : q \in {<<>>, Workspace}}
      /\ \A n \in 1 .. Len(s) : s[n].put /\ s[n].name.marker
      /\ (IsFile(Workspace) => Puts(s) = {})
  <2>1. {<<>>, Workspace} \in SUBSET Path
    BY WorkspaceIs
  <2>2. IsFile(Workspace) => Len(s) = 0
    BY <1>4, <1>5
  <2>3. IsFile(Workspace) => Puts(s) = {}
    BY <2>2 DEF Puts
  <2> DEFINE P == {<<>>, Workspace}
  <2>4. s \in Seq({Touch(q) : q \in P}) /\ P \in SUBSET Path
    BY <1>4, <1>5, <2>1
  <2> HIDE DEF P
  <2>5. /\ Sound(s) /\ Puts(s) \subseteq {Marker(q) : q \in P}
        /\ \A n \in 1 .. Len(s) : s[n].put /\ s[n].name.marker
    BY <2>4, TouchesAre
  <2> QED BY <2>3, <2>5 DEF P
<1>7. adapter' \in {"opening", "open", "closed"} /\ (adapter' = "closed" => todo' = <<>>)
  <2>1. CASE IsFile(Workspace)
    BY <1>4, <2>1 DEF Open
  <2>2. CASE ~IsFile(Workspace)
    BY <2>2 DEF Open
  <2> QED BY <2>1, <2>2
<1>8. ShapeInv'
  <2>1. turns' \in 0 .. MaxTurns
    BY <1>1, FilesAssumption DEF ShapeInv
  <2>2. \A b \in Names' : b \in Name /\ blobs'[b] \in Content /\ (b.marker => blobs'[b] = <<>>)
    BY <1>1, <1>3 DEF ShapeInv
  <2>3. /\ todo' \in Seq(Requests)
        /\ \A n \in 1 .. Len(todo') : todo'[n].name.marker => todo'[n].content = <<>>
    BY <1>5, <1>6 DEF Sound
  <2>4. adding' \subseteq 1 .. MaxCalls /\ kept' \subseteq 1 .. calls' /\ calls' \in 0 .. MaxCalls
    BY <1>1 DEF ShapeInv
  <2>5. IsFiniteSet(Names')
    BY <1>1, <1>3 DEF ShapeInv
  <2> QED BY <1>1, <1>7, <2>1, <2>2, <2>3, <2>4, <2>5 DEF ShapeInv
<1>9. OperationInv'
  BY <1>1, <1>2, <1>7 DEF OperationInv
<1>10. WellFormed(Names \cup Puts(s))
  <2>1. WellFormed(Names)
    BY <1>1, <1>3 DEF TreeInv
  <2>2. CASE IsFile(Workspace)
    BY <1>6, <2>1, <2>2
  <2>3. CASE ~IsFile(Workspace)
    <3>1. Ancestors(Workspace) = {}
      <4>1. Len(Workspace) = 1
        BY FilesAssumption
      <4> QED BY <4>1 DEF Ancestors
    <3>2. Clear(Workspace)
      BY <2>3, <3>1, ClearIs, WorkspaceIs DEF ParentsChecked
    <3>3. IsPrefix(<<>>, Workspace)
      BY WorkspaceIs, PrefixIs
    <3>4. Clear(<<>>)
      BY <3>2, <3>3, WorkspaceIs, ClearBelow
    <3>5. {<<>>, Workspace} \in SUBSET Path
      BY WorkspaceIs
    <3>6. WellFormed(Names \cup {Marker(q) : q \in {<<>>, Workspace}})
      BY <1>1, <2>1, <3>2, <3>4, <3>5, ClearFits
    <3> QED BY <1>6, <3>6, WellFormedPart
  <2> QED BY <2>2, <2>3
<1>11. TreeInv'
  BY <1>3, <1>5, <1>10 DEF TreeInv, WellFormed, Puts
<1>12. ScaffoldInv'
  <2>1. Puts(s) \subseteq {Marker(<<>>), Marker(Workspace)}
    BY <1>6
  <2>2. calls = 0 => Names \cup Puts(s) \subseteq {Marker(<<>>), Marker(Workspace)}
    BY <1>1, <2>1 DEF ScaffoldInv
  <2> QED BY <1>1, <1>3, <1>5, <2>2 DEF ScaffoldInv, Puts, Marker
<1>13. StoredInv'
  <2>1. ASSUME NEW k \in kept PROVE Held(k)'
    <3>1. PICK b \in Names : k \in ToSet(blobs[b])
      BY <1>1 DEF StoredInv, Held
    <3>2. Spared(s, b, k, 1, Len(s))
      BY <1>1, <1>6, <3>1, HolderIsFile, TouchSpares
    <3>3. Survives(todo, b, k)'
      BY <1>5, <3>2 DEF Survives, Spared
    <3> QED BY <1>1, <1>3, <3>1, <3>3 DEF Held
  <2>2. adding' = {}
    BY <1>1, <1>2 DEF OperationInv
  <2> QED BY <1>1, <2>1, <2>2 DEF StoredInv
<1> QED BY <1>8, <1>9, <1>11, <1>12, <1>13 DEF StoreInv

\* An operation begins: what it says it will send leaves the tree well formed
\* and costs nothing but what it overwrites.
LEMMA BeginInv ==
    ASSUME StoreInv, Ready, NEW s, Sound(s), NEW over, NEW added \in SUBSET {calls + 1},
           Begin(s, over, added), WellFormed(Names \cup Puts(s)),
           \A b \in Names \ over : \A k \in ToSet(blobs[b]) : Survives(s, b, k),
           \A k \in added : \E n \in 1 .. Len(s) : Stores(s, n, k)
    PROVE  StoreInv'
<1>1. /\ s # <<>> /\ calls' = calls + 1 /\ todo' = s /\ adding' = added
      /\ kept' = kept \ Released(over \cap Names)
      /\ UNCHANGED <<blobs, adapter, expired, turns>>
  BY DEF Begin
<1>2. /\ adapter = "open" /\ todo = <<>> /\ calls < MaxCalls
      /\ ShapeInv /\ OperationInv /\ TreeInv /\ ScaffoldInv /\ StoredInv
  BY DEF Ready, StoreInv
<1>3. Names' = Names
  BY <1>1 DEF Names
<1>4. ShapeInv'
  <2>1. calls' \in 1 .. MaxCalls /\ 1 .. calls \subseteq 1 .. calls' /\ calls + 1 \in 1 .. MaxCalls
    BY <1>1, <1>2, FilesAssumption DEF ShapeInv
  <2>2. adding' \subseteq 1 .. MaxCalls /\ kept' \subseteq 1 .. calls'
    BY <1>1, <1>2, <2>1 DEF ShapeInv
  <2>3. \A b \in Names' : b \in Name /\ blobs'[b] \in Content /\ (b.marker => blobs'[b] = <<>>)
    BY <1>1, <1>2, <1>3 DEF ShapeInv
  <2>4. /\ todo' \in Seq(Requests)
        /\ \A n \in 1 .. Len(todo') : todo'[n].name.marker => todo'[n].content = <<>>
    BY <1>1 DEF Sound
  <2>5. /\ adapter' \in {"none", "opening", "open", "closed"} /\ expired' \in BOOLEAN
        /\ turns' \in 0 .. MaxTurns /\ calls' \in 0 .. MaxCalls
    BY <1>1, <1>2, <2>1 DEF ShapeInv
  <2>6. IsFiniteSet(Names')
    BY <1>2, <1>3 DEF ShapeInv
  <2> QED BY <2>2, <2>3, <2>4, <2>5, <2>6 DEF ShapeInv
<1>5. OperationInv'
  BY <1>1, <1>2 DEF OperationInv
<1>6. TreeInv'
  BY <1>1, <1>3 DEF TreeInv, WellFormed, Puts
<1>7. ScaffoldInv'
  <2>1. calls' # 0
    BY <1>1, <1>2 DEF ShapeInv
  <2> QED BY <2>1 DEF ScaffoldInv
<1>8. ASSUME NEW k \in kept' PROVE Held(k)'
  <2>1. PICK b \in Names : k \in ToSet(blobs[b])
    BY <1>1, <1>2, <1>8 DEF StoredInv, Held
  <2>2. \E c \in Names \ over : k \in ToSet(blobs[c])
    <3>1. CASE k \in Contents(over \cap Names)
      <4>1. k \in Contents(Names \ (over \cap Names))
        BY <1>1, <1>8, <3>1 DEF Released
      <4> QED BY <4>1 DEF Contents
    <3>2. CASE k \notin Contents(over \cap Names)
      BY <2>1, <3>2 DEF Contents
    <3> QED BY <3>1, <3>2
  <2>3. PICK c \in Names : k \in ToSet(blobs[c]) /\ Survives(s, c, k)
    BY <2>2
  <2>4. Survives(todo, c, k)'
    BY <1>1, <2>3 DEF Survives, Stores, Spared
  <2> QED BY <1>1, <1>3, <2>3, <2>4 DEF Held
<1>9. ASSUME NEW k \in adding' PROVE Coming(k)'
  BY <1>1, <1>9 DEF Coming, Stores, Spared
<1>10. StoredInv'
  BY <1>8, <1>9 DEF StoredInv
<1> QED BY <1>4, <1>5, <1>6, <1>7, <1>10 DEF StoreInv

\* A request between others.
Between(s, x, t) == (s \o <<x>>) \o t

LEMMA BetweenIs ==
    ASSUME NEW R, NEW T \in SUBSET R, NEW s \in Seq(T), NEW t \in Seq(T), NEW x \in R
    PROVE  /\ Between(s, x, t) \in Seq(R)
           /\ Len(s) + 1 \in 1 .. Len(Between(s, x, t))
           /\ Between(s, x, t)[Len(s) + 1] = x
           /\ \A n \in 1 .. Len(Between(s, x, t)) \ {Len(s) + 1} : Between(s, x, t)[n] \in T
<1> DEFINE u == s \o <<x>>
           w == u \o t
<1>1. s \in Seq(R) /\ t \in Seq(R) /\ <<x>> \in Seq(R) /\ Len(<<x>>) = 1 /\ <<x>>[1] = x
  OBVIOUS
<1>2. /\ Len(s) \in Nat /\ \A n \in 1 .. Len(s) : s[n] \in T
      /\ Len(t) \in Nat /\ \A n \in 1 .. Len(t) : t[n] \in T
  OBVIOUS
<1>3. /\ u \in Seq(R) /\ Len(u) = Len(s) + 1
      /\ \A n \in 1 .. Len(s) + 1 : u[n] = IF n <= Len(s) THEN s[n] ELSE <<x>>[n - Len(s)]
  <2> QED BY <1>1, ConcatProperties
<1> HIDE DEF u
<1>4. /\ w \in Seq(R) /\ Len(w) = Len(u) + Len(t)
      /\ \A n \in 1 .. Len(u) + Len(t) : w[n] = IF n <= Len(u) THEN u[n] ELSE t[n - Len(u)]
  <2>1. t \in Seq(R) /\ u \in Seq(R)
    BY <1>1, <1>3
  <2> QED BY <2>1, ConcatProperties
<1> HIDE DEF w
<1>5. Len(s) + 1 \in 1 .. Len(w) /\ w[Len(s) + 1] = x
  <2>1. Len(s) + 1 \in 1 .. Len(u) + Len(t) /\ Len(s) + 1 <= Len(u) /\ Len(s) + 1 - Len(s) = 1
        /\ ~(Len(s) + 1 <= Len(s)) /\ Len(s) + 1 \in 1 .. Len(s) + 1
    BY <1>2, <1>3
  <2> QED BY <1>1, <1>3, <1>4, <2>1
<1>6. ASSUME NEW n \in 1 .. Len(w), n # Len(s) + 1 PROVE w[n] \in T
  <2>1. CASE n <= Len(s)
    <3>1. n \in 1 .. Len(s) /\ n <= Len(u) /\ n \in 1 .. Len(s) + 1 /\ n \in 1 .. Len(u) + Len(t)
      BY <1>2, <1>3, <1>4, <2>1
    <3> QED BY <1>2, <1>3, <1>4, <2>1, <3>1
  <2>2. CASE n > Len(s) + 1
    <3>1. /\ ~(n <= Len(u)) /\ n - Len(u) \in 1 .. Len(t)
          /\ n \in 1 .. Len(u) + Len(t)
      BY <1>2, <1>3, <1>4, <2>2
    <3> QED BY <1>2, <1>4, <3>1
  <2> QED BY <1>2, <1>6, <2>1, <2>2
<1>7. Between(s, x, t) = w
  BY DEF Between, w, u
<1> QED BY <1>4, <1>5, <1>6, <1>7

\* What is above a path or at its place.
Upper(p) == {q \in Path : IsPrefix(q, p)}

LEMMA UpperIs ==
    ASSUME NEW p \in Path
    PROVE  /\ p \in Upper(p) /\ Upper(p) \in SUBSET Path
           /\ Touched(p) \subseteq {Touch(q) : q \in Upper(p)}
           /\ MakeDirectory(p) \in Seq({Touch(q) : q \in Upper(p)})
           /\ Clear(p) => \A q \in Upper(p) : Clear(q)
<1>1. p \in Upper(p) /\ Upper(p) \in SUBSET Path
  BY PrefixOrder DEF Upper
<1>2. Touched(p) \subseteq {Touch(q) : q \in Upper(p)}
  BY FirstNames DEF Touched, Upper
<1>3. MakeDirectory(p) \in Seq({Touch(q) : q \in Upper(p)})
  <2>1. MakeDirectory(p) \in Seq(Touched(p))
    BY MadeIs
  <2> DEFINE T == {Touch(q) : q \in Upper(p)}
             U == Touched(p)
  <2>2. U \subseteq T
    BY <1>2
  <2>3. Seq(U) \subseteq Seq(T)
    <3> HIDE DEF T, U
    <3> QED BY <2>2
  <2> QED BY <2>1, <2>3
<1>4. Clear(p) => \A q \in Upper(p) : Clear(q)
  BY ClearBelow DEF Upper
<1> QED BY <1>1, <1>2, <1>3, <1>4

\* A file is written, and directories above it are touched.
LEMMA WriteIs ==
    ASSUME NEW p \in Path, p # <<>>, NEW c \in Content
    PROVE  /\ Sound(WriteRequests(p, c))
           /\ \E i \in 1 .. Len(WriteRequests(p, c)) :
                /\ WriteRequests(p, c)[i] = Put(File(p), c)
                /\ \A n \in 1 .. Len(WriteRequests(p, c)) \ {i} :
                     WriteRequests(p, c)[n] \in {Touch(q) : q \in Upper(Parent(p))}
<1> DEFINE above == Parent(p)
           T == {Touch(q) : q \in Upper(above)}
           x == Put(File(p), c)
           make == MakeDirectory(above)
           last == IF IsFile(p) THEN <<>> ELSE <<Touch(above)>>
           s == WriteRequests(p, c)
<1>1. above \in Path /\ Upper(above) \in SUBSET Path /\ above \in Upper(above) /\ make \in Seq(T)
  <2>1. above \in Path
    BY ParentIs
  <2> HIDE DEF above
  <2> QED BY <2>1, UpperIs
<1>2. last \in Seq(T)
  <2>1. Touch(above) \in T
    BY <1>1
  <2> HIDE DEF T
  <2> QED BY <2>1
<1>3. s = Between(make, x, last)
  BY DEF WriteRequests, Between
<1>4. \A r \in T : r \in Requests /\ r.put /\ r.name.marker /\ r.content = <<>>
  <2> HIDE DEF above
  <2> QED BY <1>1, TouchIs
<1>5. x \in Requests /\ x.name = File(p) /\ ~x.name.marker
  BY NamesAre, RequestsAre
<1> HIDE DEF T, x, make, last, s, above
<1>6. /\ s \in Seq(Requests) /\ Len(make) + 1 \in 1 .. Len(s) /\ s[Len(make) + 1] = x
      /\ \A n \in 1 .. Len(s) \ {Len(make) + 1} : s[n] \in T
  <2>1. make \in Seq(T) /\ last \in Seq(T) /\ T \in SUBSET Requests /\ x \in Requests
    BY <1>1, <1>2, <1>4, <1>5
  <2>2. /\ Between(make, x, last) \in Seq(Requests)
        /\ Len(make) + 1 \in 1 .. Len(Between(make, x, last))
        /\ Between(make, x, last)[Len(make) + 1] = x
        /\ \A n \in 1 .. Len(Between(make, x, last)) \ {Len(make) + 1} :
             Between(make, x, last)[n] \in T
    BY <2>1, BetweenIs
  <2> QED BY <1>3, <2>2
<1>7. Sound(s)
  <2>2. s \in Seq(Requests)
    BY <1>6
  <2>3. ASSUME NEW n \in 1 .. Len(s), s[n].name.marker PROVE s[n].content = <<>>
    <3>1. CASE n = Len(make) + 1
      BY <1>5, <1>6, <2>3, <3>1
    <3>2. CASE n # Len(make) + 1
      BY <1>4, <1>6, <3>2
    <3> QED BY <3>1, <3>2
  <2> QED BY <2>2, <2>3 DEF Sound
<1> QED BY <1>6, <1>7 DEF T, x, s, above

\* No file is in the way of what a write leaves.
LEMMA WriteFits ==
    ASSUME ShapeInv, WellFormed(Names), NEW p \in Path, Writable(p), NEW M \in SUBSET Path,
           M = Upper(Parent(p))
    PROVE  WellFormed(Names \cup {Marker(q) : q \in M} \cup {File(p)})
<1> DEFINE N == Names \cup {Marker(q) : q \in M}
<1>1. p # <<>> /\ ParentsChecked(p) /\ ~IsDirectory(p)
  BY DEF Writable
<1>2. Parent(p) \in Path /\ Len(Parent(p)) = Len(p) - 1 /\ Len(p) \in Nat
  BY <1>1, ParentIs DEF Path
<1>3. \A q \in M : Clear(q) /\ Len(q) < Len(p)
  <2>1. Clear(Parent(p))
    BY <1>1, ClearIs
  <2>2. \A q \in M : Clear(q)
    BY <1>2, <2>1, UpperIs
  <2>3. ASSUME NEW q \in M PROVE Len(q) < Len(p)
    <3>1. q \in Path /\ Len(q) <= Len(Parent(p)) /\ Len(q) \in Nat
      BY <1>2, PrefixOrder DEF Upper, Path
    <3> QED BY <1>2, <3>1
  <2> QED BY <2>2, <2>3
<1>4. WellFormed(N)
  BY <1>3, ClearFits
<1>5. File(p).path = p /\ ~File(p).marker
  BY NamesAre
<1>6. ASSUME NEW b \in N, ~b.marker, IsPrefix(b.path, p) PROVE b.path = p
  <2>1. b \in Names /\ b \in Name
    BY <1>6, NamesAre DEF ShapeInv
  <2>2. b = File(b.path) /\ b.path \in Path
    BY <1>6, <2>1, NameIs
  <2>3. b.path # <<>>
    BY <1>6, <2>1 DEF WellFormed
  <2>4. ~(Len(b.path) < Len(p))
    <3> SUFFICES ASSUME Len(b.path) < Len(p) PROVE FALSE
      OBVIOUS
    <3>1. b.path \in Ancestors(p)
      BY <1>6, <2>2, <2>3, AboveIs
    <3> QED BY <1>1, <2>1, <2>2, <3>1 DEF ParentsChecked, IsFile
  <2>5. Len(p) <= Len(b.path)
    BY <1>2, <2>2, <2>4 DEF Path
  <2> QED BY <1>6, <2>2, <2>5, PathEqual
<1>7. ASSUME NEW c \in N, IsPrefix(p, c.path) PROVE c.path = p /\ ~c.marker
  <2>1. CASE c \in Names
    <3>1. CASE IsFile(p)
      BY <1>5, <1>7, <2>1, <3>1 DEF WellFormed, IsFile
    <3>2. CASE ~IsFile(p)
      <4>1. Under(p) = {}
        BY <1>1, <3>2 DEF IsDirectory
      <4>2. c \notin Under(p)
        BY <4>1
      <4> QED BY <1>7, <2>1, <4>2 DEF Under
    <3> QED BY <3>1, <3>2
  <2>2. ASSUME NEW q \in M, c = Marker(q) PROVE FALSE
    <3>1. IsPrefix(p, q) /\ Len(q) < Len(p) /\ Len(q) \in Nat
      BY <1>3, <1>7, <2>2, NamesAre DEF Path
    <3>2. Len(p) <= Len(q)
      BY <3>1, PrefixOrder
    <3> QED BY <1>2, <3>1, <3>2
  <2> QED BY <2>1, <2>2
<1> DEFINE all == N \cup {File(p)}
<1>8. ASSUME NEW b \in all, ~b.marker
      PROVE  /\ b.path # <<>>
             /\ \A c \in all : IsPrefix(b.path, c.path) => c.path = b.path /\ ~c.marker
  <2>1. CASE b \in N
    <3>1. b.path # <<>> /\ \A c \in N : IsPrefix(b.path, c.path) => c.path = b.path /\ ~c.marker
      BY <1>4, <1>8, <2>1 DEF WellFormed
    <3> QED BY <1>5, <1>6, <1>8, <2>1, <3>1
  <2>2. CASE b = File(p)
    BY <1>1, <1>5, <1>7, <2>2
  <2> QED BY <2>1, <2>2
<1> QED BY <1>8 DEF WellFormed

\* A write or an append: the file's content goes in one request.
LEMMA WriteInv ==
    ASSUME StoreInv, Ready, NEW p \in Path, Writable(p), NEW c \in Content,
           calls + 1 \in ToSet(c), NEW over,
           File(p) \in Names \ over => ToSet(blobs[File(p)]) \subseteq ToSet(c),
           Begin(WriteRequests(p, c), over, {calls + 1})
    PROVE  StoreInv'
<1> DEFINE s == WriteRequests(p, c)
           M == Upper(Parent(p))
<1>1. p # <<>> /\ Parent(p) \in Path /\ M \in SUBSET Path
  BY ParentIs DEF Writable, Upper
<1>2. Sound(s) /\ \E i \in 1 .. Len(s) :
        s[i] = Put(File(p), c) /\ \A n \in 1 .. Len(s) \ {i} : s[n] \in {Touch(q) : q \in M}
  BY <1>1, WriteIs
<1>3. Begin(s, over, {calls + 1})
  OBVIOUS
<1>m. M = Upper(Parent(p))
  OBVIOUS
<1> HIDE DEF s, M
<1>4. PICK i \in 1 .. Len(s) :
        s[i] = Put(File(p), c) /\ \A n \in 1 .. Len(s) \ {i} : s[n] \in {Touch(q) : q \in M}
  BY <1>2
<1>5. s[i].put /\ s[i].name = File(p) /\ s[i].content = c /\ ~File(p).marker
  BY <1>4, NamesAre, RequestsAre
<1>6. \A n \in 1 .. Len(s) \ {i} : s[n].name.marker /\ s[n].name \in {Marker(q) : q \in M}
  <2> TAKE n \in 1 .. Len(s) \ {i}
  <2>1. PICK q \in M : s[n] = Touch(q)
    BY <1>4
  <2>2. q \in Path
    BY <1>1
  <2>3. Touch(q).name = Marker(q) /\ Touch(q).name.marker
    BY <2>2, TouchIs
  <2> QED BY <2>1, <2>3
<1>7. WellFormed(Names \cup Puts(s))
  <2>1. ShapeInv /\ WellFormed(Names)
    BY WellFormedPart DEF StoreInv, TreeInv
  <2>2. WellFormed(Names \cup {Marker(q) : q \in M} \cup {File(p)})
    BY <1>1, <1>m, <2>1, WriteFits
  <2>3. Puts(s) \subseteq {Marker(q) : q \in M} \cup {File(p)}
    BY <1>5, <1>6 DEF Puts
  <2> QED BY <2>2, <2>3, WellFormedPart
<1>8. ASSUME NEW b \in Names \ over, NEW k \in ToSet(blobs[b]) PROVE Survives(s, b, k)
  <2>1. ~b.marker
    BY <1>8, HolderIsFile DEF StoreInv
  <2>2. ASSUME NEW n \in 1 .. Len(s), s[n].name = b
        PROVE  s[n].put /\ k \in ToSet(s[n].content)
    <3>1. n = i
      BY <1>6, <2>1, <2>2
    <3> QED BY <1>5, <1>8, <2>2, <3>1
  <2> QED BY <2>2 DEF Survives, Spared
<1>9. Stores(s, i, calls + 1)
  <2>1. \A n \in i + 1 .. Len(s) : s[n].name.marker
    BY <1>4, <1>6
  <2> QED BY <1>5, <2>1 DEF Stores, Spared
<1>10. /\ {calls + 1} \in SUBSET {calls + 1}
       /\ \A k \in {calls + 1} : \E n \in 1 .. Len(s) : Stores(s, n, k)
  BY <1>4, <1>9
<1> QED BY <1>2, <1>3, <1>7, <1>8, <1>10, BeginInv

LEMMA WriteFileInv ==
    ASSUME StoreInv, Ready, NEW p \in Path, WriteFile(p) PROVE StoreInv'
<1>1. calls + 1 \in 1 .. MaxCalls
  BY FilesAssumption DEF Ready, StoreInv, ShapeInv
<1> DEFINE c == <<calls + 1>>
<1>2. c \in Content /\ calls + 1 \in ToSet(c)
  BY <1>1 DEF Content, ToSet
<1>3. Writable(p) /\ Begin(WriteRequests(p, c), {File(p)}, {calls + 1})
  BY DEF WriteFile
<1> HIDE DEF c
<1> QED BY <1>2, <1>3, WriteInv

LEMMA AppendFileInv ==
    ASSUME StoreInv, Ready, NEW p \in Path, AppendFile(p) PROVE StoreInv'
<1>1. calls + 1 \in 1 .. MaxCalls
  BY FilesAssumption DEF Ready, StoreInv, ShapeInv
<1> DEFINE old == IF IsFile(p) THEN blobs[File(p)] ELSE <<>>
           c == Appended(p)
<1>2. old \in Content
  <2>1. CASE IsFile(p)
    BY <2>1 DEF IsFile, StoreInv, ShapeInv
  <2>2. CASE ~IsFile(p)
    BY <2>2 DEF Content
  <2> QED BY <2>1, <2>2
<1>3. c = Append(old, calls + 1)
  BY DEF Appended
<1> HIDE DEF old, c
<1>4. /\ c \in Content /\ Len(c) = Len(old) + 1 /\ c[Len(old) + 1] = calls + 1
      /\ \A n \in 1 .. Len(old) : c[n] = old[n]
  BY <1>1, <1>2, <1>3, AppendProperties DEF Content
<1>5. DOMAIN c = 1 .. Len(c) /\ DOMAIN old = 1 .. Len(old) /\ Len(old) \in Nat
  BY <1>2, <1>4 DEF Content
<1>6. calls + 1 \in ToSet(c)
  <2>1. Len(old) + 1 \in DOMAIN c
    BY <1>4, <1>5
  <2> QED BY <1>4, <2>1 DEF ToSet
<1>7. ToSet(old) \subseteq ToSet(c)
  <2>1. ASSUME NEW n \in DOMAIN old PROVE n \in DOMAIN c /\ c[n] = old[n]
    BY <1>4, <1>5, <2>1
  <2> QED BY <2>1 DEF ToSet
<1>8. File(p) \in Names \ {} => ToSet(blobs[File(p)]) \subseteq ToSet(c)
  BY <1>7 DEF old, IsFile
<1>9. Writable(p) /\ Begin(WriteRequests(p, c), {}, {calls + 1})
  BY DEF AppendFile, c
<1> QED BY <1>4, <1>6, <1>8, <1>9, WriteInv

\* Directories are touched below no file.
LEMMA TouchesInv ==
    ASSUME StoreInv, Ready, NEW M \in SUBSET Path, \A q \in M : Clear(q),
           NEW s \in Seq({Touch(q) : q \in M}), Begin(s, {}, {})
    PROVE  StoreInv'
<1>1. /\ Sound(s) /\ Puts(s) \subseteq {Marker(q) : q \in M}
      /\ \A n \in 1 .. Len(s) : s[n].put /\ s[n].name.marker
  BY TouchesAre
<1>2. WellFormed(Names \cup Puts(s))
  <2>1. ShapeInv /\ WellFormed(Names)
    BY WellFormedPart DEF StoreInv, TreeInv
  <2>2. WellFormed(Names \cup {Marker(q) : q \in M})
    BY <2>1, ClearFits
  <2>3. Names \cup Puts(s) \subseteq Names \cup {Marker(q) : q \in M}
    BY <1>1
  <2> QED BY <2>2, <2>3, WellFormedPart
<1>3. ASSUME NEW b \in Names \ {}, NEW k \in ToSet(blobs[b]) PROVE Survives(s, b, k)
  <2>1. ~b.marker
    BY <1>3, HolderIsFile DEF StoreInv
  <2> QED BY <1>1, <2>1, TouchSpares DEF Survives
<1>4. {} \in SUBSET {calls + 1} /\ \A k \in {} : \E n \in 1 .. Len(s) : Stores(s, n, k)
  OBVIOUS
<1> QED BY <1>1, <1>2, <1>3, <1>4, BeginInv

LEMMA MkdirInv ==
    ASSUME StoreInv, Ready, NEW p \in Path, Mkdir(p) PROVE StoreInv'
<1>1. Clear(p) /\ ~Exists(p)
  BY ClearIs DEF Mkdir, Exists
<1>2. Upper(p) \in SUBSET Path /\ p \in Upper(p) /\ \A q \in Upper(p) : Clear(q)
  BY <1>1, UpperIs
<1> DEFINE M == Upper(p)
<1>3. CASE Begin(MakeDirectory(p), {}, {})
  <2>1. MakeDirectory(p) \in Seq({Touch(q) : q \in M})
    BY UpperIs
  <2> HIDE DEF M
  <2> QED BY <1>2, <1>3, <2>1, TouchesInv DEF M
<1>4. CASE IsDirectory(Parent(p)) /\ Begin(<<Touch(p), Touch(Parent(p))>>, {}, {})
  <2>1. p # <<>>
    <3>1. Parent(<<>>) = <<>>
      <4>1. Len(<<>>) - 1 \in Int /\ 1 \in Int /\ Len(<<>>) - 1 < 1
        OBVIOUS
      <4> QED BY <4>1, SubSeqEmpty DEF Parent
    <3> QED BY <1>1, <1>4, <3>1 DEF IsDirectory, Exists
  <2>2. Parent(p) \in M
    BY <2>1, ParentIs DEF Upper
  <2> DEFINE s == <<Touch(p), Touch(Parent(p))>>
             T == {Touch(q) : q \in M}
  <2>3. s \in Seq(T)
    <3>1. Touch(p) \in T /\ Touch(Parent(p)) \in T
      BY <1>2, <2>2
    <3> HIDE DEF T
    <3> QED BY <3>1
  <2>4. Begin(s, {}, {})
    BY <1>4
  <2> HIDE DEF M, s
  <2> QED BY <1>2, <2>3, <2>4, TouchesInv DEF M
<1> QED BY <1>3, <1>4 DEF Mkdir

\* What an operation is about is there and finite, and listing gives its names.
LEMMA ListingIs ==
    ASSUME ShapeInv, NEW p, NEW order \in Listings(Meant(p))
    PROVE  order \in Seq(Meant(p)) /\ Meant(p) \in SUBSET Names
<1>1. Meant(p) \in SUBSET Names
  BY DEF Meant, IsFile, Under
<1>2. IsFiniteSet(Meant(p))
  BY <1>1, FS_Subset DEF ShapeInv
<1>3. Cardinality(Meant(p)) \in Nat
  BY <1>2, FS_CardinalityType
<1>4. order \in [1 .. Cardinality(Meant(p)) -> Meant(p)]
  BY DEF Listings
<1> QED BY <1>1, <1>3, <1>4

LEMMA RmInv ==
    ASSUME StoreInv, Ready, NEW p \in Path, NEW recursive, Rm(p, recursive) PROVE StoreInv'
<1>1. p # <<>> /\ ParentsChecked(p)
  BY DEF Rm
<1>2. PICK order \in Listings(Meant(p)) : Begin(RemoveRequests(order, p), Meant(p), {})
  BY DEF Rm
<1>3. ShapeInv /\ WellFormed(Names)
  BY WellFormedPart DEF StoreInv, TreeInv
<1>4. order \in Seq(Meant(p)) /\ Meant(p) \in SUBSET Names
  BY <1>3, ListingIs
<1>5. Parent(p) \in Path /\ Clear(Parent(p))
  BY <1>1, ParentIs, ClearIs
<1> DEFINE deletes == [i \in DOMAIN order |-> Delete(order[i])]
           last == <<Touch(Parent(p))>>
           s == deletes \o last
<1>6. /\ Len(order) \in Nat /\ DOMAIN order = 1 .. Len(order)
      /\ \A i \in 1 .. Len(order) : order[i] \in Meant(p)
  BY <1>4
<1>7. \A i \in 1 .. Len(order) : order[i] \in Name
  BY <1>3, <1>4, <1>6 DEF ShapeInv
<1>8. \A i \in 1 .. Len(order) :
        /\ Delete(order[i]) \in Requests /\ ~Delete(order[i]).put
        /\ Delete(order[i]).name = order[i] /\ Delete(order[i]).content = <<>>
  <2>1. <<>> \in Content
    BY DEF Content
  <2> QED BY <1>7, <2>1, RequestsAre
<1>9. deletes \in Seq(Requests) /\ Len(deletes) = Len(order)
      /\ \A i \in 1 .. Len(order) : deletes[i] = Delete(order[i])
  <2>1. \A i \in 1 .. Len(order) : deletes[i] = Delete(order[i])
    BY <1>6
  <2>2. deletes \in [1 .. Len(order) -> Requests]
    BY <1>6, <1>8
  <2> HIDE DEF deletes
  <2>3. deletes \in Seq(Requests)
    BY <1>6, <2>2
  <2> QED BY <1>6, <2>1, <2>2, <2>3
<1>10. last \in Seq(Requests) /\ Len(last) = 1 /\ last[1] = Touch(Parent(p))
  BY <1>5, TouchIs
<1>11. Begin(s, Meant(p), {})
  BY <1>2 DEF RemoveRequests
<1> HIDE DEF deletes, last
<1>12. /\ s \in Seq(Requests) /\ Len(s) = Len(deletes) + Len(last)
       /\ \A n \in 1 .. Len(deletes) + Len(last) :
            s[n] = IF n <= Len(deletes) THEN deletes[n] ELSE last[n - Len(deletes)]
  BY <1>9, <1>10, ConcatProperties
<1> HIDE DEF s
<1>13. ASSUME NEW n \in 1 .. Len(s)
       PROVE  \/ /\ ~s[n].put /\ s[n].name \in Meant(p) /\ s[n].content = <<>>
              \/ s[n] = Touch(Parent(p))
  <2>1. CASE n <= Len(order)
    <3>1. n \in 1 .. Len(order) /\ s[n] = Delete(order[n])
      BY <1>6, <1>9, <1>10, <1>12, <2>1
    <3> QED BY <1>6, <1>8, <3>1
  <2>2. CASE n > Len(order)
    <3>1. n = Len(order) + 1 /\ ~(n <= Len(deletes)) /\ n - Len(deletes) = 1
      BY <1>6, <1>9, <1>10, <1>12, <2>2
    <3> QED BY <1>10, <1>12, <3>1
  <2> QED BY <1>6, <2>1, <2>2
<1>14. Touch(Parent(p)).name = Marker(Parent(p)) /\ Touch(Parent(p)).content = <<>>
       /\ Touch(Parent(p)).name.marker
  BY <1>5, TouchIs
<1>15. Sound(s)
  BY <1>12, <1>13, <1>14 DEF Sound
<1>16. WellFormed(Names \cup Puts(s))
  <2> DEFINE M == {Parent(p)}
  <2>1. M \in SUBSET Path /\ \A q \in M : Clear(q)
    BY <1>5
  <2>2. Puts(s) \subseteq {Marker(q) : q \in M}
    BY <1>13, <1>14 DEF Puts
  <2> HIDE DEF M
  <2>3. WellFormed(Names \cup {Marker(q) : q \in M})
    BY <1>3, <2>1, ClearFits
  <2> QED BY <2>2, <2>3, WellFormedPart
<1>17. ASSUME NEW b \in Names \ Meant(p), NEW k \in ToSet(blobs[b]) PROVE Survives(s, b, k)
  <2>1. ~b.marker
    BY <1>3, <1>17, HolderIsFile
  <2>2. \A n \in 1 .. Len(s) : s[n].name # b
    BY <1>13, <1>14, <1>17, <2>1
  <2> QED BY <2>2 DEF Survives, Spared
<1>18. {} \in SUBSET {calls + 1} /\ \A k \in {} : \E n \in 1 .. Len(s) : Stores(s, n, k)
  OBVIOUS
<1> QED BY <1>11, <1>15, <1>16, <1>17, <1>18, BeginInv

\* Sequences put one behind the other.
Joins(f, seqs, m) == f = [i \in 1 .. m |-> IF i = 1 THEN seqs[i] ELSE f[i - 1] \o seqs[i]]

LEMMA JoinExists ==
    ASSUME NEW seqs, NEW m \in Nat PROVE \E f : Joins(f, seqs, m)
<1> DEFINE Stuck == {n \in Nat : ~\E f : Joins(f, seqs, n)}
<1> SUFFICES ASSUME Stuck # {} PROVE FALSE
  OBVIOUS
<1>1. PICK n \in Stuck : \A l \in Stuck : ~(l < n)
  BY LeastNumber
<1>2. CASE n = 0
  <2>1. Joins([i \in 1 .. 0 |-> seqs[1]], seqs, 0)
    BY DEF Joins
  <2> QED BY <1>1, <1>2, <2>1
<1>3. CASE n # 0
  <2>1. n \in Nat /\ n - 1 \in Nat /\ n - 1 < n
    BY <1>1, <1>3
  <2>2. PICK g : Joins(g, seqs, n - 1)
    BY <1>1, <2>1
  <2> DEFINE f == [i \in 1 .. n |->
                     IF i < n THEN g[i] ELSE IF n = 1 THEN seqs[n] ELSE g[n - 1] \o seqs[n]]
  <2>3. ASSUME NEW i \in 1 .. n PROVE f[i] = IF i = 1 THEN seqs[i] ELSE f[i - 1] \o seqs[i]
    <3>1. CASE i = n
      <4>1. i # 1 => i - 1 \in 1 .. n /\ i - 1 < n
        BY <2>1, <3>1
      <4> QED BY <3>1, <4>1
    <3>2. CASE i # n
      <4>1. i \in 1 .. n - 1 /\ i < n /\ (i # 1 => i - 1 \in 1 .. n /\ i - 1 < n)
        BY <2>1, <3>2
      <4>2. g[i] = IF i = 1 THEN seqs[i] ELSE g[i - 1] \o seqs[i]
        BY <2>2, <4>1 DEF Joins
      <4> QED BY <4>1, <4>2
    <3> QED BY <3>1, <3>2
  <2>4. f = [i \in 1 .. n |-> f[i]]
    OBVIOUS
  <2> HIDE DEF f
  <2>5. Joins(f, seqs, n)
    BY <2>3, <2>4 DEF Joins
  <2> QED BY <1>1, <2>5
<1> QED BY <1>2, <1>3

\* What holds of the parts and is kept by concatenation holds of the whole.
LEMMA FlattenedIs ==
    ASSUME NEW S, <<>> \in S, \A s, t \in S : s \o t \in S,
           NEW n \in Nat, NEW seqs \in [1 .. n -> S]
    PROVE  FlattenSeq(seqs) \in S
<1> DEFINE flatten == CHOOSE f : Joins(f, seqs, n)
           Wrong == {i \in Nat : i \in 1 .. n /\ flatten[i] \notin S}
<1>1. Len(seqs) = n
  OBVIOUS
<1>2. Joins(flatten, seqs, n)
  BY JoinExists
<1>3. ASSUME Wrong # {} PROVE FALSE
  <2>1. PICK i \in Wrong : \A l \in Wrong : ~(l < i)
    BY <1>3, LeastNumber
  <2> HIDE DEF flatten
  <2>2. flatten[i] = IF i = 1 THEN seqs[i] ELSE flatten[i - 1] \o seqs[i]
    BY <1>2, <2>1 DEF Joins
  <2>3. CASE i = 1
    BY <2>1, <2>2, <2>3
  <2>4. CASE i # 1
    <3>1. i - 1 \in 1 .. n /\ i - 1 < i /\ i - 1 \in Nat
      BY <2>1, <2>4
    <3>2. flatten[i - 1] \in S /\ seqs[i] \in S
      BY <2>1, <3>1
    <3>3. flatten[i - 1] \o seqs[i] \in S
      BY <3>2
    <3> QED BY <2>1, <2>2, <2>4, <3>3
  <2> QED BY <2>3, <2>4
<1>4. CASE n = 0
  <2>1. FlattenSeq(seqs) = seqs
    BY <1>1, <1>4 DEF FlattenSeq
  <2>2. seqs = <<>>
    BY <1>4
  <2> QED BY <2>1, <2>2
<1>5. CASE n # 0
  <2>1. FlattenSeq(seqs) = flatten[n]
    BY <1>1, <1>5 DEF FlattenSeq, Joins
  <2> HIDE DEF flatten
  <2>2. n \in 1 .. n /\ n \notin Wrong
    BY <1>3, <1>5
  <2> QED BY <2>1, <2>2
<1> QED BY <1>4, <1>5

-----------------------------------------------------------------------------
(* A rename. *)

\* The request that stores the copy of b.
Copied(b, src, dest) == Put(Moved(b, src, dest), blobs[b])

\* Request n touches a directory, stores a copy, or deletes what was copied before.
Copying(s, n, src, dest) ==
    \/ s[n] \in {Touch(Parent(src)), Touch(Parent(dest))}
    \/ \E b \in Meant(src) :
         \/ s[n] = Copied(b, src, dest)
         \/ s[n] = Delete(b) /\ \E m \in 1 .. n - 1 : s[m] = Copied(b, src, dest)

Copies(src, dest) ==
    {s \in Seq(Requests) : \A n \in 1 .. Len(s) : Copying(s, n, src, dest)}

LEMMA CopiesJoin ==
    ASSUME NEW src, NEW dest, NEW s \in Copies(src, dest), NEW t \in Copies(src, dest)
    PROVE  s \o t \in Copies(src, dest)
<1> DEFINE w == s \o t
<1>1. /\ s \in Seq(Requests) /\ Len(s) \in Nat /\ t \in Seq(Requests) /\ Len(t) \in Nat
      /\ \A n \in 1 .. Len(s) : Copying(s, n, src, dest)
      /\ \A n \in 1 .. Len(t) : Copying(t, n, src, dest)
  BY DEF Copies
<1>2. /\ w \in Seq(Requests) /\ Len(w) = Len(s) + Len(t)
      /\ \A n \in 1 .. Len(s) + Len(t) : w[n] = IF n <= Len(s) THEN s[n] ELSE t[n - Len(s)]
  BY <1>1, ConcatProperties
<1> HIDE DEF w
<1>3. /\ \A n \in 1 .. Len(s) : w[n] = s[n]
      /\ \A n \in 1 .. Len(t) : w[Len(s) + n] = t[n]
  <2>1. ASSUME NEW n \in 1 .. Len(s) PROVE w[n] = s[n]
    BY <1>1, <1>2
  <2>2. ASSUME NEW n \in 1 .. Len(t) PROVE w[Len(s) + n] = t[n]
    <3>1. Len(s) + n \in 1 .. Len(s) + Len(t) /\ ~(Len(s) + n <= Len(s)) /\ Len(s) + n - Len(s) = n
      BY <1>1
    <3> QED BY <1>2, <3>1
  <2> QED BY <2>1, <2>2
<1>4. ASSUME NEW n \in 1 .. Len(s) PROVE Copying(w, n, src, dest)
  <2>1. \A m \in 1 .. n - 1 : m \in 1 .. Len(s)
    BY <1>1
  <2> QED BY <1>1, <1>3, <2>1 DEF Copying
<1>5. ASSUME NEW n \in 1 .. Len(t) PROVE Copying(w, Len(s) + n, src, dest)
  <2>1. ASSUME NEW m \in 1 .. n - 1
        PROVE  Len(s) + m \in 1 .. Len(s) + n - 1 /\ w[Len(s) + m] = t[m]
    BY <1>1, <1>3
  <2>2. Copying(t, n, src, dest) /\ w[Len(s) + n] = t[n]
    BY <1>1, <1>3
  <2>3. CASE t[n] \in {Touch(Parent(src)), Touch(Parent(dest))}
    BY <2>2, <2>3 DEF Copying
  <2>4. ASSUME NEW b \in Meant(src), t[n] = Copied(b, src, dest)
        PROVE  Copying(w, Len(s) + n, src, dest)
    BY <2>2, <2>4 DEF Copying
  <2>5. ASSUME NEW b \in Meant(src), t[n] = Delete(b),
               NEW m \in 1 .. n - 1, t[m] = Copied(b, src, dest)
        PROVE  Copying(w, Len(s) + n, src, dest)
    <3>1. Len(s) + m \in 1 .. Len(s) + n - 1 /\ w[Len(s) + m] = Copied(b, src, dest)
      BY <2>1, <2>5
    <3>2. w[Len(s) + n] = Delete(b)
      BY <2>2, <2>5
    <3> QED BY <3>1, <3>2 DEF Copying
  <2> QED BY <2>2, <2>3, <2>4, <2>5 DEF Copying
<1>6. ASSUME NEW n \in 1 .. Len(w) PROVE Copying(w, n, src, dest)
  <2>1. CASE n <= Len(s)
    BY <1>1, <1>4, <2>1
  <2>2. CASE n > Len(s)
    <3>1. n - Len(s) \in 1 .. Len(t) /\ Len(s) + (n - Len(s)) = n
      BY <1>1, <1>2, <2>2
    <3> QED BY <1>5, <3>1
  <2> QED BY <1>1, <2>1, <2>2
<1> QED BY <1>2, <1>6 DEF Copies, w

\* What a rename asks of the tree.
Renamable(src, dest) ==
    /\ src # <<>> /\ dest # <<>> /\ src # dest
    /\ ParentsChecked(src) /\ Exists(src)
    /\ IsFile(src) \/ ~IsPrefix(src, dest)
    /\ ParentsChecked(Parent(dest)) /\ IsDirectory(Parent(dest))
    /\ Replaceable(src, dest)

LEMMA MeantIs ==
    ASSUME ShapeInv, NEW src \in Path, NEW b \in Meant(src)
    PROVE  /\ b \in Names /\ b \in Name /\ b.path \in Path /\ IsPrefix(src, b.path)
           /\ blobs[b] \in Content /\ (b.marker => blobs[b] = <<>>)
           /\ IsFile(src) => b = File(src)
           /\ ~IsFile(src) => b # File(src)
<1>1. CASE IsFile(src)
  <2>1. b = File(src)
    BY <1>1 DEF Meant
  <2> QED BY <1>1, <2>1, NamesAre, PrefixOrder DEF IsFile, ShapeInv
<1>2. CASE ~IsFile(src)
  <2>1. b \in Under(src)
    BY <1>2 DEF Meant
  <2>2. b \in Names /\ IsPrefix(src, b.path)
    BY <2>1 DEF Under
  <2> QED BY <1>2, <2>2, NameIs DEF ShapeInv, IsFile
<1> QED BY <1>1, <1>2

LEMMA MovedIs ==
    ASSUME ShapeInv, NEW src \in Path, NEW dest \in Path, NEW b \in Meant(src)
    PROVE  /\ Moved(b, src, dest) \in Name
           /\ Moved(b, src, dest).path = Shifted(src, dest, b.path)
           /\ Moved(b, src, dest).path \in Path
           /\ Moved(b, src, dest).marker = b.marker
           /\ IsPrefix(dest, Moved(b, src, dest).path)
           /\ Moved(b, src, dest).path = dest => b.path = src
           /\ b.path = src => Moved(b, src, dest).path = dest
<1>1. b \in Name /\ b.path \in Path /\ IsPrefix(src, b.path)
  BY MeantIs
<1>2. /\ Shifted(src, dest, b.path) \in Path
      /\ Len(Shifted(src, dest, b.path)) = Len(dest) + (Len(b.path) - Len(src))
      /\ IsPrefix(dest, Shifted(src, dest, b.path))
  BY <1>1, ShiftedIs
<1>3. /\ Moved(b, src, dest).path = Shifted(src, dest, b.path)
      /\ Moved(b, src, dest).marker = b.marker
      /\ Moved(b, src, dest) = [path |-> Shifted(src, dest, b.path), marker |-> b.marker]
  <2> DEFINE t == Shifted(src, dest, b.path)
  <2>1. Moved(b, src, dest) = [b EXCEPT !.path = t]
    BY DEF Moved, Shifted
  <2> HIDE DEF t
  <2>2. /\ [b EXCEPT !.path = t].path = t /\ [b EXCEPT !.path = t].marker = b.marker
        /\ [b EXCEPT !.path = t] = [path |-> t, marker |-> b.marker]
    BY <1>1 DEF Name
  <2> QED BY <2>1, <2>2 DEF t
<1>4. Moved(b, src, dest) \in Name
  BY <1>1, <1>2, <1>3 DEF Name, Path
<1>5. Len(dest) \in Nat /\ Len(src) \in Nat /\ Len(b.path) \in Nat
  BY <1>1 DEF Path
<1>6. ASSUME Shifted(src, dest, b.path) = dest PROVE b.path = src
  <2>1. Len(b.path) <= Len(src)
    BY <1>2, <1>5, <1>6
  <2> QED BY <1>1, <2>1, PathEqual
<1>7. ASSUME b.path = src PROVE Shifted(src, dest, b.path) = dest
  <2>1. Len(Shifted(src, dest, b.path)) <= Len(dest)
    BY <1>2, <1>5, <1>7
  <2> QED BY <1>2, <2>1, PathEqual
<1> QED BY <1>2, <1>3, <1>4, <1>6, <1>7

LEMMA CopiedIs ==
    ASSUME ShapeInv, NEW src \in Path, NEW dest \in Path, NEW b \in Meant(src)
    PROVE  /\ Copied(b, src, dest) \in Requests /\ Copied(b, src, dest).put
           /\ Copied(b, src, dest).name = Moved(b, src, dest)
           /\ Copied(b, src, dest).content = blobs[b]
           /\ Copied(b, src, dest).name.marker => Copied(b, src, dest).content = <<>>
           /\ Delete(b) \in Requests /\ ~Delete(b).put
           /\ Delete(b).name = b /\ Delete(b).content = <<>>
<1>1. Moved(b, src, dest) \in Name /\ Moved(b, src, dest).marker = b.marker
  BY MovedIs
<1>2. b \in Name /\ blobs[b] \in Content /\ (b.marker => blobs[b] = <<>>)
  BY MeantIs
<1> QED BY <1>1, <1>2, RequestsAre DEF Copied

\* The requests of a rename.
LEMMA RenameIs ==
    ASSUME ShapeInv, NEW src \in Path, src # <<>>, NEW dest \in Path, dest # <<>>,
           NEW order \in Seq(Meant(src))
    PROVE  RenameRequests(order, src, dest) \in Copies(src, dest)
<1> DEFINE S == Copies(src, dest)
           pairs == [i \in DOMAIN order |->
                       CopyDelete(order[i], Moved(order[i], src, dest))]
           last == <<Touch(Parent(src)), Touch(Parent(dest))>>
<1>1. <<>> \in S
  <2>1. <<>> \in Seq(Requests) /\ Len(<<>>) = 0
    OBVIOUS
  <2> QED BY <2>1 DEF Copies
<1>2. \A s, t \in S : s \o t \in S
  BY CopiesJoin
<1>3. Len(order) \in Nat /\ DOMAIN order = 1 .. Len(order)
      /\ \A i \in 1 .. Len(order) : order[i] \in Meant(src)
  OBVIOUS
<1>4. ASSUME NEW b \in Meant(src) PROVE CopyDelete(b, Moved(b, src, dest)) \in S
  <2> DEFINE put == Copied(b, src, dest)
             del == Delete(b)
             s == <<put, del>>
  <2>1. put \in Requests /\ del \in Requests
    BY CopiedIs
  <2>2. CopyDelete(b, Moved(b, src, dest)) = s
    BY DEF CopyDelete, Copied
  <2>3. put = Copied(b, src, dest) /\ del = Delete(b)
    OBVIOUS
  <2> HIDE DEF put, del
  <2>4. s \in Seq(Requests) /\ Len(s) = 2 /\ s[1] = put /\ s[2] = del
    BY <2>1
  <2> HIDE DEF s
  <2>5. Copying(s, 1, src, dest)
    BY <2>3, <2>4 DEF Copying
  <2>6. Copying(s, 2, src, dest)
    <3>1. 1 \in 1 .. 2 - 1
      OBVIOUS
    <3> QED BY <2>3, <2>4, <3>1 DEF Copying
  <2>7. \A n \in 1 .. Len(s) : n = 1 \/ n = 2
    BY <2>4
  <2> QED BY <2>2, <2>4, <2>5, <2>6, <2>7 DEF Copies
<1>5. last \in S
  <2> DEFINE a == Touch(Parent(src))
             c == Touch(Parent(dest))
  <2>1. a \in Requests /\ c \in Requests
    BY ParentIs, TouchIs
  <2>2. last = <<a, c>> /\ a = Touch(Parent(src)) /\ c = Touch(Parent(dest))
    OBVIOUS
  <2> HIDE DEF a, c, last
  <2>3. last \in Seq(Requests) /\ Len(last) = 2 /\ last[1] = a /\ last[2] = c
    BY <2>1, <2>2
  <2>4. \A n \in 1 .. Len(last) : n = 1 \/ n = 2
    BY <2>3
  <2>5. \A n \in 1 .. Len(last) : Copying(last, n, src, dest)
    BY <2>2, <2>3, <2>4 DEF Copying
  <2> QED BY <2>3, <2>5 DEF Copies
<1>6. pairs \in [1 .. Len(order) -> S]
  BY <1>3, <1>4
<1>7. RenameRequests(order, src, dest) = FlattenSeq(pairs) \o last
  BY DEF RenameRequests
<1> HIDE DEF pairs, last, S
<1>8. FlattenSeq(pairs) \in S
  BY <1>1, <1>2, <1>3, <1>6, FlattenedIs
<1> QED BY <1>2, <1>5, <1>7, <1>8 DEF S

-----------------------------------------------------------------------------
\* Neither end of a rename is inside the other, and nothing blocks the target.
LEMMA EndsApart ==
    ASSUME ShapeInv, WellFormed(Names), NEW src \in Path, NEW dest \in Path, Renamable(src, dest)
    PROVE  /\ ~IsPrefix(src, dest) /\ ~IsPrefix(dest, src)
           /\ Parent(src) \in Path /\ Parent(dest) \in Path
           /\ Clear(Parent(src)) /\ Clear(Parent(dest))
           /\ \A b \in Meant(src) : ~IsPrefix(dest, b.path)
           /\ \A t \in Path : IsPrefix(src, t) => ~IsPrefix(dest, t)
<1>1. /\ src # <<>> /\ dest # <<>> /\ src # dest /\ ParentsChecked(src) /\ Exists(src)
      /\ ParentsChecked(Parent(dest)) /\ IsDirectory(Parent(dest))
      /\ (IsFile(src) \/ ~IsPrefix(src, dest)) /\ Replaceable(src, dest)
  BY DEF Renamable
<1>2. /\ Parent(src) \in Path
      /\ Parent(dest) \in Path /\ Len(Parent(dest)) = Len(dest) - 1 /\ IsPrefix(Parent(dest), dest)
  BY <1>1, ParentIs
<1>3. Clear(Parent(src)) /\ Clear(Parent(dest))
  BY <1>1, <1>2, ClearIs DEF IsDirectory
<1>4. Len(src) \in Nat /\ Len(dest) \in Nat
  BY DEF Path
<1>5. ~IsPrefix(src, dest)
  <2> SUFFICES ASSUME IsPrefix(src, dest), IsFile(src) PROVE FALSE
    BY <1>1
  <2>1. ~(Len(dest) <= Len(src))
    BY <1>1, PathEqual
  <2>2. Len(src) <= Len(Parent(dest))
    BY <1>2, <1>4, <2>1
  <2>3. IsPrefix(src, Parent(dest))
    BY <1>2, <2>2, PrefixOrder
  <2> QED BY <1>1, <1>3, <2>3 DEF Clear
<1>6. ~IsPrefix(dest, src)
  <2> SUFFICES ASSUME IsPrefix(dest, src) PROVE FALSE
    OBVIOUS
  <2>1. ~(Len(src) <= Len(dest))
    BY <1>1, PathEqual
  <2>2. dest \in Ancestors(src)
    BY <1>1, <1>4, <2>1, AboveIs
  <2>3. ~IsFile(dest)
    BY <1>1, <2>2 DEF ParentsChecked
  <2>4. PICK b \in Names : IsPrefix(src, b.path) /\ b.path \in Path
    <3>1. CASE IsFile(src)
      BY <3>1, NamesAre, PrefixOrder DEF IsFile
    <3>2. CASE ~IsFile(src)
      <4>1. PICK b \in Under(src) : TRUE
        BY <1>1, <3>2 DEF Exists
      <4>2. b \in Meant(src)
        BY <3>2, <4>1 DEF Meant
      <4> QED BY <4>2, MeantIs
    <3> QED BY <3>1, <3>2
  <2>5. IsPrefix(dest, b.path)
    BY <2>4, PrefixOrder
  <2>6. b.path # dest
    <3>1. Len(src) <= Len(b.path)
      BY <2>4, PrefixOrder
    <3> QED BY <2>1, <3>1
  <2>7. b \in Under(dest)
    BY <2>4, <2>5, <2>6 DEF Under
  <2>8. b # Marker(dest)
    BY <2>6, NamesAre
  <2> QED BY <1>1, <2>3, <2>7, <2>8 DEF Replaceable, Exists, IsEmpty
<1>7. ASSUME NEW t \in Path, IsPrefix(src, t), IsPrefix(dest, t) PROVE FALSE
  <2>1. CASE Len(src) <= Len(dest)
    BY <1>5, <1>7, <2>1, PrefixOrder
  <2>2. CASE Len(dest) <= Len(src)
    BY <1>6, <1>7, <2>2, PrefixOrder
  <2> QED BY <1>4, <2>1, <2>2
<1>8. \A b \in Meant(src) : ~IsPrefix(dest, b.path)
  BY <1>7, MeantIs
<1> QED BY <1>2, <1>3, <1>5, <1>6, <1>7, <1>8

\* What is at the target is what the rename replaces.
LEMMA TargetIs ==
    ASSUME ShapeInv, WellFormed(Names), NEW src \in Path, NEW dest \in Path, Renamable(src, dest),
           NEW c \in Names, IsPrefix(dest, c.path)
    PROVE  \/ c = File(dest) /\ IsFile(src)
           \/ c = Marker(dest) /\ ~IsFile(src)
<1>1. Replaceable(src, dest)
  BY DEF Renamable
<1>2. c \in Name
  BY DEF ShapeInv
<1>3. CASE IsFile(dest)
  <2>1. c.path = dest /\ ~c.marker
    BY <1>3, NamesAre DEF WellFormed, IsFile
  <2>2. c = File(dest)
    BY <1>2, <2>1, NameIs
  <2> QED BY <1>1, <1>3, <2>2 DEF Replaceable, Exists
<1>4. CASE ~IsFile(dest)
  <2>1. c # File(dest)
    BY <1>4 DEF IsFile
  <2>2. c.path # dest \/ c.marker
    BY <1>2, <2>1, NameIs
  <2>3. c \in Under(dest)
    BY <2>2 DEF Under
  <2>4. ~IsFile(src) /\ IsEmpty(dest)
    BY <1>1, <1>4, <2>3 DEF Replaceable, Exists
  <2> QED BY <2>3, <2>4 DEF IsEmpty
<1> QED BY <1>3, <1>4

\* A copy has a name of its own.
LEMMA MovedApart ==
    ASSUME ShapeInv, NEW src \in Path, NEW dest \in Path,
           NEW b \in Meant(src), NEW c \in Meant(src)
    PROVE  /\ IsPrefix(Moved(b, src, dest).path, Moved(c, src, dest).path) =>
                IsPrefix(b.path, c.path)
           /\ Moved(b, src, dest) = Moved(c, src, dest) => b = c
<1>1. /\ b \in Name /\ b.path \in Path /\ IsPrefix(src, b.path)
      /\ c \in Name /\ c.path \in Path /\ IsPrefix(src, c.path)
  BY MeantIs
<1>2. /\ Moved(b, src, dest).path = Shifted(src, dest, b.path)
      /\ Moved(b, src, dest).marker = b.marker
      /\ Moved(c, src, dest).path = Shifted(src, dest, c.path)
      /\ Moved(c, src, dest).marker = c.marker
      /\ Shifted(src, dest, b.path) \in Path
  BY MovedIs
<1>3. ASSUME IsPrefix(Shifted(src, dest, b.path), Shifted(src, dest, c.path))
      PROVE  IsPrefix(b.path, c.path)
  BY <1>1, <1>3, ShiftedApart
<1>4. ASSUME IsPrefix(Shifted(src, dest, c.path), Shifted(src, dest, b.path))
      PROVE  IsPrefix(c.path, b.path)
  BY <1>1, <1>4, ShiftedApart
<1>5. ASSUME Moved(b, src, dest) = Moved(c, src, dest) PROVE b = c
  <2>1. Shifted(src, dest, b.path) = Shifted(src, dest, c.path) /\ b.marker = c.marker
    BY <1>2, <1>5
  <2>2. IsPrefix(Shifted(src, dest, b.path), Shifted(src, dest, b.path))
    BY <1>2, PrefixOrder
  <2>3. IsPrefix(b.path, c.path) /\ IsPrefix(c.path, b.path)
    BY <1>3, <1>4, <2>1, <2>2
  <2>4. Len(c.path) <= Len(b.path)
    BY <1>1, <2>3, PrefixOrder
  <2>5. b.path = c.path
    BY <1>1, <2>3, <2>4, PathEqual
  <2> QED BY <1>1, <2>1, <2>5 DEF Name
<1> QED BY <1>2, <1>3, <1>5

\* The copies fit beside what is there.
LEMMA CopiesFit ==
    ASSUME ShapeInv, WellFormed(Names), NEW src \in Path, NEW dest \in Path, Renamable(src, dest)
    PROVE  WellFormed(Names \cup {Moved(b, src, dest) : b \in Meant(src)})
<1> DEFINE mv(b) == Moved(b, src, dest)
           M == Meant(src)
           N == Names \cup {mv(b) : b \in M}
<1>1. /\ ~IsPrefix(src, dest) /\ ~IsPrefix(dest, src)
      /\ Parent(dest) \in Path /\ Clear(Parent(dest))
  BY EndsApart
<1>2. dest # <<>> /\ Len(Parent(dest)) = Len(dest) - 1 /\ IsPrefix(Parent(dest), dest)
      /\ Len(dest) \in Nat
  BY ParentIs DEF Renamable, Path
<1>3. \A b \in M : /\ b \in Names /\ b \in Name /\ b.path \in Path /\ b.marker \in BOOLEAN
                   /\ IsFile(src) => b = File(src)
                   /\ ~IsFile(src) => b # File(src)
  BY MeantIs, NameIs
<1>4. \A b \in M : /\ mv(b) \in Name /\ mv(b).path \in Path /\ mv(b).marker = b.marker
                   /\ mv(b).path = Shifted(src, dest, b.path)
                   /\ IsPrefix(dest, mv(b).path)
                   /\ mv(b).path = dest => b.path = src
                   /\ b.path = src => mv(b).path = dest
  BY MovedIs
<1>5. \A b, c \in M : IsPrefix(mv(b).path, mv(c).path) => IsPrefix(b.path, c.path)
  BY MovedApart
<1>6. \A c \in Names : IsPrefix(dest, c.path) =>
        \/ c = File(dest) /\ IsFile(src)
        \/ c = Marker(dest) /\ ~IsFile(src)
  BY TargetIs
<1>7. /\ File(dest).path = dest /\ ~File(dest).marker
      /\ Marker(dest).path = dest /\ Marker(dest).marker
  BY NamesAre
<1>8. \A b \in Names : b \in Name /\ b.path \in Path
  BY NameIs DEF ShapeInv
<1>9. ASSUME NEW b \in Names, ~b.marker, NEW c \in M, IsPrefix(b.path, mv(c).path)
      PROVE  mv(c).path = b.path /\ ~mv(c).marker
  <2>1. IsPrefix(dest, b.path)
    <3>1. Len(b.path) \in Nat
      BY <1>8 DEF Path
    <3>2. CASE Len(dest) <= Len(b.path)
      <4>1. b.path \in Path /\ mv(c).path \in Path /\ IsPrefix(dest, mv(c).path)
            /\ IsPrefix(b.path, mv(c).path)
        BY <1>4, <1>8, <1>9
      <4> HIDE DEF mv
      <4> QED BY <3>2, <4>1, PrefixOrder
    <3>3. CASE Len(b.path) < Len(dest)
      <4>1. Len(b.path) <= Len(Parent(dest))
        BY <1>2, <3>1, <3>3
      <4>2. IsPrefix(Parent(dest), mv(c).path)
        BY <1>1, <1>2, <1>4, PrefixOrder
      <4>3. IsPrefix(b.path, Parent(dest))
        BY <1>1, <1>4, <1>8, <1>9, <4>1, <4>2, PrefixOrder
      <4>4. b = File(b.path) /\ b.path # <<>>
        BY <1>8, <1>9, NameIs DEF WellFormed
      <4> QED BY <1>1, <1>8, <4>3, <4>4 DEF Clear, IsFile
    <3> QED BY <1>2, <3>1, <3>2, <3>3
  <2>2. b = File(dest) /\ IsFile(src)
    BY <1>6, <1>7, <1>9, <2>1
  <2>3. c = File(src)
    BY <1>3, <2>2
  <2>4. c.path = src /\ ~c.marker
    BY <2>3, NamesAre
  <2> QED BY <1>4, <1>7, <2>2, <2>4
<1>10. ASSUME NEW b \in M, ~b.marker, NEW c \in Names, IsPrefix(mv(b).path, c.path)
       PROVE  c.path = mv(b).path /\ ~c.marker
  <2>1. IsPrefix(dest, c.path)
    BY <1>4, <1>8, <1>10, PrefixOrder
  <2>2. CASE c = File(dest) /\ IsFile(src)
    <3>1. b = File(src)
      BY <1>3, <2>2
    <3>2. b.path = src
      BY <3>1, NamesAre
    <3> QED BY <1>4, <1>7, <2>2, <3>2
  <2>3. CASE c = Marker(dest) /\ ~IsFile(src)
    <3>1. IsPrefix(mv(b).path, dest)
      BY <1>7, <1>10, <2>3
    <3>2. Len(mv(b).path) <= Len(dest)
      BY <1>4, <3>1, PrefixOrder
    <3>3. mv(b).path = dest
      BY <1>4, <3>2, PathEqual
    <3>4. b.path = src
      BY <1>4, <3>3
    <3>5. b = File(src)
      BY <1>3, <1>10, <3>4, NameIs
    <3> QED BY <1>3, <2>3, <3>5
  <2> QED BY <1>6, <2>1, <2>2, <2>3
<1>11. ASSUME NEW b \in M, ~b.marker, NEW c \in M, IsPrefix(mv(b).path, mv(c).path)
       PROVE  mv(c).path = mv(b).path /\ ~mv(c).marker
  <2>1. IsPrefix(b.path, c.path)
    BY <1>5, <1>11
  <2>2. c.path = b.path /\ ~c.marker
    BY <1>3, <1>11, <2>1 DEF WellFormed
  <2> QED BY <1>4, <2>2
<1>12. \A b \in M : mv(b).path # <<>>
  <2> SUFFICES ASSUME NEW b \in M, mv(b).path = <<>> PROVE FALSE
    OBVIOUS
  <2>1. Len(dest) <= Len(mv(b).path) /\ Len(mv(b).path) = 0
    BY <1>4, PrefixOrder
  <2>2. Len(dest) = 0
    BY <1>2, <2>1
  <2> QED BY <1>2, <2>2 DEF Path
<1>13. ASSUME NEW b \in N, ~b.marker, NEW c \in N, IsPrefix(b.path, c.path)
       PROVE  c.path = b.path /\ ~c.marker
  <2> HIDE DEF mv, M
  <2>1. CASE b \in Names /\ c \in Names
    BY <1>13, <2>1 DEF WellFormed
  <2>2. ASSUME b \in Names, NEW d \in M, c = mv(d) PROVE c.path = b.path /\ ~c.marker
    BY <1>9, <1>13, <2>2
  <2>3. ASSUME NEW a \in M, b = mv(a), c \in Names PROVE c.path = b.path /\ ~c.marker
    BY <1>4, <1>10, <1>13, <2>3
  <2>4. ASSUME NEW a \in M, b = mv(a), NEW d \in M, c = mv(d) PROVE c.path = b.path /\ ~c.marker
    BY <1>4, <1>11, <1>13, <2>4
  <2> QED BY <2>1, <2>2, <2>3, <2>4
<1>14. ASSUME NEW b \in N, ~b.marker PROVE b.path # <<>>
  BY <1>12, <1>14 DEF WellFormed
<1> QED BY <1>13, <1>14 DEF WellFormed

\* So do the directories that it touches.
LEMMA RenameFits ==
    ASSUME ShapeInv, WellFormed(Names), NEW src \in Path, NEW dest \in Path, Renamable(src, dest)
    PROVE  WellFormed(Names \cup {Moved(b, src, dest) : b \in Meant(src)}
                            \cup {Marker(q) : q \in {Parent(src), Parent(dest)}})
<1> DEFINE N == Names \cup {Moved(b, src, dest) : b \in Meant(src)}
           P == {Parent(src), Parent(dest)}
<1>1. /\ ~IsPrefix(dest, src) /\ Parent(src) \in Path /\ Parent(dest) \in Path
      /\ Clear(Parent(src)) /\ Clear(Parent(dest))
  BY EndsApart
<1>2. /\ IsPrefix(Parent(src), src) /\ Len(Parent(dest)) = Len(dest) - 1 /\ Len(dest) \in Nat
  BY ParentIs DEF Renamable, Path
<1>3. WellFormed(N)
  BY CopiesFit
<1>4. N \in SUBSET Name
  BY MovedIs DEF ShapeInv
<1>5. ASSUME NEW b \in N, NEW q \in P, ~b.marker, IsPrefix(b.path, q) PROVE FALSE
  <2>1. q \in Path /\ Clear(q)
    BY <1>1
  <2>2. CASE b \in Names
    <3>1. b = File(b.path) /\ b.path \in Path /\ b.path # <<>>
      BY <1>3, <1>4, <1>5, NameIs DEF WellFormed
    <3> QED BY <1>5, <2>1, <2>2, <3>1 DEF Clear, IsFile
  <2>3. ASSUME NEW c \in Meant(src), b = Moved(c, src, dest) PROVE FALSE
    <3>1. IsPrefix(dest, b.path) /\ b.path \in Path
      BY <2>3, MovedIs
    <3>2. IsPrefix(dest, q)
      BY <1>5, <2>1, <3>1, PrefixOrder
    <3>3. CASE q = Parent(src)
      BY <1>1, <1>2, <3>2, <3>3, PrefixOrder
    <3>4. CASE q = Parent(dest)
      <4>1. Len(dest) <= Len(Parent(dest))
        BY <1>1, <3>2, <3>4, PrefixOrder
      <4> QED BY <1>2, <4>1
    <3> QED BY <3>3, <3>4
  <2> QED BY <2>2, <2>3
<1>6. P \in SUBSET Path
  BY <1>1
<1> HIDE DEF N, P
<1>7. WellFormed(N \cup {Marker(q) : q \in P})
  BY <1>3, <1>4, <1>5, <1>6, MarkersFit
<1> QED BY <1>7 DEF N, P

\* What each request of a rename names.
LEMMA CopyingIs ==
    ASSUME ShapeInv, NEW src \in Path, NEW dest \in Path, src # <<>>, dest # <<>>,
           NEW s \in Copies(src, dest), NEW n \in 1 .. Len(s)
    PROVE  \/ /\ s[n].put /\ s[n].name.marker /\ s[n].content = <<>>
              /\ s[n].name \in {Marker(q) : q \in {Parent(src), Parent(dest)}}
           \/ \E b \in Meant(src) :
                /\ s[n] = Copied(b, src, dest)
                /\ s[n].put /\ s[n].name = Moved(b, src, dest) /\ s[n].content = blobs[b]
                /\ s[n].name.marker => s[n].content = <<>>
           \/ \E b \in Meant(src) :
                /\ s[n] = Delete(b) /\ ~s[n].put /\ s[n].name = b /\ s[n].content = <<>>
                /\ \E m \in 1 .. n - 1 : s[m] = Copied(b, src, dest)
<1>1. Copying(s, n, src, dest)
  BY DEF Copies
<1>2. ASSUME NEW q \in {Parent(src), Parent(dest)}, s[n] = Touch(q)
      PROVE  /\ s[n].put /\ s[n].name.marker /\ s[n].content = <<>>
             /\ s[n].name \in {Marker(r) : r \in {Parent(src), Parent(dest)}}
  <2>1. q \in Path
    BY ParentIs
  <2>2. /\ Touch(q).put /\ Touch(q).name = Marker(q) /\ Touch(q).content = <<>>
        /\ Touch(q).name.marker
    BY <2>1, TouchIs
  <2> QED BY <1>2, <2>2
<1>3. ASSUME NEW b \in Meant(src), s[n] = Copied(b, src, dest)
      PROVE  /\ s[n].put /\ s[n].name = Moved(b, src, dest) /\ s[n].content = blobs[b]
             /\ s[n].name.marker => s[n].content = <<>>
  BY <1>3, CopiedIs
<1>4. ASSUME NEW b \in Meant(src), s[n] = Delete(b)
      PROVE  ~s[n].put /\ s[n].name = b /\ s[n].content = <<>>
  BY <1>4, CopiedIs
<1>5. CASE s[n] \in {Touch(Parent(src)), Touch(Parent(dest))}
  BY <1>2, <1>5
<1>6. ASSUME NEW b \in Meant(src), s[n] = Copied(b, src, dest)
      PROVE  \E c \in Meant(src) :
                /\ s[n] = Copied(c, src, dest)
                /\ s[n].put /\ s[n].name = Moved(c, src, dest) /\ s[n].content = blobs[c]
                /\ s[n].name.marker => s[n].content = <<>>
  BY <1>3, <1>6
<1>7. ASSUME NEW b \in Meant(src), s[n] = Delete(b),
             \E m \in 1 .. n - 1 : s[m] = Copied(b, src, dest)
      PROVE  \E c \in Meant(src) :
                /\ s[n] = Delete(c) /\ ~s[n].put /\ s[n].name = c /\ s[n].content = <<>>
                /\ \E m \in 1 .. n - 1 : s[m] = Copied(c, src, dest)
  BY <1>4, <1>7
<1> QED BY <1>1, <1>5, <1>6, <1>7 DEF Copying

\* A copy is stored before its source goes, and nothing that follows costs it.
LEMMA RenameSpares ==
    ASSUME ShapeInv, WellFormed(Names), NEW src \in Path, NEW dest \in Path, Renamable(src, dest),
           NEW s \in Copies(src, dest),
           NEW b \in Names, b # File(dest), NEW k \in ToSet(blobs[b])
    PROVE  Survives(s, b, k)
<1>1. ~b.marker /\ b \in Name
  BY HolderIsFile
<1>2. /\ \A c \in Meant(src) : ~IsPrefix(dest, c.path) /\ c \in Names
      /\ \A c \in Meant(src) : IsPrefix(dest, Moved(c, src, dest).path)
  BY EndsApart, MovedIs, MeantIs
<1>3. src # <<>> /\ dest # <<>>
  BY DEF Renamable
<1>4. Len(s) \in Nat
  BY DEF Copies
<1>5. ASSUME NEW n \in 1 .. Len(s), s[n].name = b, s[n].put PROVE FALSE
  <2>1. PICK c \in Meant(src) : s[n].name = Moved(c, src, dest)
    BY <1>1, <1>3, <1>5, CopyingIs
  <2>2. IsPrefix(dest, b.path)
    BY <1>2, <1>5, <2>1
  <2>3. b = Marker(dest)
    BY <2>2, TargetIs
  <2> QED BY <1>1, <2>3, NamesAre
<1> DEFINE Goes == {n \in Nat : n \in 1 .. Len(s) /\ s[n].name = b}
<1>6. CASE Goes = {}
  BY <1>4, <1>6 DEF Survives, Spared
<1>7. CASE Goes # {}
  <2>1. PICK n \in Goes : \A l \in Goes : ~(l < n)
    BY <1>7, LeastNumber
  <2>2. n \in 1 .. Len(s) /\ s[n].name = b
    BY <2>1
  <2>3. ~s[n].put
    BY <1>5, <2>2
  <2>4. PICK c \in Meant(src) :
          /\ s[n] = Delete(c) /\ ~s[n].put /\ s[n].name = c /\ s[n].content = <<>>
          /\ \E m \in 1 .. n - 1 : s[m] = Copied(c, src, dest)
    BY <1>3, <2>2, <2>3, CopyingIs
  <2>5. b \in Meant(src) /\ \E m \in 1 .. n - 1 : s[m] = Copied(b, src, dest)
    BY <2>2, <2>4
  <2>6. PICK m \in 1 .. n - 1 : s[m] = Copied(b, src, dest)
    BY <2>5
  <2>7. m \in 1 .. Len(s) /\ Spared(s, b, k, 1, m - 1)
    <3>1. \A l \in 1 .. m - 1 : l \in Nat /\ l \in 1 .. Len(s) /\ l < n
      BY <1>4, <2>2
    <3>2. \A l \in 1 .. m - 1 : s[l].name # b
      BY <2>1, <3>1
    <3>3. m \in 1 .. Len(s)
      BY <1>4, <2>2
    <3> QED BY <3>2, <3>3 DEF Spared
  <2>8. s[m].put /\ s[m].name = Moved(b, src, dest) /\ s[m].content = blobs[b]
        /\ ~s[m].name.marker
    BY <1>1, <2>5, <2>6, CopiedIs, MovedIs
  <2>9. ASSUME NEW l \in m + 1 .. Len(s), s[l].name = s[m].name
        PROVE  s[l].put /\ k \in ToSet(s[l].content)
    <3>1. l \in 1 .. Len(s)
      BY <1>4
    <3>2. ASSUME NEW d \in Meant(src), s[l].put, s[l].name = Moved(d, src, dest),
                 s[l].content = blobs[d]
          PROVE  s[l].put /\ k \in ToSet(s[l].content)
      <4>1. Moved(d, src, dest) = Moved(b, src, dest)
        BY <2>8, <2>9, <3>2
      <4>2. d = b
        BY <2>5, <4>1, MovedApart
      <4> QED BY <3>2, <4>2
    <3>3. ASSUME NEW d \in Meant(src), s[l].name = d PROVE FALSE
      <4>1. d = Moved(b, src, dest)
        BY <2>8, <2>9, <3>3
      <4> QED BY <1>2, <2>5, <4>1
    <3> QED BY <1>3, <2>8, <2>9, <3>1, <3>2, <3>3, CopyingIs
  <2>10. Stores(s, m, k)
    BY <2>8, <2>9 DEF Stores, Spared
  <2> QED BY <2>7, <2>10 DEF Survives
<1> QED BY <1>6, <1>7

LEMMA RenameInv ==
    ASSUME StoreInv, Ready, NEW src \in Path, NEW dest \in Path, Rename(src, dest) PROVE StoreInv'
<1>1. Renamable(src, dest) /\ src # <<>> /\ dest # <<>>
  BY DEF Rename, Renamable
<1>2. ShapeInv /\ WellFormed(Names)
  BY WellFormedPart DEF StoreInv, TreeInv
<1>3. PICK order \in Listings(Meant(src)) :
        Begin(RenameRequests(order, src, dest), {File(dest)}, {})
  BY DEF Rename
<1>4. order \in Seq(Meant(src))
  BY <1>2, ListingIs
<1>5. PICK s \in Copies(src, dest) : Begin(s, {File(dest)}, {})
  BY <1>1, <1>2, <1>3, <1>4, RenameIs
<1>6. Sound(s)
  <2>1. s \in Seq(Requests)
    BY DEF Copies
  <2>2. ASSUME NEW n \in 1 .. Len(s), s[n].name.marker PROVE s[n].content = <<>>
    BY <1>1, <1>2, <2>2, CopyingIs
  <2> QED BY <2>1, <2>2 DEF Sound
<1>7. WellFormed(Names \cup Puts(s))
  <2> DEFINE N == Names \cup {Moved(b, src, dest) : b \in Meant(src)}
                        \cup {Marker(q) : q \in {Parent(src), Parent(dest)}}
  <2>1. WellFormed(N)
    BY <1>1, <1>2, RenameFits
  <2>2. ASSUME NEW n \in 1 .. Len(s), s[n].put PROVE s[n].name \in N
    BY <1>1, <1>2, <2>2, CopyingIs
  <2>3. Names \cup Puts(s) \in SUBSET N
    BY <2>2 DEF Puts
  <2> HIDE DEF N
  <2> QED BY <2>1, <2>3, WellFormedPart
<1>8. ASSUME NEW b \in Names \ {File(dest)}, NEW k \in ToSet(blobs[b]) PROVE Survives(s, b, k)
  BY <1>1, <1>2, <1>8, RenameSpares
<1>9. {} \in SUBSET {calls + 1} /\ \A k \in {} : \E n \in 1 .. Len(s) : Stores(s, n, k)
  OBVIOUS
<1> QED BY <1>5, <1>6, <1>7, <1>8, <1>9, BeginInv

LEMMA StoreStep == StoreInv /\ [FilesNext]_filesVars => StoreInv'
<1> SUFFICES ASSUME StoreInv, [FilesNext]_filesVars PROVE StoreInv'
  OBVIOUS
<1>0. Paths \subseteq Path
  BY FilesAssumption DEF Path
<1>1. CASE Open
  BY <1>1, OpenInv
<1>2. CASE SendRequest
  BY <1>2, SendRequestInv
<1>3. CASE Fail
  BY <1>3, FailInv
<1>4. CASE Expire
  BY <1>4, ExpireInv
<1>5. CASE CloseFiles
  BY <1>5, CloseFilesInv
<1>6. ASSUME Ready, NEW p \in Paths, WriteFile(p) PROVE StoreInv'
  BY <1>0, <1>6, WriteFileInv
<1>7. ASSUME Ready, NEW p \in Paths, AppendFile(p) PROVE StoreInv'
  BY <1>0, <1>7, AppendFileInv
<1>8. ASSUME Ready, NEW p \in Paths, Mkdir(p) PROVE StoreInv'
  BY <1>0, <1>8, MkdirInv
<1>9. ASSUME Ready, NEW p \in Paths, NEW recursive \in BOOLEAN, Rm(p, recursive) PROVE StoreInv'
  BY <1>0, <1>9, RmInv
<1>10. ASSUME Ready, NEW p \in Paths, NEW dest \in Paths, Rename(p, dest) PROVE StoreInv'
  BY <1>0, <1>10, RenameInv
<1>11. CASE UNCHANGED filesVars
  <2>1. UNCHANGED <<blobs, adapter, expired, todo, adding, calls, turns, kept>>
    BY <1>11 DEF filesVars
  <2>2. ShapeInv' /\ OperationInv'
    BY <2>1 DEF StoreInv, ShapeInv, OperationInv, Names
  <2>3. TreeInv' /\ ScaffoldInv'
    BY <2>1 DEF StoreInv, TreeInv, ScaffoldInv, Names, Puts
  <2>4. StoredInv'
    BY <2>1 DEF StoreInv, StoredInv, Held, Survives, Coming, Stores, Spared, Names
  <2> QED BY <2>2, <2>3, <2>4 DEF StoreInv
<1> QED
  BY <1>1, <1>2, <1>3, <1>4, <1>5, <1>6, <1>7, <1>8, <1>9, <1>10, <1>11 DEF FilesNext

-----------------------------------------------------------------------------
(* The theorems. *)

\* The invariant: what running operations have left to send keeps the tree well
\* formed and every kept write stored, wherever they are cut.
THEOREM FilesInvariance == FilesSpec => []StoreInv
<1>1. FilesInit => StoreInv
  BY FilesStart
<1>2. StoreInv /\ [FilesNext]_filesVars => StoreInv'
  BY StoreStep
<1> QED BY <1>1, <1>2, PTL DEF FilesSpec

\* Whatever operations run and wherever they are cut, the blobs, the adapter and the
\* counters stay within their types.
THEOREM FilesTypeCorrect == FilesSpec => []FilesTypeOK
<1>1. StoreInv => FilesTypeOK
  BY DEF StoreInv, ShapeInv, FilesTypeOK, Name, Content
<1> QED BY <1>1, FilesInvariance, PTL

\* What a write or an append reported as done stays stored until an operation that
\* overwrites or removes it begins: for any paths, and wherever the operations of this
\* or a later turn are cut (an append replaces a blob in one request, a rename deletes
\* a source only after its copy is stored).
THEOREM NothingLostAlways == FilesSpec => []NothingLost
<1>1. StoreInv => NothingLost
  BY DEF StoreInv, StoredInv, Held, NothingLost, Contents
<1> QED BY <1>1, FilesInvariance, PTL

\* No cut leaves a name that is a file and a directory, or a file inside a file: the
\* checks an operation makes before its first request cover all that it will write.
THEOREM TreeStaysWellFormed == FilesSpec => []TreeWellFormed
<1>1. ASSUME StoreInv PROVE TreeWellFormed
  <2>1. ShapeInv /\ WellFormed(Names)
    BY <1>1, WellFormedPart DEF StoreInv, TreeInv
  <2>2. ASSUME NEW b \in Names, ~b.marker
        PROVE  b.path # <<>> /\ Under(b.path) = {} /\ ParentsChecked(b.path)
    <3>1. b.path # <<>> /\ \A c \in Names : IsPrefix(b.path, c.path) => c.path = b.path /\ ~c.marker
      BY <2>1, <2>2 DEF WellFormed
    <3>2. Under(b.path) = {}
      BY <3>1 DEF Under
    <3>3. ASSUME NEW q \in Ancestors(b.path), IsFile(q) PROVE FALSE
      <4>1. b.path \in Path /\ Len(b.path) \in Nat
        BY <2>1, <2>2, NameIs DEF ShapeInv, Path
      <4>2. PICK n \in 1 .. Len(b.path) - 1 : q = First(b.path, n)
        BY <3>3 DEF Ancestors, First
      <4>3. n \in 0 .. Len(b.path) /\ n < Len(b.path)
        BY <4>1, <4>2
      <4>4. q \in Path /\ Len(q) = n /\ IsPrefix(q, b.path)
        BY <4>1, <4>2, <4>3, FirstNames
      <4>5. b.path = File(q).path
        BY <2>1, <2>2, <3>3, <4>4, NamesAre DEF WellFormed, IsFile
      <4> QED BY <4>3, <4>4, <4>5, NamesAre
    <3> QED BY <3>1, <3>2, <3>3 DEF ParentsChecked
  <2> QED BY <2>2 DEF TreeWellFormed
<1>2. StoreInv => TreeWellFormed
  BY <1>1
<1> QED BY <1>2, FilesInvariance, PTL

\* A name below a directory is an entry of it.
LEMMA EntryIs ==
    ASSUME ShapeInv, NEW p \in Path, NEW b \in Names, IsPrefix(p, b.path), b.path # p
    PROVE  First(b.path, Len(p) + 1) \in Entries(p)
<1>1. b \in Under(p) /\ b # Marker(p)
  BY NamesAre DEF Under
<1> QED BY <1>1 DEF Entries, First

\* has_persisted_state is true while a finished write is stored, and false before an
\* operation of the native runtime has begun, though opening may have left directories.
THEOREM PersistedStateAlwaysExact == FilesSpec => []PersistedStateIsExact
<1>1. ASSUME StoreInv PROVE kept # {} => HasPersistedState
  <2> SUFFICES ASSUME NEW k \in kept PROVE HasPersistedState
    OBVIOUS
  <2>1. ShapeInv /\ WellFormed(Names)
    BY <1>1, WellFormedPart DEF StoreInv, TreeInv
  <2>2. PICK b \in Names : k \in ToSet(blobs[b])
    BY <1>1 DEF StoreInv, StoredInv, Held
  <2>3. b \in Name /\ ~b.marker /\ b = File(b.path) /\ b.path \in Path
    BY <2>1, <2>2, HolderIsFile, NameIs
  <2>4. b.path # <<>>
    BY <2>1, <2>3 DEF WellFormed
  <2>5. <<>> \in Path /\ Len(<<>>) = 0 /\ Workspace \in Path /\ Len(Workspace) = 1
    BY WorkspaceIs, FilesAssumption
  <2>6. IsPrefix(<<>>, b.path)
    BY <2>3, <2>5, PrefixIs
  <2>7. First(b.path, Len(<<>>) + 1) \in Entries(<<>>)
    BY <2>1, <2>4, <2>5, <2>6, EntryIs
  <2>8. CASE First(b.path, Len(<<>>) + 1) # Workspace
    BY <2>7, <2>8 DEF HasPersistedState
  <2>9. CASE First(b.path, Len(<<>>) + 1) = Workspace
    <3>1. Len(b.path) \in Nat /\ Len(b.path) # 0
      BY <2>3, <2>4 DEF Path
    <3>2. Len(<<>>) + 1 \in 0 .. Len(b.path)
      BY <2>5, <3>1
    <3>3. IsPrefix(Workspace, b.path)
      BY <2>3, <2>9, <3>2, FirstNames
    <3>4. CASE b.path = Workspace
      BY <2>3, <3>4 DEF HasPersistedState, IsFile
    <3>5. CASE b.path # Workspace
      <4>1. First(b.path, Len(Workspace) + 1) \in Entries(Workspace)
        BY <2>1, <2>5, <3>3, <3>5, EntryIs
      <4> QED BY <4>1 DEF HasPersistedState
    <3> QED BY <3>4, <3>5
  <2> QED BY <2>8, <2>9
<1>2. ASSUME StoreInv, calls = 0 PROVE ~HasPersistedState
  <2>1. Names \subseteq {Marker(<<>>), Marker(Workspace)}
    BY <1>2 DEF StoreInv, ScaffoldInv
  <2>2. <<>> \in Path /\ Workspace \in Path /\ Len(Workspace) = 1 /\ Len(<<>>) = 0
    BY WorkspaceIs, FilesAssumption
  <2>3. ~IsFile(Workspace)
    BY <2>1, NamesAre, <2>2 DEF IsFile
  <2>4. Under(Workspace) \subseteq {Marker(Workspace)}
    <3>1. ~IsPrefix(Workspace, <<>>)
      BY <2>2, PrefixOrder
    <3>2. Marker(<<>>).path = <<>>
      BY <2>2, NamesAre
    <3> QED BY <2>1, <3>1, <3>2 DEF Under
  <2>5. Entries(Workspace) = {}
    BY <2>4 DEF Entries
  <2>6. Entries(<<>>) \subseteq {Workspace}
    <3>1. ASSUME NEW e \in Entries(<<>>) PROVE e = Workspace
      <4>1. PICK b \in Under(<<>>) \ {Marker(<<>>)} : e = First(b.path, Len(<<>>) + 1)
        BY <3>1 DEF Entries, First
      <4>2. b = Marker(Workspace)
        BY <2>1, <4>1 DEF Under
      <4>3. b.path = Workspace
        BY <2>2, <4>2, NamesAre
      <4>4. Len(<<>>) + 1 \in 0 .. Len(Workspace) /\ Len(Workspace) = Len(<<>>) + 1
        BY <2>2
      <4>5. IsPrefix(Workspace, Workspace)
        BY <2>2, PrefixOrder
      <4> QED BY <2>2, <4>1, <4>3, <4>4, <4>5, FirstNames
    <3> QED BY <3>1
  <2> QED BY <2>3, <2>5, <2>6 DEF HasPersistedState
<1>3. StoreInv => PersistedStateIsExact
  BY <1>1, <1>2 DEF PersistedStateIsExact
<1> QED BY <1>3, FilesInvariance, PTL

=============================================================================
