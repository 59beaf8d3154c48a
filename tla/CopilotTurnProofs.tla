-------------------------- MODULE CopilotTurnProofs --------------------------
(***************************************************************************)
(* Proofs about a Copilot turn. The first part is about its session, for   *)
(* every set of requests, primary and leaf, on new and supplied sessions,  *)
(* and every interleaving of their cleanups with the session lock, the     *)
(* deadline and the native writes. The second is about the events of its   *)
(* stream, for every capacity of the queue and every pace of the client,   *)
(* and the third about the records, events and spans of its tool calls,    *)
(* for every set of calls and every order of their callbacks.              *)
(***************************************************************************)
EXTENDS SessionTurn, CopilotToolCalls, SequenceTheorems, FiniteSetTheorems, TLAPS

(* The strengthening. A request writes only through an adapter it opened,  *)
(* which a primary does under the session lock, and decides to create its  *)
(* session only once it has the adapter.                                   *)
Opened(r) == adapter[r] # "none"

StorageInv ==
  \A r \in Request :
    /\ Opened(r) => phase[r] \notin {"idle", "locking", "opening", "reverting"}
    /\ r \in writing \cup stray \cup files => Opened(r)
    /\ phase[r] = "deleting" => Leaf(r)
    /\ phase[r] = "locking" => ~Leaf(r)
    /\ r \in creates => phase[r] \notin {"idle", "locking", "opening", "starting",
                                         "classifying"}

(* An answer survives a cleanup only if the cleanup did its work, in the   *)
(* order of the cleanups, and nothing done is undone afterwards.           *)
AnswerInv ==
  \A r \in Request : verdict[r] = "answered" =>
    /\ phase[r] \in {"disconnecting", "deleting", "closing", "ended"}
    /\ phase[r] # "disconnecting" => native[r] = "gone" /\ r \notin writing \cup stray
    /\ phase[r] = "ended" => adapter[r] = "closed"
    /\ phase[r] \in {"closing", "ended"} /\ Leaf(r) => r \notin files

(* Until the turn that minted the session id announces it, no other        *)
(* request is on the session.                                              *)
MintInv ==
  \A m \in Request : role[m] = "new" =>
    /\ \A n \in Request : role[n] = "new" => n = m
    /\ \/ phase[m] \in {"turn", "ended"} \cup Cleanup
       \/ \A r \in Request : role[r] = "supplied" => phase[r] = "idle"

IInv == TypeOK /\ StorageInv /\ AnswerInv /\ MintInv /\ TurnIsolated /\ CreateOnlyFresh

(* What one request, or the world around it, does next.                    *)
Proceeds(r) ==
  \/ Begin(r) \/ OpenStorage(r) \/ StartClient(r) \/ Classify(r) \/ Join(r)
  \/ Verify(r) \/ Answer(r) \/ Revert(r) \/ Aborted(r)
Settles(r) == Disconnect(r) \/ DeleteLeaf(r) \/ CloseStorage(r)
Suffers(r) == Expire(r) \/ NativeOpens(r) \/ WriteStarts(r)
Landing(r) == WriteLands(r) \/ StrayLands(r)
Step(r) ==
  \/ Proceeds(r) \/ AcquireLock(r) \/ BodyFails(r) \/ Settles(r) \/ CleanupFails(r)
  \/ Suffers(r) \/ Landing(r)

----------------------------------------------------------------------------
(* The initial state satisfies the inductive invariant.                    *)
LEMMA InitInv == Init => IInv
  BY SessionAssumption
  DEF Init, IInv, TypeOK, StorageInv, AnswerInv, MintInv, TurnIsolated, CreateOnlyFresh,
     Opened, Leaf, Primary, Begun, Body, Cleanup

(* A cleanup that fails makes the verdict a failure and moves on: to the   *)
(* next cleanup, or out of the lock.                                       *)
LEMMA CleanupFailsEffect ==
  ASSUME IInv, NEW r \in Request, CleanupFails(r)
  PROVE  /\ verdict' = [verdict EXCEPT ![r] = "failed"]
         /\ \/ /\ phase[r] = "disconnecting" /\ UNCHANGED holder
               /\ \E p \in {"deleting", "closing"} :
                    phase' = [phase EXCEPT ![r] = p] /\ (p = "deleting" => Leaf(r))
            \/ /\ phase[r] = "deleting" /\ UNCHANGED holder
               /\ phase' = [phase EXCEPT ![r] = "closing"]
            \/ /\ phase[r] = "closing"
               /\ phase' = [phase EXCEPT ![r] = "ended"]
               /\ holder' = IF holder = r THEN None ELSE holder
         /\ UNCHANGED <<role, adapter, native, writing, stray, expired, creates, files,
                        foreign>>
<1>1. CASE phase[r] = "disconnecting"
  BY <1>1 DEF CleanupFails, Unsettled, Enter, AfterDisconnect
<1>2. CASE phase[r] = "deleting"
  BY <1>2 DEF CleanupFails, Unsettled, Enter
<1>3. CASE phase[r] = "closing"
  BY <1>3 DEF CleanupFails, Unsettled, Enter, Leave
<1> QED BY <1>1, <1>2, <1>3 DEF CleanupFails

(* Every step keeps the types, and with them that the lock is with the one *)
(* primary between its acquisition and the end of its last cleanup.        *)
LEMMA TypeStep == ASSUME IInv, NEW r \in Request, Step(r) PROVE TypeOK'
<1> USE SessionAssumption DEF IInv, TypeOK, Primary, Leaf, Begun, Body, Cleanup, Enter, Leave, Live
<1>1. CASE Proceeds(r)
  BY <1>1 DEF Proceeds, Begin, OpenStorage, StartClient, Classify, Join, Verify, Answer, Revert,
     Aborted
<1>2. CASE AcquireLock(r)
  <2>1. /\ phase[r] = "locking" /\ holder = None /\ holder' = r
        /\ phase' = [phase EXCEPT ![r] = "opening"]
        /\ UNCHANGED <<role, verdict, adapter, native, writing, stray, expired, creates, files,
                       foreign>>
    BY <1>2 DEF AcquireLock, LockFree
  <2>2. r \in Primary
    BY <2>1 DEF StorageInv
  <2>3. \A q \in Primary' : holder' = q <=> Begun(q)' /\ phase'[q] # "locking"
    BY <2>1, <2>2
  <2> QED BY <2>1, <2>2, <2>3
<1>3. CASE BodyFails(r)
  BY <1>3 DEF BodyFails, AfterFailure
<1>4. CASE Settles(r)
  BY <1>4 DEF Settles, Disconnect, DeleteLeaf, CloseStorage, AfterDisconnect
<1>5. CASE CleanupFails(r)
  BY <1>5, CleanupFailsEffect
<1>6. CASE Suffers(r)
  BY <1>6 DEF Suffers, Expire, NativeOpens, WriteStarts
<1>7. CASE Landing(r)
  BY <1>7 DEF Landing, WriteLands, StrayLands, Lands
<1> QED BY <1>1, <1>2, <1>3, <1>4, <1>5, <1>6, <1>7 DEF Step

(* Every step keeps the adapter's and the answer's order of events.        *)
LEMMA LocalStep == ASSUME IInv, NEW r \in Request, Step(r) PROVE StorageInv' /\ AnswerInv'
<1> USE DEF IInv, TypeOK, StorageInv, AnswerInv, Opened, Leaf, Begun, Body, Cleanup, Enter,
            Leave, Live
<1>1. CASE Proceeds(r)
  BY <1>1 DEF Proceeds, Begin, OpenStorage, StartClient, Classify, Join, Verify, Answer, Revert,
     Aborted
<1>2. CASE AcquireLock(r)
  BY <1>2 DEF AcquireLock
<1>3. CASE BodyFails(r)
  BY <1>3 DEF BodyFails, AfterFailure
<1>4. CASE Settles(r)
  BY <1>4 DEF Settles, Disconnect, DeleteLeaf, CloseStorage, AfterDisconnect
<1>5. CASE CleanupFails(r)
  BY <1>5, CleanupFailsEffect
<1>6. CASE Suffers(r)
  BY <1>6 DEF Suffers, Expire, NativeOpens, WriteStarts
<1>7. CASE Landing(r)
  BY <1>7 DEF Landing, WriteLands, StrayLands, Lands
<1> QED BY <1>1, <1>2, <1>3, <1>4, <1>5, <1>6, <1>7 DEF Step

(* Every step keeps a minted session to the turn that minted it until it   *)
(* is announced.                                                           *)
LEMMA MintStep == ASSUME IInv, NEW r \in Request, Step(r) PROVE MintInv'
<1> USE DEF IInv, TypeOK, MintInv, Leaf, Body, Cleanup, Enter, Leave, Live
<1>1. CASE Proceeds(r)
  BY <1>1 DEF Proceeds, Begin, OpenStorage, StartClient, Classify, Join, Verify, Answer, Revert,
     Aborted, Known
<1>2. CASE AcquireLock(r)
  BY <1>2 DEF AcquireLock
<1>3. CASE BodyFails(r)
  BY <1>3 DEF BodyFails, AfterFailure
<1>4. CASE Settles(r)
  BY <1>4 DEF Settles, Disconnect, DeleteLeaf, CloseStorage, AfterDisconnect
<1>5. CASE CleanupFails(r)
  BY <1>5, CleanupFailsEffect
<1>6. CASE Suffers(r) \/ Landing(r)
  BY <1>6 DEF Suffers, Expire, NativeOpens, WriteStarts, Landing, WriteLands, StrayLands, Lands
<1> QED BY <1>1, <1>2, <1>3, <1>4, <1>5, <1>6 DEF Step

(* A write that lands outside its request's turn is of a failed turn that  *)
(* has ended: until then a primary that can write holds the lock, and an   *)
(* answered one has nothing left that could land.                          *)
LEMMA IsolatedStep == ASSUME IInv, NEW r \in Request, Step(r) PROVE TurnIsolated'
<1> USE DEF IInv, TypeOK, TurnIsolated
<1>1. CASE Landing(r)
  <2>1. /\ r \in writing \cup stray
        /\ foreign' = foreign \/ (~Leaf(r) /\ holder # r /\ foreign' = foreign \cup {<<r, holder>>})
        /\ UNCHANGED <<phase, verdict>>
    BY <1>1 DEF Landing, WriteLands, StrayLands, Lands
  <2>2. phase[r] \notin {"idle", "locking"}
    BY <2>1 DEF StorageInv, Opened
  <2>3. ASSUME ~Leaf(r), holder # r PROVE phase[r] = "ended" /\ verdict[r] = "failed"
    <3>1. phase[r] = "ended"
      BY <2>2, <2>3 DEF Primary, Begun
    <3> QED BY <2>1, <3>1 DEF AnswerInv, Body
  <2> QED BY <2>1, <2>3
<1>2. ASSUME ~Landing(r)
      PROVE  /\ UNCHANGED foreign
             /\ phase[r] = "ended" => UNCHANGED <<phase, verdict>>
             /\ \A q \in Request : q # r => phase'[q] = phase[q] /\ verdict'[q] = verdict[q]
  <2> USE DEF Enter, Leave, Body
  <2>1. CASE Proceeds(r) \/ AcquireLock(r)
    BY <2>1 DEF Proceeds, Begin, OpenStorage, StartClient, Classify, Join, Verify, Answer, Revert,
       Aborted, AcquireLock
  <2>2. CASE BodyFails(r)
    BY <2>2 DEF BodyFails
  <2>3. CASE Settles(r)
    BY <2>3 DEF Settles, Disconnect, DeleteLeaf, CloseStorage
  <2>4. CASE CleanupFails(r)
    BY <2>4, CleanupFailsEffect
  <2>5. CASE Suffers(r)
    BY <2>5 DEF Suffers, Expire, NativeOpens, WriteStarts
  <2> QED BY <1>2, <2>1, <2>2, <2>3, <2>4, <2>5 DEF Step
<1>3. ASSUME ~Landing(r) PROVE TurnIsolated'
  <2>1. \A pair \in foreign : pair[1] \in Request
    BY DEF Primary
  <2>2. CASE phase[r] = "ended"
    BY <1>2, <1>3, <2>2
  <2>3. CASE phase[r] # "ended"
    BY <1>2, <1>3, <2>1, <2>3
  <2> QED BY <2>2, <2>3
<1> QED BY <1>1, <1>3

(* A session is decided to be new over an empty tree, or before anyone     *)
(* else can have written; what another turn writes into it later is on     *)
(* record as foreign.                                                      *)
LEMMA FreshStep == ASSUME IInv, NEW r \in Request, Step(r) PROVE CreateOnlyFresh'
<1> USE DEF IInv, TypeOK, CreateOnlyFresh, Primary, Leaf
<1>1. CASE StartClient(r) \/ Classify(r)
  BY <1>1 DEF StartClient, Classify, PersistedState, StorageInv, Opened, MintInv, Enter, Cleanup
<1>2. CASE Landing(r)
  <2>1. /\ files' = files \cup {r} /\ UNCHANGED <<role, phase, creates>>
        /\ foreign \subseteq foreign'
        /\ ~Leaf(r) /\ holder # r => <<r, holder>> \in foreign'
    BY <1>2 DEF Landing, WriteLands, StrayLands, Lands
  <2>2. ASSUME NEW q \in Primary, phase[q] = "joining", q \in creates, q # r, r \in Primary
        PROVE  \E pair \in foreign' : pair[1] = r
    <3>1. holder = q
      BY <2>2 DEF Begun, Body
    <3> QED BY <2>1, <2>2, <3>1
  <2> QED BY <2>1, <2>2
<1>3. CASE CleanupFails(r)
  BY <1>3, CleanupFailsEffect
<1>4. CASE Settles(r)
  BY <1>4 DEF Settles, Disconnect, DeleteLeaf, CloseStorage, AfterDisconnect, Enter, Leave
<1>5. CASE \/ Begin(r) \/ OpenStorage(r) \/ Join(r) \/ Verify(r) \/ Answer(r) \/ Revert(r)
           \/ Aborted(r) \/ AcquireLock(r)
  BY <1>5 DEF Begin, OpenStorage, Join, Verify, Answer, Revert, Aborted, AcquireLock, Enter, Leave
<1>6. CASE BodyFails(r)
  BY <1>6 DEF BodyFails, AfterFailure, Enter, Leave
<1>7. CASE Suffers(r)
  BY <1>7 DEF Suffers, Expire, NativeOpens, WriteStarts
<1> QED BY <1>1, <1>2, <1>3, <1>4, <1>5, <1>6, <1>7 DEF Step, Proceeds

(* Every step, stuttering included, preserves the inductive invariant.     *)
LEMMA NextInv == IInv /\ [Next]_vars => IInv'
<1> SUFFICES ASSUME IInv, [Next]_vars PROVE IInv'
  OBVIOUS
<1>1. ASSUME NEW r \in Request, Step(r) PROVE IInv'
  <2>1. TypeOK' /\ StorageInv' /\ AnswerInv' /\ MintInv'
    BY <1>1, TypeStep, LocalStep, MintStep
  <2>2. TurnIsolated' /\ CreateOnlyFresh'
    BY <1>1, IsolatedStep, FreshStep
  <2> QED BY <2>1, <2>2 DEF IInv
<1>2. CASE Next
  <2>1. PICK r \in Request : Step(r)
    BY <1>2 DEF Next, Step, Proceeds, Settles, Suffers, Landing
  <2> QED BY <1>1, <2>1
<1>3. CASE UNCHANGED vars
  BY <1>3 DEF vars, IInv, TypeOK, StorageInv, AnswerInv, MintInv, TurnIsolated, CreateOnlyFresh,
     Opened, Leaf, Primary, Begun
<1> QED BY <1>2, <1>3

----------------------------------------------------------------------------
(* The inductive invariant holds in every reachable state.                 *)
THEOREM Invariance == Spec => []IInv
  BY InitInv, NextInv, PTL DEF Spec

(* Every variable keeps its type, and the session lock is held exactly by  *)
(* the primary between its acquisition and its last cleanup.               *)
THEOREM TypeCorrect == Spec => []TypeOK
<1>1. IInv => TypeOK
  BY DEF IInv
<1> QED BY <1>1, Invariance, PTL

(* Two turns of a session never see each other's work in progress: what    *)
(* lands outside its turn is of a failed turn that has ended, and no turn  *)
(* creates the session anew over what another left under the lock.         *)
THEOREM TurnsAreIsolated == Spec => []TurnsDoNotMix
<1>1. IInv => TurnsDoNotMix
  BY DEF IInv, TurnsDoNotMix
<1> QED BY <1>1, Invariance, PTL

(* A request that answers has left nothing behind: no native session, no   *)
(* open adapter, no write in flight, no tree of a leaf.                    *)
THEOREM AnswersAreSettled == Spec => []SuccessIsSettled
<1>1. IInv => SuccessIsSettled
  BY DEF IInv, AnswerInv, SuccessIsSettled
<1> QED BY <1>1, Invariance, PTL

----------------------------------------------------------------------------
(* What the client was or will be told: what was yielded, then the tail.   *)
Script(i) == IF i <= Len(out) THEN out[i] ELSE tail[i - Len(out)]

AtHead == queue # <<>> /\ queue[1].kind = "session"

(* A session event taken but not yielded, because the caller named the     *)
(* session.                                                                *)
Hidden == IF callerSupplied /\ emitted > 0 /\ ~AtHead THEN 1 ELSE 0

StreamTyped ==
  /\ turn \in {"none", "setup", "open", "sending"} \cup TurnEnded
  /\ callerSupplied \in BOOLEAN /\ resumable \in BOOLEAN
  /\ emittedSession \in BOOLEAN /\ emittedText \in BOOLEAN
  /\ emitted \in 0 .. MaxEvents + 1 /\ dropped \in Nat
  /\ queue \in Seq(Event) /\ Len(queue) <= Capacity
  /\ tail \in Seq(Final) /\ out \in Seq(Event \cup Final)
  /\ finished \in BOOLEAN /\ (finished <=> turn \in TurnEnded)
  /\ canceling \in BOOLEAN /\ available \in BOOLEAN
  /\ reader \in {"start", "ready", "waiting", "yielding", "result",
                 "closing", "ended", "closed"}

TurnInv ==
  /\ turn \in {"none", "setup"} => ~resumable
  /\ turn \in {"open", "sending"} => resumable
  /\ turn \in {"none", "setup", "open"} => emitted = 0
  /\ turn \in {"sending", "ok"} => emitted > 0
  /\ emitted > 0 => resumable
  /\ reader = "result" => turn \in TurnEnded /\ queue = <<>>
  /\ reader \in {"ready", "waiting"} => turn # "none"
  /\ reader = "start" => turn = "none"

(* The events of the turn are numbered from 1, and the session is first.   *)
Numbered(e) == e.n \in 1 .. emitted /\ (e.kind = "session" <=> e.n = 1)

QueueInv ==
  /\ \A i \in 1 .. Len(queue) : Numbered(queue[i])
  /\ \A i, j \in 1 .. Len(queue) : i < j => queue[i].n < queue[j].n

(* The first k events yielded are events of the turn, in order and before  *)
(* those still queued, and what is neither was dropped or hidden.          *)
Passing(k) ==
  /\ \A i \in 1 .. k : out[i] \in Event /\ Numbered(out[i])
  /\ \A i, j \in 1 .. k : i < j => out[i].n < out[j].n
  /\ \A i \in 1 .. k, j \in 1 .. Len(queue) : out[i].n < queue[j].n
  /\ emitted = dropped + k + Len(queue) + Hidden
  /\ callerSupplied => \A i \in 1 .. k : out[i].kind # "session"
  /\ ~callerSupplied => (k > 0 <=> emitted > 0 /\ ~AtHead)
  /\ k > 0 /\ ~callerSupplied => out[1].n = 1
  /\ emittedSession <=> callerSupplied \/ k > 0
  /\ emittedText => \E i \in 1 .. k : out[i].kind = "delta"
  /\ dropped = 0 =>
       \A m \in 2 .. emitted : \/ \E i \in 1 .. k : out[i].n = m
                               \/ \E j \in 1 .. Len(queue) : queue[j].n = m

Streaming(k) ==
  /\ k = Len(out) /\ tail = <<>> /\ reader # "ended"
  /\ reader = "yielding" => k > 0

Says(k, ending) ==
  /\ k < Len(out)
  /\ Len(out) + Len(tail) = k + Len(ending)
  /\ \A i \in 1 .. Len(ending) : Script(k + i) = ending[i]

Finishing(k) ==
  /\ reader \in {"yielding", "ended", "closing", "closed"}
  /\ queue = <<>>
  /\ \/ turn = "ok" /\ Says(k, SuccessTail)
     \/ turn = "failed" /\ Says(k, FailureTail)
     \/ turn = "none" /\ Says(k, <<Ending("error")>>)

StreamInv ==
  /\ StreamTyped /\ TurnInv /\ QueueInv
  /\ \E k \in 0 .. Len(out) : Passing(k) /\ (Streaming(k) \/ Finishing(k))

----------------------------------------------------------------------------
LEMMA StreamInitInv == StreamInit => StreamInv
<1> SUFFICES ASSUME StreamInit PROVE StreamInv
  OBVIOUS
<1>1. StreamTyped
  <2>1. queue \in Seq(Event) /\ tail \in Seq(Final) /\ out \in Seq(Event \cup Final)
    BY EmptySeq DEF StreamInit
  <2>2. 0 \in 0 .. MaxEvents + 1 /\ Len(queue) <= Capacity
    BY StreamAssumption DEF StreamInit
  <2>3. /\ emittedSession \in BOOLEAN /\ emittedText \in BOOLEAN /\ resumable \in BOOLEAN
        /\ finished \in BOOLEAN /\ (finished <=> turn \in TurnEnded)
    BY DEF StreamInit, TurnEnded
  <2>4. /\ turn \in {"none", "setup", "open", "sending"} \cup TurnEnded
        /\ callerSupplied \in BOOLEAN /\ canceling \in BOOLEAN /\ available \in BOOLEAN
        /\ emitted = 0 /\ dropped \in Nat
        /\ reader \in {"start", "ready", "waiting", "yielding", "result",
                       "closing", "ended", "closed"}
    BY DEF StreamInit
  <2> QED BY <2>1, <2>2, <2>3, <2>4 DEF StreamTyped
<1>2. TurnInv /\ QueueInv
  BY DEF StreamInit, TurnInv, QueueInv
<1>4. Passing(0) /\ Streaming(0)
  BY DEF StreamInit, Passing, Streaming, Hidden, AtHead
<1>3. 0 \in 0 .. Len(out)
  BY DEF StreamInit
<1> QED BY <1>1, <1>2, <1>3, <1>4 DEF StreamInv

(* What put leaves in the queue: the events that were there, without the   *)
(* oldest that may go when the queue is full, and the new one last.        *)
Moved(d, i) == IF d = 0 \/ (AtHead /\ i = 1) THEN i ELSE i + 1

LEMMA QueueAfterEmit ==
  ASSUME StreamTyped, NEW kind \in {"session", "delta", "other"}, Emit(kind),
         emitted <= MaxEvents
  PROVE  \E d \in {0, 1} :
           /\ dropped' = dropped + d
           /\ d = 1 => Len(queue) >= 2
           /\ queue' \in Seq(Event)
           /\ Len(queue') = Len(queue) + 1 - d
           /\ Len(queue') <= Capacity
           /\ \A i \in 1 .. Len(queue') - 1 : queue'[i] = queue[Moved(d, i)]
           /\ queue'[Len(queue')] = [kind |-> kind, n |-> emitted + 1]
<1> DEFINE e == [kind |-> kind, n |-> emitted + 1]
<1>1. e \in Event
  BY StreamAssumption DEF StreamTyped, Event
<1>2. queue \in Seq(Event) /\ Len(queue) \in Nat /\ Len(queue) <= Capacity
  BY DEF StreamTyped
<1>3. CASE Len(queue) < Capacity
  <2>1. queue' = Append(queue, e) /\ dropped' = dropped
    BY <1>2, <1>3, StreamAssumption DEF Emit
  <2>2. /\ queue' \in Seq(Event) /\ Len(queue') = Len(queue) + 1
        /\ \A i \in 1 .. Len(queue) : queue'[i] = queue[i]
        /\ queue'[Len(queue) + 1] = e
    BY <1>1, <1>2, <2>1, AppendProperties
  <2>3. /\ dropped' = dropped + 0 /\ Len(queue') = Len(queue) + 1 - 0
        /\ \A i \in 1 .. Len(queue') - 1 : queue'[i] = queue[Moved(0, i)]
    BY <2>1, <2>2, <1>2 DEF Moved, StreamTyped
  <2> QED BY <2>2, <2>3, <1>2, <1>3, StreamAssumption
<1>4. CASE Len(queue) >= Capacity
  <2> DEFINE kept == DropOldest(queue)
  <2>1. queue' = Append(kept, e) /\ dropped' = dropped + 1
    BY <1>2, <1>4, StreamAssumption DEF Emit
  <2>2. Len(queue) = Capacity /\ Len(queue) >= 2
    BY <1>2, <1>4, StreamAssumption
  <2>3. /\ Head(queue) = queue[1] /\ queue[1] \in Event
        /\ Tail(queue) \in Seq(Event) /\ Len(Tail(queue)) = Len(queue) - 1
        /\ \A i \in 1 .. Len(queue) - 1 : Tail(queue)[i] = queue[i + 1]
    BY <1>2, <2>2
  <2>4. /\ kept \in Seq(Event) /\ Len(kept) = Len(queue) - 1
        /\ \A i \in 1 .. Len(queue) - 1 : kept[i] = queue[Moved(1, i)]
    <3>1. CASE queue[1].kind = "session"
      <4> DEFINE rest == SubSeq(queue, 3, Len(queue))
      <4>1. /\ rest \in Seq(Event) /\ Len(rest) = Len(queue) - 2
            /\ \A i \in 1 .. Len(queue) - 2 : rest[i] = queue[i + 2]
        BY <1>2, <2>2
      <4>2. kept = <<queue[1]>> \o rest
        BY <3>1, <2>3 DEF DropOldest
      <4>3. <<queue[1]>> \in Seq(Event) /\ Len(<<queue[1]>>) = 1 /\ <<queue[1]>>[1] = queue[1]
        BY <2>3
      <4> HIDE DEF rest, kept
      <4>4. /\ kept \in Seq(Event) /\ Len(kept) = Len(queue) - 1
            /\ \A i \in 1 .. Len(queue) - 1 :
                 kept[i] = IF i = 1 THEN queue[1] ELSE rest[i - 1]
        BY <4>1, <4>2, <4>3, <1>2, <2>2, ConcatProperties
      <4>5. AtHead
        BY <3>1, <2>2 DEF AtHead
      <4> QED BY <4>4, <4>1, <4>5, <1>2, <2>2 DEF Moved
    <3>2. CASE queue[1].kind # "session"
      <4>1. kept = Tail(queue) /\ ~AtHead
        BY <3>2, <2>3 DEF DropOldest, AtHead
      <4> QED BY <4>1, <2>3 DEF Moved
    <3> QED BY <3>1, <3>2
  <2> HIDE DEF kept
  <2>5. /\ queue' \in Seq(Event) /\ Len(queue') = Len(kept) + 1
        /\ \A i \in 1 .. Len(kept) : queue'[i] = kept[i]
        /\ queue'[Len(kept) + 1] = e
    BY <1>1, <2>4, <2>1, AppendProperties
  <2>6. /\ 1 = 1 => Len(queue) >= 2
        /\ Len(queue') = Len(queue) + 1 - 1 /\ Len(queue') <= Capacity
        /\ \A i \in 1 .. Len(queue') - 1 : queue'[i] = queue[Moved(1, i)]
    BY <1>2, <2>2, <2>4, <2>5
  <2>7. queue'[Len(queue')] = e
    BY <2>4, <2>5, <1>2
  <2> QED BY <2>1, <2>5, <2>6, <2>7
<1> QED BY <1>2, <1>3, <1>4, StreamAssumption

(* An emitted event keeps the order and the count of the events: it is the *)
(* last of the queue, and one that goes is counted as dropped.             *)
LEMMA EmitKeeps ==
  ASSUME StreamTyped, QueueInv, NEW k \in 0 .. Len(out), Passing(k),
         NEW kind \in {"session", "delta", "other"}, Emit(kind), emitted <= MaxEvents,
         kind = "session" <=> emitted = 0,
         UNCHANGED <<callerSupplied, out, emittedSession, emittedText>>
  PROVE  QueueInv' /\ Passing(k)'
<1> DEFINE len == Len(queue)
           len1 == Len(queue')
           new == [kind |-> kind, n |-> emitted + 1]
<1>1. emitted \in Nat /\ emitted' = emitted + 1 /\ len \in Nat /\ k \in Nat /\ dropped \in Nat
  BY DEF StreamTyped, Emit
<1>2. PICK d \in {0, 1} :
        /\ dropped' = dropped + d
        /\ d = 1 => len >= 2
        /\ len1 = len + 1 - d
        /\ \A i \in 1 .. len1 - 1 : queue'[i] = queue[Moved(d, i)]
        /\ queue'[len1] = new
  BY QueueAfterEmit
<1>3. len1 \in Nat /\ len1 >= 1 /\ (d = 1 => len1 >= 2)
  BY <1>1, <1>2
<1>4. \A i \in 1 .. len1 - 1 : Moved(d, i) \in 1 .. len
  BY <1>1, <1>2 DEF Moved
<1>5. \A i, j \in 1 .. len1 - 1 : i < j => Moved(d, i) < Moved(d, j)
  BY <1>1, <1>2 DEF Moved
<1>6. /\ \A i \in 1 .. len : Numbered(queue[i])
      /\ \A i, j \in 1 .. len : i < j => queue[i].n < queue[j].n
  BY DEF QueueInv
<1>7. \A i \in 1 .. len : /\ queue[i].n \in 1 .. emitted
                          /\ queue[i].kind = "session" <=> queue[i].n = 1
  BY <1>6 DEF Numbered
<1>8. new.n = emitted + 1 /\ new.kind = kind
  OBVIOUS
<1>9. \A i \in 1 .. len1 : queue'[i].n \in 1 .. emitted + 1
                           /\ (queue'[i].kind = "session" <=> queue'[i].n = 1)
  <2> SUFFICES ASSUME NEW i \in 1 .. len1
               PROVE  /\ queue'[i].n \in 1 .. emitted + 1
                      /\ queue'[i].kind = "session" <=> queue'[i].n = 1
    OBVIOUS
  <2>1. CASE i = len1
    BY <2>1, <1>1, <1>2, <1>8
  <2>2. CASE i # len1
    <3>1. queue'[i] = queue[Moved(d, i)] /\ Moved(d, i) \in 1 .. len
      BY <2>2, <1>2, <1>3, <1>4
    <3> QED BY <3>1, <1>1, <1>7
  <2> QED BY <2>1, <2>2
<1>10. \A i, j \in 1 .. len1 : i < j => queue'[i].n < queue'[j].n
  <2> SUFFICES ASSUME NEW i \in 1 .. len1, NEW j \in 1 .. len1, i < j
               PROVE  queue'[i].n < queue'[j].n
    OBVIOUS
  <2>1. i \in 1 .. len1 - 1 /\ queue'[i] = queue[Moved(d, i)] /\ Moved(d, i) \in 1 .. len
    BY <1>2, <1>3, <1>4
  <2>2. CASE j = len1
    <3>1. queue'[j] = new /\ queue[Moved(d, i)].n \in 1 .. emitted
      BY <2>1, <2>2, <1>2, <1>7
    <3> QED BY <3>1, <2>1, <1>1, <1>8
  <2>3. CASE j # len1
    <3>1. j \in 1 .. len1 - 1
      BY <2>3, <1>3
    <3>2. queue'[j] = queue[Moved(d, j)] /\ Moved(d, j) \in 1 .. len
      BY <3>1, <1>2, <1>4
    <3>3. Moved(d, i) < Moved(d, j)
      BY <3>1, <2>1, <1>5
    <3> QED BY <3>2, <3>3, <2>1, <1>6
  <2> QED BY <2>2, <2>3
<1>11. QueueInv'
  BY <1>1, <1>9, <1>10 DEF QueueInv, Numbered
<1>12. /\ \A i \in 1 .. k : out[i] \in Event /\ Numbered(out[i])
       /\ \A i \in 1 .. k, j \in 1 .. len : out[i].n < queue[j].n
       /\ emitted = dropped + k + len + Hidden
       /\ ~callerSupplied => (k > 0 <=> emitted > 0 /\ ~AtHead)
  BY DEF Passing
<1>13. \A i \in 1 .. k : out[i].n \in 1 .. emitted
                         /\ (out[i].kind = "session" <=> out[i].n = 1)
  BY <1>12 DEF Numbered
<1>14. \A i \in 1 .. k, j \in 1 .. len1 : out[i].n < queue'[j].n
  <2> SUFFICES ASSUME NEW i \in 1 .. k, NEW j \in 1 .. len1
               PROVE  out[i].n < queue'[j].n
    OBVIOUS
  <2>1. CASE j = len1
    BY <2>1, <1>1, <1>2, <1>8, <1>13
  <2>2. CASE j # len1
    <3>1. queue'[j] = queue[Moved(d, j)] /\ Moved(d, j) \in 1 .. len
      BY <2>2, <1>2, <1>3, <1>4
    <3> QED BY <3>1, <1>12
  <2> QED BY <2>1, <2>2
<1>15. CASE emitted = 0
  <2>1. len = 0
    <3>1. ASSUME 1 \in 1 .. len PROVE FALSE
      <4>1. queue[1].n \in 1 .. 0
        BY <3>1, <1>7, <1>15
      <4> QED BY <4>1
    <3> QED BY <3>1, <1>1
  <2>2. len1 = 1 /\ queue'[1].kind = "session" /\ d = 0
    BY <1>1, <1>2, <1>8, <1>15, <2>1
  <2>3. AtHead'
    BY <2>2 DEF AtHead
  <2>4. Hidden = 0 /\ Hidden' = 0
    BY <1>1, <1>15, <2>3 DEF Hidden
  <2>5. k = 0
    BY <1>1, <1>12, <1>15, <2>4
  <2>6. \A m \in 2 .. emitted' : FALSE
    BY <1>1, <1>15
  <2>7. emitted' = dropped' + k + len1 + Hidden'
    BY <1>1, <1>2, <1>12, <2>2, <2>4, <2>1
  <2> QED BY <1>1, <1>11, <2>3, <2>5, <2>6, <2>7 DEF Passing
<1>16. CASE emitted > 0
  <2>1. kind # "session"
    BY <1>1, <1>16
  <2>2. AtHead' <=> AtHead
    <3>1. CASE len = 0
      <4>1. len1 = 1 /\ queue'[1].kind # "session"
        BY <3>1, <2>1, <1>1, <1>2, <1>8
      <4> QED BY <4>1, <3>1, <1>1, <1>3 DEF AtHead, StreamTyped
    <3>2. CASE len > 0
      <4>1. queue # <<>> /\ queue' # <<>>
        BY <3>2, <1>3
      <4>2. 1 \in 1 .. len1 - 1 /\ queue'[1] = queue[Moved(d, 1)]
        BY <3>2, <1>1, <1>2
      <4>3. CASE AtHead \/ d = 0
        BY <4>1, <4>2, <4>3 DEF AtHead, Moved
      <4>4. CASE ~AtHead /\ d = 1
        <5>1. 1 \in 1 .. len /\ 2 \in 1 .. len /\ queue'[1] = queue[2]
          BY <4>2, <4>4, <1>1, <1>2 DEF Moved
        <5>2. queue[2].n # 1
          BY <5>1, <1>6, <1>7
        <5> QED BY <4>1, <4>4, <5>1, <5>2, <1>7 DEF AtHead
      <4> QED BY <4>3, <4>4
    <3> QED BY <3>1, <3>2, <1>1
  <2>3. Hidden' = Hidden
    BY <2>2, <1>1, <1>16 DEF Hidden
  <2>4. Hidden \in {0, 1}
    BY DEF Hidden
  <2>5. emitted' = dropped' + k + len1 + Hidden'
    <3> DEFINE h == Hidden
               gone == dropped
    <3>1. emitted = gone + k + len + h /\ h \in Nat /\ gone \in Nat
      BY <1>1, <1>12, <2>4
    <3>2. CASE d = 0
      <4>1. dropped' = gone /\ len1 = len + 1
        BY <1>1, <1>2, <3>2
      <4>2. emitted + 1 = gone + k + (len + 1) + h
        <5> HIDE DEF len, h, gone
        <5> QED BY <1>1, <3>1
      <4> QED BY <4>1, <4>2, <2>3, <1>1
    <3>3. CASE d = 1
      <4>1. dropped' = gone + 1 /\ len1 = len
        BY <1>1, <1>2, <3>3
      <4>2. emitted + 1 = (gone + 1) + k + len + h
        <5> HIDE DEF len, h, gone
        <5> QED BY <1>1, <3>1
      <4> QED BY <4>1, <4>2, <2>3, <1>1
    <3> QED BY <3>2, <3>3
  <2>6. dropped' = 0 =>
          \A m \in 2 .. emitted' : \/ \E i \in 1 .. k : out[i].n = m
                                   \/ \E j \in 1 .. len1 : queue'[j].n = m
    <3> SUFFICES ASSUME dropped' = 0, NEW m \in 2 .. emitted + 1,
                        ~\E i \in 1 .. k : out[i].n = m
                 PROVE  \E j \in 1 .. len1 : queue'[j].n = m
      BY <1>1
    <3>1. d = 0 /\ dropped = 0 /\ len1 = len + 1
      BY <1>1, <1>2
    <3>2. CASE m = emitted + 1
      BY <3>2, <1>2, <1>3, <1>8
    <3>3. CASE m # emitted + 1
      <4>1. m \in 2 .. emitted
        BY <3>3, <1>1
      <4>2. PICK j \in 1 .. len : queue[j].n = m
        BY <4>1, <3>1 DEF Passing
      <4>3. j \in 1 .. len1 - 1 /\ j \in 1 .. len1 /\ Moved(d, j) = j
        BY <3>1, <1>1 DEF Moved
      <4> QED BY <4>2, <4>3, <1>2
    <3> QED BY <3>2, <3>3
  <2>7. \A i \in 1 .. k : Numbered(out[i])'
    BY <1>1, <1>13 DEF Numbered
  <2>8. ~callerSupplied => (k > 0 <=> emitted' > 0 /\ ~AtHead')
    BY <1>1, <1>12, <1>16, <2>2
  <2> QED BY <2>5, <2>6, <2>7, <2>8, <1>11, <1>12, <1>14 DEF Passing
<1> QED BY <1>15, <1>16, <1>1

----------------------------------------------------------------------------
(* The steps of the turn: while it runs, the stream is not at its end.     *)
LEMMA RunningStreams ==
  ASSUME NEW k, Streaming(k) \/ Finishing(k), turn \notin {"none", "ok", "failed"}
  PROVE  Streaming(k)
  BY DEF Finishing

LEMMA EmitStep ==
  ASSUME StreamInv, NEW kind \in {"session", "delta", "other"}, Emit(kind),
         emitted <= MaxEvents, kind = "session" <=> emitted = 0,
         turn \in {"open", "sending"}, turn' = "sending",
         UNCHANGED <<callerSupplied, resumable, canceling, readerVars>>
  PROVE  StreamInv'
<1>1. UNCHANGED <<callerSupplied, resumable, canceling, reader, out, tail, emittedSession,
                  emittedText, finished>>
  BY DEF readerVars, seenVars, endVars, Emit
<1>2. StreamTyped /\ TurnInv /\ QueueInv
  BY DEF StreamInv
<1>3. PICK k \in 0 .. Len(out) : Passing(k) /\ (Streaming(k) \/ Finishing(k))
  BY DEF StreamInv
<1>4. Streaming(k)
  BY <1>3, RunningStreams
<1>5. QueueInv' /\ Passing(k)'
  BY <1>1, <1>2, <1>3, EmitKeeps
<1>6. emitted' = emitted + 1 /\ available' = TRUE /\ emitted \in Nat
  BY <1>2 DEF Emit, StreamTyped
<1>7. /\ queue' \in Seq(Event) /\ Len(queue') <= Capacity
      /\ dropped' \in Nat
  BY <1>2, QueueAfterEmit DEF StreamTyped
<1>8. turn \notin TurnEnded /\ turn' \notin TurnEnded
  BY DEF TurnEnded
<1>9. emitted' \in 0 .. MaxEvents + 1
  BY <1>6, StreamAssumption
<1>10. StreamTyped'
  BY <1>1, <1>2, <1>6, <1>7, <1>8, <1>9 DEF StreamTyped
<1>11. TurnInv'
  BY <1>1, <1>2, <1>6, <1>8 DEF TurnInv
<1>12. Streaming(k)'
  BY <1>1, <1>4 DEF Streaming
<1> QED BY <1>1, <1>5, <1>10, <1>11, <1>12, <1>3 DEF StreamInv

(* A step that only moves the turn or the reader on.                       *)
LEMMA MovesOn ==
  ASSUME StreamInv, UNCHANGED <<callerSupplied, emitted, queue, dropped, emittedSession,
                                emittedText, tail, out>>,
         StreamTyped', TurnInv',
         \A k \in 0 .. Len(out) : Streaming(k) => Streaming(k)',
         \A k \in 0 .. Len(out) : Finishing(k) => Finishing(k)'
  PROVE  StreamInv'
<1>1. QueueInv'
  BY DEF StreamInv, QueueInv, Numbered
<1>2. PICK k \in 0 .. Len(out) : Passing(k) /\ (Streaming(k) \/ Finishing(k))
  BY DEF StreamInv
<1>3. AtHead' = AtHead /\ Hidden' = Hidden
  BY DEF AtHead, Hidden
<1>4. \A i : Numbered(out[i])' = Numbered(out[i])
  BY DEF Numbered
<1>5. Passing(k)'
  BY <1>2, <1>3, <1>4 DEF Passing
<1> QED BY <1>1, <1>2, <1>5 DEF StreamInv

LEMMA TurnStep ==
  ASSUME StreamInv, OpenSession \/ AnnounceSession \/ TurnEvent \/ TurnEnds
  PROVE  StreamInv'
<1>1. StreamTyped /\ TurnInv
  BY DEF StreamInv
<1>2. CASE OpenSession
  <2>1. /\ turn = "setup" /\ turn' = "open" /\ resumable' = TRUE
        /\ UNCHANGED <<callerSupplied, emitted, canceling, queue, available, finished, dropped,
                       reader, emittedSession, emittedText, tail, out>>
    BY <1>2 DEF OpenSession, queueVars, readerVars, seenVars, endVars
  <2>2. StreamTyped'
    BY <2>1, <1>1 DEF StreamTyped, TurnEnded
  <2>3. TurnInv'
    BY <2>1, <1>1 DEF TurnInv, TurnEnded
  <2>4. \A k \in 0 .. Len(out) : Streaming(k) => Streaming(k)'
    BY <2>1 DEF Streaming
  <2>5. \A k \in 0 .. Len(out) : Finishing(k) => Finishing(k)'
    BY <2>1 DEF Finishing
  <2> QED BY <2>1, <2>2, <2>3, <2>4, <2>5, MovesOn
<1>3. CASE AnnounceSession
  <2>1. turn = "open" /\ emitted = 0
    BY <1>1, <1>3 DEF AnnounceSession, TurnInv
  <2> QED BY <2>1, <1>3, StreamAssumption, EmitStep DEF AnnounceSession
<1>4. CASE TurnEvent
  <2>1. turn = "sending" /\ emitted > 0 /\ emitted <= MaxEvents /\ turn' = turn
    BY <1>1, <1>4 DEF TurnEvent, TurnInv
  <2>2. PICK kind \in {"delta", "other"} : Emit(kind)
    BY <1>4 DEF TurnEvent
  <2>3. UNCHANGED <<callerSupplied, resumable, canceling, readerVars>>
    BY <1>4 DEF TurnEvent
  <2> QED BY <2>1, <2>2, <2>3, EmitStep
<1>5. CASE TurnEnds
  <2>1. /\ turn \in {"setup", "open", "sending"} /\ turn' \in TurnEnded
        /\ turn' = "ok" => turn = "sending"
        /\ finished' = TRUE /\ available' = TRUE
        /\ UNCHANGED <<callerSupplied, resumable, emitted, canceling, queue, dropped, reader,
                       emittedSession, emittedText, tail, out>>
    BY <1>5 DEF TurnEnds, Finish, TurnEnded, readerVars, seenVars, endVars
  <2>2. StreamTyped'
    BY <2>1, <1>1 DEF StreamTyped
  <2>3. TurnInv'
    BY <2>1, <1>1 DEF TurnInv, TurnEnded
  <2>4. \A k \in 0 .. Len(out) : Streaming(k) => Streaming(k)'
    BY <2>1 DEF Streaming
  <2>5. \A k \in 0 .. Len(out) : Finishing(k) => Finishing(k)'
    BY <2>1 DEF Finishing
  <2> QED BY <2>1, <2>2, <2>3, <2>4, <2>5, MovesOn
<1> QED BY <1>2, <1>3, <1>4, <1>5

(* The steps of the reader that yield nothing.                             *)
LEMMA WaitStep ==
  ASSUME StreamInv, AwaitEvent \/ Awake \/ ClientCloses \/ Closed
  PROVE  StreamInv'
<1>1. StreamTyped /\ TurnInv
  BY DEF StreamInv
<1>2. /\ UNCHANGED <<callerSupplied, turn, resumable, emitted, queue, finished, dropped,
                     emittedSession, emittedText, tail, out>>
      /\ available' \in BOOLEAN /\ canceling' \in BOOLEAN
  BY <1>1 DEF AwaitEvent, Awake, ClientCloses, Closed, turnVars, queueVars, seenVars, endVars,
     StreamTyped
<1>3. \/ /\ reader \in {"ready", "waiting"} /\ reader' \in {"ready", "waiting"}
      \/ /\ reader = "ready" /\ reader' = "result" /\ finished /\ queue = <<>>
      \/ /\ reader' \in {"closing", "closed"}
  BY DEF AwaitEvent, Awake, ClientCloses, Closed
<1>4. StreamTyped'
  BY <1>1, <1>2, <1>3 DEF StreamTyped
<1>5. TurnInv'
  BY <1>1, <1>2, <1>3 DEF TurnInv, StreamTyped
<1>6. \A k \in 0 .. Len(out) : Streaming(k) => Streaming(k)'
  BY <1>2, <1>3 DEF Streaming
<1>7. \A k, ending : Says(k, ending)' = Says(k, ending)
  BY <1>2 DEF Says, Script
<1>8. SuccessTail' = SuccessTail /\ FailureTail' = FailureTail
  BY <1>2 DEF SuccessTail, FailureTail
<1>9. \A k \in 0 .. Len(out) : Finishing(k) => Finishing(k)'
  BY <1>2, <1>3, <1>7, <1>8 DEF Finishing
<1> QED BY <1>2, <1>4, <1>5, <1>6, <1>9, MovesOn

LEMMA StartStep == ASSUME StreamInv, StartStream PROVE StreamInv'
<1>1. StreamTyped /\ TurnInv /\ QueueInv
  BY DEF StreamInv
<1>2. PICK k \in 0 .. Len(out) : Passing(k) /\ (Streaming(k) \/ Finishing(k))
  BY DEF StreamInv
<1>3. /\ reader = "start" /\ turn = "none" /\ emitted = 0
      /\ UNCHANGED <<callerSupplied, resumable, emitted, canceling, queue, available, finished,
                     dropped, emittedSession, emittedText, tail>>
  BY <1>1 DEF StartStream, queueVars, seenVars, TurnInv
<1>4. Streaming(k) /\ k = Len(out) /\ tail = <<>>
  BY <1>2, <1>3 DEF Finishing, Streaming
<1>5. k = 0
  <2>1. \A i \in 1 .. k : FALSE
    BY <1>2, <1>3 DEF Passing, Numbered
  <2> QED BY <2>1, <1>2, <1>1 DEF StreamTyped
<1>6. queue = <<>>
  <2>1. \A i \in 1 .. Len(queue) : FALSE
    BY <1>1, <1>3 DEF QueueInv, Numbered
  <2> QED BY <2>1, <1>1 DEF StreamTyped
<1>7. AtHead' = AtHead /\ Hidden' = Hidden
  BY <1>3 DEF AtHead, Hidden
<1>8. QueueInv'
  BY <1>3, <1>6 DEF QueueInv
<1>9. CASE turn' = "setup" /\ reader' = "ready" /\ UNCHANGED <<tail, out>>
  <2>1. StreamTyped' /\ TurnInv'
    BY <1>1, <1>3, <1>9 DEF StreamTyped, TurnInv, TurnEnded
  <2>2. \A m : Numbered(out[m])' = Numbered(out[m])
    BY <1>3, <1>9 DEF Numbered
  <2>3. Passing(k)'
    BY <1>2, <1>3, <1>7, <1>9, <2>2 DEF Passing
  <2>4. Streaming(k)'
    BY <1>4, <1>9 DEF Streaming
  <2> QED BY <2>1, <2>3, <2>4, <1>2, <1>8, <1>9 DEF StreamInv
<1>10. CASE out' = <<Ending("error")>> /\ reader' = "yielding" /\ UNCHANGED turn
  <2>1. /\ out' \in Seq(Event \cup Final) /\ Len(out') = 1 /\ out'[1] = Ending("error")
    BY <1>10 DEF Ending, Final
  <2>2. StreamTyped'
    BY <1>1, <1>3, <1>10, <2>1 DEF StreamTyped
  <2>3. TurnInv'
    BY <1>1, <1>3, <1>10, <1>6 DEF TurnInv
  <2>4. Passing(0)'
    BY <1>2, <1>3, <1>5, <1>6, <1>7 DEF Passing
  <2>5. Says(0, <<Ending("error")>>)'
    BY <1>3, <1>4, <2>1 DEF Says, Script, Ending
  <2>6. Finishing(0)'
    BY <1>3, <1>6, <1>10, <2>5 DEF Finishing
  <2> QED BY <2>1, <2>2, <2>3, <2>4, <2>6, <1>8 DEF StreamInv
<1> QED BY <1>9, <1>10 DEF StartStream

(* The head of the queue is the next event of the turn: it is yielded, or  *)
(* it is the session of a caller who named it.                             *)
LEMMA TakeStep == ASSUME StreamInv, TakeEvent PROVE StreamInv'
<1> DEFINE e == Head(queue)
<1>1. StreamTyped /\ TurnInv /\ QueueInv
  BY DEF StreamInv
<1>2. PICK k \in 0 .. Len(out) : Passing(k) /\ (Streaming(k) \/ Finishing(k))
  BY DEF StreamInv
<1>3. /\ reader = "ready" /\ queue # <<>> /\ queue' = Tail(queue)
      /\ emittedSession' = (emittedSession \/ e.kind = "session")
      /\ emittedText' = (emittedText \/ e.kind = "delta")
      /\ available' \in BOOLEAN
      /\ \/ e.kind = "session" /\ emittedSession /\ UNCHANGED <<reader, out>>
         \/ /\ e.kind # "session" \/ ~emittedSession
            /\ reader' = "yielding" /\ out' = Append(out, e)
      /\ UNCHANGED <<callerSupplied, turn, resumable, emitted, canceling, finished, dropped,
                     tail>>
  BY <1>1 DEF TakeEvent, turnVars, StreamTyped
<1>4. Streaming(k) /\ k = Len(out) /\ tail = <<>>
  BY <1>2, <1>3 DEF Finishing, Streaming
<1>5. /\ e = queue[1] /\ e \in Event /\ Len(queue) \in Nat /\ Len(queue) >= 1
      /\ queue' \in Seq(Event) /\ Len(queue') = Len(queue) - 1
      /\ \A i \in 1 .. Len(queue) - 1 : queue'[i] = queue[i + 1]
  BY <1>1, <1>3 DEF StreamTyped
<1>6. \A i \in 1 .. Len(queue') : i + 1 \in 1 .. Len(queue) /\ queue'[i] = queue[i + 1]
  BY <1>5
<1> HIDE DEF e
<1>7. Numbered(e) /\ e.n >= 1 /\ emitted >= 1 /\ emitted \in Nat /\ e.n \in Nat
  BY <1>1, <1>5 DEF QueueInv, Numbered, StreamTyped
<1>8. \A i \in 1 .. Len(queue') : Numbered(queue'[i]) /\ e.n < queue'[i].n
  BY <1>1, <1>5, <1>6 DEF QueueInv
<1>9. QueueInv'
  <2>1. \A i, j \in 1 .. Len(queue') : i < j => queue'[i].n < queue'[j].n
    <3> SUFFICES ASSUME NEW i \in 1 .. Len(queue'), NEW j \in 1 .. Len(queue'), i < j
                 PROVE  queue'[i].n < queue'[j].n
      OBVIOUS
    <3>1. i + 1 \in 1 .. Len(queue) /\ j + 1 \in 1 .. Len(queue) /\ i + 1 < j + 1
      BY <1>5, <1>6
    <3>2. queue[i + 1].n < queue[j + 1].n
      BY <3>1, <1>1 DEF QueueInv
    <3> QED BY <3>2, <1>6
  <2>2. \A i \in 1 .. Len(queue') : Numbered(queue[i])'
    BY <1>3, <1>8 DEF Numbered
  <2> QED BY <2>1, <2>2 DEF QueueInv
<1>10. ~AtHead'
  <2>1. ASSUME queue' # <<>> PROVE queue'[1].kind # "session"
    <3>1. 1 \in 1 .. Len(queue')
      BY <2>1, <1>5
    <3>2. Numbered(queue'[1]) /\ e.n < queue'[1].n
      BY <3>1, <1>8
    <3> QED BY <3>2, <1>7 DEF Numbered
  <2> QED BY <2>1 DEF AtHead
<1>11. AtHead <=> e.kind = "session"
  BY <1>3, <1>5 DEF AtHead
<1>12. /\ emittedSession' \in BOOLEAN /\ emittedText' \in BOOLEAN
       /\ emittedSession' <=> emittedSession \/ e.kind = "session"
       /\ emittedText' <=> emittedText \/ e.kind = "delta"
  BY <1>3
<1>13. Len(queue') <= Capacity
  BY <1>1, <1>5, StreamAssumption DEF StreamTyped
<1>14. \A i \in 1 .. k : out[i].n < e.n
  BY <1>2, <1>5 DEF Passing
<1>15. k \in Nat /\ dropped \in Nat /\ emitted = dropped + k + Len(queue) + Hidden
  BY <1>1, <1>2 DEF Passing, StreamTyped
<1>16. CASE e.kind = "session" /\ emittedSession /\ UNCHANGED <<reader, out>>
  <2>1. e.n = 1
    BY <1>7, <1>16 DEF Numbered
  <2>2. k = 0
    <3>1. \A i \in 1 .. k : FALSE
      BY <1>14, <2>1, <1>2 DEF Passing, Numbered
    <3> QED BY <3>1, <1>15
  <2>3. callerSupplied
    BY <2>2, <1>2, <1>16 DEF Passing
  <2>4. Hidden = 0 /\ Hidden' = 1
    BY <2>3, <1>3, <1>7, <1>10, <1>11, <1>16 DEF Hidden
  <2>5. emitted' = dropped' + k + Len(queue') + Hidden'
    BY <1>3, <1>5, <1>15, <2>2, <2>4
  <2>6. emittedSession' /\ ~emittedText'
    <3>1. ~emittedText
      BY <1>2, <2>2 DEF Passing
    <3> QED BY <3>1, <1>12, <1>16
  <2>7. dropped' = 0 =>
          \A m \in 2 .. emitted' : \E j \in 1 .. Len(queue') : queue'[j].n = m
    <3> SUFFICES ASSUME dropped = 0, NEW m \in 2 .. emitted
                 PROVE  \E j \in 1 .. Len(queue') : queue'[j].n = m
      BY <1>3
    <3>1. PICK j \in 1 .. Len(queue) : queue[j].n = m
      BY <1>2, <2>2 DEF Passing
    <3>2. j # 1
      BY <3>1, <2>1, <1>5
    <3>3. j - 1 \in 1 .. Len(queue') /\ queue'[j - 1] = queue[j]
      BY <3>2, <1>5
    <3> QED BY <3>1, <3>3
  <2>8. Passing(k)'
    <3>1. k = 0 /\ callerSupplied' = callerSupplied
      BY <1>3, <2>2
    <3>2. \A i \in 1 .. k : FALSE
      BY <3>1
    <3> QED BY <3>1, <3>2, <2>3, <2>5, <2>6, <2>7 DEF Passing
  <2>9. StreamTyped' /\ TurnInv'
    BY <1>1, <1>3, <1>5, <1>12, <1>13, <1>16 DEF StreamTyped, TurnInv
  <2>10. Streaming(k)'
    BY <1>3, <1>4, <1>16 DEF Streaming
  <2> QED BY <2>8, <2>9, <2>10, <1>2, <1>9, <1>16 DEF StreamInv
<1>17. CASE /\ e.kind # "session" \/ ~emittedSession
            /\ reader' = "yielding" /\ out' = Append(out, e)
  <2>1. e \in Event \cup Final /\ out \in Seq(Event \cup Final)
    BY <1>1, <1>5 DEF StreamTyped
  <2>2. /\ out' \in Seq(Event \cup Final) /\ Len(out') = k + 1
        /\ \A i \in 1 .. k : out'[i] = out[i]
        /\ out'[k + 1] = e
    BY <2>1, <1>4, <1>17, AppendProperties
  <2>3. \A i \in 1 .. k + 1 : out'[i] \in Event /\ Numbered(out[i])'
    <3> SUFFICES ASSUME NEW i \in 1 .. k + 1
                 PROVE  out'[i] \in Event /\ Numbered(out[i])'
      OBVIOUS
    <3>1. CASE i = k + 1
      BY <3>1, <2>2, <1>3, <1>5, <1>7 DEF Numbered
    <3>2. CASE i # k + 1
      <4>1. i \in 1 .. k /\ out'[i] = out[i]
        BY <3>2, <2>2, <1>15
      <4> QED BY <4>1, <1>2, <1>3 DEF Passing, Numbered
    <3> QED BY <3>1, <3>2
  <2>4. \A i, j \in 1 .. k + 1 : i < j => out'[i].n < out'[j].n
    <3> SUFFICES ASSUME NEW i \in 1 .. k + 1, NEW j \in 1 .. k + 1, i < j
                 PROVE  out'[i].n < out'[j].n
      OBVIOUS
    <3>1. i \in 1 .. k /\ out'[i] = out[i]
      BY <2>2, <1>15
    <3>2. CASE j = k + 1
      BY <3>1, <3>2, <2>2, <1>14
    <3>3. CASE j # k + 1
      <4>1. j \in 1 .. k /\ out'[j] = out[j]
        BY <3>3, <2>2, <1>15
      <4> QED BY <3>1, <4>1, <1>2 DEF Passing
    <3> QED BY <3>2, <3>3
  <2>5. \A i \in 1 .. k + 1, j \in 1 .. Len(queue') : out'[i].n < queue'[j].n
    <3> SUFFICES ASSUME NEW i \in 1 .. k + 1, NEW j \in 1 .. Len(queue')
                 PROVE  out'[i].n < queue'[j].n
      OBVIOUS
    <3>1. CASE i = k + 1
      BY <3>1, <2>2, <1>8
    <3>2. CASE i # k + 1
      <4>1. i \in 1 .. k /\ out'[i] = out[i]
        BY <3>2, <2>2, <1>15
      <4>2. j + 1 \in 1 .. Len(queue) /\ queue'[j] = queue[j + 1]
        BY <1>6
      <4> QED BY <4>1, <4>2, <1>2 DEF Passing
    <3> QED BY <3>1, <3>2
  <2>6. Hidden' = Hidden
    <3>1. CASE callerSupplied
      <4>1. emittedSession
        BY <3>1, <1>2 DEF Passing
      <4> QED BY <4>1, <1>3, <1>10, <1>11, <1>17 DEF Hidden
    <3>2. CASE ~callerSupplied
      BY <3>2, <1>3 DEF Hidden
    <3> QED BY <3>1, <3>2
  <2>7. emitted' = dropped' + (k + 1) + Len(queue') + Hidden'
    <3>1. Hidden \in Nat
      BY DEF Hidden
    <3>2. Len(queue) = Len(queue') + 1 /\ Len(queue') \in Nat
      BY <1>5
    <3> QED BY <3>1, <3>2, <2>6, <1>3, <1>15
  <2>8. callerSupplied => \A i \in 1 .. k + 1 : out'[i].kind # "session"
    <3> SUFFICES ASSUME callerSupplied, NEW i \in 1 .. k + 1
                 PROVE  out'[i].kind # "session"
      OBVIOUS
    <3>1. CASE i = k + 1
      <4>1. emittedSession
        BY <1>2 DEF Passing
      <4> QED BY <3>1, <4>1, <1>17, <2>2
    <3>2. CASE i # k + 1
      <4>1. i \in 1 .. k /\ out'[i] = out[i]
        BY <3>2, <2>2, <1>15
      <4> QED BY <4>1, <1>2 DEF Passing
    <3> QED BY <3>1, <3>2
  <2>9. ~callerSupplied /\ k = 0 => e.kind = "session"
    BY <1>2, <1>7, <1>11 DEF Passing
  <2>10. ~callerSupplied => out'[1].n = 1
    <3>1. CASE k = 0
      BY <3>1, <2>2, <2>9, <1>7 DEF Numbered
    <3>2. CASE k > 0
      BY <3>2, <2>2, <1>2, <1>15 DEF Passing
    <3> QED BY <3>1, <3>2, <1>15
  <2>11. emittedSession'
    <3>1. emittedSession <=> callerSupplied \/ k > 0
      BY <1>2 DEF Passing
    <3> QED BY <3>1, <1>12, <1>15, <2>9
  <2>12. emittedText' => \E i \in 1 .. k + 1 : out'[i].kind = "delta"
    <3>1. CASE e.kind = "delta"
      BY <3>1, <2>2, <1>15
    <3>2. CASE e.kind # "delta"
      <4> SUFFICES ASSUME emittedText PROVE \E i \in 1 .. k + 1 : out'[i].kind = "delta"
        BY <3>2, <1>3
      <4>1. PICK i \in 1 .. k : out[i].kind = "delta"
        BY <1>2 DEF Passing
      <4> QED BY <4>1, <2>2, <1>15
    <3> QED BY <3>1, <3>2
  <2>13. dropped' = 0 =>
           \A m \in 2 .. emitted' : \/ \E i \in 1 .. k + 1 : out'[i].n = m
                                    \/ \E j \in 1 .. Len(queue') : queue'[j].n = m
    <3> SUFFICES ASSUME dropped = 0, NEW m \in 2 .. emitted,
                        ~\E i \in 1 .. k + 1 : out'[i].n = m
                 PROVE  \E j \in 1 .. Len(queue') : queue'[j].n = m
      BY <1>3
    <3>1. ~\E i \in 1 .. k : out[i].n = m
      BY <2>2, <1>15
    <3>2. PICK j \in 1 .. Len(queue) : queue[j].n = m
      BY <3>1, <1>2 DEF Passing
    <3>3. j # 1
      BY <3>2, <2>2, <1>5, <1>15
    <3>4. j - 1 \in 1 .. Len(queue') /\ queue'[j - 1] = queue[j]
      BY <3>3, <1>5
    <3> QED BY <3>2, <3>4
  <2>14. ~callerSupplied' => (k + 1 > 0 <=> emitted' > 0 /\ ~AtHead')
    BY <1>3, <1>7, <1>10, <1>15
  <2>15. Passing(k + 1)'
    <3> DEFINE k1 == k + 1
    <3>1. k1 > 0 /\ callerSupplied' = callerSupplied
      BY <1>3, <1>15
    <3> HIDE DEF k1
    <3> SUFFICES Passing(k1)'
      BY DEF k1
    <3>2. \A i \in 1 .. k1 : out'[i] \in Event /\ Numbered(out[i])'
      BY <2>3 DEF k1
    <3>3. \A i, j \in 1 .. k1 : i < j => out'[i].n < out'[j].n
      BY <2>4 DEF k1
    <3>4. \A i \in 1 .. k1, j \in 1 .. Len(queue') : out'[i].n < queue'[j].n
      BY <2>5 DEF k1
    <3>5. emitted' = dropped' + k1 + Len(queue') + Hidden'
      BY <2>7 DEF k1
    <3>6. callerSupplied' => \A i \in 1 .. k1 : out'[i].kind # "session"
      BY <3>1, <2>8 DEF k1
    <3>7. ~callerSupplied' => (k1 > 0 <=> emitted' > 0 /\ ~AtHead')
      BY <2>14 DEF k1
    <3>8. k1 > 0 /\ ~callerSupplied' => out'[1].n = 1
      BY <3>1, <2>10
    <3>9. emittedSession' <=> callerSupplied' \/ k1 > 0
      BY <3>1, <2>11
    <3>10. emittedText' => \E i \in 1 .. k1 : out'[i].kind = "delta"
      BY <2>12 DEF k1
    <3>11. dropped' = 0 =>
             \A m \in 2 .. emitted' : \/ \E i \in 1 .. k1 : out'[i].n = m
                                      \/ \E j \in 1 .. Len(queue') : queue'[j].n = m
      BY <2>13 DEF k1
    <3> QED BY <3>2, <3>3, <3>4, <3>5, <3>6, <3>7, <3>8, <3>9, <3>10, <3>11 DEF Passing
  <2>16. StreamTyped'
    BY <1>1, <1>3, <1>5, <1>12, <1>13, <1>17, <2>2 DEF StreamTyped
  <2>17. TurnInv'
    BY <1>1, <1>3, <1>17 DEF TurnInv
  <2>18. Streaming(k + 1)'
    BY <1>3, <1>4, <1>15, <1>17, <2>2 DEF Streaming
  <2> QED BY <2>15, <2>16, <2>17, <2>18, <2>2, <1>9, <1>15 DEF StreamInv
<1> QED BY <1>3, <1>16, <1>17

----------------------------------------------------------------------------
(* The end of the stream. At least one event of the turn was not dropped.  *)
LEMMA DroppedBound ==
  ASSUME StreamTyped, QueueInv, NEW k \in 0 .. Len(out), Passing(k)
  PROVE  dropped <= MaxEvents
<1>1. /\ emitted \in Nat /\ emitted <= MaxEvents + 1 /\ dropped \in Nat /\ k \in Nat
      /\ Len(queue) \in Nat /\ MaxEvents \in Nat
  BY StreamAssumption DEF StreamTyped
<1>2. emitted = dropped + k + Len(queue) + Hidden /\ Hidden \in {0, 1}
  BY DEF Passing, Hidden
<1>3. CASE emitted = 0
  BY <1>1, <1>2, <1>3
<1>4. CASE emitted > 0
  <2>1. CASE AtHead
    <3>1. Len(queue) >= 1
      BY <2>1, <1>1 DEF AtHead, StreamTyped
    <3> QED BY <3>1, <1>1, <1>2
  <2>2. CASE ~AtHead /\ callerSupplied
    <3>1. Hidden = 1
      BY <2>2, <1>4 DEF Hidden
    <3> QED BY <3>1, <1>1, <1>2
  <2>3. CASE ~AtHead /\ ~callerSupplied
    <3>1. k > 0
      BY <2>3, <1>4 DEF Passing
    <3> QED BY <3>1, <1>1, <1>2
  <2> QED BY <2>1, <2>2, <2>3
<1> QED BY <1>1, <1>3, <1>4

LEMMA EndingsTyped ==
  ASSUME dropped \in Nat, dropped <= MaxEvents
  PROVE  /\ SuccessTail \in Seq(Final) /\ SuccessTail # <<>>
         /\ FailureTail \in Seq(Final) /\ FailureTail # <<>>
<1>1. \A kind \in {"session", "message", "delta", "done", "error"} : Ending(kind) \in Final
  BY DEF Ending, Final
<1>2. ASSUME dropped > 0 PROVE [kind |-> "truncated", n |-> dropped] \in Final
  BY <1>2, StreamAssumption DEF Final
<1>3. /\ Ending("session") \in Final /\ Ending("message") \in Final /\ Ending("delta") \in Final
      /\ Ending("done") \in Final /\ Ending("error") \in Final
  BY <1>1
<1> HIDE DEF Final
<1>4. SuccessTail \in Seq(Final) /\ SuccessTail # <<>>
  BY <1>2, <1>3 DEF SuccessTail
<1>5. FailureTail \in Seq(Final) /\ FailureTail # <<>>
  BY <1>3 DEF FailureTail
<1> QED BY <1>4, <1>5

LEMMA EndingsShape ==
  \/ /\ dropped > 0 /\ Len(SuccessTail) = 3
     /\ SuccessTail[1] = [kind |-> "truncated", n |-> dropped]
     /\ SuccessTail[2] = Ending("message") /\ SuccessTail[3] = Ending("done")
  \/ /\ ~(dropped > 0) /\ dropped = 0 /\ ~emittedText /\ Len(SuccessTail) = 2
     /\ SuccessTail[1] = Ending("delta") /\ SuccessTail[2] = Ending("done")
  \/ /\ ~(dropped > 0) /\ ~(dropped = 0 /\ ~emittedText)
     /\ Len(SuccessTail) = 1 /\ SuccessTail[1] = Ending("done")
<1>1. CASE dropped > 0
  <2>1. SuccessTail =
          <<[kind |-> "truncated", n |-> dropped], Ending("message"), Ending("done")>>
    BY <1>1 DEF SuccessTail
  <2> QED BY <1>1, <2>1
<1>2. CASE ~(dropped > 0) /\ dropped = 0 /\ ~emittedText
  <2>1. SuccessTail = <<Ending("delta"), Ending("done")>>
    BY <1>2 DEF SuccessTail
  <2> QED BY <1>2, <2>1
<1>3. CASE ~(dropped > 0) /\ ~(dropped = 0 /\ ~emittedText)
  <2>1. SuccessTail = <<Ending("done")>>
    BY <1>3 DEF SuccessTail
  <2> QED BY <1>3, <2>1
<1> QED BY <1>1, <1>2, <1>3

(* Yielding one of the events that end the stream says nothing else.       *)
LEMMA YieldKeeps ==
  ASSUME StreamTyped, QueueInv, NEW k \in 0 .. Len(out), Passing(k),
         NEW events \in Seq(Final), events # <<>>, Yield(events),
         UNCHANGED <<callerSupplied, turn, resumable, emitted, canceling, queue, available,
                     finished, dropped, emittedSession, emittedText>>
  PROVE  /\ StreamTyped' /\ QueueInv' /\ Passing(k)' /\ k \in 0 .. Len(out')
         /\ Len(out') = Len(out) + 1 /\ Len(tail') = Len(events) - 1 /\ Len(events) >= 1
         /\ \A i \in 1 .. Len(out) : Script(i)' = out[i]
         /\ \A i \in 1 .. Len(events), j \in Nat : j = Len(out) + i => Script(j)' = events[i]
         /\ SuccessTail' = SuccessTail /\ FailureTail' = FailureTail
<1>1. /\ out' = Append(out, Head(events)) /\ tail' = Tail(events) /\ reader' = "yielding"
  BY DEF Yield
<1>2. /\ Head(events) \in Final /\ Head(events) = events[1]
      /\ Len(events) \in Nat /\ Len(events) >= 1
      /\ tail' \in Seq(Final) /\ Len(tail') = Len(events) - 1
      /\ \A i \in 1 .. Len(events) - 1 : tail'[i] = events[i + 1]
  BY <1>1
<1>3. out \in Seq(Event \cup Final) /\ Head(events) \in Event \cup Final /\ Len(out) \in Nat
  BY <1>2 DEF StreamTyped
<1>4. /\ out' \in Seq(Event \cup Final) /\ Len(out') = Len(out) + 1
      /\ \A i \in 1 .. Len(out) : out'[i] = out[i]
      /\ out'[Len(out) + 1] = Head(events)
  BY <1>1, <1>3, AppendProperties
<1>5. StreamTyped'
  BY <1>1, <1>2, <1>4 DEF StreamTyped
<1>6. QueueInv'
  BY DEF QueueInv, Numbered
<1>7. AtHead' = AtHead /\ Hidden' = Hidden
  BY DEF AtHead, Hidden
<1>8. \A i \in 1 .. k : out'[i] = out[i]
  BY <1>3, <1>4
<1>9. \A i \in 1 .. k : out'[i] \in Event /\ Numbered(out[i])'
  BY <1>8 DEF Passing, Numbered
<1>10. k > 0 => out'[1] = out[1]
  BY <1>8
<1>11. Passing(k)'
  <2>1. \A i, j \in 1 .. k : i < j => out'[i].n < out'[j].n
    BY <1>8 DEF Passing
  <2>2. \A i \in 1 .. k, j \in 1 .. Len(queue) : out'[i].n < queue[j].n
    BY <1>8 DEF Passing
  <2>3. callerSupplied => \A i \in 1 .. k : out'[i].kind # "session"
    BY <1>8 DEF Passing
  <2>4. emittedText => \E i \in 1 .. k : out'[i].kind = "delta"
    BY <1>8 DEF Passing
  <2>5. dropped = 0 =>
          \A m \in 2 .. emitted : \/ \E i \in 1 .. k : out'[i].n = m
                                  \/ \E j \in 1 .. Len(queue) : queue[j].n = m
    BY <1>8 DEF Passing
  <2>6. /\ emitted = dropped + k + Len(queue) + Hidden
        /\ ~callerSupplied => (k > 0 <=> emitted > 0 /\ ~AtHead)
        /\ k > 0 /\ ~callerSupplied => out'[1].n = 1
        /\ emittedSession <=> callerSupplied \/ k > 0
    BY <1>10 DEF Passing
  <2> QED BY <1>7, <1>9, <2>1, <2>2, <2>3, <2>4, <2>5, <2>6 DEF Passing
<1>12. \A i \in 1 .. Len(out) : Script(i)' = out[i]
  BY <1>3, <1>4 DEF Script
<1>13. \A i \in 1 .. Len(events), j \in Nat : j = Len(out) + i => Script(j)' = events[i]
  <2> SUFFICES ASSUME NEW i \in 1 .. Len(events), NEW j \in Nat, j = Len(out) + i
               PROVE  Script(j)' = events[i]
    OBVIOUS
  <2>1. CASE i = 1
    <3>1. j <= Len(out') /\ out'[j] = events[i]
      BY <2>1, <1>2, <1>3, <1>4
    <3> QED BY <3>1, <1>3 DEF Script
  <2>2. CASE i # 1
    <3>1. ~(j <= Len(out')) /\ j - Len(out') = i - 1
      BY <2>2, <1>2, <1>3, <1>4
    <3>2. i - 1 \in 1 .. Len(events) - 1 /\ tail'[i - 1] = events[i]
      BY <2>2, <1>2
    <3> QED BY <3>1, <3>2 DEF Script
  <2> QED BY <2>1, <2>2
<1>14. SuccessTail' = SuccessTail /\ FailureTail' = FailureTail
  BY DEF SuccessTail, FailureTail
<1> QED BY <1>2, <1>3, <1>4, <1>5, <1>6, <1>11, <1>12, <1>13, <1>14

LEMMA ResultStep == ASSUME StreamInv, TakeResult PROVE StreamInv'
<1>1. StreamTyped /\ TurnInv /\ QueueInv
  BY DEF StreamInv
<1>2. PICK k \in 0 .. Len(out) : Passing(k) /\ (Streaming(k) \/ Finishing(k))
  BY DEF StreamInv
<1>3. /\ reader = "result" /\ turn \in TurnEnded
      /\ UNCHANGED <<callerSupplied, turn, resumable, emitted, canceling, queue, available,
                     finished, dropped, emittedSession, emittedText>>
  BY DEF TakeResult, turnVars, queueVars, seenVars
<1>4. queue = <<>>
  BY <1>1, <1>3 DEF TurnInv
<1>5. Streaming(k) /\ k = Len(out)
  BY <1>2, <1>3 DEF Finishing, Streaming
<1>6. ASSUME NEW ending \in Seq(Final), ending # <<>>, Yield(ending)
      PROVE  /\ StreamTyped' /\ TurnInv' /\ QueueInv' /\ Passing(k)' /\ k \in 0 .. Len(out')
             /\ Says(k, ending)'
             /\ SuccessTail' = SuccessTail /\ FailureTail' = FailureTail
             /\ reader' = "yielding" /\ queue' = <<>> /\ turn' = turn
  <2>1. reader' = "yielding"
    BY <1>6 DEF Yield
  <2>2. TurnInv'
    BY <2>1, <1>1, <1>3 DEF TurnInv
  <2>3. /\ StreamTyped' /\ QueueInv' /\ Passing(k)' /\ k \in 0 .. Len(out')
        /\ Len(out') = k + 1 /\ Len(tail') = Len(ending) - 1 /\ Len(ending) >= 1
        /\ \A i \in 1 .. Len(ending) : Script(k + i)' = ending[i]
        /\ SuccessTail' = SuccessTail /\ FailureTail' = FailureTail
    <3>1. \A i \in 1 .. Len(ending), j \in Nat : j = Len(out) + i => Script(j)' = ending[i]
      BY <1>1, <1>2, <1>3, <1>6, YieldKeeps
    <3>2. \A i \in 1 .. Len(ending) : k + i \in Nat /\ k + i = Len(out) + i
      BY <1>5, <1>2
    <3>3. \A i \in 1 .. Len(ending) : Script(k + i)' = ending[i]
      BY <3>1, <3>2
    <3> QED BY <3>3, <1>1, <1>2, <1>3, <1>5, <1>6, YieldKeeps
  <2>4. Len(ending) \in Nat /\ k \in Nat
    BY <1>2
  <2>5. Says(k, ending)'
    BY <2>3, <2>4 DEF Says
  <2> QED BY <2>1, <2>2, <2>3, <2>5, <1>3, <1>4
<1>7. /\ SuccessTail \in Seq(Final) /\ SuccessTail # <<>>
      /\ FailureTail \in Seq(Final) /\ FailureTail # <<>>
  BY <1>1, <1>2, DroppedBound, EndingsTyped DEF StreamTyped
<1>8. CASE turn = "ok" /\ Yield(SuccessTail)
  <2>1. PICK ending : ending = SuccessTail
    OBVIOUS
  <2>2. /\ StreamTyped' /\ TurnInv' /\ QueueInv' /\ Passing(k)' /\ k \in 0 .. Len(out')
        /\ Says(k, ending)'
        /\ SuccessTail' = ending
        /\ reader' = "yielding" /\ queue' = <<>> /\ turn' = "ok"
    BY <2>1, <1>6, <1>7, <1>8
  <2>3. Finishing(k)'
    BY <2>2 DEF Finishing
  <2> QED BY <2>2, <2>3 DEF StreamInv
<1>9. CASE turn = "failed" /\ Yield(FailureTail)
  <2>1. PICK ending : ending = FailureTail
    OBVIOUS
  <2>2. /\ StreamTyped' /\ TurnInv' /\ QueueInv' /\ Passing(k)' /\ k \in 0 .. Len(out')
        /\ Says(k, ending)'
        /\ FailureTail' = ending
        /\ reader' = "yielding" /\ queue' = <<>> /\ turn' = "failed"
    BY <2>1, <1>6, <1>7, <1>9
  <2>3. Finishing(k)'
    BY <2>2 DEF Finishing
  <2> QED BY <2>2, <2>3 DEF StreamInv
<1>10. CASE turn = "canceled" /\ reader' = "closed" /\ UNCHANGED <<tail, out>>
  <2>1. StreamTyped' /\ TurnInv'
    BY <1>1, <1>3, <1>10 DEF StreamTyped, TurnInv
  <2>2. \A j \in 0 .. Len(out) : Streaming(j) => Streaming(j)'
    BY <1>10 DEF Streaming
  <2>3. \A j \in 0 .. Len(out) : ~Finishing(j)
    BY <1>3 DEF Finishing
  <2> QED BY <2>1, <2>2, <2>3, <1>3, <1>10, MovesOn
<1> QED BY <1>8, <1>9, <1>10 DEF TakeResult

LEMMA ReadStep == ASSUME StreamInv, ClientReads PROVE StreamInv'
<1>1. StreamTyped /\ TurnInv /\ QueueInv
  BY DEF StreamInv
<1>2. PICK k \in 0 .. Len(out) : Passing(k) /\ (Streaming(k) \/ Finishing(k))
  BY DEF StreamInv
<1>3. /\ reader = "yielding"
      /\ UNCHANGED <<callerSupplied, turn, resumable, emitted, canceling, queue, available,
                     finished, dropped, emittedSession, emittedText>>
  BY DEF ClientReads, turnVars, queueVars, seenVars
<1>4. /\ Len(out) \in Nat /\ Len(tail) \in Nat /\ k \in Nat
      /\ tail \in Seq(Final) /\ out \in Seq(Event \cup Final)
  BY <1>1, <1>2 DEF StreamTyped
<1>5. CASE tail # <<>> /\ Yield(tail)
  <2>1. Finishing(k)
    BY <1>2, <1>5 DEF Streaming
  <2>2. PICK rest \in Seq(Final) : rest = tail
    BY <1>4
  <2>3. /\ StreamTyped' /\ QueueInv' /\ Passing(k)' /\ k \in 0 .. Len(out')
        /\ Len(out') = Len(out) + 1 /\ Len(tail') = Len(rest) - 1
        /\ \A i \in 1 .. Len(out) : Script(i)' = out[i]
        /\ Len(rest) >= 1
        /\ \A i \in 1 .. Len(rest), j \in Nat : j = Len(out) + i => Script(j)' = rest[i]
        /\ SuccessTail' = SuccessTail /\ FailureTail' = FailureTail
    BY <1>1, <1>2, <1>3, <1>5, <2>2, YieldKeeps
  <2>4. \A i \in 1 .. Len(out) + Len(tail) : Script(i)' = Script(i)
    <3> SUFFICES ASSUME NEW i \in 1 .. Len(out) + Len(tail) PROVE Script(i)' = Script(i)
      OBVIOUS
    <3>1. CASE i <= Len(out)
      BY <3>1, <2>3, <1>4 DEF Script
    <3>2. CASE i > Len(out)
      <4>1. /\ i - Len(out) \in 1 .. Len(rest) /\ i \in Nat
            /\ i = Len(out) + (i - Len(out))
        BY <3>2, <1>4, <2>2
      <4>2. Script(i)' = rest[i - Len(out)]
        BY <4>1, <2>3
      <4>3. Script(i) = tail[i - Len(out)]
        BY <3>2, <1>4 DEF Script
      <4> QED BY <4>2, <4>3, <2>2
    <3> QED BY <3>1, <3>2, <1>4
  <2>5. ASSUME NEW ending, Len(ending) \in Nat, Says(k, ending) PROVE Says(k, ending)'
    <3>1. /\ Len(out) + Len(tail) = k + Len(ending)
          /\ \A i \in 1 .. Len(ending) : Script(k + i) = ending[i]
          /\ k < Len(out)
      BY <2>5 DEF Says
    <3>2. Len(out') = Len(out) + 1 /\ Len(tail') = Len(tail) - 1
      BY <2>2, <2>3
    <3>4. k < Len(out') /\ Len(out') + Len(tail') = k + Len(ending)
      <4> DEFINE o == Len(out)
                 t == Len(tail)
                 n == Len(ending)
      <4>1. o \in Nat /\ t \in Nat /\ n \in Nat /\ k \in Nat
        BY <2>5, <1>4
      <4>2. o + t = k + n /\ k < o
        BY <3>1
      <4>3. Len(out') = o + 1 /\ Len(tail') = t - 1
        BY <3>2
      <4> HIDE DEF o, t, n
      <4>4. k < Len(out') /\ Len(out') + Len(tail') = k + n
        BY <4>1, <4>2, <4>3
      <4> QED BY <4>4 DEF n
    <3>3. \A i \in 1 .. Len(ending) : Script(k + i)' = ending[i]
      <4> SUFFICES ASSUME NEW i \in 1 .. Len(ending) PROVE Script(k + i)' = ending[i]
        OBVIOUS
      <4>1. k + i \in 1 .. Len(out) + Len(tail)
        BY <3>1, <2>5, <1>4
      <4> QED BY <4>1, <3>1, <2>4
    <3> QED BY <3>3, <3>4 DEF Says
  <2>6. Len(SuccessTail) \in Nat /\ Len(FailureTail) \in Nat /\ Len(<<Ending("error")>>) \in Nat
    <3>1. SuccessTail \in Seq(Final) /\ FailureTail \in Seq(Final)
      BY <1>1, <1>2, DroppedBound, EndingsTyped DEF StreamTyped
    <3> QED BY <3>1
  <2>7. PICK success, failure, refusal :
           success = SuccessTail /\ failure = FailureTail /\ refusal = <<Ending("error")>>
    OBVIOUS
  <2>8. \/ turn = "ok" /\ Says(k, success)
        \/ turn = "failed" /\ Says(k, failure)
        \/ turn = "none" /\ Says(k, refusal)
    BY <2>1, <2>7 DEF Finishing
  <2>9. \/ turn = "ok" /\ Says(k, success)'
        \/ turn = "failed" /\ Says(k, failure)'
        \/ turn = "none" /\ Says(k, refusal)'
    BY <2>5, <2>6, <2>7, <2>8
  <2>10. success = SuccessTail' /\ failure = FailureTail' /\ refusal = <<Ending("error")>>'
    BY <2>3, <2>7 DEF Ending
  <2>11. reader' = "yielding" /\ queue' = <<>> /\ turn' = turn
    BY <2>1, <1>3, <1>5 DEF Finishing, Yield
  <2>12. Finishing(k)'
    BY <2>9, <2>10, <2>11 DEF Finishing
  <2>13. TurnInv'
    BY <2>11, <1>1, <1>3 DEF TurnInv
  <2> QED BY <2>3, <2>12, <2>13 DEF StreamInv
<1>6. CASE /\ tail = <<>> /\ UNCHANGED <<tail, out>>
           /\ reader' = IF out[Len(out)].kind \in {"done", "error"} THEN "ended" ELSE "ready"
  <2>1. CASE Streaming(k)
    <3>1. k = Len(out) /\ k > 0
      BY <2>1, <1>3 DEF Streaming
    <3>2. out[k] \in Event /\ Numbered(out[k])
      BY <3>1, <1>2, <1>4 DEF Passing
    <3>3. out[Len(out)].kind \notin {"done", "error"} /\ emitted > 0
      BY <3>1, <3>2, <1>1 DEF Event, Numbered, StreamTyped
    <3>4. reader' = "ready" /\ turn # "none"
      BY <3>3, <1>1, <1>6 DEF TurnInv
    <3>5. StreamTyped' /\ TurnInv'
      BY <3>4, <1>1, <1>3, <1>6 DEF StreamTyped, TurnInv
    <3>6. Streaming(k)'
      BY <3>4, <2>1, <1>6 DEF Streaming
    <3>7. QueueInv' /\ Passing(k)'
      <4>1. AtHead' = AtHead /\ Hidden' = Hidden /\ (\A e : Numbered(e)' = Numbered(e))
        BY <1>3 DEF AtHead, Hidden, Numbered
      <4>2. QueueInv'
        BY <4>1, <1>1, <1>3 DEF QueueInv
      <4>3. \A i : Numbered(out[i])' = Numbered(out[i])
        BY <1>3, <1>6 DEF Numbered
      <4> QED BY <4>1, <4>2, <4>3, <1>2, <1>3, <1>6 DEF Passing
    <3> QED BY <3>5, <3>6, <3>7, <1>2, <1>6 DEF StreamInv
  <2>2. CASE Finishing(k)
    <3>1. PICK ending :
             /\ Says(k, ending)
             /\ ending \in {SuccessTail, FailureTail, <<Ending("error")>>}
      BY <2>2 DEF Finishing
    <3>2. /\ Len(ending) \in Nat /\ Len(ending) >= 1
          /\ ending[Len(ending)].kind \in {"done", "error"}
      <4>1. /\ Len(SuccessTail) \in 1 .. 3 /\ SuccessTail[Len(SuccessTail)].kind = "done"
        BY EndingsShape DEF Ending
      <4>2. /\ Len(FailureTail) \in 1 .. 2 /\ FailureTail[Len(FailureTail)].kind = "error"
        BY DEF FailureTail, Ending
      <4>3. ASSUME ending = <<Ending("error")>>
            PROVE  Len(ending) = 1 /\ ending[1].kind = "error"
        BY <4>3 DEF Ending
      <4>4. CASE ending = SuccessTail
        BY <4>1, <4>4
      <4>5. CASE ending = FailureTail
        BY <4>2, <4>5
      <4> QED BY <3>1, <4>3, <4>4, <4>5
    <3>3. Len(out) = k + Len(ending) /\ Script(k + Len(ending)) = ending[Len(ending)]
      BY <3>1, <3>2, <1>4, <1>6 DEF Says
    <3>4. out[Len(out)] = ending[Len(ending)]
      BY <3>3, <1>4 DEF Script
    <3>5. reader' = "ended"
      BY <3>2, <3>4, <1>6
    <3>6. StreamTyped' /\ TurnInv'
      BY <3>5, <1>1, <1>3, <1>6 DEF StreamTyped, TurnInv
    <3>7. \A j : Finishing(j) => Finishing(j)'
      <4>1. \A j, e : Says(j, e)' = Says(j, e)
        BY <1>3, <1>6 DEF Says, Script
      <4>2. SuccessTail' = SuccessTail /\ FailureTail' = FailureTail
        BY <1>3 DEF SuccessTail, FailureTail
      <4> QED BY <4>1, <4>2, <3>5, <1>3 DEF Finishing
    <3>8. QueueInv' /\ Passing(k)'
      <4>1. AtHead' = AtHead /\ Hidden' = Hidden /\ (\A e : Numbered(e)' = Numbered(e))
        BY <1>3 DEF AtHead, Hidden, Numbered
      <4>2. QueueInv'
        BY <4>1, <1>1, <1>3 DEF QueueInv
      <4>3. \A i : Numbered(out[i])' = Numbered(out[i])
        BY <1>3, <1>6 DEF Numbered
      <4> QED BY <4>1, <4>2, <4>3, <1>2, <1>3, <1>6 DEF Passing
    <3> QED BY <3>6, <3>7, <3>8, <2>2, <1>2, <1>6 DEF StreamInv
  <2> QED BY <2>1, <2>2, <1>2
<1> QED BY <1>5, <1>6 DEF ClientReads

LEMMA StreamNextInv == StreamInv /\ [StreamNext]_streamVars => StreamInv'
<1> SUFFICES ASSUME StreamInv, [StreamNext]_streamVars PROVE StreamInv'
  OBVIOUS
<1>1. CASE StreamNext
  BY <1>1, TurnStep, WaitStep, StartStep, TakeStep, ResultStep, ReadStep
  DEF StreamNext, StreamStep
<1>2. CASE UNCHANGED streamVars
  <2>1. UNCHANGED <<callerSupplied, turn, resumable, emitted, canceling, queue, available,
                    finished, dropped, reader, emittedSession, emittedText, tail, out>>
    BY <1>2 DEF streamVars, turnVars, queueVars, readerVars, seenVars, endVars
  <2>2. StreamTyped' /\ TurnInv'
    BY <2>1 DEF StreamInv, StreamTyped, TurnInv
  <2>3. \A k, ending : Says(k, ending)' = Says(k, ending)
    BY <2>1 DEF Says, Script
  <2>4. SuccessTail' = SuccessTail /\ FailureTail' = FailureTail
    BY <2>1 DEF SuccessTail, FailureTail
  <2>5. \A k \in 0 .. Len(out) : (Streaming(k) => Streaming(k)') /\ (Finishing(k) => Finishing(k)')
    BY <2>1, <2>3, <2>4 DEF Streaming, Finishing
  <2> QED BY <2>1, <2>2, <2>5, MovesOn
<1> QED BY <1>1, <1>2

(* The strengthening of what the client is told, on which the theorems     *)
(* about the stream rest (_StreamEventQueue, run_agent_stream).            *)
THEOREM StreamInvariance == StreamSpec => []StreamInv
<1> QED BY StreamInitInv, StreamNextInv, PTL DEF StreamSpec

----------------------------------------------------------------------------
(* What has been yielded: the events of the turn, then its ending.         *)
LEMMA YieldedShape ==
  ASSUME StreamInv
  PROVE  \E k \in 0 .. Len(out) :
           /\ Passing(k) /\ (Streaming(k) \/ Finishing(k))
           /\ k \in Nat /\ Len(out) \in Nat
           /\ \A i \in 1 .. k : Numbered(out[i]) /\ out[i].kind \in {"session", "delta", "other"}
           /\ Passed = 1 .. k
           /\ Len(out) > k => Finishing(k)
<1>1. StreamTyped
  BY DEF StreamInv
<1>2. PICK k \in 0 .. Len(out) : Passing(k) /\ (Streaming(k) \/ Finishing(k))
  BY DEF StreamInv
<1>3. k \in Nat /\ Len(out) \in Nat
  BY <1>1 DEF StreamTyped
<1>4. \A i \in 1 .. k : Numbered(out[i]) /\ out[i].kind \in {"session", "delta", "other"}
  BY <1>2 DEF Passing, Event
<1>5. Len(out) > k => Finishing(k)
  BY <1>2, <1>3 DEF Streaming
<1>6. ASSUME NEW i \in 1 .. Len(out), i > k
      PROVE  out[i].kind = "truncated" \/ out[i].n = 0
  <2>1. i - k \in Nat /\ i - k >= 1 /\ k + (i - k) = i
    BY <1>3, <1>6
  <2>2. out[i] = Script(k + (i - k))
    BY <2>1 DEF Script
  <2>3. Finishing(k)
    BY <1>3, <1>5, <1>6
  <2>4. PICK ending : /\ Says(k, ending)
                      /\ ending \in {SuccessTail, FailureTail, <<Ending("error")>>}
    BY <2>3 DEF Finishing
  <2>5. Len(ending) \in Nat
    BY <2>4, EndingsShape DEF FailureTail
  <2>6. i - k <= Len(ending)
    <3> DEFINE o == Len(out)
               t == Len(tail)
               n == Len(ending)
    <3>1. o \in Nat /\ t \in Nat /\ n \in Nat /\ o + t = k + n /\ i <= o /\ i \in Nat
      BY <1>1, <1>3, <1>6, <2>4, <2>5 DEF StreamTyped, Says
    <3> HIDE DEF o, t, n
    <3>2. i - k <= n
      BY <1>3, <3>1
    <3> QED BY <3>2 DEF n
  <2>7. out[i] = ending[i - k]
    BY <2>1, <2>2, <2>4, <2>5, <2>6 DEF Says
  <2>8. \A j \in 1 .. Len(ending) : ending[j].kind = "truncated" \/ ending[j].n = 0
    <3>1. \A j \in 1 .. Len(SuccessTail) :
            SuccessTail[j].kind = "truncated" \/ SuccessTail[j].n = 0
      BY EndingsShape DEF Ending
    <3>2. \A j \in 1 .. Len(FailureTail) : FailureTail[j].n = 0
      BY DEF FailureTail, Ending
    <3>3. ending = <<Ending("error")>> => Len(ending) = 1 /\ ending[1].n = 0
      BY DEF Ending
    <3> QED BY <2>4, <3>1, <3>2, <3>3
  <2> QED BY <2>1, <2>5, <2>6, <2>7, <2>8
<1>7. Passed = 1 .. k
  <2>1. ASSUME NEW i \in 1 .. k PROVE i \in Passed
    <3>1. i \in 1 .. Len(out)
      BY <1>2, <1>3
    <3>2. out[i].n > 0 /\ out[i].kind # "truncated"
      BY <1>4 DEF Numbered
    <3> QED BY <3>1, <3>2 DEF Passed
  <2>2. ASSUME NEW i \in Passed PROVE i \in 1 .. k
    <3>1. i \in 1 .. Len(out) /\ out[i].n > 0 /\ out[i].kind # "truncated"
      BY <2>2 DEF Passed
    <3>2. ~(i > k)
      BY <3>1, <1>6
    <3> QED BY <3>1, <3>2, <1>3
  <2> QED BY <2>1, <2>2
<1> QED BY <1>2, <1>3, <1>4, <1>5, <1>7

(* What ends the stream, element by element.                               *)
LEMMA EndingSaid ==
  ASSUME StreamTyped, NEW k \in Nat, NEW i \in 1 .. Len(out), i > k, Finishing(k)
  PROVE  \/ /\ turn = "ok" /\ i - k \in 1 .. Len(SuccessTail) /\ out[i] = SuccessTail[i - k]
            /\ i <= Len(out) /\ Len(out) <= k + Len(SuccessTail)
         \/ /\ turn = "failed" /\ i - k \in 1 .. Len(FailureTail)
            /\ out[i] = FailureTail[i - k]
            /\ i <= Len(out) /\ Len(out) <= k + Len(FailureTail)
         \/ /\ turn = "none" /\ i = k + 1 /\ i = Len(out) /\ out[i] = Ending("error")
<1>1. ASSUME NEW ending, Len(ending) \in Nat, Says(k, ending)
      PROVE  /\ i - k \in 1 .. Len(ending) /\ out[i] = ending[i - k]
             /\ i <= Len(out) /\ Len(out) <= k + Len(ending)
  <2> DEFINE o == Len(out)
             t == Len(tail)
             n == Len(ending)
  <2>1. o \in Nat /\ t \in Nat /\ n \in Nat /\ o + t = k + n /\ i \in 1 .. o
    BY <1>1 DEF StreamTyped, Says
  <2>2. i - k \in 1 .. n /\ k + (i - k) = i /\ i <= o /\ o <= k + n
    <3> HIDE DEF o, t, n
    <3> QED BY <2>1
  <2>3. Script(k + (i - k)) = ending[i - k]
    BY <1>1, <2>2 DEF Says
  <2> QED BY <2>2, <2>3 DEF Script
<1>2. Len(SuccessTail) \in Nat
  BY EndingsShape
<1>3. Len(FailureTail) \in Nat
  BY DEF FailureTail
<1>4. CASE turn = "ok" /\ Says(k, SuccessTail)
  BY <1>1, <1>2, <1>4
<1>5. CASE turn = "failed" /\ Says(k, FailureTail)
  BY <1>1, <1>3, <1>5
<1>6. CASE turn = "none" /\ Says(k, <<Ending("error")>>)
  <2>1. PICK refusal : refusal = <<Ending("error")>>
    OBVIOUS
  <2>2. Len(refusal) = 1 /\ refusal[1] = Ending("error")
    BY <2>1
  <2>3. i - k \in 1 .. 1 /\ out[i] = refusal[i - k] /\ i <= Len(out) /\ Len(out) <= k + 1
    BY <1>1, <1>6, <2>1, <2>2
  <2>4. i - k = 1 /\ i = k + 1 /\ i = Len(out)
    BY <2>3 DEF StreamTyped
  <2> QED BY <1>6, <2>2, <2>3, <2>4
<1> QED BY <1>4, <1>5, <1>6 DEF Finishing

(* The same, kind by kind.                                                 *)
LEMMA EndingKinds ==
  ASSUME StreamTyped, NEW k \in Nat, NEW i \in 1 .. Len(out), i > k, Finishing(k)
  PROVE  /\ out[i].kind = "done" =>
              /\ turn = "ok" /\ i = Len(out) /\ i = k + Len(SuccessTail)
         /\ out[i].kind = "error" =>
              /\ turn \in {"failed", "none"} /\ i = Len(out)
              /\ turn = "failed" => i = k + Len(FailureTail)
         /\ out[i].kind = "session" =>
              /\ turn = "failed" /\ resumable /\ ~emittedSession /\ i = k + 1
         /\ out[i].kind \in {"message", "truncated"} => turn = "ok" /\ dropped > 0
<1>1. Len(out) \in Nat
  BY DEF StreamTyped
<1>2. CASE /\ turn = "ok" /\ i - k \in 1 .. Len(SuccessTail) /\ out[i] = SuccessTail[i - k]
           /\ i <= Len(out) /\ Len(out) <= k + Len(SuccessTail)
  <2>1. /\ out[i].kind \notin {"error", "session"}
        /\ out[i].kind = "done" => i - k = Len(SuccessTail) /\ Len(SuccessTail) \in Nat
        /\ out[i].kind \in {"message", "truncated"} => dropped > 0
    <3>1. \A j \in 1 .. Len(SuccessTail) :
            /\ SuccessTail[j].kind \notin {"error", "session"}
            /\ SuccessTail[j].kind = "done" =>
                 j = Len(SuccessTail) /\ Len(SuccessTail) \in Nat
            /\ SuccessTail[j].kind \in {"message", "truncated"} => dropped > 0
      <4>1. CASE /\ dropped > 0 /\ Len(SuccessTail) = 3
                 /\ SuccessTail[1] = [kind |-> "truncated", n |-> dropped]
                 /\ SuccessTail[2] = Ending("message") /\ SuccessTail[3] = Ending("done")
        <5>1. /\ SuccessTail[1].kind = "truncated" /\ SuccessTail[2].kind = "message"
              /\ SuccessTail[3].kind = "done"
          BY <4>1 DEF Ending
        <5>2. \A j \in 1 .. 3 : j = 1 \/ j = 2 \/ j = 3
          OBVIOUS
        <5> QED BY <4>1, <5>1, <5>2
      <4>2. CASE /\ Len(SuccessTail) = 2
                 /\ SuccessTail[1] = Ending("delta") /\ SuccessTail[2] = Ending("done")
        <5>1. SuccessTail[1].kind = "delta" /\ SuccessTail[2].kind = "done"
          BY <4>2 DEF Ending
        <5>2. \A j \in 1 .. 2 : j = 1 \/ j = 2
          OBVIOUS
        <5> QED BY <4>2, <5>1, <5>2
      <4>3. CASE Len(SuccessTail) = 1 /\ SuccessTail[1] = Ending("done")
        BY <4>3 DEF Ending
      <4> QED BY <4>1, <4>2, <4>3, EndingsShape
    <3>2. PICK j \in 1 .. Len(SuccessTail) : j = i - k /\ out[i] = SuccessTail[j]
      BY <1>2
    <3>3. /\ out[i].kind \notin {"error", "session"}
          /\ out[i].kind = "done" => j = Len(SuccessTail) /\ Len(SuccessTail) \in Nat
          /\ out[i].kind \in {"message", "truncated"} => dropped > 0
      BY <3>1, <3>2
    <3> QED BY <3>2, <3>3
  <2>2. out[i].kind = "done" => i = k + Len(SuccessTail) /\ i = Len(out)
    BY <1>1, <1>2, <2>1
  <2> QED BY <1>2, <2>1, <2>2
<1>3. CASE /\ turn = "failed" /\ i - k \in 1 .. Len(FailureTail) /\ out[i] = FailureTail[i - k]
           /\ i <= Len(out) /\ Len(out) <= k + Len(FailureTail)
  <2>1. CASE resumable /\ ~emittedSession
    <3>1. /\ Len(FailureTail) = 2 /\ FailureTail[1] = Ending("session")
          /\ FailureTail[2] = Ending("error")
      BY <2>1 DEF FailureTail
    <3>2. \/ i - k = 1 /\ out[i].kind = "session"
          \/ i - k = 2 /\ out[i].kind = "error"
      <4>1. FailureTail[1].kind = "session" /\ FailureTail[2].kind = "error"
        BY <3>1 DEF Ending
      <4>2. i - k = 1 \/ i - k = 2
        BY <3>1, <1>1, <1>3
      <4> QED BY <4>1, <4>2, <1>3
    <3> QED BY <3>1, <3>2, <2>1, <1>1, <1>3
  <2>2. CASE ~(resumable /\ ~emittedSession)
    <3>1. Len(FailureTail) = 1 /\ FailureTail[1] = Ending("error")
      BY <2>2 DEF FailureTail
    <3>2. i - k = 1 /\ out[i].kind = "error"
      BY <3>1, <1>3 DEF Ending
    <3> QED BY <3>1, <3>2, <1>1, <1>3
  <2> QED BY <2>1, <2>2
<1>4. CASE turn = "none" /\ i = k + 1 /\ i = Len(out) /\ out[i] = Ending("error")
  BY <1>4 DEF Ending
<1> QED BY <1>2, <1>3, <1>4, EndingSaid

LEMMA InvSessionFirst == StreamInv => SessionFirst
<1> SUFFICES ASSUME StreamInv PROVE SessionFirst
  OBVIOUS
<1>1. StreamTyped /\ TurnInv
  BY DEF StreamInv
<1>2. PICK k \in 0 .. Len(out) :
        /\ Passing(k) /\ (Streaming(k) \/ Finishing(k))
        /\ k \in Nat /\ Len(out) \in Nat
        /\ \A i \in 1 .. k : Numbered(out[i]) /\ out[i].kind \in {"session", "delta", "other"}
        /\ Passed = 1 .. k
        /\ Len(out) > k => Finishing(k)
  BY YieldedShape
<1>3. ASSUME NEW i \in 1 .. Len(out), out[i].kind = "session"
      PROVE  i = 1 /\ ~callerSupplied
  <2>1. CASE i > k
    <3>1. Finishing(k)
      BY <1>2, <2>1
    <3>2. ~emittedSession /\ i = k + 1
      BY <1>1, <1>2, <1>3, <2>1, <3>1, EndingKinds
    <3> QED BY <3>2, <1>2 DEF Passing
  <2>2. CASE i <= k
    <3>1. i \in 1 .. k
      BY <1>2, <2>2
    <3>2. out[i].n = 1 /\ ~callerSupplied
      BY <3>1, <1>2, <1>3 DEF Numbered, Passing
    <3>3. ASSUME i # 1 PROVE FALSE
      <4>1. 1 \in 1 .. k /\ 1 < i
        BY <3>1, <3>3, <1>2
      <4>2. out[1].n < out[i].n /\ out[1].n \in Nat /\ out[1].n >= 1
        BY <4>1, <3>1, <1>2 DEF Passing, Numbered
      <4> QED BY <4>2, <3>2
    <3> QED BY <3>2, <3>3
  <2> QED BY <1>2, <2>1, <2>2
<1>4. Yielded("session") \subseteq {1} /\ (callerSupplied => Yielded("session") = {})
  BY <1>3 DEF Yielded
<1>5. ASSUME ~callerSupplied, k > 0 PROVE 1 \in Yielded("session")
  <2>1. 1 \in 1 .. k /\ 1 \in 1 .. Len(out) /\ out[1].n = 1
    BY <1>2, <1>5 DEF Passing
  <2> QED BY <2>1, <1>2 DEF Yielded, Numbered
<1>6. ASSUME ~callerSupplied, NEW i \in 1 .. Len(out),
             out[i].kind = "done" \/ (out[i].kind = "error" /\ resumable)
      PROVE  1 \in Yielded("session")
  <2>1. i > k /\ Finishing(k)
    BY <1>2, <1>6
  <2>2. \/ turn = "ok"
        \/ turn \in {"failed", "none"} /\ resumable
    BY <2>1, <1>1, <1>2, <1>6, EndingKinds
  <2>3. CASE turn = "ok"
    <3>1. emitted > 0 /\ ~AtHead
      BY <2>1, <2>3, <1>1 DEF Finishing, AtHead, TurnInv
    <3>2. k > 0
      BY <3>1, <1>2, <1>6 DEF Passing
    <3> QED BY <3>2, <1>5, <1>6
  <2>4. CASE turn = "failed" /\ resumable /\ k = 0
    <3>1. ~emittedSession
      BY <2>4, <1>2, <1>6 DEF Passing
    <3>2. /\ Len(FailureTail) = 2 /\ FailureTail[1] = Ending("session")
      BY <2>4, <3>1 DEF FailureTail
    <3>3. 1 \in 1 .. Len(out) /\ 1 > k /\ 1 - k = 1
      BY <2>1, <2>4, <1>2
    <3>4. out[1] = Ending("session")
      BY <3>2, <3>3, <2>1, <2>4, <1>1, <1>2, EndingSaid
    <3> QED BY <3>3, <3>4 DEF Yielded, Ending
  <2>5. ~(turn = "none" /\ resumable)
    BY <1>1 DEF TurnInv
  <2> QED BY <2>2, <2>3, <2>4, <2>5, <1>2, <1>5, <1>6
<1>7. ASSUME ~callerSupplied,
             Passed # {} \/ Yielded("done") # {} \/ (resumable /\ Yielded("error") # {})
      PROVE  1 \in Yielded("session")
  <2>1. CASE Passed # {}
    <3>1. k > 0
      BY <2>1, <1>2
    <3> QED BY <3>1, <1>5, <1>7
  <2>2. CASE Yielded("done") # {}
    BY <2>2, <1>6, <1>7 DEF Yielded
  <2>3. CASE resumable /\ Yielded("error") # {}
    BY <2>3, <1>6, <1>7 DEF Yielded
  <2> QED BY <2>1, <2>2, <2>3, <1>7
<1> QED BY <1>4, <1>7 DEF SessionFirst

LEMMA InvDropsAccounted == StreamInv => DropsAccounted
<1> SUFFICES ASSUME StreamInv PROVE DropsAccounted
  OBVIOUS
<1>1. StreamTyped /\ TurnInv
  BY DEF StreamInv
<1>2. PICK k \in 0 .. Len(out) :
        /\ Passing(k) /\ (Streaming(k) \/ Finishing(k))
        /\ k \in Nat /\ Len(out) \in Nat
        /\ \A i \in 1 .. k : Numbered(out[i]) /\ out[i].kind \in {"session", "delta", "other"}
        /\ Passed = 1 .. k
        /\ Len(out) > k => Finishing(k)
  BY YieldedShape
<1>3. \A i, j \in Passed : i < j => out[i].n < out[j].n
  BY <1>2 DEF Passing
<1>4. ASSUME NEW last \in Yielded("done")
      PROVE  LET hidden == IF callerSupplied THEN 1 ELSE 0
                 missing == emitted - hidden - Cardinality(Passed)
             IN  IF missing = 0
                 THEN Yielded("truncated") = {} /\ Yielded("message") = {}
                 ELSE \E i \in Yielded("truncated") :
                        out[i].n = missing /\ out[i + 1].kind = "message"
  <2> DEFINE hidden == IF callerSupplied THEN 1 ELSE 0
             missing == emitted - hidden - Cardinality(Passed)
  <2>1. last \in 1 .. Len(out) /\ out[last].kind = "done" /\ last > k /\ Finishing(k)
    BY <1>2 DEF Yielded
  <2>2. turn = "ok" /\ last = Len(out) /\ Len(out) = k + Len(SuccessTail)
    BY <2>1, <1>1, <1>2, EndingKinds
  <2>3. emitted > 0 /\ queue = <<>> /\ ~AtHead
    BY <2>1, <2>2, <1>1 DEF TurnInv, Finishing, AtHead
  <2>4. Hidden = hidden /\ hidden \in Nat
    BY <2>3 DEF Hidden
  <2>5. Cardinality(Passed) = k
    <3>1. Cardinality(1 .. k) = k
      BY <1>2, FS_Interval
    <3> QED BY <3>1, <1>2
  <2>6. missing = dropped /\ dropped \in Nat
    <3>1. emitted = dropped + k + Len(queue) + Hidden /\ Len(queue) = 0 /\ dropped \in Nat
      BY <1>1, <1>2, <2>3 DEF Passing, StreamTyped
    <3> QED BY <3>1, <2>4, <2>5, <1>2
  <2>7. ASSUME dropped = 0
        PROVE  Yielded("truncated") = {} /\ Yielded("message") = {}
    <3>1. ASSUME NEW i \in 1 .. Len(out), out[i].kind \in {"truncated", "message"} PROVE FALSE
      <4>1. i > k
        BY <3>1, <1>2
      <4>2. StreamTyped /\ k \in Nat /\ Finishing(k)
        BY <2>1, <1>1, <1>2
      <4>3. dropped > 0
        BY <4>1, <4>2, <3>1, EndingKinds
      <4> QED BY <4>3, <2>7
    <3> QED BY <3>1 DEF Yielded
  <2>8. ASSUME dropped > 0
        PROVE  \E i \in Yielded("truncated") : out[i].n = dropped /\ out[i + 1].kind = "message"
    <3>1. /\ Len(SuccessTail) = 3
          /\ SuccessTail[1] = [kind |-> "truncated", n |-> dropped]
          /\ SuccessTail[2] = Ending("message")
      BY <2>8, EndingsShape
    <3>2. /\ k + 1 \in 1 .. Len(out) /\ k + 1 > k /\ (k + 1) - k = 1
          /\ k + 2 \in 1 .. Len(out) /\ k + 2 > k /\ (k + 2) - k = 2 /\ (k + 1) + 1 = k + 2
      BY <3>1, <2>2, <1>2
    <3>3. out[k + 1] = SuccessTail[1]
      BY <3>2, <2>1, <2>2, <1>1, <1>2, EndingSaid
    <3>4. out[k + 2] = SuccessTail[2]
      BY <3>2, <2>1, <2>2, <1>1, <1>2, EndingSaid
    <3>5. k + 1 \in Yielded("truncated") /\ out[k + 1].n = dropped
      BY <3>1, <3>2, <3>3 DEF Yielded
    <3>6. out[(k + 1) + 1].kind = "message"
      BY <3>1, <3>2, <3>4 DEF Ending
    <3> QED BY <3>5, <3>6
  <2>9. IF missing = 0
        THEN Yielded("truncated") = {} /\ Yielded("message") = {}
        ELSE \E i \in Yielded("truncated") :
               out[i].n = missing /\ out[i + 1].kind = "message"
    <3> HIDE DEF missing
    <3> QED BY <2>6, <2>7, <2>8
  <2> QED BY <2>9
<1> QED BY <1>3, <1>4 DEF DropsAccounted

LEMMA InvVerdictHonest == StreamInv => VerdictHonest
<1> SUFFICES ASSUME StreamInv PROVE VerdictHonest
  OBVIOUS
<1>1. StreamTyped /\ TurnInv
  BY DEF StreamInv
<1>2. PICK k \in 0 .. Len(out) :
        /\ Passing(k) /\ (Streaming(k) \/ Finishing(k))
        /\ k \in Nat /\ Len(out) \in Nat
        /\ \A i \in 1 .. k : Numbered(out[i]) /\ out[i].kind \in {"session", "delta", "other"}
        /\ Passed = 1 .. k
        /\ Len(out) > k => Finishing(k)
  BY YieldedShape
<1>3. ASSUME NEW i \in 1 .. Len(out), out[i].kind \in {"done", "error"}
      PROVE  i > k /\ Finishing(k)
  BY <1>2, <1>3
<1>4. ASSUME NEW i \in 1 .. Len(out), out[i].kind = "error"
      PROVE  i = Len(out) /\ turn \in {"failed", "none"}
  BY <1>1, <1>2, <1>3, <1>4, EndingKinds
<1>5. ASSUME NEW i \in 1 .. Len(out), out[i].kind = "done"
      PROVE  i = Len(out) /\ turn = "ok" /\ Yielded("delta") \cup Yielded("message") # {}
  <2>1. i > k /\ Finishing(k)
    BY <1>3, <1>5
  <2>2. turn = "ok" /\ i = Len(out) /\ i = k + Len(SuccessTail)
    BY <2>1, <1>1, <1>2, <1>5, EndingKinds
  <2>3. ASSUME NEW j \in 1 .. Len(SuccessTail), Len(SuccessTail) \in Nat
        PROVE  k + j \in 1 .. Len(out) /\ out[k + j] = SuccessTail[j]
    <3>1. k + j \in 1 .. Len(out) /\ k + j > k /\ (k + j) - k = j
      BY <2>2, <2>3, <1>2
    <3> QED BY <3>1, <2>1, <2>2, <1>1, <1>2, EndingSaid
  <2>4. CASE dropped > 0
    <3>1. k + 2 \in 1 .. Len(out) /\ out[k + 2] = Ending("message")
      BY <2>3, <2>4, EndingsShape
    <3>2. k + 2 \in Yielded("message")
      BY <3>1 DEF Yielded, Ending
    <3> QED BY <3>2, <2>2
  <2>5. CASE ~(dropped > 0) /\ ~emittedText
    <3>1. dropped = 0
      BY <2>5, <1>1 DEF StreamTyped
    <3>2. k + 1 \in 1 .. Len(out) /\ out[k + 1] = Ending("delta")
      BY <3>1, <2>3, <2>5, EndingsShape
    <3>3. k + 1 \in Yielded("delta")
      BY <3>2 DEF Yielded, Ending
    <3> QED BY <3>3, <2>2
  <2>6. CASE emittedText
    <3>1. PICK j \in 1 .. k : out[j].kind = "delta"
      BY <2>6, <1>2 DEF Passing
    <3>2. j \in Yielded("delta")
      BY <3>1, <1>2 DEF Yielded
    <3> QED BY <3>2, <2>2
  <2> QED BY <2>4, <2>5, <2>6
<1> QED BY <1>4, <1>5 DEF VerdictHonest, Yielded

LEMMA InvStreamTypeOK == StreamInv => StreamTypeOK
<1> SUFFICES ASSUME StreamInv PROVE StreamTypeOK
  OBVIOUS
<1>1. StreamTyped /\ dropped <= MaxEvents
  BY DroppedBound DEF StreamInv
<1>2. finished = (turn \in TurnEnded)
  BY <1>1 DEF StreamTyped
<1>3. dropped \in 0 .. MaxEvents
  BY <1>1 DEF StreamTyped
<1> QED BY <1>1, <1>2, <1>3 DEF StreamTyped, StreamTypeOK

----------------------------------------------------------------------------
(* One call's record.                                                      *)
CallRecord ==
  [known : BOOLEAN, custom : BOOLEAN, completed : BOOLEAN,
   result : {"none", "native", "wrapper", "failure"},
   startEmitted : BOOLEAN, endEmitted : BOOLEAN,
   reserved : BOOLEAN, claimed : BOOLEAN, startId : Ids \cup {NoId}, ambiguous : BOOLEAN,
   closed : BOOLEAN, seen : SUBSET Ids, noted : BOOLEAN, spans : Nat]

(* A host tool's call is reserved before its interval can be timed, so a   *)
(* call is measured by its wrapper or by its native events, never by both. *)
MeasuredInv(c, r) ==
  /\ c \notin HostCalls => ~r.custom /\ ~r.claimed /\ ~r.reserved
  /\ c \in HostCalls => r.startId = NoId
  /\ r.custom <=> r.claimed
  /\ r.claimed => r.reserved /\ r.spans = 1
  /\ ~r.claimed => r.spans = 0 \/ (r.spans = 1 /\ r.closed /\ c \notin HostCalls)
  /\ r.closed /\ ~r.claimed => r.spans = 1 \/ r.noted
  /\ r.known => r.reserved \/ r.spans = 1 \/ r.noted \/ (r.startId # NoId /\ ~r.closed)

(* Once a wrapper has the record, no native event writes its result.       *)
ResultInv(r, running, last) ==
  /\ ~r.custom /\ r.completed => r.result = "native"
  /\ last # "none" \/ running > 0 => r.custom
  /\ running > 0 => r.startEmitted
  /\ last # "none" /\ running = 0 => r.result = last

ToolTyped ==
  /\ calls \in [Calls -> CallRecord]
  /\ wrapping \in [Calls -> Nat]
  /\ wrapped \in [Calls -> {"none", "wrapper", "failure"}]
  /\ pendingEnd \in Calls \cup {NoCall}

RecordsInv ==
  \A c \in Calls : MeasuredInv(c, calls[c]) /\ ResultInv(calls[c], wrapping[c], wrapped[c])

NotedInv ==
  turn \in TurnEnded =>
    \A c \in Calls :
      calls[c].known => calls[c].reserved \/ calls[c].spans = 1 \/ calls[c].noted

(* Each event of a call was emitted at most once, an end after its start.  *)
ShownInv ==
  /\ \A e \in shown : /\ e.n \in 2 .. emitted
                      /\ e.call \in Calls /\ e.which \in {"start", "end"}
  /\ \A e, f \in shown : e.n = f.n => e = f
  /\ \A e, f \in shown : e.call = f.call /\ e.which = f.which => e = f
  /\ \A e \in shown : e.which = "start" => calls[e.call].startEmitted
  /\ \A e \in shown : e.which = "end" =>
       /\ calls[e.call].endEmitted
       /\ \E f \in shown : f.which = "start" /\ f.call = e.call /\ f.n < e.n
       /\ e.result # "none" /\ (e.result # "native" => calls[e.call].custom)
  /\ \A c \in Calls : calls[c].startEmitted =>
       \E e \in shown : e.call = c /\ e.which = "start"

PendingInv ==
  pendingEnd # NoCall =>
    /\ turn = "sending" /\ emitted <= MaxEvents
    /\ calls[pendingEnd].completed /\ ~calls[pendingEnd].custom
    /\ calls[pendingEnd].startEmitted

ToolInv == ToolTyped /\ RecordsInv /\ NotedInv /\ ShownInv /\ PendingInv

----------------------------------------------------------------------------
LEMMA ToolInitInv == ToolInit => ToolInv
<1> SUFFICES ASSUME ToolInit PROVE ToolInv
  OBVIOUS
<1>1. Unknown \in CallRecord
  BY DEF Unknown, CallRecord
<1>2. ToolTyped
  BY <1>1 DEF ToolInit, ToolTyped
<1>3. \A c \in Calls : MeasuredInv(c, Unknown) /\ ResultInv(Unknown, 0, "none")
  BY DEF MeasuredInv, ResultInv, Unknown
<1>4. RecordsInv
  BY <1>3 DEF ToolInit, RecordsInv
<1>5. NotedInv
  BY DEF ToolInit, StreamInit, NotedInv, TurnEnded
<1>6. ShownInv
  BY DEF ToolInit, ShownInv, Unknown
<1>7. PendingInv
  BY DEF ToolInit, PendingInv
<1> QED BY <1>2, <1>4, <1>5, <1>6, <1>7 DEF ToolInv

(* What each callback makes of a record.                                   *)
LEMMA MarkedRecord ==
  ASSUME NEW c, NEW r \in CallRecord, MeasuredInv(c, r), NEW running \in Nat, NEW last,
         ResultInv(r, running, last), NEW s,
         \/ s = [r EXCEPT !.startEmitted = TRUE]
         \/ s = [r EXCEPT !.endEmitted = r.endEmitted \/ r.completed]
  PROVE  /\ s \in CallRecord /\ MeasuredInv(c, s) /\ ResultInv(s, running, last)
         /\ s.known = r.known /\ s.custom = r.custom /\ s.completed = r.completed
         /\ s.result = r.result
<1>1. /\ s \in CallRecord
      /\ s.known = r.known /\ s.custom = r.custom /\ s.completed = r.completed
      /\ s.result = r.result /\ s.reserved = r.reserved /\ s.claimed = r.claimed
      /\ s.startId = r.startId /\ s.closed = r.closed /\ s.noted = r.noted /\ s.spans = r.spans
      /\ r.startEmitted => s.startEmitted
  BY DEF CallRecord
<1> QED BY <1>1 DEF MeasuredInv, ResultInv

LEMMA ClaimedRecord ==
  ASSUME NEW c \in HostCalls, NEW r \in CallRecord, MeasuredInv(c, r)
  PROVE  LET s == Claimed(r)
         IN  /\ s \in CallRecord /\ MeasuredInv(c, s)
             /\ s.custom /\ s.result = "none"
             /\ s.startEmitted = r.startEmitted /\ s.endEmitted = r.endEmitted
<1> DEFINE s == Claimed(r)
<1>1. /\ s \in CallRecord
      /\ s.known /\ s.custom /\ s.result = "none" /\ s.reserved /\ s.claimed
      /\ s.startId = r.startId /\ s.closed = r.closed /\ s.noted = r.noted
      /\ s.spans = IF r.claimed THEN r.spans ELSE r.spans + 1
      /\ s.startEmitted = r.startEmitted /\ s.endEmitted = r.endEmitted
  <2>1. /\ TakenOver(r) \in CallRecord
        /\ TakenOver(r).known /\ TakenOver(r).custom /\ TakenOver(r).result = "none"
        /\ TakenOver(r).reserved /\ TakenOver(r).claimed = r.claimed
        /\ TakenOver(r).startId = r.startId /\ TakenOver(r).closed = r.closed
        /\ TakenOver(r).noted = r.noted /\ TakenOver(r).spans = r.spans
        /\ TakenOver(r).startEmitted = r.startEmitted /\ TakenOver(r).endEmitted = r.endEmitted
    BY DEF CallRecord, TakenOver
  <2> DEFINE t == TakenOver(r)
             n == IF r.claimed THEN t.spans ELSE t.spans + 1
  <2>2. s = [t EXCEPT !.claimed = TRUE, !.spans = n]
    BY DEF Claimed
  <2>3. n \in Nat /\ n = IF r.claimed THEN r.spans ELSE r.spans + 1
    BY <2>1 DEF CallRecord
  <2> HIDE DEF n
  <2>4. s \in CallRecord /\ s.claimed /\ s.spans = n
    <3>1. t \in CallRecord
      BY <2>1
    <3> HIDE DEF t
    <3>2. s \in CallRecord
      <4> HIDE DEF s
      <4> QED BY <3>1, <2>2, <2>3 DEF CallRecord
    <3>3. s.claimed /\ s.spans = n
      <4> HIDE DEF s
      <4> QED BY <3>1, <2>2 DEF CallRecord
    <3> QED BY <3>2, <3>3
  <2>5. /\ s.known = t.known /\ s.custom = t.custom /\ s.result = t.result
        /\ s.reserved = t.reserved /\ s.startId = t.startId /\ s.closed = t.closed
        /\ s.noted = t.noted
        /\ s.startEmitted = t.startEmitted /\ s.endEmitted = t.endEmitted
    <3> HIDE DEF t
    <3> QED BY <2>1, <2>2 DEF CallRecord, t
  <2> QED BY <2>1, <2>3, <2>4, <2>5
<1>2. s.spans = 1
  BY <1>1 DEF MeasuredInv
<1> HIDE DEF s
<1>3. MeasuredInv(c, s)
  BY <1>1, <1>2 DEF MeasuredInv
<1> QED BY <1>1, <1>3 DEF s

(* A native event sees a call: what it does not touch, and what it makes   *)
(* of a host tool's reservation.                                           *)
LEMMA ObservedRecord ==
  ASSUME ToolTyped, NEW c \in Calls, MeasuredInv(c, calls[c]), NEW id \in Ids \cup {NoId},
         NEW named \in BOOLEAN
  PROVE  LET r == calls[c]
             s == Observed(c, id, named)
         IN  /\ s \in CallRecord /\ s.known
             /\ s.custom = r.custom /\ s.completed = r.completed /\ s.result = r.result
             /\ s.claimed = r.claimed /\ s.startId = r.startId /\ s.closed = r.closed
             /\ s.noted = r.noted /\ s.spans = r.spans /\ s.ambiguous = r.ambiguous
             /\ s.startEmitted = r.startEmitted /\ s.endEmitted = r.endEmitted
             /\ s.reserved <=> r.reserved \/ (named /\ c \in HostCalls)
<1>1. calls[c] \in CallRecord
  BY DEF ToolTyped
<1>2. {id} \ {NoId} \in SUBSET Ids
  OBVIOUS
<1> QED BY <1>1, <1>2 DEF Observed, CallRecord

LEMMA TimedRecord ==
  ASSUME ToolTyped, NEW c \in Calls, MeasuredInv(c, calls[c]), NEW id \in Ids \cup {NoId}
  PROVE  LET r == calls[c]
             s == TimedFrom(Observed(c, id, TRUE), id)
         IN  /\ s \in CallRecord /\ MeasuredInv(c, s)
             /\ s.custom = r.custom /\ s.completed = r.completed /\ s.result = r.result
             /\ s.startEmitted = r.startEmitted /\ s.endEmitted = r.endEmitted
<1> DEFINE r == calls[c]
           o == Observed(c, id, TRUE)
           s == TimedFrom(o, id)
<1>1. /\ o \in CallRecord /\ o.known
      /\ o.custom = r.custom /\ o.completed = r.completed /\ o.result = r.result
      /\ o.claimed = r.claimed /\ o.startId = r.startId /\ o.closed = r.closed
      /\ o.noted = r.noted /\ o.spans = r.spans
      /\ o.startEmitted = r.startEmitted /\ o.endEmitted = r.endEmitted
      /\ o.reserved <=> r.reserved \/ c \in HostCalls
  BY ObservedRecord
<1> HIDE DEF r, o
<1>2. MeasuredInv(c, r)
  BY DEF r
<1>3. CASE o.reserved \/ (id # NoId /\ o.closed)
  <2>1. s = o
    BY <1>3 DEF TimedFrom
  <2>2. MeasuredInv(c, o)
    BY <1>1, <1>2, <1>3 DEF MeasuredInv
  <2> QED BY <1>1, <2>1, <2>2 DEF r, o
<1>4. CASE ~o.reserved /\ id = NoId
  <2>1. s = Noted(o)
    BY <1>4 DEF TimedFrom
  <2>2. /\ s \in CallRecord /\ s.known /\ s.noted
        /\ s.custom = r.custom /\ s.completed = r.completed /\ s.result = r.result
        /\ s.reserved = o.reserved
        /\ s.claimed = r.claimed /\ s.startId = r.startId /\ s.closed = r.closed
        /\ s.spans = r.spans
        /\ s.startEmitted = r.startEmitted /\ s.endEmitted = r.endEmitted
    <3> HIDE DEF s
    <3>1. s \in CallRecord /\ s.noted
      BY <1>1, <2>1 DEF Noted, CallRecord
    <3>2. /\ s.known = o.known /\ s.custom = o.custom /\ s.completed = o.completed
          /\ s.result = o.result /\ s.reserved = o.reserved /\ s.claimed = o.claimed
      BY <1>1, <2>1 DEF Noted, CallRecord
    <3>3. /\ s.startId = o.startId /\ s.closed = o.closed /\ s.spans = o.spans
          /\ s.startEmitted = o.startEmitted /\ s.endEmitted = o.endEmitted
      BY <1>1, <2>1 DEF Noted, CallRecord
    <3> QED BY <1>1, <3>1, <3>2, <3>3
  <2> HIDE DEF s
  <2>3. MeasuredInv(c, s)
    BY <1>1, <1>2, <2>2 DEF MeasuredInv
  <2> QED BY <2>2, <2>3 DEF r, o, s
<1>5. CASE ~o.reserved /\ ~o.closed /\ id # NoId
  <2>1. s = [o EXCEPT !.startId = IF @ = NoId THEN id ELSE @,
                      !.ambiguous = @ \/ o.startId \notin {NoId, id}]
    BY <1>5 DEF TimedFrom
  <2>2. /\ s \in CallRecord /\ s.known
        /\ s.custom = r.custom /\ s.completed = r.completed /\ s.result = r.result
        /\ s.reserved = o.reserved
        /\ s.claimed = r.claimed /\ s.closed = r.closed /\ s.noted = r.noted
        /\ s.startId # NoId
        /\ s.spans = r.spans
        /\ s.startEmitted = r.startEmitted /\ s.endEmitted = r.endEmitted
    <3> HIDE DEF s
    <3>1. s \in CallRecord
      <4> DEFINE first == IF o.startId = NoId THEN id ELSE o.startId
                 doubt == o.ambiguous \/ o.startId \notin {NoId, id}
      <4>1. s = [o EXCEPT !.startId = first, !.ambiguous = doubt]
        BY <2>1
      <4>2. first \in Ids \cup {NoId} /\ doubt \in BOOLEAN
        BY <1>1 DEF CallRecord
      <4> HIDE DEF first, doubt
      <4> QED BY <1>1, <4>1, <4>2 DEF CallRecord
    <3>2. s.startId # NoId
      BY <1>1, <1>5, <2>1 DEF CallRecord
    <3>3. /\ s.known = o.known /\ s.custom = o.custom /\ s.completed = o.completed
          /\ s.result = o.result /\ s.reserved = o.reserved /\ s.claimed = o.claimed
      BY <1>1, <2>1 DEF CallRecord
    <3>4. /\ s.closed = o.closed /\ s.noted = o.noted /\ s.spans = o.spans
          /\ s.startEmitted = o.startEmitted /\ s.endEmitted = o.endEmitted
      BY <1>1, <2>1 DEF CallRecord
    <3> QED BY <1>1, <3>1, <3>2, <3>3, <3>4
  <2> HIDE DEF s
  <2>3. MeasuredInv(c, s)
    BY <1>1, <1>2, <1>5, <2>2 DEF MeasuredInv
  <2> QED BY <2>2, <2>3 DEF r, o, s
<1> QED BY <1>3, <1>4, <1>5

LEMMA CompletedRecord ==
  ASSUME ToolTyped, NEW c \in Calls, MeasuredInv(c, calls[c]), NEW id \in Ids \cup {NoId},
         NEW named \in BOOLEAN, NEW measured \in Measured(c, Observed(c, id, named), id)
  PROVE  LET r == calls[c]
             s == ResolvedBy(measured)
         IN  /\ s \in CallRecord /\ MeasuredInv(c, s)
             /\ s.custom = r.custom
             /\ s.startEmitted = r.startEmitted /\ s.endEmitted = r.endEmitted
             /\ IF r.custom \/ r.completed
                THEN s.completed = r.completed /\ s.result = r.result
                ELSE s.completed /\ s.result = "native"
<1> DEFINE r == calls[c]
           o == Observed(c, id, named)
           m == measured
           s == ResolvedBy(m)
           done == [o EXCEPT !.closed = TRUE]
<1>1. /\ o \in CallRecord /\ o.known
      /\ o.custom = r.custom /\ o.completed = r.completed /\ o.result = r.result
      /\ o.claimed = r.claimed /\ o.startId = r.startId /\ o.closed = r.closed
      /\ o.noted = r.noted /\ o.spans = r.spans
      /\ o.startEmitted = r.startEmitted /\ o.endEmitted = r.endEmitted
      /\ o.reserved <=> r.reserved \/ (named /\ c \in HostCalls)
  BY ObservedRecord
<1>2. MeasuredInv(c, r)
  OBVIOUS
<1>3. \/ /\ o.reserved \/ o.closed
         /\ m = o
      \/ /\ ~o.reserved /\ m = Noted(done)
      \/ /\ ~(o.reserved \/ o.claimed \/ o.closed)
         /\ m = [done EXCEPT !.spans = @ + 1] /\ done.startId # NoId
  <2>1. CASE o.reserved
    BY <2>1 DEF Measured
  <2>2. CASE ~o.reserved /\ id = NoId
    BY <2>2 DEF Measured
  <2>3. CASE ~o.reserved /\ id # NoId /\ o.claimed
    BY <2>3, <1>1, <1>2 DEF MeasuredInv
  <2>4. CASE ~o.reserved /\ id # NoId /\ ~o.claimed /\ o.closed
    BY <2>4 DEF Measured
  <2>5. CASE ~o.reserved /\ id # NoId /\ ~o.claimed /\ ~o.closed
    <3>1. m \in {Noted(done)} \/ m \in RecordSpan(done, id)
      BY <2>5 DEF Measured
    <3>2. m \in RecordSpan(done, id) =>
            m = Noted(done) \/ (m = [done EXCEPT !.spans = @ + 1] /\ done.startId # NoId)
      BY DEF RecordSpan
    <3> QED BY <2>5, <3>1, <3>2
  <2> QED BY <2>1, <2>2, <2>3, <2>4, <2>5
<1> HIDE DEF r, o, m
<1>4. /\ m \in CallRecord /\ MeasuredInv(c, m)
      /\ m.custom = r.custom /\ m.completed = r.completed /\ m.result = r.result
      /\ m.startEmitted = r.startEmitted /\ m.endEmitted = r.endEmitted
  <2>1. CASE (o.reserved \/ o.closed) /\ m = o
    <3>1. MeasuredInv(c, o)
      BY <1>1, <1>2, <2>1 DEF MeasuredInv
    <3> QED BY <1>1, <2>1, <3>1
  <2>2. CASE ~o.reserved /\ m = Noted(done)
    <3>1. /\ m \in CallRecord /\ m.known /\ m.noted /\ m.closed
          /\ m.custom = r.custom /\ m.completed = r.completed /\ m.result = r.result
          /\ m.reserved = o.reserved
          /\ m.claimed = r.claimed /\ m.startId = r.startId
          /\ m.spans = r.spans
          /\ m.startEmitted = r.startEmitted /\ m.endEmitted = r.endEmitted
      BY <1>1, <2>2 DEF Noted, CallRecord
    <3>2. MeasuredInv(c, m)
      BY <1>1, <1>2, <2>2, <3>1 DEF MeasuredInv
    <3> QED BY <3>1, <3>2
  <2>3. CASE /\ ~(o.reserved \/ o.claimed \/ o.closed)
             /\ m = [done EXCEPT !.spans = @ + 1] /\ done.startId # NoId
    <3>1. /\ m \in CallRecord /\ m.known /\ m.closed
          /\ m.custom = r.custom /\ m.completed = r.completed /\ m.result = r.result
          /\ m.reserved = o.reserved /\ m.noted = r.noted
          /\ m.claimed = r.claimed /\ m.startId = r.startId /\ m.startId # NoId
          /\ m.spans = r.spans + 1
          /\ m.startEmitted = r.startEmitted /\ m.endEmitted = r.endEmitted
      <4>1. /\ done \in CallRecord /\ done.known /\ done.closed
            /\ done.custom = o.custom /\ done.completed = o.completed /\ done.result = o.result
            /\ done.reserved = o.reserved /\ done.noted = o.noted
            /\ done.claimed = o.claimed /\ done.startId = o.startId /\ done.spans = o.spans
            /\ done.startEmitted = o.startEmitted /\ done.endEmitted = o.endEmitted
        BY <1>1 DEF CallRecord
      <4> HIDE DEF done
      <4>2. done.spans + 1 \in Nat
        BY <4>1 DEF CallRecord
      <4>3. m = [done EXCEPT !.spans = done.spans + 1]
        BY <2>3
      <4>4. m \in CallRecord /\ m.spans = done.spans + 1
        BY <4>1, <4>2, <4>3 DEF CallRecord
      <4>5. /\ m.known = done.known /\ m.closed = done.closed
            /\ m.custom = done.custom /\ m.completed = done.completed /\ m.result = done.result
            /\ m.reserved = done.reserved /\ m.noted = done.noted
            /\ m.claimed = done.claimed /\ m.startId = done.startId
            /\ m.startEmitted = done.startEmitted /\ m.endEmitted = done.endEmitted
        BY <4>1, <4>3 DEF CallRecord
      <4> QED BY <4>1, <4>4, <4>5, <1>1, <2>3
    <3>2. r.spans = 0 /\ m.spans = 1
      BY <1>1, <1>2, <2>3, <3>1 DEF MeasuredInv
    <3>3. MeasuredInv(c, m)
      BY <1>1, <1>2, <2>3, <3>1, <3>2 DEF MeasuredInv
    <3> QED BY <3>1, <3>3
  <2> QED BY <1>3, <2>1, <2>2, <2>3
<1>5. CASE m.custom \/ m.completed
  <2>1. s = m
    BY <1>5 DEF ResolvedBy
  <2> QED BY <1>4, <1>5, <2>1 DEF r, m
<1>6. CASE ~(m.custom \/ m.completed)
  <2>1. s = [m EXCEPT !.completed = TRUE, !.result = "native"]
    BY <1>6 DEF ResolvedBy
  <2>2. /\ s \in CallRecord /\ s.known = m.known /\ s.custom = m.custom
        /\ s.completed /\ s.result = "native"
        /\ s.reserved = m.reserved /\ s.noted = m.noted /\ s.closed = m.closed
        /\ s.claimed = m.claimed /\ s.startId = m.startId /\ s.spans = m.spans
        /\ s.startEmitted = m.startEmitted /\ s.endEmitted = m.endEmitted
    BY <1>4, <2>1 DEF CallRecord
  <2> HIDE DEF s
  <2>3. MeasuredInv(c, s)
    BY <1>4, <2>2 DEF MeasuredInv
  <2> QED BY <1>4, <1>6, <2>2, <2>3 DEF r, m, s
<1> QED BY <1>5, <1>6

----------------------------------------------------------------------------
(* The events shown.                                                       *)
LEMMA ShownKept ==
  ASSUME ShownInv, shown' = shown, emitted \in Nat, emitted' \in Nat, emitted' >= emitted,
         \A d \in Calls : /\ calls'[d].startEmitted => calls[d].startEmitted
                          /\ calls[d].startEmitted => calls'[d].startEmitted
                          /\ calls[d].endEmitted => calls'[d].endEmitted
                          /\ calls[d].custom => calls'[d].custom
  PROVE  ShownInv'
<1>1. \A e \in shown : e.n \in 2 .. emitted' /\ e.call \in Calls /\ e.which \in {"start", "end"}
  BY DEF ShownInv
<1>2. \A e \in shown : e.which = "start" => calls'[e.call].startEmitted
  BY DEF ShownInv
<1>3. \A e \in shown : e.which = "end" =>
        /\ calls'[e.call].endEmitted
        /\ \E f \in shown : f.which = "start" /\ f.call = e.call /\ f.n < e.n
        /\ e.result # "none" /\ (e.result # "native" => calls'[e.call].custom)
  BY DEF ShownInv
<1>4. \A c \in Calls : calls'[c].startEmitted => \E e \in shown : e.call = c /\ e.which = "start"
  BY DEF ShownInv
<1>5. /\ \A e, f \in shown : e.n = f.n => e = f
      /\ \A e, f \in shown : e.call = f.call /\ e.which = f.which => e = f
  BY DEF ShownInv
<1> QED BY <1>1, <1>2, <1>3, <1>4, <1>5 DEF ShownInv

LEMMA ShownMore ==
  ASSUME ShownInv, emitted \in Nat, emitted > 0, emitted' = emitted + 1, NEW c \in Calls,
         NEW which \in {"start", "end"}, NEW result,
         shown' = shown \cup {[n |-> emitted + 1, call |-> c, which |-> which,
                               result |-> result]},
         \A d \in Calls \ {c} : calls'[d] = calls[d],
         calls[c].endEmitted => calls'[c].endEmitted, calls[c].custom => calls'[c].custom,
         calls'[c].startEmitted,
         which = "start" => ~calls[c].startEmitted,
         which = "end" =>
           /\ calls[c].startEmitted /\ ~calls[c].endEmitted /\ calls'[c].endEmitted
           /\ result # "none" /\ (result # "native" => calls'[c].custom)
  PROVE  ShownInv'
<1> DEFINE new == [n |-> emitted + 1, call |-> c, which |-> which, result |-> result]
<1>1. new.n = emitted + 1 /\ new.call = c /\ new.which = which /\ new.result = result
  OBVIOUS
<1>2. shown' = shown \cup {new}
  OBVIOUS
<1> HIDE DEF new
<1>3. /\ \A e \in shown : e.n \in 2 .. emitted /\ e.call \in Calls
                          /\ e.which \in {"start", "end"}
      /\ \A e, f \in shown : e.n = f.n => e = f
      /\ \A e, f \in shown : e.call = f.call /\ e.which = f.which => e = f
      /\ \A e \in shown : e.which = "start" => calls[e.call].startEmitted
      /\ \A e \in shown : e.which = "end" =>
           /\ calls[e.call].endEmitted
           /\ \E f \in shown : f.which = "start" /\ f.call = e.call /\ f.n < e.n
           /\ e.result # "none" /\ (e.result # "native" => calls[e.call].custom)
      /\ \A d \in Calls : calls[d].startEmitted =>
           \E e \in shown : e.call = d /\ e.which = "start"
  BY DEF ShownInv
<1>4. \A e \in shown : e.n # new.n /\ e.n < new.n
  BY <1>1, <1>3
<1>5. \A e \in shown : ~(e.call = new.call /\ e.which = new.which)
  BY <1>1, <1>3
<1>6. \A e \in shown' : e.n \in 2 .. emitted' /\ e.call \in Calls /\ e.which \in {"start", "end"}
  <2>1. new.n \in 2 .. emitted'
    BY <1>1
  <2>2. \A e \in shown : e.n \in 2 .. emitted'
    BY <1>3
  <2> QED BY <2>1, <2>2, <1>1, <1>2, <1>3
<1>7. \A e, f \in shown' : e.n = f.n => e = f
  BY <1>2, <1>3, <1>4
<1>8. \A e, f \in shown' : e.call = f.call /\ e.which = f.which => e = f
  BY <1>2, <1>3, <1>5
<1>9. \A e \in shown' : e.which = "start" => calls'[e.call].startEmitted
  BY <1>1, <1>2, <1>3
<1>10. \A e \in shown' : e.which = "end" =>
         /\ calls'[e.call].endEmitted
         /\ \E f \in shown' : f.which = "start" /\ f.call = e.call /\ f.n < e.n
         /\ e.result # "none" /\ (e.result # "native" => calls'[e.call].custom)
  <2>1. ASSUME NEW e \in shown, e.which = "end"
        PROVE  /\ calls'[e.call].endEmitted
               /\ \E f \in shown' : f.which = "start" /\ f.call = e.call /\ f.n < e.n
               /\ e.result # "none" /\ (e.result # "native" => calls'[e.call].custom)
    BY <2>1, <1>2, <1>3
  <2>2. ASSUME which = "end"
        PROVE  /\ calls'[new.call].endEmitted
               /\ \E f \in shown' : f.which = "start" /\ f.call = new.call /\ f.n < new.n
               /\ new.result # "none" /\ (new.result # "native" => calls'[new.call].custom)
    <3>1. PICK f \in shown : f.call = c /\ f.which = "start"
      BY <2>2, <1>3
    <3>2. f \in shown' /\ f.n < new.n
      BY <3>1, <1>2, <1>4
    <3> QED BY <2>2, <3>1, <3>2, <1>1
  <2> QED BY <2>1, <2>2, <1>1, <1>2
<1>11. \A d \in Calls : calls'[d].startEmitted => \E e \in shown' : e.call = d /\ e.which = "start"
  <2> SUFFICES ASSUME NEW d \in Calls, calls'[d].startEmitted
               PROVE  \E e \in shown' : e.call = d /\ e.which = "start"
    OBVIOUS
  <2>1. CASE d # c \/ which = "end"
    <3>1. calls[d].startEmitted
      BY <2>1
    <3> QED BY <3>1, <1>2, <1>3
  <2>2. CASE d = c /\ which = "start"
    BY <2>2, <1>1, <1>2
  <2> QED BY <2>1, <2>2
<1> QED BY <1>6, <1>7, <1>8, <1>9, <1>10, <1>11 DEF ShownInv

(* start_event and end_event.                                              *)
LEMMA StartEventStep ==
  ASSUME ToolTyped, ShownInv, emitted \in Nat, emitted > 0, NEW c \in Calls,
         NEW r \in CallRecord, MeasuredInv(c, r), StartEvent(c, r),
         r.startEmitted = calls[c].startEmitted, r.endEmitted = calls[c].endEmitted,
         calls[c].custom => r.custom
  PROVE  /\ \E s \in CallRecord :
              /\ calls' = [calls EXCEPT ![c] = s] /\ MeasuredInv(c, s)
              /\ s.startEmitted /\ s.custom = r.custom
              /\ s.completed = r.completed /\ s.result = r.result
         /\ ShownInv' /\ emitted' \in {emitted, emitted + 1}
<1> DEFINE s == [r EXCEPT !.startEmitted = TRUE]
<1>1. calls' = [calls EXCEPT ![c] = s]
  BY DEF StartEvent
<1>2. /\ s \in CallRecord /\ s.startEmitted /\ s.custom = r.custom /\ s.completed = r.completed
      /\ s.result = r.result /\ s.endEmitted = r.endEmitted
      /\ s.known = r.known /\ s.reserved = r.reserved /\ s.claimed = r.claimed
      /\ s.startId = r.startId /\ s.closed = r.closed /\ s.noted = r.noted /\ s.spans = r.spans
  BY DEF CallRecord
<1> HIDE DEF s
<1>3. MeasuredInv(c, s)
  BY <1>2 DEF MeasuredInv
<1>4. calls'[c] = s /\ \A d \in Calls \ {c} : calls'[d] = calls[d]
  BY <1>1 DEF ToolTyped
<1>5. ShownInv' /\ emitted' \in {emitted, emitted + 1}
  <2>1. CASE r.startEmitted /\ ShowsNothing
    <3>1. shown' = shown /\ emitted' = emitted
      BY <2>1 DEF ShowsNothing
    <3>2. \A d \in Calls : /\ calls'[d].startEmitted => calls[d].startEmitted
                           /\ calls[d].startEmitted => calls'[d].startEmitted
                           /\ calls[d].endEmitted => calls'[d].endEmitted
                           /\ calls[d].custom => calls'[d].custom
      BY <2>1, <1>2, <1>4
    <3> QED BY <3>1, <3>2, ShownKept
  <2>2. CASE ~r.startEmitted /\ Shows(c, "start", "none")
    <3>1. /\ emitted' = emitted + 1
          /\ shown' = shown \cup {[n |-> emitted + 1, call |-> c, which |-> "start",
                                   result |-> "none"]}
      BY <2>2 DEF Shows, Emit
    <3> QED BY <3>1, <2>2, <1>2, <1>4, ShownMore
  <2> QED BY <2>1, <2>2 DEF StartEvent
<1> QED BY <1>1, <1>2, <1>3, <1>5

LEMMA EndEventStep ==
  ASSUME ToolTyped, ShownInv, emitted \in Nat, emitted > 0, NEW c \in Calls,
         NEW r \in CallRecord, MeasuredInv(c, r), EndEvent(c, r), r.completed,
         r.startEmitted = calls[c].startEmitted, r.endEmitted = calls[c].endEmitted,
         r.startEmitted, r.custom = calls[c].custom,
         r.result # "none", r.result # "native" => r.custom
  PROVE  /\ \E s \in CallRecord :
              /\ calls' = [calls EXCEPT ![c] = s] /\ MeasuredInv(c, s)
              /\ s.startEmitted /\ s.custom = r.custom
              /\ s.completed = r.completed /\ s.result = r.result
         /\ ShownInv' /\ emitted' \in {emitted, emitted + 1}
<1> DEFINE s == [r EXCEPT !.endEmitted = r.endEmitted \/ r.completed]
<1>1. calls' = [calls EXCEPT ![c] = s]
  BY DEF EndEvent
<1>2. /\ s \in CallRecord /\ s.endEmitted /\ s.custom = r.custom /\ s.completed = r.completed
      /\ s.result = r.result /\ s.startEmitted = r.startEmitted
      /\ s.known = r.known /\ s.reserved = r.reserved /\ s.claimed = r.claimed
      /\ s.startId = r.startId /\ s.closed = r.closed /\ s.noted = r.noted /\ s.spans = r.spans
  BY DEF CallRecord
<1> HIDE DEF s
<1>3. MeasuredInv(c, s)
  BY <1>2 DEF MeasuredInv
<1>4. calls'[c] = s /\ \A d \in Calls \ {c} : calls'[d] = calls[d]
  BY <1>1 DEF ToolTyped
<1>5. ShownInv' /\ emitted' \in {emitted, emitted + 1}
  <2>1. CASE r.endEmitted /\ ShowsNothing
    <3>1. shown' = shown /\ emitted' = emitted
      BY <2>1 DEF ShowsNothing
    <3>2. \A d \in Calls : /\ calls'[d].startEmitted => calls[d].startEmitted
                           /\ calls[d].startEmitted => calls'[d].startEmitted
                           /\ calls[d].endEmitted => calls'[d].endEmitted
                           /\ calls[d].custom => calls'[d].custom
      BY <2>1, <1>2, <1>4
    <3> QED BY <3>1, <3>2, ShownKept
  <2>2. CASE ~r.endEmitted /\ Shows(c, "end", r.result)
    <3>1. /\ emitted' = emitted + 1
          /\ shown' = shown \cup {[n |-> emitted + 1, call |-> c, which |-> "end",
                                   result |-> r.result]}
      BY <2>2 DEF Shows, Emit
    <3> QED BY <3>1, <2>2, <1>2, <1>4, ShownMore
  <2> QED BY <2>1, <2>2 DEF EndEvent
<1> QED BY <1>1, <1>2, <1>3, <1>5

(* A step that changes the record of one call.                             *)
LEMMA OneRecord ==
  ASSUME ToolTyped, RecordsInv, NEW c \in Calls, NEW s \in CallRecord,
         calls' = [calls EXCEPT ![c] = s], MeasuredInv(c, s),
         wrapping' \in [Calls -> Nat],
         wrapped' \in [Calls -> {"none", "wrapper", "failure"}],
         \A d \in Calls \ {c} : wrapping'[d] = wrapping[d] /\ wrapped'[d] = wrapped[d],
         ResultInv(s, wrapping'[c], wrapped'[c]),
         pendingEnd' \in Calls \cup {NoCall}
  PROVE  /\ ToolTyped' /\ RecordsInv' /\ calls'[c] = s
<1>1. calls' \in [Calls -> CallRecord] /\ calls'[c] = s
      /\ \A d \in Calls \ {c} : calls'[d] = calls[d]
  BY DEF ToolTyped
<1>2. ToolTyped'
  BY <1>1 DEF ToolTyped
<1>3. \A d \in Calls : MeasuredInv(d, calls'[d]) /\ ResultInv(calls'[d], wrapping'[d], wrapped'[d])
  BY <1>1 DEF RecordsInv
<1>4. RecordsInv'
  BY <1>3 DEF RecordsInv, MeasuredInv, ResultInv
<1> QED BY <1>1, <1>2, <1>4

----------------------------------------------------------------------------
(* The callbacks.                                                          *)
LEMMA SendingFacts ==
  ASSUME StreamInv, turn = "sending"
  PROVE  emitted \in Nat /\ emitted > 0 /\ turn \notin TurnEnded
  BY DEF StreamInv, StreamTyped, TurnInv, TurnEnded

LEMMA WrapperStartsStep ==
  ASSUME StreamInv, ToolInv, NEW c \in Calls, WrapperStarts(c)
  PROVE  ToolInv'
<1>1. ToolTyped /\ RecordsInv /\ ShownInv
  BY DEF ToolInv
<1>2. /\ turn = "sending" /\ turn' = "sending" /\ pendingEnd = NoCall /\ pendingEnd' = NoCall
      /\ c \in HostCalls /\ wrapped' = wrapped
      /\ wrapping' = [wrapping EXCEPT ![c] = @ + 1]
      /\ StartEvent(c, Claimed(calls[c]))
  BY DEF WrapperStarts, Callback
<1>3. emitted \in Nat /\ emitted > 0 /\ turn' \notin TurnEnded
  BY <1>2, SendingFacts
<1>4. calls[c] \in CallRecord /\ MeasuredInv(c, calls[c]) /\ wrapping[c] \in Nat
  BY <1>1 DEF ToolTyped, RecordsInv
<1>5. PICK r \in CallRecord :
        /\ r = Claimed(calls[c]) /\ MeasuredInv(c, r) /\ r.custom /\ r.result = "none"
        /\ r.startEmitted = calls[c].startEmitted /\ r.endEmitted = calls[c].endEmitted
  BY <1>2, <1>4, ClaimedRecord
<1>6. /\ \E s \in CallRecord :
           /\ calls' = [calls EXCEPT ![c] = s] /\ MeasuredInv(c, s)
           /\ s.startEmitted /\ s.custom = r.custom
           /\ s.completed = r.completed /\ s.result = r.result
      /\ ShownInv'
  BY <1>1, <1>2, <1>3, <1>5, StartEventStep
<1>7. PICK s \in CallRecord :
        /\ calls' = [calls EXCEPT ![c] = s] /\ MeasuredInv(c, s)
        /\ s.startEmitted /\ s.custom
  BY <1>5, <1>6
<1>8. /\ wrapping' \in [Calls -> Nat] /\ wrapping'[c] = wrapping[c] + 1 /\ wrapping'[c] > 0
      /\ wrapping'[c] # 0
      /\ \A d \in Calls \ {c} : wrapping'[d] = wrapping[d] /\ wrapped'[d] = wrapped[d]
  BY <1>1, <1>2, <1>4 DEF ToolTyped
<1>9. ResultInv(s, wrapping'[c], wrapped'[c])
  BY <1>7, <1>8 DEF ResultInv
<1>10. ToolTyped' /\ RecordsInv'
  BY <1>1, <1>2, <1>7, <1>8, <1>9, OneRecord DEF ToolTyped
<1>11. NotedInv' /\ PendingInv'
  BY <1>2, <1>3 DEF NotedInv, PendingInv
<1> QED BY <1>6, <1>10, <1>11 DEF ToolInv

LEMMA WrapperEndsStep ==
  ASSUME StreamInv, ToolInv, NEW c \in Calls, NEW result \in {"wrapper", "failure"},
         WrapperEnds(c, result)
  PROVE  ToolInv'
<1>1. ToolTyped /\ RecordsInv /\ ShownInv
  BY DEF ToolInv
<1>2. /\ turn = "sending" /\ turn' = "sending" /\ pendingEnd = NoCall /\ pendingEnd' = NoCall
      /\ wrapping[c] > 0
      /\ wrapping' = [wrapping EXCEPT ![c] = @ - 1]
      /\ wrapped' = [wrapped EXCEPT ![c] = result]
      /\ EndEvent(c, [calls[c] EXCEPT !.result = result, !.completed = TRUE])
  BY DEF WrapperEnds, Callback
<1>3. emitted \in Nat /\ emitted > 0 /\ turn' \notin TurnEnded
  BY <1>2, SendingFacts
<1>4. /\ calls[c] \in CallRecord /\ MeasuredInv(c, calls[c]) /\ wrapping[c] \in Nat
      /\ calls[c].custom /\ calls[c].startEmitted
  BY <1>1, <1>2 DEF ToolTyped, RecordsInv, ResultInv
<1>5. PICK r \in CallRecord :
        /\ r = [calls[c] EXCEPT !.result = result, !.completed = TRUE]
        /\ MeasuredInv(c, r) /\ r.custom = calls[c].custom /\ r.result = result /\ r.completed
        /\ r.startEmitted = calls[c].startEmitted /\ r.endEmitted = calls[c].endEmitted
  <2> DEFINE q == calls[c]
  <2>1. PICK r : r = [q EXCEPT !.result = result, !.completed = TRUE]
    OBVIOUS
  <2>2. q \in CallRecord /\ MeasuredInv(c, q)
    BY <1>4
  <2> HIDE DEF q
  <2>3. /\ r \in CallRecord
        /\ r.known = q.known /\ r.custom = q.custom /\ r.completed
        /\ r.result = result /\ r.reserved = q.reserved /\ r.claimed = q.claimed
        /\ r.startId = q.startId /\ r.closed = q.closed /\ r.noted = q.noted
        /\ r.spans = q.spans
        /\ r.startEmitted = q.startEmitted /\ r.endEmitted = q.endEmitted
    BY <2>1, <2>2 DEF CallRecord
  <2>4. MeasuredInv(c, r)
    BY <2>2, <2>3 DEF MeasuredInv
  <2> QED BY <2>1, <2>3, <2>4 DEF q
<1>6. /\ \E s \in CallRecord :
           /\ calls' = [calls EXCEPT ![c] = s] /\ MeasuredInv(c, s)
           /\ s.startEmitted /\ s.custom = r.custom
           /\ s.completed = r.completed /\ s.result = r.result
      /\ ShownInv'
  <2>1. EndEvent(c, r) /\ r.startEmitted /\ r.result # "none" /\ r.custom
    BY <1>2, <1>4, <1>5
  <2> QED BY <1>1, <1>3, <1>5, <2>1, EndEventStep
<1>7. PICK s \in CallRecord :
        /\ calls' = [calls EXCEPT ![c] = s] /\ MeasuredInv(c, s)
        /\ s.startEmitted /\ s.custom /\ s.result = result
  BY <1>4, <1>5, <1>6
<1>8. /\ wrapping' \in [Calls -> Nat]
      /\ wrapped' \in [Calls -> {"none", "wrapper", "failure"}] /\ wrapped'[c] = result
      /\ \A d \in Calls \ {c} : wrapping'[d] = wrapping[d] /\ wrapped'[d] = wrapped[d]
  BY <1>1, <1>2, <1>4 DEF ToolTyped
<1>9. ResultInv(s, wrapping'[c], wrapped'[c])
  BY <1>7, <1>8 DEF ResultInv
<1>10. ToolTyped' /\ RecordsInv'
  BY <1>1, <1>2, <1>7, <1>8, <1>9, OneRecord
<1>11. NotedInv' /\ PendingInv'
  BY <1>2, <1>3 DEF NotedInv, PendingInv
<1> QED BY <1>6, <1>10, <1>11 DEF ToolInv

LEMMA NativeStartsStep ==
  ASSUME StreamInv, ToolInv, NEW c \in Calls, NEW id \in Ids \cup {NoId}, NativeStarts(c, id)
  PROVE  ToolInv'
<1>1. ToolTyped /\ RecordsInv /\ ShownInv
  BY DEF ToolInv
<1>2. /\ turn = "sending" /\ turn' = "sending" /\ pendingEnd = NoCall
      /\ UNCHANGED <<wrapping, wrapped, pendingEnd>>
  BY DEF NativeStarts, Callback
<1>3. emitted \in Nat /\ emitted > 0 /\ turn' \notin TurnEnded
  BY <1>2, SendingFacts
<1>4. MeasuredInv(c, calls[c]) /\ ResultInv(calls[c], wrapping[c], wrapped[c])
  BY <1>1 DEF RecordsInv
<1>5. PICK r \in CallRecord :
        /\ r = TimedFrom(Observed(c, id, TRUE), id) /\ MeasuredInv(c, r)
        /\ r.custom = calls[c].custom /\ r.completed = calls[c].completed
        /\ r.result = calls[c].result
        /\ r.startEmitted = calls[c].startEmitted /\ r.endEmitted = calls[c].endEmitted
  BY <1>1, <1>4, TimedRecord
<1>6. \/ calls' = [calls EXCEPT ![c] = r] /\ ShowsNothing
      \/ StartEvent(c, r)
  BY <1>5 DEF NativeStarts
<1>7. /\ \E s \in CallRecord :
           /\ calls' = [calls EXCEPT ![c] = s] /\ MeasuredInv(c, s)
           /\ calls[c].startEmitted => s.startEmitted
           /\ s.custom = r.custom /\ s.completed = r.completed /\ s.result = r.result
      /\ ShownInv'
  <2>1. CASE calls' = [calls EXCEPT ![c] = r] /\ ShowsNothing
    <3>1. shown' = shown /\ emitted' = emitted
      BY <2>1 DEF ShowsNothing
    <3>2. \A d \in Calls : calls'[d] = IF d = c THEN r ELSE calls[d]
      BY <2>1, <1>1 DEF ToolTyped
    <3>3. \A d \in Calls : /\ calls'[d].startEmitted => calls[d].startEmitted
                           /\ calls[d].startEmitted => calls'[d].startEmitted
                           /\ calls[d].endEmitted => calls'[d].endEmitted
                           /\ calls[d].custom => calls'[d].custom
      BY <3>2, <1>5
    <3>4. ShownInv'
      BY <3>1, <3>3, <1>1, <1>3, ShownKept
    <3> QED BY <3>4, <2>1, <1>5
  <2>2. CASE StartEvent(c, r)
    <3>1. /\ \E s \in CallRecord :
               /\ calls' = [calls EXCEPT ![c] = s] /\ MeasuredInv(c, s)
               /\ s.startEmitted /\ s.custom = r.custom
               /\ s.completed = r.completed /\ s.result = r.result
          /\ ShownInv'
      BY <2>2, <1>1, <1>3, <1>5, StartEventStep
    <3> QED BY <3>1
  <2> QED BY <1>6, <2>1, <2>2
<1>8. PICK s \in CallRecord :
        /\ calls' = [calls EXCEPT ![c] = s] /\ MeasuredInv(c, s)
        /\ calls[c].startEmitted => s.startEmitted
        /\ s.custom = calls[c].custom /\ s.completed = calls[c].completed
        /\ s.result = calls[c].result
  BY <1>5, <1>7
<1>9. ResultInv(s, wrapping'[c], wrapped'[c])
  BY <1>2, <1>4, <1>8 DEF ResultInv
<1>10. ToolTyped' /\ RecordsInv'
  BY <1>1, <1>2, <1>8, <1>9, OneRecord DEF ToolTyped
<1>11. NotedInv' /\ PendingInv'
  BY <1>2, <1>3 DEF NotedInv, PendingInv
<1> QED BY <1>7, <1>10, <1>11 DEF ToolInv

LEMMA NativeCompletesStep ==
  ASSUME StreamInv, ToolInv, NEW c \in Calls, NEW id \in Ids \cup {NoId},
         NEW named \in BOOLEAN, NativeCompletes(c, id, named)
  PROVE  ToolInv'
<1>1. ToolTyped /\ RecordsInv /\ ShownInv
  BY DEF ToolInv
<1>2. /\ turn = "sending" /\ turn' = "sending" /\ pendingEnd = NoCall /\ emitted < MaxEvents
      /\ UNCHANGED <<wrapping, wrapped>>
  BY DEF NativeCompletes, Callback
<1>3. emitted \in Nat /\ emitted > 0 /\ turn' \notin TurnEnded
  BY <1>2, SendingFacts
<1>4. /\ calls[c] \in CallRecord
      /\ MeasuredInv(c, calls[c]) /\ ResultInv(calls[c], wrapping[c], wrapped[c])
  BY <1>1 DEF RecordsInv, ToolTyped
<1>5. PICK measured \in Measured(c, Observed(c, id, named), id) :
        LET r == ResolvedBy(measured)
        IN  IF r.custom
            THEN /\ calls' = [calls EXCEPT ![c] = r]
                 /\ ShowsNothing /\ UNCHANGED pendingEnd
            ELSE StartEvent(c, r) /\ pendingEnd' = c
  BY DEF NativeCompletes
<1>6. PICK r \in CallRecord :
        /\ r = ResolvedBy(measured) /\ MeasuredInv(c, r)
        /\ r.custom = calls[c].custom
        /\ r.startEmitted = calls[c].startEmitted /\ r.endEmitted = calls[c].endEmitted
        /\ IF calls[c].custom \/ calls[c].completed
           THEN r.completed = calls[c].completed /\ r.result = calls[c].result
           ELSE r.completed /\ r.result = "native"
  BY <1>1, <1>4, CompletedRecord
<1>7. \/ /\ r.custom /\ calls' = [calls EXCEPT ![c] = r]
         /\ ShowsNothing /\ pendingEnd' = NoCall
      \/ ~r.custom /\ StartEvent(c, r) /\ pendingEnd' = c
  BY <1>2, <1>5, <1>6
<1>8. /\ \E s \in CallRecord :
           /\ calls' = [calls EXCEPT ![c] = s] /\ MeasuredInv(c, s)
           /\ calls[c].startEmitted => s.startEmitted
           /\ pendingEnd' = c => s.startEmitted \/ r.custom
           /\ s.custom = r.custom /\ s.completed = r.completed /\ s.result = r.result
      /\ ShownInv' /\ emitted' \in {emitted, emitted + 1}
  <2>1. CASE /\ r.custom /\ calls' = [calls EXCEPT ![c] = r]
             /\ ShowsNothing /\ pendingEnd' = NoCall
    <3>1. shown' = shown /\ emitted' = emitted
      BY <2>1 DEF ShowsNothing
    <3>2. \A d \in Calls : calls'[d] = IF d = c THEN r ELSE calls[d]
      BY <2>1, <1>1 DEF ToolTyped
    <3>3. \A d \in Calls : /\ calls'[d].startEmitted => calls[d].startEmitted
                           /\ calls[d].startEmitted => calls'[d].startEmitted
                           /\ calls[d].endEmitted => calls'[d].endEmitted
                           /\ calls[d].custom => calls'[d].custom
      BY <3>2, <1>6
    <3>4. ShownInv'
      BY <3>1, <3>3, <1>1, <1>3, ShownKept
    <3> QED BY <3>1, <3>4, <2>1, <1>6
  <2>2. CASE ~r.custom /\ StartEvent(c, r) /\ pendingEnd' = c
    BY <2>2, <1>1, <1>3, <1>6, StartEventStep
  <2> QED BY <1>7, <2>1, <2>2
<1>9. PICK s \in CallRecord :
        /\ calls' = [calls EXCEPT ![c] = s] /\ MeasuredInv(c, s)
        /\ calls[c].startEmitted => s.startEmitted
        /\ pendingEnd' = c => s.startEmitted \/ r.custom
        /\ s.custom = r.custom /\ s.completed = r.completed /\ s.result = r.result
  BY <1>8
<1>10. ResultInv(s, wrapping'[c], wrapped'[c])
  <2>1. CASE r.custom
    BY <2>1, <1>2, <1>4, <1>6, <1>9 DEF ResultInv
  <2>2. CASE ~r.custom
    BY <2>2, <1>2, <1>4, <1>6, <1>9 DEF ResultInv
  <2> QED BY <2>1, <2>2
<1>11. pendingEnd' \in Calls \cup {NoCall}
  BY <1>7
<1>12. ToolTyped' /\ RecordsInv' /\ calls'[c] = s
  BY <1>1, <1>2, <1>9, <1>10, <1>11, OneRecord DEF ToolTyped
<1>13. PendingInv'
  <2> SUFFICES ASSUME pendingEnd' # NoCall
               PROVE  /\ turn' = "sending" /\ emitted' <= MaxEvents
                      /\ calls'[pendingEnd'].completed /\ ~calls'[pendingEnd'].custom
                      /\ calls'[pendingEnd'].startEmitted
    BY DEF PendingInv
  <2>1. ~r.custom /\ pendingEnd' = c
    BY <1>7
  <2>2. r.completed
    BY <2>1, <1>6
  <2>3. emitted' <= MaxEvents
    BY <1>2, <1>3, <1>8, StreamAssumption
  <2> QED BY <1>2, <1>9, <1>12, <2>1, <2>2, <2>3
<1>14. NotedInv'
  BY <1>2, <1>3 DEF NotedInv
<1> QED BY <1>8, <1>12, <1>13, <1>14 DEF ToolInv

LEMMA NativeEndEventStep ==
  ASSUME StreamInv, ToolInv, NativeEndEvent
  PROVE  ToolInv'
<1>1. ToolTyped /\ RecordsInv /\ ShownInv /\ PendingInv
  BY DEF ToolInv
<1>2. /\ pendingEnd # NoCall /\ pendingEnd' = NoCall /\ turn' = turn
      /\ UNCHANGED <<wrapping, wrapped>> /\ EndEvent(pendingEnd, calls[pendingEnd])
  BY DEF NativeEndEvent
<1>3. PICK c \in Calls : c = pendingEnd
  BY <1>1, <1>2 DEF ToolTyped
<1>4. /\ turn = "sending" /\ calls[c].completed /\ ~calls[c].custom /\ calls[c].startEmitted
  BY <1>1, <1>2, <1>3 DEF PendingInv
<1>5. emitted \in Nat /\ emitted > 0 /\ turn' \notin TurnEnded
  BY <1>2, <1>4, SendingFacts
<1>6. /\ calls[c] \in CallRecord
      /\ MeasuredInv(c, calls[c]) /\ ResultInv(calls[c], wrapping[c], wrapped[c])
      /\ calls[c].result = "native"
  BY <1>1, <1>4 DEF RecordsInv, ToolTyped, ResultInv
<1>7. /\ \E s \in CallRecord :
           /\ calls' = [calls EXCEPT ![c] = s] /\ MeasuredInv(c, s)
           /\ s.startEmitted /\ s.custom = calls[c].custom
           /\ s.completed = calls[c].completed /\ s.result = calls[c].result
      /\ ShownInv'
  <2>1. PICK r \in CallRecord : r = calls[c]
    BY <1>6
  <2>2. /\ EndEvent(c, r) /\ r.completed /\ MeasuredInv(c, r)
        /\ r.startEmitted = calls[c].startEmitted /\ r.endEmitted = calls[c].endEmitted
        /\ r.startEmitted /\ r.custom = calls[c].custom
        /\ r.result # "none" /\ (r.result # "native" => r.custom)
    <3>1. EndEvent(c, r)
      BY <1>2, <1>3, <2>1
    <3> QED BY <3>1, <2>1, <1>4, <1>6
  <2>3. /\ \E s \in CallRecord :
             /\ calls' = [calls EXCEPT ![c] = s] /\ MeasuredInv(c, s)
             /\ s.startEmitted /\ s.custom = r.custom
             /\ s.completed = r.completed /\ s.result = r.result
        /\ ShownInv'
    BY <2>2, <1>1, <1>5, EndEventStep
  <2> QED BY <2>1, <2>3
<1>8. PICK s \in CallRecord :
        /\ calls' = [calls EXCEPT ![c] = s] /\ MeasuredInv(c, s)
        /\ s.startEmitted /\ s.custom = calls[c].custom
        /\ s.completed = calls[c].completed /\ s.result = calls[c].result
  BY <1>7
<1>9. ResultInv(s, wrapping'[c], wrapped'[c])
  BY <1>2, <1>6, <1>8 DEF ResultInv
<1>10. ToolTyped' /\ RecordsInv'
  BY <1>1, <1>2, <1>8, <1>9, OneRecord DEF ToolTyped
<1>11. NotedInv' /\ PendingInv'
  BY <1>2, <1>5 DEF NotedInv, PendingInv
<1> QED BY <1>7, <1>10, <1>11 DEF ToolInv

LEMMA ToolTurnEndsStep ==
  ASSUME StreamInv, ToolInv, ToolTurnEnds
  PROVE  ToolInv'
<1>1. ToolTyped /\ RecordsInv /\ ShownInv
  BY DEF ToolInv
<1>2. /\ pendingEnd = NoCall /\ emitted' = emitted /\ FinishTelemetry
      /\ UNCHANGED <<wrapping, wrapped, pendingEnd, shown>>
  BY DEF ToolTurnEnds, Idle, TurnEnds
<1>3. \A c \in Calls :
        /\ calls'[c] \in CallRecord /\ MeasuredInv(c, calls'[c])
        /\ ResultInv(calls'[c], wrapping[c], wrapped[c])
        /\ calls'[c].startEmitted = calls[c].startEmitted
        /\ calls'[c].endEmitted = calls[c].endEmitted /\ calls'[c].custom = calls[c].custom
        /\ calls'[c].known => calls'[c].reserved \/ calls'[c].spans = 1 \/ calls'[c].noted
  <2> SUFFICES ASSUME NEW c \in Calls
               PROVE  /\ calls'[c] \in CallRecord /\ MeasuredInv(c, calls'[c])
                      /\ ResultInv(calls'[c], wrapping[c], wrapped[c])
                      /\ calls'[c].startEmitted = calls[c].startEmitted
                      /\ calls'[c].endEmitted = calls[c].endEmitted
                      /\ calls'[c].custom = calls[c].custom
                      /\ calls'[c].known =>
                           calls'[c].reserved \/ calls'[c].spans = 1 \/ calls'[c].noted
    OBVIOUS
  <2>1. /\ calls[c] \in CallRecord /\ MeasuredInv(c, calls[c])
        /\ ResultInv(calls[c], wrapping[c], wrapped[c])
    BY <1>1 DEF ToolTyped, RecordsInv
  <2>2. CASE Interrupted(calls[c])
    <3>1. calls'[c] = Noted(calls[c])
      BY <2>2, <1>2 DEF FinishTelemetry
    <3> DEFINE r == calls[c]
               s == Noted(r)
    <3>2. /\ s \in CallRecord /\ s.noted
          /\ s.known = r.known /\ s.custom = r.custom /\ s.completed = r.completed
          /\ s.result = r.result /\ s.reserved = r.reserved /\ s.claimed = r.claimed
          /\ s.startId = r.startId /\ s.closed = r.closed /\ s.spans = r.spans
          /\ s.startEmitted = r.startEmitted /\ s.endEmitted = r.endEmitted
      BY <2>1 DEF Noted, CallRecord
    <3>3. MeasuredInv(c, r) /\ ResultInv(r, wrapping[c], wrapped[c])
      BY <2>1
    <3> HIDE DEF r, s
    <3>4. MeasuredInv(c, s) /\ ResultInv(s, wrapping[c], wrapped[c])
      BY <3>2, <3>3 DEF MeasuredInv, ResultInv
    <3>5. calls'[c] = s /\ calls[c] = r
      BY <3>1 DEF r, s
    <3> QED BY <3>2, <3>4, <3>5
  <2>3. CASE ~Interrupted(calls[c])
    <3>1. calls'[c] = calls[c]
      BY <2>3, <1>2 DEF FinishTelemetry
    <3>2. calls[c].known => calls[c].reserved \/ calls[c].spans = 1 \/ calls[c].noted
      BY <2>1, <2>3 DEF Interrupted, MeasuredInv
    <3> QED BY <2>1, <3>1, <3>2
  <2> QED BY <2>2, <2>3
<1>4. calls' \in [Calls -> CallRecord]
  <2>1. calls' = [c \in Calls |-> IF Interrupted(calls[c]) THEN Noted(calls[c]) ELSE calls[c]]
    BY <1>2 DEF FinishTelemetry
  <2>2. calls' = [c \in Calls |-> calls'[c]]
    BY <2>1
  <2> QED BY <1>3, <2>2
<1>5. ToolTyped' /\ PendingInv'
  BY <1>1, <1>2, <1>4 DEF ToolTyped, PendingInv
<1>6. RecordsInv'
  BY <1>2, <1>3 DEF RecordsInv, MeasuredInv, ResultInv
<1>7. NotedInv'
  BY <1>3 DEF NotedInv
<1>8. emitted \in Nat
  BY DEF StreamInv, StreamTyped
<1>9. ShownInv'
  BY <1>1, <1>2, <1>3, <1>8, ShownKept
<1> QED BY <1>5, <1>6, <1>7, <1>9 DEF ToolInv

(* Every other step leaves the calls alone; the stream may grow.           *)
LEMMA CallsUntouched ==
  ASSUME StreamInv, ToolInv, pendingEnd = NoCall, UNCHANGED toolVars,
         emitted' \in {emitted, emitted + 1},
         turn' \in TurnEnded => turn \in TurnEnded
  PROVE  ToolInv'
<1>1. UNCHANGED <<calls, wrapping, wrapped, pendingEnd, shown>>
  BY DEF toolVars
<1>2. ToolTyped' /\ RecordsInv' /\ NotedInv' /\ PendingInv'
  BY <1>1 DEF ToolInv, ToolTyped, RecordsInv, MeasuredInv, ResultInv, NotedInv, PendingInv
<1>3. emitted \in Nat /\ emitted' \in Nat /\ emitted' >= emitted
  BY DEF StreamInv, StreamTyped
<1>4. ShownInv'
  BY <1>1, <1>3, ShownKept DEF ToolInv
<1> QED BY <1>2, <1>4 DEF ToolInv

----------------------------------------------------------------------------
(* Every step of the tool calls is a step of the stream: a callback emits  *)
(* one event of the turn or none, and the second event of a completion     *)
(* still belongs to a turn that is sending.                                *)
LEMMA ToolStepIsStreamStep ==
  ASSUME StreamInv, ToolInv, [ToolNext]_allVars
  PROVE  [StreamNext]_streamVars
<1>1. CASE UNCHANGED allVars
  BY <1>1 DEF allVars
<1>2. CASE Idle /\ (OpenSession \/ AnnounceSession \/ ClientReads \/ ClientCloses)
           /\ UNCHANGED toolVars
  BY <1>2 DEF StreamNext
<1>3. CASE AnswerEvent
  <2>1. TurnEvent
    BY <1>3, StreamAssumption, SendingFacts DEF AnswerEvent, TurnEvent
  <2> QED BY <2>1 DEF StreamNext
<1>4. CASE ToolTurnEnds
  BY <1>4 DEF ToolTurnEnds, StreamNext
<1>5. CASE ToolStreamStep
  BY <1>5 DEF ToolStreamStep, StreamNext
<1>6. ASSUME Callback, Emit("other") \/ UNCHANGED <<emitted, queueVars>>
      PROVE  [StreamNext]_streamVars
  <2>1. turn = "sending" /\ emitted <= MaxEvents /\ turn' = turn
    BY <1>6, StreamAssumption, SendingFacts DEF Callback
  <2>2. UNCHANGED <<callerSupplied, turn, resumable, canceling, readerVars>>
    BY <1>6 DEF Callback
  <2>3. CASE Emit("other")
    <3>1. TurnEvent
      BY <2>1, <2>2, <2>3 DEF TurnEvent
    <3> QED BY <3>1 DEF StreamNext
  <2>4. CASE UNCHANGED <<emitted, queueVars>>
    BY <2>2, <2>4 DEF streamVars, turnVars
  <2> QED BY <1>6, <2>3, <2>4
<1>7. CASE NativeEndEvent
  <2>1. Emit("other") \/ UNCHANGED <<emitted, queueVars>>
    BY <1>7 DEF NativeEndEvent, EndEvent, Shows, ShowsNothing
  <2>2. turn = "sending" /\ emitted <= MaxEvents
    BY <1>7 DEF NativeEndEvent, ToolInv, PendingInv
  <2>3. UNCHANGED <<callerSupplied, turn, resumable, canceling, readerVars>>
    BY <1>7 DEF NativeEndEvent
  <2>4. CASE Emit("other")
    <3>1. TurnEvent
      BY <2>2, <2>3, <2>4 DEF TurnEvent
    <3> QED BY <3>1 DEF StreamNext
  <2>5. CASE UNCHANGED <<emitted, queueVars>>
    BY <2>3, <2>5 DEF streamVars, turnVars
  <2> QED BY <2>1, <2>4, <2>5
<1>8. ASSUME NEW c \in Calls, WrapperStarts(c) PROVE [StreamNext]_streamVars
  <2>1. Callback /\ (Emit("other") \/ UNCHANGED <<emitted, queueVars>>)
    BY <1>8 DEF WrapperStarts, StartEvent, Shows, ShowsNothing
  <2> QED BY <2>1, <1>6
<1>9. ASSUME NEW c \in Calls, NEW result, WrapperEnds(c, result) PROVE [StreamNext]_streamVars
  <2>1. Callback /\ (Emit("other") \/ UNCHANGED <<emitted, queueVars>>)
    BY <1>9 DEF WrapperEnds, EndEvent, Shows, ShowsNothing
  <2> QED BY <2>1, <1>6
<1>10. ASSUME NEW c \in Calls, NEW id, NativeStarts(c, id) PROVE [StreamNext]_streamVars
  <2>1. Callback /\ (Emit("other") \/ UNCHANGED <<emitted, queueVars>>)
    BY <1>10 DEF NativeStarts, StartEvent, Shows, ShowsNothing
  <2> QED BY <2>1, <1>6
<1>11. ASSUME NEW c \in Calls, NEW id, NEW named, NativeCompletes(c, id, named)
       PROVE  [StreamNext]_streamVars
  <2>1. Callback /\ (Emit("other") \/ UNCHANGED <<emitted, queueVars>>)
    BY <1>11 DEF NativeCompletes, StartEvent, Shows, ShowsNothing
  <2> QED BY <2>1, <1>6
<1> QED BY <1>1, <1>2, <1>3, <1>4, <1>5, <1>7, <1>8, <1>9, <1>10, <1>11 DEF ToolNext

LEMMA ToolNextInv == StreamInv /\ ToolInv /\ [ToolNext]_allVars => StreamInv' /\ ToolInv'
<1> SUFFICES ASSUME StreamInv, ToolInv, [ToolNext]_allVars PROVE StreamInv' /\ ToolInv'
  OBVIOUS
<1>1. StreamInv'
  BY ToolStepIsStreamStep, StreamNextInv
<1>2. CASE UNCHANGED allVars
  <2>1. UNCHANGED <<turn, emitted>> /\ UNCHANGED toolVars
    BY <1>2 DEF allVars, streamVars, turnVars
  <2>2. ToolTyped' /\ RecordsInv' /\ NotedInv' /\ PendingInv' /\ ShownInv'
    BY <2>1 DEF toolVars, ToolInv, ToolTyped, RecordsInv, MeasuredInv, ResultInv, NotedInv,
       PendingInv, ShownInv
  <2> QED BY <1>1, <2>2 DEF ToolInv
<1>3. CASE Idle /\ (OpenSession \/ AnnounceSession \/ ClientReads \/ ClientCloses)
           /\ UNCHANGED toolVars
  <2>1. emitted' \in {emitted, emitted + 1} /\ (turn' \in TurnEnded => turn \in TurnEnded)
    BY <1>3 DEF OpenSession, AnnounceSession, ClientReads, ClientCloses, Emit, TurnEnded, turnVars
  <2> QED BY <1>1, <1>3, <2>1, CallsUntouched DEF Idle
<1>4. CASE AnswerEvent
  <2>1. emitted' \in {emitted, emitted + 1} /\ turn' = turn /\ UNCHANGED toolVars
        /\ pendingEnd = NoCall
    BY <1>4 DEF AnswerEvent, Emit, Idle
  <2> QED BY <1>1, <2>1, CallsUntouched
<1>5. CASE ToolStreamStep
  <2>1. emitted' = emitted /\ (turn' \in TurnEnded => turn \in TurnEnded)
    BY <1>5 DEF ToolStreamStep, StreamStep, StartStream, TakeEvent, AwaitEvent, Awake, TakeResult,
       Closed, TurnEnded, turnVars
  <2>2. pendingEnd = NoCall /\ UNCHANGED toolVars
    BY <1>5 DEF ToolStreamStep, Idle
  <2> QED BY <1>1, <2>1, <2>2, CallsUntouched
<1>6. CASE ToolTurnEnds
  BY <1>1, <1>6, ToolTurnEndsStep
<1>7. CASE NativeEndEvent
  BY <1>1, <1>7, NativeEndEventStep
<1>8. ASSUME NEW c \in Calls,
             \/ WrapperStarts(c)
             \/ \E result \in {"wrapper", "failure"} : WrapperEnds(c, result)
             \/ \E id \in Ids \cup {NoId} :
                  \/ NativeStarts(c, id)
                  \/ \E named \in BOOLEAN : NativeCompletes(c, id, named)
      PROVE  ToolInv'
  BY <1>8, WrapperStartsStep, WrapperEndsStep, NativeStartsStep, NativeCompletesStep
<1> QED BY <1>1, <1>2, <1>3, <1>4, <1>5, <1>6, <1>7, <1>8 DEF ToolNext

(* The correlation of tool calls adds nothing to the stream: what it       *)
(* emits is what the events of any turn may be (_copilot_tool_calls.py).   *)
THEOREM ToolCallsImplementStream == ToolSpec => StreamSpec
<1>1. ToolInit => StreamInit
  BY DEF ToolInit
<1>2. ToolInit => StreamInv /\ ToolInv
  BY StreamInitInv, ToolInitInv DEF ToolInit
<1>3. StreamInv /\ ToolInv /\ [ToolNext]_allVars => [StreamNext]_streamVars
  BY ToolStepIsStreamStep
<1> QED BY <1>1, <1>2, <1>3, ToolNextInv, PTL DEF ToolSpec, StreamSpec

(* Every state the stream can reach has its types, and drops are counted   *)
(* within the events emitted.                                              *)
THEOREM StreamTypeCorrect == StreamSpec => []StreamTypeOK
<1> QED BY StreamInvariance, InvStreamTypeOK, PTL

(* The client knows its session first and can account for every event of   *)
(* the turn (_StreamEventQueue, run_agent_stream).                         *)
THEOREM EventsAccountedAlways == StreamSpec => []EventsAccounted
<1>1. StreamInv => EventsAccounted
  BY InvSessionFirst, InvDropsAccounted DEF EventsAccounted
<1> QED BY <1>1, StreamInvariance, PTL

(* The stream's verdict is the turn's, said last (run_agent_stream).       *)
THEOREM VerdictHonestAlways == StreamSpec => []VerdictHonest
<1> QED BY StreamInvariance, InvVerdictHonest, PTL

(* The strengthening on which the theorems about tool calls rest.          *)
THEOREM ToolInvariance == ToolSpec => [](StreamInv /\ ToolInv)
<1>1. ToolInit => StreamInv /\ ToolInv
  BY StreamInitInv, ToolInitInv DEF ToolInit
<1> QED BY <1>1, ToolNextInv, PTL DEF ToolSpec

(* The caller's evidence of a host tool is its wrapper's, and a call is    *)
(* measured once (_copilot_tool_calls.py:120-420).                         *)
THEOREM CallsAccountedAlways == ToolSpec => []CallsAccounted
<1>1. ToolInv => CallsAccounted
  <2> SUFFICES ASSUME ToolInv PROVE CallsAccounted
    OBVIOUS
  <2>1. WrapperOwnsRecord
    BY DEF ToolInv, RecordsInv, ResultInv, WrapperOwnsRecord
  <2>2. \A c \in Calls : calls[c].spans <= 1 /\ (calls[c].claimed => calls[c].spans = 1)
    BY DEF ToolInv, RecordsInv, MeasuredInv
  <2>3. \A c \in Calls : turn \in TurnEnded /\ calls[c].known =>
           calls[c].reserved \/ calls[c].spans = 1 \/ calls[c].noted
    BY DEF ToolInv, NotedInv
  <2> QED BY <2>1, <2>2, <2>3 DEF CallsAccounted, CallsMeasuredOnce
<1> QED BY <1>1, ToolInvariance, PTL

LEMMA InvToolEventsPaired == StreamInv /\ ToolInv => ToolEventsPaired
<1> SUFFICES ASSUME StreamInv, ToolInv PROVE ToolEventsPaired
  OBVIOUS
<1>1. PICK k \in 0 .. Len(out) : Passing(k) /\ k \in Nat /\ Passed = 1 .. k
  BY YieldedShape
<1>2. /\ \A e \in shown : e.n \in 2 .. emitted /\ e.which \in {"start", "end"}
      /\ \A e, f \in shown : e.n = f.n => e = f
      /\ \A e, f \in shown : e.call = f.call /\ e.which = f.which => e = f
      /\ \A e \in shown : e.which = "end" =>
           /\ \E f \in shown : f.which = "start" /\ f.call = e.call /\ f.n < e.n
           /\ e.result # "none" /\ (e.result # "native" => calls[e.call].custom)
  BY DEF ToolInv, ShownInv
<1>3. \A i \in ToolEvents : EventOf(i) \in shown /\ EventOf(i).n = out[i].n /\ i \in 1 .. k
  <2> SUFFICES ASSUME NEW i \in ToolEvents
               PROVE  EventOf(i) \in shown /\ EventOf(i).n = out[i].n /\ i \in 1 .. k
    OBVIOUS
  <2>1. i \in 1 .. k /\ \E e \in shown : e.n = out[i].n
    BY <1>1 DEF ToolEvents
  <2> QED BY <2>1 DEF EventOf
<1>4. \A i \in 1 .. k : out[i].n \in Nat
  BY <1>1 DEF Passing, Numbered
<1>5. \A i, j \in 1 .. k : i < j => out[i].n < out[j].n
  BY <1>1 DEF Passing
<1>6. \A i, j \in ToolEvents :
        EventOf(i).call = EventOf(j).call /\ i < j =>
          EventOf(i).which = "start" /\ EventOf(j).which = "end"
  <2> SUFFICES ASSUME NEW i \in ToolEvents, NEW j \in ToolEvents,
                      EventOf(i).call = EventOf(j).call, i < j
               PROVE  EventOf(i).which = "start" /\ EventOf(j).which = "end"
    OBVIOUS
  <2> DEFINE e == EventOf(i)
             f == EventOf(j)
  <2>1. e \in shown /\ f \in shown /\ e.n < f.n /\ e.n \in Nat /\ f.n \in Nat /\ e.call = f.call
    BY <1>3, <1>4, <1>5
  <2> HIDE DEF e, f
  <2>2. e.which # f.which
    BY <2>1, <1>2
  <2>3. ~(e.which = "end" /\ f.which = "start")
    <3> SUFFICES ASSUME e.which = "end", f.which = "start" PROVE FALSE
      OBVIOUS
    <3>1. PICK g \in shown : g.which = "start" /\ g.call = e.call /\ g.n < e.n
      BY <2>1, <1>2
    <3>2. g = f
      BY <3>1, <2>1, <1>2
    <3> QED BY <3>1, <3>2, <2>1
  <2>4. e.which \in {"start", "end"} /\ f.which \in {"start", "end"}
    BY <2>1, <1>2
  <2> QED BY <2>2, <2>3, <2>4 DEF e, f
<1>7. \A i \in ToolEvents :
        EventOf(i).which = "end" =>
          dropped > 0 \/ \E j \in ToolEvents : j < i /\ EventOf(j).call = EventOf(i).call
  <2> SUFFICES ASSUME NEW i \in ToolEvents, EventOf(i).which = "end", ~(dropped > 0)
               PROVE  \E j \in ToolEvents : j < i /\ EventOf(j).call = EventOf(i).call
    OBVIOUS
  <2> DEFINE e == EventOf(i)
  <2>1. e \in shown /\ e.n = out[i].n /\ e.which = "end" /\ i \in 1 .. k
    BY <1>3
  <2> HIDE DEF e
  <2>2. dropped = 0
    BY DEF StreamInv, StreamTyped
  <2>3. PICK f \in shown : f.which = "start" /\ f.call = e.call /\ f.n < e.n
    BY <2>1, <1>2
  <2>4. f.n \in 2 .. emitted /\ e.n \in Nat
    BY <2>1, <1>2, <1>4
  <2>5. ~\E j \in 1 .. Len(queue) : queue[j].n = f.n
    <3> SUFFICES ASSUME NEW j \in 1 .. Len(queue), queue[j].n = f.n PROVE FALSE
      OBVIOUS
    <3>1. out[i].n < queue[j].n
      BY <2>1, <1>1 DEF Passing
    <3> QED BY <3>1, <2>1, <2>3, <2>4
  <2>6. PICK j \in 1 .. k : out[j].n = f.n
    BY <2>2, <2>4, <2>5, <1>1 DEF Passing
  <2>7. j \in ToolEvents
    BY <2>6, <1>1 DEF ToolEvents
  <2>8. EventOf(j) = f
    BY <2>6, <2>7, <1>2, <1>3
  <2>9. j < i
    <3> SUFFICES ASSUME ~(j < i) PROVE FALSE
      OBVIOUS
    <3>1. j = i \/ i < j
      BY <2>1, <1>1
    <3>2. CASE j = i
      BY <3>2, <2>1, <2>3, <2>4, <2>6
    <3>3. CASE i < j
      <4>1. out[i].n < out[j].n
        BY <3>3, <2>1, <1>5
      <4> QED BY <4>1, <2>1, <2>3, <2>4, <2>6
    <3> QED BY <3>1, <3>2, <3>3
  <2> QED BY <2>3, <2>7, <2>8, <2>9 DEF e
<1> QED BY <1>2, <1>6, <1>7 DEF ToolEventsPaired

(* The client sees of each call at most one start and one end, in order,   *)
(* with the result of what completed it (_copilot_tool_calls.py, on_event).*)
THEOREM ToolEventsPairedAlways == ToolSpec => []ToolEventsPaired
<1> QED BY ToolInvariance, InvToolEventsPaired, PTL
==============================================================================
