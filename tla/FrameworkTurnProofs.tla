------------------------- MODULE FrameworkTurnProofs -------------------------
(***************************************************************************)
(* Proofs about the turns of an Agent Framework session, for any number of *)
(* turns, workers and updates: the history they share through its blob,    *)
(* the frames a reader sees, and what a turn settles before it lets the    *)
(* session's lock go.                                                      *)
(***************************************************************************)
EXTENDS FrameworkTurn, SequenceTheorems, FiniteSetTheorems, TLAPS

\* The lock of a worker is held by the turn between AcquireLock and Leave.
LockInv == \A t \in Turns : holder[Worker[t]] = t <=> pc[t] \in {"model", "tail"}

\* What the place of a turn says of its stream, its usage and its outcome.
PhaseOf(t) ==
    /\ outcome[t] = NONE <=> pc[t] \in {"idle", "lock", "model"}
    /\ pc[t] \in {"idle", "lock"} => stream[t] = "none"
    /\ pc[t] = "model" => stream[t] = "open"
    /\ pc[t] \in {"tail", "ended"} => stream[t] # "open"
    /\ pc[t] = "tail" => stream[t] # "none" /\ (usage[t] = 1 \/ outcome[t] = "success")
    /\ pc[t] = "ended" => stream[t] = "none" \/ usage[t] = 1
PhaseInv == \A t \in Turns : PhaseOf(t)

\* Only a turn that runs, with nothing it yielded unread, waits for storage.
RequestInv == \A t \in Turns : io[t] \in Requests => pc[t] = "model" /\ t \notin unread

\* A turn is in the blob once it has saved, until another creates the blob, and may be
\* once its save failed.  Nobody is left to create the blob when a turn that had no
\* rivals has saved, as it is not missing any more.
Absent(t) == blob = NONE \/ \A i \in DOMAIN blob : blob[i] # t
Present(t) == blob # NONE /\ \E i \in DOMAIN blob : \A j \in DOMAIN blob : blob[j] = t <=> j = i
BlobInv ==
    \A t \in Turns :
        /\ io[t] \notin {"saved", "failed"} => Absent(t)
        /\ Undisturbed(t) => Present(t) /\ Creating = {}

\* A turn that runs has loaded what the turns before it in its worker saved.
SeenInv ==
    \A t, u \in Turns :
        t # u /\ Worker[t] = Worker[u] /\ pc[t] = "model" /\ io[t] # "load" /\ Undisturbed(u)
            => u \in seen[t]

\* The frames before a terminal one, and the frames with one at their end.
Announced(fs) == \E i \in 1 .. Len(fs) : fs[i] = "start"
Clean(fs) ==
    /\ \A i \in 1 .. Len(fs) : fs[i] \notin Terminal /\ (fs[i] = "session" => i = 1)
    /\ \A i, j \in 1 .. Len(fs) : fs[i] = "start" /\ fs[j] = "start" => i = j
    /\ \A i \in 1 .. Len(fs) : fs[i] = "end" => \E j \in 1 .. i - 1 : fs[j] = "start"
Closed(fs, f) == \E gs \in Seq(Frame) : fs = Append(gs, f) /\ Clean(gs)

FramesOf(t) ==
    /\ pc[t] = "idle" => frames[t] = <<>> /\ t \notin started
    /\ outcome[t] = "success" => Closed(frames[t], "done")
    /\ outcome[t] = "error" => Closed(frames[t], "error")
    /\ outcome[t] \notin {"success", "error"} =>
         Clean(frames[t]) /\ (t \in started <=> Announced(frames[t]))
FramesInv == \A t \in Streams : FramesOf(t)

IInv ==
    /\ TypeOK /\ LockInv /\ PhaseInv /\ RequestInv /\ FramesInv
    /\ BlobInv /\ SeenInv /\ NoForkedHistory /\ RivalsElsewhere

-----------------------------------------------------------------------------
(* Sequences of frames. *)

\* Yielding a frame appends it.
LEMMA Joined ==
  ASSUME NEW fs \in Seq(Frame), NEW f \in Frame
  PROVE  fs \o <<f>> = Append(fs, f) /\ Append(fs, f) \in Seq(Frame)
  OBVIOUS

\* A delta, a call's start the first time, or the end of an announced call
\* keep the frames clean.
LEMMA CleanAppend ==
  ASSUME NEW fs \in Seq(Frame), Clean(fs), NEW f \in {"delta", "start", "end"},
         f = "start" => ~Announced(fs), f = "end" => Announced(fs)
  PROVE  /\ Clean(Append(fs, f))
         /\ Announced(Append(fs, f)) <=> Announced(fs) \/ f = "start"
<1> DEFINE gs == Append(fs, f)
<1>1. /\ Len(fs) \in Nat /\ Len(gs) = Len(fs) + 1 /\ gs[Len(fs) + 1] = f
      /\ \A i \in 1 .. Len(fs) : gs[i] = fs[i]
  OBVIOUS
<1> HIDE DEF gs
<1>2. \A i \in 1 .. Len(gs) : i \in 1 .. Len(fs) \/ i = Len(fs) + 1
  BY <1>1
<1>3. \A i \in 1 .. Len(gs) : gs[i] \notin Terminal /\ (gs[i] = "session" => i = 1)
  BY <1>1, <1>2 DEF Clean, Terminal
<1>4. Announced(gs) <=> Announced(fs) \/ f = "start"
  BY <1>1, <1>2 DEF Announced
<1>5. \A i, j \in 1 .. Len(gs) : gs[i] = "start" /\ gs[j] = "start" => i = j
  BY <1>1, <1>2 DEF Clean, Announced
<1>6. ASSUME NEW i \in 1 .. Len(gs), gs[i] = "end" PROVE \E j \in 1 .. i - 1 : gs[j] = "start"
  <2>1. CASE i \in 1 .. Len(fs)
    <3>1. PICK j \in 1 .. i - 1 : fs[j] = "start"
      BY <1>1, <1>6, <2>1 DEF Clean
    <3> QED BY <1>1, <2>1, <3>1
  <2>2. CASE i = Len(fs) + 1
    <3>1. PICK j \in 1 .. Len(fs) : fs[j] = "start"
      BY <1>1, <1>6, <2>2 DEF Announced
    <3> QED BY <1>1, <2>2, <3>1
  <2> QED BY <1>2, <2>1, <2>2
<1>7. Clean(gs)
  BY <1>3, <1>5, <1>6 DEF Clean
<1> QED BY <1>4, <1>7 DEF gs

\* Before the first frame, and after the session event.
LEMMA CleanOpening ==
  /\ Clean(<<>>) /\ ~Announced(<<>>)
  /\ Clean(<<"session">>) /\ ~Announced(<<"session">>)
  BY DEF Clean, Announced, Terminal

\* A closed stream is well formed, and shows how it ended.
LEMMA ClosedFacts ==
  ASSUME NEW fs, NEW f \in Terminal, Closed(fs, f)
  PROVE  /\ \A i \in DOMAIN fs :
              /\ fs[i] = "session" => i = 1
              /\ fs[i] = "end" => \E j \in 1 .. i - 1 : fs[j] = "start"
              /\ fs[i] \in Terminal <=> i = Len(fs)
         /\ \A i, j \in DOMAIN fs : fs[i] = "start" /\ fs[j] = "start" => i = j
         /\ Len(fs) \in DOMAIN fs /\ fs[Len(fs)] = f
<1>1. PICK gs \in Seq(Frame) : fs = Append(gs, f) /\ Clean(gs)
  BY DEF Closed
<1>2. /\ Len(gs) \in Nat /\ Len(fs) = Len(gs) + 1 /\ DOMAIN fs = 1 .. Len(gs) + 1
      /\ fs[Len(gs) + 1] = f /\ \A i \in 1 .. Len(gs) : fs[i] = gs[i]
  BY <1>1
<1>3. f # "session" /\ f # "start" /\ f # "end"
  BY DEF Terminal
<1>4. ASSUME NEW i \in DOMAIN fs, fs[i] = "end" PROVE \E j \in 1 .. i - 1 : fs[j] = "start"
  <2>1. i \in 1 .. Len(gs) /\ gs[i] = "end"
    BY <1>2, <1>3, <1>4
  <2>2. PICK j \in 1 .. i - 1 : gs[j] = "start"
    BY <1>1, <2>1 DEF Clean
  <2> QED BY <1>2, <2>1, <2>2
<1>5. \A i \in DOMAIN fs : fs[i] \in Terminal <=> i = Len(fs)
  BY <1>1, <1>2 DEF Clean
<1>6. \A i \in DOMAIN fs : fs[i] = "session" => i = 1
  BY <1>1, <1>2, <1>3 DEF Clean
<1>7. \A i, j \in DOMAIN fs : fs[i] = "start" /\ fs[j] = "start" => i = j
  BY <1>1, <1>2, <1>3 DEF Clean
<1> QED BY <1>2, <1>4, <1>5, <1>6, <1>7

-----------------------------------------------------------------------------
(* Types. *)

\* What a yield does to the frames and to the reader.
LEMMA YieldsEffect ==
  ASSUME TypeOK, NEW t \in Turns, NEW fs \in Seq(Frame), Yields(t, fs)
  PROVE  /\ frames' \in [Turns -> Seq(Frame)] /\ unread' \subseteq Turns
         /\ \A u \in Turns : u # t => frames'[u] = frames[u]
         /\ t \in Streams => frames'[t] = frames[t] \o fs
         /\ t \notin Streams => frames'[t] = frames[t]
<1>1. frames[t] \in Seq(Frame) /\ frames[t] \o fs \in Seq(Frame) /\ frames[t] \o <<>> = frames[t]
  BY DEF TypeOK
<1>2. CASE t \in Streams /\ fs # <<>>
  <2>1. frames' = [frames EXCEPT ![t] = frames[t] \o fs] /\ unread' = unread \cup {t}
    BY <1>2 DEF Yields
  <2>2. frames \in [Turns -> Seq(Frame)] /\ unread \subseteq Turns
    BY DEF TypeOK
  <2> DEFINE g == frames[t] \o fs
  <2>3. g \in Seq(Frame) /\ frames' = [frames EXCEPT ![t] = g]
    BY <1>1, <2>1
  <2> HIDE DEF g
  <2>4. /\ frames' \in [Turns -> Seq(Frame)] /\ frames'[t] = g
        /\ \A u \in Turns : u # t => frames'[u] = frames[u]
    BY <2>2, <2>3
  <2> QED BY <1>2, <2>1, <2>2, <2>4 DEF g
<1>3. CASE ~(t \in Streams /\ fs # <<>>)
  <2>1. UNCHANGED <<frames, unread>>
    BY <1>3 DEF Yields
  <2>2. t \in Streams => frames[t] = frames[t] \o fs
    BY <1>1, <1>3
  <2> QED BY <2>1, <2>2 DEF TypeOK
<1> QED BY <1>2, <1>3

\* The frames a step yields.
LEMMA FrameLists ==
  /\ <<>> \in Seq(Frame)
  /\ {<<"session">>, <<"error">>, <<"delta">>, <<"start">>, <<"end">>, <<"done">>}
       \subseteq Seq(Frame)
  /\ {<<"session", "error">>, <<"start", "end">>, <<"start", "done">>} \subseteq Seq(Frame)
  /\ \A t \in Turns : StartIfPending(t) \in {<<>>, <<"start">>}
  /\ {"session", "delta", "start", "end", "done", "error"} \subseteq Frame
  BY DEF Frame, StartIfPending

\* Every storage operation keeps the types.
LEMMA HistoryType ==
  ASSUME TypeOK, NEW t \in Turns,
         HistoryStep(t) \/ Lands(t) \/ Fails(t) \/ Load(t) \/ Save(t) \/ UNCHANGED hvars
  PROVE  /\ blob' \in Seq(Turns) \cup {NONE}
         /\ io' \in [Turns -> IoState]
         /\ seen' \in [Turns -> (SUBSET Turns) \cup {NONE}]
         /\ rivals' \in [Turns -> SUBSET Turns]
<1>1. blob # NONE => blob \in Seq(Turns) /\ Append(blob, t) \in Seq(Turns)
                     /\ ToSet(blob) \subseteq Turns
  BY DEF TypeOK, ToSet
<1>2. <<>> \in Seq(Turns)
  OBVIOUS
<1>3. Creating \subseteq Turns
  BY DEF Creating
<1> USE DEF TypeOK, Moves, hvars, IoState, Requests
<1>4. CASE Download(t)
  BY <1>1, <1>4 DEF Download
<1>5. CASE AppendBlock(t)
  BY <1>1, <1>5, <1>3 DEF AppendBlock
<1>6. CASE BlobMissing(t) \/ CreateBlob(t) \/ Load(t) \/ Save(t)
  BY <1>2, <1>6 DEF BlobMissing, CreateBlob, Load, Save
<1>7. CASE Fails(t)
  <2>1. {"failed", Late(io[t])} \subseteq IoState
    BY DEF Late
  <2>2. io' \in [Turns -> IoState] /\ UNCHANGED <<blob, seen, rivals>>
    BY <1>7, <2>1 DEF Fails
  <2> QED BY <2>2
<1>8. CASE Lands(t)
  BY <1>1, <1>2, <1>8 DEF Lands
<1> QED BY <1>4, <1>5, <1>6, <1>7, <1>8 DEF HistoryStep

\* Every step keeps the types.
LEMMA TypeStep ==
  ASSUME TypeOK, NEW t \in Turns, Opens(t) \/ Works(t) \/ Ends(t) \/ Closes(t) \/ Reads(t)
  PROVE  TypeOK'
<1> USE DEF Goto, Outcome
<1>1. CASE Opens(t)
  <2>1. CASE Begin(t)
    <3>1. PICK fs \in Seq(Frame) : Yields(t, fs)
      BY <2>1, FrameLists DEF Begin, Built, BuildFails
    <3>2. frames' \in [Turns -> Seq(Frame)] /\ unread' \subseteq Turns
      BY <3>1, YieldsEffect
    <3>3. pc' \in [Turns -> {"idle", "lock", "model", "tail", "ended"}]
          /\ outcome' \in [Turns -> Outcome \cup {NONE}]
      BY <2>1 DEF TypeOK, Begin, Built, BuildFails
    <3> QED BY <2>1, <3>2, <3>3 DEF TypeOK, Begin, hvars
  <2>2. CASE AcquireLock(t)
    BY <2>2, HistoryType, WorkerAssumption DEF TypeOK, AcquireLock
  <2>3. CASE LockTimesOut(t)
    <3>1. Yields(t, <<"error">>)
      BY <2>3 DEF LockTimesOut
    <3>2. frames' \in [Turns -> Seq(Frame)] /\ unread' \subseteq Turns
      BY <3>1, YieldsEffect, FrameLists
    <3> QED BY <2>3, <3>2 DEF TypeOK, LockTimesOut, hvars
  <2> QED BY <1>1, <2>1, <2>2, <2>3 DEF Opens
<1>2. CASE Works(t)
  <2>1. CASE BeginSave(t) \/ StorageStep(t)
    BY <2>1, HistoryType DEF TypeOK, BeginSave, StorageStep, InModel, turn
  <2>2. CASE ReceiveText(t) \/ ReceiveResult(t) \/ \E whole \in BOOLEAN : ReceiveCall(t, whole)
    <3>1. frames' \in [Turns -> Seq(Frame)] /\ unread' \subseteq Turns
      <4>1. StartIfPending(t) \o <<"end">> \in Seq(Frame)
        <5>1. CASE StartIfPending(t) = <<>>
          BY <5>1, FrameLists
        <5>2. CASE StartIfPending(t) = <<"start">>
          BY <5>2, FrameLists
        <5> QED BY <5>1, <5>2, FrameLists
      <4>2. (\E fs \in Seq(Frame) : Yields(t, fs)) \/ UNCHANGED <<frames, unread>>
        BY <2>2, <4>1, FrameLists DEF ReceiveText, ReceiveResult, ReceiveCall
      <4> QED BY <4>2, YieldsEffect DEF TypeOK
    <3>2. Receives(t) /\ updates' \in [Turns -> 0 .. MaxUpdates]
      <4>1. Receives(t)
        BY <2>2 DEF ReceiveText, ReceiveResult, ReceiveCall
      <4> QED BY <4>1, TurnAssumption DEF Receives, TypeOK
    <3>3. started' \subseteq Turns /\ call' \in [Turns -> {"none", "partial", "complete"}]
      <4>1. CASE ReceiveText(t)
        BY <4>1 DEF ReceiveText, TypeOK
      <4>2. CASE ReceiveResult(t)
        BY <4>2 DEF ReceiveResult, TypeOK
      <4>3. CASE \E whole \in BOOLEAN : ReceiveCall(t, whole)
        BY <4>3 DEF ReceiveCall, Merged, TypeOK
      <4> QED BY <2>2, <4>1, <4>2, <4>3
    <3> QED BY <3>1, <3>2, <3>3 DEF TypeOK, Receives, InModel, hvars
  <2>3. CASE Exhausted(t) \/ Returns(t)
    <3>1. frames' \in [Turns -> Seq(Frame)] /\ unread' \subseteq Turns
      <4>1. StartIfPending(t) \o <<"done">> \in Seq(Frame)
        <5>1. CASE StartIfPending(t) = <<>>
          BY <5>1, FrameLists
        <5>2. CASE StartIfPending(t) = <<"start">>
          BY <5>2, FrameLists
        <5> QED BY <5>1, <5>2, FrameLists
      <4>2. Yields(t, StartIfPending(t) \o <<"done">>) \/ UNCHANGED <<frames, unread>>
        BY <2>3 DEF Exhausted, Returns
      <4> QED BY <4>1, <4>2, YieldsEffect DEF TypeOK
    <3>2. Completes(t) /\ started' \subseteq Turns
      BY <2>3 DEF Exhausted, Returns, TypeOK
    <3> QED BY <3>1, <3>2 DEF TypeOK, Completes, hvars
  <2> QED BY <1>2, <2>1, <2>2, <2>3 DEF Works
<1>3. CASE \E end \in {"error", "canceled"} : Breaks(t, end)
  <2>1. PICK end \in {"error", "canceled"} : Breaks(t, end)
    BY <1>3
  <2>2. PICK fs \in Seq(Frame) : Yields(t, fs)
    BY <2>1, FrameLists DEF Breaks
  <2>3. Fails(t) \/ UNCHANGED hvars
    BY <2>1 DEF Breaks, CutStorage
  <2> QED BY <2>1, <2>2, <2>3, YieldsEffect, HistoryType
          DEF TypeOK, Breaks, Finalizes, CleanedUp, EmitUsage
<1>4. CASE Leave(t)
  BY <1>4 DEF TypeOK, Leave, FinalUsage, EmitUsage, hvars
<1>5. CASE Closes(t)
  BY <1>5 DEF TypeOK, Closes, Finalizes, CleanedUp, EmitUsage, hvars
<1>6. CASE Reads(t)
  BY <1>6 DEF TypeOK, Reads, hvars
<1> QED BY <1>1, <1>2, <1>3, <1>4, <1>5, <1>6 DEF Ends

-----------------------------------------------------------------------------
(* The lock, and what a turn settles before it goes. *)

\* Every step keeps the lock with the turn that runs, and settles that turn.
LEMMA PhaseStep ==
  ASSUME IInv, NEW t \in Turns, Opens(t) \/ Works(t) \/ Ends(t) \/ Closes(t) \/ Reads(t)
  PROVE  LockInv' /\ PhaseInv'
<1> USE TurnAssumption, WorkerAssumption
    DEF IInv, TypeOK, LockInv, PhaseInv, PhaseOf, Goto, Outcome
<1>1. CASE Begin(t)
  <2>1. /\ pc[t] = "idle" /\ UNCHANGED <<holder, stream, usage>>
        /\ \/ pc' = [pc EXCEPT ![t] = "lock"] /\ UNCHANGED outcome
           \/ /\ pc' = [pc EXCEPT ![t] = "ended"]
              /\ outcome' = [outcome EXCEPT ![t] = "error"]
    BY <1>1 DEF Begin, Built, BuildFails
  <2>2. CASE pc' = [pc EXCEPT ![t] = "lock"] /\ UNCHANGED outcome
    BY <2>1, <2>2
  <2>3. CASE pc' = [pc EXCEPT ![t] = "ended"] /\ outcome' = [outcome EXCEPT ![t] = "error"]
    BY <2>1, <2>3
  <2> QED BY <2>1, <2>2, <2>3
<1>2. CASE AcquireLock(t)
  BY <1>2 DEF AcquireLock, LockFree
<1>3. CASE LockTimesOut(t)
  BY <1>3 DEF LockTimesOut
<1>4. CASE BeginSave(t) \/ StorageStep(t)
  BY <1>4 DEF BeginSave, StorageStep, InModel, turn
<1>5. CASE ReceiveText(t) \/ ReceiveResult(t) \/ \E whole \in BOOLEAN : ReceiveCall(t, whole)
  <2>1. UNCHANGED <<pc, holder, stream, usage, outcome>>
    BY <1>5 DEF ReceiveText, ReceiveResult, ReceiveCall, Receives, InModel
  <2> QED BY <2>1
<1>6. CASE Exhausted(t) \/ Returns(t)
  <2>1. Completes(t)
    BY <1>6 DEF Exhausted, Returns
  <2> QED BY <2>1 DEF Completes
<1>7. CASE \E end \in {"error", "canceled"} : Breaks(t, end)
  BY <1>7 DEF Breaks, Finalizes, CleanedUp, EmitUsage
<1>8. CASE Leave(t)
  BY <1>8 DEF Leave, FinalUsage, EmitUsage
<1>9. CASE Closes(t)
  BY <1>9 DEF Closes, Finalizes, CleanedUp, EmitUsage
<1>10. CASE Reads(t)
  BY <1>10 DEF Reads
<1> QED BY <1>1, <1>2, <1>3, <1>4, <1>5, <1>6, <1>7, <1>8, <1>9, <1>10 DEF Opens, Works, Ends

-----------------------------------------------------------------------------
(* The history. *)

\* What a step does to the history, and when.
LEMMA HistoryEffect ==
  ASSUME NEW t \in Turns, Opens(t) \/ Works(t) \/ Ends(t) \/ Closes(t) \/ Reads(t)
  PROVE  \/ UNCHANGED hvars
         \/ Load(t)
         \/ pc[t] = "model" /\ UNCHANGED pc /\ (Save(t) \/ HistoryStep(t))
         \/ Lands(t) /\ UNCHANGED pc
         \/ Fails(t) /\ Goto(t, "model", "tail")
<1>1. CASE Opens(t)
  BY <1>1 DEF Opens, Begin, AcquireLock, LockTimesOut
<1>2. CASE Works(t)
  BY <1>2 DEF Works, BeginSave, StorageStep, ReceiveText, ReceiveResult, ReceiveCall, Receives,
     Exhausted, Returns, Completes, Streaming, Running, InModel
<1>3. CASE Ends(t) \/ Closes(t) \/ Reads(t)
  BY <1>3 DEF Ends, Breaks, CutStorage, Leave, Closes, Reads
<1> QED BY <1>1, <1>2, <1>3

\* A turn that is absent is present once it has been appended, and appending
\* it leaves the others as they are.
LEMMA AppendTurn ==
  ASSUME TypeOK, blob # NONE, NEW t \in Turns, Absent(t), blob' = Append(blob, t)
  PROVE  /\ Present(t)'
         /\ \A u \in Turns : u # t => (Absent(u) => Absent(u)') /\ (Present(u) => Present(u)')
<1>1. /\ blob \in Seq(Turns) /\ Len(blob) \in Nat /\ blob' \in Seq(Turns) /\ blob' # NONE
      /\ DOMAIN blob = 1 .. Len(blob) /\ DOMAIN blob' = 1 .. Len(blob) + 1
      /\ blob'[Len(blob) + 1] = t /\ \A i \in DOMAIN blob : blob'[i] = blob[i]
  <2>1. blob \in Seq(Turns) /\ blob' \in Seq(Turns)
    BY DEF TypeOK
  <2>2. blob' # NONE
    BY <2>1, WorkerAssumption
  <2> QED BY <2>1, <2>2
<1>2. Present(t)'
  <2>1. \A j \in DOMAIN blob' : blob'[j] = t <=> j = Len(blob) + 1
    BY <1>1 DEF Absent
  <2> QED BY <1>1, <2>1 DEF Present
<1>3. ASSUME NEW u \in Turns, u # t, Absent(u) PROVE Absent(u)'
  BY <1>1, <1>3 DEF Absent
<1>4. ASSUME NEW u \in Turns, u # t, Present(u) PROVE Present(u)'
  <2>1. PICK i \in DOMAIN blob : \A j \in DOMAIN blob : blob[j] = u <=> j = i
    BY <1>4 DEF Present
  <2>2. i \in DOMAIN blob' /\ \A j \in DOMAIN blob' : blob'[j] = u <=> j = i
    BY <1>1, <1>4, <2>1
  <2> QED BY <1>1, <2>2 DEF Present
<1> QED BY <1>2, <1>3, <1>4

\* A blob that stays holds the same turns, an empty one none; appending leaves none empty.
LEMMA BlobFacts ==
  /\ UNCHANGED blob =>
       \A u \in Turns : (Absent(u)' <=> Absent(u)) /\ (Present(u)' <=> Present(u))
  /\ blob' = <<>> => \A u \in Turns : Absent(u)'
  /\ \A s \in Seq(Turns), t \in Turns : Append(s, t) # <<>>
<1>1. DOMAIN <<>> = {}
  OBVIOUS
<1>2. blob' = <<>> => \A u \in Turns : Absent(u)'
  BY <1>1 DEF Absent
<1>3. UNCHANGED blob =>
        \A u \in Turns : (Absent(u)' <=> Absent(u)) /\ (Present(u)' <=> Present(u))
  BY DEF Absent, Present
<1>4. ASSUME NEW s \in Seq(Turns), NEW t \in Turns PROVE Append(s, t) # <<>>
  <2>1. Len(Append(s, t)) = Len(s) + 1 /\ Len(s) \in Nat /\ Len(<<>>) = 0
    OBVIOUS
  <2>2. Len(Append(s, t)) # Len(<<>>)
    BY <2>1
  <2> QED BY <2>2
<1> QED BY <1>2, <1>3, <1>4

\* What the history says stays while nothing happens to it.
LEMMA BlobUnchanged ==
  ASSUME BlobInv, UNCHANGED hvars
  PROVE  BlobInv'
<1>1. \A u \in Turns : (Absent(u)' <=> Absent(u)) /\ (Present(u)' <=> Present(u))
  BY BlobFacts DEF hvars
<1>2. Creating' = Creating /\ \A u \in Turns : Undisturbed(u)' <=> Undisturbed(u)
  BY DEF hvars, Creating, Undisturbed
<1> QED BY <1>1, <1>2 DEF BlobInv, hvars

\* Whatever happens to the storage, a turn that saved undisturbed is in the blob, once.
LEMMA BlobStep ==
  ASSUME TypeOK, BlobInv, NEW t \in Turns,
         Load(t) \/ Save(t) \/ HistoryStep(t) \/ Lands(t) \/ Fails(t) \/ UNCHANGED hvars
  PROVE  BlobInv'
<1> USE DEF TypeOK, BlobInv, Moves, Undisturbed, Creating
<1>1. CASE AppendBlock(t)
  <2>1. /\ Absent(t) /\ blob # NONE /\ blob' = Append(blob, t)
        /\ io' = [io EXCEPT ![t] = "saved"] /\ io[t] \in {"append", "again"}
        /\ rivals' = [rivals EXCEPT ![t] = Creating]
    BY <1>1 DEF AppendBlock
  <2>2. Creating' = Creating
    BY <2>1
  <2>3. Present(t)' /\ \A u \in Turns : u # t => (Absent(u) => Absent(u)') /\ (Present(u) => Present(u)')
    BY <2>1, AppendTurn
  <2> QED BY <2>1, <2>2, <2>3
<1>2. CASE Fails(t)
  <2>1. PICK end \in {"failed", Late(io[t])} : io' = [io EXCEPT ![t] = end]
    BY <1>2 DEF Fails
  <2>2. /\ io[t] \notin {"saved", "failed", "late append", "late create"}
        /\ UNCHANGED <<blob, rivals>>
    BY <1>2 DEF Fails, Requests
  <2>3. end \in {"failed", "late append", "late create"} /\ (end = "late create" => io[t] = "create")
    BY <1>2, <2>1 DEF Fails, Requests, Late
  <2>4. Creating = {} => Creating' = {}
    BY <2>1, <2>3
  <2>5. \A u \in Turns : (Absent(u)' <=> Absent(u)) /\ (Present(u)' <=> Present(u))
    BY <2>2, BlobFacts
  <2> QED BY <2>1, <2>2, <2>3, <2>4, <2>5
<1>3. ASSUME \/ Moves(t, "create", "again")
             \/ Moves(t, "late create", "failed"),
             blob' = <<>>, UNCHANGED rivals
      PROVE  BlobInv'
  <2>1. t \in Creating
    BY <1>3
  <2>2. \A u \in Turns : ~Undisturbed(u)'
    BY <1>3, <2>1
  <2>3. \A u \in Turns : Absent(u)'
    BY <1>3, BlobFacts
  <2> QED BY <2>2, <2>3
<1>4. CASE Download(t) \/ Load(t) \/ Save(t)
  <2>1. /\ UNCHANGED <<blob, rivals>> /\ io[t] \notin {"saved", "failed", "late create"}
        /\ \E to \in {"loaded", "load", "append"} : io' = [io EXCEPT ![t] = to]
    BY <1>4 DEF Download, Load, Save
  <2>2. Creating = {} => Creating' = {}
    BY <2>1
  <2>3. \A u \in Turns : (Absent(u)' <=> Absent(u)) /\ (Present(u)' <=> Present(u))
    BY <2>1, BlobFacts
  <2> QED BY <2>1, <2>2, <2>3
<1>5. CASE BlobMissing(t)
  <2>1. /\ blob = NONE /\ blob' = NONE /\ UNCHANGED rivals
        /\ io' = [io EXCEPT ![t] = "create"]
    BY <1>5 DEF BlobMissing
  <2>2. \A u \in Turns : Absent(u)' /\ ~Present(u) /\ (Undisturbed(u)' => Undisturbed(u))
    BY <2>1 DEF Absent, Present
  <2> QED BY <2>2
<1>6. CASE Lands(t) /\ blob' # <<>>
  <2>1. /\ io[t] = "late append" /\ io' = [io EXCEPT ![t] = "failed"]
        /\ blob # NONE /\ blob' = Append(blob, t) /\ UNCHANGED rivals
    BY <1>6 DEF Lands
  <2>2. Absent(t) /\ (Creating = {} => Creating' = {})
    BY <2>1
  <2>3. \A u \in Turns : u # t => (Absent(u) => Absent(u)') /\ (Present(u) => Present(u)')
    BY <2>1, <2>2, AppendTurn
  <2> QED BY <2>1, <2>2, <2>3
<1>7. CASE Lands(t) /\ blob' = <<>>
  <2>1. Append(blob, t) # <<>> \/ blob = NONE
    BY BlobFacts
  <2>2. Moves(t, "late create", "failed") /\ UNCHANGED rivals
    BY <1>7, <2>1 DEF Lands
  <2> QED BY <1>3, <1>7, <2>2
<1>8. CASE UNCHANGED hvars
  BY <1>8, BlobUnchanged
<1>9. CASE CreateBlob(t)
  BY <1>3, <1>9 DEF CreateBlob
<1> QED BY <1>1, <1>2, <1>4, <1>5, <1>6, <1>7, <1>8, <1>9 DEF HistoryStep

\* A turn waits for storage only while it runs, and is not suspended at a yield then.
LEMMA RequestStep ==
  ASSUME IInv, NEW t \in Turns, Opens(t) \/ Works(t) \/ Ends(t) \/ Closes(t) \/ Reads(t)
  PROVE  RequestInv'
<1> USE DEF RequestInv, Requests, Moves, Goto, Ready
<1>1. /\ io \in [Turns -> IoState] /\ pc \in [Turns -> {"idle", "lock", "model", "tail", "ended"}]
      /\ RequestInv
  BY DEF IInv, TypeOK
<1>2. CASE Begin(t) \/ LockTimesOut(t)
  <2>1. /\ UNCHANGED io /\ pc[t] # "model"
        /\ \A u \in Turns : u # t => pc'[u] = pc[u] /\ (u \in unread' <=> u \in unread)
    BY <1>1, <1>2 DEF Begin, Built, BuildFails, LockTimesOut, hvars, Yields
  <2> QED BY <1>1, <2>1
<1>3. CASE AcquireLock(t)
  BY <1>1, <1>3 DEF AcquireLock, Load
<1>4. CASE BeginSave(t)
  BY <1>1, <1>4 DEF BeginSave, Save, Streaming, Running, InModel, turn
<1>5. CASE StorageStep(t)
  <2>1. UNCHANGED <<pc, unread>>
    BY <1>5 DEF StorageStep, InModel, turn
  <2>2. CASE Running(t) /\ HistoryStep(t)
    <3>1. /\ pc[t] = "model" /\ t \notin unread
          /\ \E to \in IoState : io' = [io EXCEPT ![t] = to]
      BY <2>2 DEF Running, HistoryStep, Download, AppendBlock, BlobMissing, CreateBlob, IoState
    <3> QED BY <1>1, <2>1, <3>1
  <2>3. CASE Lands(t)
    <3>1. io' = [io EXCEPT ![t] = "failed"]
      BY <2>3 DEF Lands
    <3> QED BY <1>1, <2>1, <3>1
  <2> QED BY <1>5, <2>2, <2>3 DEF StorageStep
<1>6. CASE ReceiveText(t) \/ ReceiveResult(t) \/ \E whole \in BOOLEAN : ReceiveCall(t, whole)
  <2>1. Receives(t) /\ ((\E fs : Yields(t, fs)) \/ UNCHANGED <<frames, unread>>)
    BY <1>6 DEF ReceiveText, ReceiveResult, ReceiveCall
  <2>2. /\ UNCHANGED <<io, pc>> /\ io[t] = "loaded"
        /\ \A u \in Turns : u # t => (u \in unread' <=> u \in unread)
    BY <2>1 DEF Receives, Streaming, hvars, InModel, Yields
  <2> QED BY <1>1, <2>2
<1>7. CASE Exhausted(t) \/ Returns(t)
  <2>1. Completes(t) /\ ((\E fs : Yields(t, fs)) \/ UNCHANGED <<frames, unread>>)
    BY <1>7 DEF Exhausted, Returns
  <2>2. /\ UNCHANGED io /\ io[t] = "saved"
        /\ \A u \in Turns : u # t => pc'[u] = pc[u] /\ (u \in unread' <=> u \in unread)
    BY <1>1, <2>1 DEF Completes, hvars, Yields
  <2> QED BY <1>1, <2>2
<1>8. CASE \E end \in {"error", "canceled"} : Breaks(t, end)
  <2>1. PICK end \in {"error", "canceled"} : Breaks(t, end)
    BY <1>8
  <2>2. io'[t] \notin Requests /\ \A u \in Turns : u # t => io'[u] = io[u]
    BY <1>1, <2>1 DEF Breaks, CutStorage, Fails, Late, hvars
  <2>3. \A u \in Turns : u # t => pc'[u] = pc[u] /\ (u \in unread' <=> u \in unread)
    BY <1>1, <2>1 DEF Breaks, Yields
  <2> QED BY <1>1, <2>2, <2>3
<1>9. CASE Closes(t)
  <2>1. /\ UNCHANGED io /\ t \in unread
        /\ \A u \in Turns : u # t => pc'[u] = pc[u] /\ (u \in unread' <=> u \in unread)
    BY <1>1, <1>9 DEF Closes, hvars
  <2> QED BY <1>1, <2>1
<1>10. CASE Leave(t) \/ Reads(t)
  <2>1. /\ UNCHANGED io /\ unread' \subseteq unread
        /\ pc[t] # "tail" => UNCHANGED pc
        /\ \A u \in Turns : u # t => pc'[u] = pc[u]
    BY <1>1, <1>10 DEF Leave, Reads, hvars
  <2> QED BY <1>1, <2>1
<1> QED BY <1>2, <1>3, <1>4, <1>5, <1>6, <1>7, <1>8, <1>9, <1>10 DEF Opens, Works, Ends

\* In each worker one turn runs at a time.
LEMMA OneRuns ==
  ASSUME LockInv, NEW t \in Turns, NEW u \in Turns, u # t, Worker[u] = Worker[t],
         pc[t] = "model"
  PROVE  pc[u] # "model"
<1>1. holder[Worker[t]] = t
  BY DEF LockInv
<1>2. holder[Worker[u]] # u
  BY <1>1
<1> QED BY <1>2 DEF LockInv

\* A turn that appends has its worker's lock, so that a creation which is still to be
\* served is another worker's, or was asked for by a turn that has been cut.
LEMMA RivalsStep ==
  ASSUME IInv, NEW t \in Turns, Opens(t) \/ Works(t) \/ Ends(t) \/ Closes(t) \/ Reads(t)
  PROVE  RivalsElsewhere'
<1> USE DEF RivalsElsewhere
<1>1. /\ io \in [Turns -> IoState] /\ rivals \in [Turns -> SUBSET Turns]
      /\ RequestInv /\ RivalsElsewhere
  BY DEF IInv, TypeOK
<1>2. \A u \in Turns : u # t /\ Worker[u] = Worker[t] /\ pc[t] = "model" => pc[u] # "model"
  BY OneRuns DEF IInv
<1>3. CASE AppendBlock(t) /\ pc[t] = "model"
  <2>1. /\ io[t] \in {"append", "again"} /\ io' = [io EXCEPT ![t] = "saved"]
        /\ rivals' = [rivals EXCEPT ![t] = Creating]
    BY <1>3 DEF AppendBlock, Moves
  <2>2. ASSUME NEW u \in Creating, Worker[u] = Worker[t] PROVE io[u] = "late create"
    <3>1. u \in Turns /\ u # t /\ io[u] \in {"create", "late create"}
      BY <2>1, <2>2 DEF Creating
    <3>2. pc[u] # "model"
      BY <1>3, <1>2, <2>2, <3>1
    <3> QED BY <1>1, <3>1, <3>2 DEF RequestInv, Requests
  <2>3. Creating \subseteq Turns /\ t \notin Creating
    BY <2>1 DEF Creating
  <2> QED BY <1>1, <2>1, <2>2, <2>3
<1>4. CASE UNCHANGED rivals /\ (UNCHANGED io \/ \E to : io' = [io EXCEPT ![t] = to]
                                  /\ (io[t] \in {"late create", "failed"} => to = "failed"))
  BY <1>1, <1>4
<1>5. CASE ~AppendBlock(t)
  <2>1. UNCHANGED rivals
    BY <1>5, HistoryEffect
       DEF hvars, Load, Save, HistoryStep, Download, BlobMissing, CreateBlob, Lands, Fails
  <2>2. \/ UNCHANGED io
        \/ \E to : io' = [io EXCEPT ![t] = to] /\ (io[t] \in {"late create", "failed"} => to = "failed")
    BY <1>5, HistoryEffect
       DEF hvars, Load, Save, HistoryStep, Download, BlobMissing, CreateBlob, Lands, Fails,
           Moves, Requests
  <2> QED BY <1>4, <2>1, <2>2
<1>6. CASE AppendBlock(t)
  <2>1. pc[t] = "model"
    <3>1. io[t] \in {"append", "again"}
      BY <1>6 DEF AppendBlock, Moves
    <3> QED BY <1>1, <3>1 DEF RequestInv, Requests
  <2> QED BY <1>3, <1>6, <2>1
<1> QED BY <1>5, <1>6

\* Turns of one worker run one at a time, so that each loads what the ones
\* before it saved: their histories never fork.
LEMMA SeenStep ==
  ASSUME IInv, NEW t \in Turns, Opens(t) \/ Works(t) \/ Ends(t) \/ Closes(t) \/ Reads(t)
  PROVE  SeenInv' /\ NoForkedHistory'
<1> USE DEF SeenInv, NoForkedHistory, Undisturbed
<1>1. \A u \in Turns : u # t /\ Worker[u] = Worker[t] /\ pc[t] = "model" => pc[u] # "model"
  BY OneRuns DEF IInv
<1>2. /\ io \in [Turns -> IoState]
      /\ rivals \in [Turns -> SUBSET Turns]
      /\ seen \in [Turns -> (SUBSET Turns) \cup {NONE}]
      /\ SeenInv /\ NoForkedHistory
  BY DEF IInv, TypeOK
<1>3. \A u \in Turns : pc'[u] = "model" => pc[u] = "model" \/ (u = t /\ Load(t))
  <2>1. pc \in [Turns -> {"idle", "lock", "model", "tail", "ended"}]
    BY DEF IInv, TypeOK
  <2> USE <2>1 DEF Goto
  <2>2. CASE Opens(t)
    BY <2>2 DEF Opens, Begin, Built, BuildFails, AcquireLock, LockTimesOut
  <2>3. CASE Works(t)
    BY <2>3 DEF Works, BeginSave, StorageStep, ReceiveText, ReceiveResult, ReceiveCall, Receives,
       Exhausted, Returns, Completes, InModel
  <2>4. CASE Ends(t) \/ Closes(t) \/ Reads(t)
    BY <2>4 DEF Ends, Breaks, Leave, Closes, Reads
  <2> QED BY <2>2, <2>3, <2>4
<1>4. CASE UNCHANGED hvars /\ ~Load(t)
  BY <1>2, <1>3, <1>4 DEF hvars
<1>5. CASE Load(t)
  <2>1. io[t] = "none" /\ io' = [io EXCEPT ![t] = "load"] /\ UNCHANGED <<seen, rivals>>
    BY <1>5 DEF Load, Moves
  <2> QED BY <1>2, <1>3, <2>1
<1>6. CASE Fails(t) /\ Goto(t, "model", "tail")
  <2>1. /\ pc'[t] # "model" /\ UNCHANGED <<seen, rivals>>
        /\ \E end : end # "saved" /\ io' = [io EXCEPT ![t] = end]
    BY <1>6 DEF Goto, Fails, Late, IInv, TypeOK
  <2>2. ~Load(t)
    BY <1>6 DEF Fails, Load, Moves, Requests
  <2> QED BY <1>2, <1>3, <2>1, <2>2
<1>7. CASE pc[t] = "model" /\ UNCHANGED pc /\ (Save(t) \/ HistoryStep(t))
  <2>1. CASE Download(t)
    <3>1. /\ io' = [io EXCEPT ![t] = "loaded"]
          /\ seen' = [seen EXCEPT ![t] = IF blob = NONE THEN {} ELSE ToSet(blob)]
      BY <2>1 DEF Download, Moves
    <3>2. ASSUME NEW u \in Turns, Undisturbed(u) PROVE blob # NONE /\ u \in ToSet(blob)
      BY <3>2 DEF IInv, BlobInv, Present, ToSet
    <3>3. UNCHANGED rivals /\ \A u \in Turns : u # t /\ Undisturbed(u)' => u \in seen'[t]
      BY <1>2, <2>1, <3>1, <3>2 DEF Download
    <3> QED BY <1>2, <1>7, <3>1, <3>3
  <2>2. CASE AppendBlock(t)
    <3>1. io' = [io EXCEPT ![t] = "saved"] /\ UNCHANGED seen /\ io[t] # "load"
          /\ rivals' = [rivals EXCEPT ![t] = Creating]
      BY <2>2 DEF AppendBlock, Moves
    <3> QED BY <1>1, <1>2, <1>7, <3>1
  <2>3. CASE BlobMissing(t) \/ CreateBlob(t) \/ Save(t)
    <3>1. /\ io[t] # "load" /\ UNCHANGED <<seen, rivals>>
          /\ \E to \in {"create", "again", "append"} : io' = [io EXCEPT ![t] = to]
      BY <2>3 DEF BlobMissing, CreateBlob, Save, Moves
    <3> QED BY <1>2, <1>7, <3>1
  <2> QED BY <1>7, <2>1, <2>2, <2>3 DEF HistoryStep
<1>8. CASE Lands(t) /\ UNCHANGED pc
  <2>1. UNCHANGED <<seen, rivals>> /\ io' = [io EXCEPT ![t] = "failed"]
        /\ io[t] \in {"late append", "late create"}
    BY <1>8 DEF Lands, Moves
  <2> QED BY <1>2, <1>8, <2>1
<1> QED BY <1>4, <1>5, <1>6, <1>7, <1>8, HistoryEffect

-----------------------------------------------------------------------------
(* The frames. *)

\* A turn whose frames, call and place stay, and whose outcome stays or becomes
\* that of a turn canceled or closed, keeps its frames well formed.
LEMMA FramesKept ==
  ASSUME NEW t \in Streams, FramesOf(t),
         frames'[t] = frames[t], t \in started' <=> t \in started,
         pc'[t] = "idle" => pc[t] = "idle",
         \/ outcome'[t] = outcome[t]
         \/ outcome[t] \notin {"success", "error"} /\ outcome'[t] \notin {"success", "error"}
  PROVE  FramesOf(t)'
  BY DEF FramesOf, Clean, Announced, Closed

\* A step of one turn leaves the frames of the others alone.
LEMMA OthersKept ==
  ASSUME IInv, NEW t \in Turns, Opens(t) \/ Works(t) \/ Ends(t) \/ Closes(t) \/ Reads(t),
         NEW u \in Streams, u # t
  PROVE  FramesOf(u)'
<1>1. /\ u \in Turns /\ FramesOf(u) /\ pc \in [Turns -> {"idle", "lock", "model", "tail", "ended"}]
      /\ outcome \in [Turns -> Outcome \cup {NONE}]
  BY TurnAssumption DEF IInv, TypeOK, FramesInv
<1>2. frames'[u] = frames[u]
  <2>1. (\E fs : Yields(t, fs)) \/ UNCHANGED frames
    <3>1. CASE Opens(t)
      BY <3>1 DEF Opens, Begin, Built, BuildFails, AcquireLock, LockTimesOut
    <3>2. CASE Works(t)
      BY <3>2 DEF Works, BeginSave, StorageStep, ReceiveText, ReceiveResult, ReceiveCall,
         Exhausted, Returns, turn
    <3>3. CASE Ends(t) \/ Closes(t) \/ Reads(t)
      BY <3>3 DEF Ends, Breaks, Leave, Closes, Reads
    <3> QED BY <3>1, <3>2, <3>3
  <2>2. frames \in [Turns -> Seq(Frame)]
    BY DEF IInv, TypeOK
  <2> QED BY <1>1, <2>1, <2>2 DEF Yields
<1>3. /\ u \in started' <=> u \in started
      /\ pc'[u] = pc[u] /\ outcome'[u] = outcome[u]
  <2> USE <1>1 DEF Goto
  <2>1. CASE Opens(t)
    BY <2>1 DEF Opens, Begin, Built, BuildFails, AcquireLock, LockTimesOut
  <2>2. CASE Works(t)
    BY <2>2 DEF Works, BeginSave, StorageStep, ReceiveText, ReceiveResult, ReceiveCall, Receives,
       Exhausted, Returns, Completes, turn, InModel
  <2>3. CASE Ends(t) \/ Closes(t) \/ Reads(t)
    BY <2>3 DEF Ends, Breaks, Leave, Closes, Reads
  <2> QED BY <2>1, <2>2, <2>3
<1> QED BY <1>1, <1>2, <1>3, FramesKept

\* While no terminal frame has been yielded, one may end the frames.
LEMMA CleanClosed ==
  ASSUME NEW fs \in Seq(Frame), Clean(fs), NEW f \in Frame
  PROVE  Closed(fs \o <<f>>, f)
<1>1. fs \o <<f>> = Append(fs, f)
  BY Joined
<1> QED BY <1>1 DEF Closed

\* Announcing a pending call before a frame keeps the frames clean, and the
\* call is announced if there is one.
LEMMA StartFirst ==
  ASSUME TypeOK, NEW t \in Turns, NEW f \in {"end", "done"},
         Clean(frames[t]), t \in started <=> Announced(frames[t])
  PROVE  /\ StartIfPending(t) \o <<f>> \in Seq(Frame)
         /\ \E gs \in Seq(Frame) :
              /\ Clean(gs) /\ (t \in started \/ call[t] # "none" => Announced(gs))
              /\ frames[t] \o (StartIfPending(t) \o <<f>>) = gs \o <<f>>
<1>1. frames[t] \in Seq(Frame) /\ f \in Frame /\ "start" \in Frame
  BY DEF TypeOK, Frame
<1>2. CASE call[t] # "none" /\ t \notin started
  <2> DEFINE gs == Append(frames[t], "start")
  <2>1. gs \in Seq(Frame)
    BY <1>1
  <2>2. Clean(gs) /\ Announced(gs)
    BY <1>1, <1>2, CleanAppend
  <2>3. StartIfPending(t) = <<"start">>
    BY <1>2 DEF StartIfPending
  <2>4. <<"start">> \in Seq(Frame) /\ <<f>> \in Seq(Frame)
    BY <1>1
  <2>5. StartIfPending(t) \o <<f>> \in Seq(Frame)
    BY <2>3, <2>4, ConcatProperties
  <2>6. frames[t] \o (<<"start">> \o <<f>>) = (frames[t] \o <<"start">>) \o <<f>>
    BY <1>1, <2>4, ConcatAssociative
  <2>7. frames[t] \o (StartIfPending(t) \o <<f>>) = gs \o <<f>>
    BY <1>1, <2>3, <2>6, Joined
  <2> HIDE DEF gs
  <2> QED BY <2>1, <2>2, <2>5, <2>7
<1>3. CASE ~(call[t] # "none" /\ t \notin started)
  <2>1. StartIfPending(t) = <<>>
    BY <1>3 DEF StartIfPending
  <2>2. StartIfPending(t) \o <<f>> = <<f>> /\ <<f>> \in Seq(Frame)
    BY <1>1, <2>1
  <2>3. t \in started \/ call[t] # "none" => Announced(frames[t])
    BY <1>3
  <2> QED BY <1>1, <2>2, <2>3
<1> QED BY <1>2, <1>3

\* Every step of a turn that streams keeps its frames well formed.
LEMMA OwnFrames ==
  ASSUME IInv, NEW t \in Streams, Opens(t) \/ Works(t) \/ Ends(t) \/ Closes(t) \/ Reads(t)
  PROVE  FramesOf(t)'
<1>1. /\ t \in Turns /\ TypeOK /\ PhaseOf(t) /\ FramesOf(t) /\ frames[t] \in Seq(Frame)
      /\ pc \in [Turns -> {"idle", "lock", "model", "tail", "ended"}]
      /\ outcome \in [Turns -> Outcome \cup {NONE}] /\ NONE \notin Outcome
  BY TurnAssumption DEF IInv, TypeOK, FramesInv, PhaseInv
<1>2. pc[t] \in {"lock", "model"} => Clean(frames[t]) /\ (t \in started <=> Announced(frames[t]))
  BY <1>1 DEF PhaseOf, FramesOf, Outcome
<1>3. ASSUME NEW fs \in Seq(Frame), Yields(t, fs) PROVE frames'[t] = frames[t] \o fs
  BY <1>1, <1>3, YieldsEffect
<1>4. CASE Begin(t)
  <2>1. frames[t] = <<>> /\ t \notin started /\ UNCHANGED started
    BY <1>1, <1>4 DEF Begin, Built, BuildFails, Goto, FramesOf
  <2>2. CASE Built(t)
    <3>1. frames'[t] = <<>> \o <<"session">>
      BY <1>3, <2>1, <2>2, FrameLists DEF Built
    <3>2. frames'[t] = <<"session">>
      BY <3>1
    <3>3. pc'[t] = "lock" /\ outcome'[t] = NONE
      BY <1>1, <2>2 DEF Built, Goto, PhaseOf
    <3>4. Clean(frames'[t]) /\ ~Announced(frames'[t]) /\ t \notin started'
      BY <2>1, <3>2, CleanOpening
    <3> QED BY <1>1, <3>3, <3>4 DEF FramesOf, Outcome
  <2>3. CASE BuildFails(t)
    <3>1. PICK supplied \in BOOLEAN :
            Yields(t, IF supplied THEN <<"session", "error">> ELSE <<"error">>)
      BY <2>3 DEF BuildFails
    <3>2. pc'[t] = "ended" /\ outcome'[t] = "error"
      BY <1>1, <2>3 DEF BuildFails, Goto
    <3>3. Closed(frames'[t], "error")
      <4>1. CASE supplied
        <5>1. frames'[t] = <<>> \o <<"session", "error">>
          BY <1>3, <2>1, <3>1, <4>1, FrameLists
        <5>2. frames'[t] = <<"session">> \o <<"error">>
          BY <5>1
        <5> QED BY <5>2, CleanOpening, CleanClosed, FrameLists
      <4>2. CASE ~supplied
        <5>1. frames'[t] = <<>> \o <<"error">>
          BY <1>3, <2>1, <3>1, <4>2, FrameLists
        <5> QED BY <5>1, CleanOpening, CleanClosed, FrameLists
      <4> QED BY <4>1, <4>2
    <3> QED BY <3>2, <3>3 DEF FramesOf
  <2> QED BY <1>4, <2>2, <2>3 DEF Begin
<1>5. CASE LockTimesOut(t)
  <2>1. pc[t] = "lock" /\ Yields(t, <<"error">>)
    BY <1>5 DEF LockTimesOut, Goto
  <2>2. pc'[t] = "ended" /\ outcome'[t] = "error"
    BY <1>1, <1>5 DEF LockTimesOut, Goto
  <2>3. frames'[t] = frames[t] \o <<"error">>
    BY <1>3, <2>1, FrameLists
  <2>4. "error" \in Frame
    BY DEF Frame
  <2>5. Closed(frames'[t], "error")
    BY <1>1, <1>2, <2>1, <2>3, <2>4, CleanClosed
  <2> QED BY <2>2, <2>5 DEF FramesOf
<1>6. CASE AcquireLock(t)
  BY <1>1, <1>6, FramesKept DEF AcquireLock, Goto
<1>7. CASE BeginSave(t) \/ StorageStep(t)
  BY <1>1, <1>7, FramesKept DEF BeginSave, StorageStep, InModel, turn
<1>8. CASE ReceiveText(t) \/ ReceiveResult(t) \/ \E whole \in BOOLEAN : ReceiveCall(t, whole)
  <2>1. pc[t] = "model" /\ UNCHANGED <<pc, outcome>>
    BY <1>8 DEF ReceiveText, ReceiveResult, ReceiveCall, Receives, Streaming, Running, InModel
  <2>2. Clean(frames[t]) /\ (t \in started <=> Announced(frames[t])) /\ outcome'[t] = NONE
    BY <1>1, <1>2, <2>1 DEF PhaseOf
  <2>3. \A f \in {"delta", "start", "end"} : frames[t] \o <<f>> = Append(frames[t], f)
    BY <1>1, Joined DEF Frame
  <2>4. Clean(frames'[t]) /\ (t \in started' <=> Announced(frames'[t]))
    <3>1. CASE ReceiveText(t)
      <4>1. Yields(t, <<"delta">>) /\ UNCHANGED started
        BY <3>1 DEF ReceiveText
      <4>2. frames'[t] = Append(frames[t], "delta")
        BY <1>3, <2>3, <4>1, FrameLists
      <4>3. Clean(Append(frames[t], "delta")) /\ (Announced(Append(frames[t], "delta")) <=> Announced(frames[t]))
        BY <1>1, <2>2, CleanAppend
      <4> QED BY <2>2, <4>1, <4>2, <4>3
    <3>2. CASE ReceiveResult(t)
      <4>1. call[t] # "none" /\ t \in started' /\ Yields(t, StartIfPending(t) \o <<"end">>)
        BY <3>2 DEF ReceiveResult
      <4>2. PICK gs \in Seq(Frame) :
              /\ Clean(gs) /\ (t \in started \/ call[t] # "none" => Announced(gs))
              /\ frames[t] \o (StartIfPending(t) \o <<"end">>) = gs \o <<"end">>
        BY <1>1, <2>2, StartFirst
      <4>3. StartIfPending(t) \o <<"end">> \in Seq(Frame)
        BY <1>1, <2>2, StartFirst
      <4>4. frames'[t] = gs \o <<"end">>
        BY <1>3, <4>1, <4>2, <4>3
      <4>5. frames'[t] = Append(gs, "end")
        BY <4>4, Joined DEF Frame
      <4>6. Clean(Append(gs, "end")) /\ Announced(Append(gs, "end"))
        BY <4>1, <4>2, CleanAppend
      <4> QED BY <4>1, <4>5, <4>6
    <3>3. CASE \E whole \in BOOLEAN : ReceiveCall(t, whole)
      <4>1. CASE UNCHANGED <<started, frames>>
        BY <2>2, <4>1
      <4>2. CASE t \notin started /\ started' = started \cup {t} /\ Yields(t, <<"start">>)
        <5>1. frames'[t] = Append(frames[t], "start")
          BY <1>3, <2>3, <4>2, FrameLists
        <5>2. Clean(Append(frames[t], "start")) /\ Announced(Append(frames[t], "start"))
          BY <1>1, <2>2, <4>2, CleanAppend
        <5> QED BY <4>2, <5>1, <5>2
      <4> QED BY <3>3, <4>1, <4>2 DEF ReceiveCall
    <3> QED BY <1>8, <3>1, <3>2, <3>3
  <2> QED BY <1>1, <2>1, <2>2, <2>4 DEF FramesOf, Outcome
<1>9. CASE Exhausted(t) \/ Returns(t)
  <2>1. /\ pc[t] = "model" /\ pc'[t] = "tail" /\ outcome'[t] = "success"
        /\ Yields(t, StartIfPending(t) \o <<"done">>)
    BY <1>1, <1>9 DEF Exhausted, Returns, Completes, Goto
  <2>2. PICK gs \in Seq(Frame) :
          Clean(gs) /\ frames[t] \o (StartIfPending(t) \o <<"done">>) = gs \o <<"done">>
    BY <1>1, <1>2, <2>1, StartFirst
  <2>3. StartIfPending(t) \o <<"done">> \in Seq(Frame)
    BY <1>1, <1>2, <2>1, StartFirst
  <2>4. frames'[t] = gs \o <<"done">> /\ "done" \in Frame
    BY <1>3, <2>1, <2>2, <2>3 DEF Frame
  <2>5. Closed(frames'[t], "done")
    BY <2>2, <2>4, CleanClosed
  <2> QED BY <2>1, <2>5 DEF FramesOf
<1>10. CASE \E end \in {"error", "canceled"} : Breaks(t, end)
  <2>1. PICK end \in {"error", "canceled"} : Breaks(t, end)
    BY <1>10
  <2>2. pc[t] = "model" /\ pc'[t] = "tail" /\ outcome'[t] = end /\ UNCHANGED started
    BY <1>1, <2>1 DEF Breaks, Goto
  <2>3. CASE end = "canceled"
    <3>1. frames'[t] = frames[t]
      BY <2>1, <2>3 DEF Breaks, Yields
    <3> QED BY <1>1, <2>2, <2>3, <3>1, FramesKept DEF PhaseOf, Outcome
  <2>4. CASE end = "error"
    <3>1. Yields(t, <<"error">>)
      BY <2>1, <2>4 DEF Breaks
    <3>2. frames'[t] = frames[t] \o <<"error">> /\ "error" \in Frame
      BY <1>3, <3>1, FrameLists DEF Frame
    <3>3. Closed(frames'[t], "error")
      BY <1>1, <1>2, <2>2, <3>2, CleanClosed
    <3> QED BY <2>2, <2>4, <3>3 DEF FramesOf
  <2> QED BY <2>3, <2>4
<1>11. CASE Leave(t) \/ Reads(t)
  BY <1>1, <1>11, FramesKept DEF Leave, Reads, Goto
<1>12. CASE Closes(t)
  <2>1. /\ frames'[t] = frames[t] /\ UNCHANGED started /\ pc'[t] # "idle"
        /\ outcome'[t] = outcome[t] \/ (outcome[t] = NONE /\ outcome'[t] = "closed")
    BY <1>1, <1>12 DEF Closes
  <2> QED BY <1>1, <2>1, FramesKept DEF Outcome
<1> QED BY <1>4, <1>5, <1>6, <1>7, <1>8, <1>9, <1>10, <1>11, <1>12 DEF Opens, Works, Ends

-----------------------------------------------------------------------------
(* The invariant and what follows from it. *)

LEMMA InitInv == Init => IInv
<1> SUFFICES ASSUME Init PROVE IInv
  OBVIOUS
<1>1. TypeOK
  <2>1. \A X : NONE \in X \cup {NONE}
    OBVIOUS
  <2>2. /\ frames \in [Turns -> Seq(Frame)]
        /\ blob = NONE /\ io \in [Turns -> IoState] /\ rivals \in [Turns -> SUBSET Turns]
        /\ pc \in [Turns -> {"idle", "lock", "model", "tail", "ended"}]
        /\ unread \subseteq Turns /\ started \subseteq Turns
        /\ call \in [Turns -> {"none", "partial", "complete"}]
        /\ stream \in [Turns -> {"none", "open", "exhausted", "finalized"}]
    BY DEF Init, InitHistory, IoState
  <2>3. updates \in [Turns -> 0 .. MaxUpdates] /\ usage \in [Turns -> {0, 1}]
    <3>1. updates = [t \in Turns |-> 0] /\ usage = [t \in Turns |-> 0]
      BY DEF Init
    <3>2. 0 \in 0 .. MaxUpdates /\ 0 \in {0, 1}
      BY TurnAssumption
    <3> QED BY <3>1, <3>2
  <2>4. /\ seen \in [Turns -> (SUBSET Turns) \cup {NONE}]
        /\ outcome \in [Turns -> Outcome \cup {NONE}]
        /\ holder \in [Workers -> Turns \cup {NONE}]
    <3>1. /\ seen = [t \in Turns |-> NONE] /\ outcome = [t \in Turns |-> NONE]
          /\ holder = [w \in Workers |-> NONE]
      BY DEF Init, InitHistory
    <3> QED BY <2>1, <3>1
  <2> QED BY <2>2, <2>3, <2>4 DEF TypeOK
<1> USE TurnAssumption, WorkerAssumption DEF Init, InitHistory
<1>2. LockInv /\ PhaseInv /\ RequestInv
  BY DEF LockInv, PhaseInv, PhaseOf, RequestInv, Requests
<1>3. BlobInv /\ SeenInv /\ NoForkedHistory /\ RivalsElsewhere
  BY DEF BlobInv, Absent, SeenInv, NoForkedHistory, RivalsElsewhere, Undisturbed
<1>4. FramesInv
  <2> SUFFICES ASSUME NEW t \in Streams PROVE FramesOf(t)
    BY DEF FramesInv
  <2>1. frames[t] = <<>> /\ t \notin started /\ outcome[t] = NONE
    OBVIOUS
  <2> QED BY <2>1, CleanOpening DEF FramesOf, Outcome
<1> QED BY <1>1, <1>2, <1>3, <1>4 DEF IInv

LEMMA NextInv == IInv /\ [Next]_vars => IInv'
<1> SUFFICES ASSUME IInv, [Next]_vars PROVE IInv'
  OBVIOUS
<1>1. CASE Next
  <2>1. PICK t \in Turns : Opens(t) \/ Works(t) \/ Ends(t) \/ Closes(t) \/ Reads(t)
    BY <1>1 DEF Next
  <2>2. TypeOK'
    BY <2>1, TypeStep DEF IInv
  <2>3. LockInv' /\ PhaseInv'
    BY <2>1, PhaseStep
  <2>4. BlobInv'
    BY <2>1, HistoryEffect, BlobStep DEF IInv
  <2>5. SeenInv' /\ NoForkedHistory'
    BY <2>1, SeenStep
  <2>6. FramesInv'
    BY <2>1, OwnFrames, OthersKept DEF FramesInv
  <2>7. RequestInv' /\ RivalsElsewhere'
    BY <2>1, RequestStep, RivalsStep
  <2> QED BY <2>2, <2>3, <2>4, <2>5, <2>6, <2>7 DEF IInv
<1>2. CASE UNCHANGED vars
  <2>1. TypeOK' /\ LockInv' /\ PhaseInv' /\ RequestInv'
    BY <1>2 DEF vars, hvars, turn, IInv, TypeOK, LockInv, PhaseInv, PhaseOf, RequestInv
  <2>2. BlobInv'
    BY <1>2, BlobUnchanged DEF vars, IInv
  <2>3. SeenInv' /\ NoForkedHistory' /\ RivalsElsewhere'
    BY <1>2 DEF vars, hvars, turn, IInv, SeenInv, NoForkedHistory, RivalsElsewhere, Undisturbed
  <2>4. FramesInv'
    BY <1>2 DEF vars, hvars, turn, IInv, FramesInv, FramesOf
  <2> QED BY <2>1, <2>2, <2>4, <2>3 DEF IInv
<1> QED BY <1>1, <1>2

\* The inductive invariant holds in every reachable state.
THEOREM Invariance == Spec => []IInv
  BY InitInv, NextInv, PTL DEF Spec

\* Every variable keeps its type.
THEOREM TypeCorrect == Spec => []TypeOK
<1>1. IInv => TypeOK
  BY DEF IInv
<1> QED BY <1>1, Invariance, PTL

\* Whatever storage does and however turns of other workers save meanwhile, a session's
\* history keeps what was saved, once, and does not fork in a worker, unless a first save
\* that found no blob was still to create it when the turn's messages were appended; and
\* such a rival is another worker's, or was cut before.
THEOREM HistoriesAreKept == Spec => []HistoryIsKept
<1>1. ASSUME IInv PROVE HistoryIsKept
  <2>1. ASSUME NEW t \in Turns, Undisturbed(t)
        PROVE  blob # NONE /\ Occurs(t) = 1
    <3>1. blob # NONE
      BY <1>1, <2>1 DEF IInv, BlobInv, Present
    <3>2. PICK i \in DOMAIN blob : \A j \in DOMAIN blob : blob[j] = t <=> j = i
      BY <1>1, <2>1 DEF IInv, BlobInv, Present
    <3>3. {j \in DOMAIN blob : blob[j] = t} = {i}
      BY <3>2
    <3> QED BY <3>1, <3>3, FS_Singleton DEF Occurs
  <2> QED BY <1>1, <2>1 DEF IInv, HistoryIsKept, SavedIsKept
<1> QED BY <1>1, Invariance, PTL

\* What a reader sees is well formed on every path.
THEOREM StreamsAreWellFormed == Spec => []StreamIsWellFormed
<1>1. ASSUME IInv, NEW t \in Streams
      PROVE  /\ \A i \in DOMAIN frames[t] :
                  /\ frames[t][i] = "session" => i = 1
                  /\ frames[t][i] = "end" => \E j \in 1 .. i - 1 : frames[t][j] = "start"
                  /\ frames[t][i] \in Terminal => i = Len(frames[t])
             /\ Count(t, "start") <= 1
             /\ Count(t, "done") = 1 <=> outcome[t] = "success"
             /\ Count(t, "error") = 1 <=> outcome[t] = "error"
  <2> DEFINE fs == frames[t]
             At(f) == {i \in DOMAIN fs : fs[i] = f}
  <2>1. FramesOf(t) /\ fs \in Seq(Frame) /\ DOMAIN fs = 1 .. Len(fs)
    BY <1>1, TurnAssumption DEF IInv, FramesInv, TypeOK
  <2>2. ASSUME NEW f, NEW k \in DOMAIN fs, \A i \in DOMAIN fs : fs[i] = f <=> i = k
        PROVE  Cardinality(At(f)) = 1
    <3>1. At(f) = {k}
      BY <2>2
    <3> QED BY <3>1, FS_Singleton
  <2>3. ASSUME NEW f, \A i \in DOMAIN fs : fs[i] # f PROVE Cardinality(At(f)) = 0
    <3>1. At(f) = {}
      BY <2>3
    <3> QED BY <3>1, FS_EmptySet
  <2>4. ASSUME \A i, j \in DOMAIN fs : fs[i] = "start" /\ fs[j] = "start" => i = j
        PROVE  Cardinality(At("start")) <= 1
    <3>1. CASE \E k \in DOMAIN fs : fs[k] = "start"
      <4>1. PICK k \in DOMAIN fs : fs[k] = "start"
        BY <3>1
      <4>2. Cardinality(At("start")) = 1
        BY <2>2, <2>4, <4>1
      <4> QED BY <4>2
    <3>2. CASE \A k \in DOMAIN fs : fs[k] # "start"
      <4>1. Cardinality(At("start")) = 0
        BY <2>3, <3>2
      <4> QED BY <4>1
    <3> QED BY <3>1, <3>2
  <2>5. Count(t, "start") = Cardinality(At("start")) /\ Count(t, "done") = Cardinality(At("done"))
        /\ Count(t, "error") = Cardinality(At("error"))
    BY DEF Count
  <2> HIDE DEF At, fs
  <2>6. CASE outcome[t] \notin {"success", "error"}
    <3>1. Clean(fs)
      BY <2>1, <2>6 DEF FramesOf, fs
    <3>2. Cardinality(At("done")) = 0 /\ Cardinality(At("error")) = 0
      BY <2>1, <2>3, <3>1 DEF Clean, Terminal
    <3>3. Cardinality(At("start")) <= 1
      BY <2>1, <2>4, <3>1 DEF Clean
    <3>4. \A i \in DOMAIN fs :
            /\ fs[i] = "session" => i = 1
            /\ fs[i] = "end" => \E j \in 1 .. i - 1 : fs[j] = "start"
            /\ fs[i] \notin Terminal
      BY <2>1, <3>1 DEF Clean
    <3> QED BY <2>5, <2>6, <3>2, <3>3, <3>4 DEF fs
  <2>7. ASSUME NEW f \in Terminal, NEW g \in Terminal, f # g, Closed(fs, f)
        PROVE  /\ \A i \in DOMAIN fs :
                    /\ fs[i] = "session" => i = 1
                    /\ fs[i] = "end" => \E j \in 1 .. i - 1 : fs[j] = "start"
                    /\ fs[i] \in Terminal => i = Len(fs)
               /\ Cardinality(At("start")) <= 1
               /\ Cardinality(At(f)) = 1 /\ Cardinality(At(g)) = 0
    <3>1. /\ \A i \in DOMAIN fs :
               /\ fs[i] = "session" => i = 1
               /\ fs[i] = "end" => \E j \in 1 .. i - 1 : fs[j] = "start"
               /\ fs[i] \in Terminal <=> i = Len(fs)
          /\ \A i, j \in DOMAIN fs : fs[i] = "start" /\ fs[j] = "start" => i = j
          /\ Len(fs) \in DOMAIN fs /\ fs[Len(fs)] = f
      BY <2>7, ClosedFacts
    <3>2. Cardinality(At(f)) = 1
      BY <2>2, <3>1
    <3>3. Cardinality(At(g)) = 0
      BY <2>3, <2>7, <3>1
    <3> QED BY <2>4, <3>1, <3>2, <3>3
  <2>8. CASE outcome[t] = "success"
    <3>1. Closed(fs, "done")
      BY <2>1, <2>8 DEF FramesOf, fs
    <3> QED BY <2>5, <2>7, <2>8, <3>1 DEF Terminal, fs
  <2>9. CASE outcome[t] = "error"
    <3>1. Closed(fs, "error")
      BY <2>1, <2>9 DEF FramesOf, fs
    <3> QED BY <2>5, <2>7, <2>9, <3>1 DEF Terminal, fs
  <2> QED BY <2>6, <2>8, <2>9
<1>2. IInv => StreamIsWellFormed
  BY <1>1 DEF StreamIsWellFormed
<1> QED BY <1>2, Invariance, PTL

\* A turn lets the lock go only with its stream ended and its usage recorded.
THEOREM SettledFirst == Spec => []SettledBeforeRelease
<1>1. IInv => SettledBeforeRelease
  BY DEF IInv, TypeOK, LockInv, PhaseInv, PhaseOf, SettledBeforeRelease
<1> QED BY <1>1, Invariance, PTL
=============================================================================
