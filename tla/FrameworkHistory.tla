--------------------------- MODULE FrameworkHistory ---------------------------
(***************************************************************************)
(* The append-blob history of Agent Framework sessions                     *)
(* (_maf_blob_history.py): one blob per agent and session, to which every  *)
(* turn appends its messages in one block.  The turns here are of one      *)
(* session, in any number of worker processes.                             *)
(***************************************************************************)
EXTENDS Naturals, Sequences, FiniteSets, SequencesExt

CONSTANTS Turns, Workers, Worker, NONE

ASSUME WorkerAssumption ==
    /\ Worker \in [Turns -> Workers]
    /\ NONE \notin Turns \cup Seq(Turns)

VARIABLES blob,          \* NONE, or the turns whose messages it holds, in order
          io,            \* turn -> what it is doing with the history
          seen           \* turn -> the turns whose messages it loaded, or NONE

\* Not state of the code: for each turn, the turns whose request to create the blob,
\* made because they had found none, was still to be served when its own messages were
\* appended.
VARIABLE rivals

hvars == <<blob, io, seen, rivals>>

InitHistory ==
    /\ blob = NONE
    /\ io = [t \in Turns |-> "none"]
    /\ seen = [t \in Turns |-> NONE]
    /\ rivals = [t \in Turns |-> {}]

Moves(t, from, to) == io[t] = from /\ io' = [io EXCEPT ![t] = to]

\* A session without a blob has no messages yet.
Download(t) ==
    /\ Moves(t, "load", "loaded")
    /\ seen' = [seen EXCEPT ![t] = IF blob = NONE THEN {} ELSE ToSet(blob)]
    /\ UNCHANGED <<blob, rivals>>

\* The messages of a turn are one block; a blob that is missing is created first.
Creating == {u \in Turns : io[u] \in {"create", "late create"}}
AppendBlock(t) ==
    /\ blob # NONE
    /\ Moves(t, "append", "saved") \/ Moves(t, "again", "saved")
    /\ blob' = Append(blob, t)
    /\ rivals' = [rivals EXCEPT ![t] = Creating]
    /\ UNCHANGED seen
BlobMissing(t) ==
    /\ blob = NONE
    /\ Moves(t, "append", "create")
    /\ UNCHANGED <<blob, seen, rivals>>

\* The creation states no condition, so the service starts an empty blob whether or not
\* another save has created one and appended to it: the ResourceExistsError that the code
\* is ready to ignore is not raised.
CreateBlob(t) ==
    /\ Moves(t, "create", "again")
    /\ blob' = <<>>
    /\ UNCHANGED <<seen, rivals>>

\* A request that storage refuses, or that the turn's end cuts, is not served, or is
\* served later, when nobody waits for its answer.
Requests == {"load", "append", "create", "again"}
Late(request) ==
    IF request = "create" THEN "late create"
    ELSE IF request = "load" THEN "failed" ELSE "late append"
Fails(t) ==
    /\ io[t] \in Requests
    /\ \E end \in {"failed", Late(io[t])} : io' = [io EXCEPT ![t] = end]
    /\ UNCHANGED <<blob, seen, rivals>>
Lands(t) ==
    /\ \/ Moves(t, "late append", "failed") /\ blob # NONE /\ blob' = Append(blob, t)
       \/ Moves(t, "late create", "failed") /\ blob' = <<>>
    /\ UNCHANGED <<seen, rivals>>

Load(t) == Moves(t, "none", "load") /\ UNCHANGED <<blob, seen, rivals>>
\* A save that creates the blob before it appends, every time (mutant of Save).
SaveCreating(t) == Moves(t, "loaded", "create") /\ UNCHANGED <<blob, seen, rivals>>
Save(t) == Moves(t, "loaded", "append") /\ UNCHANGED <<blob, seen, rivals>>
HistoryStep(t) == Download(t) \/ AppendBlock(t) \/ BlobMissing(t) \/ CreateBlob(t)
=============================================================================
