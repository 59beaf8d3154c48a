---------------------------- MODULE SessionFiles ----------------------------
(***************************************************************************)
(* The files of a native session kept as blobs                             *)
(* (harness/copilot_sdk/_copilot_session_blob.py behind the adapter of     *)
(* _copilot_session_fs.py).  A file operation reads what it needs and then *)
(* sends its requests one after the other; the adapter's lock keeps other  *)
(* operations out, but an error, a cancellation or the deadline may end it *)
(* between any two requests, and the next turn opens what is left.         *)
(***************************************************************************)
EXTENDS Naturals, Sequences, FiniteSets, SequencesExt

CONSTANTS
  Paths,          (* the paths given to operations: sequences of numbers   *)
                  (* that stand for names, in the order of the names       *)
  Workspace,      (* WORKSPACE_ROOT                                        *)
  MaxCalls,       (* bound on the operations of the native runtime         *)
  MaxTurns        (* bound on the times the session is opened              *)

ASSUME FilesAssumption ==
  /\ \A p \in Paths : p \in Seq(Nat)
  /\ Workspace \in Paths /\ Len(Workspace) = 1 /\ <<>> \in Paths
  /\ MaxCalls \in Nat /\ MaxTurns \in Nat

VARIABLES
  blobs,          (* the session's blobs: name -> content                  *)
  adapter,        (* the adapter of the current turn                       *)
  expired,        (* its deadline has passed                               *)
  todo,           (* the requests that the running operation has left      *)
  adding,         (* what it will have written once it returns             *)
  calls, turns,
  kept            (* history: what returned writes stored and no operation *)
                  (* that began since overwrites or removes                *)

filesVars == <<blobs, adapter, expired, todo, adding, calls, turns, kept>>

(* "p" is the file's blob, "p/" the marker of the directory.               *)
File(p) == [path |-> p, marker |-> FALSE]
Marker(p) == [path |-> p, marker |-> TRUE]

Names == DOMAIN blobs
Parent(p) == SubSeq(p, 1, Len(p) - 1)
Ancestors(p) == {SubSeq(p, 1, n) : n \in 1 .. Len(p) - 1}
Contents(names) == UNION {ToSet(blobs[b]) : b \in names}

FilesTypeOK ==
  /\ \A b \in Names : b.path \in Seq(Nat) /\ b.marker \in BOOLEAN /\ blobs[b] \in Seq(1 .. MaxCalls)
  /\ adapter \in {"none", "opening", "open", "closed"}
  /\ expired \in BOOLEAN
  /\ adding \subseteq 1 .. MaxCalls
  /\ calls \in 0 .. MaxCalls /\ turns \in 0 .. MaxTurns
  /\ kept \subseteq 1 .. calls

FilesInit ==
  /\ blobs = [b \in {} |-> <<>>]
  /\ adapter = "none" /\ expired = FALSE
  /\ todo = <<>> /\ adding = {}
  /\ calls = 0 /\ turns = 0 /\ kept = {}

----------------------------------------------------------------------------
(* Lookup.                                                                 *)
Under(p) == {b \in Names : IsPrefix(p, b.path) /\ (b.path # p \/ b.marker)}
IsFile(p) == File(p) \in Names
IsDirectory(p) == ~IsFile(p) /\ Under(p) # {}
Exists(p) == IsFile(p) \/ Under(p) # {}
IsEmpty(p) == Under(p) \subseteq {Marker(p)}

ParentsChecked(p) == \A q \in Ancestors(p) : ~IsFile(q)

(* list_blobs answers in the order of the names.                           *)
Precedes(a, b) ==
  \/ IsStrictPrefix(a.path, b.path)
  \/ \E i \in DOMAIN a.path \cap DOMAIN b.path :
       a.path[i] < b.path[i] /\ \A j \in 1 .. i - 1 : a.path[j] = b.path[j]

Listings(names) ==
  {order \in [1 .. Cardinality(names) -> names] :
     \A i, j \in DOMAIN order : i < j => Precedes(order[i], order[j])}

----------------------------------------------------------------------------
(* Requests, and the operations as the requests they send.                 *)
Put(name, content) == [name |-> name, put |-> TRUE, content |-> content]
Delete(name) == [name |-> name, put |-> FALSE, content |-> <<>>]

Touch(p) == Put(Marker(p), <<>>)

(* mkdir with recursive: the missing ancestors first.                      *)
MakeDirectory(p) ==
  LET make[n \in 0 .. Len(p)] ==
        LET q == SubSeq(p, 1, n)
        IN  IF IsDirectory(q) THEN <<>>
            ELSE IF n = 0 THEN <<Touch(q)>>
            ELSE make[n - 1] \o <<Touch(q), Touch(Parent(q))>>
  IN  make[Len(p)]

WriteRequests(p, content) ==
  MakeDirectory(Parent(p)) \o <<Put(File(p), content)>>
    \o IF IsFile(p) THEN <<>> ELSE <<Touch(Parent(p))>>

(* Mutant: the source goes before its copy is stored.                      *)
DeleteCopy(from, to) == <<Delete(from), Put(to, blobs[from])>>

CopyDelete(from, to) == <<Put(to, blobs[from]), Delete(from)>>

Moved(b, src, dest) == [b EXCEPT !.path = dest \o SubSeq(b.path, Len(src) + 1, Len(b.path))]

(* The names an operation on p is about: its file, or all in its directory. *)
Meant(p) == IF IsFile(p) THEN {File(p)} ELSE Under(p)

RenameRequests(order, src, dest) ==
  FlattenSeq([i \in DOMAIN order |-> CopyDelete(order[i], Moved(order[i], src, dest))])
    \o <<Touch(Parent(src)), Touch(Parent(dest))>>

RemoveRequests(order, p) ==
  [i \in DOMAIN order |-> Delete(order[i])] \o <<Touch(Parent(p))>>

----------------------------------------------------------------------------
(* An operation gets the adapter's lock; one that is refused, or that only *)
(* reads, changes nothing.                                                 *)
Released(names) == Contents(names) \ Contents(Names \ names)

Ready == adapter = "open" /\ ~expired /\ todo = <<>> /\ calls < MaxCalls

Begin(requests, overwritten, added) ==
  /\ requests # <<>>
  /\ calls' = calls + 1
  /\ todo' = requests
  /\ adding' = added
  /\ kept' = kept \ Released(overwritten \cap Names)
  /\ UNCHANGED <<blobs, adapter, expired, turns>>

Writable(p) == p # <<>> /\ ParentsChecked(p) /\ ~IsDirectory(p)

WriteFile(p) ==
  Writable(p) /\ Begin(WriteRequests(p, <<calls + 1>>), {File(p)}, {calls + 1})

Appended(p) == Append(IF IsFile(p) THEN blobs[File(p)] ELSE <<>>, calls + 1)

AppendFile(p) ==
  Writable(p) /\ Begin(WriteRequests(p, Appended(p)), {}, {calls + 1})

Mkdir(p) ==
  /\ ParentsChecked(p) /\ ~Exists(p)
  /\ \/ Begin(MakeDirectory(p), {}, {})
     \/ IsDirectory(Parent(p)) /\ Begin(<<Touch(p), Touch(Parent(p))>>, {}, {})

Rm(p, recursive) ==
  /\ p # <<>> /\ ParentsChecked(p) /\ Exists(p)
  /\ IsFile(p) \/ recursive \/ IsEmpty(p)
  /\ \E order \in Listings(Meant(p)) : Begin(RemoveRequests(order, p), Meant(p), {})

(* Mutant: a target is replaced whatever it is, as long as it is empty.    *)
ReplaceableIfEmpty(src, dest) == IsFile(dest) \/ IsEmpty(dest)

(* A file replaces a file, a directory an empty directory.                 *)
Replaceable(src, dest) ==
  Exists(dest) => IsFile(src) = IsFile(dest) /\ (IsFile(dest) \/ IsEmpty(dest))

Rename(src, dest) ==
  /\ src # <<>> /\ dest # <<>> /\ src # dest
  /\ ParentsChecked(src) /\ Exists(src)
  /\ IsFile(src) \/ ~IsPrefix(src, dest)
  /\ ParentsChecked(Parent(dest)) /\ IsDirectory(Parent(dest))
  /\ Replaceable(src, dest)
  /\ \E order \in Listings(Meant(src)) :
       Begin(RenameRequests(order, src, dest), {File(dest)}, {})

(* One request reaches the service.                                        *)
Done(request) ==
  IF request.put
  THEN [b \in Names \cup {request.name} |-> IF b = request.name THEN request.content ELSE blobs[b]]
  ELSE [b \in Names \ {request.name} |-> blobs[b]]

Returned ==
  /\ adapter' = "open"
  /\ kept' = kept \cup adding
  /\ adding' = {}

SendRequest ==
  /\ todo # <<>>
  /\ blobs' = Done(Head(todo))
  /\ todo' = Tail(todo)
  /\ \/ Len(todo) > 1 /\ UNCHANGED <<adapter, adding, kept>>
     \/ Len(todo) = 1 /\ Returned
  /\ UNCHANGED <<expired, calls, turns>>

(* The service answers with an error or the caller is canceled: the        *)
(* request in flight may have been carried out.                            *)
Cut ==
  /\ todo # <<>>
  /\ blobs' \in {blobs, Done(Head(todo))}
  /\ todo' = <<>> /\ adding' = {}
  /\ adapter' = IF adapter = "opening" THEN "closed" ELSE adapter

Fail == Cut /\ UNCHANGED <<expired, calls, turns, kept>>

Expire ==
  /\ adapter \in {"opening", "open"} /\ ~expired
  /\ expired' = TRUE
  /\ \/ Cut
     \/ todo = <<>> /\ UNCHANGED <<blobs, todo, adding, adapter>>
  /\ UNCHANGED <<calls, turns, kept>>

CloseFiles ==
  /\ adapter = "open" /\ todo = <<>>
  /\ adapter' = "closed"
  /\ UNCHANGED <<blobs, expired, todo, adding, calls, turns, kept>>

(* The next turn's adapter; a file in the workspace's place fails it.      *)
Open ==
  /\ adapter \in {"none", "closed"} \/ (expired /\ todo = <<>>)
  /\ turns < MaxTurns
  /\ turns' = turns + 1
  /\ expired' = FALSE
  /\ todo' = IF IsFile(Workspace) THEN <<>> ELSE MakeDirectory(Workspace)
  /\ adapter' = CASE IsFile(Workspace) -> "closed"
                  [] IsDirectory(Workspace) -> "open"
                  [] OTHER -> "opening"
  /\ UNCHANGED <<blobs, adding, calls, kept>>

FilesNext ==
  \/ Open \/ SendRequest \/ Fail \/ Expire \/ CloseFiles
  \/ Ready /\ \E p \in Paths :
       \/ WriteFile(p) \/ AppendFile(p) \/ Mkdir(p)
       \/ \E recursive \in BOOLEAN : Rm(p, recursive)
       \/ \E dest \in Paths : Rename(p, dest)

FilesSpec == FilesInit /\ [][FilesNext]_filesVars
----------------------------------------------------------------------------
(* has_persisted_state, which decides between create and resume.           *)
Entries(p) == {SubSeq(b.path, 1, Len(p) + 1) : b \in Under(p) \ {Marker(p)}}

(* Mutant: what is inside the workspace is not looked at.                  *)
PersistedOutside == Entries(<<>>) \ {Workspace} # {} \/ IsFile(Workspace)

HasPersistedState ==
  \/ Entries(<<>>) \ {Workspace} # {}
  \/ IsFile(Workspace)
  \/ Entries(Workspace) # {}

(* What a write or append reported as done is still stored, wherever later *)
(* operations of this or a later turn were cut, until one that overwrites  *)
(* or removes it begins: an append never costs what was there, and a       *)
(* half-done rename has each file at one of its names or at both.          *)
NothingLost == kept \subseteq Contents(Names)

(* No cut leaves a name that is a file and a directory, or a file inside   *)
(* a file, which no operation could reach or remove any more.              *)
TreeWellFormed ==
  \A b \in Names : ~b.marker =>
    /\ b.path # <<>>
    /\ Under(b.path) = {}
    /\ ParentsChecked(b.path)

(* A session is resumed whenever it holds something a turn stored, and one *)
(* that no operation of the native runtime has reached is created, even if *)
(* opening it was cut before.                                              *)
PersistedStateIsExact ==
  /\ kept # {} => HasPersistedState
  /\ calls = 0 => ~HasPersistedState
=============================================================================
