------------------------- MODULE WorkflowAdmission -------------------------
(***************************************************************************)
(* How many workflows an agent session has at once                         *)
(* (workflows/tools.py): start_workflow counts the session's active        *)
(* workflows, then schedules, with an await on the Durable service in      *)
(* between and no lock; terminate and cancel act through the service.      *)
(***************************************************************************)
EXTENDS Naturals, FiniteSets

CONSTANTS
  Caller,       (* concurrent chat turns and trigger invocations           *)
  Session,      (* agent and session pairs, the prefix of an instance ID   *)
  SessionOf,    (* the session of each caller                              *)
  Instance,     (* instance IDs; bounds the workflows ever started         *)
  Limit,        (* MAX_ACTIVE_WORKFLOWS_PER_SESSION                        *)
  None

ASSUME AdmissionAssumption ==
  /\ IsFiniteSet(Caller)
  /\ SessionOf \in [Caller -> Session]
  /\ Limit \in Nat \ {0}
  /\ None \notin Session \cup Instance

VARIABLES
  prefix,     (* the session whose prefix an instance ID carries           *)
  status,     (* the effective runtime status of each instance             *)
  underway,   (* schedule calls sent and not yet acted on by the service   *)
  cancels,    (* instances with a cancel event raised                      *)
  callers,    (* where each caller is in start_workflow, with its new ID   *)
  late        (* history: scheduled after the caller was told it failed    *)

vars == <<prefix, status, underway, cancels, callers, late>>

Terminal == {"Completed", "Failed", "Canceled", "Terminated"}

TypeOK ==
  /\ prefix \in [Instance -> Session \cup {None}]
  /\ status \in [Instance -> {"not_found", "Running"} \cup Terminal]
  /\ underway \subseteq {i \in Instance : status[i] = "not_found" /\ prefix[i] # None}
  /\ cancels \subseteq Instance
  /\ callers \in [Caller -> [phase : {"idle"}, id : {None}]
                            \cup [phase : {"counting", "scheduling"}, id : Instance]]
  /\ late \subseteq Instance

Idle == [phase |-> "idle", id |-> None]

Init ==
  /\ prefix = [i \in Instance |-> None]
  /\ status = [i \in Instance |-> "not_found"]
  /\ underway = {}
  /\ cancels = {}
  /\ callers = [c \in Caller |-> Idle]
  /\ late = {}

Active(s) == {i \in Instance : prefix[i] = s /\ status[i] = "Running"}

(* The plan is valid: an instance ID is drawn and the count asked for.     *)
RequestStart(c) ==
  /\ callers[c] = Idle
  /\ \E i \in Instance :
       /\ prefix[i] = None
       /\ prefix' = [prefix EXCEPT ![i] = SessionOf[c]]
       /\ callers' = [callers EXCEPT ![c] = [phase |-> "counting", id |-> i]]
  /\ UNCHANGED <<status, underway, cancels, late>>

FullOffByOne(s) == Cardinality(Active(s)) > Limit
Full(s) == Cardinality(Active(s)) >= Limit

(* The count answers: the schedule call is sent unless the session is full.*)
Counted(c) ==
  /\ callers[c].phase = "counting"
  /\ ~Full(SessionOf[c])
  /\ underway' = underway \cup {callers[c].id}
  /\ callers' = [callers EXCEPT ![c].phase = "scheduling"]
  /\ UNCHANGED <<prefix, status, cancels, late>>

(* The session is full or the count failed.                                *)
Refused(c) ==
  /\ callers[c].phase = "counting"
  /\ callers' = [callers EXCEPT ![c] = Idle]
  /\ UNCHANGED <<prefix, status, underway, cancels, late>>

Scheduled(c) ==
  /\ callers[c].phase = "scheduling"
  /\ status[callers[c].id] # "not_found"
  /\ callers' = [callers EXCEPT ![c] = Idle]
  /\ UNCHANGED <<prefix, status, underway, cancels, late>>

(* The schedule call raised: the service may have acted on it, may never   *)
(* see it, or may still act on it.                                         *)
ScheduleFails(c) ==
  /\ callers[c].phase = "scheduling"
  /\ underway' \in {underway, underway \ {callers[c].id}}
  /\ callers' = [callers EXCEPT ![c] = Idle]
  /\ UNCHANGED <<prefix, status, cancels, late>>

(* The service creates the instance of a schedule call.                    *)
Create(i) ==
  /\ i \in underway
  /\ underway' = underway \ {i}
  /\ status' = [status EXCEPT ![i] = "Running"]
  /\ late' = IF \E c \in Caller : callers[c].id = i THEN late ELSE late \cup {i}
  /\ UNCHANGED <<prefix, cancels, callers>>

(* The orchestration returns; only one asked to cancel ends as canceled.   *)
Finish(i) ==
  /\ status[i] = "Running"
  /\ \E s \in {"Completed", "Failed"} \cup IF i \in cancels THEN {"Canceled"} ELSE {} :
       status' = [status EXCEPT ![i] = s]
  /\ UNCHANGED <<prefix, underway, cancels, callers, late>>

Terminate(c, i) ==
  /\ prefix[i] = SessionOf[c]
  /\ status[i] = "Running"
  /\ status' = [status EXCEPT ![i] = "Terminated"]
  /\ UNCHANGED <<prefix, underway, cancels, callers, late>>

Cancel(c, i) ==
  /\ prefix[i] = SessionOf[c]
  /\ status[i] = "Running"
  /\ cancels' = cancels \cup {i}
  /\ UNCHANGED <<prefix, status, underway, callers, late>>

Next ==
  \/ \E c \in Caller : \/ RequestStart(c) \/ Counted(c) \/ Refused(c)
                       \/ Scheduled(c) \/ ScheduleFails(c)
                       \/ \E i \in Instance : Terminate(c, i) \/ Cancel(c, i)
  \/ \E i \in Instance : Create(i) \/ Finish(i)

Spec == Init /\ [][Next]_vars
----------------------------------------------------------------------------
CallersOf(s) == {c \in Caller : SessionOf[c] = s}

(* Starts that race each other overshoot the limit by at most one workflow *)
(* per further caller, however often they retry; only a start that was     *)
(* reported as failed and reached the service later is not accounted for.  *)
(* A session whose starts come one at a time keeps the limit.              *)
OvershootBounded ==
  \A s \in Session : CallersOf(s) # {} =>
    Cardinality(Active(s) \ late) <= Limit + Cardinality(CallersOf(s)) - 1

(* docs/workflows.md:524-531: the caps, max_active_workflows_per_session   *)
(* among them, are "Enforced during plan validation and at runtime".       *)
(* The code does not keep this: README.md, section 5.                      *)
ActiveLimit == \A s \in Session : Cardinality(Active(s)) <= Limit
============================================================================
