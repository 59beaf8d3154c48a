------------------------------ MODULE Delegation ------------------------------
(***************************************************************************)
(* The delegate tools of one request (runner.py): each call runs a leaf    *)
(* agent for at most its own timeout and at most what is left of the       *)
(* coordinator's, turns a failure into a text for the model, and counts it *)
(* in the request's error tracker.                                         *)
(***************************************************************************)
EXTENDS HarnessBinding

CONSTANTS Requests,
          Calls,              \* request -> the delegate calls it may make
          RunTimeout,         \* what a request is given
          LeafTimeout,        \* the specialist's own timeout
          MaxTime             \* bound on the clock

VARIABLES now,           \* the event loop's clock
          deadline,      \* request -> its coordinator's deadline
          leaf,          \* request -> call -> where it is, until when it may run, and on which harness
          tracker        \* request -> _DelegateErrorTracker.count

delvars == <<now, deadline, leaf, tracker>>

ASSUME DelegationAssumption ==
    /\ RunTimeout \in Nat /\ LeafTimeout \in Nat
    /\ \A r \in Requests : IsFiniteSet(Calls[r])

Call(at) == [at |-> at, until |-> 0, on |-> NONE]

InitDelegation ==
    /\ now = 0
    /\ deadline = [r \in Requests |-> 0]
    /\ leaf = [r \in Requests |-> [c \in Calls[r] |-> Call("none")]]
    /\ tracker = [r \in Requests |-> 0]

InFlight(r) == {c \in Calls[r] : leaf[r][c].at = "running"}
Failed(r) == Cardinality({c \in Calls[r] : leaf[r][c].at = "failed"})

\* Time passes; a leaf's wait_for ends it when its time is up.
Tick ==
    /\ now < MaxTime /\ now' = now + 1
    /\ \A r \in Requests : \A c \in InFlight(r) : now < leaf[r][c].until
    /\ UNCHANGED <<deadline, leaf, tracker>>

Smaller(m, n) == IF m < n THEN m ELSE n
Remaining(r) == IF deadline[r] > now THEN deadline[r] - now ELSE 0
OwnTimeout(r) == LeafTimeout   \* mutant: ignores the coordinator's deadline
LeafBudget(r) == Smaller(LeafTimeout, Remaining(r))

\* A failure is answered with a text, and counted.
CallFails(r, c) ==
    /\ leaf' = [leaf EXCEPT ![r][c] = Call("failed")]
    /\ tracker' = [tracker EXCEPT ![r] = @ + 1]
    /\ UNCHANGED <<now, deadline>>
RecordTimeout(r, c) == CallFails(r, c)

\* The specialist comes from the catalog with capabilities of its own; the coordinator's
\* harness replaces theirs.
LeafHarness(own, given) == given
Dispatch(r, c, own, given) ==
    /\ leaf[r][c].at = "none"
    /\ IF LeafBudget(r) = 0 THEN RecordTimeout(r, c)
       ELSE /\ leaf' = [leaf EXCEPT ![r][c] =
                     [at |-> "running", until |-> now + LeafBudget(r), on |-> LeafHarness(own, given)]]
            /\ UNCHANGED <<now, deadline, tracker>>

LeafEnds(r, c) ==
    /\ c \in InFlight(r)
    /\ \/ leaf' = [leaf EXCEPT ![r][c] = Call("ok")] /\ UNCHANGED <<now, deadline, tracker>>
       \/ CallFails(r, c)
       \/ now >= leaf[r][c].until /\ RecordTimeout(r, c)

\* A coordinator that ends before its delegates cancels them, which counts as neither
\* success nor failure, or leaves them to their own timeout.
CancelLeaves(r) ==
    leaf' = [leaf EXCEPT ![r] =
        [c \in Calls[r] |-> IF c \in InFlight(r) THEN Call("canceled") ELSE @[c]]]
=============================================================================
