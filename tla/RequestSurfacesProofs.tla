------------------------ MODULE RequestSurfacesProofs ------------------------
(***************************************************************************)
(* What RequestSurfaces promises, for every number of applications,        *)
(* requests, delegates and changes of the switch.  The invariant follows a *)
(* request along its phases: what its application was registered with,     *)
(* where it runs, what its delegates may use up, what its span holds.      *)
(* The last part is AppComposition, for every set of files: the invariant  *)
(* says what each pass has established when the next one starts.           *)
(***************************************************************************)
EXTENDS RequestSurfaces, AppComposition, FiniteSetTheorems, WellFoundedInduction, TLAPS

\* A request that has arrived belongs to the root, as a direct call, or to a registered
\* application.
Arrived(r) ==
    req[r].pc # "idle" =>
        /\ req[r].surface \in Surfaces /\ req[r].scope \in Apps \cup {"root"}
        /\ req[r].surface = "direct" <=> req[r].scope = "root"
        /\ req[r].scope # "root" => chosen[req[r].scope] # NONE

\* The harness the requests of a scope run on, once one does.
Owned(scope) == IF scope = "root" THEN default ELSE chosen[scope]

\* A request has a harness from its start on, and it is its scope's.
Placed(r) ==
    /\ req[r].pc \in {"idle", "open"} => req[r].harness = NONE
    /\ req[r].pc \in {"running", "returned"} => req[r].harness # NONE
    /\ req[r].harness # NONE => req[r].pc # "idle" /\ req[r].harness = Owned(req[r].scope)

\* A delegate runs on its coordinator's harness, within its deadline, and only of a
\* request that runs or has left it behind; the tracker counts the failed ones.
Delegated(r) ==
    /\ \A c \in Calls[r] : leaf[r][c].at = "running" =>
          /\ req[r].pc \in {"running", "ended"} /\ req[r].outcome # "success"
          /\ leaf[r][c].on = req[r].harness
          /\ now <= leaf[r][c].until /\ leaf[r][c].until <= deadline[r]
    /\ tracker[r] = Failed(r)

\* What the span holds while the request runs, and after it returned.
Recorded(r) ==
    /\ req[r].pc \in {"idle", "open", "running"} => req[r].outcome = NONE
    /\ req[r].pc = "returned" =>
          /\ req[r].resumable
          /\ req[r].outcome = IF req[r].surface \in Spanned THEN "success" ELSE NONE
          /\ req[r].reported = Failed(r)
    /\ req[r].pc # "ended" => req[r].answer = NONE /\ ~req[r].error /\ ~req[r].told

\* AnswersAreTrue of one request.
Truthful(r) ==
    /\ req[r].told /\ ~req[r].own => req[r].resumable
    /\ Is(r, "ended", Spanned) /\ Traced(r) =>
          /\ req[r].answer = "ok" <=> req[r].outcome = "success"
          /\ req[r].error <=> req[r].outcome \in {"error", NONE}
          /\ req[r].outcome = "success" => req[r].reported = Failed(r)

RequestInv(r) == Arrived(r) /\ Placed(r) /\ Delegated(r) /\ Recorded(r) /\ Truthful(r)

IInv == TypeOK /\ carried = chosen /\ \A r \in Requests : RequestInv(r)

-----------------------------------------------------------------------------
\* The state a request starts in is one.
LEMMA InitInv == Init => IInv
<1> SUFFICES ASSUME Init PROVE IInv
  OBVIOUS
<1> USE DEF Init, InitBinding, InitDelegation, NewRequest, Call
<1>1. TypeOK
  BY DEF TypeOK, RequestState, LeafState
<1>2. ASSUME NEW r \in Requests PROVE RequestInv(r)
  <2>1. {c \in Calls[r] : leaf[r][c].at = "failed"} = {}
    OBVIOUS
  <2>2. Failed(r) = 0
    BY <2>1, FS_EmptySet DEF Failed
  <2> QED
    BY <2>2 DEF RequestInv, Arrived, Placed, Delegated, Recorded, Truthful, Is
<1> QED
  BY <1>1, <1>2 DEF IInv

-----------------------------------------------------------------------------
(* Frames: what keeps a request's part of the invariant. *)

\* Registered applications and a settled default stay as they are.
Settled ==
    /\ carried' = chosen'
    /\ \A a \in Apps : chosen[a] # NONE => chosen'[a] = chosen[a]
    /\ default # NONE => default' = default

\* A request of which nothing changes keeps its part, whatever is registered.
LEMMA Unmoved ==
  ASSUME IInv, Settled, NEW r \in Requests,
         req'[r] = req[r], leaf'[r] = leaf[r], tracker'[r] = tracker[r],
         now' = now, deadline'[r] = deadline[r]
  PROVE  RequestInv(r)'
<1>1. RequestInv(r)
  BY DEF IInv
<1>2. Failed(r)' = Failed(r)
  BY DEF Failed
<1>3. Arrived(r)' /\ Placed(r)'
  BY <1>1 DEF RequestInv, Arrived, Placed, Owned, Settled
<1>4. Delegated(r)' /\ Recorded(r)' /\ Truthful(r)'
  BY <1>1, <1>2 DEF RequestInv, Delegated, Recorded, Truthful, Traced, Is
<1> QED
  BY <1>3, <1>4 DEF RequestInv

\* A step of one request has to keep the types and its own part.
LEMMA OneMoves ==
  ASSUME IInv, Settled, TypeOK', now' = now, NEW r \in Requests, RequestInv(r)',
         \A p \in Requests \ {r} : /\ req'[p] = req[p] /\ leaf'[p] = leaf[p]
                                   /\ tracker'[p] = tracker[p] /\ deadline'[p] = deadline[p]
  PROVE  IInv'
<1>1. ASSUME NEW p \in Requests PROVE RequestInv(p)'
  BY Unmoved
<1> QED
  BY <1>1 DEF IInv, Settled

-----------------------------------------------------------------------------
(* The switch, registrations and the clock. *)

\* A registration settles a harness that nothing has run on yet.
LEMMA BindingStepInv ==
  ASSUME IInv, BindingStep, UNCHANGED <<delvars, req>>
  PROVE  IInv'
<1> USE DEF delvars
<1>1. /\ Settled /\ default' \in Harness \cup {NONE}
      /\ chosen' \in [Apps -> Harness \cup {NONE}]
      /\ switch' \in {"off", "on", "bad"} /\ flips' \in Nat
  <2>1. CASE FlipSwitch
    BY <2>1 DEF FlipSwitch, IInv, TypeOK, Settled
  <2>2. ASSUME NEW a \in Apps, Compose(a) PROVE <1>1
    <3>1. Selections(a) \ {NONE} \subseteq Harness
      BY DEF Selections, Harness, IInv, TypeOK
    <3> QED
      BY <2>2, <3>1 DEF Compose, IInv, TypeOK, Settled
  <2>3. ASSUME NEW a \in Apps, RegisterByHand(a) PROVE <1>1
    <3>1. Selections("root") \subseteq Harness \cup {NONE}
      BY DEF Selections, Harness, IInv, TypeOK
    <3> QED
      BY <2>3, <3>1 DEF RegisterByHand, GetHarness, IInv, TypeOK, Settled
  <2> QED
    BY <2>1, <2>2, <2>3 DEF BindingStep
<1>2. TypeOK'
  BY <1>1 DEF IInv, TypeOK, Settled
<1> QED
  BY <1>1, <1>2, Unmoved DEF IInv, Settled

\* The clock stops at the limit of every delegate that runs.
LEMMA TickInv ==
  ASSUME IInv, Tick, UNCHANGED <<bindvars, req>>
  PROVE  IInv'
<1> USE DEF Tick, bindvars
<1>1. TypeOK'
  BY DEF IInv, TypeOK
<1>2. ASSUME NEW r \in Requests PROVE RequestInv(r)'
  <2>1. RequestInv(r) /\ Failed(r)' = Failed(r)
    BY DEF IInv, Failed
  <2>2. ASSUME NEW c \in Calls[r], leaf[r][c].at = "running"
        PROVE  now' <= leaf[r][c].until
    <3>1. now < leaf[r][c].until
      BY <2>2 DEF InFlight
    <3>2. now \in Nat /\ leaf[r][c].until \in Nat
      BY DEF IInv, TypeOK, LeafState
    <3> QED
      BY <3>1, <3>2
  <2>3. Delegated(r)'
    BY <2>1, <2>2 DEF RequestInv, Delegated
  <2> QED
    BY <2>1, <2>3 DEF RequestInv, Arrived, Placed, Owned, Recorded, Truthful, Traced, Is
<1> QED
  BY <1>1, <1>2 DEF IInv

-----------------------------------------------------------------------------
(* The steps of a request before it runs. *)

\* A request arrives.
LEMMA ArrivesInv ==
  ASSUME IInv, NEW r \in Requests, Arrives(r)
  PROVE  IInv'
<1> USE DEF Arrives, Becomes, bindvars, delvars
<1>1. PICK s \in Through[r], a \in Apps \cup {"root"}, own \in BOOLEAN :
        /\ s = "direct" <=> a = "root"
        /\ a # "root" => chosen[a] # NONE
        /\ req' = [req EXCEPT ![r] =
                    [req[r] EXCEPT !.pc = "open", !.surface = s, !.scope = a, !.own = own]]
  OBVIOUS
<1>2. s \in Surfaces /\ req[r] \in RequestState
  BY SurfaceAssumption DEF SurfaceAssumption, IInv, TypeOK
<1> DEFINE q == [req[r] EXCEPT !.pc = "open", !.surface = s, !.scope = a, !.own = own]
<1>3. q \in RequestState
  BY <1>2 DEF RequestState
<1>4. /\ q.pc = "open" /\ q.surface = s /\ q.scope = a /\ q.own = own
      /\ q.harness = req[r].harness /\ q.outcome = req[r].outcome /\ q.error = req[r].error
      /\ q.answer = req[r].answer /\ q.told = req[r].told
  BY <1>2 DEF RequestState
<1> HIDE DEF q
<1>5. req' = [req EXCEPT ![r] = q]
  BY <1>1 DEF q
<1>6. TypeOK'
  BY <1>3, <1>5 DEF IInv, TypeOK
<1>7. req'[r] = q
  BY <1>5 DEF IInv, TypeOK
<1>8. RequestInv(r) /\ Failed(r)' = Failed(r) /\ req[r].pc = "idle"
  BY DEF IInv, Failed
<1>9. Arrived(r)' /\ Placed(r)' /\ Recorded(r)' /\ Truthful(r)'
  <2>1. Arrived(r)' /\ Placed(r)'
    BY <1>1, <1>2, <1>4, <1>7, <1>8 DEF RequestInv, Arrived, Placed
  <2>2. Recorded(r)'
    BY <1>4, <1>7, <1>8 DEF RequestInv, Recorded
  <2>3. Truthful(r)'
    <3>1. ~req[r].told
      BY <1>8 DEF RequestInv, Recorded
    <3>2. ~req'[r].told /\ req'[r].pc = "open"
      BY <1>4, <1>7, <3>1
    <3> QED
      BY <3>2 DEF Truthful, Is
  <2> QED
    BY <2>1, <2>2, <2>3
<1>10. Delegated(r)'
  BY <1>4, <1>7, <1>8 DEF RequestInv, Delegated
<1> QED
  BY <1>5, <1>6, <1>9, <1>10, OneMoves DEF RequestInv, Settled, IInv, TypeOK

-----------------------------------------------------------------------------
(* Answers. *)

\* What must be true of an answer: Truthful, of the record it makes of the request.
IsTrue(r, q) ==
    /\ q.pc = "ended" /\ q.scope = req[r].scope /\ q.surface = req[r].surface
    /\ q.told /\ ~q.own => q.resumable
    /\ q.surface \in Spanned /\ (q.harness # NONE \/ q.outcome # NONE \/ q.error) =>
          /\ q.answer = "ok" <=> q.outcome = "success"
          /\ q.error <=> q.outcome \in {"error", NONE}
          /\ q.outcome = "success" => q.reported = Failed(r)

\* A request with no delegate running is answered.
LEMMA AnswerInv ==
  ASSUME IInv, NEW r \in Requests, NEW q \in RequestState,
         req[r].pc \in {"open", "returned"}, Becomes(r, q), IsTrue(r, q),
         q.harness # NONE => q.harness = Owned(req[r].scope),
         UNCHANGED <<bindvars, delvars>>
  PROVE  IInv'
<1> USE DEF Becomes, bindvars, delvars
<1>1. TypeOK' /\ Settled
  BY DEF IInv, TypeOK, Settled
<1>2. req'[r] = q /\ \A p \in Requests \ {r} : req'[p] = req[p]
  BY DEF IInv, TypeOK
<1>3. RequestInv(r) /\ Failed(r)' = Failed(r)
  BY DEF IInv, Failed
<1>4. Arrived(r)' /\ Placed(r)'
  BY <1>2, <1>3 DEF RequestInv, Arrived, Placed, Owned, IsTrue
<1>5. Delegated(r)'
  BY <1>2, <1>3 DEF RequestInv, Delegated
<1>6. Recorded(r)' /\ Truthful(r)'
  BY <1>2, <1>3 DEF Recorded, Truthful, Traced, Is, IsTrue
<1> QED
  BY <1>1, <1>2, <1>4, <1>5, <1>6, OneMoves DEF RequestInv

\* An id is told when the caller brought it or its session can be resumed.
LEMMA TellsResumable ==
  ASSUME IInv, NEW r \in Requests, TellsId(r)
  PROVE  req[r].own \/ req[r].resumable
<1>1. RequestInv(r) /\ req[r] \in RequestState
  BY DEF IInv, TypeOK
<1>2. req[r].surface \in {"http", "chat", "mcp", "stream", "direct"}
  BY <1>1 DEF TellsId, RequestState, Surfaces
<1> QED
  BY <1>1, <1>2 DEF TellsId, EchoesId, McpEchoesId, StreamTells, RequestInv, Recorded

\* What an answer, and an error put on the span, make of a request.
LEMMA AnsweredIs ==
  ASSUME IInv, NEW r \in Requests, NEW a \in {"ok", "error", "raised"}, NEW q, q = Answered(r, a)
  PROVE  /\ q \in RequestState /\ q.pc = "ended" /\ q.scope = req[r].scope
         /\ q.surface = req[r].surface /\ q.own = req[r].own /\ q.resumable = req[r].resumable
         /\ q.harness = req[r].harness /\ q.outcome = req[r].outcome /\ q.error = req[r].error
         /\ q.reported = req[r].reported /\ q.answer = a
         /\ q.told /\ ~q.own => q.resumable
<1>1. req[r] \in RequestState /\ TellsId(r) \in BOOLEAN
  BY DEF IInv, TypeOK, TellsId, EchoesId, McpEchoesId, StreamTells, RequestState
<1>2. q = [req[r] EXCEPT !.pc = "ended", !.answer = a, !.told = TellsId(r)]
  BY DEF Answered
<1>3. q.told = TellsId(r)
  BY <1>1, <1>2 DEF RequestState
<1>4. q.own = req[r].own /\ q.resumable = req[r].resumable
  BY <1>1, <1>2 DEF RequestState
<1> QED
  BY <1>1, <1>2, <1>3, <1>4, TellsResumable DEF RequestState

LEMMA WithErrorIs ==
  ASSUME NEW r \in Requests, NEW p \in RequestState, NEW q, q = WithError(r, p)
  PROVE  /\ q \in RequestState /\ q.pc = p.pc /\ q.scope = p.scope /\ q.surface = p.surface
         /\ q.own = p.own /\ q.resumable = p.resumable /\ q.harness = p.harness
         /\ q.told = p.told /\ q.answer = p.answer /\ q.reported = p.reported
         /\ p.surface \in Spanned => q.outcome = "error" /\ q.error
BY DEF WithError, RequestState

\* A request is answered with an error that its span carries.
LEMMA ErrorInv ==
  ASSUME IInv, NEW r \in Requests, NEW a \in {"error", "raised"},
         req[r].pc \in {"open", "returned"}, req[r].surface \in Spanned,
         Becomes(r, WithError(r, Answered(r, a))), UNCHANGED <<bindvars, delvars>>
  PROVE  IInv'
<1> DEFINE p == Answered(r, a)
           q == WithError(r, p)
<1>1. /\ p \in RequestState /\ p.pc = "ended" /\ p.scope = req[r].scope
      /\ p.surface = req[r].surface /\ p.harness = req[r].harness /\ p.answer = a
      /\ p.told /\ ~p.own => p.resumable
  BY AnsweredIs
<1> HIDE DEF p
<1>2. /\ q \in RequestState /\ q.pc = "ended" /\ q.scope = req[r].scope
      /\ q.surface = req[r].surface /\ q.harness = req[r].harness /\ q.answer = a
      /\ q.told /\ ~q.own => q.resumable
      /\ q.outcome = "error" /\ q.error
  BY <1>1, WithErrorIs
<1>3. Becomes(r, q)
  BY DEF p
<1> HIDE DEF q
<1>4. IsTrue(r, q)
  BY <1>2 DEF IsTrue
<1>5. q.harness # NONE => q.harness = Owned(req[r].scope)
  BY <1>2 DEF IInv, RequestInv, Placed
<1> QED
  BY <1>2, <1>3, <1>4, <1>5, AnswerInv

\* A request that has not started is answered with an error, and its span, if it has one,
\* carries it.
LEMMA RefusesInv ==
  ASSUME IInv, NEW r \in Requests, Refuses(r)
  PROVE  IInv'
<1> DEFINE p == Answered(r, "error")
           e == WithError(r, p)
<1>1. UNCHANGED <<bindvars, delvars>> /\ req[r].pc = "open"
  BY DEF Refuses, Unauthorized, HttpInvalid, ChatWithoutPrompt, StreamWithoutPrompt,
         McpWithoutPrompt, TriggerUnserializable, Is
<1>2. /\ req[r].harness = NONE /\ req[r].outcome = NONE /\ ~req[r].error
  BY <1>1 DEF IInv, RequestInv, Placed, Recorded
<1>3. /\ p \in RequestState /\ p.pc = "ended" /\ p.scope = req[r].scope /\ p.own = req[r].own
      /\ p.surface = req[r].surface /\ p.harness = NONE /\ p.outcome = NONE /\ ~p.error
      /\ p.told /\ ~p.own => p.resumable
      /\ p.answer = "error"
  BY <1>2, AnsweredIs
<1>4. CASE Unauthorized(r)
  <2> DEFINE q == [p EXCEPT !.told = req[r].own /\ req[r].surface # "history"]
  <2> HIDE DEF p
  <2>1. /\ q \in RequestState /\ q.pc = "ended" /\ q.scope = req[r].scope
        /\ q.surface = req[r].surface /\ q.harness = NONE /\ q.outcome = NONE /\ ~q.error
        /\ q.told /\ ~q.own => q.resumable
    BY <1>3 DEF RequestState
  <2>2. Becomes(r, q)
    BY <1>4 DEF Unauthorized, p
  <2> HIDE DEF q
  <2> QED
    BY <1>1, <2>1, <2>2, AnswerInv DEF IsTrue
<1>5. CASE StreamWithoutPrompt(r)
  <2> HIDE DEF p
  <2>1. Becomes(r, p)
    BY <1>5 DEF StreamWithoutPrompt, p
  <2> QED
    BY <1>1, <1>3, <2>1, AnswerInv DEF IsTrue
<1>6. CASE McpWithoutPrompt(r)
  <2> DEFINE q == [e EXCEPT !.told = req[r].own]
  <2> HIDE DEF p
  <2>1. e \in RequestState /\ e.pc = "ended" /\ e.scope = req[r].scope /\ e.own = req[r].own
        /\ e.surface = req[r].surface /\ e.harness = NONE /\ e.outcome = "error" /\ e.error
        /\ e.answer = "error"
    BY <1>3, <1>6, WithErrorIs DEF McpWithoutPrompt, Is, Spanned
  <2> HIDE DEF e
  <2>2. /\ q \in RequestState /\ q.pc = "ended" /\ q.scope = req[r].scope
        /\ q.surface = req[r].surface /\ q.harness = NONE /\ q.outcome = "error" /\ q.error
        /\ q.answer = "error" /\ (q.told /\ ~q.own => q.resumable)
    BY <2>1 DEF RequestState
  <2>3. Becomes(r, q)
    BY <1>6 DEF McpWithoutPrompt, p, e
  <2> HIDE DEF q
  <2> QED
    BY <1>1, <2>2, <2>3, AnswerInv DEF IsTrue
<1>7. CASE HttpInvalid(r) \/ ChatWithoutPrompt(r)
  BY <1>1, <1>7, ErrorInv DEF HttpInvalid, ChatWithoutPrompt, Is, Spanned
<1>8. CASE TriggerUnserializable(r)
  BY <1>1, <1>8, ErrorInv DEF TriggerUnserializable, Is, Spanned
<1> QED
  BY <1>4, <1>5, <1>6, <1>7, <1>8 DEF Refuses

\* Reading a transcript runs nothing, but on the registration's harness.
LEMMA ReadsHistoryInv ==
  ASSUME IInv, NEW r \in Requests, ReadsHistory(r)
  PROVE  IInv'
<1> DEFINE h == chosen[req[r].scope]
<1>1. PICK a \in {"ok", "error"} : Becomes(r, [Answered(r, a) EXCEPT !.harness = h])
  BY DEF ReadsHistory
<1> DEFINE p == Answered(r, a)
           q == [p EXCEPT !.harness = h]
<1>2. req[r].pc = "open" /\ req[r].surface = "history" /\ UNCHANGED <<bindvars, delvars>>
  BY DEF ReadsHistory, Is
<1>3. req[r].scope \in Apps /\ h \in Harness /\ h = Owned(req[r].scope)
  BY <1>2, BindingAssumption
     DEF BindingAssumption, IInv, RequestInv, Arrived, TypeOK, Owned
<1>4. /\ p \in RequestState /\ p.pc = "ended" /\ p.scope = req[r].scope
      /\ p.surface = "history" /\ (p.told /\ ~p.own => p.resumable)
  BY <1>2, AnsweredIs
<1>5. Becomes(r, q)
  BY <1>1
<1> HIDE DEF p, h
<1>6. /\ q \in RequestState /\ q.pc = "ended" /\ q.scope = req[r].scope
      /\ q.surface = "history" /\ (q.told /\ ~q.own => q.resumable) /\ q.harness = h
  BY <1>3, <1>4 DEF RequestState
<1> HIDE DEF q
<1>7. IsTrue(r, q)
  BY <1>2, <1>6 DEF IsTrue, Spanned
<1> QED
  BY <1>2, <1>3, <1>5, <1>6, <1>7, AnswerInv

\* A direct call for which no harness can be selected raises.
LEMMA NoHarnessInv ==
  ASSUME IInv, NEW r \in Requests, NoHarness(r)
  PROVE  IInv'
<1> DEFINE q == Answered(r, "raised")
<1>1. /\ req[r].pc = "open" /\ req[r].surface = "direct" /\ Becomes(r, q)
      /\ UNCHANGED <<bindvars, delvars>>
  BY DEF NoHarness, Is
<1>2. req[r].harness = NONE
  BY <1>1 DEF IInv, RequestInv, Placed
<1>3. /\ q \in RequestState /\ q.pc = "ended" /\ q.scope = req[r].scope
      /\ q.surface = "direct" /\ q.harness = NONE /\ (q.told /\ ~q.own => q.resumable)
  BY <1>1, <1>2, AnsweredIs
<1> HIDE DEF q
<1>4. IsTrue(r, q)
  BY <1>1, <1>3 DEF IsTrue, Spanned
<1> QED
  BY <1>1, <1>3, <1>4, AnswerInv

-----------------------------------------------------------------------------
(* The run. *)

\* The harness a run gets is the one its scope has, or has from now on.
LEMMA RunHarnessIs ==
  ASSUME IInv, NEW r \in Requests, req[r].pc = "open", req[r].surface # "history",
         NEW h, RunHarness(r, h), h # NONE,
         h \in {chosen[a] : a \in Apps} \cup Selections("root") \cup {default},
         UNCHANGED <<chosen, carried>>
  PROVE  /\ Settled /\ h \in Harness /\ default' \in Harness \cup {NONE}
         /\ h = IF req[r].scope = "root" THEN default' ELSE chosen'[req[r].scope]
<1>1. Arrived(r) /\ carried = chosen
  BY DEF IInv, RequestInv
<1>2. h \in Harness
  <2>1. Selections("root") \subseteq Harness \cup {NONE}
    BY DEF Selections, Harness, IInv, TypeOK
  <2> QED
    BY <2>1 DEF IInv, TypeOK
<1>3. CASE req[r].surface = "direct"
  <2>1. GetHarness(h) /\ req[r].scope = "root"
    BY <1>1, <1>3 DEF RunHarness, Arrived
  <2>2. /\ default # NONE => default' = default
        /\ default' = h
    BY <2>1 DEF GetHarness
  <2> QED
    BY <1>1, <1>2, <2>1, <2>2 DEF Settled
<1>4. CASE req[r].surface # "direct"
  <2>1. req[r].scope \in Apps /\ req[r].scope # "root" /\ chosen[req[r].scope] # NONE
    BY <1>1, <1>4, BindingAssumption DEF Arrived, BindingAssumption
  <2>2. h = chosen[req[r].scope] /\ UNCHANGED default
    <3>1. CASE req[r].surface \in {"trigger", "http"}
      BY <3>1 DEF RunHarness, HandlerHarness
    <3>2. CASE req[r].surface \in {"chat", "stream", "mcp"}
      BY <1>1, <2>1, <3>2 DEF RunHarness, BindHarness
    <3> QED
      BY <1>1, <1>4, <3>1, <3>2 DEF Arrived, Surfaces
  <2> QED
    BY <1>1, <1>2, <2>1, <2>2 DEF Settled, IInv, TypeOK
<1> QED
  BY <1>3, <1>4

\* A run starts.
LEMMA StartsRunInv ==
  ASSUME IInv, NEW r \in Requests, StartsRun(r)
  PROVE  IInv'
<1>1. PICK h \in {chosen[a] : a \in Apps} \cup Selections("root") \cup {default} :
        /\ RunHarness(r, h) /\ h # NONE
        /\ Becomes(r, [req[r] EXCEPT !.pc = "running", !.harness = h])
  BY DEF StartsRun
<1> DEFINE q == [req[r] EXCEPT !.pc = "running", !.harness = h]
<1>2. /\ req[r].pc = "open" /\ req[r].surface # "history" /\ Becomes(r, q)
      /\ deadline' = [deadline EXCEPT ![r] = now + RunTimeout]
      /\ UNCHANGED <<switch, flips, chosen, carried, now, leaf, tracker>>
  BY <1>1 DEF StartsRun, Is
<1>3. /\ Settled /\ h \in Harness /\ default' \in Harness \cup {NONE}
      /\ h = IF req[r].scope = "root" THEN default' ELSE chosen'[req[r].scope]
  BY <1>1, <1>2, RunHarnessIs
<1>4. /\ q \in RequestState /\ q.pc = "running" /\ q.harness = h
      /\ q.surface = req[r].surface /\ q.scope = req[r].scope /\ q.own = req[r].own
      /\ q.outcome = req[r].outcome /\ q.answer = req[r].answer /\ q.error = req[r].error
      /\ q.told = req[r].told
  <2>1. req[r] \in RequestState /\ h \in Harness
    BY <1>3 DEF IInv, TypeOK
  <2> QED
    BY <2>1 DEF RequestState
<1> HIDE DEF q
<1>5. TypeOK'
  <2>1. now + RunTimeout \in Nat
    BY DelegationAssumption DEF IInv, TypeOK, DelegationAssumption
  <2>2. deadline' \in [Requests -> Nat] /\ req' \in [Requests -> RequestState]
    BY <1>2, <1>4, <2>1 DEF IInv, TypeOK, Becomes
  <2> QED
    BY <1>2, <1>3, <2>2 DEF IInv, TypeOK
<1>6. /\ req'[r] = q
      /\ \A p \in Requests \ {r} : req'[p] = req[p] /\ deadline'[p] = deadline[p]
  BY <1>2 DEF IInv, TypeOK, Becomes
<1>7. RequestInv(r) /\ Failed(r)' = Failed(r)
  BY <1>2 DEF IInv, Failed
<1>8. Arrived(r)' /\ Placed(r)'
  BY <1>1, <1>2, <1>3, <1>4, <1>6, <1>7 DEF RequestInv, Arrived, Placed, Owned
<1>9. Delegated(r)' /\ Recorded(r)' /\ Truthful(r)'
  <2>1. Delegated(r)'
    BY <1>2, <1>4, <1>6, <1>7 DEF RequestInv, Delegated, Is
  <2>2. Recorded(r)'
    BY <1>2, <1>4, <1>6, <1>7 DEF RequestInv, Recorded, Is
  <2>3. Truthful(r)'
    <3>1. ~req[r].told
      BY <1>2, <1>7 DEF RequestInv, Recorded
    <3>2. ~req'[r].told /\ req'[r].pc = "running"
      BY <1>4, <1>6, <3>1
    <3> QED
      BY <3>2 DEF Truthful, Is
  <2> QED
    BY <2>1, <2>2, <2>3
<1>10. RequestInv(r)'
  BY <1>8, <1>9 DEF RequestInv
<1> QED
  BY <1>2, <1>3, <1>5, <1>6, <1>10, OneMoves

\* The session of a run becomes resumable.
LEMMA ResumableInv ==
  ASSUME IInv, NEW r \in Requests, Resumable(r)
  PROVE  IInv'
<1> DEFINE q == [req[r] EXCEPT !.resumable = TRUE]
<1>1. req[r].pc = "running" /\ Becomes(r, q) /\ UNCHANGED <<bindvars, delvars>>
  BY DEF Resumable, Running, Is
<1>2. /\ q \in RequestState /\ q.pc = "running" /\ q.harness = req[r].harness
      /\ q.surface = req[r].surface /\ q.scope = req[r].scope /\ q.own = req[r].own
      /\ q.outcome = req[r].outcome /\ q.answer = req[r].answer /\ q.error = req[r].error
      /\ q.told = req[r].told
  <2>1. req[r] \in RequestState
    BY DEF IInv, TypeOK
  <2> QED
    BY <1>1, <2>1 DEF RequestState
<1> HIDE DEF q
<1>3. TypeOK' /\ Settled
  BY <1>1, <1>2 DEF IInv, TypeOK, Becomes, Settled, bindvars, delvars
<1>4. req'[r] = q /\ \A p \in Requests \ {r} : req'[p] = req[p]
  BY <1>1 DEF IInv, TypeOK, Becomes
<1>5. RequestInv(r) /\ Failed(r)' = Failed(r)
  BY <1>1 DEF IInv, Failed, delvars
<1>6. RequestInv(r)'
  <2>1. Arrived(r)' /\ Placed(r)'
    BY <1>1, <1>2, <1>4, <1>5 DEF RequestInv, Arrived, Placed, Owned, bindvars
  <2>2. Delegated(r)' /\ Recorded(r)' /\ Truthful(r)'
    BY <1>1, <1>2, <1>4, <1>5 DEF RequestInv, Delegated, Recorded, Truthful, Is, delvars
  <2> QED
    BY <2>1, <2>2 DEF RequestInv
<1> QED
  BY <1>1, <1>3, <1>4, <1>6, OneMoves DEF delvars

-----------------------------------------------------------------------------
(* Delegates. *)

\* A call that fails is counted, of a request that has no answer that says otherwise.
LEMMA CallFailsInv ==
  ASSUME IInv, NEW r \in Requests, NEW c \in Calls[r], CallFails(r, c),
         leaf[r][c].at # "failed", req[r].pc = "running" \/ leaf[r][c].at = "running",
         UNCHANGED <<bindvars, req>>
  PROVE  IInv'
<1> USE DEF CallFails
<1> DEFINE Counted == {d \in Calls[r] : leaf[r][d].at = "failed"}
<1>1. /\ leaf[r] \in [Calls[r] -> LeafState] /\ r \in DOMAIN leaf /\ tracker[r] \in Nat
      /\ tracker \in [Requests -> Nat]
  BY DEF IInv, TypeOK
<1>2. /\ leaf'[r] = [leaf[r] EXCEPT ![c] = Call("failed")]
      /\ \A p \in Requests \ {r} : leaf'[p] = leaf[p] /\ tracker'[p] = tracker[p]
      /\ tracker'[r] = tracker[r] + 1
  BY <1>1
<1>3. Failed(r)' = Failed(r) + 1
  <2>1. IsFiniteSet(Counted) /\ c \notin Counted
    BY FS_Subset, DelegationAssumption DEF DelegationAssumption
  <2>2. {d \in Calls[r] : leaf'[r][d].at = "failed"} = Counted \cup {c}
    BY <1>1, <1>2 DEF Call
  <2> QED
    BY <2>1, <2>2, FS_AddElement DEF Failed
<1>4. TypeOK' /\ Settled
  <2>1. Call("failed") \in LeafState
    BY DEF Call, LeafState
  <2>2. leaf'[r] \in [Calls[r] -> LeafState] /\ DOMAIN leaf' = DOMAIN leaf
    BY <1>1, <1>2, <2>1
  <2>3. tracker' \in [Requests -> Nat]
    BY <1>1
  <2> QED
    BY <1>2, <2>2, <2>3 DEF IInv, TypeOK, Settled, bindvars
<1>5. RequestInv(r)
  BY DEF IInv
<1>6. /\ req[r].pc \in {"running", "ended"} /\ req[r].outcome # "success"
      /\ \A d \in Calls[r] : leaf'[r][d].at = "running" => leaf'[r][d] = leaf[r][d]
  BY <1>1, <1>2, <1>5, SurfaceAssumption DEF RequestInv, Delegated, Recorded, Call, SurfaceAssumption
<1>7. Delegated(r)'
  BY <1>1, <1>2, <1>3, <1>5, <1>6 DEF RequestInv, Delegated
<1>8. Arrived(r)' /\ Placed(r)' /\ Recorded(r)' /\ Truthful(r)'
  BY <1>5, <1>6 DEF RequestInv, Arrived, Placed, Owned, Recorded, Truthful, Traced, Is, bindvars
<1> QED
  BY <1>2, <1>4, <1>7, <1>8, OneMoves DEF RequestInv

\* A call starts or ends otherwise: within its coordinator's deadline and on its harness.
LEMMA CallMovesInv ==
  ASSUME IInv, NEW r \in Requests, NEW c \in Calls[r], NEW v \in LeafState,
         leaf' = [leaf EXCEPT ![r][c] = v], leaf[r][c].at # "failed", v.at # "failed",
         v.at = "running" => /\ req[r].pc = "running" /\ v.on = req[r].harness
                             /\ now <= v.until /\ v.until <= deadline[r],
         UNCHANGED <<bindvars, req, now, deadline, tracker>>
  PROVE  IInv'
<1>1. leaf[r] \in [Calls[r] -> LeafState] /\ r \in DOMAIN leaf
  BY DEF IInv, TypeOK
<1>2. /\ leaf'[r] = [leaf[r] EXCEPT ![c] = v]
      /\ \A p \in Requests \ {r} : leaf'[p] = leaf[p]
  BY <1>1
<1>3. Failed(r)' = Failed(r)
  <2>1. {d \in Calls[r] : leaf'[r][d].at = "failed"} = {d \in Calls[r] : leaf[r][d].at = "failed"}
    BY <1>1, <1>2
  <2> QED
    BY <2>1 DEF Failed
<1>4. TypeOK' /\ Settled
  <2>1. leaf'[r] \in [Calls[r] -> LeafState] /\ DOMAIN leaf' = DOMAIN leaf
    BY <1>1, <1>2
  <2> QED
    BY <1>2, <2>1 DEF IInv, TypeOK, Settled, bindvars
<1>5. RequestInv(r)
  BY DEF IInv
<1>6. Delegated(r)'
  <2>1. req[r].pc = "running" => req[r].outcome # "success"
    BY <1>5, SurfaceAssumption DEF RequestInv, Recorded, SurfaceAssumption
  <2> QED
    BY <1>1, <1>2, <1>3, <1>5, <2>1 DEF RequestInv, Delegated
<1>7. Arrived(r)' /\ Placed(r)' /\ Recorded(r)' /\ Truthful(r)'
  BY <1>3, <1>5 DEF RequestInv, Arrived, Placed, Owned, Recorded, Truthful, Traced, Is, bindvars
<1> QED
  BY <1>2, <1>4, <1>6, <1>7, OneMoves DEF RequestInv

\* A delegate is dispatched with what is left of its coordinator's time.
LEMMA DelegatesInv ==
  ASSUME IInv, NEW r \in Requests, Delegates(r)
  PROVE  IInv'
<1>1. PICK c \in Calls[r], own \in Catalog(r) : Dispatch(r, c, own, req[r].harness)
  BY DEF Delegates
<1>2. req[r].pc = "running" /\ leaf[r][c].at = "none" /\ UNCHANGED <<bindvars, req>>
  BY <1>1 DEF Delegates, Running, Is, Dispatch
<1>3. CASE LeafBudget(r) = 0
  BY <1>1, <1>2, <1>3, CallFailsInv DEF Dispatch, RecordTimeout
<1>4. CASE LeafBudget(r) # 0
  <2> DEFINE v == [at |-> "running", until |-> now + LeafBudget(r), on |-> req[r].harness]
  <2>1. leaf' = [leaf EXCEPT ![r][c] = v] /\ UNCHANGED <<now, deadline, tracker>>
    BY <1>1, <1>4 DEF Dispatch, LeafHarness
  <2>2. /\ LeafBudget(r) \in Nat /\ now \in Nat /\ deadline[r] \in Nat
        /\ now + LeafBudget(r) <= deadline[r]
    BY <1>4, DelegationAssumption
       DEF DelegationAssumption, LeafBudget, Smaller, Remaining, IInv, TypeOK
  <2>3. v \in LeafState /\ now <= v.until /\ v.until <= deadline[r]
    BY <2>2 DEF LeafState, IInv, TypeOK, RequestState
  <2> QED
    BY <1>2, <2>1, <2>3, CallMovesInv
<1> QED
  BY <1>3, <1>4

\* A delegate ends.
LEMMA LeafStepInv ==
  ASSUME IInv, NEW r \in Requests, LeafStep(r)
  PROVE  IInv'
<1>1. PICK c \in Calls[r] : LeafEnds(r, c)
  BY DEF LeafStep
<1>2. leaf[r][c].at = "running" /\ UNCHANGED <<bindvars, req>>
  BY <1>1 DEF LeafStep, LeafEnds, InFlight
<1>3. CASE CallFails(r, c)
  BY <1>2, <1>3, CallFailsInv
<1>4. CASE leaf' = [leaf EXCEPT ![r][c] = Call("ok")] /\ UNCHANGED <<now, deadline, tracker>>
  <2>1. Call("ok") \in LeafState /\ Call("ok").at = "ok"
    BY DEF Call, LeafState
  <2> QED
    BY <1>2, <1>4, <2>1, CallMovesInv
<1> QED
  BY <1>1, <1>3, <1>4 DEF LeafEnds, RecordTimeout

-----------------------------------------------------------------------------
(* The end of a run. *)

\* A run returns when its delegates have, and its report counts the failed ones.
LEMMA ReturnsInv ==
  ASSUME IInv, NEW r \in Requests, Returns(r)
  PROVE  IInv'
<1> DEFINE o == IF req[r].surface \in Spanned THEN "success" ELSE NONE
           q == [req[r] EXCEPT !.pc = "returned", !.reported = tracker[r], !.outcome = o]
<1>1. /\ req[r].pc = "running" /\ req[r].resumable /\ InFlight(r) = {} /\ Becomes(r, q)
      /\ deadline' = [deadline EXCEPT ![r] = 0]
      /\ UNCHANGED <<bindvars, now, leaf, tracker>>
  BY DEF Returns, Running, Is
<1>2. req[r] \in RequestState /\ tracker[r] \in Nat /\ o \in {"success", NONE}
  BY DEF IInv, TypeOK
<1>3. /\ q \in RequestState /\ q.pc = "returned" /\ q.harness = req[r].harness
      /\ q.surface = req[r].surface /\ q.scope = req[r].scope /\ q.own = req[r].own
      /\ q.outcome = o /\ q.reported = tracker[r] /\ q.answer = req[r].answer
      /\ q.error = req[r].error /\ q.told = req[r].told /\ q.resumable
  <2> HIDE DEF o
  <2> QED
    BY <1>1, <1>2 DEF RequestState
<1>4. o = IF q.surface \in Spanned THEN "success" ELSE NONE
  BY <1>3
<1> HIDE DEF q, o
<1>5. TypeOK' /\ Settled
  <2>1. deadline' \in [Requests -> Nat] /\ req' \in [Requests -> RequestState]
    BY <1>1, <1>3 DEF IInv, TypeOK, Becomes
  <2> QED
    BY <1>1, <2>1 DEF IInv, TypeOK, Settled, bindvars
<1>6. /\ req'[r] = q
      /\ \A p \in Requests \ {r} : req'[p] = req[p] /\ deadline'[p] = deadline[p]
  BY <1>1 DEF IInv, TypeOK, Becomes
<1>7. RequestInv(r) /\ Failed(r)' = Failed(r) /\ tracker[r] = Failed(r)
  BY <1>1 DEF IInv, RequestInv, Delegated, Failed
<1>8. Arrived(r)' /\ Placed(r)'
  BY <1>1, <1>3, <1>6, <1>7 DEF RequestInv, Arrived, Placed, Owned, bindvars
<1>9. Delegated(r)'
  BY <1>1, <1>7 DEF InFlight, Delegated
<1>10. Recorded(r)' /\ Truthful(r)'
  BY <1>1, <1>3, <1>4, <1>6, <1>7 DEF RequestInv, Recorded, Truthful, Is
<1> QED
  BY <1>1, <1>5, <1>6, <1>8, <1>9, <1>10, OneMoves DEF RequestInv

\* What was returned is answered.
LEMMA AnswersInv ==
  ASSUME IInv, NEW r \in Requests, Answers(r)
  PROVE  IInv'
<1> DEFINE q == Answered(r, "ok")
<1>1. req[r].pc = "returned" /\ Becomes(r, q) /\ UNCHANGED <<bindvars, delvars>>
  BY DEF Answers, Is
<1>2. RequestInv(r)
  BY DEF IInv
<1>3. /\ q \in RequestState /\ q.pc = "ended" /\ q.scope = req[r].scope
      /\ q.surface = req[r].surface /\ q.harness = req[r].harness /\ q.answer = "ok"
      /\ q.outcome = req[r].outcome /\ q.error = req[r].error /\ q.reported = req[r].reported
      /\ q.told /\ ~q.own => q.resumable
  BY AnsweredIs
<1> HIDE DEF q
<1>4. IsTrue(r, q)
  BY <1>1, <1>2, <1>3, SurfaceAssumption DEF IsTrue, RequestInv, Recorded
<1>5. q.harness = Owned(req[r].scope)
  BY <1>1, <1>2, <1>3 DEF RequestInv, Placed
<1> QED
  BY <1>1, <1>3, <1>4, <1>5, AnswerInv

\* A contract that is broken, and an answer that cannot be built, are errors.
LEMMA ContractsInv ==
  ASSUME IInv, NEW r \in Requests, Contracts(r) \/ AnswerFails(r)
  PROVE  IInv'
<1>1. CASE Contracts(r)
  BY <1>1, ErrorInv DEF Contracts, ContractBroken, Is, Spanned
<1>2. CASE AnswerFails(r)
  BY <1>2, ErrorInv DEF AnswerFails, Is
<1> QED
  BY <1>1, <1>2

\* A run that ends early cancels its delegates or leaves them to their own limits.
LEMMA LeavesInv ==
  ASSUME IInv, NEW r \in Requests, NEW q \in RequestState, Running(r), Becomes(r, q), Leaves(r),
         IsTrue(r, q), q.harness = req[r].harness, q.outcome # "success"
  PROVE  IInv'
<1>1. /\ leaf[r] \in [Calls[r] -> LeafState] /\ r \in DOMAIN leaf
      /\ deadline \in [Requests -> Nat] /\ RequestInv(r) /\ req[r].pc = "running"
  BY DEF IInv, TypeOK, Running, Is
<1>2. /\ UNCHANGED <<bindvars, now, tracker>>
      /\ deadline' = [deadline EXCEPT ![r] = IF InFlight(r)' = {} THEN 0 ELSE deadline[r]]
      /\ leaf' = leaf \/ CancelLeaves(r)
  BY DEF Leaves
<1>3. /\ DOMAIN leaf' = DOMAIN leaf /\ leaf'[r] \in [Calls[r] -> LeafState]
      /\ \A p \in Requests \ {r} : leaf'[p] = leaf[p]
      /\ \A c \in Calls[r] : leaf'[r][c].at = "running" => leaf'[r][c] = leaf[r][c]
      /\ \A c \in Calls[r] : leaf'[r][c].at = "failed" <=> leaf[r][c].at = "failed"
  <2>1. CASE leaf' = leaf
    BY <1>1, <2>1
  <2>2. CASE CancelLeaves(r)
    <3> DEFINE l == [c \in Calls[r] |-> IF c \in InFlight(r) THEN Call("canceled") ELSE leaf[r][c]]
    <3>1. leaf' = [leaf EXCEPT ![r] = l]
      BY <2>2 DEF CancelLeaves
    <3>2. Call("canceled") \in LeafState /\ Call("canceled").at = "canceled"
      BY DEF Call, LeafState
    <3>3. l \in [Calls[r] -> LeafState]
      BY <1>1, <3>2
    <3> QED
      BY <1>1, <3>1, <3>2, <3>3 DEF InFlight
  <2> QED
    BY <1>2, <2>1, <2>2
<1>4. /\ deadline' \in [Requests -> Nat]
      /\ \A p \in Requests \ {r} : deadline'[p] = deadline[p]
      /\ (\E c \in Calls[r] : leaf'[r][c].at = "running") => deadline'[r] = deadline[r]
  BY <1>1, <1>2 DEF InFlight
<1>5. req'[r] = q /\ \A p \in Requests \ {r} : req'[p] = req[p]
  BY DEF IInv, TypeOK, Becomes
<1>6. TypeOK' /\ Settled
  <2>1. req' \in [Requests -> RequestState]
    BY DEF IInv, TypeOK, Becomes
  <2> QED
    BY <1>2, <1>3, <1>4, <2>1 DEF IInv, TypeOK, Settled, bindvars
<1>7. Failed(r)' = Failed(r)
  <2>1. {c \in Calls[r] : leaf'[r][c].at = "failed"} = {c \in Calls[r] : leaf[r][c].at = "failed"}
    BY <1>3
  <2> QED
    BY <2>1 DEF Failed
<1>8. Arrived(r)' /\ Placed(r)'
  BY <1>1, <1>2, <1>5 DEF RequestInv, Arrived, Placed, Owned, bindvars, IsTrue
<1>9. Delegated(r)'
  BY <1>1, <1>2, <1>3, <1>4, <1>5, <1>7 DEF RequestInv, Delegated, IsTrue
<1>10. Recorded(r)' /\ Truthful(r)'
  BY <1>5, <1>7 DEF Recorded, Truthful, Traced, Is, IsTrue
<1> QED
  BY <1>2, <1>3, <1>4, <1>5, <1>6, <1>8, <1>9, <1>10, OneMoves DEF RequestInv

\* A run fails or is canceled.
LEMMA RunEndsInv ==
  ASSUME IInv, NEW r \in Requests, RunFails(r) \/ RunCanceled(r)
  PROVE  IInv'
<1>1. Running(r) /\ Leaves(r) /\ req[r].outcome = NONE /\ ~req[r].error
  BY DEF RunFails, RunCanceled, Running, Is, IInv, RequestInv, Recorded
<1>2. CASE RunFails(r)
  <2>1. PICK a \in {"error", "raised"} : Becomes(r, WithError(r, Answered(r, a)))
    BY <1>2 DEF RunFails
  <2> DEFINE p == Answered(r, a)
             q == WithError(r, p)
  <2>2. /\ p \in RequestState /\ p.pc = "ended" /\ p.scope = req[r].scope
        /\ p.surface = req[r].surface /\ p.harness = req[r].harness /\ p.answer = a
        /\ p.outcome = NONE /\ (p.told /\ ~p.own => p.resumable)
    BY <1>1, AnsweredIs
  <2>3. Becomes(r, q)
    BY <2>1
  <2>4. p.surface \notin Spanned => q = p
    BY DEF WithError
  <2> HIDE DEF p
  <2>5. /\ q \in RequestState /\ q.pc = "ended" /\ q.scope = req[r].scope
        /\ q.surface = req[r].surface /\ q.harness = req[r].harness /\ q.answer = a
        /\ q.told /\ ~q.own => q.resumable
        /\ p.surface \in Spanned => q.outcome = "error" /\ q.error
    BY <2>2, WithErrorIs
  <2> HIDE DEF q
  <2>6. IsTrue(r, q) /\ q.outcome # "success"
    BY <2>2, <2>4, <2>5, SurfaceAssumption DEF IsTrue, SurfaceAssumption
  <2> QED
    BY <1>1, <2>3, <2>5, <2>6, LeavesInv
<1>3. CASE RunCanceled(r)
  <2> DEFINE p == Answered(r, "raised")
             q == Canceled(r)
  <2>1. /\ p \in RequestState /\ p.pc = "ended" /\ p.scope = req[r].scope
        /\ p.surface = req[r].surface /\ p.harness = req[r].harness /\ p.answer = "raised"
        /\ p.outcome = NONE /\ ~p.error /\ (p.told /\ ~p.own => p.resumable)
    BY <1>1, AnsweredIs
  <2>2. Becomes(r, q)
    BY <1>3 DEF RunCanceled
  <2>3. \/ p.surface \notin Spanned /\ q = p
        \/ q = [p EXCEPT !.error = TRUE]
        \/ q = [p EXCEPT !.outcome = "canceled"]
    BY <2>1 DEF Canceled
  <2> HIDE DEF p, q
  <2>4. /\ q \in RequestState /\ q.pc = "ended" /\ q.scope = req[r].scope
        /\ q.surface = req[r].surface /\ q.harness = req[r].harness /\ q.answer = "raised"
        /\ q.told /\ ~q.own => q.resumable
        /\ \/ q.outcome = NONE /\ (q.surface \in Spanned => q.error)
           \/ q.outcome = "canceled" /\ ~q.error
    <3>1. CASE p.surface \notin Spanned /\ q = p
      BY <2>1, <3>1 DEF RequestState
    <3>2. CASE q = [p EXCEPT !.error = TRUE]
      BY <2>1, <3>2 DEF RequestState
    <3>3. CASE q = [p EXCEPT !.outcome = "canceled"]
      BY <2>1, <3>3 DEF RequestState
    <3> QED
      BY <2>3, <3>1, <3>2, <3>3
  <2>5. IsTrue(r, q) /\ q.outcome # "success"
    BY <2>4, SurfaceAssumption DEF IsTrue, SurfaceAssumption
  <2> QED
    BY <1>1, <2>2, <2>4, <2>5, LeavesInv
<1> QED
  BY <1>2, <1>3

-----------------------------------------------------------------------------
\* Every step keeps the invariant.
LEMMA NextInv == IInv /\ [Next]_vars => IInv'
<1> SUFFICES ASSUME IInv, [Next]_vars PROVE IInv'
  OBVIOUS
<1>1. CASE BindingStep /\ UNCHANGED <<delvars, req>>
  BY <1>1, BindingStepInv
<1>2. CASE Tick /\ UNCHANGED <<bindvars, req>>
  BY <1>2, TickInv
<1>3. ASSUME NEW r \in Requests, Arrives(r) \/ Refuses(r) \/ ReadsHistory(r) \/ NoHarness(r)
      PROVE  IInv'
  BY <1>3, ArrivesInv, RefusesInv, ReadsHistoryInv, NoHarnessInv
<1>4. ASSUME NEW r \in Requests, StartsRun(r) \/ Resumable(r) \/ Delegates(r) \/ LeafStep(r)
      PROVE  IInv'
  BY <1>4, StartsRunInv, ResumableInv, DelegatesInv, LeafStepInv
<1>5. ASSUME NEW r \in Requests,
             Returns(r) \/ Answers(r) \/ Contracts(r) \/ AnswerFails(r) \/ RunFails(r) \/ RunCanceled(r)
      PROVE  IInv'
  BY <1>5, ReturnsInv, AnswersInv, ContractsInv, RunEndsInv
<1>6. CASE UNCHANGED vars
  <2>1. TypeOK' /\ Settled
    BY <1>6 DEF vars, bindvars, delvars, IInv, TypeOK, Settled
  <2>2. ASSUME NEW r \in Requests PROVE RequestInv(r)'
    BY <1>6, <2>1, Unmoved DEF vars, delvars
  <2> QED
    BY <2>1, <2>2 DEF IInv, Settled
<1> QED
  BY <1>1, <1>2, <1>3, <1>4, <1>5, <1>6 DEF Next

\* The invariant holds in every reachable state.
THEOREM Invariance == Spec => []IInv
BY InitInv, NextInv, PTL DEF Spec

\* The state always has its type.
THEOREM TypeCorrect == Spec => []TypeOK
<1>1. IInv => TypeOK
  BY DEF IInv
<1> QED
  BY <1>1, Invariance, PTL

\* However often the switch changes, an application's requests run on the harness it was
\* validated with, the direct calls on one harness, and a delegate on its coordinator's.
THEOREM HarnessIsFixed == Spec => []HarnessFixed
<1>1. IInv => HarnessFixed
  BY DEF IInv, RequestInv, Placed, Delegated, HarnessFixed, InFlight
<1> QED
  BY <1>1, Invariance, PTL

\* No delegate, left behind or not, runs past the deadline of its coordinator.
THEOREM DelegatesStayInBudget == Spec => []DelegateInBudget
<1>1. IInv => DelegateInBudget
  <2> SUFFICES ASSUME IInv, NEW r \in Requests, NEW c \in Calls[r], leaf[r][c].at = "running"
               PROVE  now <= deadline[r]
    BY DEF DelegateInBudget, InFlight
  <2>1. now <= leaf[r][c].until /\ leaf[r][c].until <= deadline[r]
    BY DEF IInv, RequestInv, Delegated
  <2>2. now \in Nat /\ leaf[r][c].until \in Nat /\ deadline[r] \in Nat
    BY DEF IInv, TypeOK, LeafState
  <2> QED
    BY <2>1, <2>2
<1> QED
  BY <1>1, Invariance, PTL

\* A session id that was made up is told only if its session can be resumed, and the span
\* of an invocation says success exactly when its caller got a result, and an error exactly
\* when the caller did not, unless the request was canceled.
THEOREM AnswersTellTheTruth == Spec => []AnswersAreTrue
<1>1. IInv => AnswersAreTrue
  BY DEF IInv, RequestInv, Truthful, AnswersAreTrue, MintedIdIsResumable, Traced,
     SpanTellsTheAnswer
<1> QED
  BY <1>1, Invariance, PTL

-----------------------------------------------------------------------------
(* AppComposition: what a composition knows in each of its phases. *)

\* What is on disk, and what the process has read of it: the inventories of a composition
\* and of a direct run are the ones it keeps.
FilesInv ==
    /\ {"tools", "agents"} \subseteq DOMAIN disk
    /\ disk.tools \in ToolDirs /\ disk.agents \in AgentDirs
    /\ DOMAIN cache = {"tools", "servers", "skills"}
    /\ cache.tools = Unread \/ \E t \in ToolDirs : cache.tools = Scan(t)

\* The user tools and the plan targets are those of one scan, once there are any.
Kept(inventory) ==
    /\ cache.tools # Unread
    /\ inventory.user = cache.tools.user /\ inventory.targets = cache.tools.targets

Validated == {"validation", "registration", "served"}

ReadInv ==
    /\ found # Unread \/ pc \in Validated \cup {"identity"} => Kept(found)
    /\ seen # Unread => cache.tools # Unread /\ seen = Range(cache.tools.user)
    /\ Len(specs) \in Nat /\ DOMAIN specs = 1 .. Len(specs)
    /\ \A k \in DOMAIN specs : "slug" \in DOMAIN specs[k] /\ specs[k].slug \in DOMAIN DelegateTool

\* The agent the catalog has under a slug is one that was read, and it was validated.
Entered(s) ==
    \E k \in DOMAIN specs :
        LET r == Resolved[k]
        IN  s = r.slug /\ catalog[s] = Capabilities(r) /\ ~Rejected(r)

\* The catalog before, in and after pass 1b, which only starts with resolved references.
CatalogInv ==
    /\ pc \in {"config", "specs", "discovery", "identity"} => catalog = <<>> /\ at = 1
    /\ pc \in Validated =>
          \A k \in DOMAIN specs :
              /\ ~BadReferences(Resolved[k], Resolved[k].subs)
              /\ ~BadReferences(Resolved[k], Resolved[k].wfSubs)
    /\ pc = "validation" =>
          at \in 1 .. Len(specs) + 1 /\ DOMAIN catalog = {Resolved[k].slug : k \in 1 .. at - 1}
    /\ \A s \in DOMAIN catalog : Entered(s)

\* A role an agent is given fits what it was validated for.
Bindable(s) ==
    s \in DOMAIN catalog /\ ~catalog[s].resolved.wf /\ ~Collides(catalog[s].resolved, FALSE)

\* The app object and the roles of its agents.
AppInv ==
    /\ app # NoApp => pc \in {"registration", "served"}
    /\ pc \in {"registration", "served"} =>
          /\ DOMAIN catalog = KnownSlugs
          /\ DOMAIN app = {"functions", "handlers", "policies", "runtime"}
          /\ app.policies = Policies
          /\ \A f \in app.functions : f[1] \in DOMAIN catalog /\ DirectRole(catalog[f[1]].resolved)
    /\ pc = "registration" => at \in Nat \ {0}
    /\ pc # "served" => bound = {}
    /\ \A s \in bound : Bindable(s)

CompositionInv == FilesInv /\ ReadInv /\ CatalogInv /\ AppInv

-----------------------------------------------------------------------------
\* A nonempty set of numbers has a least element.
LEMMA LeastNumber ==
    ASSUME NEW S \in SUBSET Nat, S # {}
    PROVE  \E n \in S : \A m \in S : ~(m < n)
<1> DEFINE Below == {0 .. n - 1 : n \in S}
<1>1. Below \subseteq FiniteSubsetsOf(Nat) /\ Below # {}
  <2>1. ASSUME NEW n \in S PROVE 0 .. n - 1 \in FiniteSubsetsOf(Nat)
    <3>1. IsFiniteSet(0 .. n - 1)
      BY FS_Interval
    <3> QED BY <3>1 DEF FiniteSubsetsOf
  <2> QED BY <2>1
<1>2. PICK X \in Below : \A Y \in Below : <<Y, X>> \notin StrictSubsetOrdering(Nat)
  <2> HIDE DEF Below
  <2> QED BY <1>1, WFMin, FS_StrictSubsetOrderingWellFounded
<1>3. PICK n \in S : X = 0 .. n - 1
  BY <1>2
<1>4. ASSUME NEW m \in S, m < n PROVE FALSE
  <2>1. 0 .. m - 1 \subseteq 0 .. n - 1 /\ m \in 0 .. n - 1 /\ m \notin 0 .. m - 1
    BY <1>4
  <2>2. <<0 .. m - 1, X>> \in StrictSubsetOrdering(Nat)
    BY <1>3, <2>1 DEF StrictSubsetOrdering
  <2> QED BY <1>2, <2>2
<1> QED BY <1>4

-----------------------------------------------------------------------------
(* The inventories. *)

\* Lists of lists, put one behind the other, make a list.
Joins(f, seqs, m) == f = [i \in 1 .. m |-> IF i = 1 THEN seqs[i] ELSE f[i - 1] \o seqs[i]]

LEMMA JoinExists ==
    ASSUME NEW seqs, NEW m \in Nat PROVE \E f : Joins(f, seqs, m)
<1> DEFINE Stuck == {n \in Nat : ~\E f : Joins(f, seqs, n)}
<1> SUFFICES ASSUME Stuck # {} PROVE FALSE
  OBVIOUS
<1>1. PICK n \in Stuck : \A l \in Stuck : ~(l < n)
  BY LeastNumber
<1>2. CASE n = 0
  <2>1. Joins([i \in 1 .. 0 |-> seqs[1]], seqs, 0)
    BY DEF Joins
  <2> QED BY <1>1, <1>2, <2>1
<1>3. CASE n # 0
  <2>1. n \in Nat /\ n - 1 \in Nat /\ n - 1 < n
    BY <1>1, <1>3
  <2>2. PICK g : Joins(g, seqs, n - 1)
    BY <1>1, <2>1
  <2> DEFINE f == [i \in 1 .. n |->
                     IF i < n THEN g[i] ELSE IF n = 1 THEN seqs[n] ELSE g[n - 1] \o seqs[n]]
  <2>3. ASSUME NEW i \in 1 .. n PROVE f[i] = IF i = 1 THEN seqs[i] ELSE f[i - 1] \o seqs[i]
    <3>1. CASE i = n
      <4>1. i # 1 => i - 1 \in 1 .. n /\ i - 1 < n
        BY <2>1, <3>1
      <4> QED BY <3>1, <4>1
    <3>2. CASE i # n
      <4>1. i \in 1 .. n - 1 /\ i < n /\ (i # 1 => i - 1 \in 1 .. n /\ i - 1 < n)
        BY <2>1, <3>2
      <4>2. g[i] = IF i = 1 THEN seqs[i] ELSE g[i - 1] \o seqs[i]
        BY <2>2, <4>1 DEF Joins
      <4> QED BY <4>1, <4>2
    <3> QED BY <3>1, <3>2
  <2>4. f = [i \in 1 .. n |-> f[i]]
    OBVIOUS
  <2> HIDE DEF f
  <2>5. Joins(f, seqs, n)
    BY <2>3, <2>4 DEF Joins
  <2> QED BY <1>1, <2>5
<1> QED BY <1>2, <1>3

LEMMA FlattenedIsList ==
    ASSUME NEW S, NEW n \in Nat, NEW seqs \in [1 .. n -> Seq(S)]
    PROVE  FlattenSeq(seqs) \in Seq(S)
<1> DEFINE flatten == CHOOSE f : Joins(f, seqs, n)
           Wrong == {i \in Nat : i \in 1 .. n /\ flatten[i] \notin Seq(S)}
<1>1. Len(seqs) = n /\ seqs \in Seq(Seq(S))
  OBVIOUS
<1>2. Joins(flatten, seqs, n)
  BY JoinExists
<1>3. ASSUME Wrong # {} PROVE FALSE
  <2>1. PICK i \in Wrong : \A l \in Wrong : ~(l < i)
    BY <1>3, LeastNumber
  <2> HIDE DEF flatten
  <2>2. flatten[i] = IF i = 1 THEN seqs[i] ELSE flatten[i - 1] \o seqs[i]
    BY <1>2, <2>1 DEF Joins
  <2>3. CASE i = 1
    BY <2>1, <2>2, <2>3
  <2>4. CASE i # 1
    <3>1. i - 1 \in 1 .. n /\ i - 1 < i /\ i - 1 \in Nat
      BY <2>1, <2>4
    <3>2. flatten[i - 1] \in Seq(S) /\ seqs[i] \in Seq(S)
      BY <2>1, <3>1
    <3>3. flatten[i - 1] \o seqs[i] \in Seq(S)
      BY <3>2
    <3> QED BY <2>1, <2>2, <2>4, <3>3
  <2> QED BY <2>3, <2>4
<1>4. CASE n = 0
  <2>1. FlattenSeq(seqs) = seqs
    BY <1>1, <1>4 DEF FlattenSeq
  <2>2. seqs = <<>>
    BY <1>4
  <2> QED BY <2>1, <2>2
<1>5. CASE n # 0
  <2>1. FlattenSeq(seqs) = flatten[n]
    BY <1>1, <1>5 DEF FlattenSeq, Joins
  <2> HIDE DEF flatten
  <2>2. n \in 1 .. n /\ n \notin Wrong
    BY <1>3, <1>5
  <2> QED BY <2>1, <2>2
<1> QED BY <1>4, <1>5

LEMMA ScannedTargets ==
    ASSUME NEW t \in ToolDirs PROVE \E S : Scan(t).targets \in Seq(S)
<1> DEFINE S == UNION {Range(file.targets) : file \in Range(t)}
           seqs == [k \in DOMAIN t |-> TargetsOf(t[k])]
<1>1. t \in Seq(Range(t)) /\ \A file \in Range(t) : file.targets \in Seq(Range(file.targets))
  BY CompositionAssumption
<1>2. Len(t) \in Nat /\ DOMAIN t = 1 .. Len(t)
  BY <1>1
<1>3. ASSUME NEW k \in DOMAIN t PROVE TargetsOf(t[k]) \in Seq(S)
  <2>1. t[k] \in Range(t)
    BY DEF Range
  <2>2. t[k].targets \in Seq(Range(t[k].targets)) /\ Range(t[k].targets) \subseteq S
    BY <1>1, <2>1
  <2> HIDE DEF S
  <2>3. t[k].targets \in Seq(S) /\ <<>> \in Seq(S)
    BY <2>2
  <2> QED BY <2>3 DEF TargetsOf
<1> HIDE DEF S
<1>4. seqs \in [1 .. Len(t) -> Seq(S)]
  BY <1>2, <1>3
<1>5. Scan(t).targets = FlattenSeq(seqs)
  BY DEF Scan
<1> HIDE DEF seqs
<1> QED BY <1>2, <1>4, <1>5, FlattenedIsList

LEMMA Covers ==
    ASSUME NEW new, NEW old
    PROVE  /\ DOMAIN Over(new, old) = DOMAIN new \cup DOMAIN old
           /\ \A x \in DOMAIN new : Over(new, old)[x] = new[x]
           /\ \A x \in DOMAIN old \ DOMAIN new : Over(new, old)[x] = old[x]
BY DEF Over

\* The files are those of some app root, before and after somebody edited them.
LEMMA InitFiles == CompositionInit => FilesInv
<1> SUFFICES ASSUME CompositionInit PROVE FilesInv
  OBVIOUS
<1>1. PICK s \in Settings, t \in ToolDirs, a \in AgentDirs :
        disk = Over(s, [tools |-> t, agents |-> a])
  BY DEF CompositionInit, InitDiscovery, Disks
<1>2. {"tools", "agents"} \cap DOMAIN s = {}
  BY CompositionAssumption
<1> DEFINE both == [tools |-> t, agents |-> a]
<1>3. disk.tools = t /\ disk.agents = a /\ {"tools", "agents"} \subseteq DOMAIN disk
  <2>1. both.tools = t /\ both.agents = a /\ DOMAIN both = {"tools", "agents"}
    OBVIOUS
  <2>2. disk = Over(s, both)
    BY <1>1
  <2> HIDE DEF both
  <2>3. "tools" \in DOMAIN both \ DOMAIN s /\ "agents" \in DOMAIN both \ DOMAIN s
    BY <1>2, <2>1
  <2>4. disk["tools"] = both["tools"] /\ disk["agents"] = both["agents"]
    BY <2>2, <2>3 DEF Over
  <2>5. DOMAIN disk = DOMAIN s \cup DOMAIN both
    BY <2>2, Covers
  <2> QED BY <2>1, <2>4, <2>5
<1>4. cache = [tools |-> Unread, servers |-> Unread, skills |-> Unread]
  BY DEF CompositionInit, InitDiscovery, EmptyCache
<1> QED BY <1>3, <1>4 DEF FilesInv

LEMMA EditedFiles == FilesInv /\ Edit => FilesInv'
<1> SUFFICES ASSUME FilesInv, Edit PROVE FilesInv'
  OBVIOUS
<1>1. cache' = cache
  BY DEF Edit
<1>2. ASSUME NEW t \in ToolDirs, disk' = [disk EXCEPT !.tools = t] PROVE FilesInv'
  BY <1>1, <1>2 DEF FilesInv
<1>3. ASSUME NEW a \in AgentDirs, disk' = [disk EXCEPT !.agents = a] PROVE FilesInv'
  BY <1>1, <1>3 DEF FilesInv
<1>4. ASSUME NEW s \in Settings, disk' = Over(s, disk) PROVE FilesInv'
  <2>1. {"tools", "agents"} \cap DOMAIN s = {}
    BY CompositionAssumption
  <2>2. {"tools", "agents"} \subseteq DOMAIN disk \ DOMAIN s
    BY <2>1 DEF FilesInv
  <2>3. "tools" \in DOMAIN disk \ DOMAIN s /\ "agents" \in DOMAIN disk \ DOMAIN s
    BY <2>2
  <2>4. disk'["tools"] = disk["tools"] /\ disk'["agents"] = disk["agents"]
    BY <1>4, <2>3 DEF Over
  <2>5. DOMAIN disk \subseteq DOMAIN disk'
    BY <1>4, Covers
  <2> QED BY <1>1, <2>2, <2>4, <2>5 DEF FilesInv
<1> QED BY <1>2, <1>3, <1>4 DEF Edit

\* A cache, once read, is what it is as long as the process lives.
LEMMA ReadFiles ==
    ASSUME FilesInv, disk' = disk, ReadTools \/ ReadAll
    PROVE  /\ FilesInv'
           /\ cache'.tools = DiscoverTools /\ cache'.tools # Unread
           /\ cache.tools # Unread => cache'.tools = cache.tools
<1>1. \E t \in ToolDirs : DiscoverTools = Scan(t)
  BY DEF FilesInv, DiscoverTools
<1>2. DiscoverTools # Unread
  BY <1>1, CompositionAssumption
<1>3. DOMAIN cache' = DOMAIN cache /\ cache'.tools = DiscoverTools
  BY DEF ReadTools, ReadAll, Remember, FilesInv
<1> QED BY <1>1, <1>2, <1>3 DEF FilesInv, DiscoverTools

LEMMA ForgottenFiles == FilesInv /\ ForgetAll => FilesInv'
BY DEF FilesInv, ForgetAll, EmptyCache

-----------------------------------------------------------------------------
(* The steps of a composition. *)

\* Before the first agent is validated there is no catalog and no app object.
Early ==
    /\ catalog = <<>> /\ at = 1 /\ bound = {} /\ app = NoApp
    /\ pc \in {"idle", "config", "specs", "discovery", "identity", "failed"}

LEMMA EarlyInv == FilesInv /\ ReadInv /\ Early => CompositionInv
<1> SUFFICES ASSUME FilesInv, ReadInv, Early PROVE CompositionInv
  OBVIOUS
<1>1. DOMAIN catalog = {}
  BY DEF Early
<1>2. CatalogInv
  BY <1>1 DEF CatalogInv, Early, Validated
<1>3. AppInv
  BY DEF AppInv, Early
<1> QED BY <1>2, <1>3 DEF CompositionInv

LEMMA EarlyStep == FilesInv' /\ ReadInv' /\ Early' => CompositionInv'
BY EarlyInv, PTL

\* What does not change what was read and the catalog does not change what they say.
LEMMA ReadStands ==
    ASSUME UNCHANGED <<config, specs>>
    PROVE  /\ Resolved' = Resolved /\ KnownSlugs' = KnownSlugs
           /\ \A r, refs : BadReferences(r, refs)' <=> BadReferences(r, refs)
BY DEF Resolved, KnownSlugs, BadReferences, Resolve, HiddenTools, SandboxConfigured, WebConfigured

LEMMA VerdictStands ==
    ASSUME UNCHANGED <<strict, config, specs, found>>, NEW r
    PROVE  /\ Rejected(r)' <=> Rejected(r)
           /\ Capabilities(r)' = Capabilities(r)
           /\ \A wf : Collides(r, wf)' <=> Collides(r, wf)
<1>1. UserTools(r)' = UserTools(r) /\ PlanTargets(r)' = PlanTargets(r) /\ Servers(r)' = Servers(r)
  <2>1. found' = found
    OBVIOUS
  <2>2. UserTools(r)' = UserTools(r)
    BY <2>1 DEF UserTools
  <2>3. PlanTargets(r)' = PlanTargets(r) /\ Servers(r)' = Servers(r)
    BY <2>1 DEF PlanTargets, Servers
  <2> QED BY <2>2, <2>3
<1>2. \A wf : Collides(r, wf)' <=> Collides(r, wf)
  BY <1>1 DEF Collides
<1>3. Capabilities(r)' = Capabilities(r) /\ ExistingTools(r)' = ExistingTools(r)
  BY <1>1 DEF Capabilities, ExistingTools
<1>4. DelegatesCollide(r)' <=> DelegatesCollide(r)
  BY <1>3 DEF DelegatesCollide
<1>5. IsInjective(UserTools(r))' <=> IsInjective(UserTools(r))
  BY <1>1
<1>6. HarnessRejects(r)' <=> HarnessRejects(r)
  BY <1>1, <1>2, <1>5 DEF HarnessRejects
<1> QED BY <1>2, <1>3, <1>4, <1>6 DEF Rejected

LEMMA CatalogStands ==
    ASSUME UNCHANGED <<strict, config, specs, found, catalog>>
    PROVE  /\ \A s : (Entered(s)' <=> Entered(s)) /\ (Bindable(s)' <=> Bindable(s))
           /\ Policies' = Policies
<1>1. Resolved' = Resolved
  BY ReadStands
<1>2. ASSUME NEW s PROVE Entered(s)' <=> Entered(s)
  BY <1>1, VerdictStands DEF Entered
<1>3. ASSUME NEW s PROVE Bindable(s)' <=> Bindable(s)
  BY VerdictStands DEF Bindable
<1>4. Handlers' = Handlers
  BY DEF Handlers, FirstOf, Declares
<1>5. Policies' = Policies
  BY <1>4 DEF Policies, WorkflowAgents, Policy, Allowed
<1> QED BY <1>2, <1>3, <1>5

\* A composition starts, in a process that may have composed before or in a new one.
LEMMA BeginCompositionInv == CompositionInv /\ BeginComposition => CompositionInv'
<1> SUFFICES ASSUME CompositionInv, BeginComposition PROVE CompositionInv'
  OBVIOUS
<1>1. FilesInv'
  BY DEF BeginComposition, CompositionInv, FilesInv
<1>2. ReadInv'
  <2>1. specs' = <<>> /\ found' = Unread /\ pc' = "config"
    BY DEF BeginComposition, Fresh
  <2>2. seen' = seen /\ cache' = cache
    BY DEF BeginComposition
  <2> QED BY <2>1, <2>2 DEF ReadInv, CompositionInv, Validated
<1>3. Early'
  BY DEF BeginComposition, Fresh, Early
<1> QED BY <1>1, <1>2, <1>3, EarlyStep

LEMMA RestartInv == CompositionInv /\ Restart => CompositionInv'
<1> SUFFICES ASSUME CompositionInv, Restart PROVE CompositionInv'
  OBVIOUS
<1>1. FilesInv'
  BY ForgottenFiles DEF Restart, CompositionInv
<1>2. ReadInv'
  <2>1. specs' = <<>> /\ found' = Unread /\ pc' = "idle" /\ seen' = Unread
    BY DEF Restart, Fresh
  <2> QED BY <2>1 DEF ReadInv, Validated
<1>3. Early'
  BY DEF Restart, Fresh, Early
<1> QED BY <1>1, <1>2, <1>3, EarlyStep

LEMMA CompositionStarts == CompositionInit => CompositionInv
<1> SUFFICES ASSUME CompositionInit PROVE CompositionInv
  OBVIOUS
<1>1. FilesInv
  BY InitFiles
<1>2. ReadInv
  BY DEF CompositionInit, ReadInv, Validated
<1>3. Early
  BY DEF CompositionInit, Early
<1> QED BY <1>1, <1>2, <1>3, EarlyInv

\* Before pass 1b a composition has no catalog, and an app object only after it.
LEMMA Unbuilt ==
    ASSUME CompositionInv, pc \in {"config", "specs", "discovery", "identity"}
    PROVE  catalog = <<>> /\ at = 1 /\ bound = {} /\ app = NoApp
BY DEF CompositionInv, CatalogInv, AppInv

LEMMA LoadConfigInv == CompositionInv /\ LoadConfig => CompositionInv'
<1> SUFFICES ASSUME CompositionInv, LoadConfig PROVE CompositionInv'
  OBVIOUS
<1>1. pc' \in {"specs", "failed"} /\ app' \in {app, NoApp}
  BY DEF LoadConfig, Fail
<1>2. UNCHANGED <<disk, cache, specs, found, at, catalog, bound, seen>>
  BY DEF LoadConfig
<1>3. pc = "config"
  BY DEF LoadConfig
<1>4. FilesInv'
  BY <1>2 DEF CompositionInv, FilesInv
<1>5. ReadInv'
  BY <1>1, <1>2 DEF CompositionInv, ReadInv, Kept, Validated
<1>6. Early'
  BY <1>1, <1>2, <1>3, Unbuilt DEF Early
<1> QED BY <1>4, <1>5, <1>6, EarlyStep

\* The specs read are some of the files there are.
LEMMA LoadSpecsInv == CompositionInv /\ LoadSpecs => CompositionInv'
<1> SUFFICES ASSUME CompositionInv, LoadSpecs PROVE CompositionInv'
  OBVIOUS
<1>1. pc = "specs" /\ pc' = "discovery"
  BY DEF LoadSpecs
<1>2. UNCHANGED <<disk, cache, found, at, catalog, app, bound, seen>>
  BY DEF LoadSpecs
<1>3. PICK path \in [1 .. Cardinality(ReadableFiles) -> ReadableFiles] :
        specs' = [n \in DOMAIN path |-> disk.agents[path[n]]]
  BY DEF LoadSpecs
<1>4. /\ disk.agents \in Seq(Range(disk.agents))
      /\ \A spec \in Range(disk.agents) : "slug" \in DOMAIN spec /\ spec.slug \in DOMAIN DelegateTool
  BY CompositionAssumption DEF CompositionInv, FilesInv
<1>5. Cardinality(ReadableFiles) \in Nat
  <2>1. DOMAIN disk.agents = 1 .. Len(disk.agents) /\ Len(disk.agents) \in Nat
    BY <1>4
  <2>2. IsFiniteSet(DOMAIN disk.agents)
    BY <2>1, FS_Interval
  <2>3. IsFiniteSet(ReadableFiles)
    BY <2>2, FS_Subset DEF ReadableFiles
  <2> QED BY <2>3, FS_CardinalityType
<1> DEFINE m == Cardinality(ReadableFiles)
<1>6. ASSUME NEW n \in 1 .. m PROVE specs'[n] \in Range(disk.agents)
  <2>1. path[n] \in DOMAIN disk.agents
    BY <1>3, <1>6 DEF ReadableFiles
  <2>2. specs'[n] = disk.agents[path[n]]
    BY <1>3, <1>6
  <2> QED BY <2>1, <2>2 DEF Range
<1>7. specs' = [n \in 1 .. m |-> specs'[n]]
  BY <1>3
<1> HIDE DEF m
<1>8. Len(specs') = m /\ DOMAIN specs' = 1 .. m /\ m \in Nat
  <2>1. m \in Nat
    BY <1>5 DEF m
  <2>2. specs' \in Seq(Range(disk.agents))
    BY <1>6, <1>7, <2>1
  <2> QED BY <1>7, <2>1, <2>2
<1>9. FilesInv'
  BY <1>2 DEF CompositionInv, FilesInv
<1>10. ReadInv'
  BY <1>1, <1>2, <1>4, <1>6, <1>8 DEF CompositionInv, ReadInv, Kept, Validated
<1>11. Early'
  BY <1>1, <1>2, Unbuilt DEF Early
<1> QED BY <1>9, <1>10, <1>11, EarlyStep

LEMMA DiscoverInv == CompositionInv /\ Discover => CompositionInv'
<1> SUFFICES ASSUME CompositionInv, Discover PROVE CompositionInv'
  OBVIOUS
<1>1. pc = "discovery" /\ pc' \in {"identity", "failed"} /\ app' \in {app, NoApp}
  BY DEF Discover, Fail
<1>2. UNCHANGED <<disk, specs, at, catalog, bound, seen>> /\ ReadAll
  BY DEF Discover
<1>3. /\ FilesInv'
      /\ cache'.tools = DiscoverTools /\ cache'.tools # Unread
      /\ cache.tools # Unread => cache'.tools = cache.tools
  BY <1>2, ReadFiles DEF CompositionInv
<1>4. found'.user = cache'.tools.user /\ found'.targets = cache'.tools.targets
  BY <1>3 DEF Discover
<1>5. ReadInv'
  BY <1>2, <1>3, <1>4 DEF CompositionInv, ReadInv, Kept
<1>6. Early'
  BY <1>1, <1>2, Unbuilt DEF Early
<1> QED BY <1>3, <1>5, <1>6, EarlyStep

\* What a step that reads nothing leaves alone.
LEMMA StillRead ==
    ASSUME CompositionInv, UNCHANGED <<disk, cache, specs, found, seen>>,
           pc' \in Validated => pc \in Validated \cup {"identity"}, pc' # "identity"
    PROVE  FilesInv' /\ ReadInv'
<1>1. FilesInv'
  BY DEF CompositionInv, FilesInv
<1>2. ReadInv'
  BY DEF CompositionInv, ReadInv, Kept, Validated
<1> QED BY <1>1, <1>2

LEMMA IdentifyInv == CompositionInv /\ Identify => CompositionInv'
<1> SUFFICES ASSUME CompositionInv, Identify PROVE CompositionInv'
  OBVIOUS
<1>1. pc = "identity"
  BY DEF Identify
<1>2. UNCHANGED <<disk, cache, strict, config, specs, found, at, catalog, bound, seen>>
  BY DEF Identify
<1>3. catalog = <<>> /\ at = 1 /\ bound = {} /\ app = NoApp
  BY <1>1, Unbuilt
<1>4. CASE pc' = "failed" /\ app' = NoApp
  <2>1. FilesInv' /\ ReadInv'
    BY <1>2, <1>4, StillRead DEF Validated
  <2>2. Early'
    BY <1>2, <1>3, <1>4 DEF Early
  <2> QED BY <2>1, <2>2, EarlyStep
<1>5. ASSUME ~\E r \in Range(Resolved) : BadReferences(r, r.subs) \/ BadReferences(r, r.wfSubs),
             pc' = "validation", app' = app
      PROVE  CompositionInv'
  <2>1. FilesInv' /\ ReadInv'
    BY <1>1, <1>2, <1>5, StillRead DEF Validated
  <2>2. ASSUME NEW k \in DOMAIN specs
        PROVE  ~BadReferences(Resolved[k], Resolved[k].subs) /\ ~BadReferences(Resolved[k], Resolved[k].wfSubs)
    <3>1. Resolved[k] \in Range(Resolved)
      BY DEF Range, Resolved
    <3> QED BY <1>5, <3>1
  <2>3. CatalogInv'
    <3>1. DOMAIN catalog' = {} /\ at' = 1
      BY <1>2, <1>3
    <3>2. \A k \in DOMAIN specs' :
            /\ ~BadReferences(Resolved[k], Resolved[k].subs)'
            /\ ~BadReferences(Resolved[k], Resolved[k].wfSubs)'
      BY <1>2, <2>2, ReadStands
    <3>3. at' \in 1 .. Len(specs') + 1 /\ 1 .. at' - 1 = {}
      BY <2>1, <3>1 DEF ReadInv
    <3> QED BY <1>5, <3>1, <3>2, <3>3 DEF CatalogInv
  <2>4. AppInv'
    BY <1>2, <1>3, <1>5 DEF AppInv
  <2> QED BY <2>1, <2>3, <2>4 DEF CompositionInv
<1> QED BY <1>4, <1>5 DEF Identify, Fail

\* A composition that fails keeps the catalog, and no app object.
LEMMA FailInv ==
    ASSUME CompositionInv, Fail, pc # "served",
           UNCHANGED <<disk, cache, strict, config, specs, found, catalog, bound, seen>>
    PROVE  CompositionInv'
<1>1. pc' = "failed" /\ app' = NoApp /\ bound' = {}
  BY DEF Fail, CompositionInv, AppInv
<1>2. FilesInv' /\ ReadInv'
  BY <1>1, StillRead DEF Validated
<1>3. CatalogInv'
  BY <1>1, CatalogStands DEF CompositionInv, CatalogInv, Validated
<1>4. AppInv'
  BY <1>1 DEF AppInv
<1> QED BY <1>2, <1>3, <1>4 DEF CompositionInv

\* The agent that is validated next is entered into the catalog as it was checked.
LEMMA ValidateNextInv == CompositionInv /\ ValidateNext => CompositionInv'
<1> SUFFICES ASSUME CompositionInv, ValidateNext PROVE CompositionInv'
  OBVIOUS
<1>0. PICK r : r = Resolved[at]
  OBVIOUS
<1>1. pc = "validation" /\ at <= Len(specs)
  BY DEF ValidateNext
<1>2. UNCHANGED <<disk, cache, strict, config, specs, found, bound, seen>>
  BY DEF ValidateNext
<1>3. CASE Fail /\ UNCHANGED catalog
  BY <1>1, <1>2, <1>3, FailInv
<1>4. ASSUME ~Rejected(r), catalog' = Over([s \in {r.slug} |-> Capabilities(r)], catalog),
             at' = at + 1, UNCHANGED <<pc, app>>
      PROVE  CompositionInv'
  <2>1. /\ at \in 1 .. Len(specs) /\ Len(specs) \in Nat /\ DOMAIN specs = 1 .. Len(specs)
        /\ DOMAIN catalog = {Resolved[k].slug : k \in 1 .. at - 1}
    BY <1>1 DEF CompositionInv, ReadInv, CatalogInv
  <2>2. FilesInv' /\ ReadInv'
    BY <1>1, <1>2, <1>4, StillRead DEF Validated
  <2>3. /\ DOMAIN catalog' = DOMAIN catalog \cup {r.slug} /\ catalog'[r.slug] = Capabilities(r)
        /\ \A s \in DOMAIN catalog \ {r.slug} : catalog'[s] = catalog[s]
    BY <1>4 DEF Over
  <2>4. Resolved' = Resolved
    BY <1>2, ReadStands
  <2>5. ASSUME NEW s \in DOMAIN catalog' PROVE Entered(s)'
    <3>1. CASE s = r.slug
      <4>1. ~Rejected(r)' /\ Capabilities(r)' = Capabilities(r)
        BY <1>2, <1>4, VerdictStands
      <4> QED BY <1>0, <1>2, <2>1, <2>3, <2>4, <3>1, <4>1 DEF Entered
    <3>2. CASE s # r.slug
      <4>1. s \in DOMAIN catalog /\ catalog'[s] = catalog[s]
        BY <2>3, <2>5, <3>2
      <4>2. PICK k \in DOMAIN specs :
              s = Resolved[k].slug /\ catalog[s] = Capabilities(Resolved[k]) /\ ~Rejected(Resolved[k])
        BY <4>1 DEF CompositionInv, CatalogInv, Entered
      <4> DEFINE q == Resolved[k]
      <4>3. ~Rejected(q)' /\ Capabilities(q)' = Capabilities(q)
        BY <1>2, <2>4, <4>2, VerdictStands
      <4> QED BY <1>2, <2>4, <4>1, <4>2, <4>3 DEF Entered
    <3> QED BY <3>1, <3>2
  <2>6. CatalogInv'
    <3>1. DOMAIN catalog' = {Resolved'[k].slug : k \in 1 .. at' - 1}
      <4>1. 1 .. at' - 1 = (1 .. at - 1) \cup {at}
        BY <1>4, <2>1
      <4> QED BY <1>0, <2>1, <2>3, <2>4, <4>1
    <3>2. at' \in 1 .. Len(specs') + 1
      BY <1>2, <1>4, <2>1
    <3>3. \A k \in DOMAIN specs' :
            /\ ~BadReferences(Resolved[k], Resolved[k].subs)'
            /\ ~BadReferences(Resolved[k], Resolved[k].wfSubs)'
      BY <1>1, <1>2, ReadStands DEF CompositionInv, CatalogInv, Validated
    <3> QED BY <1>1, <1>4, <2>5, <3>1, <3>2, <3>3 DEF CatalogInv
  <2>7. AppInv'
    BY <1>1, <1>2, <1>4 DEF CompositionInv, AppInv
  <2> QED BY <2>2, <2>6, <2>7 DEF CompositionInv
<1> QED BY <1>0, <1>3, <1>4 DEF ValidateNext

\* The app object is created with the policies of the whole catalog.
LEMMA FreezeInv == CompositionInv /\ Freeze => CompositionInv'
<1> SUFFICES ASSUME CompositionInv, Freeze PROVE CompositionInv'
  OBVIOUS
<1>1. pc = "validation" /\ at > Len(specs) /\ pc' = "registration" /\ at' = 1
  BY DEF Freeze
<1>2. UNCHANGED <<disk, cache, strict, config, specs, found, catalog, bound, seen>>
  BY DEF Freeze
<1>3. FilesInv' /\ ReadInv'
  BY <1>1, <1>2, StillRead DEF Validated
<1>4. DOMAIN catalog = KnownSlugs
  <2>1. at - 1 = Len(specs) /\ DOMAIN specs = 1 .. Len(specs)
    BY <1>1 DEF CompositionInv, ReadInv, CatalogInv
  <2>2. DOMAIN catalog = {Resolved[k].slug : k \in DOMAIN specs}
    BY <1>1, <2>1 DEF CompositionInv, CatalogInv
  <2>3. DOMAIN Resolved = DOMAIN specs
    BY DEF Resolved
  <2> QED BY <2>2, <2>3 DEF KnownSlugs, Range
<1>5. CatalogInv'
  BY <1>1, <1>2, ReadStands, CatalogStands DEF CompositionInv, CatalogInv, Validated
<1>6. /\ app' = [functions |-> {}, handlers |-> app'.handlers, policies |-> Policies,
                 runtime |-> app'.runtime]
  BY DEF Freeze, WithRuntime
<1>7. AppInv'
  <2>1. app'.policies = Policies /\ app'.functions = {}
        /\ DOMAIN app' = {"functions", "handlers", "policies", "runtime"}
    BY <1>6
  <2>2. KnownSlugs' = KnownSlugs /\ Policies' = Policies /\ DOMAIN catalog' = DOMAIN catalog
    BY <1>2, ReadStands, CatalogStands
  <2>3. bound' = {}
    BY <1>1, <1>2 DEF CompositionInv, AppInv
  <2> QED BY <1>1, <1>4, <2>1, <2>2, <2>3 DEF AppInv
<1> QED BY <1>3, <1>5, <1>7 DEF CompositionInv

\* The functions of an agent are roles it was validated for.
LEMMA RegisterNextInv == CompositionInv /\ RegisterNext => CompositionInv'
<1> SUFFICES ASSUME CompositionInv, RegisterNext PROVE CompositionInv'
  OBVIOUS
<1>0. PICK s, r : s = Resolved[at].slug /\ r = catalog[s].resolved
  OBVIOUS
<1>1. pc = "registration" /\ at <= Len(specs)
  BY DEF RegisterNext
<1>2. UNCHANGED <<disk, cache, strict, config, specs, found, catalog, bound, seen>>
  BY DEF RegisterNext
<1>3. CASE Fail
  BY <1>1, <1>2, <1>3, FailInv
<1>4. ASSUME app' = [app EXCEPT !.functions = @ \cup AgentSurfaces(r)], at' = at + 1, pc' = pc
      PROVE  CompositionInv'
  <2>1. FilesInv' /\ ReadInv'
    BY <1>1, <1>2, <1>4, StillRead DEF Validated
  <2>2. CatalogInv'
    BY <1>1, <1>2, <1>4, ReadStands, CatalogStands DEF CompositionInv, CatalogInv, Validated
  <2>3. s \in DOMAIN catalog /\ r.slug = s
    <3>1. at \in DOMAIN specs
      BY <1>1 DEF CompositionInv, ReadInv, AppInv
    <3>2. s \in KnownSlugs
      BY <1>0, <3>1 DEF KnownSlugs, Range, Resolved
    <3>3. s \in DOMAIN catalog
      BY <1>1, <3>2 DEF CompositionInv, AppInv
    <3>4. PICK k \in DOMAIN specs : s = Resolved[k].slug /\ catalog[s] = Capabilities(Resolved[k])
      BY <3>3 DEF CompositionInv, CatalogInv, Entered
    <3>5. catalog[s].resolved = Resolved[k]
      BY <3>4 DEF Capabilities
    <3> QED BY <1>0, <3>3, <3>4, <3>5
  <2>4. ASSUME NEW f \in app'.functions
        PROVE  f[1] \in DOMAIN catalog /\ DirectRole(catalog[f[1]].resolved)
    <3>1. f \in app.functions \/ f \in AgentSurfaces(r)
      BY <1>1, <1>4 DEF CompositionInv, AppInv
    <3>2. CASE f \in app.functions
      BY <1>1, <3>2 DEF CompositionInv, AppInv
    <3>3. CASE f \in AgentSurfaces(r)
      <4>1. f[1] = s /\ DirectRole(r)
        BY <2>3, <3>3 DEF AgentSurfaces, DirectRole
      <4> QED BY <1>0, <2>3, <4>1
    <3> QED BY <3>1, <3>2, <3>3
  <2>5. AppInv'
    <3>1. app'.policies = app.policies /\ DOMAIN app' = DOMAIN app
      BY <1>1, <1>4 DEF CompositionInv, AppInv
    <3>2. KnownSlugs' = KnownSlugs /\ Policies' = Policies
      BY <1>2, ReadStands, CatalogStands
    <3>3. at' \in Nat \ {0} /\ bound' = {}
      BY <1>1, <1>2, <1>4 DEF CompositionInv, AppInv
    <3>4. app.policies = Policies /\ DOMAIN catalog = KnownSlugs
          /\ DOMAIN app = {"functions", "handlers", "policies", "runtime"}
      BY <1>1 DEF CompositionInv, AppInv
    <3>5. DOMAIN catalog' = KnownSlugs' /\ app'.policies = Policies'
          /\ DOMAIN app' = {"functions", "handlers", "policies", "runtime"}
      BY <1>2, <3>1, <3>2, <3>4
    <3>6. \A f \in app'.functions : f[1] \in DOMAIN catalog' /\ DirectRole(catalog'[f[1]].resolved)
      BY <1>2, <2>4
    <3>7. \A f \in app'.functions : (f[1] \in DOMAIN catalog /\ DirectRole(catalog[f[1]].resolved))'
      BY <3>6 DEF DirectRole
    <3> QED BY <1>1, <1>4, <3>3, <3>5, <3>7 DEF AppInv, DirectRole
  <2> QED BY <2>1, <2>2, <2>5 DEF CompositionInv
<1> QED BY <1>0, <1>3, <1>4 DEF RegisterNext, Registers

LEMMA ServeInv == CompositionInv /\ Serve => CompositionInv'
<1> SUFFICES ASSUME CompositionInv, Serve PROVE CompositionInv'
  OBVIOUS
<1>1. pc = "registration" /\ pc' = "served"
  BY DEF Serve
<1>2. UNCHANGED <<disk, cache, strict, config, specs, found, catalog, app, bound, seen>>
  BY DEF Serve
<1>3. FilesInv' /\ ReadInv'
  BY <1>1, <1>2, StillRead DEF Validated
<1>4. CatalogInv'
  BY <1>1, <1>2, ReadStands, CatalogStands DEF CompositionInv, CatalogInv, Validated
<1>5. AppInv'
  BY <1>1, <1>2, ReadStands, CatalogStands DEF CompositionInv, AppInv, DirectRole
<1> QED BY <1>3, <1>4, <1>5 DEF CompositionInv

LEMMA BindHostedSkillInv ==
    ASSUME CompositionInv, NEW s \in DOMAIN DelegateTool, BindHostedSkill(s)
    PROVE  CompositionInv'
<1>1. pc = "served" /\ pc' = "served" /\ Bindable(s)
  BY DEF BindHostedSkill, Bindable
<1>2. UNCHANGED <<disk, cache, strict, config, specs, found, at, catalog, app, seen>>
  BY DEF BindHostedSkill
<1>3. FilesInv' /\ ReadInv'
  BY <1>1, <1>2, StillRead DEF Validated
<1>4. CatalogInv'
  BY <1>1, <1>2, ReadStands, CatalogStands DEF CompositionInv, CatalogInv, Validated
<1>5. bound' = bound \cup {s}
  BY DEF BindHostedSkill
<1>6. AppInv'
  BY <1>1, <1>2, <1>5, ReadStands, CatalogStands DEF CompositionInv, AppInv, DirectRole
<1> QED BY <1>3, <1>4, <1>6 DEF CompositionInv

\* A step of the files or of a direct run leaves the composition where it is.
LEMMA Beside ==
    ASSUME CompositionInv, FilesInv', ReadInv',
           UNCHANGED <<pc, strict, config, specs, found, at, catalog, app, bound>>
    PROVE  CompositionInv'
<1>1. CatalogInv'
  BY ReadStands, CatalogStands DEF CompositionInv, CatalogInv, Validated
<1>2. AppInv'
  BY ReadStands, CatalogStands DEF CompositionInv, AppInv, DirectRole
<1> QED BY <1>1, <1>2 DEF CompositionInv

\* A direct run reads what the composition read, or fills the cache before it.
LEMMA RunDirectlyInv == CompositionInv /\ RunDirectly => CompositionInv'
<1> SUFFICES ASSUME CompositionInv, RunDirectly PROVE CompositionInv'
  OBVIOUS
<1>1. UNCHANGED <<disk, pc, strict, config, specs, found, at, catalog, app, bound>> /\ ReadTools
  BY DEF RunDirectly
<1>2. /\ FilesInv'
      /\ cache'.tools = DiscoverTools /\ cache'.tools # Unread
      /\ cache.tools # Unread => cache'.tools = cache.tools
  BY <1>1, ReadFiles DEF CompositionInv
<1>3. seen' = Range(cache'.tools.user)
  BY <1>2 DEF RunDirectly
<1>4. ReadInv'
  BY <1>1, <1>2, <1>3 DEF CompositionInv, ReadInv, Kept
<1> QED BY <1>1, <1>2, <1>4, Beside

LEMMA EditFilesInv == CompositionInv /\ EditFiles => CompositionInv'
<1> SUFFICES ASSUME CompositionInv, EditFiles PROVE CompositionInv'
  OBVIOUS
<1>1. UNCHANGED <<cache, pc, strict, config, specs, found, at, catalog, app, bound, seen>>
  BY DEF EditFiles, Edit
<1>2. FilesInv'
  BY EditedFiles DEF CompositionInv, EditFiles
<1>3. ReadInv'
  BY <1>1 DEF CompositionInv, ReadInv, Kept
<1> QED BY <1>1, <1>2, <1>3, Beside

LEMMA CompositionNextInv == CompositionInv /\ [CompositionNext]_compositionVars => CompositionInv'
<1> SUFFICES ASSUME CompositionInv, [CompositionNext]_compositionVars PROVE CompositionInv'
  OBVIOUS
<1>1. CASE UNCHANGED compositionVars
  <2>1. UNCHANGED <<disk, cache, pc, strict, config, specs, found, at, catalog, app, bound, seen>>
    BY <1>1 DEF compositionVars
  <2>2. FilesInv' /\ ReadInv'
    BY <2>1 DEF CompositionInv, FilesInv, ReadInv, Kept
  <2> QED BY <2>1, <2>2, Beside
<1>2. CASE CompositionNext
  BY <1>2, BeginCompositionInv, LoadConfigInv, LoadSpecsInv, DiscoverInv, IdentifyInv,
     ValidateNextInv, FreezeInv, RegisterNextInv, ServeInv, BindHostedSkillInv, RunDirectlyInv,
     EditFilesInv, RestartInv
     DEF CompositionNext
<1> QED BY <1>1, <1>2

\* The inventories are read once, pass 1b starts with resolved references, every agent of the
\* catalog passed it, and the app object and its roles are made from that catalog.
THEOREM CompositionInvariance == CompositionSpec => []CompositionInv
BY CompositionStarts, CompositionNextInv, PTL DEF CompositionSpec

\* Within one process a direct run and a composition work with the same tools.
THEOREM OneInventoryAlways == CompositionSpec => []OneInventoryPerProcess
<1>1. CompositionInv => OneInventoryPerProcess
  BY DEF CompositionInv, ReadInv, Kept, OneInventoryPerProcess
<1> QED BY <1>1, CompositionInvariance, PTL

-----------------------------------------------------------------------------
(* What the composition promises. *)

\* An agent of the catalog is one that was read and passed pass 1b.
LEMMA CatalogEntry ==
    ASSUME CompositionInv, NEW s \in DOMAIN catalog
    PROVE  \E k \in DOMAIN specs : \E r :
             /\ r = Resolved[k] /\ s = r.slug /\ ~Rejected(r) /\ catalog[s].resolved = r
             /\ catalog[s].user = UserTools(r) /\ catalog[s].targets = PlanTargets(r)
             /\ catalog[s].servers = Servers(r)
<1>1. PICK k \in DOMAIN specs :
        s = Resolved[k].slug /\ catalog[s] = Capabilities(Resolved[k]) /\ ~Rejected(Resolved[k])
  BY DEF CompositionInv, CatalogInv, Entered
<1> QED BY <1>1 DEF Capabilities

\* The first declaration of a name that can be run is the one a plan runs.
LEMMA FirstDeclaration ==
    ASSUME NEW S, found.targets \in Seq(S), NEW n \in DOMAIN Handlers
    PROVE  Handlers[n] \in Range(found.targets) /\ Runs(n, Handlers[n])
<1> DEFINE Declared == {k \in DOMAIN found.targets : Declares(k, n)}
<1>1. Declared \in SUBSET Nat /\ DOMAIN found.targets = 1 .. Len(found.targets)
  OBVIOUS
<1>2. Declared # {}
  BY DEF Handlers, Range, Declares
<1>3. PICK k \in Declared : \A j \in Declared : ~(j < k)
  BY <1>1, <1>2, LeastNumber
<1>4. k \in DOMAIN found.targets /\ Declares(k, n) /\ \A j \in 1 .. (k - 1) : ~Declares(j, n)
  BY <1>1, <1>3
<1>5. /\ FirstOf(n) \in DOMAIN found.targets /\ Declares(FirstOf(n), n)
      /\ \A j \in 1 .. (FirstOf(n) - 1) : ~Declares(j, n)
  BY <1>4 DEF FirstOf
<1>6. Handlers[n] = found.targets[FirstOf(n)]
  BY DEF Handlers
<1> QED BY <1>5, <1>6 DEF Runs, Declares, Range

\* References that were resolved when pass 1b began are agents of the catalog.
LEMMA ReferencesResolve ==
    ASSUME CompositionInv, pc \in {"registration", "served"}, NEW k \in DOMAIN specs
    PROVE  /\ Range(Resolved[k].subs) \subseteq DOMAIN catalog
           /\ Range(Resolved[k].wfSubs) \subseteq DOMAIN catalog
<1>1. ~BadReferences(Resolved[k], Resolved[k].subs) /\ ~BadReferences(Resolved[k], Resolved[k].wfSubs)
  BY DEF CompositionInv, CatalogInv, Validated
<1>2. DOMAIN catalog = KnownSlugs
  BY DEF CompositionInv, AppInv
<1> QED BY <1>1, <1>2 DEF BadReferences, Range

\* Whatever the files, an app object grants its agents only what exists: every agent read
\* is in its catalog, every delegate and plan target resolves, and the code behind an
\* allowed target is public and not excluded for the agent.
THEOREM GrantsAlwaysResolve == CompositionSpec => []GrantsResolve
<1>1. CompositionInv => GrantsResolve
  <2> SUFFICES ASSUME CompositionInv, app # NoApp PROVE GrantsResolve
    BY DEF GrantsResolve
  <2>1. pc \in {"registration", "served"} /\ DOMAIN catalog = KnownSlugs /\ app.policies = Policies
    BY DEF CompositionInv, AppInv
  <2>2. \E S : found.targets \in Seq(S)
    <3>1. found.targets = cache.tools.targets /\ cache.tools # Unread
      BY <2>1 DEF CompositionInv, ReadInv, Kept, Validated
    <3>2. PICK t \in ToolDirs : cache.tools = Scan(t)
      BY <3>1 DEF CompositionInv, FilesInv
    <3> QED BY <3>1, <3>2, ScannedTargets
  <2>3. ASSUME NEW s \in DOMAIN catalog
        PROVE  Range(catalog[s].resolved.subs) \subseteq DOMAIN catalog
    BY <2>1, CatalogEntry, ReferencesResolve
  <2>4. ASSUME NEW s \in DOMAIN app.policies
        PROVE  /\ app.policies[s].subs \subseteq DOMAIN catalog
               /\ \A n \in app.policies[s].tools :
                    /\ n \notin catalog[s].resolved.wfHides
                    /\ \E t \in Range(found.targets) : Runs(n, t) /\ t.public
    <3>1. s \in DOMAIN catalog /\ app.policies[s] = Policy(catalog[s])
      BY <2>1 DEF Policies, WorkflowAgents
    <3>2. PICK k \in DOMAIN specs :
            catalog[s].resolved = Resolved[k] /\ catalog[s].targets = PlanTargets(Resolved[k])
      BY <3>1, CatalogEntry
    <3>3. app.policies[s].subs = Range(Resolved[k].wfSubs)
          /\ app.policies[s].tools = Allowed(catalog[s])
      BY <3>1, <3>2 DEF Policy
    <3>4. ASSUME NEW n \in Allowed(catalog[s])
          PROVE  /\ n \notin Resolved[k].wfHides
                 /\ n \in DOMAIN Handlers /\ Handlers[n].public
      BY <3>2 DEF Allowed, PlanTargets
    <3>5. ASSUME NEW n \in Allowed(catalog[s])
          PROVE  \E t \in Range(found.targets) : Runs(n, t) /\ t.public
      BY <2>2, <3>4, FirstDeclaration
    <3> QED BY <2>1, <3>2, <3>3, <3>4, <3>5, ReferencesResolve
  <2> QED BY <2>1, <2>3, <2>4 DEF GrantsResolve
<1> QED BY <1>1, CompositionInvariance, PTL

\* A name of the runtime in the tools of a served agent's role names one tool.
LEMMA RoleNamesAreUnique ==
    ASSUME CompositionInv, pc = "served", NEW s \in DOMAIN catalog,
           DirectRole(catalog[s].resolved) \/ Bindable(s)
    PROVE  /\ RuntimeTools(s) \cap (AuthoredTools(s) \cup DelegateNames(s)) = {}
           /\ DelegateNames(s) \cap (AuthoredTools(s) \cup catalog[s].servers
                                   \cup WebTools(catalog[s].resolved)) = {}
<1>1. PICK k, r :
        /\ k \in DOMAIN specs /\ r = Resolved[k] /\ s = r.slug /\ ~Rejected(r) /\ catalog[s].resolved = r
        /\ catalog[s].user = UserTools(r) /\ catalog[s].servers = Servers(r)
  BY CatalogEntry
<1>2. ~DelegatesCollide(r) /\ (DirectRole(r) => ~Collides(r, r.wf))
  BY <1>1 DEF Rejected
<1>3. RuntimeTools(s) \cap AuthoredTools(s) = {}
  <2>1. RuntimeTools(s) = SandboxTools(r) \cup (IF r.wf THEN ManagementTools ELSE {})
    BY <1>1 DEF RuntimeTools, WorkflowAgents
  <2>2. CASE DirectRole(r)
    BY <1>1, <1>2, <2>1, <2>2 DEF Collides, AuthoredTools
  <2>3. CASE Bindable(s)
    BY <1>1, <2>1, <2>3 DEF Bindable, Collides, AuthoredTools
  <2> QED BY <1>1, <2>2, <2>3
<1>4. RuntimeTools(s) \cap DelegateNames(s) = {}
  <2>1. Range(r.subs) \subseteq KnownSlugs
    BY <1>1, ReferencesResolve DEF CompositionInv, AppInv
  <2>2. KnownSlugs \subseteq DOMAIN DelegateTool
    <3>1. ASSUME NEW j \in DOMAIN specs PROVE Resolved[j].slug \in DOMAIN DelegateTool
      <4>1. "slug" \in DOMAIN specs[j] /\ specs[j].slug \in DOMAIN DelegateTool
        BY DEF CompositionInv, ReadInv
      <4>2. Resolve(specs[j]).slug = specs[j].slug
        BY <4>1 DEF Resolve
      <4> QED BY <4>1, <4>2 DEF Resolved
    <3> QED BY <3>1 DEF KnownSlugs, Range, Resolved
  <2>3. DelegateNames(s) \subseteq Range(DelegateTool)
    BY <1>1, <2>1, <2>2 DEF DelegateNames, Range
  <2>4. RuntimeTools(s) \subseteq ManagementTools \cup {SandboxTool}
    BY DEF RuntimeTools, SandboxTools
  <2> QED BY <2>3, <2>4, CompositionAssumption
<1>5. DelegateNames(s) \cap (AuthoredTools(s) \cup catalog[s].servers
                           \cup WebTools(catalog[s].resolved)) = {}
  <2>1. \A x \in Range(r.subs) : DelegateTool[x] \notin ExistingTools(r)
    BY <1>2 DEF DelegatesCollide, Range
  <2>2. AuthoredTools(s) \cup catalog[s].servers \cup WebTools(r) \subseteq ExistingTools(r)
    BY <1>1 DEF AuthoredTools, ExistingTools
  <2> QED BY <1>1, <2>1, <2>2 DEF DelegateNames
<1> QED BY <1>3, <1>4, <1>5

\* However many agents, in every role one of them is served in, what the runtime names is
\* never shadowed by an authored tool, a server or a delegate, nor a delegate by a tool.
THEOREM RuntimeNamesAlwaysUnique == CompositionSpec => []RuntimeNamesAreUnique
<1>1. CompositionInv => RuntimeNamesAreUnique
  <2> SUFFICES ASSUME CompositionInv, pc = "served", NEW s \in {f[1] : f \in app.functions} \cup bound
               PROVE  /\ RuntimeTools(s) \cap (AuthoredTools(s) \cup DelegateNames(s)) = {}
                      /\ DelegateNames(s) \cap (AuthoredTools(s) \cup catalog[s].servers
                                              \cup WebTools(catalog[s].resolved)) = {}
    BY DEF RuntimeNamesAreUnique
  <2>1. s \in DOMAIN catalog /\ (DirectRole(catalog[s].resolved) \/ Bindable(s))
    <3>1. CASE s \in bound
      BY <3>1 DEF CompositionInv, AppInv, Bindable
    <3>2. CASE s \in {f[1] : f \in app.functions}
      BY <3>2 DEF CompositionInv, AppInv
    <3> QED BY <3>1, <3>2
  <2> QED BY <2>1, RoleNamesAreUnique
<1> QED BY <1>1, CompositionInvariance, PTL
==============================================================================
