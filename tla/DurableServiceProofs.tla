------------------------ MODULE DurableServiceProofs ------------------------
(***************************************************************************)
(* What holds of the runtime's dealings with the Durable service, which    *)
(* runs at its own pace and delivers at least once: the admission of       *)
(* workflows, and the Activities of a wave with their retries.             *)
(***************************************************************************)
EXTENDS WorkflowAdmission, ActivityDelivery, FiniteSetTheorems, TLAPS

----------------------------------------------------------------------------
(***************************************************************************)
(* Admission. The overshoot of the active-workflow limit is bounded,       *)
(* whatever the number of callers, sessions and workflows. The invariant   *)
(* counts, beside a session's active workflows, the schedule calls its     *)
(* callers have sent and the service has not acted on: a caller sends one  *)
(* only when fewer than Limit are active, and then at most every other     *)
(* caller has one out.                                                     *)
(***************************************************************************)

Timely(s) == Active(s) \ late

Pending(s) ==
  {c \in CallersOf(s) : callers[c].phase = "scheduling" /\ callers[c].id \in underway}

CallerInv ==
  /\ \A i \in Instance : prefix[i] = None => status[i] = "not_found"
  /\ \A c \in Caller : callers[c].phase # "idle" => prefix[callers[c].id] = SessionOf[c]
  /\ \A c, d \in Caller :
       callers[c].phase # "idle" /\ callers[d].phase # "idle" /\ callers[c].id = callers[d].id
       => c = d
  /\ \A c \in Caller : callers[c].phase = "counting" =>
       callers[c].id \notin underway /\ status[callers[c].id] = "not_found"

Tally(s) ==
  Cardinality(Timely(s)) + Cardinality(Pending(s)) <= Limit + Cardinality(CallersOf(s)) - 1

CountInv ==
  \A s \in Session : /\ IsFiniteSet(Active(s))
                     /\ CallersOf(s) # {} => Tally(s)

IInv == TypeOK /\ CallerInv /\ CountInv

----------------------------------------------------------------------------
(* The sets that are counted are finite.                                   *)
LEMMA Finite ==
  ASSUME NEW s \in Session, IsFiniteSet(Active(s))
  PROVE  /\ IsFiniteSet(Timely(s)) /\ Cardinality(Timely(s)) \in Nat
         /\ Cardinality(Timely(s)) <= Cardinality(Active(s))
         /\ Cardinality(Active(s)) \in Nat
         /\ IsFiniteSet(CallersOf(s)) /\ Cardinality(CallersOf(s)) \in Nat
         /\ IsFiniteSet(Pending(s)) /\ Cardinality(Pending(s)) \in Nat
         /\ Cardinality(Pending(s)) <= Cardinality(CallersOf(s))
<1>1. Timely(s) \in SUBSET Active(s)
  BY DEF Timely
<1>2. CallersOf(s) \in SUBSET Caller /\ Pending(s) \in SUBSET CallersOf(s)
  BY DEF CallersOf, Pending
<1>3. IsFiniteSet(CallersOf(s))
  BY <1>2, FS_Subset, AdmissionAssumption DEF AdmissionAssumption
<1>4. IsFiniteSet(Timely(s)) /\ Cardinality(Timely(s)) <= Cardinality(Active(s))
  BY <1>1, FS_Subset
<1>5. IsFiniteSet(Pending(s)) /\ Cardinality(Pending(s)) <= Cardinality(CallersOf(s))
  BY <1>2, <1>3, FS_Subset
<1> QED
  BY <1>3, <1>4, <1>5, FS_CardinalityType

(* A step that adds nothing to what a session's tally counts keeps it.     *)
LEMMA TallyKept ==
  ASSUME NEW s \in Session, IsFiniteSet(Active(s)),
         CallersOf(s) # {} => Tally(s),
         Active(s)' \subseteq Active(s), Timely(s)' \subseteq Timely(s),
         Pending(s)' \subseteq Pending(s)
  PROVE  /\ IsFiniteSet(Active(s)')
         /\ CallersOf(s) # {} => Tally(s)'
<1>1. IsFiniteSet(Active(s)')
  BY FS_Subset
<1>2. IsFiniteSet(Timely(s)) /\ IsFiniteSet(Pending(s))
  BY Finite
<1>3. IsFiniteSet(Timely(s)') /\ Cardinality(Timely(s)') <= Cardinality(Timely(s))
  BY <1>2, FS_Subset
<1>4. IsFiniteSet(Pending(s)') /\ Cardinality(Pending(s)') <= Cardinality(Pending(s))
  BY <1>2, FS_Subset
<1>5. Cardinality(Timely(s)') \in Nat /\ Cardinality(Pending(s)') \in Nat
  BY <1>3, <1>4, FS_CardinalityType
<1>6. /\ Cardinality(Timely(s)) \in Nat /\ Cardinality(Pending(s)) \in Nat
      /\ Cardinality(CallersOf(s)) \in Nat
  BY Finite
<1>7. CallersOf(s)' = CallersOf(s)
  BY DEF CallersOf
<1>8. CallersOf(s) # {} => Tally(s)'
  BY <1>3, <1>4, <1>5, <1>6, <1>7, AdmissionAssumption DEF Tally, AdmissionAssumption
<1> QED
  BY <1>1, <1>8

(* The same for every session at once.                                     *)
LEMMA CountKept ==
  ASSUME CountInv,
         \A s \in Session : /\ Active(s)' \subseteq Active(s)
                            /\ Timely(s)' \subseteq Timely(s)
                            /\ Pending(s)' \subseteq Pending(s)
  PROVE  CountInv'
<1> SUFFICES ASSUME NEW s \in Session
             PROVE  IsFiniteSet(Active(s)') /\ (CallersOf(s)' # {} => Tally(s)')
  BY DEF CountInv
<1>1. IsFiniteSet(Active(s)) /\ (CallersOf(s) # {} => Tally(s))
  BY DEF CountInv
<1>2. CallersOf(s)' = CallersOf(s)
  BY DEF CallersOf
<1> QED
  BY <1>1, <1>2, TallyKept

----------------------------------------------------------------------------
(* The initial state satisfies the inductive invariant.                    *)
LEMMA InitInv == Init => IInv
<1> SUFFICES ASSUME Init PROVE IInv
  OBVIOUS
<1> USE AdmissionAssumption DEF AdmissionAssumption
<1>1. TypeOK
  BY DEF Init, TypeOK, Idle
<1>2. CallerInv
  BY DEF Init, CallerInv, Idle
<1>3. ASSUME NEW s \in Session PROVE Active(s) = {} /\ Timely(s) = {} /\ Pending(s) = {}
  BY DEF Init, Active, Timely, Pending, Idle
<1>4. ASSUME NEW s \in Session, CallersOf(s) # {}
      PROVE  Tally(s)
  <2>1. IsFiniteSet(Active(s)) /\ Cardinality({}) = 0
    BY <1>3, FS_EmptySet
  <2>2. Cardinality(CallersOf(s)) \in Nat /\ Cardinality(CallersOf(s)) # 0
    BY <2>1, <1>4, Finite, FS_EmptySet
  <2> QED
    BY <2>1, <2>2, <1>3 DEF Tally
<1> QED
  BY <1>1, <1>2, <1>3, <1>4, FS_EmptySet DEF IInv, CountInv

(* A schedule call that goes out preserves the invariant.                  *)
LEMMA RequestStartInv ==
  ASSUME IInv, NEW c \in Caller, RequestStart(c)
  PROVE  IInv'
<1> USE AdmissionAssumption DEF AdmissionAssumption
<1> PICK i \in Instance :
      /\ prefix[i] = None
      /\ prefix' = [prefix EXCEPT ![i] = SessionOf[c]]
      /\ callers' = [callers EXCEPT ![c] = [phase |-> "counting", id |-> i]]
  BY DEF RequestStart
<1>1. TypeOK /\ CallerInv /\ CountInv
  BY DEF IInv
<1>2. callers[c] = Idle /\ UNCHANGED <<status, underway, cancels, late>>
  BY DEF RequestStart
<1>3. i \notin underway /\ status[i] = status'[i]
  BY <1>1, <1>2 DEF TypeOK
<1>4. \A d \in Caller : callers[d].phase # "idle" => callers[d].id # i
  BY <1>1 DEF CallerInv, TypeOK
<1>5. TypeOK'
  BY <1>1, <1>2 DEF TypeOK
<1>6. CallerInv'
  BY <1>1, <1>2, <1>3, <1>4 DEF CallerInv, TypeOK, Idle
<1>7. \A s \in Session : /\ Active(s)' = Active(s)
                         /\ Timely(s)' = Timely(s)
                         /\ Pending(s)' = Pending(s)
  <2> TAKE s \in Session
  <2>1. status[i] = "not_found"
    BY <1>1 DEF CallerInv
  <2>2. Active(s)' = Active(s)
    BY <1>1, <1>2, <2>1 DEF Active, TypeOK
  <2>3. Timely(s)' = Timely(s)
    BY <1>2, <2>2 DEF Timely
  <2>4. Pending(s)' = Pending(s)
    BY <1>1, <1>2 DEF Pending, CallersOf, TypeOK, Idle
  <2> QED
    BY <2>2, <2>3, <2>4
<1>8. CountInv'
  BY <1>1, <1>7, CountKept
<1> QED
  BY <1>5, <1>6, <1>8 DEF IInv

(* A start is only sent when fewer than Limit are active.                  *)
LEMMA CountedInv ==
  ASSUME IInv, NEW c \in Caller, Counted(c)
  PROVE  IInv'
<1> USE AdmissionAssumption DEF AdmissionAssumption
<1>1. TypeOK /\ CallerInv /\ CountInv
  BY DEF IInv
<1>2. /\ callers[c].phase = "counting" /\ ~Full(SessionOf[c])
      /\ underway' = underway \cup {callers[c].id}
      /\ callers' = [callers EXCEPT ![c].phase = "scheduling"]
      /\ UNCHANGED <<prefix, status, cancels, late>>
  BY DEF Counted
<1>3. callers[c].id \in Instance /\ prefix[callers[c].id] = SessionOf[c]
  BY <1>1, <1>2 DEF TypeOK, CallerInv
<1>4. status[callers[c].id] = "not_found"
  BY <1>1, <1>2 DEF CallerInv
<1>5. TypeOK'
  BY <1>1, <1>2, <1>3, <1>4 DEF TypeOK
<1>6. CallerInv'
  BY <1>1, <1>2, <1>4 DEF CallerInv, TypeOK
<1>7. ASSUME NEW s \in Session
      PROVE  IsFiniteSet(Active(s)') /\ (CallersOf(s)' # {} => Tally(s)')
  <2>1. Active(s)' = Active(s) /\ Timely(s)' = Timely(s) /\ CallersOf(s)' = CallersOf(s)
    BY <1>2 DEF Active, Timely, CallersOf
  <2>2. IsFiniteSet(Active(s)) /\ (CallersOf(s) # {} => Tally(s))
    BY <1>1 DEF CountInv
  <2>3. CASE s = SessionOf[c]
    <3>1. Cardinality(Active(s)) < Limit
      BY <1>2, <2>2, <2>3, Finite DEF Full
    <3>2. IsFiniteSet(Active(s)') /\ Cardinality(Pending(s)') <= Cardinality(CallersOf(s))
          /\ Cardinality(Pending(s)') \in Nat
      <4>1. Pending(s)' \in SUBSET CallersOf(s)
        BY DEF Pending, CallersOf
      <4> QED
        BY <2>1, <2>2, <4>1, Finite, FS_Subset, FS_CardinalityType
    <3>3. Tally(s)'
      BY <2>1, <2>2, <3>1, <3>2, Finite DEF Tally
    <3> QED
      BY <3>2, <3>3
  <2>4. CASE s # SessionOf[c]
    <3>1. Pending(s)' \subseteq Pending(s)
      <4> SUFFICES ASSUME NEW d \in Pending(s)' PROVE d \in Pending(s)
        OBVIOUS
      <4>1. d \in Caller /\ SessionOf[d] = s /\ d # c
        BY <2>4 DEF Pending, CallersOf
      <4>2. callers'[d] = callers[d]
        BY <1>1, <1>2, <4>1 DEF TypeOK
      <4>3. callers[d].phase = "scheduling" /\ callers[d].id \in underway'
        BY <4>2 DEF Pending
      <4>4. callers[d].id # callers[c].id
        BY <1>1, <1>2, <4>1, <4>3 DEF CallerInv
      <4> QED
        BY <1>2, <4>1, <4>3, <4>4 DEF Pending, CallersOf
    <3> QED
      BY <2>1, <2>2, <3>1, TallyKept
  <2> QED
    BY <2>3, <2>4
<1> QED
  BY <1>5, <1>6, <1>7 DEF IInv, CountInv

(* The caller's answer: refused, scheduled or failed.                      *)
LEMMA AnswerInv ==
  ASSUME IInv, NEW c \in Caller, Refused(c) \/ Scheduled(c) \/ ScheduleFails(c)
  PROVE  IInv'
<1> USE AdmissionAssumption DEF AdmissionAssumption
<1>1. TypeOK /\ CallerInv /\ CountInv
  BY DEF IInv
<1>2. /\ callers' = [callers EXCEPT ![c] = Idle]
      /\ underway' \subseteq underway
      /\ UNCHANGED <<prefix, status, cancels, late>>
  BY DEF Refused, Scheduled, ScheduleFails
<1>3. TypeOK'
  BY <1>1, <1>2 DEF TypeOK, Idle
<1>4. CallerInv'
  BY <1>1, <1>2 DEF CallerInv, TypeOK, Idle
<1>5. \A s \in Session : /\ Active(s)' = Active(s) /\ Timely(s)' = Timely(s)
                         /\ Pending(s)' \subseteq Pending(s)
  BY <1>1, <1>2 DEF Active, Timely, Pending, CallersOf, TypeOK, Idle
<1> QED
  BY <1>1, <1>3, <1>4, <1>5, CountKept DEF IInv

(* An instance appears: it was pending with its caller, or it is late.     *)
LEMMA CreateInv ==
  ASSUME IInv, NEW i \in Instance, Create(i)
  PROVE  IInv'
<1> USE AdmissionAssumption DEF AdmissionAssumption
<1>1. TypeOK /\ CallerInv /\ CountInv
  BY DEF IInv
<1>2. /\ i \in underway
      /\ underway' = underway \ {i}
      /\ status' = [status EXCEPT ![i] = "Running"]
      /\ UNCHANGED <<prefix, cancels, callers>>
      /\ late' = IF \E c \in Caller : callers[c].id = i THEN late ELSE late \cup {i}
  BY DEF Create
<1>3. prefix[i] # None
  BY <1>1, <1>2 DEF TypeOK
<1>4. TypeOK'
  BY <1>1, <1>2 DEF TypeOK
<1>5. CallerInv'
  BY <1>1, <1>2, <1>3 DEF CallerInv, TypeOK
<1>6. ASSUME NEW s \in Session
      PROVE  IsFiniteSet(Active(s)') /\ (CallersOf(s)' # {} => Tally(s)')
  <2>1. IsFiniteSet(Active(s)) /\ (CallersOf(s) # {} => Tally(s)) /\ CallersOf(s)' = CallersOf(s)
    BY <1>1 DEF CountInv, CallersOf
  <2>2. Active(s)' \subseteq Active(s) \cup {i}
    BY <1>1, <1>2 DEF Active, TypeOK
  <2>3. IsFiniteSet(Active(s)')
    BY <2>1, <2>2, FS_AddElement, FS_Subset
  <2>4. Pending(s)' \subseteq Pending(s)
    BY <1>2 DEF Pending, CallersOf
  <2>5. CASE \E c \in CallersOf(s) : callers[c].id = i
    <3> PICK c \in CallersOf(s) : callers[c].id = i
      BY <2>5
    <3>1. c \in Caller /\ c \in Pending(s) /\ c \notin Pending(s)'
      BY <1>1, <1>2 DEF Pending, CallersOf, CallerInv, TypeOK
    <3>2. Pending(s)' \subseteq Pending(s) \ {c}
      BY <2>4, <3>1
    <3>3. IsFiniteSet(Pending(s)) /\ IsFiniteSet(Timely(s))
      BY <2>1, Finite
    <3>4. /\ IsFiniteSet(Pending(s) \ {c})
          /\ Cardinality(Pending(s) \ {c}) = Cardinality(Pending(s)) - 1
      BY <3>1, <3>3, FS_RemoveElement
    <3>5. /\ Cardinality(Pending(s)') <= Cardinality(Pending(s)) - 1
          /\ IsFiniteSet(Pending(s)')
      BY <3>2, <3>4, FS_Subset
    <3>6. late' = late
      BY <1>2, <3>1
    <3>7. Timely(s)' \subseteq Timely(s) \cup {i}
      BY <2>2, <3>6 DEF Timely
    <3>8. /\ IsFiniteSet(Timely(s) \cup {i})
          /\ Cardinality(Timely(s) \cup {i}) <= Cardinality(Timely(s)) + 1
      <4>1. Cardinality(Timely(s)) \in Nat
        BY <2>1, Finite
      <4>2. IsFiniteSet(Timely(s) \cup {i})
            /\ Cardinality(Timely(s) \cup {i})
                 = IF i \in Timely(s) THEN Cardinality(Timely(s)) ELSE Cardinality(Timely(s)) + 1
        BY <3>3, FS_AddElement
      <4> QED
        BY <4>1, <4>2
    <3>9. /\ Cardinality(Timely(s)') <= Cardinality(Timely(s) \cup {i})
          /\ IsFiniteSet(Timely(s)')
      BY <3>7, <3>8, FS_Subset
    <3>10. Cardinality(Timely(s)') \in Nat /\ Cardinality(Pending(s)') \in Nat
           /\ Cardinality(Timely(s) \cup {i}) \in Nat
      BY <3>5, <3>8, <3>9, FS_CardinalityType
    <3>11. Tally(s)'
      BY <2>1, <3>5, <3>8, <3>9, <3>10, Finite DEF Tally
    <3> QED
      BY <2>3, <3>11
  <2>6. CASE ~\E c \in CallersOf(s) : callers[c].id = i
    <3>1. Timely(s)' \subseteq Timely(s)
      <4>1. CASE prefix[i] = s
        <5>1. ~\E c \in Caller : callers[c].id = i
          <6> SUFFICES ASSUME NEW c \in Caller, callers[c].id = i PROVE FALSE
            OBVIOUS
          <6>1. callers[c].phase # "idle"
            BY <1>1 DEF TypeOK
          <6>2. SessionOf[c] = s
            BY <1>1, <4>1, <6>1 DEF CallerInv
          <6> QED
            BY <2>6, <6>2 DEF CallersOf
        <5>2. late' = late \cup {i}
          BY <1>2, <5>1
        <5> QED
          BY <2>2, <5>2 DEF Timely
      <4>2. CASE prefix[i] # s
        <5>1. Active(s)' = Active(s) /\ late \subseteq late'
          BY <1>1, <1>2, <4>2 DEF Active, TypeOK
        <5> QED
          BY <5>1 DEF Timely
      <4> QED
        BY <4>1, <4>2
    <3>2. CallersOf(s) # {} => Tally(s)'
      <4>1. IsFiniteSet(Timely(s)) /\ IsFiniteSet(Pending(s))
        BY <2>1, Finite
      <4>2. /\ IsFiniteSet(Timely(s)') /\ Cardinality(Timely(s)') <= Cardinality(Timely(s))
            /\ IsFiniteSet(Pending(s)') /\ Cardinality(Pending(s)') <= Cardinality(Pending(s))
        BY <2>4, <3>1, <4>1, FS_Subset
      <4>3. Cardinality(Timely(s)') \in Nat /\ Cardinality(Pending(s)') \in Nat
        BY <4>2, FS_CardinalityType
      <4> QED
        BY <2>1, <4>2, <4>3, Finite DEF Tally
    <3> QED
      BY <2>1, <2>3, <3>2
  <2> QED
    BY <2>5, <2>6
<1> QED
  BY <1>4, <1>5, <1>6 DEF IInv, CountInv

(* A workflow ends or is asked to.                                         *)
LEMMA EndInv ==
  ASSUME IInv, NEW i \in Instance, Finish(i) \/ \E c \in Caller : Terminate(c, i) \/ Cancel(c, i)
  PROVE  IInv'
<1> USE AdmissionAssumption DEF AdmissionAssumption
<1>1. TypeOK /\ CallerInv /\ CountInv
  BY DEF IInv
<1>2. /\ status[i] = "Running" /\ cancels' \subseteq Instance
      /\ \E e \in Terminal \cup {"Running"} : status' = [status EXCEPT ![i] = e]
      /\ UNCHANGED <<prefix, underway, callers, late>>
  <2>1. CASE Finish(i)
    BY <1>1, <2>1 DEF Finish, TypeOK, Terminal
  <2>2. ASSUME NEW c \in Caller, Terminate(c, i) PROVE <1>2!:
    BY <1>1, <2>2 DEF Terminate, TypeOK, Terminal
  <2>3. ASSUME NEW c \in Caller, Cancel(c, i) PROVE <1>2!:
    <3>1. status' = [status EXCEPT ![i] = "Running"]
      BY <1>1, <2>3 DEF Cancel, TypeOK
    <3> QED
      BY <1>1, <2>3, <3>1 DEF Cancel, TypeOK
  <2> QED
    BY <2>1, <2>2, <2>3
<1>3. PICK e \in Terminal \cup {"Running"} : status' = [status EXCEPT ![i] = e]
  BY <1>2
<1>4. i \notin underway /\ prefix[i] # None
  BY <1>1, <1>2 DEF TypeOK, CallerInv
<1>5. TypeOK'
  BY <1>1, <1>2, <1>3, <1>4 DEF TypeOK
<1>6. CallerInv'
  BY <1>1, <1>2, <1>3, <1>4 DEF CallerInv, TypeOK
<1>7. \A s \in Session : /\ Active(s)' \subseteq Active(s) /\ Timely(s)' \subseteq Timely(s)
                         /\ Pending(s)' \subseteq Pending(s)
  <2> TAKE s \in Session
  <2>1. Active(s)' \subseteq Active(s)
    BY <1>1, <1>2, <1>3 DEF Active, TypeOK
  <2> QED
    BY <1>2, <2>1 DEF Timely, Pending, CallersOf
<1> QED
  BY <1>1, <1>5, <1>6, <1>7, CountKept DEF IInv

----------------------------------------------------------------------------
(* Every step, stuttering included, preserves the inductive invariant.     *)
LEMMA NextInv == IInv /\ [Next]_vars => IInv'
<1> SUFFICES ASSUME IInv, [Next]_vars PROVE IInv'
  OBVIOUS
<1>1. ASSUME NEW c \in Caller, RequestStart(c) PROVE IInv'
  BY <1>1, RequestStartInv
<1>2. ASSUME NEW c \in Caller, Counted(c) PROVE IInv'
  BY <1>2, CountedInv
<1>3. ASSUME NEW c \in Caller, Refused(c) \/ Scheduled(c) \/ ScheduleFails(c) PROVE IInv'
  BY <1>3, AnswerInv
<1>4. ASSUME NEW i \in Instance, Create(i) PROVE IInv'
  BY <1>4, CreateInv
<1>5. ASSUME NEW i \in Instance,
             Finish(i) \/ \E c \in Caller : Terminate(c, i) \/ Cancel(c, i)
      PROVE  IInv'
  BY <1>5, EndInv
<1>6. CASE UNCHANGED vars
  <2>1. TypeOK' /\ CallerInv'
    BY <1>6 DEF vars, IInv, TypeOK, CallerInv
  <2>2. CountInv'
    BY <1>6, CountKept DEF vars, IInv, Timely, Active, Pending, CallersOf
  <2> QED
    BY <2>1, <2>2 DEF IInv
<1> QED
  BY <1>1, <1>2, <1>3, <1>4, <1>5, <1>6 DEF Next

(* The invariant holds in every reachable state.                           *)
THEOREM Invariance == Spec => []IInv
BY InitInv, NextInv, PTL DEF Spec

(* The state always has its type.                                          *)
THEOREM TypeCorrect == Spec => []TypeOK
<1>1. IInv => TypeOK
  BY DEF IInv
<1> QED
  BY <1>1, Invariance, PTL

(* Racing starts overshoot the limit of a session by at most one workflow  *)
(* per further caller.                                                     *)
THEOREM OvershootIsBounded == Spec => []OvershootBounded
<1>1. IInv => OvershootBounded
  <2> SUFFICES ASSUME IInv, NEW s \in Session, CallersOf(s) # {}
               PROVE  Cardinality(Active(s) \ late) <= Limit + Cardinality(CallersOf(s)) - 1
    BY DEF OvershootBounded
  <2>1. IsFiniteSet(Active(s)) /\ Tally(s)
    BY DEF IInv, CountInv
  <2> QED
    BY <2>1, Finite, AdmissionAssumption DEF Tally, Timely, AdmissionAssumption
<1> QED
  BY <1>1, Invariance, PTL

----------------------------------------------------------------------------
(* The deliveries of a wave.                                               *)

(***************************************************************************)
(* The key of an instance is in the service exactly when its effect has    *)
(* taken place, and everything that counts on the effect has seen the key. *)
(***************************************************************************)
Reserved ==
  \A n \in Node :
    /\ effects[n] = IF n \in reserved THEN 1 ELSE 0
    /\ n \in called => n \in reserved
    /\ outcome[n] = "value" => n \in reserved

DeliveryInv == DeliveryTypeOK /\ Reserved /\ RetriesFaithful

(* The initial state satisfies the inductive invariant.                    *)
LEMMA DeliveryInitInv == DeliveryInit => DeliveryInv
<1>. SUFFICES ASSUME DeliveryInit PROVE DeliveryInv
  OBVIOUS
<1>1. DeliveryTypeOK
  BY DeliveryAssumption DEF DeliveryInit, DeliveryTypeOK
<1>2. Reserved
  BY DEF DeliveryInit, Reserved
<1>3. RetriesFaithful
  <2>1. blamed \notin Node /\ blamed # Unnamed
    BY DeliveryAssumption DEF DeliveryInit
  <2>. QED
    BY <2>1 DEF DeliveryInit, RetriesFaithful
<1>. QED  BY <1>1, <1>2, <1>3 DEF DeliveryInv

(* What Settle makes of an attempt's report, whoever reports it.           *)
LEMMA SettleFacts ==
  ASSUME DeliveryInv, NEW n \in Node, NEW kind \in Failure \cup {"value", "opaque"},
         run[n] # "over", Settle(n, kind),
         kind = "value" => n \in called,
         loose' = loose \/ loose' = loose \cup {<<n, attempt[n]>>}
  PROVE  DeliveryInv'
<1>. n \in Policy /\ n \notin Timer
  BY PlanAssumption, DeliveryAssumption
<1>1. DeliveryTypeOK'
  <2>1. CASE Raises(kind) /\ attempt[n] < Budget(n)
    <3>1. kind \in Delivery \ {"fired", "value"}
      BY <2>1 DEF Raises, Delivery, Failure
    <3>2. retried' \in [Node -> SUBSET (Delivery \ {"fired", "value"})]
      BY <2>1, <3>1 DEF DeliveryInv, DeliveryTypeOK, Settle
    <3>3. /\ attempt' \in [Node -> Nat]
          /\ \A m \in Node : attempt'[m] \in 1 .. Attempts[m] /\ attempt'[m] >= attempt[m]
      <4>1. attempt' = [attempt EXCEPT ![n] = attempt[n] + 1]
        BY <2>1 DEF Settle
      <4>2. \A m \in Node : attempt[m] \in Nat /\ Attempts[m] \in Nat
                             /\ 1 <= attempt[m] /\ attempt[m] <= Attempts[m]
        BY DeliveryAssumption DEF DeliveryInv, DeliveryTypeOK
      <4>3. \A m \in Node : attempt'[m] = IF m = n THEN attempt[m] + 1 ELSE attempt[m]
        BY <4>1 DEF DeliveryInv, DeliveryTypeOK
      <4>. QED  BY <2>1, <4>1, <4>2, <4>3 DEF DeliveryInv, DeliveryTypeOK, Budget
    <3>4. /\ loose' \subseteq Node \X Nat
          /\ \A r \in loose' : r[2] <= attempt'[r[1]]
      BY <3>3, DeliveryAssumption DEF DeliveryInv, DeliveryTypeOK
    <3>. QED
      BY <2>1, <3>2, <3>3, <3>4 DEF DeliveryInv, DeliveryTypeOK, Settle
  <2>2. CASE ~(Raises(kind) /\ attempt[n] < Budget(n))
    BY <2>2, DeliveryAssumption
       DEF DeliveryInv, DeliveryTypeOK, Settle, Budget, Delivery, Failure, ReturnedFailure,
           DeliveriesOf
  <2>. QED  BY <2>1, <2>2
<1>2. Reserved'
  BY DEF DeliveryInv, DeliveryTypeOK, Reserved, Settle
<1>3. RetriesFaithful'
  <2>1. CASE Raises(kind) /\ attempt[n] < Budget(n)
    BY <2>1, DeliveryAssumption
       DEF DeliveryInv, DeliveryTypeOK, RetriesFaithful, Settle, Raises, Budget
  <2>2. CASE ~(Raises(kind) /\ attempt[n] < Budget(n))
    BY <2>2, DeliveryAssumption
       DEF DeliveryInv, DeliveryTypeOK, RetriesFaithful, Settle, Raises, Budget
  <2>. QED  BY <2>1, <2>2
<1>. QED  BY <1>1, <1>2, <1>3 DEF DeliveryInv

(* Every step, stuttering included, preserves the inductive invariant.     *)
LEMMA DeliveryNextInv == DeliveryInv /\ [DeliveryNext]_deliveryVars => DeliveryInv'
<1>. SUFFICES ASSUME DeliveryInv, [DeliveryNext]_deliveryVars PROVE DeliveryInv'
  OBVIOUS
<1>1. ASSUME NEW n \in Node, Refuse(n) PROVE DeliveryInv'
  <2>1. PICK kind \in {"handler_contract", "authorization"} : Settle(n, kind) /\ Kept
    BY <1>1 DEF Refuse
  <2>. QED
    BY <1>1, <2>1, SettleFacts DEF Refuse, Kept, Failure, ReturnedFailure
<1>2. ASSUME NEW n \in Node, Invoke(n) PROVE DeliveryInv'
  BY <1>2 DEF DeliveryInv, DeliveryTypeOK, Reserved, RetriesFaithful, Invoke
<1>3. ASSUME NEW n \in Node, Call(n) PROVE DeliveryInv'
  BY <1>3 DEF DeliveryInv, DeliveryTypeOK, Reserved, RetriesFaithful, Call, Perform, Key
<1>4. ASSUME NEW n \in Node, HandlerEnds(n) PROVE DeliveryInv'
  <2>1. PICK kind \in Failure \cup {"value", "opaque"} :
          Settle(n, kind) /\ (kind = "value" => n \in called)
    BY <1>4 DEF HandlerEnds, Failure, ReturnedFailure
  <2>. QED
    BY <1>4, <2>1, SettleFacts DEF HandlerEnds, Kept
<1>5. ASSUME NEW n \in Node, TimesOut(n) PROVE DeliveryInv'
  BY <1>5, SettleFacts DEF TimesOut, LeftBehind, Failure
<1>6. ASSUME NEW n \in Node, Interrupt(n) PROVE DeliveryInv'
  BY <1>6, SettleFacts DEF Interrupt, LeftBehind, Kept
<1>7. ASSUME NEW n \in Node, Redeliver(n) PROVE DeliveryInv'
  BY <1>7 DEF DeliveryInv, DeliveryTypeOK, Reserved, RetriesFaithful, Redeliver, LeftBehind
<1>8. ASSUME NEW n \in Node, WaveRaises(n) PROVE DeliveryInv'
  <2>0. UNCHANGED <<attempt, run, called, loose, reserved, effects, retried, outcome>>
    BY <1>8 DEF WaveRaises
  <2>1. CASE outcome[n] = "handler_transient"
    <3>. DEFINE matches == {m \in Node : Decodes(m, [node |-> n, kind |-> outcome[n]])}
    <3>1. matches = {n}
      <4>1. \A m \in Node : Decodes(m, [node |-> n, kind |-> outcome[n]]) <=> m = n
        BY <2>1 DEF Decodes
      <4>. QED  BY <4>1
    <3>2. (CHOOSE m \in matches : \A k \in matches : m <= k) = n
      BY <3>1, PlanAssumption
    <3>3. blamed' = n
      BY <1>8, <3>1, <3>2 DEF WaveRaises
    <3>. QED
      <4>1. DeliveryTypeOK'
        BY <2>0, <3>3 DEF DeliveryInv, DeliveryTypeOK
      <4>2. Reserved'
        BY <2>0 DEF DeliveryInv, Reserved
      <4>3. RetriesFaithful'
        BY <2>0, <2>1, <3>3, DeliveryAssumption DEF DeliveryInv, RetriesFaithful
      <4>. QED  BY <4>1, <4>2, <4>3 DEF DeliveryInv
  <2>2. CASE outcome[n] # "handler_transient"
    <3>1. blamed' = Unnamed /\ outcome[n] = "opaque"
      BY <1>8, <2>2 DEF WaveRaises, Decodes, Raises
    <3>. QED
      BY <2>0, <3>1, DeliveryAssumption DEF DeliveryInv, DeliveryTypeOK, Reserved, RetriesFaithful
  <2>. QED  BY <2>1, <2>2
<1>9. ASSUME NEW r \in loose, LooseCall(r) PROVE DeliveryInv'
  <2>1. r[1] \in Node
    BY DEF DeliveryInv, DeliveryTypeOK
  <2>. QED
    BY <1>9, <2>1
       DEF DeliveryInv, DeliveryTypeOK, Reserved, RetriesFaithful, LooseCall, Perform, Key
<1>10. CASE UNCHANGED deliveryVars
  BY <1>10 DEF DeliveryInv, DeliveryTypeOK, Reserved, RetriesFaithful, deliveryVars
<1>. QED
  BY <1>1, <1>2, <1>3, <1>4, <1>5, <1>6, <1>7, <1>8, <1>9, <1>10 DEF DeliveryNext

(* The inductive invariant holds of every reachable state.                 *)
LEMMA DeliveryInvariance == DeliverySpec => []DeliveryInv
BY DeliveryInitInv, DeliveryNextInv, PTL DEF DeliverySpec

(* The state of a wave's deliveries stays within its types; in particular  *)
(* what comes out of an instance is what WaveOutcome lets it deliver.      *)
THEOREM DeliveryTypeCorrect == DeliverySpec => []DeliveryTypeOK
<1>1. DeliveryInv => DeliveryTypeOK  BY DEF DeliveryInv
<1>. QED  BY DeliveryInvariance, <1>1, PTL

(* A handler that reserves its idempotency key takes effect at most once,  *)
(* and once when it gives a value.                                         *)
THEOREM EffectAtMostOnce == DeliverySpec => []EffectOnce
<1>1. DeliveryInv => EffectOnce  BY DEF DeliveryInv, Reserved, EffectOnce
<1>. QED  BY DeliveryInvariance, <1>1, PTL

(* Terminal failures are not attempted again, transient ones use up their  *)
(* attempts, and the failure names the instance it came from.              *)
THEOREM RetriesAreFaithful == DeliverySpec => []RetriesFaithful
<1>1. DeliveryInv => RetriesFaithful  BY DEF DeliveryInv
<1>. QED  BY DeliveryInvariance, <1>1, PTL
=============================================================================
