--------------------------- MODULE ActivityDelivery ---------------------------
(***************************************************************************)
(* How one wave of Activities with a persisted retry policy is carried out *)
(* (workflows/activity.py, native_retry.py, the Activities of engine.py):  *)
(* at-least-once deliveries, attempt deadlines that leave work behind,     *)
(* native retries, and the failure that comes back. It yields what         *)
(* WaveOutcome takes for granted. Node is here the task instances of the   *)
(* wave; the order of their numbers is the engine's node order.            *)
(***************************************************************************)
EXTENDS WaveOutcome

CONSTANTS
  TaskOf,        (* the logical task of each instance                      *)
  Attempts,      (* durable_retry_policy.max_number_of_attempts            *)
  Deadline,      (* instances whose policy has a timeout_ms                *)
  NoFailure,     (* no failure yet                                         *)
  Unnamed        (* a failure that names no instance                       *)

ASSUME DeliveryAssumption ==
  /\ DOMAIN TaskOf = Node
  /\ Attempts \in [Node -> Nat \ {0}]
  /\ Deadline \subseteq Node /\ Node \subseteq Policy
  /\ NoFailure # Unnamed /\ {NoFailure, Unnamed} \cap Node = {}

VARIABLES
  attempt,     (* the attempts Durable has started                         *)
  run,         (* the delivery of the current attempt                      *)
  called,      (* whether its handler has reached its side effect          *)
  loose,       (* earlier handler runs that nobody waits for any more      *)
  reserved,    (* idempotency keys the effect's service has seen           *)
  effects,     (* times the side effect of an instance took place          *)
  retried,     (* history: the outcomes that were followed by an attempt   *)
  outcome,     (* what Durable hands to the orchestrator                   *)
  blamed       (* the instance named by the orchestration's failure        *)

deliveryVars == <<attempt, run, called, loose, reserved, effects, retried, outcome, blamed>>

DeliveryTypeOK ==
  /\ attempt \in [Node -> Nat]
  /\ \A n \in Node : attempt[n] \in 1 .. Attempts[n]
  /\ run \in [Node -> {"queued", "handling", "over"}]
  /\ called \subseteq {n \in Node : run[n] = "handling"}
  /\ loose \subseteq Node \X Nat
  /\ \A r \in loose : r[2] <= attempt[r[1]]
  /\ reserved \subseteq Node
  /\ effects \in [Node -> Nat]
  /\ retried \in [Node -> SUBSET (Delivery \ {"fired", "value"})]
  /\ outcome \in [Node -> Delivery \cup {"none"}]
  /\ \A n \in Node : outcome[n] \in DeliveriesOf(n) \cup {"none"}
  /\ \A n \in Node : outcome[n] = "none" <=> run[n] # "over"
  /\ blamed \in Node \cup {NoFailure, Unnamed}

(* _call_task_activity has dispatched the wave with the frozen policies.   *)
DeliveryInit ==
  /\ attempt = [n \in Node |-> 1]
  /\ run = [n \in Node |-> "queued"]
  /\ called = {}
  /\ loose = {}
  /\ reserved = {}
  /\ effects = [n \in Node |-> 0]
  /\ retried = [n \in Node |-> {}]
  /\ outcome = [n \in Node |-> "none"]
  /\ blamed = NoFailure

----------------------------------------------------------------------------
(* The runtime: what an attempt reports.                                   *)

KeyOfTask(n, k) == TaskOf[n]
(* workflow_task_idempotency_key: the instance, never the attempt.         *)
Key(n, k) == n

(* invoke_policy_handler raises what Durable is to retry and returns every *)
(* other outcome as an envelope.                                           *)
Raises(kind) == kind \in {"handler_transient", "opaque"}

(* create_durable_retry_policy: the number of attempts counts the first.   *)
Budget(n) == Attempts[n]

(* decode_durable_retry_failure, given the instance a versioned payload    *)
(* was written for.                                                        *)
DecodesAny(n, error) == error.kind = "handler_transient"
Decodes(n, error) == error.node = n /\ error.kind = "handler_transient"

----------------------------------------------------------------------------
(* Durable: an exception starts the next attempt while the policy allows   *)
(* one; what is returned, and the last exception, is the outcome.          *)
Settle(n, kind) ==
  /\ called' = called \ {n}
  /\ IF Raises(kind) /\ attempt[n] < Budget(n)
     THEN /\ attempt' = [attempt EXCEPT ![n] = @ + 1]
          /\ run' = [run EXCEPT ![n] = "queued"]
          /\ retried' = [retried EXCEPT ![n] = @ \cup {kind}]
          /\ UNCHANGED outcome
     ELSE /\ run' = [run EXCEPT ![n] = "over"]
          /\ outcome' = [outcome EXCEPT ![n] = kind]
          /\ UNCHANGED <<attempt, retried>>
  /\ UNCHANGED <<reserved, effects, blamed>>

Kept == UNCHANGED loose
LeftBehind(n) == loose' = loose \cup {<<n, attempt[n]>>}

(* Bad persisted input, a target the deployed policy does not allow, or an *)
(* unregistered tool: the handler is not called.                           *)
Refuse(n) ==
  /\ run[n] = "queued"
  /\ \E kind \in {"handler_contract", "authorization"} : Settle(n, kind) /\ Kept

Invoke(n) ==
  /\ run[n] = "queued"
  /\ run' = [run EXCEPT ![n] = "handling"]
  /\ UNCHANGED <<attempt, called, loose, reserved, effects, retried, outcome, blamed>>

(* The side effect, guarded by the key as the handler's contract asks.     *)
Perform(n, key) ==
  /\ reserved' = reserved \cup {key}
  /\ effects' = IF key \in reserved THEN effects ELSE [effects EXCEPT ![n] = @ + 1]

Call(n) ==
  /\ run[n] = "handling" /\ n \notin called
  /\ called' = called \cup {n}
  /\ Perform(n, Key(n, attempt[n]))
  /\ UNCHANGED <<attempt, run, loose, retried, outcome, blamed>>

(* The handler returns a value once it is through with its effect, or      *)
(* something that is not JSON, or raises before the effect or after it.    *)
HandlerEnds(n) ==
  /\ run[n] = "handling"
  /\ \/ n \in called /\ \E kind \in {"value", "handler_contract"} : Settle(n, kind)
     \/ \E kind \in {"handler_transient", "handler_terminal", "execution_unknown"} :
          Settle(n, kind)
  /\ Kept

(* asyncio.timeout cancels the wait, not a worker thread nor external work.*)
TimesOut(n) ==
  /\ run[n] = "handling" /\ n \in Deadline
  /\ Settle(n, "handler_transient")
  /\ LeftBehind(n)

(* The host or the worker gives the attempt up: Durable sees an exception  *)
(* of its own, or delivers the same attempt again.                         *)
Interrupt(n) ==
  /\ run[n] # "over"
  /\ Settle(n, "opaque")
  /\ IF run[n] = "handling" THEN LeftBehind(n) ELSE Kept

Redeliver(n) ==
  /\ run[n] = "handling"
  /\ run' = [run EXCEPT ![n] = "queued"]
  /\ called' = called \ {n}
  /\ LeftBehind(n)
  /\ UNCHANGED <<attempt, reserved, effects, retried, outcome, blamed>>

(* A run left behind still reaches its effect, or never does.              *)
LooseCall(r) ==
  /\ loose' = loose \ {r}
  /\ Perform(r[1], Key(r[1], r[2]))
  /\ UNCHANGED <<attempt, run, called, retried, outcome, blamed>>

(* _decode_wave_failure: the wave's first exception is matched to a node   *)
(* of it by the id in the payload.                                         *)
WaveRaises(n) ==
  /\ blamed = NoFailure
  /\ Raises(outcome[n])
  /\ LET error == [node |-> n, kind |-> outcome[n]]
         matches == {m \in Node : Decodes(m, error)}
     IN  blamed' = IF matches = {} THEN Unnamed
                   ELSE CHOOSE m \in matches : \A k \in matches : m <= k
  /\ UNCHANGED <<attempt, run, called, loose, reserved, effects, retried, outcome>>

DeliveryNext ==
  \/ \E n \in Node : \/ Refuse(n) \/ Invoke(n) \/ Call(n) \/ HandlerEnds(n)
                     \/ TimesOut(n) \/ Interrupt(n) \/ Redeliver(n) \/ WaveRaises(n)
  \/ \E r \in loose : LooseCall(r)

DeliverySpec == DeliveryInit /\ [][DeliveryNext]_deliveryVars

----------------------------------------------------------------------------
(* Properties                                                              *)

(* However often an instance is delivered, and whatever work of earlier    *)
(* attempts is still running, a handler that reserves its idempotency key  *)
(* takes effect at most once, and has taken effect when it gives a value:  *)
(* also next to another instance of the same for_each task.                *)
EffectOnce ==
  \A n \in Node : effects[n] <= 1 /\ (outcome[n] = "value" => effects[n] = 1)

(* Only transient and unclassified failures are attempted again, a         *)
(* transient failure comes out only when the attempts are used up, and the *)
(* orchestration's failure names the instance whose attempts they were.    *)
RetriesFaithful ==
  /\ \A n \in Node :
       /\ retried[n] \subseteq {"handler_transient", "opaque"}
       /\ outcome[n] = "handler_transient" => attempt[n] = Attempts[n]
  /\ blamed \in Node => outcome[blamed] = "handler_transient"
  /\ blamed = Unnamed => \E n \in Node : outcome[n] = "opaque"
=============================================================================
