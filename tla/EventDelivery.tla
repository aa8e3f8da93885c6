---------------------------- MODULE EventDelivery ----------------------------
(***************************************************************************)
(* What the outbox promises, without rows, workers, processes or retries:  *)
(* events are stored; the handlers of a stored event run in their order,   *)
(* any of them again; an event is acknowledged once, after all of them,    *)
(* and from then on none of them runs.                                     *)
(***************************************************************************)
EXTENDS Naturals

CONSTANTS Events,        \* domain events
          HandlerCount   \* handlers subscribed to an event

VARIABLES stored,        \* events that are to be delivered
          run,           \* run[e]: the handlers that have returned for e
          acknowledged   \* events that count as delivered

deliveryVars == <<stored, run, acknowledged>>

DeliveryInit ==
    /\ stored = {} /\ acknowledged = {}
    /\ run = [e \in Events |-> {}]

(* A transaction or a call of dispatchMany stores events.                  *)
Store(S) ==
    /\ stored' = stored \cup S
    /\ UNCHANGED <<run, acknowledged>>

RunHandler(e, h) ==
    /\ e \in stored \ acknowledged
    /\ 1..(h - 1) \subseteq run[e]
    /\ run' = [run EXCEPT ![e] = @ \cup {h}]
    /\ UNCHANGED <<stored, acknowledged>>

Acknowledge(e) ==
    /\ e \in stored \ acknowledged
    /\ run[e] = 1..HandlerCount
    /\ acknowledged' = acknowledged \cup {e}
    /\ UNCHANGED <<stored, run>>

DeliveryNext ==
    \/ \E S \in SUBSET Events : Store(S)
    \/ \E e \in Events :
          \/ Acknowledge(e)
          \/ \E h \in 1..HandlerCount : RunHandler(e, h)

DeliverySpec == DeliveryInit /\ [][DeliveryNext]_deliveryVars
=============================================================================
