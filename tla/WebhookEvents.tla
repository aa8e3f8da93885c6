--------------------------- MODULE WebhookEvents ---------------------------
(***************************************************************************)
(* The webhooks of a provider: the IntegrationWebhookEvent rows, and what  *)
(* becomes of them.  MoySklad's stock events are stored and drained by a   *)
(* delayed job with one id per integration; iiko's events are worked on    *)
(* inside the request that delivers them.  An event delivered twice finds  *)
(* its row (integrationId, requestId) and changes nothing.                 *)
(***************************************************************************)
EXTENDS Naturals, FiniteSets

CONSTANTS HookEvents,     \* request ids of deliveries
          DrainLimit,     \* events a drain takes (50 in the code)
          MaxDrainTries,  \* attempts of the drain job (3 in the code)
          HookFaultSets,  \* the environments a behaviour may start in
          MaxHookFaults   \* faults of a behaviour

ASSUME HookAssumption ==
    /\ IsFiniteSet(HookEvents)
    /\ DrainLimit \in Nat \ {0} /\ MaxDrainTries \in Nat \ {0}
    /\ MaxHookFaults \in Nat
    /\ \A F \in HookFaultSets : F \subseteq {"crash", "settings"}

VARIABLES hookProvider,  \* "IIKO" or "MOYSKLAD"
          hookFaults,    \* the faults of this behaviour
          hookEnabled,   \* "on", "inactive" or "feature_disabled"
          eventStatus,   \* status of each event, "none" before it exists
          receiving,     \* where the request that delivers an event is
          drainAt,       \* where the drain job is
          drainTries,    \* its attempts that ended with an error
          batch,         \* the events it found
          applied,       \* events whose report reached the local stock
          left,          \* pending events the last drain passed by
          hookBudget

hookVars == <<hookProvider, hookFaults, hookEnabled, eventStatus, receiving,
              drainAt, drainTries, batch, applied, left, hookBudget>>

Pending == {e \in HookEvents : eventStatus[e] = "PENDING"}

HookTypeOK ==
    /\ hookProvider \in {"IIKO", "MOYSKLAD"}
    /\ hookFaults \in HookFaultSets
    /\ hookEnabled \in {"on", "inactive", "feature_disabled"}
    /\ eventStatus \in [HookEvents -> {"none", "PENDING", "PROCESSING",
                                       "PROCESSED", "FAILED", "SKIPPED"}]
    /\ receiving \in [HookEvents -> {"no", "enqueue", "mark", "act", "settle",
                                     "skip", "fail"}]
    /\ drainAt \in {"absent", "waiting", "find", "mark", "sync", "settle", "fail", "kept"}
    /\ drainTries \in 0..MaxDrainTries - 1
    /\ batch \subseteq HookEvents /\ Cardinality(batch) <= DrainLimit
    /\ applied \subseteq HookEvents /\ left \subseteq HookEvents
    /\ hookBudget \in 0..MaxHookFaults

HookInit ==
    /\ hookProvider \in {"IIKO", "MOYSKLAD"}
    /\ hookFaults \in HookFaultSets
    /\ hookEnabled = "on"
    /\ eventStatus = [e \in HookEvents |-> "none"]
    /\ receiving = [e \in HookEvents |-> "no"]
    /\ drainAt = "absent" /\ drainTries = 0
    /\ batch = {} /\ applied = {} /\ left = {}
    /\ hookBudget = MaxHookFaults

HookFault(kind) ==
    /\ kind \in hookFaults /\ hookBudget > 0
    /\ hookBudget' = hookBudget - 1

hookSetting == <<hookProvider, hookFaults, hookEnabled>>
drain == <<drainAt, drainTries, batch>>

(* markWebhookEvent...: an update of the rows whose status is one of from. *)
MarkWebhookEvents(E, from, to) ==
    eventStatus' = [e \in HookEvents |->
                      IF e \in E /\ eventStatus[e] \in from THEN to ELSE eventStatus[e]]

Open == {"PENDING", "PROCESSING"}
-----------------------------------------------------------------------------
(* receiveMoySkladStockWebhook and receiveIikoWebhook up to                *)
(* createWebhookEventIfNew: a disabled integration drops the delivery.     *)
ReceiveWebhook(e) ==
    /\ eventStatus[e] = "none" /\ hookEnabled = "on"
    /\ eventStatus' = [eventStatus EXCEPT ![e] = "PENDING"]
    /\ receiving' = [receiving EXCEPT
                       ![e] = IF hookProvider = "IIKO" THEN "mark" ELSE "enqueue"]
    /\ UNCHANGED <<hookSetting, drain, applied, left, hookBudget>>

(* enqueueStockWebhookDrain: the add is ignored when the job exists.  An   *)
(* event that comes after the job has read its batch is left behind, and   *)
(* so is one whose integration lost the feature meanwhile.                 *)
EnqueueStockWebhookDrain(e) ==
    /\ receiving[e] = "enqueue"
    /\ receiving' = [receiving EXCEPT ![e] = "no"]
    /\ \/ /\ hookEnabled # "feature_disabled" /\ drainAt = "absent"
          /\ drainAt' = "waiting" /\ drainTries' = 0
          /\ UNCHANGED <<batch, left>>
       \/ /\ hookEnabled # "feature_disabled" /\ drainAt # "absent"
          /\ left' = IF drainAt \in {"waiting", "find"} THEN left
                     ELSE left \cup ({e} \cap Pending)
          /\ UNCHANGED drain
       \/ /\ hookEnabled = "feature_disabled"
          /\ left' = left \cup ({e} \cap Pending)
          /\ UNCHANGED drain
    /\ UNCHANGED <<hookSetting, eventStatus, applied, hookBudget>>

EndDrain == drainAt' = "absent" /\ drainTries' = 0 /\ batch' = {}

(* The start of the job: the feature, and the integration's state, which   *)
(* turns what is pending into SKIPPED.                                     *)
StartDrain ==
    /\ drainAt = "waiting"
    /\ \/ /\ hookEnabled = "on"
          /\ drainAt' = "find" /\ UNCHANGED <<drainTries, batch, eventStatus, left>>
       \/ /\ hookEnabled = "inactive"
          /\ \E E \in SUBSET Pending :
                /\ Cardinality(E) = IF Cardinality(Pending) > DrainLimit
                                    THEN DrainLimit ELSE Cardinality(Pending)
                /\ MarkWebhookEvents(E, Open, "SKIPPED")
                /\ left' = left \cup (Pending \ E)
          /\ EndDrain
       \/ /\ hookEnabled = "feature_disabled"
          /\ left' = left \cup Pending
          /\ EndDrain /\ UNCHANGED eventStatus
    /\ UNCHANGED <<hookSetting, receiving, applied, hookBudget>>

(* findPendingWebhookEvents takes at most DrainLimit events; which of them *)
(* are the oldest is not modelled.                                         *)
FindPendingWebhookEvents ==
    /\ drainAt = "find"
    /\ \/ /\ Pending = {}
          /\ EndDrain /\ UNCHANGED left
       \/ /\ Pending # {}
          /\ \E E \in SUBSET Pending :
                /\ Cardinality(E) = IF Cardinality(Pending) > DrainLimit
                                    THEN DrainLimit ELSE Cardinality(Pending)
                /\ batch' = E
                /\ left' = (left \ E) \cup (Pending \ E)
          /\ drainAt' = "mark" /\ UNCHANGED drainTries
    /\ UNCHANGED <<hookSetting, eventStatus, receiving, applied, hookBudget>>

MarkWebhookEventsProcessing ==
    /\ drainAt = "mark"
    /\ MarkWebhookEvents(batch, {"PENDING"}, "PROCESSING")
    /\ drainAt' = "sync"
    /\ UNCHANGED <<hookSetting, receiving, drainTries, batch, applied, left, hookBudget>>

(* syncWebhookStock and completeStockSync: the reports are applied, or the *)
(* lock, the provider or the completion fails, before or after that.       *)
SyncWebhookStock ==
    /\ drainAt = "sync"
    /\ \/ applied' = applied \cup batch /\ drainAt' \in {"settle", "fail"}
       \/ drainAt' = "fail" /\ UNCHANGED applied
    /\ UNCHANGED <<hookSetting, eventStatus, receiving, drainTries, batch, left, hookBudget>>

\* Mutant: the update names the integration and not the events.
MarkAllDrained ==
    /\ drainAt = "settle"
    /\ MarkWebhookEvents(HookEvents, Open, "PROCESSED")
    /\ EndDrain
    /\ UNCHANGED <<hookSetting, receiving, applied, left, hookBudget>>

MarkDrained ==
    /\ drainAt = "settle"
    /\ MarkWebhookEvents(batch, Open, "PROCESSED")
    /\ EndDrain
    /\ UNCHANGED <<hookSetting, receiving, applied, left, hookBudget>>

\* Mutant: the events of a failed drain keep their status.
MarkDrainFailedOnly ==
    /\ drainAt = "fail"
    /\ \/ /\ drainTries + 1 < MaxDrainTries
          /\ drainAt' = "waiting" /\ drainTries' = drainTries + 1 /\ batch' = {}
       \/ /\ drainTries + 1 = MaxDrainTries
          /\ drainAt' = "kept" /\ drainTries' = 0 /\ batch' = {}
    /\ UNCHANGED <<hookSetting, eventStatus, receiving, applied, left, hookBudget>>

(* The job throws and BullMQ runs it again, with what is pending then.     *)
(* After its last attempt the failed job is kept for a day under its id.   *)
MarkDrainFailed ==
    /\ drainAt = "fail"
    /\ MarkWebhookEvents(batch, Open, "FAILED")
    /\ \/ /\ drainTries + 1 < MaxDrainTries
          /\ drainAt' = "waiting" /\ drainTries' = drainTries + 1 /\ batch' = {}
       \/ /\ drainTries + 1 = MaxDrainTries
          /\ drainAt' = "kept" /\ drainTries' = 0 /\ batch' = {}
    /\ UNCHANGED <<hookSetting, receiving, applied, left, hookBudget>>

RemoveFailedDrain ==
    /\ drainAt = "kept"
    /\ drainAt' = "absent"
    /\ UNCHANGED <<hookSetting, eventStatus, receiving, drainTries, batch, applied,
                   left, hookBudget>>
-----------------------------------------------------------------------------
(* processIikoWebhookEvent, inside the request.                            *)
MarkIikoProcessing(e) ==
    /\ receiving[e] = "mark"
    /\ MarkWebhookEvents({e}, {"PENDING"}, "PROCESSING")
    /\ receiving' = [receiving EXCEPT ![e] = "act"]
    /\ UNCHANGED <<hookSetting, drain, applied, left, hookBudget>>

(* A synchronisation is queued, or dropped because one is active; the      *)
(* order's export is updated; the type of the event asks for nothing; or   *)
(* one of these fails.                                                     *)
ActOnIikoEvent(e) ==
    /\ receiving[e] = "act"
    /\ \/ applied' = applied \cup {e} /\ receiving' = [receiving EXCEPT ![e] = "settle"]
       \/ /\ \E place \in {"settle", "skip", "fail"} :
                receiving' = [receiving EXCEPT ![e] = place]
          /\ UNCHANGED applied
    /\ UNCHANGED <<hookSetting, eventStatus, drain, left, hookBudget>>

SettleIikoEvent(e) ==
    /\ receiving[e] \in {"settle", "skip", "fail"}
    /\ MarkWebhookEvents({e}, Open, CASE receiving[e] = "settle" -> "PROCESSED"
                                      [] receiving[e] = "skip" -> "SKIPPED"
                                      [] OTHER -> "FAILED")
    /\ receiving' = [receiving EXCEPT ![e] = "no"]
    /\ UNCHANGED <<hookSetting, drain, applied, left, hookBudget>>

(* retryIikoWebhookEvent up to resetWebhookEventForRetry.                  *)
RetryIikoWebhookEvent(e) ==
    /\ hookProvider = "IIKO" /\ hookEnabled = "on"
    /\ receiving[e] = "no"
    /\ eventStatus[e] \in {"FAILED", "SKIPPED"}
    /\ eventStatus' = [eventStatus EXCEPT ![e] = "PENDING"]
    /\ receiving' = [receiving EXCEPT ![e] = "mark"]
    /\ UNCHANGED <<hookSetting, drain, applied, left, hookBudget>>
-----------------------------------------------------------------------------
(* The process of a request, or of the drain, dies.  BullMQ runs a stalled *)
(* drain again.                                                            *)
ReceiverDies(e) ==
    /\ receiving[e] # "no"
    /\ HookFault("crash")
    /\ receiving' = [receiving EXCEPT ![e] = "no"]
    /\ UNCHANGED <<hookSetting, eventStatus, drain, applied, left>>

DrainDies ==
    /\ drainAt \notin {"absent", "waiting", "kept"}
    /\ HookFault("crash")
    /\ drainAt' = "waiting" /\ batch' = {} /\ UNCHANGED drainTries
    /\ applied' \in {applied} \cup (IF drainAt = "sync" THEN {applied \cup batch} ELSE {})
    /\ UNCHANGED <<hookSetting, eventStatus, receiving, left>>

ChangeHookEnabled(value) ==
    /\ HookFault("settings")
    /\ hookEnabled # value
    /\ hookEnabled' = value
    /\ UNCHANGED <<hookProvider, hookFaults, eventStatus, receiving, drain, applied, left>>

ReceiverStep(e) ==
    \/ EnqueueStockWebhookDrain(e) \/ MarkIikoProcessing(e) \/ ActOnIikoEvent(e)
    \/ SettleIikoEvent(e)

DrainStep ==
    \/ StartDrain \/ FindPendingWebhookEvents \/ MarkWebhookEventsProcessing
    \/ SyncWebhookStock \/ MarkDrained \/ MarkDrainFailed \/ RemoveFailedDrain

HookNext ==
    \/ \E e \in HookEvents :
          \/ ReceiveWebhook(e) \/ ReceiverStep(e) \/ RetryIikoWebhookEvent(e)
          \/ ReceiverDies(e)
    \/ DrainStep \/ DrainDies
    \/ \E value \in {"on", "inactive", "feature_disabled"} : ChangeHookEnabled(value)

(* Requests that have begun and the drain job go on.                       *)
HookFairness ==
    /\ \A e \in HookEvents : WF_hookVars(ReceiverStep(e))
    /\ WF_hookVars(DrainStep)

HookSpec == HookInit /\ [][HookNext]_hookVars /\ HookFairness
-----------------------------------------------------------------------------
(* Properties.                                                             *)

(* A stock event of MoySklad is PROCESSED only when its report was         *)
(* applied, also when a drain died half way and another one took over.     *)
ProcessedMeansApplied ==
    hookProvider = "MOYSKLAD" =>
        \A e \in HookEvents : eventStatus[e] = "PROCESSED" => e \in applied

(* Without crashes no stored event stays open for ever.  The events a drain*)
(* passes by (they came after it read its batch or while its failed job    *)
(* was kept, they were more than its limit, or the feature was off) wait   *)
(* for the next webhook.                                                   *)
EventsSettle ==
    \A e \in HookEvents :
        []<>(eventStatus[e] \in Open /\ "crash" \notin hookFaults => e \in left)
=============================================================================
