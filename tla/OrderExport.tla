---------------------------- MODULE OrderExport ----------------------------
(***************************************************************************)
(* The export of one completed order to one integration (iiko or           *)
(* MoySklad): the IntegrationOrderExport row, the BullMQ jobs that work on *)
(* it, the five-minute reconciliation, the manager's manual retry, and the *)
(* document in the provider's system.  Rows of different orders share      *)
(* nothing but the settings of the integration, so one row is modelled.    *)
(*                                                                         *)
(* A job is at one of the awaits of processJob; every await is a step, so  *)
(* several jobs of the same row interleave as they do in several processes.*)
(***************************************************************************)
EXTENDS Naturals, FiniteSets

CONSTANTS Copies,          \* jobs with a fresh id that exist at once, per trigger
          MaxTries,        \* BullMQ attempts of a job (5 in the code)
          ExportSetups,    \* providers, their faults and the worker processes
          MaxExportFaults, \* crashes, database errors and provider errors
          MaxToggles       \* changes of the integration's settings

ASSUME ExportAssumption ==
    /\ MaxTries \in Nat \ {0} /\ MaxExportFaults \in Nat /\ MaxToggles \in Nat
    /\ ExportSetups \subseteq
         [provider : {"IIKO", "MOYSKLAD"},
          faults : SUBSET {"crash", "provider", "database", "slow", "toggle", "webhook", "late"},
          workers : Nat \ {0}]

VARIABLES provider,      \* "IIKO" or "MOYSKLAD"
          exportFaults,  \* the faults of this behaviour
          workers,       \* worker processes; each takes one job at a time
          row,           \* status of the row, "none" before it exists
          stale,         \* the row is RUNNING since before the stale cutoff
          adding,        \* triggers whose queue.add is still to come
          at,            \* where each job is
          tries,         \* attempts of each job that ended with an error
          documents,     \* documents of this order the provider holds
          onTheWay,      \* requests nobody waits for that may still make one
          settings,      \* the feature, the integration's flag and exportOrders
          readExports,   \* exportOrders as the reconciliation read it with the row
          toggles, exportBudget

exportVars == <<provider, exportFaults, workers, row, stale, adding, at,
                tries, documents, onTheWay, settings, readExports, toggles,
                exportBudget>>

Triggers == {"ORDER_COMPLETED", "MANUAL_RETRY", "RECONCILIATION"}

(* A job of ORDER_COMPLETED has an id fixed by integration and order, so   *)
(* BullMQ ignores a second add; the others carry Date.now() in their id.   *)
JobIds == {<<"ORDER_COMPLETED", 1>>}
              \cup ({"MANUAL_RETRY", "RECONCILIATION"} \X Copies)

Sending == {"order", "lookup", "create", "poll", "success", "error", "refused"}
Working == {"read", "skip", "claim"} \cup Sending
Places == {"absent", "waiting", "ended"} \cup Working

(* Where a job that is over goes: BullMQ keeps it for a day, which only     *)
(* matters for the id that is used again.                                  *)
Over(j) == IF j[1] = "ORDER_COMPLETED" THEN "ended" ELSE "absent"

(* The jobs that may be in exportOrder, or after it and before the row     *)
(* says how it ended.                                                      *)
Senders == {j \in JobIds : at[j] \in Sending}

Settings == [feature : BOOLEAN, active : BOOLEAN, exportOrders : BOOLEAN]
AllOn == [feature |-> TRUE, active |-> TRUE, exportOrders |-> TRUE]

ExportSetup == [provider |-> provider, faults |-> exportFaults, workers |-> workers]

ExportTypeOK ==
    /\ ExportSetup \in ExportSetups
    /\ row \in {"none", "PENDING", "RUNNING", "SUCCESS", "ERROR", "SKIPPED"}
    /\ stale \in BOOLEAN
    /\ adding \subseteq Triggers
    /\ at \in [JobIds -> Places]
    /\ tries \in [JobIds -> 0..MaxTries - 1]
    /\ documents \in Nat /\ onTheWay \in Nat
    /\ settings \in Settings /\ readExports \in BOOLEAN
    /\ toggles \in 0..MaxToggles
    /\ exportBudget \in 0..MaxExportFaults

ExportInit ==
    /\ \E s \in ExportSetups :
          provider = s.provider /\ exportFaults = s.faults /\ workers = s.workers
    /\ row = "none" /\ stale = FALSE /\ adding = {}
    /\ at = [j \in JobIds |-> "absent"]
    /\ tries = [j \in JobIds |-> 0]
    /\ documents = 0 /\ onTheWay = 0
    /\ settings = AllOn /\ readExports = TRUE
    /\ toggles = 0 /\ exportBudget = MaxExportFaults

Goto(j, place) == at' = [at EXCEPT ![j] = place] /\ UNCHANGED tries
End(j) == /\ at' = [at EXCEPT ![j] = Over(j)]
          /\ tries' = [tries EXCEPT ![j] = 0]

(* One fault of the given kind happens.                                    *)
Fault(kind) ==
    /\ kind \in exportFaults /\ exportBudget > 0
    /\ exportBudget' = exportBudget - 1

setup == <<provider, exportFaults, workers, settings, toggles>>
environment == <<setup, onTheWay, readExports>>
requests == <<row, stale, adding, documents>>
-----------------------------------------------------------------------------
(* The requests that create the row or take it back to PENDING.            *)

(* The upsert leaves an existing row as it is.                             *)
CreatePendingOrderExport == row' = IF row = "none" THEN "PENDING" ELSE row

ResetOrderExportForRetry == row' = "PENDING" /\ stale' = FALSE

(* enqueueCompletedOrder up to the upsert.  A row that is SUCCESS queues   *)
(* nothing.                                                                *)
EnqueueCompletedOrder ==
    /\ settings = AllOn
    /\ "ORDER_COMPLETED" \notin adding
    /\ row # "SUCCESS"
    /\ CreatePendingOrderExport
    /\ adding' = adding \cup {"ORDER_COMPLETED"}
    /\ UNCHANGED <<stale, at, tries, documents, exportBudget, environment>>

\* Mutant: a row that is SUCCESS may be retried.
RetryOrderExportAny ==
    /\ settings.feature
    /\ "MANUAL_RETRY" \notin adding
    /\ row \in {"PENDING", "ERROR", "SKIPPED", "SUCCESS"}
    /\ ResetOrderExportForRetry
    /\ adding' = adding \cup {"MANUAL_RETRY"}
    /\ UNCHANGED <<at, tries, documents, exportBudget, environment>>

(* retryOrderExport up to resetOrderExportForRetry.                        *)
RetryOrderExport ==
    /\ settings.feature
    /\ "MANUAL_RETRY" \notin adding
    /\ row \in {"PENDING", "ERROR", "SKIPPED"}
    /\ ResetOrderExportForRetry
    /\ adding' = adding \cup {"MANUAL_RETRY"}
    /\ UNCHANGED <<at, tries, documents, exportBudget, environment>>

(* enqueueExportRecord: queue.add under the job's id.                      *)
EnqueueExportRecord(t) ==
    /\ \/ \E j \in JobIds : j[1] = t /\ at[j] = "absent" /\ Goto(j, "waiting")
       \/ /\ t = "ORDER_COMPLETED" /\ at[<<t, 1>>] # "absent"
          /\ UNCHANGED <<at, tries>>
    /\ adding' = adding \ {t}
    /\ UNCHANGED <<row, stale, documents, exportBudget, environment>>

AddRequested(t) ==
    /\ t \in adding \ {"RECONCILIATION"}
    /\ EnqueueExportRecord(t)

(* The process dies, or queue.add fails, between the write of the row and  *)
(* the add.                                                                *)
LoseAdd(t) ==
    /\ t \in adding
    /\ Fault("crash")
    /\ adding' = adding \ {t}
    /\ UNCHANGED <<row, stale, at, tries, documents, environment>>

\* Mutant: RUNNING rows of dead workers are not looked for.
FindPendingOrderExports ==
    /\ "RECONCILIATION" \notin adding
    /\ settings.active
    /\ row = "PENDING"
    /\ adding' = adding \cup {"RECONCILIATION"}
    /\ readExports' = settings.exportOrders
    /\ UNCHANGED <<row, stale, at, tries, documents, onTheWay, exportBudget, setup>>

(* reconcilePendingOrderExports, the read of the runnable rows with the    *)
(* metadata of their integration.                                          *)
FindRunnableOrderExports ==
    /\ "RECONCILIATION" \notin adding
    /\ settings.active
    /\ row = "PENDING" \/ (row = "RUNNING" /\ stale)
    /\ adding' = adding \cup {"RECONCILIATION"}
    /\ readExports' = settings.exportOrders
    /\ UNCHANGED <<row, stale, at, tries, documents, onTheWay, exportBudget, setup>>

(* markOrderExportSkipped: every status but SUCCESS.                       *)
MarkOrderExportSkipped ==
    row' = IF row = "SUCCESS" THEN row ELSE "SKIPPED"

(* The body of the reconciliation loop for the row it read: the feature is *)
(* looked up now, exportOrders is the one that was read.                   *)
ReconcileOrderExport ==
    /\ "RECONCILIATION" \in adding
    /\ \/ /\ ~settings.feature
          /\ adding' = adding \ {"RECONCILIATION"}
          /\ UNCHANGED <<row, stale, at, tries, documents, exportBudget, environment>>
       \/ /\ settings.feature /\ ~readExports
          /\ MarkOrderExportSkipped
          /\ adding' = adding \ {"RECONCILIATION"}
          /\ UNCHANGED <<stale, at, tries, documents, exportBudget, environment>>
       \/ /\ settings.feature /\ readExports
          /\ EnqueueExportRecord("RECONCILIATION")
-----------------------------------------------------------------------------
(* processJob, one action per await.                                       *)

TakeJob(j) ==
    /\ at[j] = "waiting"
    /\ Cardinality({i \in JobIds : at[i] \in Working}) < workers
    /\ Goto(j, "read")
    /\ UNCHANGED <<requests, exportBudget, environment>>

(* findOrderExportById, the early returns on its status and the check of   *)
(* the feature.                                                            *)
ReadExport(j) ==
    /\ at[j] = "read"
    /\ \/ row \in {"none", "SUCCESS", "SKIPPED"} /\ End(j)
       \/ /\ row \in {"PENDING", "RUNNING", "ERROR"}
          /\ Goto(j, IF settings.feature THEN "claim" ELSE "skip")
    /\ UNCHANGED <<requests, exportBudget, environment>>

SkipDisabled(j) ==
    /\ at[j] = "skip"
    /\ MarkOrderExportSkipped
    /\ End(j)
    /\ UNCHANGED <<stale, adding, documents, exportBudget, environment>>

\* Mutant: the reconciliation takes a RUNNING row over without the cutoff.
ClaimableRunning(j) ==
    row \in {"PENDING", "ERROR"} \/ (row = "RUNNING" /\ j[1] = "RECONCILIATION")

(* markOrderExportRunning: PENDING and ERROR for every job, a stale        *)
(* RUNNING row for a job of the reconciliation.                            *)
Claimable(j) ==
    \/ row \in {"PENDING", "ERROR"}
    \/ row = "RUNNING" /\ stale /\ j[1] = "RECONCILIATION"

MarkOrderExportRunning(j) ==
    /\ at[j] = "claim"
    /\ \/ /\ Claimable(j)
          /\ row' = "RUNNING" /\ stale' = FALSE
          /\ Goto(j, "order")
       \/ /\ ~Claimable(j)
          /\ End(j)
          /\ UNCHANGED <<row, stale>>
    /\ UNCHANGED <<adding, documents, exportBudget, environment>>

(* exportOrder up to the first request to the provider.  The feature       *)
(* assertion throws an error BullMQ retries; an inactive integration,      *)
(* exportOrders off and an order the payload cannot be built for are       *)
(* NonRetryable.                                                           *)
BuildPayload(j) ==
    /\ at[j] = "order"
    /\ \/ ~settings.feature /\ Goto(j, "error")
       \/ settings.feature /\ Goto(j, "refused")
       \/ /\ settings = AllOn
          /\ Goto(j, IF provider = "IIKO" THEN "create" ELSE "lookup")
    /\ UNCHANGED <<requests, exportBudget, environment>>

(* MoySklad: findCustomerOrderByExternalCode before createCustomerOrder.   *)
FindCustomerOrder(j) ==
    /\ at[j] = "lookup"
    /\ Goto(j, IF documents > 0 THEN "success" ELSE "create")
    /\ UNCHANGED <<requests, exportBudget, environment>>

CreateCustomerOrder(j) ==
    /\ at[j] = "create" /\ provider = "MOYSKLAD"
    /\ documents' = documents + 1
    /\ Goto(j, "success")
    /\ UNCHANGED <<row, stale, adding, exportBudget, environment>>

(* iiko: the document carries the order's id; the answer is a command to   *)
(* wait for, or creationStatus Error, which is NonRetryable.               *)
CreateIikoOrder(j) ==
    /\ at[j] = "create" /\ provider = "IIKO"
    /\ Goto(j, "poll") \/ Goto(j, "refused")
    /\ UNCHANGED <<requests, exportBudget, environment>>

(* What becomes of a request to create the document that nobody waits for  *)
(* any more: it is never done, it was done by now, or, where requests may  *)
(* be late, it is done some time later.                                    *)
Abandon ==
    \/ UNCHANGED <<documents, onTheWay>>
    \/ /\ documents' = (IF provider = "IIKO" THEN 1 ELSE documents + 1)
       /\ UNCHANGED onTheWay
    \/ /\ "late" \in exportFaults
       /\ onTheWay' = (IF provider = "IIKO" THEN 1 ELSE onTheWay + 1)
       /\ UNCHANGED documents

(* The document of a late request appears.  iiko creates an order under    *)
(* the id it was sent, so only once.                                       *)
DocumentArrives ==
    /\ onTheWay > 0
    /\ onTheWay' = onTheWay - 1
    /\ documents' = (IF provider = "IIKO" THEN 1 ELSE documents + 1)
    /\ UNCHANGED <<row, stale, adding, at, tries, readExports, exportBudget, setup>>

\* Mutant: a command that is not finished after the last poll counts as a success.
WaitForCommandHopefully(j) ==
    /\ at[j] = "poll"
    /\ \/ Abandon /\ Goto(j, "success")
       \/ UNCHANGED <<documents, onTheWay>> /\ Goto(j, "refused")
    /\ UNCHANGED <<row, stale, adding, readExports, exportBudget, setup>>

(* waitForCommandCompletion: the command succeeds, fails, or is not        *)
(* finished after the last poll, when it may still go through.             *)
WaitForCommandCompletion(j) ==
    /\ at[j] = "poll"
    /\ \/ documents' = 1 /\ UNCHANGED onTheWay /\ Goto(j, "success")
       \/ Abandon /\ Goto(j, "refused")
    /\ UNCHANGED <<row, stale, adding, readExports, exportBudget, setup>>

(* The provider fails, or its answer is lost after it did the work.        *)
ProviderFails(j) ==
    /\ at[j] \in {"lookup", "create", "poll"}
    /\ Fault("provider")
    /\ \/ at[j] = "lookup" /\ UNCHANGED <<documents, onTheWay>>
       \/ at[j] # "lookup" /\ Abandon
    /\ Goto(j, "error")
    /\ UNCHANGED <<row, stale, adding, readExports, setup>>

(* markOrderExportSuccess writes by id, whatever the status.               *)
MarkOrderExportSuccess(j) ==
    /\ at[j] = "success"
    /\ row' = "SUCCESS"
    /\ End(j)
    /\ UNCHANGED <<stale, adding, documents, exportBudget, environment>>

(* The job throws: BullMQ retries it until its attempts are used up.       *)
Rethrow(j) ==
    \/ /\ tries[j] + 1 < MaxTries
       /\ at' = [at EXCEPT ![j] = "waiting"]
       /\ tries' = [tries EXCEPT ![j] = @ + 1]
    \/ /\ tries[j] + 1 = MaxTries
       /\ End(j)

(* markOrderExportError writes by id, whatever the status.                 *)
MarkOrderExportError(j) ==
    /\ at[j] = "error"
    /\ row' = "ERROR"
    /\ Rethrow(j)
    /\ UNCHANGED <<stale, adding, documents, exportBudget, environment>>

MarkRefused(j) ==
    /\ at[j] = "refused"
    /\ MarkOrderExportSkipped
    /\ End(j)
    /\ UNCHANGED <<stale, adding, documents, exportBudget, environment>>

(* A read or a write of the database throws: the catch block marks the     *)
(* row ERROR; a throw inside the catch block leaves the row alone.         *)
DatabaseFails(j) ==
    /\ at[j] \in Working \ {"lookup", "create", "poll"}
    /\ Fault("database")
    /\ \/ at[j] \in {"error", "refused"} /\ Rethrow(j)
       \/ at[j] \notin {"error", "refused"} /\ Goto(j, "error")
    /\ UNCHANGED <<requests, environment>>

(* The worker's process dies.  A request on its way may still arrive;      *)
(* BullMQ runs a stalled job again, and fails it when it stalled before.   *)
WorkerDies(j) ==
    /\ at[j] \in Working
    /\ Fault("crash")
    /\ Goto(j, "waiting") \/ End(j)
    /\ \/ at[j] \notin {"create", "poll"} /\ UNCHANGED <<documents, onTheWay>>
       \/ at[j] \in {"create", "poll"} /\ Abandon
    /\ UNCHANGED <<row, stale, adding, readExports, setup>>

(* removeOnComplete and removeOnFail: the id is free again after a day.    *)
(* The queue is first in, first out: no other job waits as long as that.   *)
RemoveJob(j) ==
    /\ at[j] = "ended"
    /\ \A i \in JobIds : at[i] # "waiting"
    /\ Goto(j, "absent")
    /\ UNCHANGED <<requests, exportBudget, environment>>

(* The stale window passes.  A worker that is alive is done long before,   *)
(* unless the environment is slow.                                         *)
WindowPasses ==
    /\ row = "RUNNING" /\ ~stale
    /\ Senders = {} \/ "slow" \in exportFaults
    /\ stale' = TRUE
    /\ UNCHANGED <<row, adding, at, tries, documents, exportBudget, environment>>

(* applyIikoOrderWebhook writes the row it finds by its id, whatever the   *)
(* status: ERROR for a report of an error, SUCCESS for any other report    *)
(* with iiko's id of the order.  The code does not check what it is told:  *)
(* that iiko reports under its id only orders it holds is assumed here.    *)
ApplyIikoOrderWebhook ==
    /\ Fault("webhook")
    /\ provider = "IIKO" /\ row # "none"
    /\ \/ documents > 0 /\ row' = "SUCCESS"
       \/ row' = "ERROR"
    /\ UNCHANGED <<stale, adding, at, tries, documents, environment>>

(* The administrator turns the feature, the integration or its exports on  *)
(* or off.                                                                 *)
ToggleSettings(f) ==
    /\ "toggle" \in exportFaults /\ toggles < MaxToggles
    /\ toggles' = toggles + 1
    /\ settings' = [settings EXCEPT ![f] = ~@]
    /\ UNCHANGED <<provider, exportFaults, workers, onTheWay, readExports,
                   requests, at, tries, exportBudget>>

JobStep(j) ==
    \/ TakeJob(j) \/ ReadExport(j) \/ SkipDisabled(j)
    \/ MarkOrderExportRunning(j) \/ BuildPayload(j)
    \/ FindCustomerOrder(j) \/ CreateCustomerOrder(j)
    \/ CreateIikoOrder(j) \/ WaitForCommandCompletion(j)
    \/ MarkOrderExportSuccess(j) \/ MarkOrderExportError(j) \/ MarkRefused(j)
    \/ RemoveJob(j)

ReconcileStep == FindRunnableOrderExports \/ ReconcileOrderExport

ExportNext ==
    \/ EnqueueCompletedOrder \/ RetryOrderExport
    \/ \E t \in Triggers : AddRequested(t) \/ LoseAdd(t)
    \/ FindRunnableOrderExports \/ ReconcileOrderExport
    \/ \E j \in JobIds : JobStep(j)
    \/ \E j \in JobIds : ProviderFails(j) \/ DatabaseFails(j) \/ WorkerDies(j)
    \/ WindowPasses \/ ApplyIikoOrderWebhook \/ DocumentArrives
    \/ \E f \in {"feature", "active", "exportOrders"} : ToggleSettings(f)

(* The workers, the reconciliation timer and the clock go on; requests,    *)
(* settings and faults need never happen.                                  *)
ExportFairness ==
    /\ \A j \in JobIds : WF_exportVars(JobStep(j))
    /\ WF_exportVars(ReconcileStep)
    /\ WF_exportVars(WindowPasses)

ExportSpec == ExportInit /\ [][ExportNext]_exportVars /\ ExportFairness
-----------------------------------------------------------------------------
(* Properties.                                                             *)

(* An environment without database errors, without workers slower than the *)
(* stale window, without changes of the settings, without reports of iiko  *)
(* that cross an export on its way and without requests whose document     *)
(* appears after the worker gave them up.                                  *)
Quiet == exportFaults \cap {"database", "slow", "toggle", "webhook", "late"} = {}

(* The row says SUCCESS only when the provider holds the order, in every   *)
(* environment.                                                            *)
SuccessMeansExported == row = "SUCCESS" => documents > 0

(* Retries, crashes, lost answers, reconciliations and repeated adds never *)
(* make a second document: at most one job is past the claim of the row.   *)
ExportedOnce ==
    Quiet => /\ documents <= 1
             /\ \A j, k \in Senders : j = k

(* SUCCESS is the last status of a row.                                    *)
SuccessIsLast == [][Quiet /\ row = "SUCCESS" => row' = "SUCCESS"]_exportVars

(* While the settings stay on, no row waits or runs for ever: the          *)
(* reconciliation finds the rows whose job was lost and the RUNNING rows   *)
(* whose worker died.                                                      *)
ExportSettles == []<>(settings # AllOn \/ row \notin {"PENDING", "RUNNING"})
=============================================================================
