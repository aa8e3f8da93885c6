----------------------------- MODULE SyncRuns -----------------------------
(***************************************************************************)
(* The catalog synchronisations of one integration (iiko, MoySklad or 1C): *)
(* IntegrationSyncRun rows, the BullMQ jobs that work on them, and the     *)
(* lock in the integration's row (lastSyncStatus = SYNCING, syncStartedAt).*)
(* What a synchronisation does to the products is left out: it succeeds or *)
(* fails.  A run is a slot with the request that creates it and the job    *)
(* that works on it; every await is a step.                                *)
(***************************************************************************)
EXTENDS Naturals, FiniteSets

CONSTANTS MaxRuns,        \* sync runs of a behaviour
          MaxSyncTries,   \* BullMQ attempts of a job (3 for iiko and MoySklad)
          SyncFaultSets,  \* the environments a behaviour may start in
          MaxSyncFaults   \* faults of a behaviour

ASSUME SyncAssumption ==
    /\ MaxRuns \in Nat \ {0} /\ MaxSyncTries \in Nat \ {0}
    /\ MaxSyncFaults \in Nat
    /\ \A F \in SyncFaultSets :
            F \subseteq {"crash", "database", "slow", "cancel", "settings", "removal"}

VARIABLES syncProvider,  \* "IIKO", "MOYSKLAD" or "ONE_C"
          syncFaults,    \* the faults of this behaviour
          enabled,       \* "on", "inactive", "feature_disabled" or "removed"
          runStatus,     \* status of each run, "none" before it exists
          own,           \* runs created by their job (scheduled, webhook)
          asking,        \* where the request that creates a run is
          working,       \* where the job of a run is
          attempts,      \* attempts of the job that ended with an error
          lock,          \* lastSyncStatus = SYNCING with a syncStartedAt
          lockStale,     \* syncStartedAt is older than SYNC_LOCK_TIMEOUT_MS
          droppedAgain,  \* history: a run released its lock twice, the second
                         \* time while another one was at work
          syncBudget

syncVars == <<syncProvider, syncFaults, enabled, runStatus, own, asking,
              working, attempts, lock, lockStale, droppedAgain, syncBudget>>

RunIds == 1..MaxRuns
ActiveStatuses == {"PENDING", "RUNNING"}
FinalStatuses == {"SUCCESS", "ERROR", "SKIPPED"}
(* A job has released the lock in "tidy"; in "again" it does so once more. *)
(* Only 1C comes to "refused" and "refail".                                *)
JobPlaces == {"waiting", "prepare", "mark", "begin", "refused", "sync", "release",
              "abort", "tidy", "again", "refail", "complete", "publish", "fail"}

SyncTypeOK ==
    /\ syncProvider \in {"IIKO", "MOYSKLAD", "ONE_C"}
    /\ syncFaults \in SyncFaultSets
    /\ enabled \in {"on", "inactive", "feature_disabled", "removed"}
    /\ runStatus \in [RunIds -> ActiveStatuses \cup FinalStatuses \cup {"none"}]
    /\ own \subseteq RunIds
    /\ asking \in [RunIds -> {"no", "create", "add", "attach", "undo", "inline"}]
    /\ working \in [RunIds -> JobPlaces \cup {"absent", "over"}]
    /\ attempts \in [RunIds -> 0..MaxSyncTries - 1]
    /\ lock \in BOOLEAN /\ lockStale \in BOOLEAN /\ droppedAgain \in BOOLEAN
    /\ syncBudget \in 0..MaxSyncFaults

SyncInit ==
    /\ syncProvider \in {"IIKO", "MOYSKLAD", "ONE_C"}
    /\ syncFaults \in SyncFaultSets
    /\ enabled = "on"
    /\ runStatus = [r \in RunIds |-> "none"]
    /\ own = {}
    /\ asking = [r \in RunIds |-> "no"]
    /\ working = [r \in RunIds |-> "absent"]
    /\ attempts = [r \in RunIds |-> 0]
    /\ lock = FALSE /\ lockStale = FALSE /\ droppedAgain = FALSE
    /\ syncBudget = MaxSyncFaults

(* findLatestActiveSyncRun.                                                *)
NoActiveRun == \A r \in RunIds : runStatus[r] \notin ActiveStatuses

Unused(r) == /\ runStatus[r] = "none" /\ asking[r] = "no"
             /\ working[r] = "absent"
(* Runs are used in order: r is the next one.                              *)
NextRun(r) == Unused(r) /\ \A q \in 1..r - 1 : ~Unused(q)

SetStatus(r, s) == runStatus' = [runStatus EXCEPT ![r] = s]
MoveJob(r, place) == working' = [working EXCEPT ![r] = place]

SyncFault(kind) ==
    /\ kind \in syncFaults /\ syncBudget > 0
    /\ syncBudget' = syncBudget - 1

syncSetting == <<syncProvider, syncFaults, enabled>>
syncLock == <<lock, lockStale, droppedAgain>>
-----------------------------------------------------------------------------
(* Requests and the timer.                                                 *)

(* The checks of enqueueSync (of a manager, or of an iiko webhook): the    *)
(* integration is usable and no run is active.                             *)
RequestSync(r) ==
    /\ NextRun(r)
    /\ enabled = "on"
    /\ NoActiveRun
    /\ asking' = [asking EXCEPT ![r] = "create"]
    /\ UNCHANGED <<syncSetting, runStatus, own, working, attempts, syncLock, syncBudget>>

CreateSyncRun(r) ==
    /\ asking[r] = "create"
    /\ SetStatus(r, "PENDING")
    /\ asking' = [asking EXCEPT ![r] = "add"]
    /\ UNCHANGED <<syncSetting, own, working, attempts, syncLock, syncBudget>>

(* 1C has requests that execute the run themselves, without the queue.     *)
ExecuteInline(r) ==
    /\ asking[r] = "add" /\ syncProvider = "ONE_C"
    /\ asking' = [asking EXCEPT ![r] = "inline"]
    /\ MoveJob(r, "begin")
    /\ UNCHANGED <<syncSetting, runStatus, own, attempts, syncLock, syncBudget>>

AddSyncJob(r) ==
    /\ asking[r] = "add"
    /\ asking' = [asking EXCEPT ![r] = "attach"]
    /\ MoveJob(r, "waiting")
    /\ UNCHANGED <<syncSetting, runStatus, own, attempts, syncLock, syncBudget>>

AttachSyncRunJobId(r) ==
    /\ asking[r] = "attach"
    /\ asking' = [asking EXCEPT ![r] = "no"]
    /\ UNCHANGED <<syncSetting, runStatus, own, working, attempts, syncLock, syncBudget>>

(* queue.add or attachSyncRunJobId throws: the catch block fails the run,  *)
(* also when its job is in the queue already.                              *)
EnqueueFails(r) ==
    /\ asking[r] \in {"add", "attach"}
    /\ SyncFault("database")
    /\ asking' = [asking EXCEPT ![r] = "undo"]
    /\ UNCHANGED <<syncSetting, runStatus, own, working, attempts, syncLock>>

FailUnqueued(r) ==
    /\ asking[r] = "undo"
    /\ SetStatus(r, "ERROR")
    /\ asking' = [asking EXCEPT ![r] = "no"]
    /\ UNCHANGED <<syncSetting, own, working, attempts, syncLock, syncBudget>>

(* The schedulers of MoySklad and 1C and the webhooks of MoySklad add jobs *)
(* that create their run when they are processed.                          *)
ScheduledJob(r) ==
    /\ NextRun(r)
    /\ syncProvider # "IIKO"
    /\ own' = own \cup {r}
    /\ MoveJob(r, "waiting")
    /\ UNCHANGED <<syncSetting, runStatus, asking, attempts, syncLock, syncBudget>>
-----------------------------------------------------------------------------
(* processJob, one action per await.                                       *)

(* The checks at the start of a job.  1C looks for an active run before    *)
(* a scheduled one, MoySklad does not.                                     *)
StartSyncJob(r) ==
    /\ working[r] = "waiting"
    /\ \/ /\ r \notin own
          /\ MoveJob(r, IF syncProvider = "ONE_C" THEN "begin" ELSE "mark")
          /\ syncProvider # "MOYSKLAD" \/ enabled # "feature_disabled"
          /\ UNCHANGED runStatus
       \/ /\ r \notin own
          /\ syncProvider = "MOYSKLAD" /\ enabled = "feature_disabled"
          /\ SetStatus(r, "SKIPPED")
          /\ MoveJob(r, "over")
       \/ /\ r \in own
          /\ enabled = "on" /\ (syncProvider = "ONE_C" => NoActiveRun)
          /\ MoveJob(r, "prepare")
          /\ UNCHANGED runStatus
       \/ /\ r \in own
          /\ enabled # "on" \/ (syncProvider = "ONE_C" /\ ~NoActiveRun)
          /\ MoveJob(r, "over")
          /\ \/ syncProvider = "MOYSKLAD" /\ enabled = "inactive" /\ SetStatus(r, "SKIPPED")
             \/ ~(syncProvider = "MOYSKLAD" /\ enabled = "inactive") /\ UNCHANGED runStatus
    /\ UNCHANGED <<syncSetting, own, asking, attempts, syncLock, syncBudget>>

(* prepareScheduledRun and prepareJob: createSyncRun.                      *)
PrepareScheduledRun(r) ==
    /\ working[r] = "prepare"
    /\ SetStatus(r, "PENDING")
    /\ MoveJob(r, IF syncProvider = "ONE_C" THEN "begin" ELSE "mark")
    /\ UNCHANGED <<syncSetting, own, asking, attempts, syncLock, syncBudget>>

(* markSyncRunRunning writes by id, whatever the status.                   *)
MarkSyncRunRunning(r) ==
    /\ working[r] = "mark"
    /\ SetStatus(r, "RUNNING")
    /\ MoveJob(r, IF syncProvider = "ONE_C" THEN "sync" ELSE "begin")
    /\ UNCHANGED <<syncSetting, own, asking, attempts, syncLock, syncBudget>>

\* Mutant: the update of the lock has no condition on it.
CanBeginAlways == enabled = "on"

(* beginIikoSync, beginMoySkladSync, beginSync: one conditional update.    *)
CanBegin == enabled = "on" /\ (~lock \/ lockStale)

TakeLock == lock' = TRUE /\ lockStale' = FALSE /\ UNCHANGED droppedAgain

BeginSync(r) ==
    /\ working[r] = "begin"
    /\ CanBegin
    /\ TakeLock
    /\ MoveJob(r, IF syncProvider = "ONE_C" THEN "mark" ELSE "sync")
    /\ UNCHANGED <<syncSetting, runStatus, own, asking, attempts, syncBudget>>

\* Mutant: a refused run is left as it is by every provider.
RefuseSyncSilently(r) ==
    /\ working[r] = "begin"
    /\ ~CanBegin
    /\ MoveJob(r, "over")
    /\ UNCHANGED <<syncSetting, runStatus, own, asking, attempts, syncLock, syncBudget>>

(* The lock is refused.  In 1C a variant or stock run is then written off, *)
(* a product run is not: its catch block reads the id of a run that is     *)
(* still null.  Nor is a run that the checks before beginSync stop.        *)
RefuseSync(r) ==
    /\ working[r] = "begin"
    /\ ~CanBegin
    /\ \E place \in IF syncProvider = "ONE_C" THEN {"refused", "over"} ELSE {"fail"} :
          MoveJob(r, place)
    /\ UNCHANGED <<syncSetting, runStatus, own, asking, attempts, syncLock, syncBudget>>

\* Mutant: a synchronisation that throws does not release the lock.
SynchroniseKeepingLock(r) ==
    /\ working[r] = "sync"
    /\ \E place \in IF syncProvider = "ONE_C" THEN {"complete", "fail"}
                    ELSE {"release", "fail"} : MoveJob(r, place)
    /\ UNCHANGED <<syncSetting, runStatus, own, asking, attempts, syncLock, syncBudget>>

(* The synchronisation goes through, or the provider or the import fails.  *)
(* 1C writes the run before it releases the lock, the others after.        *)
Synchronise(r) ==
    /\ working[r] = "sync"
    /\ \E place \in IF syncProvider = "ONE_C" THEN {"complete", "fail"}
                    ELSE {"release", "abort"} : MoveJob(r, place)
    /\ UNCHANGED <<syncSetting, runStatus, own, asking, attempts, syncLock, syncBudget>>

(* The lock is released by the catalog, whoever holds it; the row of an    *)
(* integration that was removed is not found.                              *)
FreeLock ==
    /\ lock' = (enabled = "removed" /\ lock)
    /\ lockStale' = (enabled = "removed" /\ lockStale)

(* The update of finishIikoSync, failIikoSync and their like.              *)
ReleaseSync(r) ==
    /\ working[r] \in {"release", "abort"}
    /\ FreeLock
    /\ MoveJob(r, IF working[r] = "release" THEN "tidy"
                  ELSE IF syncProvider = "ONE_C" THEN "over" ELSE "fail")
    /\ UNCHANGED <<syncSetting, runStatus, own, asking, attempts, droppedAgain, syncBudget>>

(* What follows it in the same try block: the row is read again, the       *)
(* caches are invalidated, the progress is reported.                       *)
TidyUp(r) ==
    /\ working[r] = "tidy"
    /\ MoveJob(r, IF syncProvider = "ONE_C" THEN "over" ELSE "complete")
    /\ UNCHANGED <<syncSetting, runStatus, own, asking, attempts, syncLock, syncBudget>>

(* completeSyncRun; the finishSyncRun of 1C writes ERROR when rows failed. *)
CompleteSyncRun(r) ==
    /\ working[r] = "complete"
    /\ \/ SetStatus(r, "SUCCESS")
       \/ syncProvider = "ONE_C" /\ SetStatus(r, "ERROR")
    /\ MoveJob(r, CASE syncProvider = "ONE_C" -> "release"
                    [] syncProvider = "MOYSKLAD" -> "publish"
                    [] OTHER -> "over")
    /\ UNCHANGED <<syncSetting, own, asking, attempts, syncLock, syncBudget>>

(* publishSyncCompleted.                                                   *)
PublishSyncCompleted(r) ==
    /\ working[r] = "publish"
    /\ MoveJob(r, "over")
    /\ UNCHANGED <<syncSetting, runStatus, own, asking, attempts, syncLock, syncBudget>>

(* The job is back in the queue; one that creates its run will create      *)
(* another one.                                                            *)
Requeue(r, count) ==
    \/ /\ r \notin own
       /\ MoveJob(r, "waiting")
       /\ attempts' = [attempts EXCEPT ![r] = count]
       /\ UNCHANGED own
    \/ /\ r \in own
       /\ \E s \in RunIds :
             /\ NextRun(s)
             /\ own' = own \cup {s}
             /\ working' = [working EXCEPT ![r] = "over", ![s] = "waiting"]
             /\ attempts' = [attempts EXCEPT ![s] = count]

EndJob(r) == MoveJob(r, "over") /\ UNCHANGED <<own, attempts>>

(* BullMQ retries a job that threw.  1C has one attempt.  A job that would *)
(* need another run when MaxRuns are used up is not retried.               *)
Retry(r) ==
    \/ /\ attempts[r] + 1 < MaxSyncTries /\ syncProvider # "ONE_C"
       /\ Requeue(r, attempts[r] + 1)
    \/ /\ \/ attempts[r] + 1 = MaxSyncTries \/ syncProvider = "ONE_C"
          \/ r \in own /\ \A s \in RunIds : ~Unused(s)
       /\ EndJob(r)

FailSyncRun(r) ==
    /\ working[r] \in {"fail", "refail", "refused"}
    /\ SetStatus(r, "ERROR")
    /\ \/ /\ syncProvider = "ONE_C"
          /\ MoveJob(r, CASE working[r] = "fail" -> "abort"
                          [] working[r] = "refail" -> "again"
                          [] OTHER -> "over")
          /\ UNCHANGED <<own, attempts>>
       \/ syncProvider # "ONE_C" /\ Retry(r)
    /\ UNCHANGED <<syncSetting, asking, syncLock, syncBudget>>

(* A statement of a job throws and a catch block of the job or of the      *)
(* synchronisation takes over.                                             *)
Caught(r) ==
    \/ working[r] = "tidy" /\ MoveJob(r, IF syncProvider = "ONE_C" THEN "refail" ELSE "again")
    \/ working[r] = "release" /\ MoveJob(r, IF syncProvider = "ONE_C" THEN "fail" ELSE "abort")
    \/ working[r] = "begin" /\ MoveJob(r, IF syncProvider = "ONE_C" THEN "refused" ELSE "fail")
    \/ working[r] = "mark" /\ syncProvider # "IIKO" /\ MoveJob(r, "fail")
    \/ working[r] \in {"abort", "again"} /\ syncProvider # "ONE_C" /\ MoveJob(r, "fail")
    \/ working[r] \in {"complete", "publish"} /\ MoveJob(r, "fail")

(* Or nothing does.  A product run of 1C has no id to write before mark.   *)
Escapes(r) ==
    \/ working[r] \in {"prepare", "fail", "refail", "refused"}
    \/ working[r] = "mark" /\ syncProvider # "MOYSKLAD"
    \/ working[r] \in {"begin", "abort", "again"} /\ syncProvider = "ONE_C"

(* beginSync may have taken the lock before the read that follows throws.  *)
SyncStatementFails(r) ==
    /\ SyncFault("database")
    /\ \/ Caught(r) /\ UNCHANGED <<own, attempts>>
       \/ Escapes(r) /\ Retry(r)
    /\ \/ UNCHANGED syncLock
       \/ working[r] = "begin" /\ CanBegin /\ TakeLock
    /\ UNCHANGED <<syncSetting, runStatus, asking>>

(* The process of a job dies: BullMQ runs the stalled job again once, and  *)
(* fails it the next time.  A request that executes inline is lost.        *)
SyncWorkerDies(r) ==
    /\ working[r] \in JobPlaces \ {"waiting"}
    /\ SyncFault("crash")
    /\ \/ asking[r] # "inline" /\ Requeue(r, attempts[r])
       \/ EndJob(r)
    /\ UNCHANGED <<syncSetting, runStatus, asking, syncLock>>

(* The process of a request dies before the job is in the queue.           *)
SyncRequestDies(r) ==
    /\ asking[r] \in {"create", "add", "undo"}
    /\ SyncFault("crash")
    /\ asking' = [asking EXCEPT ![r] = "no"]
    /\ UNCHANGED <<syncSetting, runStatus, own, working, attempts, syncLock>>
-----------------------------------------------------------------------------
(* The jobs between beginSync and the release of the lock.                 *)
Syncing == {r \in RunIds :
              \/ working[r] \in {"sync", "release", "abort"}
              \/ syncProvider = "ONE_C" /\ working[r] \in {"mark", "complete", "fail"}}

(* A catch block entered after the release releases the lock once more,    *)
(* which another run may have taken since.                                 *)
ReleaseAgain(r) ==
    /\ working[r] = "again"
    /\ FreeLock
    /\ droppedAgain' = (droppedAgain \/ Syncing # {})
    /\ MoveJob(r, IF syncProvider = "ONE_C" THEN "over" ELSE "fail")
    /\ UNCHANGED <<syncSetting, runStatus, own, asking, attempts, syncBudget>>

(* SYNC_LOCK_TIMEOUT_MS passes.  A synchronisation that is alive is done   *)
(* before, unless the environment is slow.                                 *)
LockTimesOut ==
    /\ lock /\ ~lockStale
    /\ Syncing = {} \/ "slow" \in syncFaults
    /\ lockStale' = TRUE
    /\ UNCHANGED <<syncSetting, runStatus, own, asking, working, attempts, lock,
                   droppedAgain, syncBudget>>

(* cancelMoySkladSync releases the lock and leaves the job alone.          *)
CancelMoySkladSync ==
    /\ SyncFault("cancel")
    /\ syncProvider = "MOYSKLAD"
    /\ lock' = FALSE /\ lockStale' = FALSE
    /\ UNCHANGED <<syncSetting, runStatus, own, asking, working, attempts, droppedAgain>>

(* The integration is deactivated, or its feature is turned off, or both   *)
(* are on again.                                                           *)
ChangeEnabled(value) ==
    /\ SyncFault("settings")
    /\ enabled # value
    /\ enabled' = value
    /\ UNCHANGED <<syncProvider, syncFaults, runStatus, own, asking, working,
                   attempts, syncLock>>

(* softDeleteIiko and softDeleteMoySklad reset the lock, the               *)
(* softDeleteIntegration of 1C does not.                                   *)
RemoveIntegration ==
    /\ SyncFault("removal")
    /\ enabled # "removed"
    /\ enabled' = "removed"
    /\ lock' = (syncProvider = "ONE_C" /\ lock)
    /\ lockStale' = (syncProvider = "ONE_C" /\ lockStale)
    /\ UNCHANGED <<syncProvider, syncFaults, runStatus, own, asking, working,
                   attempts, droppedAgain>>

(* It is set up again: the upsert brings the same row back.                *)
RestoreIntegration ==
    /\ enabled = "removed"
    /\ enabled' = "on"
    /\ UNCHANGED <<syncProvider, syncFaults, runStatus, own, asking, working,
                   attempts, syncLock, syncBudget>>

RequestStep(r) ==
    \/ CreateSyncRun(r) \/ AddSyncJob(r) \/ AttachSyncRunJobId(r) \/ FailUnqueued(r)

SyncJobStep(r) ==
    \/ StartSyncJob(r) \/ PrepareScheduledRun(r) \/ MarkSyncRunRunning(r)
    \/ BeginSync(r) \/ RefuseSync(r) \/ Synchronise(r) \/ ReleaseSync(r)
    \/ TidyUp(r) \/ ReleaseAgain(r) \/ CompleteSyncRun(r) \/ PublishSyncCompleted(r) \/ FailSyncRun(r)

SyncNext ==
    \/ \E r \in RunIds :
          \/ RequestSync(r) \/ RequestStep(r) \/ ExecuteInline(r) \/ EnqueueFails(r)
          \/ ScheduledJob(r) \/ SyncJobStep(r) \/ SyncStatementFails(r)
          \/ SyncWorkerDies(r) \/ SyncRequestDies(r)
    \/ LockTimesOut \/ CancelMoySkladSync \/ RemoveIntegration \/ RestoreIntegration
    \/ \E value \in {"on", "inactive", "feature_disabled"} : ChangeEnabled(value)

(* Requests that have begun, jobs and the clock go on.                     *)
SyncFairness ==
    /\ \A r \in RunIds : WF_syncVars(RequestStep(r)) /\ WF_syncVars(SyncJobStep(r))
    /\ WF_syncVars(LockTimesOut)

SyncSpec == SyncInit /\ [][SyncNext]_syncVars /\ SyncFairness
-----------------------------------------------------------------------------
(* Properties.                                                             *)

(* No synchronisation outlives SYNC_LOCK_TIMEOUT_MS, nobody cancels one    *)
(* and nobody removes the integration.                                     *)
Undisturbed == syncFaults \cap {"slow", "cancel", "removal"} = {}

(* Whatever runs are queued, retried, scheduled, failed by a statement or  *)
(* left by a crash, one synchronisation of an integration is at work at a  *)
(* time, and the lock is held and fresh all the while.  The one way out of *)
(* this is the second release of a run that fails after the first one,     *)
(* when it drops the lock of another run.                                  *)
OneSyncAtATime ==
    Undisturbed /\ ~droppedAgain
        => /\ \A r, s \in Syncing : r = s
           /\ Syncing # {} => lock /\ ~lockStale

(* Every way out of a synchronisation releases the lock: without crashes   *)
(* and database errors, a lock that is held belongs to one that is at work.*)
LockReleased ==
    Undisturbed /\ syncFaults \cap {"crash", "database"} = {}
        => (lock => Syncing # {})

(* The check for an active run blocks every manual synchronisation, so a   *)
(* run must not stay active for ever.  In iiko and MoySklad none does when *)
(* nothing crashes and the database answers; in 1C a refused run may.      *)
RunsEnd ==
    \A r \in RunIds :
        []<>( syncProvider # "ONE_C" /\ syncFaults \cap {"crash", "database"} = {}
                => runStatus[r] \notin ActiveStatuses )
===========================================================================
