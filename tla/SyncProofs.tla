----------------------------- MODULE SyncProofs -----------------------------
(***************************************************************************)
(* Proofs about the catalog synchronisations: the lock of SyncRuns and the *)
(* settled events of WebhookEvents.                                        *)
(***************************************************************************)
EXTENDS SyncRuns, WebhookEvents, FiniteSetTheorems, TLAPS

-----------------------------------------------------------------------------
(* WebhookEvents.  A batch is settled after it was applied, and a request  *)
(* of MoySklad never marks an event itself.                                *)

BatchApplied ==
    /\ drainAt = "settle" => batch \subseteq applied
    /\ hookProvider = "MOYSKLAD" =>
          \A e \in HookEvents : receiving[e] \in {"no", "enqueue"}

HookShapes == /\ eventStatus \in [HookEvents -> {"none", "PENDING", "PROCESSING",
                                                 "PROCESSED", "FAILED", "SKIPPED"}]
              /\ receiving \in [HookEvents -> {"no", "enqueue", "mark", "act", "settle",
                                               "skip", "fail"}]
              /\ hookProvider \in {"IIKO", "MOYSKLAD"}

HookInv == HookShapes /\ BatchApplied /\ ProcessedMeansApplied

LEMMA HookStep == HookInv /\ [HookNext]_hookVars => HookInv'
<1> SUFFICES ASSUME HookInv, [HookNext]_hookVars
             PROVE  HookInv'
    OBVIOUS
<1> USE DEF HookInv, HookShapes, BatchApplied, ProcessedMeansApplied,
            hookSetting, drain, MarkWebhookEvents, Open, EndDrain
<1>1. ASSUME NEW e \in HookEvents, ReceiveWebhook(e) PROVE HookInv'
    BY <1>1 DEF ReceiveWebhook
<1>2. ASSUME NEW e \in HookEvents, EnqueueStockWebhookDrain(e) PROVE HookInv'
    BY <1>2 DEF EnqueueStockWebhookDrain
<1>3. ASSUME NEW e \in HookEvents, MarkIikoProcessing(e) PROVE HookInv'
    BY <1>3 DEF MarkIikoProcessing
<1>4. ASSUME NEW e \in HookEvents, ActOnIikoEvent(e) PROVE HookInv'
    BY <1>4 DEF ActOnIikoEvent
<1>5. ASSUME NEW e \in HookEvents, SettleIikoEvent(e) PROVE HookInv'
    BY <1>5 DEF SettleIikoEvent
<1>6. ASSUME NEW e \in HookEvents, RetryIikoWebhookEvent(e) PROVE HookInv'
    BY <1>6 DEF RetryIikoWebhookEvent
<1>7. ASSUME NEW e \in HookEvents, ReceiverDies(e) PROVE HookInv'
    BY <1>7 DEF ReceiverDies
<1>8. CASE StartDrain
    BY <1>8 DEF StartDrain
<1>9. CASE FindPendingWebhookEvents
    BY <1>9 DEF FindPendingWebhookEvents
<1>10. CASE MarkWebhookEventsProcessing
    BY <1>10 DEF MarkWebhookEventsProcessing
<1>11. CASE SyncWebhookStock
    BY <1>11 DEF SyncWebhookStock
<1>12. CASE MarkDrained
    BY <1>12 DEF MarkDrained
<1>13. CASE MarkDrainFailed
    BY <1>13 DEF MarkDrainFailed
<1>14. CASE RemoveFailedDrain
    BY <1>14 DEF RemoveFailedDrain
<1>15. CASE DrainDies
    BY <1>15 DEF DrainDies
<1>16. ASSUME NEW value, ChangeHookEnabled(value) PROVE HookInv'
    BY <1>16 DEF ChangeHookEnabled
<1>17. CASE UNCHANGED hookVars
    BY <1>17 DEF hookVars
<1> QED
    BY <1>1, <1>2, <1>3, <1>4, <1>5, <1>6, <1>7, <1>8, <1>9, <1>10, <1>11, <1>12,
       <1>13, <1>14, <1>15, <1>16, <1>17
    DEF HookNext, ReceiverStep, DrainStep

LEMMA HookStarts == HookInit => HookInv
    BY DEF HookInit, HookInv, HookShapes, BatchApplied, ProcessedMeansApplied

(* processWebhookStockDrain: for any number of events, any limit of a drain *)
(* and any crashes, an event says PROCESSED only when its report was        *)
(* applied to the local stock.                                             *)
THEOREM ProcessedEventsApplied == HookSpec => []ProcessedMeansApplied
<1> QED
    BY HookStarts, HookStep, PTL DEF HookSpec, HookInv

-----------------------------------------------------------------------------
(* SyncRuns.  A synchronisation is between beginSync and the release of    *)
(* the lock, which only one run can be at a time: beginSync needs a lock   *)
(* that is free or stale, without slow synchronisations a lock does not    *)
(* get stale while one is at work, and a lock released a second time was   *)
(* nobody's, or droppedAgain records it.                                   *)

SyncShapes == /\ working \in [RunIds -> JobPlaces \cup {"absent", "over"}]
              /\ asking \in [RunIds -> {"no", "create", "add", "attach", "undo", "inline"}]
              /\ syncProvider \in {"IIKO", "MOYSKLAD", "ONE_C"}
              /\ lock \in BOOLEAN /\ lockStale \in BOOLEAN /\ droppedAgain \in BOOLEAN

(* Only MoySklad publishes, a request adds the job of its run once, and    *)
(* nothing but a removal makes an integration removed.                     *)
SyncPlaces == /\ \A r \in RunIds :
                    /\ syncProvider = "ONE_C" => working[r] # "publish"
                    /\ asking[r] \in {"create", "add"} => working[r] = "absent"
              /\ enabled = "removed" => "removal" \in syncFaults

SyncInv == SyncShapes /\ SyncPlaces /\ OneSyncAtATime /\ LockReleased

(* A step that leaves the lock alone, lets no run into the synchronisation *)
(* and, unless something crashes or throws, lets none out of it.           *)
Aside == /\ UNCHANGED <<syncProvider, syncFaults, lock, lockStale, droppedAgain>>
         /\ Syncing' \subseteq Syncing
         /\ Syncing' = Syncing \/ syncFaults \cap {"crash", "database"} # {}

LEMMA AsideKeepsLock ==
    ASSUME SyncInv, SyncShapes', SyncPlaces', Aside
    PROVE  SyncInv'
    BY DEF SyncInv, OneSyncAtATime, LockReleased, Aside, Undisturbed

LEMMA SyncStep == SyncInv /\ [SyncNext]_syncVars => SyncInv'
<1> SUFFICES ASSUME SyncInv, [SyncNext]_syncVars
             PROVE  SyncInv'
    OBVIOUS
<1> USE DEF SyncShapes, SyncPlaces, syncSetting, syncLock, SetStatus, MoveJob, JobPlaces,
            SyncFault
<1>1. ASSUME NEW r \in RunIds, RequestSync(r) PROVE SyncInv'
    BY <1>1, AsideKeepsLock DEF SyncInv, RequestSync, NextRun, Unused, Aside, Syncing
<1>2. ASSUME NEW r \in RunIds, CreateSyncRun(r) PROVE SyncInv'
    BY <1>2, AsideKeepsLock DEF SyncInv, CreateSyncRun, Aside, Syncing
<1>3. ASSUME NEW r \in RunIds, AddSyncJob(r) PROVE SyncInv'
    BY <1>3, AsideKeepsLock DEF SyncInv, AddSyncJob, Aside, Syncing
<1>4. ASSUME NEW r \in RunIds, AttachSyncRunJobId(r) PROVE SyncInv'
    BY <1>4, AsideKeepsLock DEF SyncInv, AttachSyncRunJobId, Aside, Syncing
<1>5. ASSUME NEW r \in RunIds, FailUnqueued(r) PROVE SyncInv'
    BY <1>5, AsideKeepsLock DEF SyncInv, FailUnqueued, Aside, Syncing
<1>6. ASSUME NEW r \in RunIds, ExecuteInline(r) PROVE SyncInv'
    BY <1>6, AsideKeepsLock DEF SyncInv, ExecuteInline, Aside, Syncing
<1>7. ASSUME NEW r \in RunIds, EnqueueFails(r) PROVE SyncInv'
    BY <1>7, AsideKeepsLock DEF SyncInv, EnqueueFails, Aside, Syncing
<1>8. ASSUME NEW r \in RunIds, ScheduledJob(r) PROVE SyncInv'
    BY <1>8, AsideKeepsLock DEF SyncInv, ScheduledJob, NextRun, Unused, Aside, Syncing
<1>9. ASSUME NEW r \in RunIds, StartSyncJob(r) PROVE SyncInv'
    BY <1>9, AsideKeepsLock DEF SyncInv, StartSyncJob, Aside, Syncing
<1>10. ASSUME NEW r \in RunIds, PrepareScheduledRun(r) PROVE SyncInv'
    BY <1>10, AsideKeepsLock DEF SyncInv, PrepareScheduledRun, Aside, Syncing
<1>11. ASSUME NEW r \in RunIds, MarkSyncRunRunning(r) PROVE SyncInv'
    BY <1>11, AsideKeepsLock DEF SyncInv, MarkSyncRunRunning, Aside, Syncing
<1>12. ASSUME NEW r \in RunIds, BeginSync(r) PROVE SyncInv'
  <2>1. SyncShapes' /\ SyncPlaces'
    BY <1>12 DEF SyncInv, BeginSync, TakeLock
  <2>2. Syncing' = Syncing \cup {r} /\ UNCHANGED <<syncFaults, syncProvider, droppedAgain>>
    BY <1>12 DEF SyncInv, BeginSync, TakeLock, Syncing
  <2>3. Undisturbed /\ ~droppedAgain => Syncing = {}
    BY <1>12 DEF SyncInv, BeginSync, CanBegin, OneSyncAtATime
  <2>4. lock' /\ ~lockStale'
    BY <1>12 DEF BeginSync, TakeLock
  <2> QED
    BY <2>1, <2>2, <2>3, <2>4 DEF SyncInv, OneSyncAtATime, LockReleased, Undisturbed
<1>13. ASSUME NEW r \in RunIds, RefuseSync(r) PROVE SyncInv'
    BY <1>13, AsideKeepsLock DEF SyncInv, RefuseSync, Aside, Syncing
<1>14. ASSUME NEW r \in RunIds, Synchronise(r) PROVE SyncInv'
    BY <1>14, AsideKeepsLock DEF SyncInv, Synchronise, Aside, Syncing
<1>15. ASSUME NEW r \in RunIds, ReleaseSync(r) PROVE SyncInv'
  <2>1. SyncShapes' /\ SyncPlaces'
    BY <1>15 DEF SyncInv, ReleaseSync, FreeLock
  <2>2. r \in Syncing /\ Syncing' = Syncing \ {r}
        /\ UNCHANGED <<syncFaults, syncProvider, droppedAgain>>
    BY <1>15 DEF SyncInv, ReleaseSync, Syncing
  <2>3. Undisturbed => ~lock'
    BY <1>15 DEF ReleaseSync, FreeLock, SyncInv, Undisturbed
  <2>4. OneSyncAtATime'
    BY <2>2 DEF SyncInv, OneSyncAtATime, Undisturbed
  <2>5. LockReleased'
    BY <2>2, <2>3 DEF LockReleased, Undisturbed
  <2> QED
    BY <2>1, <2>4, <2>5 DEF SyncInv
<1>16. ASSUME NEW r \in RunIds, CompleteSyncRun(r) PROVE SyncInv'
    BY <1>16, AsideKeepsLock DEF SyncInv, CompleteSyncRun, Aside, Syncing
<1>17. ASSUME NEW r \in RunIds, PublishSyncCompleted(r) PROVE SyncInv'
    BY <1>17, AsideKeepsLock DEF SyncInv, PublishSyncCompleted, Aside, Syncing
<1>18. ASSUME NEW r \in RunIds, FailSyncRun(r) PROVE SyncInv'
    BY <1>18, AsideKeepsLock DEF SyncInv, FailSyncRun, Retry, Requeue, EndJob, NextRun, Unused, Aside, Syncing
<1>19. ASSUME NEW r \in RunIds, SyncStatementFails(r) PROVE SyncInv'
  <2>1. /\ "database" \in syncFaults
        /\ UNCHANGED <<syncProvider, syncFaults, enabled, asking>>
        /\ Caught(r) \/ (Escapes(r) /\ Retry(r))
    BY <1>19 DEF SyncStatementFails
  <2>2. ASSUME Caught(r)
        PROVE  /\ Syncing' \subseteq Syncing /\ SyncPlaces'
               /\ working' \in [RunIds -> JobPlaces \cup {"absent", "over"}]
    <3>1. Syncing' \subseteq Syncing
      BY <2>1, <2>2 DEF SyncInv, Caught, Syncing
    <3>2. /\ working' \in [RunIds -> JobPlaces \cup {"absent", "over"}]
          /\ SyncPlaces'
      BY <2>1, <2>2 DEF SyncInv, Caught
    <3> QED BY <3>1, <3>2
  <2>3. ASSUME Escapes(r), Retry(r)
        PROVE  /\ Syncing' \subseteq Syncing /\ SyncPlaces'
               /\ working' \in [RunIds -> JobPlaces \cup {"absent", "over"}]
    <3>1. Syncing' \subseteq Syncing
      BY <2>1, <2>3 DEF SyncInv, Escapes, Retry, Requeue, EndJob, NextRun, Unused, Syncing
    <3>2. /\ working' \in [RunIds -> JobPlaces \cup {"absent", "over"}]
          /\ SyncPlaces'
      BY <2>1, <2>3 DEF SyncInv, Escapes, Retry, Requeue, EndJob, NextRun, Unused
    <3> QED BY <3>1, <3>2
  <2>4. /\ Syncing' \subseteq Syncing /\ SyncPlaces'
        /\ working' \in [RunIds -> JobPlaces \cup {"absent", "over"}]
    BY <2>1, <2>2, <2>3
  <2>5. CASE UNCHANGED syncLock
    BY <2>1, <2>4, <2>5, AsideKeepsLock DEF SyncInv, Aside
  <2>6. CASE CanBegin /\ TakeLock
    <3>1. SyncShapes'
      BY <2>1, <2>4, <2>6 DEF SyncInv, TakeLock
    <3>2. Undisturbed /\ ~droppedAgain => Syncing = {}
      BY <2>6 DEF SyncInv, CanBegin, OneSyncAtATime
    <3>3. OneSyncAtATime'
      BY <2>1, <2>4, <2>6, <3>2 DEF OneSyncAtATime, Undisturbed, TakeLock
    <3>4. LockReleased'
      BY <2>1 DEF LockReleased
    <3> QED BY <2>4, <3>1, <3>3, <3>4 DEF SyncInv
  <2> QED BY <1>19, <2>5, <2>6 DEF SyncStatementFails
<1>20. ASSUME NEW r \in RunIds, SyncWorkerDies(r) PROVE SyncInv'
    BY <1>20, AsideKeepsLock DEF SyncInv, SyncWorkerDies, Requeue, EndJob, NextRun, Unused, Aside, Syncing
<1>21. ASSUME NEW r \in RunIds, SyncRequestDies(r) PROVE SyncInv'
    BY <1>21, AsideKeepsLock DEF SyncInv, SyncRequestDies, Aside, Syncing
<1>22. CASE LockTimesOut
    BY <1>22 DEF SyncInv, LockTimesOut, OneSyncAtATime, LockReleased, Undisturbed, Syncing
<1>23. CASE CancelMoySkladSync
    BY <1>23 DEF SyncInv, CancelMoySkladSync, OneSyncAtATime, LockReleased, Undisturbed, Syncing
<1>24. ASSUME NEW value \in {"on", "inactive", "feature_disabled"}, ChangeEnabled(value)
       PROVE  SyncInv'
    BY <1>24, AsideKeepsLock DEF SyncInv, ChangeEnabled, Aside, Syncing
<1>26. ASSUME NEW r \in RunIds, TidyUp(r) PROVE SyncInv'
    BY <1>26, AsideKeepsLock DEF SyncInv, TidyUp, Aside, Syncing
<1>27. ASSUME NEW r \in RunIds, ReleaseAgain(r) PROVE SyncInv'
  <2>1. SyncShapes' /\ SyncPlaces'
    BY <1>27 DEF SyncInv, ReleaseAgain, FreeLock
  <2>2. Syncing' = Syncing /\ UNCHANGED <<syncFaults, syncProvider>>
        /\ droppedAgain' = (droppedAgain \/ Syncing # {})
    BY <1>27 DEF SyncInv, ReleaseAgain, Syncing
  <2>3. Undisturbed => ~lock'
    BY <1>27 DEF ReleaseAgain, FreeLock, SyncInv, Undisturbed
  <2>4. OneSyncAtATime'
    BY <2>2 DEF SyncInv, OneSyncAtATime, Undisturbed
  <2>5. LockReleased'
    BY <2>2, <2>3 DEF LockReleased, Undisturbed
  <2> QED
    BY <2>1, <2>4, <2>5 DEF SyncInv
<1>28. CASE RemoveIntegration
    BY <1>28 DEF SyncInv, RemoveIntegration, OneSyncAtATime, LockReleased, Undisturbed, Syncing
<1>29. CASE RestoreIntegration
    BY <1>29, AsideKeepsLock DEF SyncInv, RestoreIntegration, Aside, Syncing
<1>25. CASE UNCHANGED syncVars
    BY <1>25, AsideKeepsLock DEF SyncInv, syncVars, Aside, Syncing
<1> QED
    BY <1>1, <1>2, <1>3, <1>4, <1>5, <1>6, <1>7, <1>8, <1>9, <1>10, <1>11, <1>12,
       <1>13, <1>14, <1>15, <1>16, <1>17, <1>18, <1>19, <1>20, <1>21, <1>22, <1>23,
       <1>24, <1>25, <1>26, <1>27, <1>28, <1>29
    DEF SyncNext, RequestStep, SyncJobStep

LEMMA SyncStarts == SyncInit => SyncInv
    BY DEF SyncInit, SyncInv, SyncShapes, SyncPlaces, OneSyncAtATime, LockReleased,
           Undisturbed, Syncing, JobPlaces

LEMMA SyncInvariant == SyncSpec => []SyncInv
<1> QED
    BY SyncStarts, SyncStep, PTL DEF SyncSpec

(* beginSync as one conditional update: for any number of runs, retries,   *)
(* schedules, crashes and failed statements, one synchronisation of an     *)
(* integration is at work at a time, until a run that fails after its      *)
(* release drops the lock of another.                                      *)
THEOREM OneSynchronisation == SyncSpec => []OneSyncAtATime
    BY SyncInvariant, PTL DEF SyncInv

(* Every way through a job releases the lock it took, so a lock that is    *)
(* held belongs to a synchronisation, for any number of runs and retries.  *)
THEOREM HeldLockBelongs == SyncSpec => []LockReleased
    BY SyncInvariant, PTL DEF SyncInv

-----------------------------------------------------------------------------
(* The shape of the runs, their jobs and their budgets.                    *)

LEMMA SyncTypeStep == SyncTypeOK /\ [SyncNext]_syncVars => SyncTypeOK'
<1> SUFFICES ASSUME SyncTypeOK, [SyncNext]_syncVars
             PROVE  SyncTypeOK'
    OBVIOUS
<1> USE SyncAssumption DEF SyncTypeOK, FreeLock, TakeLock, syncSetting, syncLock, JobPlaces, ActiveStatuses, FinalStatuses
<1>q. ASSUME NEW r \in RunIds, NEW count \in 0..MaxSyncTries - 1, Requeue(r, count)
      PROVE  /\ own' \subseteq RunIds /\ working' \in [RunIds -> JobPlaces \cup {"absent", "over"}]
             /\ attempts' \in [RunIds -> 0..MaxSyncTries - 1]
    BY <1>q DEF Requeue, MoveJob
<1>e. ASSUME NEW r \in RunIds, EndJob(r)
      PROVE  /\ own' \subseteq RunIds /\ working' \in [RunIds -> JobPlaces \cup {"absent", "over"}]
             /\ attempts' \in [RunIds -> 0..MaxSyncTries - 1]
    BY <1>e DEF EndJob, MoveJob
<1>m. ASSUME NEW r \in RunIds, NEW place \in JobPlaces \cup {"over"}, MoveJob(r, place)
      PROVE  working' \in [RunIds -> JobPlaces \cup {"absent", "over"}]
    BY <1>m DEF MoveJob
<1>t. ASSUME NEW r \in RunIds, Retry(r)
      PROVE  /\ own' \subseteq RunIds /\ working' \in [RunIds -> JobPlaces \cup {"absent", "over"}]
             /\ attempts' \in [RunIds -> 0..MaxSyncTries - 1]
  <2>1. attempts[r] + 1 < MaxSyncTries => attempts[r] + 1 \in 0..MaxSyncTries - 1
    OBVIOUS
  <2> QED BY <1>t, <1>q, <1>e, <2>1 DEF Retry
<1>1. ASSUME NEW r \in RunIds, RequestSync(r) PROVE SyncTypeOK'
    BY <1>1 DEF RequestSync, SetStatus, MoveJob, SyncFault
<1>2. ASSUME NEW r \in RunIds, CreateSyncRun(r) PROVE SyncTypeOK'
    BY <1>2 DEF CreateSyncRun, SetStatus, MoveJob, SyncFault
<1>3. ASSUME NEW r \in RunIds, ExecuteInline(r) PROVE SyncTypeOK'
    BY <1>3 DEF ExecuteInline, SetStatus, MoveJob, SyncFault
<1>4. ASSUME NEW r \in RunIds, AddSyncJob(r) PROVE SyncTypeOK'
    BY <1>4 DEF AddSyncJob, SetStatus, MoveJob, SyncFault
<1>5. ASSUME NEW r \in RunIds, AttachSyncRunJobId(r) PROVE SyncTypeOK'
    BY <1>5 DEF AttachSyncRunJobId, SetStatus, MoveJob, SyncFault
<1>6. ASSUME NEW r \in RunIds, EnqueueFails(r) PROVE SyncTypeOK'
    BY <1>6 DEF EnqueueFails, SetStatus, MoveJob, SyncFault
<1>7. ASSUME NEW r \in RunIds, FailUnqueued(r) PROVE SyncTypeOK'
    BY <1>7 DEF FailUnqueued, SetStatus, MoveJob, SyncFault
<1>8. ASSUME NEW r \in RunIds, ScheduledJob(r) PROVE SyncTypeOK'
    BY <1>8 DEF ScheduledJob, SetStatus, MoveJob, SyncFault
<1>9. ASSUME NEW r \in RunIds, StartSyncJob(r) PROVE SyncTypeOK'
    BY <1>9 DEF StartSyncJob, SetStatus, MoveJob, SyncFault
<1>10. ASSUME NEW r \in RunIds, PrepareScheduledRun(r) PROVE SyncTypeOK'
    BY <1>10 DEF PrepareScheduledRun, SetStatus, MoveJob, SyncFault
<1>11. ASSUME NEW r \in RunIds, MarkSyncRunRunning(r) PROVE SyncTypeOK'
    BY <1>11 DEF MarkSyncRunRunning, SetStatus, MoveJob, SyncFault
<1>12. ASSUME NEW r \in RunIds, BeginSync(r) PROVE SyncTypeOK'
    BY <1>12 DEF BeginSync, SetStatus, MoveJob, SyncFault
<1>13. ASSUME NEW r \in RunIds, RefuseSync(r) PROVE SyncTypeOK'
    BY <1>13 DEF RefuseSync, SetStatus, MoveJob, SyncFault
<1>14. ASSUME NEW r \in RunIds, Synchronise(r) PROVE SyncTypeOK'
    BY <1>14 DEF Synchronise, SetStatus, MoveJob, SyncFault
<1>15. ASSUME NEW r \in RunIds, ReleaseSync(r) PROVE SyncTypeOK'
    BY <1>15 DEF ReleaseSync, SetStatus, MoveJob, SyncFault
<1>16. ASSUME NEW r \in RunIds, CompleteSyncRun(r) PROVE SyncTypeOK'
    BY <1>16 DEF CompleteSyncRun, SetStatus, MoveJob, SyncFault
<1>17. ASSUME NEW r \in RunIds, PublishSyncCompleted(r) PROVE SyncTypeOK'
    BY <1>17 DEF PublishSyncCompleted, SetStatus, MoveJob, SyncFault
<1>18. ASSUME NEW r \in RunIds, FailSyncRun(r) PROVE SyncTypeOK'
  <2>1. runStatus' \in [RunIds -> ActiveStatuses \cup FinalStatuses \cup {"none"}]
        /\ UNCHANGED <<syncSetting, asking, syncLock, syncBudget>>
    BY <1>18 DEF FailSyncRun, SetStatus
  <2>2. CASE syncProvider = "ONE_C"
    <3>1. PICK place \in {"abort", "again", "over"} : MoveJob(r, place)
      BY <1>18, <2>2 DEF FailSyncRun
    <3>2. UNCHANGED <<own, attempts>>
      BY <1>18, <2>2 DEF FailSyncRun
    <3>3. working' \in [RunIds -> JobPlaces \cup {"absent", "over"}]
      BY <3>1, <1>m
    <3> QED BY <2>1, <3>2, <3>3
  <2>3. CASE syncProvider # "ONE_C"
    BY <1>18, <1>t, <2>1, <2>3 DEF FailSyncRun
  <2> QED BY <2>2, <2>3
<1>19. ASSUME NEW r \in RunIds, SyncStatementFails(r) PROVE SyncTypeOK'
  <2>1. /\ own' \subseteq RunIds /\ working' \in [RunIds -> JobPlaces \cup {"absent", "over"}]
        /\ attempts' \in [RunIds -> 0..MaxSyncTries - 1]
    <3>1. CASE Caught(r) /\ UNCHANGED <<own, attempts>>
      <4>1. PICK place \in JobPlaces : MoveJob(r, place)
        BY <3>1 DEF Caught
      <4> QED BY <3>1, <4>1, <1>m
    <3>2. CASE Retry(r)
      BY <3>2, <1>t
    <3> QED BY <1>19, <3>1, <3>2 DEF SyncStatementFails
  <2>2. lock' \in BOOLEAN /\ lockStale' \in BOOLEAN /\ UNCHANGED <<droppedAgain, syncSetting, runStatus, asking>>
    BY <1>19 DEF SyncStatementFails
  <2>3. syncBudget' \in 0..MaxSyncFaults
    BY <1>19 DEF SyncStatementFails, SyncFault
  <2> QED BY <2>1, <2>2, <2>3
<1>20. ASSUME NEW r \in RunIds, SyncWorkerDies(r) PROVE SyncTypeOK'
    BY <1>20, <1>q, <1>e DEF SyncWorkerDies, SetStatus, SyncFault
<1>21. ASSUME NEW r \in RunIds, SyncRequestDies(r) PROVE SyncTypeOK'
    BY <1>21 DEF SyncRequestDies, SetStatus, MoveJob, SyncFault
<1>22. CASE LockTimesOut
    BY <1>22 DEF LockTimesOut
<1>23. CASE CancelMoySkladSync
  <2>1. /\ lock' = FALSE /\ lockStale' = FALSE
        /\ UNCHANGED <<syncSetting, runStatus, own, asking, working, attempts, droppedAgain>>
    BY <1>23 DEF CancelMoySkladSync
  <2>2. syncBudget' \in 0..MaxSyncFaults
    BY <1>23 DEF CancelMoySkladSync, SyncFault
  <2> QED BY <2>1, <2>2
<1>24. ASSUME NEW value \in {"on", "inactive", "feature_disabled"}, ChangeEnabled(value) PROVE SyncTypeOK'
    BY <1>24 DEF ChangeEnabled, SyncFault
<1>26. ASSUME NEW r \in RunIds, TidyUp(r) PROVE SyncTypeOK'
    BY <1>26 DEF TidyUp, MoveJob
<1>27. ASSUME NEW r \in RunIds, ReleaseAgain(r) PROVE SyncTypeOK'
    BY <1>27 DEF ReleaseAgain, MoveJob
<1>28. CASE RemoveIntegration
    BY <1>28 DEF RemoveIntegration, SyncFault
<1>29. CASE RestoreIntegration
    BY <1>29 DEF RestoreIntegration
<1>25. CASE UNCHANGED syncVars
    BY <1>25 DEF syncVars
<1> QED
    BY <1>26, <1>27, <1>28, <1>29, <1>1, <1>2, <1>3, <1>4, <1>5, <1>6, <1>7, <1>8, <1>9, <1>10, <1>11, <1>12, <1>13, <1>14, <1>15, <1>16, <1>17, <1>18, <1>19, <1>20, <1>21, <1>22, <1>23, <1>24, <1>25
    DEF SyncNext, RequestStep, SyncJobStep

LEMMA SyncTypeStarts == SyncInit => SyncTypeOK
<1>1. 0 \in 0..MaxSyncTries - 1 /\ MaxSyncFaults \in 0..MaxSyncFaults
    BY SyncAssumption
<1> QED BY <1>1 DEF SyncInit, SyncTypeOK, ActiveStatuses, FinalStatuses, JobPlaces

-----------------------------------------------------------------------------
(* The shape of the events and of the drain, whose batch keeps to its      *)
(* limit.                                                                  *)

LEMMA HookTypeStep == HookTypeOK /\ [HookNext]_hookVars => HookTypeOK'
<1> SUFFICES ASSUME HookTypeOK, [HookNext]_hookVars
             PROVE  HookTypeOK'
    OBVIOUS
<1> USE HookAssumption DEF HookTypeOK, hookSetting, drain
<1>0. Cardinality({}) = 0
    BY FS_EmptySet
(* At most DrainLimit of the pending events are taken.                     *)
<1>l. ASSUME NEW E \in SUBSET Pending,
             Cardinality(E) = IF Cardinality(Pending) > DrainLimit
                              THEN DrainLimit ELSE Cardinality(Pending)
      PROVE  E \subseteq HookEvents /\ Cardinality(E) <= DrainLimit
  <2>1. Cardinality(Pending) \in Nat
    BY FS_Subset, FS_CardinalityType DEF Pending
  <2> QED BY <1>l, <2>1 DEF Pending
<1>p. Pending \subseteq HookEvents
    BY DEF Pending
<1>1. ASSUME NEW e \in HookEvents, ReceiveWebhook(e) PROVE HookTypeOK'
    BY <1>1 DEF ReceiveWebhook, MarkWebhookEvents, HookFault
<1>2. ASSUME NEW e \in HookEvents, EnqueueStockWebhookDrain(e) PROVE HookTypeOK'
    BY <1>2 DEF EnqueueStockWebhookDrain, MarkWebhookEvents, HookFault
<1>3. ASSUME NEW e \in HookEvents, MarkIikoProcessing(e) PROVE HookTypeOK'
    BY <1>3 DEF MarkIikoProcessing, MarkWebhookEvents, HookFault
<1>4. ASSUME NEW e \in HookEvents, ActOnIikoEvent(e) PROVE HookTypeOK'
    BY <1>4 DEF ActOnIikoEvent, MarkWebhookEvents, HookFault
<1>5. ASSUME NEW e \in HookEvents, SettleIikoEvent(e) PROVE HookTypeOK'
    BY <1>5 DEF SettleIikoEvent, MarkWebhookEvents, HookFault
<1>6. ASSUME NEW e \in HookEvents, RetryIikoWebhookEvent(e) PROVE HookTypeOK'
    BY <1>6 DEF RetryIikoWebhookEvent, MarkWebhookEvents, HookFault
<1>7. ASSUME NEW e \in HookEvents, ReceiverDies(e) PROVE HookTypeOK'
    BY <1>7 DEF ReceiverDies, MarkWebhookEvents, HookFault
<1>8. CASE StartDrain
  <2>1. UNCHANGED <<hookSetting, receiving, applied, hookBudget>>
    BY <1>8 DEF StartDrain
  <2>2. left' \subseteq HookEvents
    BY <1>8, <1>p DEF StartDrain
  <2>3. \/ UNCHANGED eventStatus
        \/ \E E \in SUBSET Pending : MarkWebhookEvents(E, Open, "SKIPPED")
    BY <1>8 DEF StartDrain
  <2>4. \/ drainAt' = "find" /\ UNCHANGED <<drainTries, batch>>
        \/ EndDrain
    BY <1>8 DEF StartDrain
  <2>5. eventStatus' \in [HookEvents -> {"none", "PENDING", "PROCESSING",
                                         "PROCESSED", "FAILED", "SKIPPED"}]
    BY <2>3 DEF MarkWebhookEvents
  <2>6. /\ drainAt' \in {"absent", "waiting", "find", "mark", "sync", "settle", "fail", "kept"}
        /\ drainTries' \in 0..MaxDrainTries - 1
        /\ batch' \subseteq HookEvents /\ Cardinality(batch') <= DrainLimit
    <3>1. CASE EndDrain
      <4>1. drainAt' = "absent" /\ drainTries' = 0 /\ batch' = {}
        BY <3>1 DEF EndDrain
      <4> QED BY <4>1, <1>0
    <3>2. CASE drainAt' = "find" /\ UNCHANGED <<drainTries, batch>>
      BY <3>2
    <3> QED BY <2>4, <3>1, <3>2
  <2> QED BY <2>1, <2>2, <2>5, <2>6
<1>9. CASE FindPendingWebhookEvents
  <2>1. UNCHANGED <<hookSetting, eventStatus, receiving, applied, hookBudget>>
    BY <1>9 DEF FindPendingWebhookEvents
  <2>2. CASE EndDrain /\ UNCHANGED left
    BY <2>1, <2>2, <1>0 DEF EndDrain
  <2>3. CASE ~(EndDrain /\ UNCHANGED left)
    <3>1. PICK E \in SUBSET Pending :
              /\ Cardinality(E) = IF Cardinality(Pending) > DrainLimit
                                  THEN DrainLimit ELSE Cardinality(Pending)
              /\ batch' = E
              /\ left' = (left \ E) \cup (Pending \ E)
      BY <1>9, <2>3 DEF FindPendingWebhookEvents
    <3>2. batch' \subseteq HookEvents /\ Cardinality(batch') <= DrainLimit
      BY <3>1, <1>l
    <3>3. drainAt' = "mark" /\ UNCHANGED drainTries
      BY <1>9, <2>3 DEF FindPendingWebhookEvents
    <3> QED BY <2>1, <3>1, <3>2, <3>3, <1>p
  <2> QED BY <2>2, <2>3
<1>10. CASE MarkWebhookEventsProcessing
    BY <1>10, <1>0 DEF MarkWebhookEventsProcessing, MarkWebhookEvents, HookFault, EndDrain, Pending
<1>11. CASE SyncWebhookStock
    BY <1>11, <1>0 DEF SyncWebhookStock, MarkWebhookEvents, HookFault, EndDrain, Pending
<1>12. CASE MarkDrained
    BY <1>12, <1>0 DEF MarkDrained, MarkWebhookEvents, HookFault, EndDrain, Pending
<1>13. CASE MarkDrainFailed
  <2>1. UNCHANGED <<hookSetting, receiving, applied, left, hookBudget>> /\ batch' = {}
    BY <1>13 DEF MarkDrainFailed
  <2>2. eventStatus' \in [HookEvents -> {"none", "PENDING", "PROCESSING",
                                         "PROCESSED", "FAILED", "SKIPPED"}]
    BY <1>13 DEF MarkDrainFailed, MarkWebhookEvents
  <2>3. drainAt' \in {"waiting", "kept"} /\ drainTries' \in 0..MaxDrainTries - 1
    BY <1>13 DEF MarkDrainFailed
  <2> QED BY <2>1, <2>2, <2>3, <1>0
<1>14. CASE RemoveFailedDrain
    BY <1>14, <1>0 DEF RemoveFailedDrain, MarkWebhookEvents, HookFault, EndDrain, Pending
<1>15. CASE DrainDies
    BY <1>15, <1>0 DEF DrainDies, MarkWebhookEvents, HookFault, EndDrain, Pending
<1>16. ASSUME NEW value \in {"on", "inactive", "feature_disabled"}, ChangeHookEnabled(value) PROVE HookTypeOK'
    BY <1>16 DEF ChangeHookEnabled, HookFault
<1>17. CASE UNCHANGED hookVars
    BY <1>17 DEF hookVars
<1> QED
    BY <1>1, <1>2, <1>3, <1>4, <1>5, <1>6, <1>7, <1>8, <1>9, <1>10, <1>11, <1>12, <1>13, <1>14, <1>15, <1>16, <1>17
    DEF HookNext, ReceiverStep, DrainStep

LEMMA HookTypeStarts == HookInit => HookTypeOK
<1>0. Cardinality({}) = 0
    BY FS_EmptySet
<1> QED BY <1>0, HookAssumption DEF HookInit, HookTypeOK

=============================================================================
