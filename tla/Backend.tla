------------------------------ MODULE Backend -------------------------------
(***************************************************************************)
(* The components around the shop floor, for one run.  They keep their     *)
(* state in rows and keys of their own and meet only through what each     *)
(* module lists as its environment, so an interleaving of two of them is a *)
(* shuffle of a behaviour of one and a behaviour of the other: a behaviour *)
(* here follows one component, the others rest in an initial state.        *)
(***************************************************************************)
EXTENDS OrderExport, SyncRuns, WebhookEvents, AuthSessions, LoginLockout,
        VersionedCache, MissingProducts, CatalogDomains, MediaUploads, CategoryPages

VARIABLE focus   \* the component this behaviour follows

Components == {"export", "sync", "hooks", "sessions", "lockout", "cache",
               "missing", "domains", "media", "pages"}

backendVars == <<focus, exportVars, syncVars, hookVars, authVars, lockoutVars,
                 cacheVars, missingVars, domainVars, mediaVars, pagesVars>>

(* The component that moves keeps its types; the others do not change.     *)
BackendTypeOK ==
    CASE focus = "export" -> ExportTypeOK
      [] focus = "sync" -> SyncTypeOK
      [] focus = "hooks" -> HookTypeOK
      [] focus = "sessions" -> AuthTypeOK
      [] focus = "lockout" -> LockoutTypeOK
      [] focus = "cache" -> CacheTypeOK
      [] focus = "missing" -> MissingTypeOK
      [] focus = "domains" -> DomainTypeOK
      [] focus = "media" -> MediaTypeOK
      [] focus = "pages" -> PagesTypeOK

(* Where a component has several initial states, one is enough to rest in. *)
Rests(c, x, S) == focus = c \/ x = CHOOSE y \in S : TRUE

BackendInit ==
    /\ focus \in Components
    /\ ExportInit /\ Rests("export", ExportSetup, ExportSetups)
    /\ SyncInit /\ Rests("sync", syncProvider, {"IIKO"})
                /\ Rests("sync", syncFaults, SyncFaultSets)
    /\ HookInit /\ Rests("hooks", hookProvider, {"IIKO"})
                /\ Rests("hooks", hookFaults, HookFaultSets)
    /\ AuthInit /\ LockoutInit /\ CacheInit
    /\ MissingInit /\ Rests("missing", source, {"IIKO"})
                   /\ Rests("missing", syncStock, BOOLEAN)
    /\ DomainInit /\ MediaInit
    /\ PagesInit /\ Rests("pages", <<places, shown>>, {<<{}, {}>>})
                 /\ Rests("pages", cardLimit, CardLimits)

(* All but component c rest.                                               *)
Rest(c) ==
    /\ UNCHANGED focus
    /\ c # "export" => UNCHANGED exportVars
    /\ c # "sync" => UNCHANGED syncVars
    /\ c # "hooks" => UNCHANGED hookVars
    /\ c # "sessions" => UNCHANGED authVars
    /\ c # "lockout" => UNCHANGED lockoutVars
    /\ c # "cache" => UNCHANGED cacheVars
    /\ c # "missing" => UNCHANGED missingVars
    /\ c # "domains" => UNCHANGED domainVars
    /\ c # "media" => UNCHANGED mediaVars
    /\ c # "pages" => UNCHANGED pagesVars
-----------------------------------------------------------------------------
BackendNext ==
    \/ focus = "export" /\ EnqueueCompletedOrder /\ Rest("export")
    \/ focus = "export" /\ RetryOrderExport /\ Rest("export")
    \/ focus = "export" /\ FindRunnableOrderExports /\ Rest("export")
    \/ focus = "export" /\ ReconcileOrderExport /\ Rest("export")
    \/ focus = "export" /\ WindowPasses /\ Rest("export")
    \/ focus = "export" /\ ApplyIikoOrderWebhook /\ Rest("export")
    \/ focus = "export" /\ DocumentArrives /\ Rest("export")
    \/ focus = "export" /\ (\E t \in Triggers : AddRequested(t)) /\ Rest("export")
    \/ focus = "export" /\ (\E t \in Triggers : LoseAdd(t)) /\ Rest("export")
    \/ focus = "export" /\ (\E j \in JobIds : TakeJob(j)) /\ Rest("export")
    \/ focus = "export" /\ (\E j \in JobIds : ReadExport(j)) /\ Rest("export")
    \/ focus = "export" /\ (\E j \in JobIds : SkipDisabled(j)) /\ Rest("export")
    \/ focus = "export" /\ (\E j \in JobIds : MarkOrderExportRunning(j)) /\ Rest("export")
    \/ focus = "export" /\ (\E j \in JobIds : BuildPayload(j)) /\ Rest("export")
    \/ focus = "export" /\ (\E j \in JobIds : FindCustomerOrder(j)) /\ Rest("export")
    \/ focus = "export" /\ (\E j \in JobIds : CreateCustomerOrder(j)) /\ Rest("export")
    \/ focus = "export" /\ (\E j \in JobIds : CreateIikoOrder(j)) /\ Rest("export")
    \/ focus = "export" /\ (\E j \in JobIds : WaitForCommandCompletion(j)) /\ Rest("export")
    \/ focus = "export" /\ (\E j \in JobIds : MarkOrderExportSuccess(j)) /\ Rest("export")
    \/ focus = "export" /\ (\E j \in JobIds : MarkOrderExportError(j)) /\ Rest("export")
    \/ focus = "export" /\ (\E j \in JobIds : MarkRefused(j)) /\ Rest("export")
    \/ focus = "export" /\ (\E j \in JobIds : RemoveJob(j)) /\ Rest("export")
    \/ focus = "export" /\ (\E j \in JobIds : ProviderFails(j)) /\ Rest("export")
    \/ focus = "export" /\ (\E j \in JobIds : DatabaseFails(j)) /\ Rest("export")
    \/ focus = "export" /\ (\E j \in JobIds : WorkerDies(j)) /\ Rest("export")
    \/ focus = "export" /\ (\E f \in {"feature", "active", "exportOrders"} : ToggleSettings(f)) /\ Rest("export")
    \/ focus = "sync" /\ LockTimesOut /\ Rest("sync")
    \/ focus = "sync" /\ CancelMoySkladSync /\ Rest("sync")
    \/ focus = "sync" /\ RemoveIntegration /\ Rest("sync")
    \/ focus = "sync" /\ RestoreIntegration /\ Rest("sync")
    \/ focus = "sync" /\ (\E r \in RunIds : RequestSync(r)) /\ Rest("sync")
    \/ focus = "sync" /\ (\E r \in RunIds : CreateSyncRun(r)) /\ Rest("sync")
    \/ focus = "sync" /\ (\E r \in RunIds : AddSyncJob(r)) /\ Rest("sync")
    \/ focus = "sync" /\ (\E r \in RunIds : AttachSyncRunJobId(r)) /\ Rest("sync")
    \/ focus = "sync" /\ (\E r \in RunIds : FailUnqueued(r)) /\ Rest("sync")
    \/ focus = "sync" /\ (\E r \in RunIds : ExecuteInline(r)) /\ Rest("sync")
    \/ focus = "sync" /\ (\E r \in RunIds : EnqueueFails(r)) /\ Rest("sync")
    \/ focus = "sync" /\ (\E r \in RunIds : ScheduledJob(r)) /\ Rest("sync")
    \/ focus = "sync" /\ (\E r \in RunIds : StartSyncJob(r)) /\ Rest("sync")
    \/ focus = "sync" /\ (\E r \in RunIds : PrepareScheduledRun(r)) /\ Rest("sync")
    \/ focus = "sync" /\ (\E r \in RunIds : MarkSyncRunRunning(r)) /\ Rest("sync")
    \/ focus = "sync" /\ (\E r \in RunIds : BeginSync(r)) /\ Rest("sync")
    \/ focus = "sync" /\ (\E r \in RunIds : RefuseSync(r)) /\ Rest("sync")
    \/ focus = "sync" /\ (\E r \in RunIds : Synchronise(r)) /\ Rest("sync")
    \/ focus = "sync" /\ (\E r \in RunIds : ReleaseSync(r)) /\ Rest("sync")
    \/ focus = "sync" /\ (\E r \in RunIds : TidyUp(r)) /\ Rest("sync")
    \/ focus = "sync" /\ (\E r \in RunIds : ReleaseAgain(r)) /\ Rest("sync")
    \/ focus = "sync" /\ (\E r \in RunIds : CompleteSyncRun(r)) /\ Rest("sync")
    \/ focus = "sync" /\ (\E r \in RunIds : PublishSyncCompleted(r)) /\ Rest("sync")
    \/ focus = "sync" /\ (\E r \in RunIds : FailSyncRun(r)) /\ Rest("sync")
    \/ focus = "sync" /\ (\E r \in RunIds : SyncStatementFails(r)) /\ Rest("sync")
    \/ focus = "sync" /\ (\E r \in RunIds : SyncWorkerDies(r)) /\ Rest("sync")
    \/ focus = "sync" /\ (\E r \in RunIds : SyncRequestDies(r)) /\ Rest("sync")
    \/ focus = "sync" /\ (\E value \in {"on", "inactive", "feature_disabled"} : ChangeEnabled(value)) /\ Rest("sync")
    \/ focus = "hooks" /\ StartDrain /\ Rest("hooks")
    \/ focus = "hooks" /\ FindPendingWebhookEvents /\ Rest("hooks")
    \/ focus = "hooks" /\ MarkWebhookEventsProcessing /\ Rest("hooks")
    \/ focus = "hooks" /\ SyncWebhookStock /\ Rest("hooks")
    \/ focus = "hooks" /\ MarkDrained /\ Rest("hooks")
    \/ focus = "hooks" /\ MarkDrainFailed /\ Rest("hooks")
    \/ focus = "hooks" /\ RemoveFailedDrain /\ Rest("hooks")
    \/ focus = "hooks" /\ DrainDies /\ Rest("hooks")
    \/ focus = "hooks" /\ (\E e \in HookEvents : ReceiveWebhook(e)) /\ Rest("hooks")
    \/ focus = "hooks" /\ (\E e \in HookEvents : EnqueueStockWebhookDrain(e)) /\ Rest("hooks")
    \/ focus = "hooks" /\ (\E e \in HookEvents : MarkIikoProcessing(e)) /\ Rest("hooks")
    \/ focus = "hooks" /\ (\E e \in HookEvents : ActOnIikoEvent(e)) /\ Rest("hooks")
    \/ focus = "hooks" /\ (\E e \in HookEvents : SettleIikoEvent(e)) /\ Rest("hooks")
    \/ focus = "hooks" /\ (\E e \in HookEvents : RetryIikoWebhookEvent(e)) /\ Rest("hooks")
    \/ focus = "hooks" /\ (\E e \in HookEvents : ReceiverDies(e)) /\ Rest("hooks")
    \/ focus = "hooks" /\ (\E value \in {"on", "inactive", "feature_disabled"} : ChangeHookEnabled(value)) /\ Rest("hooks")
    \/ focus = "sessions" /\ CreateHandoff /\ Rest("sessions")
    \/ focus = "sessions" /\ HandoffExpires /\ Rest("sessions")
    \/ focus = "sessions" /\ (\E p \in Requests : ValidateUser(p)) /\ Rest("sessions")
    \/ focus = "sessions" /\ (\E p \in Requests : ReuseSession(p)) /\ Rest("sessions")
    \/ focus = "sessions" /\ (\E p \in Requests : CreateForUser(p)) /\ Rest("sessions")
    \/ focus = "sessions" /\ (\E p \in Requests : ConsumeHandoff(p)) /\ Rest("sessions")
    \/ focus = "sessions" /\ (\E p \in Requests : VerifyCurrentPassword(p)) /\ Rest("sessions")
    \/ focus = "sessions" /\ (\E p \in Requests : UpdatePassword(p)) /\ Rest("sessions")
    \/ focus = "sessions" /\ (\E p \in Requests : RevokeOtherSessions(p)) /\ Rest("sessions")
    \/ focus = "sessions" /\ (\E p \in Requests : ReadKept(p)) /\ Rest("sessions")
    \/ focus = "sessions" /\ (\E p \in Requests : ListForUser(p)) /\ Rest("sessions")
    \/ focus = "sessions" /\ (\E p \in Requests : DeleteListed(p)) /\ Rest("sessions")
    \/ focus = "sessions" /\ (\E p \in Requests : ResetLogins(p)) /\ Rest("sessions")
    \/ focus = "sessions" /\ (\E p \in Requests : Logout(p)) /\ Rest("sessions")
    \/ focus = "sessions" /\ (\E p \in Requests : DeleteSession(p)) /\ Rest("sessions")
    \/ focus = "sessions" /\ (\E p \in Requests : ReadPrimary(p)) /\ Rest("sessions")
    \/ focus = "sessions" /\ (\E p \in Requests : DeletePrimary(p)) /\ Rest("sessions")
    \/ focus = "sessions" /\ (\E p \in Requests : RedisReadFails(p)) /\ Rest("sessions")
    \/ focus = "sessions" /\ (\E p \in Requests : RequestDies(p)) /\ Rest("sessions")
    \/ focus = "sessions" /\ (\E s \in Sids : SessionExpires(s)) /\ Rest("sessions")
    \/ focus = "lockout" /\ FailsWindowPasses /\ Rest("lockout")
    \/ focus = "lockout" /\ LockoutPasses /\ Rest("lockout")
    \/ focus = "lockout" /\ (\E p \in Attempts : CheckLockout(p)) /\ Rest("lockout")
    \/ focus = "lockout" /\ (\E p \in Attempts : ValidateAttempt(p)) /\ Rest("lockout")
    \/ focus = "lockout" /\ (\E p \in Attempts : IncrementFails(p)) /\ Rest("lockout")
    \/ focus = "lockout" /\ (\E p \in Attempts : ExpireFails(p)) /\ Rest("lockout")
    \/ focus = "lockout" /\ (\E p \in Attempts : SetLockout(p)) /\ Rest("lockout")
    \/ focus = "lockout" /\ (\E p \in Attempts : ClearFailedAttempts(p)) /\ Rest("lockout")
    \/ focus = "lockout" /\ (\E p \in Attempts : AttemptDies(p)) /\ Rest("lockout")
    \/ focus = "cache" /\ (\E s \in Scopes : CommitWrite(s)) /\ Rest("cache")
    \/ focus = "cache" /\ (\E s \in Scopes : BumpVersion(s)) /\ Rest("cache")
    \/ focus = "cache" /\ (\E s \in Scopes : BumpFails(s)) /\ Rest("cache")
    \/ focus = "cache" /\ (\E p \in Readers : BeginRead(p)) /\ Rest("cache")
    \/ focus = "cache" /\ (\E p \in Readers : GetJson(p)) /\ Rest("cache")
    \/ focus = "cache" /\ (\E p \in Readers : Load(p)) /\ Rest("cache")
    \/ focus = "cache" /\ (\E p \in Readers : SetJson(p)) /\ Rest("cache")
    \/ focus = "cache" /\ (\E p \in Readers, s \in Scopes : GetVersion(p, s)) /\ Rest("cache")
    \/ focus = "cache" /\ (\E k \in Versions : ExpireEntry(k)) /\ Rest("cache")
    \/ focus = "missing" /\ GetAssortmentPage /\ Rest("missing")
    \/ focus = "missing" /\ GetInOneAnswer /\ Rest("missing")
    \/ focus = "missing" /\ GetNothing /\ Rest("missing")
    \/ focus = "missing" /\ EndItems /\ Rest("missing")
    \/ focus = "missing" /\ EndHide /\ Rest("missing")
    \/ focus = "missing" /\ SnapshotDies /\ Rest("missing")
    \/ focus = "missing" /\ (\E i \in Items : Depart(i)) /\ Rest("missing")
    \/ focus = "missing" /\ (\E i \in Items : Arrive(i)) /\ Rest("missing")
    \/ focus = "missing" /\ (\E i \in Items : Withhold(i)) /\ Rest("missing")
    \/ focus = "missing" /\ (\E i \in Items : OfferAgain(i)) /\ Rest("missing")
    \/ focus = "missing" /\ (\E i \in Items : DeactivateUnsyncable(i)) /\ Rest("missing")
    \/ focus = "missing" /\ (\E i \in Items : SyncItem(i)) /\ Rest("missing")
    \/ focus = "missing" /\ (\E i \in Items : UpsertProductLink(i)) /\ Rest("missing")
    \/ focus = "missing" /\ (\E i \in Items : ItemFails(i)) /\ Rest("missing")
    \/ focus = "missing" /\ (\E i \in Items : HideMissing(i)) /\ Rest("missing")
    \/ focus = "missing" /\ (\E whole \in BOOLEAN : BeginSnapshot(whole)) /\ Rest("missing")
    \/ focus = "domains" /\ ListPendingDns /\ Rest("domains")
    \/ focus = "domains" /\ ResolvePending /\ Rest("domains")
    \/ focus = "domains" /\ RecordPending /\ Rest("domains")
    \/ focus = "domains" /\ RecordFails /\ Rest("domains")
    \/ focus = "domains" /\ (\E h \in Hosts : PublishTxt(h)) /\ Rest("domains")
    \/ focus = "domains" /\ (\E h \in Hosts : RemoveTxt(h)) /\ Rest("domains")
    \/ focus = "domains" /\ (\E c \in Catalogs : InsertDomain(c)) /\ Rest("domains")
    \/ focus = "domains" /\ (\E c \in Catalogs : ReaddDomain(c)) /\ Rest("domains")
    \/ focus = "domains" /\ (\E c \in Catalogs : ResolveManual(c)) /\ Rest("domains")
    \/ focus = "domains" /\ (\E c \in Catalogs : RecordManual(c)) /\ Rest("domains")
    \/ focus = "domains" /\ (\E c \in Catalogs : AskFails(c)) /\ Rest("domains")
    \/ focus = "domains" /\ (\E c \in Catalogs, h \in Hosts : FindHostname(c, h)) /\ Rest("domains")
    \/ focus = "domains" /\ (\E c \in Catalogs, h \in Hosts : DisableDomain(c, h)) /\ Rest("domains")
    \/ focus = "domains" /\ (\E c \in Catalogs, h \in Hosts : RequireDomain(c, h)) /\ Rest("domains")
    \/ focus = "media" /\ LoadHeads /\ Rest("media")
    \/ focus = "media" /\ MarkMediaAsProcessing /\ Rest("media")
    \/ focus = "media" /\ EnqueueLost /\ Rest("media")
    \/ focus = "media" /\ (\E k \in Keys : CreatePresignRecord(k)) /\ Rest("media")
    \/ focus = "media" /\ (\E k \in Keys : PutRaw(k)) /\ Rest("media")
    \/ focus = "media" /\ (\E k \in Keys : AbortMultipartUpload(k)) /\ Rest("media")
    \/ focus = "media" /\ (\E items \in ItemLists : EnqueueFromS3(items)) /\ Rest("media")
    \/ focus = "media" /\ (\E j \in Uploads : AddUpload(j)) /\ Rest("media")
    \/ focus = "media" /\ (\E j \in Uploads : DownloadRaw(j)) /\ Rest("media")
    \/ focus = "media" /\ (\E j \in Uploads : PutVariant(j)) /\ Rest("media")
    \/ focus = "media" /\ (\E j \in Uploads : DropRaw(j)) /\ Rest("media")
    \/ focus = "media" /\ (\E j \in Uploads : CreateMediaRecord(j)) /\ Rest("media")
    \/ focus = "media" /\ (\E j \in Uploads : UploadFails(j)) /\ Rest("media")
    \/ focus = "media" /\ (\E j \in Uploads : ForgetUpload(j)) /\ Rest("media")
    \/ focus = "pages" /\ AskPage /\ Rest("pages")
    \/ focus = "pages" /\ LoadItems /\ Rest("pages")
    \/ focus = "pages" /\ MapItems /\ Rest("pages")
    \/ focus = "pages" /\ (\E i \in CardIds : RemoveCard(i)) /\ Rest("pages")
    \/ focus = "pages" /\ (\E i \in CardIds : ShowOrHide(i)) /\ Rest("pages")
    \/ focus = "pages" /\ (\E i \in CardIds, pos \in CardPositions : PlaceCard(i, pos)) /\ Rest("pages")

(* The fairness of each component, for the one that moves.                 *)
BackendFairness ==
    /\ \A j \in JobIds : WF_exportVars(focus = "export" /\ JobStep(j))
    /\ WF_exportVars(focus = "export" /\ ReconcileStep)
    /\ WF_exportVars(focus = "export" /\ WindowPasses)
    /\ \A r \in RunIds : /\ WF_syncVars(focus = "sync" /\ RequestStep(r))
                        /\ WF_syncVars(focus = "sync" /\ SyncJobStep(r))
    /\ WF_syncVars(focus = "sync" /\ LockTimesOut)
    /\ \A e \in HookEvents : WF_hookVars(focus = "hooks" /\ ReceiverStep(e))
    /\ WF_hookVars(focus = "hooks" /\ DrainStep)
    /\ \A k \in Versions : WF_cacheVars(focus = "cache" /\ ExpireEntry(k))
    /\ WF_domainVars(focus = "domains" /\ ListPendingDns)
    /\ WF_domainVars(focus = "domains" /\ ResolvePending)
    /\ WF_domainVars(focus = "domains" /\ RecordPending)

BackendSpec == BackendInit /\ [][BackendNext]_backendVars /\ BackendFairness
=============================================================================
