CONSTANTS
    Copies = {1}
    MaxTries = 2
    ExportSetups <- MCExportSetups
    MaxExportFaults = 1
    MaxToggles = 1
    MaxRuns = 2
    MaxSyncTries = 2
    SyncFaultSets = {{"crash", "database"}, {"settings"}, {"removal", "cancel"}}
    MaxSyncFaults = 1
    HookEvents = {e1, e2}
    DrainLimit = 1
    MaxDrainTries = 2
    HookFaultSets = {{"crash"}, {"settings"}}
    MaxHookFaults = 1
    Requests = {p1, p2}
    MaxSessions = 2
    MaxLogins = 1
    MaxClosings = 1
    MaxAuthFaults = 1
    NoSession = NoSession
    Attempts = {a1, a2}
    LockoutAttempts = 2
    MaxAttemptsLost = 1
    Scopes = {own, buyer}
    Readers = {r1}
    MaxWrites = 1
    MaxCacheFaults = 1
    Items = {1, 2}
    PageLimit = 1
    Confirmations = 2
    MaxDisturbances = 1
    MaxSyncErrors = 1
    c1 = c1
    c2 = c2
    h1 = h1
    h2 = h2
    Catalogs = {c1, c2}
    Hosts = {h1, h2}
    HolderOf <- MCHolderOf
    Pointed = {h1}
    CheckLimit = 1
    MaxTokens = 2
    MaxDomainFaults = 1
    Keys = {k1, k2}
    Variants = 2
    Uploads = {j1, j2}
    MaxUploadTries = 2
    MaxMediaFaults = 1
    CardIds = {1, 2, 3}
    CardPositions = {0, 1}
    CardLimits = {1, 2}
    MaxChanges = 1
SPECIFICATION BackendSpec
INVARIANTS
    BackendTypeOK
    SuccessMeansExported
    ExportedOnce
    OneSyncAtATime
    LockReleased
    ProcessedMeansApplied
    OldSessionsClosed
    CounterGuarded
    ReadsFresh
    ActiveIsProven
    MediaKept
    PagesComplete
PROPERTIES
    SuccessIsLast
    ExportSettles
    RunsEnd
    EventsSettle
    StaleEnds
    HiddenOnlyWhenGone
    DomainsActivate
CHECK_DEADLOCK FALSE
