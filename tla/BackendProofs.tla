---------------------------- MODULE BackendProofs ----------------------------
(***************************************************************************)
(* What the run of Backend checks, from the proofs of its components: a    *)
(* step of Backend is a step of the one component the behaviour follows,   *)
(* and leaves the state of every other one alone.                          *)
(***************************************************************************)
EXTENDS Backend, OrderExportProofs, SyncProofs, ServiceProofs, CatalogProofs

LEMMA BackendMoves ==
    ASSUME [BackendNext]_backendVars
    PROVE  /\ [ExportNext]_exportVars /\ [SyncNext]_syncVars /\ [HookNext]_hookVars
           /\ [LockoutNext]_lockoutVars /\ [CacheNext]_cacheVars
           /\ [DomainNext]_domainVars /\ [MediaNext]_mediaVars
           /\ [AuthNext]_authVars /\ [MissingNext]_missingVars /\ [PagesNext]_pagesVars
<1>1. CASE UNCHANGED backendVars
    BY <1>1 DEF backendVars
<1>2. CASE BackendNext
  <2>1. focus = "export" => ExportNext /\ Rest("export")
    BY <1>2, SMTT(40) DEF BackendNext, ExportNext, JobStep
  <2>2. focus = "sync" => SyncNext /\ Rest("sync")
    BY <1>2, SMTT(40) DEF BackendNext, SyncNext, RequestStep, SyncJobStep
  <2>3. focus = "hooks" => HookNext /\ Rest("hooks")
    BY <1>2, SMTT(40) DEF BackendNext, HookNext, ReceiverStep, DrainStep
  <2>4. focus = "lockout" => LockoutNext /\ Rest("lockout")
    BY <1>2 DEF BackendNext, LockoutNext
  <2>5. focus = "cache" => CacheNext /\ Rest("cache")
    BY <1>2 DEF BackendNext, CacheNext
  <2>6. focus = "domains" => DomainNext /\ Rest("domains")
    BY <1>2 DEF BackendNext, DomainNext
  <2>7. focus = "media" => MediaNext /\ Rest("media")
    BY <1>2 DEF BackendNext, MediaNext
  <2>8. focus = "sessions" => AuthNext /\ Rest("sessions")
    BY <1>2 DEF BackendNext, AuthNext
  <2>9. focus = "missing" => MissingNext /\ Rest("missing")
    BY <1>2 DEF BackendNext, MissingNext
  <2>10. focus = "pages" => PagesNext /\ Rest("pages")
    BY <1>2 DEF BackendNext, PagesNext
  <2>11. focus \in Components
    BY <1>2 DEF BackendNext, Components
  <2> QED BY <2>1, <2>2, <2>3, <2>4, <2>5, <2>6, <2>7, <2>8, <2>9, <2>10, <2>11
      DEF Rest, Components
<1> QED BY <1>1, <1>2

(***************************************************************************)
(* The inductive invariants of the components, together.                   *)
(***************************************************************************)
BackendInv ==
    /\ ExportInv /\ SyncInv /\ HookInv
    /\ LockoutInv /\ CacheInv /\ DomainInv /\ MediaInv
    /\ AuthInv /\ MissingInv /\ PagesInv

LEMMA BackendStarts == BackendInit => BackendInv
    BY ExportStarts, SyncStarts, HookStarts, LockoutStarts, CacheStarts, DomainStarts, MediaStarts,
       AuthStarts, MissingStarts, PagesStarts
    DEF BackendInit, BackendInv

LEMMA BackendStep == BackendInv /\ [BackendNext]_backendVars => BackendInv'
    BY BackendMoves, ExportStep, SyncStep, HookStep, LockoutStep, CacheStep, DomainStep, MediaStep,
       AuthStep, MissingStep, PagesStep
    DEF BackendInv

(***************************************************************************)
(* The action properties of the run on the state this module describes: no *)
(* row goes back from SUCCESS, and no product is hidden that the provider  *)
(* offered in every snapshot, whichever component a behaviour follows.     *)
(***************************************************************************)
THEOREM BackendStepsSafely == BackendSpec => SuccessIsLast /\ HiddenOnlyWhenGone
<1>1. BackendInv /\ [BackendNext]_backendVars
          => [Quiet /\ row = "SUCCESS" => row' = "SUCCESS"]_exportVars
    BY BackendMoves, SuccessStep DEF BackendInv
<1>2. BackendInv /\ [BackendNext]_backendVars =>
          [\A i \in Items : product[i] = "ACTIVE" /\ product'[i] # "ACTIVE"
                                => i \in away \/ disturbances > 1]_missingVars
    BY BackendMoves, HidesOnlyGone DEF BackendInv
<1> QED
    BY <1>1, <1>2, BackendStarts, BackendStep, PTL
    DEF BackendSpec, SuccessIsLast, HiddenOnlyWhenGone

-----------------------------------------------------------------------------
(* The shape of the state, with the bounds of the counters: attempts stay   *)
(* below their limits, a drain takes no more than its limit, no version    *)
(* counts more than the writes.                                            *)
BackendTypes ==
    /\ focus \in Components
    /\ ExportTypeOK /\ SyncTypeOK /\ HookTypeOK /\ LockoutTypeOK
    /\ CacheTypes /\ DomainTypes /\ MediaTypeOK

LEMMA BackendTypesStart == BackendInit => BackendTypes
    BY ExportTypeStarts, SyncTypeStarts, HookTypeStarts, LockoutTypeStarts,
       CacheTypesStart, DomainTypesStart, MediaTypeStarts
    DEF BackendInit, BackendTypes

LEMMA BackendTypesStep ==
    BackendInv /\ BackendTypes /\ [BackendNext]_backendVars => BackendTypes'
<1> SUFFICES ASSUME BackendInv, BackendTypes, [BackendNext]_backendVars
             PROVE  BackendTypes'
    BY SMTT(40)
<1>1. UNCHANGED focus
    BY DEF BackendNext, Rest, backendVars
<1>2. /\ ExportTypeOK' /\ SyncTypeOK' /\ HookTypeOK' /\ LockoutTypeOK'
      /\ CacheTypes' /\ DomainTypes' /\ MediaTypeOK'
    BY BackendMoves, ExportTypeStep, SyncTypeStep, HookTypeStep, LockoutTypeStep,
       CacheTypesStep, DomainTypesStep, MediaTypeStep
    DEF BackendInv, BackendTypes
<1> QED BY <1>1, <1>2 DEF BackendTypes

(***************************************************************************)
(* The component that moves keeps its types: no retry exceeds its limit,   *)
(* no batch of the drain its size, no counter its budget.                  *)
(***************************************************************************)
THEOREM BackendTypeCorrect == BackendSpec => []BackendTypeOK
<1>1. BackendInv /\ BackendTypes => BackendTypeOK
    BY DEF BackendInv, BackendTypes, BackendTypeOK, Components, CacheTypes, DomainTypes,
           AuthInv, MissingInv, PagesInv
<1> QED
    BY <1>1, BackendStarts, BackendStep, BackendTypesStart, BackendTypesStep, PTL DEF BackendSpec

=============================================================================
