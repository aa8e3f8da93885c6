-------------------------- MODULE OrderExportProofs --------------------------
(***************************************************************************)
(* Proofs about the export of orders: the row that says SUCCESS, and the   *)
(* documents of an order.                                                  *)
(***************************************************************************)
EXTENDS OrderExport, TLAPS

-----------------------------------------------------------------------------
(* The invariant.                                                          *)

ExportShapes == /\ provider \in {"IIKO", "MOYSKLAD"}
                /\ at \in [JobIds -> Places]
                /\ documents \in Nat /\ onTheWay \in Nat
                /\ row \in {"none", "PENDING", "RUNNING", "SUCCESS", "ERROR", "SKIPPED"}

(* A job that is about to write SUCCESS has its document.                  *)
SuccessBacked == \A j \in JobIds : at[j] = "success" => documents > 0

(* The job that is past the claim owns the row: it is RUNNING and not      *)
(* stale, so that nobody else can claim it.                                *)
SenderOwns ==
    Quiet => /\ settings = AllOn /\ readExports = TRUE
             /\ \A j \in JobIds : at[j] # "skip"
             /\ \A j, k \in Senders : j = k
             /\ Senders # {} => row = "RUNNING" /\ ~stale

(* MoySklad gets a document only after the lookup found none, and only     *)
(* iiko has commands to poll.                                              *)
OneDocument ==
    Quiet => /\ documents <= 1 /\ onTheWay = 0
             /\ \A j \in JobIds :
                   /\ at[j] = "create" /\ provider = "MOYSKLAD" => documents = 0
                   /\ at[j] = "poll" => provider = "IIKO"

ExportInv == /\ ExportShapes /\ SuccessBacked /\ SuccessMeansExported
             /\ SenderOwns /\ OneDocument

-----------------------------------------------------------------------------
(* The steps that move no job into or within the part after the claim.     *)

LEMMA OverPlaces == \A j \in JobIds : Over(j) \in {"ended", "absent"}
    BY DEF Over

Still == /\ UNCHANGED <<provider, exportFaults, settings, documents, onTheWay>>
         /\ readExports' \in {readExports, settings.exportOrders}
         /\ at' \in [JobIds -> Places]
         /\ \A j \in JobIds : \/ at'[j] = at[j]
                              \/ at'[j] \in {"absent", "waiting", "ended", "read", "claim"}

(* Such a step keeps the invariant when it leaves the row to its sender    *)
(* and writes no SUCCESS.                                                  *)
LEMMA StillStep ==
    ASSUME ExportInv, Still,
           row' \in {"none", "PENDING", "RUNNING", "SUCCESS", "ERROR", "SKIPPED"},
           row' = "SUCCESS" => row = "SUCCESS",
           Quiet /\ Senders' # {} => row' = "RUNNING" /\ ~stale'
    PROVE  ExportInv'
<1> USE DEF ExportInv, ExportShapes, Still
<1>1. Senders' \subseteq Senders /\ (Quiet' <=> Quiet)
    BY DEF Senders, Sending, Quiet
<1>2. ExportShapes' /\ SuccessBacked' /\ SuccessMeansExported'
    BY DEF SuccessBacked, SuccessMeansExported
<1>5. Quiet => readExports' = TRUE
  <2>1. AllOn.exportOrders = TRUE
    BY DEF AllOn
  <2>2. Quiet => settings = AllOn /\ readExports = TRUE
    BY DEF SenderOwns
  <2>3. readExports' \in {readExports, settings.exportOrders}
    OBVIOUS
  <2> QED BY ONLY <2>1, <2>2, <2>3
<1>3. SenderOwns'
    BY <1>1, <1>5 DEF SenderOwns
<1>4. OneDocument'
    BY <1>1 DEF OneDocument
<1> QED BY <1>2, <1>3, <1>4

(* The steps of the job that owns the row.                                 *)
LEMMA SenderStep ==
    ASSUME ExportInv, NEW j \in JobIds, at[j] \in Sending, NEW place \in Places,
           at' = [at EXCEPT ![j] = place],
           UNCHANGED <<provider, exportFaults, settings>>,
           documents' \in Nat, onTheWay' \in Nat, readExports' = readExports,
           place = "success" \/ row' = "SUCCESS" => documents' > 0,
           documents > 0 => documents' > 0,
           row' \in {"none", "PENDING", "RUNNING", "SUCCESS", "ERROR", "SKIPPED"},
           Quiet => /\ documents' <= 1 /\ onTheWay' = 0
                    /\ place # "skip"
                    /\ place = "create" /\ provider = "MOYSKLAD" => documents' = 0
                    /\ place = "poll" => provider = "IIKO"
                    /\ place \in Sending => UNCHANGED <<row, stale>>
    PROVE  ExportInv'
<1> USE DEF ExportInv, ExportShapes
<1>1. Quiet' <=> Quiet
    BY DEF Quiet
<1>2. ExportShapes' /\ SuccessBacked'
    BY DEF SuccessBacked
<1>3. SuccessMeansExported'
    BY DEF SuccessMeansExported
<1>4. ASSUME Quiet PROVE \A k \in JobIds \ {j} : at[k] \notin Sending /\ at'[k] = at[k]
    BY <1>4 DEF SenderOwns, Senders
<1>5. SenderOwns'
    BY <1>1, <1>4 DEF SenderOwns, Senders
<1>6. OneDocument'
    BY <1>1, <1>4 DEF OneDocument, Sending
<1> QED BY <1>2, <1>3, <1>5, <1>6

-----------------------------------------------------------------------------
LEMMA ExportStep == ExportInv /\ [ExportNext]_exportVars => ExportInv'
<1> SUFFICES ASSUME ExportInv, [ExportNext]_exportVars
             PROVE  ExportInv'
    OBVIOUS
<1>t. /\ ExportShapes /\ (Quiet /\ Senders # {} => row = "RUNNING" /\ ~stale)
      /\ (Quiet => settings = AllOn /\ readExports = TRUE /\ onTheWay = 0 /\ \A j \in JobIds : at[j] # "skip")
    BY DEF ExportInv, SenderOwns, OneDocument
<1> USE <1>t DEF ExportShapes, environment, setup, requests, Goto, End
(* A request that is given up makes at most one more document. *)
<1>a. ASSUME Abandon
      PROVE  /\ documents' \in {documents, 1, documents + 1} /\ documents' \in Nat
             /\ onTheWay' \in Nat
             /\ provider = "IIKO" => documents' \in {documents, 1}
             /\ documents > 0 => documents' > 0
             /\ Quiet => onTheWay' = 0
    BY <1>a DEF Abandon, Quiet
(* Steps that move no sender. *)
<1>1. CASE EnqueueCompletedOrder
    BY <1>1, StillStep DEF EnqueueCompletedOrder, CreatePendingOrderExport, Still, Senders
<1>2. CASE RetryOrderExport
    BY <1>2, StillStep DEF RetryOrderExport, ResetOrderExportForRetry, Still, Senders
<1>3. ASSUME NEW t \in Triggers, EnqueueExportRecord(t) PROVE ExportInv'
  <2>1. Still /\ UNCHANGED <<row, stale>>
    BY <1>3 DEF EnqueueExportRecord, Still, Places
  <2>2. Senders' \subseteq Senders
    BY <2>1 DEF Senders, Still, Sending
  <2> QED BY <2>1, <2>2, StillStep
<1>4. ASSUME NEW t \in Triggers, LoseAdd(t) PROVE ExportInv'
    BY <1>4, StillStep DEF LoseAdd, Still, Senders, Fault
<1>5. CASE FindRunnableOrderExports
    BY <1>5, StillStep DEF FindRunnableOrderExports, Still, Senders
<1>6. CASE ReconcileOrderExport
  <2>1. CASE EnqueueExportRecord("RECONCILIATION")
    BY <2>1, <1>3 DEF Triggers
  <2>2. CASE ~EnqueueExportRecord("RECONCILIATION")
    <3>1. Still /\ Senders' = Senders /\ (stale' = stale) /\ (Quiet => row' = row)
          /\ row' \in {row, "SKIPPED"}
      BY <1>6, <2>2 DEF ReconcileOrderExport, MarkOrderExportSkipped, Still, Senders, AllOn
    <3> QED BY <3>1, StillStep
  <2> QED BY <2>1, <2>2
<1>7. ASSUME NEW j \in JobIds, TakeJob(j) PROVE ExportInv'
  <2>1. Still /\ UNCHANGED <<row, stale>>
    BY <1>7 DEF TakeJob, Still, Places, Working
  <2>2. Senders' \subseteq Senders
    BY <2>1 DEF Senders, Still, Sending
  <2> QED BY <2>1, <2>2, StillStep
<1>8. ASSUME NEW j \in JobIds, ReadExport(j) PROVE ExportInv'
  <2>1. CASE at'[j] # "skip"
    <3>1. Still /\ UNCHANGED <<row, stale>>
      BY <1>8, <2>1, OverPlaces DEF ReadExport, Still, Places, Working
    <3>2. Senders' \subseteq Senders
      BY <3>1 DEF Senders, Still, Sending
    <3> QED BY <3>1, <3>2, StillStep
  <2>2. CASE at'[j] = "skip"
    <3>1. ~Quiet /\ at' = [at EXCEPT ![j] = "skip"]
          /\ UNCHANGED <<row, stale, provider, exportFaults, documents, onTheWay>>
      BY <1>8, <2>2, OverPlaces DEF ReadExport, AllOn
    <3> QED
      BY <3>1 DEF ExportInv, Quiet, SuccessBacked, SuccessMeansExported, SenderOwns,
                  OneDocument, Places, Working
  <2> QED BY <2>1, <2>2
<1>9. ASSUME NEW j \in JobIds, SkipDisabled(j) PROVE ExportInv'
  <2>1. ~Quiet /\ at' = [at EXCEPT ![j] = Over(j)] /\ row' \in {row, "SKIPPED"}
        /\ UNCHANGED <<stale, provider, exportFaults, settings, documents, onTheWay, readExports>>
    BY <1>9 DEF SkipDisabled, MarkOrderExportSkipped
  <2>2. Still
    BY <2>1, OverPlaces DEF Still, Places
  <2> QED BY <2>1, <2>2, StillStep
<1>10. ASSUME NEW j \in JobIds, RemoveJob(j) PROVE ExportInv'
  <2>1. Still /\ UNCHANGED <<row, stale>>
    BY <1>10 DEF RemoveJob, Still, Places
  <2>2. Senders' \subseteq Senders
    BY <2>1 DEF Senders, Still, Sending
  <2> QED BY <2>1, <2>2, StillStep
<1>11. CASE WindowPasses
  <2>1. Still /\ UNCHANGED row /\ Senders' = Senders /\ (Quiet => Senders = {})
    BY <1>11 DEF WindowPasses, Still, Senders, Quiet
  <2> QED BY <2>1, StillStep
<1>12. CASE ApplyIikoOrderWebhook
  <2>1. ~Quiet /\ UNCHANGED <<at, documents, onTheWay, provider, exportFaults, stale>>
        /\ row' \in {"SUCCESS", "ERROR"} /\ (row' = "SUCCESS" => documents > 0)
    BY <1>12 DEF ApplyIikoOrderWebhook, Fault, Quiet
  <2> QED
    BY <2>1 DEF ExportInv, Quiet, SuccessBacked, SuccessMeansExported, SenderOwns, OneDocument
<1>13. ASSUME NEW f, ToggleSettings(f) PROVE ExportInv'
  <2>1. ~Quiet /\ UNCHANGED <<at, documents, onTheWay, provider, exportFaults, row>>
    BY <1>13 DEF ToggleSettings, Quiet
  <2> QED
    BY <2>1 DEF ExportInv, Quiet, SuccessBacked, SuccessMeansExported, SenderOwns, OneDocument
(* The claim: nobody else is past it. *)
<1>14. ASSUME NEW j \in JobIds, MarkOrderExportRunning(j) PROVE ExportInv'
  <2>1. CASE ~Claimable(j)
    <3>1. Still /\ UNCHANGED <<row, stale>>
      BY <1>14, <2>1, OverPlaces DEF MarkOrderExportRunning, Still, Places
    <3>2. Senders' \subseteq Senders
      BY <3>1 DEF Senders, Still, Sending
    <3> QED BY <3>1, <3>2, StillStep
  <2>2. CASE Claimable(j)
    <3>1. /\ at' = [at EXCEPT ![j] = "order"] /\ row' = "RUNNING" /\ stale' = FALSE
          /\ UNCHANGED <<provider, exportFaults, settings, documents, onTheWay, readExports>>
      BY <1>14, <2>2 DEF MarkOrderExportRunning
    <3>2. Quiet => Senders = {}
      BY <2>2 DEF Claimable
    <3>3. Quiet => Senders' \subseteq {j}
      BY <3>1, <3>2 DEF Senders, Sending
    <3>4. SenderOwns'
      BY <3>1, <3>3 DEF SenderOwns, Quiet
    <3> QED
      BY <3>1, <3>4 DEF ExportInv, Quiet, SuccessBacked, SuccessMeansExported, OneDocument,
                        Places, Working, Sending
  <2> QED BY <2>1, <2>2
(* The steps of the sender. *)
<1>15. ASSUME NEW j \in JobIds, BuildPayload(j) PROVE ExportInv'
  <2>1. PICK place \in {"error", "refused", "create", "lookup"} :
            /\ at' = [at EXCEPT ![j] = place]
            /\ place = "create" => provider = "IIKO"
    BY <1>15 DEF BuildPayload
  <2>2. at[j] \in Sending /\ place \in Places /\ place \in Sending
        /\ UNCHANGED <<requests, environment>>
    BY <1>15 DEF BuildPayload, Sending, Places, Working
  <2> QED BY <2>1, <2>2, SenderStep DEF ExportInv, SuccessMeansExported, OneDocument
<1>16. ASSUME NEW j \in JobIds, FindCustomerOrder(j) PROVE ExportInv'
  <2>1. at[j] \in Sending /\ UNCHANGED <<requests, environment>>
    BY <1>16 DEF FindCustomerOrder, Sending
  <2>2. PICK place \in {"success", "create"} :
            /\ at' = [at EXCEPT ![j] = place]
            /\ place = "success" => documents > 0
            /\ place = "create" => documents = 0
    <3>1. CASE documents > 0
      BY <1>16, <3>1 DEF FindCustomerOrder
    <3>2. CASE ~(documents > 0)
      BY <1>16, <3>2 DEF FindCustomerOrder
    <3> QED BY <3>1, <3>2
  <2>3. place \in Places
    BY DEF Places, Working, Sending
  <2> QED BY <2>1, <2>2, <2>3, SenderStep DEF ExportInv, SuccessMeansExported, OneDocument
<1>17. ASSUME NEW j \in JobIds, CreateCustomerOrder(j) PROVE ExportInv'
  <2>1. /\ at[j] \in Sending /\ at' = [at EXCEPT ![j] = "success"] /\ "success" \in Places
        /\ documents' = documents + 1 /\ (Quiet => documents = 0)
        /\ UNCHANGED <<environment, row, stale>>
    BY <1>17 DEF CreateCustomerOrder, Sending, Places, Working, ExportInv, OneDocument
  <2>2. documents' \in Nat /\ documents' > 0 /\ (Quiet => documents' <= 1)
    BY <2>1
  <2> QED BY <2>1, <2>2, SenderStep
<1>18. ASSUME NEW j \in JobIds, CreateIikoOrder(j) PROVE ExportInv'
  <2>1. PICK place \in {"poll", "refused"} : at' = [at EXCEPT ![j] = place]
    BY <1>18 DEF CreateIikoOrder
  <2>2. /\ at[j] \in Sending /\ place \in Places /\ provider = "IIKO"
        /\ UNCHANGED <<requests, environment>>
    BY <1>18 DEF CreateIikoOrder, Sending, Places, Working
  <2> QED BY <2>1, <2>2, SenderStep DEF ExportInv, SuccessMeansExported, OneDocument
<1>19. ASSUME NEW j \in JobIds, WaitForCommandCompletion(j) PROVE ExportInv'
  <2>1. PICK place \in {"success", "refused"} :
            at' = [at EXCEPT ![j] = place] /\ (place = "success" => documents' = 1)
    BY <1>19 DEF WaitForCommandCompletion
  <2>2. /\ at[j] \in Sending /\ place \in Places
        /\ Abandon \/ (documents' = 1 /\ UNCHANGED onTheWay)
        /\ UNCHANGED <<row, stale, readExports, provider, exportFaults, settings>>
    BY <1>19 DEF WaitForCommandCompletion, Sending, Places, Working
  <2>4. Quiet => provider = "IIKO"
    BY <1>19 DEF WaitForCommandCompletion, ExportInv, OneDocument
  <2>5. /\ documents' \in Nat /\ onTheWay' \in Nat /\ (documents > 0 => documents' > 0)
        /\ provider = "IIKO" => documents' \in {documents, 1}
        /\ Quiet => onTheWay' = 0
    BY <2>2, <1>a
  <2>3. /\ (Quiet => documents' <= 1)
        /\ documents > 0 => documents' > 0
        /\ place = "success" \/ row' = "SUCCESS" => documents' > 0
    BY <2>1, <2>2, <2>4, <2>5 DEF ExportInv, SuccessMeansExported, OneDocument
  <2> QED BY <2>1, <2>2, <2>3, <2>5, SenderStep
<1>20. ASSUME NEW j \in JobIds, ProviderFails(j) PROVE ExportInv'
  <2>1. /\ at[j] \in Sending /\ "error" \in Places
        /\ at' = [at EXCEPT ![j] = "error"]
        /\ UNCHANGED <<row, stale, readExports, provider, exportFaults, settings>>
    BY <1>20 DEF ProviderFails, Sending, Places, Working
  <2>2. UNCHANGED <<documents, onTheWay>> \/ (at[j] \in {"create", "poll"} /\ Abandon)
    BY <1>20 DEF ProviderFails
  <2>3. Quiet => documents' <= 1
    BY <2>2, <1>a DEF ExportInv, OneDocument
  <2>4. /\ documents' \in Nat /\ (documents > 0 => documents' > 0)
        /\ onTheWay' \in Nat /\ (Quiet => onTheWay' = 0)
    BY <2>2, <1>a
  <2>5. row' = "SUCCESS" => documents' > 0
    BY <2>1, <2>4 DEF ExportInv, SuccessMeansExported
  <2> QED BY <2>1, <2>3, <2>4, <2>5, SenderStep
<1>21. ASSUME NEW j \in JobIds, MarkOrderExportSuccess(j) PROVE ExportInv'
  <2>1. /\ at[j] \in Sending /\ at' = [at EXCEPT ![j] = Over(j)] /\ row' = "SUCCESS"
        /\ UNCHANGED <<documents, onTheWay, readExports, provider, exportFaults, settings>> /\ documents > 0
    BY <1>21 DEF MarkOrderExportSuccess, Sending, ExportInv, SuccessBacked
  <2>2. Over(j) \in Places \ (Sending \cup {"skip"})
    BY OverPlaces DEF Places, Sending
  <2>3. Over(j) \notin {"success", "create", "poll"}
    BY OverPlaces
  <2> QED BY <2>1, <2>2, <2>3, SenderStep DEF ExportInv, OneDocument
<1>r. ASSUME NEW j \in JobIds, Rethrow(j)
      PROVE  \E place \in {"waiting", "ended", "absent"} : at' = [at EXCEPT ![j] = place]
    BY <1>r, OverPlaces DEF Rethrow
<1>22. ASSUME NEW j \in JobIds, MarkOrderExportError(j) PROVE ExportInv'
  <2>1. PICK place \in {"waiting", "ended", "absent"} : at' = [at EXCEPT ![j] = place]
    BY <1>22, <1>r DEF MarkOrderExportError
  <2>2. /\ at[j] \in Sending /\ row' = "ERROR"
        /\ UNCHANGED <<documents, onTheWay, readExports, provider, exportFaults, settings>>
    BY <1>22 DEF MarkOrderExportError, Sending
  <2>3. place \in Places /\ place \notin Sending
    BY DEF Places, Sending
  <2> QED BY <2>1, <2>2, <2>3, SenderStep DEF ExportInv, OneDocument
<1>23. ASSUME NEW j \in JobIds, MarkRefused(j) PROVE ExportInv'
  <2>1. /\ at[j] \in Sending /\ at' = [at EXCEPT ![j] = Over(j)] /\ row' \in {row, "SKIPPED"}
        /\ UNCHANGED <<documents, onTheWay, readExports, provider, exportFaults, settings>>
    BY <1>23 DEF MarkRefused, MarkOrderExportSkipped, Sending
  <2>2. Over(j) \in Places /\ Over(j) \notin Sending
    BY OverPlaces DEF Places, Sending
  <2>3. Over(j) \notin {"success", "create", "poll", "skip"}
    BY OverPlaces
  <2> QED BY <2>1, <2>2, <2>3, SenderStep DEF ExportInv, SuccessMeansExported, OneDocument
<1>24. ASSUME NEW j \in JobIds, DatabaseFails(j) PROVE ExportInv'
  <2>1. ~Quiet /\ UNCHANGED <<row, documents, onTheWay, provider, exportFaults>>
    BY <1>24 DEF DatabaseFails, Fault, Quiet
  <2>2. PICK place \in {"waiting", "ended", "absent", "error"} : at' = [at EXCEPT ![j] = place]
    BY <1>24, <1>r DEF DatabaseFails
  <2> QED
    BY <2>1, <2>2 DEF ExportInv, Quiet, SuccessBacked, SuccessMeansExported, SenderOwns,
                      OneDocument, Places, Working, Sending
<1>25. ASSUME NEW j \in JobIds, WorkerDies(j) PROVE ExportInv'
  <2>1. PICK place \in {"waiting", "ended", "absent"} : at' = [at EXCEPT ![j] = place]
    BY <1>25, OverPlaces DEF WorkerDies
  <2>2. UNCHANGED <<row, stale, readExports, provider, exportFaults, settings>>
    BY <1>25 DEF WorkerDies
  <2>3. place \in Places /\ place \notin Sending
    BY DEF Places, Sending
  <2>4. CASE at[j] \in Sending
    <3>1. UNCHANGED <<documents, onTheWay>> \/ (at[j] \in {"create", "poll"} /\ Abandon)
      BY <1>25 DEF WorkerDies
    <3>2. Quiet => documents' <= 1
      BY <3>1, <1>a DEF ExportInv, OneDocument
    <3>5. /\ documents' \in Nat /\ (documents > 0 => documents' > 0)
          /\ onTheWay' \in Nat /\ (Quiet => onTheWay' = 0)
      BY <3>1, <1>a
    <3>3. row' = "SUCCESS" => documents' > 0
      BY <2>2, <3>5 DEF ExportInv, SuccessMeansExported
    <3>4. place \notin {"success", "skip", "create", "poll"}
      BY <2>1
    <3> QED BY <2>1, <2>2, <2>3, <2>4, <3>2, <3>3, <3>4, <3>5, SenderStep
  <2>5. CASE at[j] \notin Sending
    <3>1. UNCHANGED <<documents, onTheWay>>
      BY <1>25, <2>5 DEF WorkerDies, Sending
    <3>2. Still
      BY <2>1, <2>2, <2>3, <3>1 DEF Still
    <3>3. Senders' \subseteq Senders
      BY <3>2 DEF Senders, Still, Sending
    <3> QED BY <2>2, <3>2, <3>3, StillStep
  <2> QED BY <2>4, <2>5
<1>26. CASE UNCHANGED exportVars
    BY <1>26 DEF exportVars, ExportInv, Quiet, SuccessBacked, SuccessMeansExported, SenderOwns,
                 OneDocument, Senders
<1>27. CASE DocumentArrives
  <2>1. ~Quiet /\ UNCHANGED <<at, row, provider, exportFaults>>
    BY <1>27 DEF DocumentArrives, ExportInv, OneDocument
  <2>2. documents' \in Nat /\ documents' > 0 /\ onTheWay' \in Nat
    BY <1>27 DEF DocumentArrives
  <2> QED
    BY <2>1, <2>2 DEF ExportInv, Quiet, SuccessBacked, SuccessMeansExported, SenderOwns, OneDocument
<1> QED
    BY <1>1, <1>2, <1>3, <1>4, <1>5, <1>6, <1>7, <1>8, <1>9, <1>10, <1>11, <1>12, <1>13,
       <1>14, <1>15, <1>16, <1>17, <1>18, <1>19, <1>20, <1>21, <1>22, <1>23, <1>24, <1>25,
       <1>26, <1>27
    DEF ExportNext, JobStep, AddRequested

LEMMA ExportStarts == ExportInit => ExportInv
    BY ExportAssumption
    DEF ExportInit, ExportInv, ExportShapes, SuccessBacked, SuccessMeansExported, SenderOwns,
        OneDocument, Senders, Sending, Places, AllOn

LEMMA ExportInvariant == ExportSpec => []ExportInv
<1> QED
    BY ExportStarts, ExportStep, PTL DEF ExportSpec

(* markOrderExportSuccess and applyIikoOrderWebhook: in every environment, *)
(* with any number of jobs, workers, attempts and faults, a row says       *)
(* SUCCESS only when the provider holds the order.                         *)
THEOREM SuccessBackedByDocument == ExportSpec => []SuccessMeansExported
    BY ExportInvariant, PTL DEF ExportInv

LEMMA ExportInvOnce == ExportInv => ExportedOnce
    BY DEF ExportInv, ExportedOnce, SenderOwns, OneDocument

(* markOrderExportRunning as one conditional update: without database      *)
(* errors, slow workers, changed settings and late reports, any number of  *)
(* jobs, retries, crashes and lost answers make at most one document.      *)
THEOREM NoSecondDocument == ExportSpec => []ExportedOnce
<1> QED
    BY ExportInvOnce, ExportInvariant, PTL

LEMMA SuccessStep ==
    ASSUME ExportInv, [ExportNext]_exportVars, Quiet, row = "SUCCESS"
    PROVE  row' = "SUCCESS"
<1>1. \A j \in JobIds : at[j] \notin Sending
    BY DEF ExportInv, SenderOwns, Senders
<1>2. CASE UNCHANGED exportVars
    BY <1>2 DEF exportVars
<1>3. CASE ExportNext
    BY <1>1, <1>3
    DEF ExportNext, JobStep, AddRequested, EnqueueCompletedOrder, CreatePendingOrderExport,
        RetryOrderExport, EnqueueExportRecord, LoseAdd, FindRunnableOrderExports,
        ReconcileOrderExport, MarkOrderExportSkipped, TakeJob, ReadExport, SkipDisabled,
        MarkOrderExportRunning, Claimable, BuildPayload, FindCustomerOrder,
        CreateCustomerOrder, CreateIikoOrder, WaitForCommandCompletion,
        MarkOrderExportSuccess, MarkOrderExportError, MarkRefused, RemoveJob, ProviderFails,
        DatabaseFails, WorkerDies, WindowPasses, ApplyIikoOrderWebhook, DocumentArrives,
        ToggleSettings,
        requests, Sending, Fault, Quiet
<1> QED BY <1>2, <1>3

(* Under the same conditions no job, retry or reconciliation takes a row   *)
(* back from SUCCESS: nobody is past the claim when it is written.         *)
THEOREM SuccessStays == ExportSpec => SuccessIsLast
<1>1. ExportInv /\ [ExportNext]_exportVars
          => [Quiet /\ row = "SUCCESS" => row' = "SUCCESS"]_exportVars
    BY SuccessStep
<1> QED
    BY <1>1, ExportInvariant, PTL DEF ExportSpec, SuccessIsLast

-----------------------------------------------------------------------------
(* The shape of a row, its jobs and its budgets.                           *)

LEMMA ExportTypeStep == ExportTypeOK /\ [ExportNext]_exportVars => ExportTypeOK'
<1> SUFFICES ASSUME ExportTypeOK, [ExportNext]_exportVars
             PROVE  ExportTypeOK'
    OBVIOUS
<1> USE ExportAssumption DEF ExportTypeOK, ExportSetup, environment, setup, requests, Fault
<1>a. Abandon => documents' \in Nat /\ onTheWay' \in Nat
    BY DEF Abandon
<1>g. ASSUME NEW j \in JobIds, NEW place \in Places, Goto(j, place)
      PROVE  at' \in [JobIds -> Places] /\ tries' \in [JobIds -> 0..MaxTries - 1]
    BY <1>g DEF Goto
<1>d. ASSUME NEW j \in JobIds, End(j)
      PROVE  at' \in [JobIds -> Places] /\ tries' \in [JobIds -> 0..MaxTries - 1]
  <2>1. Over(j) \in Places
    BY OverPlaces DEF Places
  <2>2. 0 \in 0..MaxTries - 1
    OBVIOUS
  <2> QED BY <1>d, <2>1, <2>2 DEF End
<1>e. ASSUME NEW t \in Triggers, EnqueueExportRecord(t) PROVE ExportTypeOK'
  <2>1. at' \in [JobIds -> Places] /\ tries' \in [JobIds -> 0..MaxTries - 1]
    BY <1>e, <1>g DEF EnqueueExportRecord, Places
  <2> QED BY <1>e, <2>1 DEF EnqueueExportRecord
<1>t. ASSUME NEW j \in JobIds, Rethrow(j)
      PROVE  at' \in [JobIds -> Places] /\ tries' \in [JobIds -> 0..MaxTries - 1]
  <2>1. CASE End(j)
    BY <2>1, <1>d
  <2>2. CASE ~End(j)
    <3>1. /\ tries[j] + 1 < MaxTries
          /\ at' = [at EXCEPT ![j] = "waiting"]
          /\ tries' = [tries EXCEPT ![j] = tries[j] + 1]
      BY <1>t, <2>2 DEF Rethrow
    <3>2. tries[j] + 1 \in 0..MaxTries - 1
      BY <3>1
    <3> QED BY <3>1, <3>2 DEF Places
  <2> QED BY <2>1, <2>2
<1>1. CASE EnqueueCompletedOrder
    BY <1>1 DEF Triggers, EnqueueCompletedOrder, CreatePendingOrderExport
<1>2. CASE RetryOrderExport
    BY <1>2 DEF Triggers, RetryOrderExport, ResetOrderExportForRetry
<1>3. ASSUME NEW t \in Triggers, AddRequested(t) PROVE ExportTypeOK'
    BY <1>3, <1>e DEF AddRequested
<1>4. ASSUME NEW t \in Triggers, LoseAdd(t) PROVE ExportTypeOK'
    BY <1>4 DEF LoseAdd
<1>5. CASE FindRunnableOrderExports
    BY <1>5 DEF Triggers, FindRunnableOrderExports, Settings
<1>6. CASE ReconcileOrderExport
    BY <1>6, <1>e DEF ReconcileOrderExport, MarkOrderExportSkipped
<1>7. ASSUME NEW j \in JobIds, TakeJob(j) PROVE ExportTypeOK'
    BY <1>7, <1>g DEF TakeJob, Places, Working
<1>8. ASSUME NEW j \in JobIds, ReadExport(j) PROVE ExportTypeOK'
    BY <1>8, <1>g, <1>d DEF ReadExport, Places, Working, Sending
<1>9. ASSUME NEW j \in JobIds, SkipDisabled(j) PROVE ExportTypeOK'
    BY <1>9, <1>d DEF SkipDisabled, MarkOrderExportSkipped
<1>10. ASSUME NEW j \in JobIds, MarkOrderExportRunning(j) PROVE ExportTypeOK'
    BY <1>10, <1>g, <1>d DEF MarkOrderExportRunning, Places, Working, Sending
<1>11. ASSUME NEW j \in JobIds, BuildPayload(j) PROVE ExportTypeOK'
    BY <1>11, <1>g DEF BuildPayload, Places, Working, Sending
<1>12. ASSUME NEW j \in JobIds, FindCustomerOrder(j) PROVE ExportTypeOK'
    BY <1>12, <1>g DEF FindCustomerOrder, Places, Working, Sending
<1>13. ASSUME NEW j \in JobIds, CreateCustomerOrder(j) PROVE ExportTypeOK'
    BY <1>13, <1>g DEF CreateCustomerOrder, Places, Working, Sending
<1>14. ASSUME NEW j \in JobIds, CreateIikoOrder(j) PROVE ExportTypeOK'
    BY <1>14, <1>g DEF CreateIikoOrder, Places, Working, Sending
<1>15. ASSUME NEW j \in JobIds, WaitForCommandCompletion(j) PROVE ExportTypeOK'
    BY <1>15, <1>g, <1>a DEF WaitForCommandCompletion, Places, Working, Sending
<1>16. ASSUME NEW j \in JobIds, ProviderFails(j) PROVE ExportTypeOK'
    BY <1>16, <1>g, <1>a DEF ProviderFails, Places, Working, Sending
<1>17. ASSUME NEW j \in JobIds, MarkOrderExportSuccess(j) PROVE ExportTypeOK'
    BY <1>17, <1>d DEF MarkOrderExportSuccess
<1>18. ASSUME NEW j \in JobIds, MarkOrderExportError(j) PROVE ExportTypeOK'
    BY <1>18, <1>t DEF MarkOrderExportError
<1>19. ASSUME NEW j \in JobIds, MarkRefused(j) PROVE ExportTypeOK'
    BY <1>19, <1>d DEF MarkRefused, MarkOrderExportSkipped
<1>20. ASSUME NEW j \in JobIds, DatabaseFails(j) PROVE ExportTypeOK'
    BY <1>20, <1>g, <1>t DEF DatabaseFails, Places, Working, Sending
<1>21. ASSUME NEW j \in JobIds, WorkerDies(j) PROVE ExportTypeOK'
    BY <1>21, <1>g, <1>d, <1>a DEF WorkerDies, Places, Working, Sending
<1>22. ASSUME NEW j \in JobIds, RemoveJob(j) PROVE ExportTypeOK'
    BY <1>22, <1>g DEF RemoveJob, Places, Working, Sending
<1>23. CASE WindowPasses
    BY <1>23 DEF WindowPasses
<1>24. CASE ApplyIikoOrderWebhook
    BY <1>24 DEF ApplyIikoOrderWebhook
<1>25. ASSUME NEW f \in {"feature", "active", "exportOrders"}, ToggleSettings(f) PROVE ExportTypeOK'
  <2>1. settings' = [settings EXCEPT ![f] = ~settings[f]]
    BY <1>25 DEF ToggleSettings
  <2>2. settings' \in Settings
    <3>1. CASE f = "feature"
      BY <2>1, <3>1 DEF Settings
    <3>2. CASE f = "active"
      BY <2>1, <3>2 DEF Settings
    <3>3. CASE f = "exportOrders"
      BY <2>1, <3>3 DEF Settings
    <3> QED BY <3>1, <3>2, <3>3
  <2>3. toggles' \in 0..MaxToggles
    BY <1>25 DEF ToggleSettings
  <2> QED BY <1>25, <2>2, <2>3 DEF ToggleSettings
<1>26. CASE UNCHANGED exportVars
    BY <1>26 DEF exportVars
<1>27. CASE DocumentArrives
    BY <1>27 DEF DocumentArrives
<1> QED
    BY <1>27, <1>1, <1>2, <1>3, <1>4, <1>5, <1>6, <1>7, <1>8, <1>9, <1>10, <1>11, <1>12, <1>13, <1>14, <1>15, <1>16, <1>17, <1>18, <1>19, <1>20, <1>21, <1>22, <1>23, <1>24, <1>25, <1>26
    DEF ExportNext, JobStep

LEMMA ExportTypeStarts == ExportInit => ExportTypeOK
<1> SUFFICES ASSUME ExportInit PROVE ExportTypeOK
    OBVIOUS
<1>1. ExportSetup \in ExportSetups
  <2>1. PICK s \in ExportSetups : provider = s.provider /\ exportFaults = s.faults /\ workers = s.workers
    BY DEF ExportInit
  <2>2. s = [provider |-> s.provider, faults |-> s.faults, workers |-> s.workers]
    BY ExportAssumption
  <2> QED BY <2>1, <2>2 DEF ExportSetup
<1>2. /\ 0 \in 0..MaxTries - 1 /\ 0 \in 0..MaxToggles
      /\ MaxExportFaults \in 0..MaxExportFaults
    BY ExportAssumption
<1>3. AllOn \in Settings
    BY DEF AllOn, Settings
<1>4. at \in [JobIds -> Places] /\ tries \in [JobIds -> 0..MaxTries - 1]
    BY <1>2 DEF ExportInit, Places
<1> QED BY <1>1, <1>2, <1>3, <1>4 DEF ExportInit, ExportTypeOK

=============================================================================
