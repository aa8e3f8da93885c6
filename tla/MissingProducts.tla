-------------------------- MODULE MissingProducts --------------------------
(***************************************************************************)
(* The products an integration (iiko or MoySklad) has linked, and what a   *)
(* catalog synchronisation does with those its snapshot lacks.  MoySklad   *)
(* is read page by page by offset while its assortment may change, so a    *)
(* snapshot can lack an item that was there all the time; iiko sends its   *)
(* menu in one answer.  A product is hidden (MoySklad) or deleted (iiko)   *)
(* once missingSyncCount has reached Confirmations.                        *)
(* An item can be there and yet not for sale (archived, out of stock when  *)
(* the integration owns the stock, unfit for synchronisation in iiko's     *)
(* menu); its product is hidden as soon as a synchronisation reads that.   *)
(* Items are numbers: their order is the order of the assortment.          *)
(***************************************************************************)
EXTENDS Naturals, FiniteSets

CONSTANTS Items,           \* external products
          PageLimit,       \* rows of a page (LIST_LIMIT_WITH_EXPAND)
          Confirmations,   \* REQUIRED_MISSING_PRODUCT_CONFIRMATIONS
          MaxDisturbances, \* items the provider drops, and empty answers
          MaxSyncErrors    \* items that fail, and synchronisations that die

ASSUME MissingAssumption ==
    /\ Items \subseteq Nat /\ IsFiniteSet(Items)
    /\ PageLimit \in Nat \ {0} /\ Confirmations \in Nat \ {0, 1}
    /\ MaxDisturbances \in Nat /\ MaxSyncErrors \in Nat

VARIABLES source,        \* "IIKO" or "MOYSKLAD"
          syncStock,     \* the integration owns the stock and so the status
          offered,       \* items the provider holds
          withheld,      \* ... and those of them that are not for sale there
          product,       \* the linked product of each item
          missingCount,  \* missingSyncCount of its link, as far as it matters
          snapshotAt,    \* where the synchronisation is
          full,          \* it reads everything, not only what was updated
          offset,        \* rows it has read
          snapshot,      \* items it has read
          heldBack,      \* those it read as not for sale
          todo,          \* items its loop has still to work on
          updated,       \* ... whose product is updated and whose link is not
          anySynced,     \* an item has been synchronised
          away,          \* items the provider lacked or withheld since their
                         \* last sync
          disturbances, syncErrors

missingVars == <<source, syncStock, offered, withheld, product, missingCount,
                 snapshotAt, full, offset, snapshot, heldBack, todo, updated,
                 anySynced, away, disturbances, syncErrors>>

Linked == {i \in Items : product[i] # "none"}

MissingTypeOK ==
    /\ source \in {"IIKO", "MOYSKLAD"} /\ syncStock \in BOOLEAN
    /\ offered \subseteq Items /\ withheld \subseteq Items
    /\ product \in [Items -> {"none", "ACTIVE", "HIDDEN", "DELETED"}]
    /\ missingCount \in [Items -> 0..Confirmations]
    /\ snapshotAt \in {"idle", "fetch", "upsert", "hide"}
    /\ full \in BOOLEAN /\ anySynced \in BOOLEAN
    /\ offset \in 0..Cardinality(Items) + PageLimit
    /\ snapshot \subseteq Items /\ heldBack \subseteq Items
    /\ todo \subseteq Items /\ updated \subseteq Items /\ away \subseteq Items
    /\ disturbances \in 0..MaxDisturbances /\ syncErrors \in 0..MaxSyncErrors

(* Every item is offered, linked and for sale.                             *)
MissingInit ==
    /\ source \in {"IIKO", "MOYSKLAD"} /\ syncStock \in BOOLEAN
    /\ offered = Items /\ withheld = {}
    /\ product = [i \in Items |-> "ACTIVE"]
    /\ missingCount = [i \in Items |-> 0]
    /\ snapshotAt = "idle" /\ full = FALSE /\ offset = 0
    /\ snapshot = {} /\ heldBack = {} /\ todo = {} /\ updated = {} /\ anySynced = FALSE
    /\ away = {} /\ disturbances = 0 /\ syncErrors = 0

links == <<product, missingCount>>
readSoFar == <<full, offset, snapshot, heldBack>>
syncState == <<snapshotAt, readSoFar, todo, updated, anySynced>>
integration == <<source, syncStock>>
assortment == <<offered, withheld>>

(* What a synchronisation has read ends with it.                           *)
Forget == full' = FALSE /\ offset' = 0 /\ snapshot' = {} /\ heldBack' = {}
-----------------------------------------------------------------------------
(* The provider.                                                           *)

Depart(i) ==
    /\ i \in offered /\ disturbances < MaxDisturbances
    /\ offered' = offered \ {i}
    /\ away' = away \cup {i}
    /\ disturbances' = disturbances + 1
    /\ UNCHANGED <<integration, withheld, links, syncState, syncErrors>>

Arrive(i) ==
    /\ i \notin offered
    /\ offered' = offered \cup {i}
    /\ UNCHANGED <<integration, withheld, links, syncState, away, disturbances, syncErrors>>

(* An item is taken off sale at the provider, or put on sale again.        *)
Withhold(i) ==
    /\ i \in offered \ withheld
    /\ withheld' = withheld \cup {i}
    /\ away' = away \cup {i}
    /\ UNCHANGED <<integration, offered, links, syncState, disturbances, syncErrors>>

OfferAgain(i) ==
    /\ i \in withheld
    /\ withheld' = withheld \ {i}
    /\ UNCHANGED <<integration, offered, links, syncState, away, disturbances, syncErrors>>
-----------------------------------------------------------------------------
(* The snapshot.                                                           *)

(* updatedFrom makes the synchronisation of MoySklad incremental.          *)
BeginSnapshot(whole) ==
    /\ snapshotAt = "idle"
    /\ whole \/ source = "MOYSKLAD"
    /\ snapshotAt' = "fetch" /\ full' = whole
    /\ offset' = 0 /\ snapshot' = {} /\ heldBack' = {} /\ todo' = {}
    /\ UNCHANGED <<integration, assortment, links, updated, anySynced, away, disturbances, syncErrors>>

ReadRows(rows) ==
    /\ snapshot' = snapshot \cup rows
    /\ heldBack' = heldBack \cup (rows \cap withheld)

Fetched(rows) == ReadRows(rows) /\ snapshotAt' = "upsert" /\ todo' = snapshot'

(* The rows at offset .. offset + PageLimit of what is offered now.        *)
Page == {i \in offered :
            LET rank == Cardinality({k \in offered : k <= i})
            IN  offset < rank /\ rank <= offset + PageLimit}

(* getAllAssortment, one request.                                          *)
GetAssortmentPage ==
    /\ snapshotAt = "fetch" /\ source = "MOYSKLAD" /\ full
    /\ \/ /\ Cardinality(Page) < PageLimit
          /\ Fetched(Page) /\ UNCHANGED offset
       \/ /\ Cardinality(Page) = PageLimit
          /\ ReadRows(Page)
          /\ offset' = offset + PageLimit
          /\ UNCHANGED <<snapshotAt, todo>>
    /\ UNCHANGED <<integration, assortment, links, full, updated, anySynced, away,
                   disturbances, syncErrors>>

(* The answer to an incremental request, and iiko's menu.                  *)
GetInOneAnswer ==
    /\ snapshotAt = "fetch"
    /\ \/ source = "IIKO" /\ Fetched(offered)
       \/ /\ source = "MOYSKLAD" /\ ~full
          /\ \E rows \in SUBSET offered : Fetched(rows)
    /\ UNCHANGED <<integration, assortment, links, full, offset, updated, anySynced,
                   away, disturbances, syncErrors>>

(* The provider answers with nothing, for want of a permission or a filter.*)
GetNothing ==
    /\ snapshotAt = "fetch" /\ snapshot = {} /\ disturbances < MaxDisturbances
    /\ Fetched({})
    /\ disturbances' = disturbances + 1
    /\ UNCHANGED <<integration, assortment, links, full, offset, updated, anySynced,
                   away, syncErrors>>
-----------------------------------------------------------------------------
(* The loop over the items.                                                *)

(* What iiko's menu holds and must not be synchronised is hidden first.    *)
DeactivateUnsyncable(i) ==
    /\ snapshotAt = "upsert" /\ source = "IIKO" /\ i \in todo \cap heldBack
    /\ product' = [product EXCEPT ![i] = IF @ = "ACTIVE" THEN "HIDDEN" ELSE @]
    /\ todo' = todo \ {i}
    /\ UNCHANGED <<integration, assortment, missingCount, snapshotAt, readSoFar, updated,
                   anySynced, away, disturbances, syncErrors>>

ItemTurn(i) ==
    /\ snapshotAt = "upsert" /\ i \in todo
    /\ source = "IIKO" => todo \cap heldBack = {}

(* resolveProductStatus: without syncStock the product of an item that is  *)
(* for sale keeps the status it has.  iiko makes its products ACTIVE.      *)
StatusOnSync(i) ==
    IF source = "MOYSKLAD" /\ i \in heldBack THEN "HIDDEN"
    ELSE IF source = "IIKO" \/ syncStock THEN "ACTIVE" ELSE product[i]

(* syncExternalProduct and syncMenuProduct update the product.  Where iiko *)
(* linked a deleted product they create another, not linked yet.           *)
SyncItem(i) ==
    /\ ItemTurn(i) /\ updated = {}
    /\ product' = [product EXCEPT ![i] = IF @ = "DELETED" THEN @ ELSE StatusOnSync(i)]
    /\ updated' = {i}
    /\ UNCHANGED <<integration, assortment, missingCount, snapshotAt, readSoFar, todo,
                   anySynced, away, disturbances, syncErrors>>

(* upsertProductLink, to the product there is or to the new one.           *)
WriteLink(i) ==
    /\ product' = [product EXCEPT ![i] = IF @ = "DELETED" THEN "ACTIVE" ELSE @]
    /\ missingCount' = [missingCount EXCEPT ![i] = 0]
    /\ away' = IF i \in offered \ withheld THEN away \ {i} ELSE away

UpsertProductLink(i) ==
    /\ ItemTurn(i) /\ i \in updated
    /\ WriteLink(i)
    /\ todo' = todo \ {i} /\ updated' = {} /\ anySynced' = TRUE
    /\ UNCHANGED <<integration, assortment, snapshotAt, readSoFar, disturbances, syncErrors>>

(* An error of one item, before or after its link is written, is recorded  *)
(* and the loop goes on.                                                   *)
ItemFails(i) ==
    /\ ItemTurn(i) /\ updated \subseteq {i} /\ syncErrors < MaxSyncErrors
    /\ UNCHANGED <<links, away>> \/ (i \in updated /\ WriteLink(i))
    /\ todo' = todo \ {i} /\ updated' = {}
    /\ syncErrors' = syncErrors + 1
    /\ UNCHANGED <<integration, assortment, snapshotAt, readSoFar, anySynced, disturbances>>

\* Mutant: an incremental synchronisation looks for missing products too.
EndItemsAlwaysHiding ==
    /\ snapshotAt = "upsert" /\ todo = {}
    /\ snapshotAt' = "hide" /\ todo' = Linked \ snapshot
    /\ Forget /\ anySynced' = FALSE
    /\ UNCHANGED <<integration, assortment, links, updated, away, disturbances, syncErrors>>

(* MoySklad stops when every item failed, and leaves the missing products  *)
(* alone when the request was incremental or brought nothing.              *)
EndItems ==
    /\ snapshotAt = "upsert" /\ todo = {}
    /\ LET hides == \/ source = "IIKO"
                    \/ full /\ snapshot # {} /\ anySynced
       IN  /\ snapshotAt' = IF hides THEN "hide" ELSE "idle"
           /\ todo' = IF hides THEN Linked \ snapshot ELSE {}
    /\ Forget /\ anySynced' = FALSE
    /\ UNCHANGED <<integration, assortment, links, updated, away, disturbances, syncErrors>>
-----------------------------------------------------------------------------
(* hideMissingProducts and archiveMissingProducts.                         *)

(* markProductLinkMissingFromSnapshot; a count beyond Confirmations is not *)
(* told apart from Confirmations.                                          *)
CountMissing(i) ==
    missingCount' = [missingCount EXCEPT ![i] = IF @ < Confirmations THEN @ + 1 ELSE @]

Removed(status) ==
    IF source = "IIKO" THEN "DELETED" ELSE IF status = "ACTIVE" THEN "HIDDEN" ELSE status

HideMissing(i) ==
    /\ snapshotAt = "hide" /\ i \in todo
    /\ CountMissing(i)
    /\ product' = [product EXCEPT ![i] =
                      IF missingCount'[i] < Confirmations THEN @ ELSE Removed(@)]
    /\ todo' = todo \ {i}
    /\ UNCHANGED <<integration, assortment, snapshotAt, readSoFar, updated, anySynced,
                   away, disturbances, syncErrors>>

EndHide ==
    /\ snapshotAt = "hide" /\ todo = {}
    /\ snapshotAt' = "idle"
    /\ UNCHANGED <<integration, assortment, links, readSoFar, todo, updated, anySynced,
                   away, disturbances, syncErrors>>

(* The synchronisation dies or throws; between the count and the product   *)
(* the count stays.                                                        *)
SnapshotDies ==
    /\ snapshotAt # "idle" /\ syncErrors < MaxSyncErrors
    /\ \/ UNCHANGED missingCount
       \/ \E i \in todo : snapshotAt = "hide" /\ CountMissing(i)
    /\ snapshotAt' = "idle" /\ todo' = {} /\ updated' = {}
    /\ Forget /\ anySynced' = FALSE
    /\ syncErrors' = syncErrors + 1
    /\ UNCHANGED <<integration, assortment, product, away, disturbances>>

MissingNext ==
    \/ \E i \in Items : \/ Depart(i) \/ Arrive(i) \/ Withhold(i) \/ OfferAgain(i)
                        \/ DeactivateUnsyncable(i) \/ SyncItem(i) \/ UpsertProductLink(i)
                        \/ ItemFails(i) \/ HideMissing(i)
    \/ \E whole \in BOOLEAN : BeginSnapshot(whole)
    \/ GetAssortmentPage \/ GetInOneAnswer \/ GetNothing
    \/ EndItems \/ EndHide \/ SnapshotDies

MissingSpec == MissingInit /\ [][MissingNext]_missingVars
-----------------------------------------------------------------------------
(* Properties.                                                             *)

(* One incomplete snapshot takes no product off sale: as long as the       *)
(* provider has disturbed the snapshots at most once, a product goes only  *)
(* when the provider lacked or withheld its item since it was last         *)
(* synchronised, whatever items fail, between the product and its link     *)
(* too, and whichever synchronisations die or are incremental.             *)
HiddenOnlyWhenGone ==
    [][\A i \in Items :
          product[i] = "ACTIVE" /\ product'[i] # "ACTIVE"
              => i \in away \/ disturbances > 1]_missingVars
=============================================================================
