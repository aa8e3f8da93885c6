--------------------------- MODULE CategoryPages ----------------------------
(***************************************************************************)
(* Reading a category page by page.  The products of a category come in    *)
(* the order of position and, where positions are equal, of id.  A page is *)
(* collected by a loop that loads limit + 1 rows after a cursor, drops the *)
(* products the buyer's price list does not show, and loads again from the *)
(* last raw row until it knows of one visible product too many; the cursor *)
(* of the next page is the last product of this one.  The infinite list of *)
(* products is read by the same loop.  Administrators move, link, unlink   *)
(* and hide products while a buyer is reading.                             *)
(***************************************************************************)
EXTENDS Naturals, FiniteSets

CONSTANTS CardIds,      \* ids of the products, ordered as numbers
          CardPositions,\* positions in the category
          CardLimits,   \* page sizes a buyer asks for (1 to 50 in the code)
          MaxChanges    \* changes of the category while it is read

ASSUME PagesAssumption ==
    /\ CardIds \subseteq Nat \ {0} /\ CardPositions \subseteq Nat
    /\ IsFiniteSet([id : CardIds, pos : CardPositions])
    /\ CardLimits \subseteq Nat \ {0} /\ MaxChanges \in Nat

VARIABLES places,       \* the links: products and their positions
          shown,        \* products the price list shows
          steady,       \* listed and shown since the first page was asked for
          changes,      \* changes so far
          cardLimit,    \* the page size
          pageAt,       \* where the read is
          pageCursor,   \* the cursor the buyer sends
          loopCursor,   \* the cursor of the loop
          pageRows,     \* the rows loaded last
          visible,      \* the page collected so far
          seen          \* how often the buyer has received each product

pagesVars == <<places, shown, steady, changes, cardLimit, pageAt, pageCursor,
               loopCursor, pageRows, visible, seen>>

CardPlaces == [id : CardIds, pos : CardPositions]
Start == [id |-> 0, pos |-> 0]
Before(a, b) == a.pos < b.pos \/ (a.pos = b.pos /\ a.id < b.id)
FirstRows(S, n) == {x \in S : Cardinality({y \in S : Before(y, x)}) < n}
LastRow(S) == CHOOSE x \in S : \A y \in S \ {x} : Before(y, x)

PagesTypeOK ==
    /\ places \subseteq CardPlaces
    /\ shown \subseteq CardIds /\ steady \subseteq CardIds
    /\ changes \in 0..MaxChanges
    /\ cardLimit \in CardLimits
    /\ pageAt \in {"load", "map", "asked", "done"}
    /\ pageCursor \in CardPlaces \cup {Start} /\ loopCursor \in CardPlaces \cup {Start}
    /\ pageRows \subseteq CardPlaces /\ visible \subseteq CardPlaces
    /\ seen \in [CardIds -> Nat]

PagesInit ==
    /\ places \in {S \in SUBSET CardPlaces : \A x, y \in S : x.id = y.id => x = y}
    /\ shown \in SUBSET CardIds
    /\ steady = {x.id : x \in places} \cap shown
    /\ changes = 0
    /\ cardLimit \in CardLimits
    /\ pageAt = "asked"
    /\ pageCursor = Start /\ loopCursor = Start
    /\ pageRows = {} /\ visible = {}
    /\ seen = [i \in CardIds |-> 0]

list == <<places, shown, steady, changes>>
-----------------------------------------------------------------------------
(* The buyer asks for a page.                                              *)
AskPage ==
    /\ pageAt = "asked"
    /\ pageAt' = "load"
    /\ loopCursor' = pageCursor
    /\ visible' = {}
    /\ UNCHANGED <<list, cardLimit, pageCursor, pageRows, seen>>

(* The page is answered, with the cursor of the next or without one.       *)
AnswerPage(page, next) ==
    /\ seen' = [i \in CardIds |-> seen[i] + Cardinality({x \in page : x.id = i})]
    /\ pageCursor' = next
    /\ pageAt' = IF next = Start THEN "done" ELSE "asked"
    /\ visible' = {} /\ pageRows' = {} /\ loopCursor' = Start

\* Mutant: no row too many is asked for.
LoadItemsExactly ==
    LET rows == FirstRows({x \in places : Before(loopCursor, x)}, cardLimit) IN
    /\ pageAt = "load"
    /\ IF rows = {}
       THEN AnswerPage(visible, Start)
       ELSE /\ pageRows' = rows
            /\ pageAt' = "map"
            /\ UNCHANGED <<pageCursor, loopCursor, visible, seen>>
    /\ UNCHANGED <<list, cardLimit>>

(* findCategoryProductsPage: limit + 1 rows after the cursor.              *)
LoadItems ==
    LET rows == FirstRows({x \in places : Before(loopCursor, x)}, cardLimit + 1) IN
    /\ pageAt = "load"
    /\ IF rows = {}
       THEN AnswerPage(visible, Start)
       ELSE /\ pageRows' = rows
            /\ pageAt' = "map"
            /\ UNCHANGED <<pageCursor, loopCursor, visible, seen>>
    /\ UNCHANGED <<list, cardLimit>>

(* mapCategoryProductItems drops what is not shown; then one visible       *)
(* product too many ends the page, too few rows end the list, and          *)
(* otherwise the loop goes on from the last raw row.                       *)
MapItems ==
    LET mapped == {x \in pageRows : x.id \in shown}
        room == cardLimit - Cardinality(visible)
        page == visible \cup FirstRows(mapped, room)
    IN  /\ pageAt = "map"
        /\ IF Cardinality(mapped) > room
           THEN AnswerPage(page, LastRow(page))
           ELSE IF Cardinality(pageRows) < cardLimit + 1
           THEN AnswerPage(page, Start)
           ELSE /\ visible' = page
                /\ loopCursor' = LastRow(pageRows)
                /\ pageAt' = "load" /\ pageRows' = {}
                /\ UNCHANGED <<pageCursor, seen>>
        /\ UNCHANGED <<list, cardLimit>>
-----------------------------------------------------------------------------
(* What administrators do to the category and the price list meanwhile.    *)

Disturb(i) ==
    /\ pageAt # "done"
    /\ changes < MaxChanges /\ changes' = changes + 1
    /\ steady' = steady \ {i}
    /\ UNCHANGED <<cardLimit, pageAt, pageCursor, loopCursor, pageRows, visible, seen>>

(* The link is written at a position; unlinking, or a status that is not   *)
(* ACTIVE, takes the product out.                                          *)
PlaceCard(i, pos) ==
    /\ Disturb(i)
    /\ places' = {x \in places : x.id # i} \cup {[id |-> i, pos |-> pos]}
    /\ UNCHANGED shown

RemoveCard(i) ==
    /\ Disturb(i)
    /\ places' = {x \in places : x.id # i}
    /\ UNCHANGED shown

ShowOrHide(i) ==
    /\ Disturb(i)
    /\ shown' = IF i \in shown THEN shown \ {i} ELSE shown \cup {i}
    /\ UNCHANGED places

PagesNext ==
    \/ AskPage \/ LoadItems \/ MapItems
    \/ \E i \in CardIds :
          \/ RemoveCard(i) \/ ShowOrHide(i)
          \/ \E pos \in CardPositions : PlaceCard(i, pos)

PagesSpec == PagesInit /\ [][PagesNext]_pagesVars
-----------------------------------------------------------------------------
(* Properties.                                                             *)

(* Paging neither skips nor repeats: a product that stays where it is and  *)
(* stays visible is received at most once, and exactly once by the end,    *)
(* whatever is moved, hidden or taken out around it between two pages or   *)
(* two rounds of the loop, equal positions and hidden runs included.       *)
PagesComplete ==
    \A i \in steady : /\ seen[i] <= 1
                      /\ pageAt = "done" => seen[i] = 1
=============================================================================
