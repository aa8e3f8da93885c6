---------------------------- MODULE CatalogProofs ----------------------------
(***************************************************************************)
(* Proofs about what a catalog shows: reading a category page by page      *)
(* (CategoryPages), for every category, page size and number of changes,   *)
(* and the products a snapshot lacks (MissingProducts), for every          *)
(* assortment, page limit and number of failures.                          *)
(***************************************************************************)
EXTENDS Integers, CategoryPages, MissingProducts, FiniteSetTheorems, WellFoundedInduction, TLAPS

(***************************************************************************)
(* Numbers and finite sets.                                                *)
(***************************************************************************)

(* A nonempty set of numbers has a least one.                              *)
LEMMA LeastNumber ==
    ASSUME NEW T, T \subseteq Nat, T # {}
    PROVE  \E n \in T : \A m \in T : n <= m
<1>1. PICK n \in T : \A m \in T : ~ (<<m, n>> \in OpToRel(<, Nat))
  BY NatLessThanWellFounded, WFMin
<1>2. ASSUME NEW m \in T, m < n PROVE FALSE
  <2>1. m \in Nat /\ n \in Nat
    OBVIOUS
  <2>2. <<m, n>> \in OpToRel(<, Nat)
    BY <1>2, <2>1 DEF OpToRel
  <2> QED BY <1>1, <2>2
<1>3. \A m \in T : m \in Nat /\ n \in Nat /\ ~ (m < n)
  BY <1>2
<1> QED BY <1>3

(***************************************************************************)
(* The order of a category: by position and then by id.                    *)
(***************************************************************************)
Cursors == CardPlaces \cup {Start}

LEMMA RowOrder ==
    /\ \A a \in Cursors : ~ Before(a, a)
    /\ \A a, b, c \in Cursors : Before(a, b) /\ Before(b, c) => Before(a, c)
    /\ \A a, b \in Cursors : a = b \/ Before(a, b) \/ Before(b, a)
    /\ \A a \in CardPlaces : a # Start /\ Before(Start, a)
    /\ \A a, b \in Cursors : Before(a, b) \in BOOLEAN
<1>a. \A a \in CardPlaces : a.pos \in Nat /\ a.id \in Nat /\ a.id > 0
  <2> SUFFICES ASSUME NEW a \in CardPlaces PROVE a.pos \in Nat /\ a.id \in Nat /\ a.id > 0
    OBVIOUS
  <2>1. a.id \in CardIds /\ a.pos \in CardPositions
    BY DEF CardPlaces
  <2>2. a.id \in Nat \ {0} /\ a.pos \in Nat
    BY <2>1, PagesAssumption
  <2> QED BY <2>2
<1>b. Start \in Cursors /\ Start.id = 0 /\ Start.pos = 0
  BY DEF Cursors, Start
<1>c. \A a, b \in CardPlaces : a.pos = b.pos /\ a.id = b.id => a = b
  BY DEF CardPlaces
<1>1. /\ \A a \in Cursors : a.pos \in Nat /\ a.id \in Nat
      /\ \A a, b \in Cursors : a.pos = b.pos /\ a.id = b.id => a = b
      /\ \A a \in CardPlaces : a.id > 0
      /\ Start \in Cursors /\ Start.id = 0 /\ Start.pos = 0
  <2> HIDE DEF CardPlaces, Start
  <2> QED BY <1>a, <1>b, <1>c DEF Cursors
<1>2. CardPlaces \subseteq Cursors
  BY DEF Cursors
<1> HIDE DEF Cursors, CardPlaces, Start
<1>3. \A a, b \in Cursors : a = b \/ Before(a, b) \/ Before(b, a)
  BY <1>1 DEF Before
<1>4. \A a, b, c \in Cursors : Before(a, b) /\ Before(b, c) => Before(a, c)
  BY <1>1 DEF Before
<1>5. \A a \in CardPlaces : a # Start /\ Before(Start, a)
  BY <1>1, <1>2 DEF Before
<1> QED
  BY <1>1, <1>3, <1>4, <1>5 DEF Before

LEMMA PlacesFinite == ASSUME NEW S, S \subseteq CardPlaces
                      PROVE  IsFiniteSet(S) /\ Cardinality(S) \in Nat
<1>1. IsFiniteSet(CardPlaces)
  BY PagesAssumption DEF CardPlaces
<1> QED BY <1>1, FS_Subset, FS_CardinalityType

(* A subset has no more members, and a proper one has fewer.               *)
LEMMA Smaller == ASSUME NEW S, S \subseteq CardPlaces, NEW T, T \subseteq S
                 PROVE  /\ Cardinality(T) <= Cardinality(S)
                        /\ T # S => Cardinality(T) < Cardinality(S)
<1>1. IsFiniteSet(S) /\ Cardinality(S) \in Nat /\ Cardinality(T) \in Nat
  BY PlacesFinite
<1>2. Cardinality(T) <= Cardinality(S) /\ (Cardinality(S) = Cardinality(T) => S = T)
  BY <1>1, FS_Subset
<1> QED BY <1>1, <1>2

(* Cursors have a first and a last one.                                       *)
LEMMA FirstOf ==
    ASSUME NEW S, S \subseteq CardPlaces, S # {}
    PROVE  \E x \in S : \A y \in S \ {x} : Before(x, y)
<1> DEFINE Under(x) == {y \in S : Before(y, x)}
           T == {Cardinality(Under(x)) : x \in S}
<1>1. T \subseteq Nat /\ T # {}
  BY PlacesFinite
<1>2. PICK n \in T : \A m \in T : n <= m
  <2> HIDE DEF T
  <2> QED BY <1>1, LeastNumber
<1>3. PICK x \in S : n = Cardinality(Under(x))
  OBVIOUS
<1>4. ASSUME NEW y \in S \ {x}, ~ Before(x, y) PROVE FALSE
  <2>1. Before(y, x) /\ ~ Before(y, y)
    BY <1>4, RowOrder DEF Cursors
  <2>2. Under(y) \subseteq Under(x)
    BY <2>1, RowOrder DEF Cursors
  <2>3. y \in Under(x) /\ y \notin Under(y)
    BY <2>1
  <2>4. Cardinality(Under(y)) < Cardinality(Under(x))
    <3>1. Under(x) \subseteq CardPlaces /\ Under(y) # Under(x)
      BY <2>3
    <3> HIDE DEF Under
    <3> QED BY <2>2, <3>1, Smaller
  <2>5. Cardinality(Under(y)) \in T /\ Cardinality(Under(x)) \in Nat /\ Cardinality(Under(y)) \in Nat
    BY PlacesFinite
  <2> HIDE DEF Under, T
  <2> QED BY <1>2, <1>3, <2>4, <2>5
<1> QED BY <1>4

LEMMA LastOf ==
    ASSUME NEW S, S \subseteq CardPlaces, S # {}
    PROVE  LastRow(S) \in S /\ \A y \in S \ {LastRow(S)} : Before(y, LastRow(S))
<1> DEFINE Over(x) == {y \in S : Before(x, y)}
           T == {Cardinality(Over(x)) : x \in S}
<1>1. T \subseteq Nat /\ T # {}
  BY PlacesFinite
<1>2. PICK n \in T : \A m \in T : n <= m
  <2> HIDE DEF T
  <2> QED BY <1>1, LeastNumber
<1>3. PICK x \in S : n = Cardinality(Over(x))
  OBVIOUS
<1>4. ASSUME NEW y \in S \ {x}, ~ Before(y, x) PROVE FALSE
  <2>1. Before(x, y) /\ ~ Before(y, y)
    BY <1>4, RowOrder DEF Cursors
  <2>2. Over(y) \subseteq Over(x)
    BY <2>1, RowOrder DEF Cursors
  <2>3. y \in Over(x) /\ y \notin Over(y)
    BY <2>1
  <2>4. Cardinality(Over(y)) < Cardinality(Over(x))
    <3>1. Over(x) \subseteq CardPlaces /\ Over(y) # Over(x)
      BY <2>3
    <3> HIDE DEF Over
    <3> QED BY <2>2, <3>1, Smaller
  <2>5. Cardinality(Over(y)) \in T /\ Cardinality(Over(x)) \in Nat /\ Cardinality(Over(y)) \in Nat
    BY PlacesFinite
  <2> HIDE DEF Over, T
  <2> QED BY <1>2, <1>3, <2>4, <2>5
<1>5. \A y \in S \ {x} : Before(y, x)
  BY <1>4
<1> QED BY <1>5 DEF LastRow

(***************************************************************************)
(* FirstRows, the rows a LIMIT query returns.                              *)
(***************************************************************************)
LEMMA FirstRowsOf ==
    ASSUME NEW S, S \subseteq CardPlaces, NEW n \in Nat
    PROVE  /\ FirstRows(S, n) \subseteq S
           /\ \A x \in FirstRows(S, n), y \in S : Before(y, x) => y \in FirstRows(S, n)
           /\ Cardinality(S) <= n => FirstRows(S, n) = S
           /\ Cardinality(FirstRows(S, n)) < n => FirstRows(S, n) = S
           /\ n > 0 /\ S # {} => FirstRows(S, n) # {}
<1> DEFINE Under(x) == {y \in S : Before(y, x)}
<1>0. \A x \in S : /\ Under(x) \subseteq S /\ Under(x) \subseteq CardPlaces
                   /\ Cardinality(Under(x)) \in Nat
  BY PlacesFinite
<1>1. /\ FirstRows(S, n) \subseteq S
      /\ \A x \in S : x \in FirstRows(S, n) <=> Cardinality(Under(x)) < n
  BY DEF FirstRows
<1>2. ASSUME NEW x \in FirstRows(S, n), NEW y \in S, Before(y, x)
      PROVE  y \in FirstRows(S, n)
  <2>1. x \in S /\ Under(y) \subseteq Under(x)
    BY <1>1, <1>2, RowOrder DEF Cursors
  <2>2. Cardinality(Under(y)) <= Cardinality(Under(x))
    <3> HIDE DEF Under
    <3> QED BY <1>0, <2>1, Smaller
  <2>3. Cardinality(Under(x)) < n
    BY <1>1
  <2> HIDE DEF Under
  <2> QED BY <1>0, <1>1, <2>1, <2>2, <2>3
<1>3. ASSUME Cardinality(S) <= n PROVE FirstRows(S, n) = S
  <2> SUFFICES ASSUME NEW x \in S PROVE x \in FirstRows(S, n)
    BY <1>1
  <2>1. x \notin Under(x)
    BY RowOrder DEF Cursors
  <2>2. Cardinality(Under(x)) < Cardinality(S)
    <3> HIDE DEF Under
    <3> QED BY <1>0, <2>1, Smaller
  <2>3. Cardinality(S) \in Nat
    BY PlacesFinite
  <2> HIDE DEF Under
  <2> QED BY <1>0, <1>1, <1>3, <2>2, <2>3
<1>4. ASSUME Cardinality(FirstRows(S, n)) < n, FirstRows(S, n) # S PROVE FALSE
  <2>1. PICK x \in S \ FirstRows(S, n) : \A y \in (S \ FirstRows(S, n)) \ {x} : Before(x, y)
    <3> DEFINE Left == S \ FirstRows(S, n)
    <3>1. Left \subseteq CardPlaces /\ Left # {}
      BY <1>1, <1>4
    <3> HIDE DEF Left
    <3>2. \E x \in Left : \A y \in Left \ {x} : Before(x, y)
      BY <3>1, FirstOf
    <3> QED BY <3>2 DEF Left
  <2>2. Under(x) \subseteq FirstRows(S, n)
    <3> SUFFICES ASSUME NEW y \in S, Before(y, x), y \notin FirstRows(S, n) PROVE FALSE
      OBVIOUS
    <3>1. y # x
      BY RowOrder DEF Cursors
    <3>2. Before(x, y)
      BY <2>1, <3>1
    <3> QED BY <3>1, <3>2, RowOrder DEF Cursors
  <2>3. Cardinality(Under(x)) <= Cardinality(FirstRows(S, n))
    <3> HIDE DEF Under
    <3> QED BY <1>1, <2>2, Smaller
  <2>4. Cardinality(FirstRows(S, n)) \in Nat
    BY <1>1, PlacesFinite
  <2> HIDE DEF Under
  <2> QED BY <1>0, <1>1, <1>4, <2>1, <2>3, <2>4
<1>5. ASSUME n > 0, S # {}, FirstRows(S, n) = {} PROVE FALSE
  <2>1. Cardinality(FirstRows(S, n)) < n
    BY <1>5, FS_EmptySet
  <2> QED BY <1>4, <1>5, <2>1
<1> QED BY <1>1, <1>2, <1>3, <1>4, <1>5

(***************************************************************************)
(* The invariant of the reader.  Links name a product once, and a product  *)
(* that is steady is linked and shown: it has one place all the time.      *)
(***************************************************************************)
SteadyPlaced ==
    /\ \A x, y \in places : x.id = y.id => x = y
    /\ \A i \in steady : i \in shown /\ \E x \in places : x.id = i

(* What has been loaded of a steady product is its place.                  *)
RowsCurrent ==
    \A x \in visible \cup pageRows : x.id \in steady => x \in places

(* The page so far lies between the buyer's cursor and the loop's.         *)
PageOrdered ==
    /\ pageAt \in {"load", "map"} => ~ Before(loopCursor, pageCursor)
    /\ pageAt = "asked" => visible = {} /\ pageRows = {}
    /\ \A x \in visible : Before(pageCursor, x) /\ ~ Before(loopCursor, x)
    /\ Cardinality(visible) <= cardLimit

(* The steady products up to the buyer's cursor have been received once,   *)
(* and no other one.                                                       *)
SeenToCursor ==
    IF pageAt = "done" THEN \A i \in steady : seen[i] = 1
    ELSE \A x \in places : x.id \in steady =>
             seen[x.id] = IF Before(pageCursor, x) THEN 0 ELSE 1

(* The steady products between the two cursors are on the page.            *)
Collected ==
    pageAt \in {"load", "map"} =>
        \A x \in places : x.id \in steady /\ Before(pageCursor, x) /\ ~ Before(loopCursor, x)
                              => x \in visible

(* The rows loaded last follow the loop's cursor without a gap, and one    *)
(* that is not among them comes after a full load.                         *)
Loaded ==
    pageAt = "map" =>
        /\ pageRows # {} /\ \A r \in pageRows : Before(loopCursor, r)
        /\ \A x \in places : x.id \in steady /\ Before(loopCursor, x) =>
               \/ x \in pageRows
               \/ Cardinality(pageRows) >= cardLimit + 1 /\ \A r \in pageRows : Before(r, x)

PagesInv == /\ PagesTypeOK /\ SteadyPlaced /\ RowsCurrent /\ PageOrdered
            /\ SeenToCursor /\ Collected /\ Loaded

LEMMA PagesStarts == PagesInit => PagesInv
<1> SUFFICES ASSUME PagesInit PROVE PagesInv
  OBVIOUS
<1>1. PagesTypeOK
  <2>1. /\ places \subseteq CardPlaces /\ shown \subseteq CardIds /\ steady \subseteq CardIds
        /\ seen \in [CardIds -> Nat]
    BY DEF PagesInit
  <2>2. changes \in 0..MaxChanges
    BY PagesAssumption DEF PagesInit
  <2> QED BY <2>1, <2>2 DEF PagesInit, PagesTypeOK
<1>2. SteadyPlaced /\ RowsCurrent /\ Collected /\ Loaded
  BY DEF PagesInit, SteadyPlaced, RowsCurrent, Collected, Loaded
<1>3. PageOrdered
  BY PagesAssumption, FS_EmptySet DEF PagesInit, PageOrdered
<1>4. SeenToCursor
  <2> SUFFICES ASSUME NEW x \in places PROVE seen[x.id] = 0 /\ Before(pageCursor, x)
    BY DEF PagesInit, SeenToCursor
  <2>1. x \in CardPlaces /\ x.id \in CardIds
    BY <1>1 DEF PagesTypeOK, CardPlaces
  <2> QED BY <2>1, RowOrder DEF PagesInit
<1> QED BY <1>1, <1>2, <1>3, <1>4 DEF PagesInv

(* How often a page brings the product at place x.                         *)
LEMMA TimesOnPage ==
    ASSUME NEW page, NEW x, \A y \in page : y.id = x.id => y = x
    PROVE  Cardinality({y \in page : y.id = x.id}) = IF x \in page THEN 1 ELSE 0
<1>1. CASE x \in page
  <2>1. {y \in page : y.id = x.id} = {x}
    BY <1>1
  <2> QED BY <1>1, <2>1, FS_Singleton
<1>2. CASE x \notin page
  <2>1. {y \in page : y.id = x.id} = {}
    BY <1>2
  <2> QED BY <1>2, <2>1, FS_EmptySet
<1> QED BY <1>1, <1>2

(* A page that brings the steady products from the buyer's cursor up to    *)
(* the next one, or up to the end, keeps the invariant.                    *)
LEMMA PageAnswered ==
    ASSUME PagesInv, pageAt \in {"load", "map"},
           NEW page, page \subseteq CardPlaces, NEW next, next \in Cursors,
           AnswerPage(page, next), UNCHANGED <<list, cardLimit>>,
           \A y \in page : Before(pageCursor, y) /\ (y.id \in steady => y \in places),
           ~ Before(next, pageCursor) \/ next = Start,
           \A x \in places : x.id \in steady /\ Before(pageCursor, x) =>
               (x \in page <=> next = Start \/ ~ Before(next, x))
    PROVE  PagesInv'
<1> USE DEF PagesInv
<1>1. UNCHANGED <<places, shown, steady, changes, cardLimit>>
  BY DEF list
<1>2. ASSUME NEW x \in places, x.id \in steady
      PROVE  seen'[x.id] = IF x \in page \/ ~ Before(pageCursor, x) THEN 1 ELSE 0
  <2>1. x \in CardPlaces /\ x.id \in CardIds
    BY DEF PagesTypeOK, CardPlaces
  <2>2. \A y \in page : y.id = x.id => y = x
    BY <1>2 DEF SteadyPlaced
  <2>3. seen'[x.id] = seen[x.id] + IF x \in page THEN 1 ELSE 0
    BY <2>1, <2>2, TimesOnPage DEF AnswerPage
  <2>4. seen[x.id] = IF Before(pageCursor, x) THEN 0 ELSE 1
    BY <1>2 DEF SeenToCursor
  <2> QED BY <2>3, <2>4
<1>3. PagesTypeOK'
  <2>1. seen' \in [CardIds -> Nat]
    <3> SUFFICES ASSUME NEW i \in CardIds
                 PROVE  seen[i] + Cardinality({x \in page : x.id = i}) \in Nat
      BY DEF AnswerPage
    <3>1. Cardinality({x \in page : x.id = i}) \in Nat
      BY PlacesFinite
    <3> QED BY <3>1 DEF PagesTypeOK
  <2>2. pageCursor' \in Cursors /\ loopCursor' \in Cursors /\ pageAt' \in {"done", "asked"}
    BY DEF AnswerPage, Cursors
  <2>3. pageRows' = {} /\ visible' = {}
    BY DEF AnswerPage
  <2> QED BY <1>1, <2>1, <2>2, <2>3 DEF PagesTypeOK, Cursors
<1>4. SteadyPlaced' /\ RowsCurrent' /\ Collected' /\ Loaded'
  BY <1>1 DEF AnswerPage, SteadyPlaced, RowsCurrent, Collected, Loaded
<1>5. PageOrdered'
  <2>1. visible' = {} /\ pageRows' = {} /\ Cardinality(visible') = 0
    BY FS_EmptySet DEF AnswerPage
  <2>2. cardLimit \in Nat
    BY PagesAssumption DEF PagesTypeOK
  <2> QED BY <1>1, <2>1, <2>2 DEF PageOrdered, AnswerPage
<1>6. SeenToCursor'
  <2>1. CASE next = Start
    <3> SUFFICES ASSUME NEW i \in steady PROVE seen'[i] = 1
      BY <1>1, <2>1 DEF SeenToCursor, AnswerPage
    <3>1. PICK x \in places : x.id = i
      BY DEF SteadyPlaced
    <3> QED BY <1>2, <2>1, <3>1
  <2>2. CASE next # Start
    <3> SUFFICES ASSUME NEW x \in places, x.id \in steady
                 PROVE  seen'[x.id] = IF Before(next, x) THEN 0 ELSE 1
      BY <1>1, <2>2 DEF SeenToCursor, AnswerPage
    <3>1. x \in CardPlaces /\ x \in Cursors /\ pageCursor \in Cursors
      BY DEF PagesTypeOK, Cursors
    <3>2. CASE Before(pageCursor, x)
      BY <1>2, <2>2, <3>2
    <3>3. CASE ~ Before(pageCursor, x)
      <4>1. ~ Before(next, x)
        BY <2>2, <3>1, <3>3, RowOrder
      <4> QED BY <1>2, <3>3, <4>1
    <3> QED BY <3>2, <3>3
  <2> QED BY <2>1, <2>2
<1> QED BY <1>3, <1>4, <1>5, <1>6

(* findCategoryProductsPage.                                               *)
LEMMA LoadItemsKeeps == ASSUME PagesInv, LoadItems PROVE PagesInv'
<1> DEFINE S == {x \in places : Before(loopCursor, x)}
           n == cardLimit + 1
           rows == FirstRows(S, n)
<1> USE DEF PagesInv
<1>0. /\ cardLimit \in Nat \ {0} /\ n \in Nat /\ n > 0 /\ S \subseteq CardPlaces
      /\ places \subseteq CardPlaces
  BY PagesAssumption DEF PagesTypeOK
<1>1. /\ rows \subseteq S
      /\ \A x \in rows, y \in S : Before(y, x) => y \in rows
      /\ Cardinality(rows) < n => rows = S
      /\ S # {} => rows # {}
  <2> HIDE DEF S, n
  <2> QED BY <1>0, FirstRowsOf
<1>2. CASE rows = {}
  <2>1. AnswerPage(visible, Start) /\ UNCHANGED <<list, cardLimit>> /\ pageAt = "load"
    BY <1>2 DEF LoadItems
  <2>2. \A y \in visible : Before(pageCursor, y) /\ (y.id \in steady => y \in places)
    BY DEF PageOrdered, RowsCurrent
  <2>3. \A x \in places : x.id \in steady /\ Before(pageCursor, x) => x \in visible
    BY <1>1, <1>2, <2>1 DEF Collected
  <2>4. visible \subseteq CardPlaces /\ Start \in Cursors
    BY DEF PagesTypeOK, Cursors
  <2> QED BY <2>1, <2>2, <2>3, <2>4, PageAnswered
<1>3. CASE rows # {}
  <2>1. /\ pageAt = "load" /\ pageAt' = "map" /\ pageRows' = rows
        /\ UNCHANGED <<places, shown, steady, changes, cardLimit, pageCursor, loopCursor, visible, seen>>
    BY <1>3 DEF LoadItems, list
  <2>2. rows \subseteq places
    BY <1>1
  <2> HIDE DEF rows
  <2>3. PagesTypeOK'
    BY <1>0, <2>1, <2>2 DEF PagesTypeOK
  <2>4. SteadyPlaced' /\ RowsCurrent' /\ SeenToCursor' /\ Collected' /\ PageOrdered'
    BY <2>1, <2>2 DEF SteadyPlaced, RowsCurrent, SeenToCursor, Collected, PageOrdered
  <2>5. Loaded'
    <3>1. \A r \in rows : Before(loopCursor, r)
      BY <1>1
    <3>2. ASSUME NEW x \in places, Before(loopCursor, x), x \notin rows
          PROVE  Cardinality(rows) >= cardLimit + 1 /\ \A r \in rows : Before(r, x)
      <4>1. x \in S /\ rows # S
        BY <3>2
      <4>2. Cardinality(rows) \in Nat
        BY <1>0, <1>1, PlacesFinite
      <4>3. \A r \in rows : Before(r, x)
        <5> SUFFICES ASSUME NEW r \in rows, ~ Before(r, x) PROVE FALSE
          OBVIOUS
        <5>1. r \in Cursors /\ x \in Cursors /\ r # x
          BY <1>0, <2>2, <3>2 DEF Cursors
        <5>2. Before(x, r)
          BY <5>1, RowOrder
        <5> QED BY <1>1, <4>1, <5>2, <3>2
      <4> QED BY <1>0, <1>1, <4>1, <4>2, <4>3
    <3> QED BY <1>3, <2>1, <3>1, <3>2 DEF Loaded
  <2> QED BY <2>3, <2>4, <2>5
<1> QED BY <1>2, <1>3

(* mapCategoryProductItems and the cursor of the page or of the loop.      *)
LEMMA MapItemsKeeps == ASSUME PagesInv, MapItems PROVE PagesInv'
<1> DEFINE mapped == {x \in pageRows : x.id \in shown}
           room == cardLimit - Cardinality(visible)
           firsts == FirstRows(mapped, room)
           page == visible \cup firsts
<1> USE DEF PagesInv
<1>0. /\ pageAt = "map" /\ UNCHANGED <<list, cardLimit>>
      /\ cardLimit \in Nat \ {0} /\ Cardinality(visible) \in Nat /\ room \in Nat
      /\ mapped \subseteq pageRows /\ mapped \subseteq CardPlaces
      /\ pageRows \subseteq CardPlaces /\ visible \subseteq CardPlaces
      /\ pageCursor \in Cursors /\ loopCursor \in Cursors
  <2>1. cardLimit \in Nat \ {0} /\ Cardinality(visible) \in Nat
    BY PagesAssumption, PlacesFinite DEF PagesTypeOK
  <2>2. Cardinality(visible) <= cardLimit
    BY DEF PageOrdered
  <2> QED BY <2>1, <2>2 DEF MapItems, PagesTypeOK, Cursors
<1>1. /\ firsts \subseteq mapped
      /\ \A x \in firsts, y \in mapped : Before(y, x) => y \in firsts
      /\ Cardinality(mapped) <= room => firsts = mapped
      /\ room > 0 /\ mapped # {} => firsts # {}
  <2> HIDE DEF mapped, room
  <2> QED BY <1>0, FirstRowsOf
<1>2. /\ pageRows # {} /\ \A r \in pageRows : Before(loopCursor, r)
      /\ ~ Before(loopCursor, pageCursor)
      /\ \A x \in visible : Before(pageCursor, x) /\ ~ Before(loopCursor, x)
  BY <1>0 DEF Loaded, PageOrdered
<1>3. /\ page \subseteq CardPlaces
      /\ \A y \in pageRows : Before(pageCursor, y)
      /\ \A y \in page : Before(pageCursor, y) /\ (y.id \in steady => y \in places)
  <2>1. \A y \in pageRows : Before(pageCursor, y)
    BY <1>0, <1>2, RowOrder DEF Cursors
  <2> HIDE DEF firsts
  <2> QED BY <1>0, <1>1, <1>2, <2>1 DEF RowsCurrent
(* A steady row before a row of the load has been loaded and is shown.     *)
<1>4. ASSUME NEW x \in places, x.id \in steady, Before(loopCursor, x),
             NEW r \in pageRows, ~ Before(r, x)
      PROVE  x \in mapped
  BY <1>0, <1>4 DEF Loaded, SteadyPlaced
<1> HIDE DEF firsts
<1>5. CASE Cardinality(mapped) > room
  <2>1. AnswerPage(page, LastRow(page))
    BY <1>5 DEF MapItems, firsts
  <2>2. page # {}
    <3>1. CASE room = 0
      <4>1. Cardinality(visible) # 0
        BY <1>0, <3>1
      <4> QED BY <4>1, FS_EmptySet
    <3>2. CASE room > 0
      <4>1. Cardinality(mapped) # 0
        BY <1>0, <1>5, <3>2
      <4>2. mapped # {}
        BY <4>1, FS_EmptySet
      <4> QED BY <1>1, <3>2, <4>2
    <3> QED BY <1>0, <3>1, <3>2
  <2>3. LastRow(page) \in page /\ \A y \in page \ {LastRow(page)} : Before(y, LastRow(page))
    <3> HIDE DEF page
    <3> QED BY <1>3, <2>2, LastOf
  <2>4. PICK last : last = LastRow(page)
    OBVIOUS
  <2>5. /\ last \in page /\ last \in Cursors /\ last \in CardPlaces /\ last # Start
        /\ \A y \in page : ~ Before(last, y)
    <3>1. last \in page /\ last \in CardPlaces
      BY <1>3, <2>3, <2>4
    <3>2. \A y \in page : y = last \/ Before(y, last)
      BY <2>3, <2>4
    <3> HIDE DEF page
    <3> QED BY <1>3, <3>1, <3>2, RowOrder DEF Cursors
  <2>6. ~ Before(last, pageCursor)
    BY <1>0, <1>3, <2>5, RowOrder
  <2>7. ASSUME NEW x \in places, x.id \in steady, Before(pageCursor, x), ~ Before(last, x)
        PROVE  x \in page
    <3>1. CASE ~ Before(loopCursor, x)
      BY <1>0, <2>7, <3>1 DEF Collected
    <3>2. CASE Before(loopCursor, x)
      <4>0. x \in Cursors
        BY DEF PagesTypeOK, Cursors
      <4>1. x = last \/ Before(x, last)
        BY <2>5, <2>7, <4>0, RowOrder
      <4>2. last \notin visible
        BY <1>0, <1>2, <2>5, <3>2, <4>0, <4>1, RowOrder
      <4>3. last \in firsts /\ last \in pageRows
        BY <1>0, <1>1, <2>5, <4>2
      <4>4. x \in mapped
        BY <1>4, <2>7, <3>2, <4>3
      <4> QED BY <1>1, <4>1, <4>3, <4>4
    <3> QED BY <3>1, <3>2
  <2>8. \A x \in places : x.id \in steady /\ Before(pageCursor, x) =>
            (x \in page <=> last = Start \/ ~ Before(last, x))
    BY <2>5, <2>7
  <2> HIDE DEF page
  <2> QED BY <1>0, <1>3, <2>1, <2>4, <2>5, <2>6, <2>8, PageAnswered
<1>6. CASE Cardinality(mapped) <= room /\ Cardinality(pageRows) < cardLimit + 1
  <2>1. AnswerPage(page, Start) /\ Start \in Cursors
    <3>1. ~ (Cardinality(mapped) > room)
      <4>1. Cardinality(mapped) \in Nat
        BY <1>0, PlacesFinite
      <4> HIDE DEF mapped, room
      <4> QED BY <1>0, <1>6, <4>1
    <3> QED BY <1>6, <3>1 DEF MapItems, firsts, Cursors
  <2>2. ASSUME NEW x \in places, x.id \in steady, Before(pageCursor, x)
        PROVE  x \in page
    <3>1. CASE ~ Before(loopCursor, x)
      BY <1>0, <2>2, <3>1 DEF Collected
    <3>2. CASE Before(loopCursor, x)
      <4>1. ~ (Cardinality(pageRows) >= cardLimit + 1)
        <5>1. Cardinality(pageRows) \in Nat
          BY <1>0, PlacesFinite
        <5> QED BY <1>0, <1>6, <5>1
      <4>2. x \in mapped
        BY <1>0, <2>2, <3>2, <4>1 DEF Loaded, SteadyPlaced
      <4> QED BY <1>1, <1>6, <4>2
    <3> QED BY <3>1, <3>2
  <2>3. \A x \in places : x.id \in steady /\ Before(pageCursor, x) =>
            (x \in page <=> Start = Start \/ ~ Before(Start, x))
    BY <2>2
  <2> HIDE DEF page
  <2> QED BY <1>0, <1>3, <2>1, <2>3, PageAnswered
<1>7. CASE Cardinality(mapped) <= room /\ ~ (Cardinality(pageRows) < cardLimit + 1)
  <2>1. /\ visible' = page /\ loopCursor' = LastRow(pageRows)
        /\ pageAt' = "load" /\ pageRows' = {}
        /\ UNCHANGED <<places, shown, steady, changes, cardLimit, pageCursor, seen>>
    <3>1. ~ (Cardinality(mapped) > room)
      <4>1. Cardinality(mapped) \in Nat
        BY <1>0, PlacesFinite
      <4> HIDE DEF mapped, room
      <4> QED BY <1>0, <1>7, <4>1
    <3> QED BY <1>7, <3>1 DEF MapItems, firsts, list
  <2>2. PICK last : last = LastRow(pageRows)
    OBVIOUS
  <2>3. /\ last \in pageRows /\ last \in CardPlaces /\ last \in Cursors
        /\ \A y \in pageRows : ~ Before(last, y)
    <3>1. last \in pageRows /\ \A y \in pageRows \ {last} : Before(y, last)
      BY <1>0, <1>2, <2>2, LastOf
    <3> QED BY <1>0, <3>1, RowOrder DEF Cursors
  <2>4. PagesTypeOK'
    BY <1>3, <2>1, <2>2, <2>3 DEF PagesTypeOK
  <2>5. SteadyPlaced' /\ SeenToCursor' /\ Loaded'
    BY <1>0, <2>1 DEF SteadyPlaced, SeenToCursor, Loaded
  <2>6. RowsCurrent'
    BY <1>3, <2>1 DEF RowsCurrent
  <2>7. PageOrdered'
    <3>1. Cardinality(page) <= cardLimit
      <4>1. /\ IsFiniteSet(visible) /\ IsFiniteSet(mapped)
            /\ Cardinality(mapped) \in Nat /\ Cardinality(visible \cap mapped) \in Nat
        BY <1>0, PlacesFinite
      <4>2. Cardinality(visible \cup mapped)
              = Cardinality(visible) + Cardinality(mapped) - Cardinality(visible \cap mapped)
        <5> HIDE DEF mapped
        <5> QED BY <4>1, FS_Union
      <4>3. page = visible \cup mapped
        BY <1>1, <1>7
      <4>4. /\ Cardinality(visible) \in Nat /\ cardLimit \in Nat
            /\ Cardinality(mapped) <= cardLimit - Cardinality(visible)
        <5>1. Cardinality(visible) \in Nat
          BY <4>1, FS_CardinalityType
        <5>2. cardLimit \in Nat
          BY <1>0, PagesAssumption DEF PagesTypeOK
        <5> HIDE DEF mapped
        <5> QED BY <1>7, <5>1, <5>2
      <4>5. \A a, b, c, n \in Nat : b <= n - a => a + b - c <= n
        OBVIOUS
      <4> HIDE DEF mapped, page, room
      <4> QED BY <4>1, <4>2, <4>3, <4>4, <4>5
    <3>2. ~ Before(last, pageCursor)
      BY <1>0, <1>3, <2>3, RowOrder
    <3>3. \A x \in page : ~ Before(last, x)
      <4>1. ASSUME NEW x \in visible PROVE ~ Before(last, x)
        <5>1. x \in Cursors /\ Before(loopCursor, last)
          BY <1>0, <1>2, <2>3 DEF Cursors
        <5> QED BY <1>0, <1>2, <2>3, <5>1, RowOrder
      <4> QED BY <1>0, <1>1, <2>3, <4>1
    <3> HIDE DEF page
    <3> QED BY <1>3, <2>1, <2>2, <3>1, <3>2, <3>3 DEF PageOrdered
  <2>8. Collected'
    <3> SUFFICES ASSUME NEW x \in places, x.id \in steady, Before(pageCursor, x),
                        ~ Before(last, x)
                 PROVE  x \in page
      BY <2>1, <2>2 DEF Collected
    <3>1. CASE ~ Before(loopCursor, x)
      BY <1>0, <3>1 DEF Collected
    <3>2. CASE Before(loopCursor, x)
      BY <1>1, <1>4, <1>7, <2>3, <3>2
    <3> QED BY <3>1, <3>2
  <2> QED BY <2>4, <2>5, <2>6, <2>7, <2>8
<1>8. Cardinality(mapped) > room \/ Cardinality(mapped) <= room
  <2>1. Cardinality(mapped) \in Nat
    BY <1>0, PlacesFinite
  <2> HIDE DEF mapped, room
  <2> QED BY <1>0, <2>1
<1> QED BY <1>5, <1>6, <1>7, <1>8

LEMMA PagesStep == PagesInv /\ [PagesNext]_pagesVars => PagesInv'
<1> SUFFICES ASSUME PagesInv, [PagesNext]_pagesVars PROVE PagesInv'
  OBVIOUS
<1>1. CASE UNCHANGED pagesVars
  BY <1>1 DEF pagesVars, PagesInv, PagesTypeOK, SteadyPlaced, RowsCurrent, PageOrdered,
     SeenToCursor, Collected, Loaded
<1>2. CASE AskPage
  <2>1. /\ pageAt = "asked" /\ pageAt' = "load" /\ loopCursor' = pageCursor /\ visible' = {}
        /\ UNCHANGED <<places, shown, steady, changes, cardLimit, pageCursor, pageRows, seen>>
    BY <1>2 DEF AskPage, list
  <2>2. PagesTypeOK'
    BY <2>1 DEF PagesInv, PagesTypeOK
  <2>3. SteadyPlaced' /\ RowsCurrent' /\ SeenToCursor' /\ Collected' /\ Loaded'
    BY <2>1 DEF PagesInv, SteadyPlaced, RowsCurrent, SeenToCursor, Collected, Loaded
  <2>4. PageOrdered'
    <3>1. cardLimit \in Nat /\ pageCursor \in Cursors
      BY PagesAssumption DEF PagesInv, PagesTypeOK, Cursors
    <3> QED BY <2>1, <3>1, RowOrder, FS_EmptySet DEF PageOrdered
  <2> QED BY <2>2, <2>3, <2>4 DEF PagesInv
<1>3. CASE LoadItems
  BY <1>3, LoadItemsKeeps
<1>4. CASE MapItems
  BY <1>4, MapItemsKeeps
(* Whatever is done to product i, it is not steady any more.               *)
<1>5. ASSUME NEW i \in CardIds, Disturb(i),
             places' \subseteq CardPlaces, shown' \subseteq CardIds,
             \A x \in CardPlaces : x.id # i => (x \in places' <=> x \in places),
             \A x, y \in places' : x.id = i /\ y.id = i => x = y,
             \A k \in shown : k # i => k \in shown'
      PROVE  PagesInv'
  <2>1. /\ steady' = steady \ {i} /\ pageAt # "done"
        /\ UNCHANGED <<cardLimit, pageAt, pageCursor, loopCursor, pageRows, visible, seen>>
    BY <1>5 DEF Disturb
  <2>2. PagesTypeOK'
    <3>1. changes' \in 0..MaxChanges
      BY <1>5, PagesAssumption DEF Disturb, PagesInv, PagesTypeOK
    <3> QED BY <1>5, <2>1, <3>1 DEF PagesInv, PagesTypeOK
  <2>3. places \subseteq CardPlaces /\ visible \subseteq CardPlaces /\ pageRows \subseteq CardPlaces
    BY DEF PagesInv, PagesTypeOK
  <2>4. SteadyPlaced'
    <3>1. \A x, y \in places' : x.id = y.id => x = y
      BY <1>5, <2>3 DEF PagesInv, SteadyPlaced
    <3>2. \A k \in steady' : k \in shown' /\ \E x \in places' : x.id = k
      BY <1>5, <2>1, <2>3 DEF PagesInv, SteadyPlaced
    <3> QED BY <3>1, <3>2 DEF SteadyPlaced
  <2>5. \A x \in places' : x.id \in steady' => x \in places /\ x.id \in steady
    BY <1>5, <2>1
  <2>6. RowsCurrent'
    BY <1>5, <2>1, <2>3 DEF PagesInv, RowsCurrent
  <2>7. PageOrdered' /\ SeenToCursor'
    BY <2>1, <2>5 DEF PagesInv, PageOrdered, SeenToCursor
  <2>8. Collected' /\ Loaded'
    BY <2>1, <2>5 DEF PagesInv, Collected, Loaded
  <2> QED BY <2>2, <2>4, <2>6, <2>7, <2>8 DEF PagesInv
<1>6. /\ places \subseteq CardPlaces /\ shown \subseteq CardIds
      /\ \A x, y \in places : x.id = y.id => x = y
  BY DEF PagesInv, PagesTypeOK, SteadyPlaced
<1>7. ASSUME NEW i \in CardIds, NEW pos \in CardPositions, PlaceCard(i, pos) PROVE PagesInv'
  <2>1. [id |-> i, pos |-> pos] \in CardPlaces /\ [id |-> i, pos |-> pos].id = i
    BY DEF CardPlaces
  <2> QED BY <1>5, <1>6, <1>7, <2>1 DEF PlaceCard
<1>8. ASSUME NEW i \in CardIds, RemoveCard(i) PROVE PagesInv'
  BY <1>5, <1>6, <1>8 DEF RemoveCard
<1>9. ASSUME NEW i \in CardIds, ShowOrHide(i) PROVE PagesInv'
  BY <1>5, <1>6, <1>9 DEF ShowOrHide
<1> QED
  BY <1>1, <1>2, <1>3, <1>4, <1>7, <1>8, <1>9 DEF PagesNext

LEMMA PagesInvComplete == PagesInv => PagesComplete
<1> SUFFICES ASSUME PagesInv, NEW i \in steady
             PROVE  seen[i] <= 1 /\ (pageAt = "done" => seen[i] = 1)
  BY DEF PagesComplete
<1>1. PICK x \in places : x.id = i
  BY DEF PagesInv, SteadyPlaced
<1> QED BY <1>1 DEF PagesInv, SeenToCursor

(***************************************************************************)
(* Reading a category page by page neither skips nor repeats a product     *)
(* that stays where it is and stays visible: for every category, page      *)
(* size, and number of changes made around it while it is read.            *)
(***************************************************************************)
THEOREM PagesAreComplete == PagesSpec => []PagesComplete
  BY PagesInvComplete, PagesStarts, PagesStep, PTL DEF PagesSpec

(***************************************************************************)
(* MissingProducts.  An assortment is a finite set of numbers, read by     *)
(* rank: as many of its items have a rank up to n as there are items, but  *)
(* no more than n.                                                         *)
(***************************************************************************)
RankIn(S, i) == Cardinality({k \in S : k <= i})

LEMMA ItemsFinite == ASSUME NEW S, S \subseteq Items
                     PROVE  /\ IsFiniteSet(S) /\ Cardinality(S) \in Nat /\ S \subseteq Nat
                            /\ \A T \in SUBSET S : /\ Cardinality(T) \in Nat
                                                  /\ Cardinality(T) <= Cardinality(S)
<1>1. IsFiniteSet(S) /\ S \subseteq Nat
  BY MissingAssumption, FS_Subset
<1>2. \A T \in SUBSET S : IsFiniteSet(T) /\ Cardinality(T) <= Cardinality(S)
  BY <1>1, FS_Subset
<1> QED BY <1>1, <1>2, FS_CardinalityType

LEMMA RankType == ASSUME NEW S, S \subseteq Items, NEW i
                  PROVE  /\ RankIn(S, i) \in Nat /\ RankIn(S, i) <= Cardinality(S)
                         /\ i \in S => RankIn(S, i) > 0
<1>1. {k \in S : k <= i} \in SUBSET S
  OBVIOUS
<1>2. RankIn(S, i) \in Nat /\ RankIn(S, i) <= Cardinality(S)
  BY <1>1, ItemsFinite DEF RankIn
<1>3. ASSUME i \in S, RankIn(S, i) = 0 PROVE FALSE
  <2>1. i \in {k \in S : k <= i}
    BY <1>3, ItemsFinite
  <2>2. IsFiniteSet({k \in S : k <= i})
    BY <1>1, ItemsFinite, FS_Subset
  <2> QED BY <1>3, <2>1, <2>2, FS_EmptySet DEF RankIn
<1> QED BY <1>2, <1>3

LEMMA LastItem ==
    ASSUME NEW S, S \subseteq Items, S # {} PROVE \E m \in S : \A k \in S : k <= m
<1> DEFINE Over(x) == {k \in S : k > x}
           T == {Cardinality(Over(x)) : x \in S}
<1>0. /\ IsFiniteSet(S) /\ S \subseteq Nat
      /\ \A x \in S : Over(x) \in SUBSET S /\ IsFiniteSet(Over(x)) /\ Cardinality(Over(x)) \in Nat
  <2>1. IsFiniteSet(S) /\ S \subseteq Nat
    BY ItemsFinite
  <2>2. \A x \in S : Over(x) \in SUBSET S
    OBVIOUS
  <2> HIDE DEF Over
  <2> QED BY <2>1, <2>2, FS_Subset, FS_CardinalityType
<1>1. T \subseteq Nat /\ T # {}
  BY <1>0
<1>2. PICK n \in T : \A m \in T : n <= m
  <2> HIDE DEF T
  <2> QED BY <1>1, LeastNumber
<1>3. PICK x \in S : n = Cardinality(Over(x))
  OBVIOUS
<1>4. ASSUME NEW y \in S, y > x PROVE FALSE
  <2>0. x \in Nat /\ y \in Nat /\ \A k \in S : k \in Nat
    BY <1>0
  <2>a. \A k \in S : k > y => k > x
    BY <1>4, <2>0
  <2>1. Over(y) \in SUBSET Over(x) /\ y \in Over(x) /\ y \notin Over(y)
    <3>1. y \in Over(x) /\ y \notin Over(y)
      BY <1>4, <2>0
    <3>2. \A k \in Over(y) : k \in Over(x)
      BY <2>a
    <3> QED BY <3>1, <3>2
  <2>2. Cardinality(Over(y)) \in T
    OBVIOUS
  <2> HIDE DEF Over, T
  <2>3. Over(y) # Over(x) /\ Cardinality(Over(y)) <= Cardinality(Over(x))
        /\ (Cardinality(Over(x)) = Cardinality(Over(y)) => Over(x) = Over(y))
    BY <1>0, <2>1, FS_Subset
  <2> QED BY <1>0, <1>2, <1>3, <2>2, <2>3
<1>5. \A y \in S : y \in Nat /\ x \in Nat /\ ~ (y > x)
  BY <1>0, <1>4
<1> QED BY <1>5

LEMMA RankedAtMost ==
    ASSUME NEW S, S \subseteq Items, NEW n \in Nat
    PROVE  Cardinality({k \in S : RankIn(S, k) <= n}) <= n
<1> DEFINE A == {k \in S : RankIn(S, k) <= n}
<1>1. CASE A = {}
  BY <1>1, FS_EmptySet
<1>2. CASE A # {}
  <2>1. A \subseteq Items /\ A \subseteq S
    OBVIOUS
  <2>2. PICK m \in A : \A k \in A : k <= m
    <3> HIDE DEF A
    <3> QED BY <1>2, <2>1, LastItem
  <2> DEFINE B == {k \in S : k <= m}
  <2>3. A \in SUBSET B /\ B \subseteq Items /\ Cardinality(B) <= n
    BY <2>1, <2>2 DEF RankIn
  <2> HIDE DEF A, B
  <2>4. Cardinality(A) <= Cardinality(B) /\ Cardinality(A) \in Nat /\ Cardinality(B) \in Nat
    BY <2>3, ItemsFinite
  <2> QED BY <2>3, <2>4 DEF A
<1> QED BY <1>1, <1>2

LEMMA RankedAtLeast ==
    ASSUME NEW S, S \subseteq Items, NEW n \in Nat, NEW j \in S, RankIn(S, j) > n
    PROVE  Cardinality({k \in S : RankIn(S, k) <= n}) >= n
<1> DEFINE A == {k \in S : RankIn(S, k) <= n}
           C == S \ A
<1>0. S \subseteq Nat /\ A \in SUBSET S /\ IsFiniteSet(A) /\ Cardinality(A) \in Nat
      /\ C \subseteq Nat /\ C # {}
  <2>1. S \subseteq Nat /\ A \in SUBSET S /\ C \subseteq Nat
    BY ItemsFinite
  <2>2. IsFiniteSet(A) /\ Cardinality(A) \in Nat
    <3>1. A \subseteq Items
      OBVIOUS
    <3> HIDE DEF A
    <3> QED BY <3>1, ItemsFinite
  <2>3. j \in C
    BY RankType
  <2> QED BY <2>1, <2>2, <2>3
<1>1. PICK m \in C : \A k \in C : m <= k
  <2> HIDE DEF C
  <2> QED BY <1>0, LeastNumber
<1>2. m \in S /\ m \notin A /\ RankIn(S, m) \in Nat /\ RankIn(S, m) > n
  BY RankType
<1>3. {k \in S : k <= m} \in SUBSET (A \cup {m})
  <2> SUFFICES ASSUME NEW k \in S, k <= m, k # m PROVE k \in A
    OBVIOUS
  <2>1. k \in Nat /\ m \in Nat
    BY <1>0
  <2>2. k \notin C
    BY <1>1, <2>1
  <2> QED BY <2>2
<1> HIDE DEF A
<1>4. /\ IsFiniteSet(A \cup {m})
      /\ Cardinality(A \cup {m}) = IF m \in A THEN Cardinality(A) ELSE Cardinality(A) + 1
  BY <1>0, FS_AddElement
<1>5. RankIn(S, m) <= Cardinality(A \cup {m})
  BY <1>3, <1>4, FS_Subset DEF RankIn
<1>6. Cardinality(A) >= n
  BY <1>0, <1>2, <1>4, <1>5
<1> QED BY <1>6 DEF A

(* A page that is not full is the last one.                                *)
LEMMA ShortPageIsLast ==
    ASSUME offered \subseteq Items, offset \in Nat, Cardinality(Page) < PageLimit
    PROVE  \A j \in offered : RankIn(offered, j) <= offset + PageLimit
<1> SUFFICES ASSUME NEW j \in offered, RankIn(offered, j) > offset + PageLimit PROVE FALSE
  <2>1. \A j \in offered : RankIn(offered, j) \in Nat
    BY RankType
  <2> QED BY <2>1, MissingAssumption
<1> DEFINE A == {k \in offered : RankIn(offered, k) <= offset}
           B == {k \in offered : RankIn(offered, k) <= offset + PageLimit}
<1>0. offset + PageLimit \in Nat /\ PageLimit \in Nat
  BY MissingAssumption
<1>1. Cardinality(A) <= offset
  BY RankedAtMost
<1>2. Cardinality(B) >= offset + PageLimit
  BY <1>0, RankedAtLeast
<1>3. Page = B \ A
  <2>1. \A k \in offered : RankIn(offered, k) \in Nat
    BY RankType
  <2> QED BY <2>1, <1>0 DEF Page, RankIn
<1>4. B \subseteq Items /\ B \cap A = A
  <2>1. \A k \in offered : RankIn(offered, k) \in Nat
    BY RankType
  <2> QED BY <2>1, <1>0
<1> HIDE DEF A, B
<1>5. IsFiniteSet(B) /\ Cardinality(B) \in Nat /\ Cardinality(A) \in Nat
  <2>1. A \in SUBSET B
    BY <1>4
  <2> QED BY <1>4, <2>1, ItemsFinite
<1>6. Cardinality(Page) = Cardinality(B) - Cardinality(A)
  BY ZenonT(60), <1>3, <1>4, <1>5, FS_Difference
<1> QED BY <1>0, <1>1, <1>2, <1>5, <1>6

(* An item that arrives only pushes others back.                           *)
LEMMA RankRises ==
    ASSUME NEW S, NEW T, T \subseteq Items, S \subseteq T, NEW j
    PROVE  RankIn(S, j) <= RankIn(T, j)
<1>1. {k \in S : k <= j} \in SUBSET {k \in T : k <= j} /\ {k \in T : k <= j} \subseteq Items
  OBVIOUS
<1> QED BY <1>1, ItemsFinite DEF RankIn

(***************************************************************************)
(* The invariant.  The synchronisation under way threatens an item when    *)
(* its end will count the item as missing: the item is not in the snapshot *)
(* and can not come into it any more.                                      *)
(***************************************************************************)
Threatened(j) ==
    \/ snapshotAt = "hide" /\ j \in todo
    \/ snapshotAt = "upsert" /\ full /\ j \notin snapshot
    \/ /\ snapshotAt = "fetch" /\ source = "MOYSKLAD" /\ full
       /\ j \notin snapshot /\ RankIn(offered, j) <= offset

SnapshotKept ==
    /\ Items \ away \subseteq offered
    /\ snapshotAt \in {"fetch", "upsert"} /\ source = "IIKO" => full
    /\ snapshotAt = "upsert" => todo \subseteq snapshot
    /\ snapshotAt = "fetch" => heldBack \subseteq away
    /\ snapshotAt = "upsert" => heldBack \cap todo \subseteq away
    /\ withheld \cap offered \subseteq away

(* Without a disturbance nothing is counted as missing.                    *)
Unbroken ==
    disturbances = 0 =>
        offered = Items /\ \A j \in Items : missingCount[j] = 0 /\ ~ Threatened(j)

(* After one, an item the provider had all the time has been counted, or   *)
(* is going to be, at most once.                                           *)
OnceDisturbed ==
    disturbances = 1 =>
        \A j \in Items \ away :
            missingCount[j] = 0 \/ (missingCount[j] = 1 /\ ~ Threatened(j))

MissingInv == MissingTypeOK /\ SnapshotKept /\ Unbroken /\ OnceDisturbed

LEMMA OffsetType ==
    /\ Cardinality(Items) \in Nat /\ PageLimit \in Nat \ {0}
    /\ 0 \in 0..Cardinality(Items) + PageLimit
    /\ \A o \in 0..Cardinality(Items) + PageLimit : o \in Nat
<1>1. Cardinality(Items) \in Nat
  BY ItemsFinite
<1> QED BY <1>1, MissingAssumption

LEMMA MissingStarts == MissingInit => MissingInv
<1> SUFFICES ASSUME MissingInit PROVE MissingInv
  OBVIOUS
<1>1. MissingTypeOK
  <2>1. 0 \in 0..Cardinality(Items) + PageLimit
    BY OffsetType
  <2>2. 0 \in 0..Confirmations /\ 0 \in 0..MaxDisturbances /\ 0 \in 0..MaxSyncErrors
    BY MissingAssumption
  <2>3. /\ missingCount \in [Items -> 0..Confirmations]
        /\ product \in [Items -> {"none", "ACTIVE", "HIDDEN", "DELETED"}]
    BY <2>2 DEF MissingInit
  <2> QED BY <2>1, <2>2, <2>3 DEF MissingInit, MissingTypeOK
<1> QED
  BY <1>1 DEF MissingInit, MissingInv, SnapshotKept, Unbroken, OnceDisturbed, Threatened

LEMMA MissingTypeStep == ASSUME MissingTypeOK, [MissingNext]_missingVars PROVE MissingTypeOK'
<1>0. /\ Cardinality(Items) \in Nat /\ PageLimit \in Nat \ {0}
      /\ 0 \in 0..Cardinality(Items) + PageLimit
      /\ \A o \in 0..Cardinality(Items) + PageLimit : o \in Nat
  BY OffsetType
<1> USE MissingAssumption DEF MissingTypeOK, links, readSoFar, syncState, integration,
        assortment, Forget, ReadRows, ItemTurn, WriteLink
<1>1. CASE UNCHANGED missingVars
  BY <1>1 DEF missingVars
<1>a. ASSUME NEW i \in Items, Depart(i) PROVE MissingTypeOK'
  BY <1>a DEF Depart
<1>2. ASSUME NEW i \in Items, Arrive(i) PROVE MissingTypeOK'
  BY <1>2 DEF Arrive
<1>b. ASSUME NEW i \in Items, Withhold(i) \/ OfferAgain(i) PROVE MissingTypeOK'
  BY <1>b DEF Withhold, OfferAgain
<1>c. ASSUME NEW i \in Items, DeactivateUnsyncable(i) PROVE MissingTypeOK'
  BY <1>c DEF DeactivateUnsyncable
<1>3. ASSUME NEW i \in Items, SyncItem(i) PROVE MissingTypeOK'
  BY <1>3 DEF SyncItem, StatusOnSync
<1>d. ASSUME NEW i \in Items, UpsertProductLink(i) PROVE MissingTypeOK'
  BY <1>d DEF UpsertProductLink
<1>4. ASSUME NEW i \in Items, ItemFails(i) PROVE MissingTypeOK'
  <2>1. /\ product' \in [Items -> {"none", "ACTIVE", "HIDDEN", "DELETED"}]
        /\ missingCount' \in [Items -> 0..Confirmations] /\ away' \subseteq Items
    <3>1. UNCHANGED <<links, away>> \/ WriteLink(i)
      BY <1>4 DEF ItemFails
    <3>2. CASE UNCHANGED <<links, away>>
      BY <3>2
    <3>3. CASE WriteLink(i)
      BY <3>3
    <3> QED BY <3>1, <3>2, <3>3
  <2> QED BY <1>4, <2>1 DEF ItemFails
<1>5. ASSUME NEW i \in Items, HideMissing(i) PROVE MissingTypeOK'
  BY <1>5 DEF HideMissing, CountMissing, Removed
<1>6. ASSUME NEW whole \in BOOLEAN, BeginSnapshot(whole) PROVE MissingTypeOK'
  <2>1. offset' \in 0..Cardinality(Items) + PageLimit
    BY <1>0, <1>6 DEF BeginSnapshot
  <2> QED BY <2>1, <1>6 DEF BeginSnapshot
<1>7. CASE GetAssortmentPage
  <2>a. Page \subseteq Items
    BY DEF Page
  <2>b. offset \in Nat
    <3>1. offset \in 0..Cardinality(Items) + PageLimit
      OBVIOUS
    <3> QED BY <1>0, <3>1
  <2>1. Page \subseteq Items /\ offset \in Nat
    BY <2>a, <2>b
  <2>2. ASSUME Cardinality(Page) = PageLimit PROVE offset <= Cardinality(Items)
    <3>1. Page # {}
      BY <2>2, FS_EmptySet
    <3>2. PICK j \in offered : RankIn(offered, j) > offset
      BY <3>1 DEF Page, RankIn
    <3>3. RankIn(offered, j) \in Nat /\ RankIn(offered, j) <= Cardinality(offered)
      BY RankType
    <3>4. Cardinality(offered) \in Nat /\ Cardinality(offered) <= Cardinality(Items)
      BY ItemsFinite
    <3> QED BY <1>0, <2>1, <3>2, <3>3, <3>4
  <2>3. offset' \in 0..Cardinality(Items) + PageLimit
    BY <1>0, <1>7, <2>1, <2>2 DEF GetAssortmentPage
  <2> HIDE DEF MissingTypeOK
  <2>4. snapshot' \subseteq Items /\ todo' \subseteq Items
        /\ snapshotAt' \in {"idle", "fetch", "upsert", "hide"}
    BY <1>7, <2>1 DEF GetAssortmentPage, Fetched, MissingTypeOK
  <2>5. heldBack' \subseteq Items
    BY <1>7 DEF GetAssortmentPage, Fetched, MissingTypeOK
  <2> QED BY <1>7, <2>3, <2>4, <2>5 DEF GetAssortmentPage, Fetched, MissingTypeOK
<1>8. CASE GetInOneAnswer
  BY <1>8 DEF GetInOneAnswer, Fetched
<1>9. CASE GetNothing
  BY <1>9 DEF GetNothing, Fetched
<1>10. CASE EndItems
  BY <1>0, <1>10 DEF EndItems, Linked
<1>11. CASE EndHide
  BY <1>11 DEF EndHide
<1>12. CASE SnapshotDies
  <2>1. missingCount' \in [Items -> 0..Confirmations]
    BY <1>12 DEF SnapshotDies, CountMissing
  <2>2. offset' \in 0..Cardinality(Items) + PageLimit
    BY <1>0, <1>12 DEF SnapshotDies
  <2>3. syncErrors' \in 0..MaxSyncErrors
    BY <1>12 DEF SnapshotDies
  <2> HIDE DEF MissingTypeOK
  <2>4. /\ UNCHANGED <<integration, assortment, product, away, disturbances>>
        /\ full' = FALSE /\ snapshot' = {} /\ heldBack' = {} /\ todo' = {} /\ updated' = {}
        /\ snapshotAt' = "idle" /\ anySynced' = FALSE
    BY <1>12 DEF SnapshotDies
  <2> QED BY <2>1, <2>2, <2>3, <2>4 DEF MissingTypeOK
<1> QED
  BY <1>1, <1>2, <1>3, <1>4, <1>5, <1>6, <1>7, <1>8, <1>9, <1>10, <1>11, <1>12, <1>a, <1>b,
     <1>c, <1>d
  DEF MissingNext

(* A step of the synchronisation that counts nothing threatens no item     *)
(* that was not threatened, as long as the provider keeps it.              *)
LEMMA NoNewThreat ==
    ASSUME MissingTypeOK, SnapshotKept, NEW j \in offered,
           \/ \E whole \in BOOLEAN : BeginSnapshot(whole)
           \/ GetAssortmentPage \/ GetInOneAnswer \/ EndItems \/ EndHide
           \/ \E i \in Items : \/ DeactivateUnsyncable(i) \/ SyncItem(i)
                               \/ UpsertProductLink(i) \/ ItemFails(i) \/ Arrive(i)
                               \/ Withhold(i) \/ OfferAgain(i),
           Threatened(j)'
    PROVE  Threatened(j)
<1>0. /\ offered \subseteq Items /\ offset \in Nat /\ j \in Items
      /\ PageLimit \in Nat \ {0}
  <2>1. Cardinality(Items) + PageLimit \in Nat
    BY ItemsFinite, MissingAssumption
  <2> QED BY <2>1, MissingAssumption DEF MissingTypeOK
<1>a. RankIn(offered, j) \in Nat /\ RankIn(offered, j) > 0
  BY <1>0, RankType
<1> USE DEF Threatened, links, readSoFar, syncState, integration, assortment, Forget,
        ReadRows, ItemTurn, WriteLink
<1>1. CASE \E whole \in BOOLEAN : BeginSnapshot(whole)
  BY <1>1, <1>a DEF BeginSnapshot, RankIn
<1>2. CASE GetAssortmentPage
  <2>1. j \in Page <=> offset < RankIn(offered, j) /\ RankIn(offered, j) <= offset + PageLimit
    BY DEF Page, RankIn
  <2>2. CASE Cardinality(Page) < PageLimit
    <3>1. RankIn(offered, j) <= offset + PageLimit
      BY <1>0, <2>2, ShortPageIsLast
    <3>2. j \notin snapshot /\ j \notin Page
      BY <1>2, <2>2 DEF GetAssortmentPage, Fetched
    <3> QED BY <1>0, <1>2, <1>a, <2>1, <3>1, <3>2 DEF GetAssortmentPage
  <2>3. CASE Cardinality(Page) = PageLimit
    <3>1. j \notin snapshot /\ j \notin Page /\ RankIn(offered, j) <= offset + PageLimit
      BY <1>0, <1>2, <2>3 DEF GetAssortmentPage, Fetched, RankIn
    <3> QED BY <1>0, <1>2, <1>a, <2>1, <3>1 DEF GetAssortmentPage
  <2> QED BY <1>2, <2>2, <2>3 DEF GetAssortmentPage
<1>3. CASE GetInOneAnswer
  BY <1>3 DEF GetInOneAnswer, Fetched
<1>4. CASE EndItems
  BY <1>4 DEF EndItems, Linked, SnapshotKept
<1>5. CASE EndHide
  BY <1>5 DEF EndHide
<1>6. ASSUME NEW i \in Items, \/ DeactivateUnsyncable(i) \/ SyncItem(i)
                              \/ UpsertProductLink(i) \/ ItemFails(i)
      PROVE  Threatened(j)
  BY <1>6 DEF DeactivateUnsyncable, SyncItem, UpsertProductLink, ItemFails, RankIn
<1>8. ASSUME NEW i \in Items, Withhold(i) \/ OfferAgain(i) PROVE Threatened(j)
  BY <1>8 DEF Withhold, OfferAgain, RankIn
<1>7. ASSUME NEW i \in Items, Arrive(i) PROVE Threatened(j)
  <2>1. offered \subseteq offered' /\ offered' \subseteq Items
    BY <1>0, <1>7 DEF Arrive
  <2>2. RankIn(offered, j) <= RankIn(offered', j) /\ RankIn(offered', j) \in Nat
    BY <2>1, RankRises, RankType
  <2>3. RankIn(offered, j)' = RankIn(offered', j)
    BY DEF RankIn
  <2> QED BY <1>0, <1>a, <1>7, <2>2, <2>3 DEF Arrive
<1> QED BY <1>1, <1>2, <1>3, <1>4, <1>5, <1>6, <1>7, <1>8

LEMMA SnapshotKeptStep ==
    ASSUME MissingTypeOK, SnapshotKept, [MissingNext]_missingVars PROVE SnapshotKept'
<1> USE DEF MissingTypeOK, SnapshotKept, links, readSoFar, syncState, integration,
        assortment, Forget, ReadRows, ItemTurn, WriteLink
<1>1. CASE UNCHANGED missingVars
  BY <1>1 DEF missingVars
<1>2. ASSUME NEW i \in Items, Depart(i) \/ Arrive(i) PROVE SnapshotKept'
  BY <1>2 DEF Depart, Arrive
<1>a. ASSUME NEW i \in Items, Withhold(i) \/ OfferAgain(i) PROVE SnapshotKept'
  BY <1>a DEF Withhold, OfferAgain
<1>b. ASSUME NEW i \in Items, DeactivateUnsyncable(i) PROVE SnapshotKept'
  BY <1>b DEF DeactivateUnsyncable
<1>3. ASSUME NEW i \in Items, SyncItem(i) PROVE SnapshotKept'
  BY <1>3 DEF SyncItem
<1>c. ASSUME NEW i \in Items, UpsertProductLink(i) \/ ItemFails(i) PROVE SnapshotKept'
  BY <1>c DEF UpsertProductLink, ItemFails
<1>4. ASSUME NEW i \in Items, HideMissing(i) PROVE SnapshotKept'
  BY <1>4 DEF HideMissing
<1>5. ASSUME NEW whole \in BOOLEAN, BeginSnapshot(whole) PROVE SnapshotKept'
  BY <1>5 DEF BeginSnapshot
<1>6. CASE GetAssortmentPage \/ GetInOneAnswer \/ GetNothing
  BY <1>6 DEF GetAssortmentPage, GetInOneAnswer, GetNothing, Fetched
<1>7. CASE EndItems \/ EndHide \/ SnapshotDies
  BY <1>7 DEF EndItems, EndHide, SnapshotDies
<1> QED
  BY <1>1, <1>2, <1>3, <1>4, <1>5, <1>6, <1>7, <1>a, <1>b, <1>c DEF MissingNext

LEMMA MissingStep == MissingInv /\ [MissingNext]_missingVars => MissingInv'
<1> SUFFICES ASSUME MissingInv, [MissingNext]_missingVars PROVE MissingInv'
  OBVIOUS
<1>0. MissingTypeOK /\ SnapshotKept /\ Unbroken /\ OnceDisturbed
  BY DEF MissingInv
<1>a. MissingTypeOK' /\ SnapshotKept'
  BY <1>0, MissingTypeStep, SnapshotKeptStep
<1>b. /\ Items \ away \subseteq offered /\ offered \subseteq Items
      /\ missingCount = [j \in Items |-> missingCount[j]] /\ disturbances \in Nat
      /\ \A j \in Items : missingCount[j] \in Nat
  BY <1>0, MissingAssumption DEF MissingTypeOK, SnapshotKept
<1> SUFFICES Unbroken' /\ OnceDisturbed'
  BY <1>a DEF MissingInv
<1>1. CASE UNCHANGED missingVars
  BY <1>0, <1>1 DEF missingVars, Unbroken, OnceDisturbed, Threatened, RankIn
(* The steps that neither count nor disturb.                               *)
<1>2. CASE \/ \E whole \in BOOLEAN : BeginSnapshot(whole)
           \/ GetAssortmentPage \/ GetInOneAnswer \/ EndItems \/ EndHide
           \/ \E i \in Items : \/ DeactivateUnsyncable(i) \/ SyncItem(i) \/ Arrive(i)
                               \/ Withhold(i) \/ OfferAgain(i)
  <2>1. /\ UNCHANGED <<missingCount, disturbances>> /\ away \subseteq away'
        /\ offered \subseteq offered' /\ offered' \subseteq Items
    BY <1>2, <1>b DEF BeginSnapshot, GetAssortmentPage, GetInOneAnswer, EndItems, EndHide,
       DeactivateUnsyncable, SyncItem, Arrive, Withhold, OfferAgain, links, syncState,
       integration, assortment
  <2>2. \A j \in offered : Threatened(j)' => Threatened(j)
    BY <1>0, <1>2, NoNewThreat
  <2> QED BY <1>0, <1>b, <2>1, <2>2 DEF Unbroken, OnceDisturbed
<1>3. ASSUME NEW i \in Items, UpsertProductLink(i) \/ ItemFails(i)
      PROVE  Unbroken' /\ OnceDisturbed'
  <2>1. /\ UNCHANGED <<offered, disturbances>> /\ away \subseteq away' \cup {i}
        /\ missingCount'[i] = 0 \/ UNCHANGED <<missingCount, away>>
        /\ \A j \in Items \ {i} : missingCount'[j] = missingCount[j]
    BY <1>3, <1>b DEF UpsertProductLink, ItemFails, WriteLink, links, integration, assortment
  <2>2. \A j \in offered : Threatened(j)' => Threatened(j)
    BY <1>0, <1>3, NoNewThreat
  <2> QED BY <1>0, <1>b, <2>1, <2>2 DEF Unbroken, OnceDisturbed
<1>4. ASSUME NEW i \in Items, HideMissing(i) PROVE Unbroken' /\ OnceDisturbed'
  <2>1. /\ UNCHANGED <<offered, disturbances, away, snapshotAt, snapshot, full>>
        /\ snapshotAt = "hide" /\ i \in todo /\ todo' = todo \ {i}
    BY <1>4 DEF HideMissing, integration, assortment, readSoFar
  <2>2. Threatened(i) /\ ~ Threatened(i)' /\ \A j \in Items : Threatened(j)' => Threatened(j)
    BY <2>1 DEF Threatened
  <2>3. /\ missingCount[i] = 0 => missingCount'[i] = 1
        /\ \A j \in Items \ {i} : missingCount'[j] = missingCount[j]
    BY <1>4, <1>b, MissingAssumption DEF HideMissing, CountMissing
  <2> QED BY <1>0, <2>1, <2>2, <2>3 DEF Unbroken, OnceDisturbed
<1>5. CASE SnapshotDies
  <2>1. /\ UNCHANGED <<offered, disturbances, away>>
        /\ \A j \in Items : ~ Threatened(j)'
    BY <1>5 DEF SnapshotDies, Threatened, integration, assortment
  <2>2. ASSUME NEW j \in Items, ~ Threatened(j) PROVE missingCount'[j] = missingCount[j]
    BY <1>5, <1>b, <2>2 DEF SnapshotDies, CountMissing, Threatened
  <2>3. ASSUME NEW j \in Items, missingCount[j] = 0 PROVE missingCount'[j] \in {0, 1}
    BY <1>5, <1>b, <2>3 DEF SnapshotDies, CountMissing
  <2> QED BY <1>0, <2>1, <2>2, <2>3 DEF Unbroken, OnceDisturbed
(* The disturbances: nothing has been counted before the first one.        *)
<1>6. CASE GetNothing \/ \E i \in Items : Depart(i)
  <2>1. missingCount' = missingCount /\ disturbances' = disturbances + 1
    BY <1>6 DEF GetNothing, Depart, links
  <2> QED BY <1>0, <1>b, <2>1 DEF Unbroken, OnceDisturbed
<1> QED
  BY <1>1, <1>2, <1>3, <1>4, <1>5, <1>6 DEF MissingNext

(* One step of the synchronisation hides no product the provider had.      *)
LEMMA HidesOnlyGone ==
    ASSUME MissingInv, [MissingNext]_missingVars, NEW i \in Items,
           product[i] = "ACTIVE", product'[i] # "ACTIVE"
    PROVE  i \in away \/ disturbances > 1
<1>1. /\ product = [j \in Items |-> product[j]] /\ disturbances \in Nat
      /\ Confirmations \in Nat /\ Confirmations > 1
      /\ missingCount = [j \in Items |-> missingCount[j]] /\ \A j \in Items : missingCount[j] \in Nat
  BY MissingAssumption DEF MissingInv, MissingTypeOK
<1>a. ASSUME NEW j \in Items, SyncItem(j) \/ DeactivateUnsyncable(j) PROVE i \in away
  <2>1. j = i /\ i \in heldBack /\ i \in todo /\ snapshotAt = "upsert"
    BY <1>1, <1>a DEF SyncItem, DeactivateUnsyncable, StatusOnSync, ItemTurn
  <2> QED BY <2>1 DEF MissingInv, SnapshotKept
<1>b. CASE \E j \in Items : SyncItem(j) \/ DeactivateUnsyncable(j)
  BY <1>a, <1>b
<1>c. CASE ~ \E j \in Items : SyncItem(j) \/ DeactivateUnsyncable(j)
  <2>1. ASSUME NEW j \in Items, WriteLink(j) PROVE FALSE
    BY <1>1, <2>1 DEF WriteLink
  <2>2. ASSUME NEW j \in Items, HideMissing(j)
        PROVE  HideMissing(i) /\ missingCount'[i] >= Confirmations
    <3>1. j = i
      BY <1>1, <2>2 DEF HideMissing
    <3>2. missingCount'[i] \in Nat /\ ~ (missingCount'[i] < Confirmations)
      BY <1>1, <2>2, <3>1 DEF HideMissing, CountMissing
    <3> QED BY <1>1, <2>2, <3>1, <3>2
  <2>3. product' # product
    OBVIOUS
  <2>4. \E j \in Items : HideMissing(j)
    BY <1>c, <2>1, <2>3 DEF MissingNext, missingVars, Depart, Arrive, Withhold, OfferAgain,
       UpsertProductLink, ItemFails, BeginSnapshot, GetAssortmentPage, GetInOneAnswer,
       GetNothing, EndItems, EndHide, SnapshotDies, links
  <2>5. HideMissing(i) /\ missingCount'[i] >= Confirmations
    BY <2>2, <2>4
  <2>6. Threatened(i) /\ missingCount[i] # 0
    BY <1>1, <2>5 DEF HideMissing, CountMissing, Threatened
  <2> QED BY <1>1, <2>6 DEF MissingInv, Unbroken, OnceDisturbed
<1> QED BY <1>b, <1>c

(***************************************************************************)
(* hideMissingProducts and archiveMissingProducts: one incomplete snapshot *)
(* takes no product off sale, for every assortment, page limit, number of  *)
(* confirmations from two on, and number of failures.                      *)
(***************************************************************************)
THEOREM MissingAreGone == MissingSpec => HiddenOnlyWhenGone
<1>1. MissingInv /\ [MissingNext]_missingVars =>
        [\A i \in Items : product[i] = "ACTIVE" /\ product'[i] # "ACTIVE"
                              => i \in away \/ disturbances > 1]_missingVars
  BY HidesOnlyGone
<1> QED
  BY <1>1, MissingStarts, MissingStep, PTL DEF MissingSpec, HiddenOnlyWhenGone

=============================================================================
