------------------------------ MODULE Inventory ------------------------------
(***************************************************************************)
(* The internal warehouse (src/src/modules/inventory): balances, cart       *)
(* reservations and the stock read model, at the grain of one SQL          *)
(* statement per step.                                                     *)
(*                                                                         *)
(* Every operation runs in a PostgreSQL transaction at READ COMMITTED: a   *)
(* statement reads what was committed when it starts (or what its own      *)
(* transaction wrote), an UPDATE waits for the row's lock, evaluates its   *)
(* WHERE clause on the row as it is once the lock is granted, and keeps the *)
(* lock until COMMIT or ROLLBACK.  So a row has a latest version (bal, res, *)
(* stock) seen by the transaction that holds its lock, and a committed one  *)
(* (cbal, cres, cstock) seen by everyone else; they differ only while the  *)
(* row is locked.                                                          *)
(***************************************************************************)
EXTENDS Integers, FiniteSets

CONSTANTS
    Warehouse,   \* warehouses of one catalog
    Variant,     \* product variants
    Cart,        \* carts
    Line,        \* cart items: a reservation row's unique key is (cart, item, variant)
    CartOf,      \* the cart of a line
    VariantOf,   \* the variant of a line
    Session,     \* concurrent database sessions
    Opened,      \* the warehouses that exist at the start
    MaxQty,      \* bound: quantity of a line
    MaxStock,    \* bound: units an adjustment leaves on hand, or in the journal
    InitStock,   \* units on hand (all available) in each opened warehouse at the start
    Ops          \* the operations the environment may call

AllOps == {"reserve", "release", "abandon", "consume", "adjust", "expire",
           "warehouse", "crash"}

ASSUME InventoryAssumption ==
    /\ Line # {} /\ Warehouse # {} /\ Variant # {} /\ IsFiniteSet(Line)
    /\ CartOf \in [Line -> Cart] /\ VariantOf \in [Line -> Variant]
    /\ Opened \subseteq Warehouse
    /\ MaxQty \in Nat /\ MaxStock \in Nat /\ InitStock \in Nat
    /\ Ops \subseteq AllOps

VARIABLES
    bal, cbal,      \* balance rows, latest and committed
    res, cres,      \* reservation rows
    stock, cstock,  \* ProductVariant.stock, kept as its addends per warehouse
    held,           \* held[p]: the row locks of session p
    tx,             \* tx[p]: the transaction session p runs
    wh,             \* warehouse status
    dflt,           \* the warehouses with isDefault
    resync,         \* warehouses changed by a request whose resync has not run yet
    sweep           \* what the expiry job read and has not worked through yet

rows == <<bal, cbal, res, cres, stock, cstock>>
vars == <<bal, cbal, res, cres, stock, cstock, held, tx, wh, dflt, resync, sweep>>

----------------------------------------------------------------------------
(* Rows *)

\* moved is the sum of quantityDelta over the row's movements: a sale or an
\* adjustment inserts its movement in the transaction that changes the row.
Balance == [onHand: Nat, reserved: Nat, available: Nat, moved: Int]

ReservationStatus == {"NONE", "ACTIVE", "RELEASED", "EXPIRED", "CONSUMED"}
\* due: expiresAt <= now
Reservation == [status: ReservationStatus, w: Warehouse, q: Nat, due: BOOLEAN]

WarehouseStatus == {"absent", "ACTIVE", "DISABLED", "deleted"}

\* What findMany returns of a reservation; stale as soon as it is returned.
Snapshot == [l: Line, w: Warehouse, q: Nat]

BalRow(w, v) == <<"balance", w, v>>
ResRow(l) == <<"reservation", l>>
StockRow(v) == <<"variant", v>>
CartRow(c) == <<"cart", c>>

Row == {BalRow(w, v) : w \in Warehouse, v \in Variant}
       \cup {ResRow(l) : l \in Line}
       \cup {StockRow(v) : v \in Variant}
       \cup {CartRow(c) : c \in Cart}

PC == {"idle", "next", "claim", "free", "take", "give", "save", "sum", "set",
       "mark", "sellReserved", "sellDirect", "upsert"}

\* A transaction: its operation and program counter, the work it still has to
\* do (rel: reservations to release; want: lines to reserve or sell; vs:
\* variants to resync) and the values its earlier statements read.
Tx == [op: AllOps \cup {"none"}, pc: PC,
       rel: SUBSET Snapshot, want: [Line -> Nat], vs: SUBSET Variant,
       l: Line, w: Warehouse, dw: Warehouse, v: Variant,
       q: Nat, a: Nat, d: Int, seen: [Warehouse -> Nat]]

Nothing == [l \in Line |-> 0]
Idle == [op |-> "none", pc |-> "idle",
         rel |-> {}, want |-> Nothing, vs |-> {},
         l |-> CHOOSE l \in Line : TRUE,
         w |-> CHOOSE w \in Warehouse : TRUE,
         dw |-> CHOOSE w \in Warehouse : TRUE,
         v |-> CHOOSE v \in Variant : TRUE,
         q |-> 0, a |-> 0, d |-> 0, seen |-> [w \in Warehouse |-> 0]]

\* The same transaction about to look for its next piece of work.
Again(t) == [Idle EXCEPT !.op = t.op, !.pc = "next", !.dw = t.dw,
                         !.rel = t.rel, !.want = t.want, !.vs = t.vs]

OpeningStock(w) == IF w \in Opened THEN InitStock ELSE 0

Init ==
    /\ bal = [w \in Warehouse |-> [v \in Variant |->
                [onHand |-> OpeningStock(w), reserved |-> 0,
                 available |-> OpeningStock(w), moved |-> OpeningStock(w)]]]
    /\ cbal = bal
    /\ res = [l \in Line |-> [status |-> "NONE", w |-> Idle.w, q |-> 0, due |-> FALSE]]
    /\ cres = res
    /\ wh = [w \in Warehouse |-> IF w \in Opened THEN "ACTIVE" ELSE "absent"]
    /\ dflt \in {{}} \cup {{w} : w \in Opened}
    /\ stock = [v \in Variant |-> [w \in Warehouse |-> OpeningStock(w)]]
    /\ cstock = stock
    /\ held = [p \in Session |-> {}]
    /\ tx = [p \in Session |-> Idle]
    /\ resync = {}
    /\ sweep = {}

----------------------------------------------------------------------------
(* Statements: reads, locks and the end of a transaction *)

Free(p, row) == \A o \in Session \ {p} : row \notin held[o]
Lock(p, row) == held' = [held EXCEPT ![p] = @ \cup {row}]

SeenBal(p, w, v) == IF BalRow(w, v) \in held[p] THEN bal[w][v] ELSE cbal[w][v]
SeenRes(p, l) == IF ResRow(l) \in held[p] THEN res[l] ELSE cres[l]

Active == {w \in Warehouse : wh[w] = "ACTIVE"}

\* The default warehouse if it is active, else the only active one; the empty
\* set stands for WAREHOUSE_NOT_FOUND and WAREHOUSE_AMBIGUOUS.
SalesWarehouse ==
    IF Active \cap dflt # {} THEN Active \cap dflt
    ELSE {w \in Active : Active = {w}}

\* ACTIVE reservations of cart c for the lines in L, as session p reads them.
ActiveOf(p, c, L) ==
    {[l |-> l, w |-> SeenRes(p, l).w, q |-> SeenRes(p, l).q] :
        l \in {k \in L : CartOf[k] = c /\ SeenRes(p, k).status = "ACTIVE"}}

Wants(c) == {f \in [Line -> 0..MaxQty] : \A l \in Line : CartOf[l] # c => f[l] = 0}

SetBal(p, b) ==
    LET t == tx[p] IN
    /\ bal' = [bal EXCEPT ![t.w] = [@ EXCEPT ![t.v] = b]]
    /\ Lock(p, BalRow(t.w, t.v))

Step(p, t) == tx' = [tx EXCEPT ![p] = t]

UnchangedEnv == UNCHANGED <<wh, dflt, resync, sweep>>

\* COMMIT: the rows the transaction locked become the committed ones.
Commit(p) ==
    /\ tx[p].pc = "next" /\ tx[p].rel = {} /\ tx[p].want = Nothing /\ tx[p].vs = {}
    /\ cbal' = [w \in Warehouse |-> [v \in Variant |-> SeenBal(p, w, v)]]
    /\ cres' = [l \in Line |-> SeenRes(p, l)]
    /\ cstock' = [v \in Variant |->
                    IF StockRow(v) \in held[p] THEN stock[v] ELSE cstock[v]]
    /\ held' = [held EXCEPT ![p] = {}]
    /\ Step(p, Idle)
    /\ UNCHANGED <<bal, res, stock>> /\ UnchangedEnv

\* ROLLBACK: the rows the transaction locked go back to the committed ones.  The
\* error also ends the expiry job's loop.
Rollback(p) ==
    /\ bal' = [w \in Warehouse |-> [v \in Variant |->
                 IF BalRow(w, v) \in held[p] THEN cbal[w][v] ELSE bal[w][v]]]
    /\ res' = [l \in Line |-> IF ResRow(l) \in held[p] THEN cres[l] ELSE res[l]]
    /\ stock' = [v \in Variant |->
                   IF StockRow(v) \in held[p] THEN cstock[v] ELSE stock[v]]
    /\ held' = [held EXCEPT ![p] = {}]
    /\ Step(p, Idle)
    /\ sweep' = IF tx[p].op = "expire" THEN {} ELSE sweep
    /\ UNCHANGED <<cbal, cres, cstock, wh, dflt, resync>>

----------------------------------------------------------------------------
(* syncVariantStockReadModel: aggregate, then write. *)

\* Mutant: the status of the warehouse is not looked at.
SumAllWarehouses(p) ==
    LET t == tx[p] IN
    /\ t.pc = "sum"
    /\ Step(p, [t EXCEPT !.pc = "set",
                         !.seen = [w \in Warehouse |-> SeenBal(p, w, t.v).available]])
    /\ UNCHANGED <<rows, held>> /\ UnchangedEnv

\* Mutant: the aggregate runs on another connection than the transaction.
SumOutsideTransaction(p) ==
    LET t == tx[p] IN
    /\ t.pc = "sum"
    /\ Step(p, [t EXCEPT !.pc = "set",
                         !.seen = [w \in Warehouse |->
                             IF w \in Active THEN cbal[w][t.v].available ELSE 0]])
    /\ UNCHANGED <<rows, held>> /\ UnchangedEnv

SumAvailable(p) ==
    LET t == tx[p] IN
    /\ t.pc = "sum"
    /\ Step(p, [t EXCEPT !.pc = "set",
                         !.seen = [w \in Warehouse |->
                             IF w \in Active THEN SeenBal(p, w, t.v).available ELSE 0]])
    /\ UNCHANGED <<rows, held>> /\ UnchangedEnv

SetStock(p) ==
    LET t == tx[p] IN
    /\ t.pc = "set" /\ Free(p, StockRow(t.v))
    /\ stock' = [stock EXCEPT ![t.v] = t.seen]
    /\ Lock(p, StockRow(t.v))
    /\ Step(p, Again(t))
    /\ UNCHANGED <<bal, cbal, res, cres, cstock>> /\ UnchangedEnv

----------------------------------------------------------------------------
(* releaseActiveReservation: claim the row, free its quantity, sync. *)

NextRelease(p) ==
    LET t == tx[p] IN
    /\ t.pc = "next"
    /\ \E r \in t.rel :
          Step(p, [t EXCEPT !.pc = "claim", !.rel = @ \ {r}, !.l = r.l, !.w = r.w,
                            !.v = VariantOf[r.l], !.q = r.q])
    /\ UNCHANGED <<rows, held>> /\ UnchangedEnv

ReleasedStatus(op) == IF op = "expire" THEN "EXPIRED" ELSE "RELEASED"

Claim(p) ==
    LET t == tx[p] IN
    /\ t.pc = "claim" /\ Free(p, ResRow(t.l))
    /\ \/ /\ res[t.l].status = "ACTIVE"
          /\ res' = [res EXCEPT ![t.l] = [@ EXCEPT !.status = ReleasedStatus(t.op)]]
          /\ Lock(p, ResRow(t.l))
          /\ Step(p, [t EXCEPT !.pc = "free"])
       \/ /\ res[t.l].status # "ACTIVE"
          /\ Step(p, Again(t))
          /\ UNCHANGED <<res, held>>
    /\ UNCHANGED <<bal, cbal, cres, stock, cstock>> /\ UnchangedEnv

\* Mutant: the released quantity is not made available again.
ReleaseWithoutIncrement(p) ==
    LET t == tx[p]
        b == bal[t.w][t.v] IN
    /\ t.pc \in {"free", "give"} /\ Free(p, BalRow(t.w, t.v))
    /\ \/ b.reserved >= t.q /\ SetBal(p, [b EXCEPT !.reserved = @ - t.q])
       \/ b.reserved < t.q /\ UNCHANGED <<bal, held>>
    /\ Step(p, [t EXCEPT !.pc = IF t.pc = "free" THEN "sum" ELSE "save"])
    /\ UNCHANGED <<cbal, res, cres, stock, cstock>> /\ UnchangedEnv

\* quantityReserved >= quantity, else the update matches no row and the handler
\* goes on.  The quantity is the one read before the row was claimed.
ReleaseReservedQuantity(p) ==
    LET t == tx[p]
        b == bal[t.w][t.v] IN
    /\ t.pc \in {"free", "give"} /\ Free(p, BalRow(t.w, t.v))
    /\ \/ /\ b.reserved >= t.q
          /\ SetBal(p, [b EXCEPT !.reserved = @ - t.q, !.available = @ + t.q])
       \/ b.reserved < t.q /\ UNCHANGED <<bal, held>>
    /\ Step(p, [t EXCEPT !.pc = IF t.pc = "free" THEN "sum" ELSE "save"])
    /\ UNCHANGED <<cbal, res, cres, stock, cstock>> /\ UnchangedEnv

----------------------------------------------------------------------------
(* reserveCartStock *)

\* Every caller updates or locks the cart row first, which serialises the
\* operations on one cart.  Lines no longer wanted are released, the others
\* reserved.
BeginReserve(p, c, want) ==
    /\ "reserve" \in Ops
    /\ tx[p].pc = "idle" /\ Free(p, CartRow(c)) /\ want # Nothing
    /\ \E dw \in SalesWarehouse :
          Step(p, [Idle EXCEPT !.op = "reserve", !.pc = "next",
                               !.rel = ActiveOf(p, c, {l \in Line : want[l] = 0}),
                               !.want = want, !.dw = dw])
    /\ Lock(p, CartRow(c))
    /\ UNCHANGED rows /\ UnchangedEnv

\* Mutant: the warehouse of the existing reservation is not looked at.
ReadLineInPlace(p, l) ==
    LET t == tx[p]
        r == SeenRes(p, l)
        current == IF r.status = "ACTIVE" THEN r.q ELSE 0 IN
    /\ t.op = "reserve" /\ t.pc = "next" /\ t.rel = {} /\ t.want[l] > 0
    /\ Step(p, [t EXCEPT !.pc = IF t.want[l] > current THEN "take"
                                ELSE IF t.want[l] < current THEN "give"
                                ELSE "save",
                         !.l = l, !.w = t.dw, !.v = VariantOf[l],
                         !.q = IF t.want[l] > current THEN t.want[l] - current
                               ELSE current - t.want[l]])
    /\ UNCHANGED <<rows, held>> /\ UnchangedEnv

\* reserveCartLine, its reads: the existing reservation decides whether the line
\* first leaves another warehouse, takes more, gives some back or only renews.
ReadLine(p, l) ==
    LET t == tx[p]
        r == SeenRes(p, l)
        current == IF r.status = "ACTIVE" THEN r.q ELSE 0
        moves == r.status = "ACTIVE" /\ r.w # t.dw IN
    /\ t.op = "reserve" /\ t.pc = "next" /\ t.rel = {} /\ t.want[l] > 0
    /\ \/ /\ moves
          /\ Step(p, [t EXCEPT !.pc = "claim", !.l = l, !.w = r.w,
                               !.v = VariantOf[l], !.q = r.q])
       \/ /\ ~moves
          /\ Step(p, [t EXCEPT !.pc = IF t.want[l] > current THEN "take"
                                      ELSE IF t.want[l] < current THEN "give"
                                      ELSE "save",
                               !.l = l, !.w = t.dw, !.v = VariantOf[l],
                               !.q = IF t.want[l] > current THEN t.want[l] - current
                                     ELSE current - t.want[l]])
    /\ UNCHANGED <<rows, held>> /\ UnchangedEnv

\* Reserve the difference if available >= delta; otherwise see Throw.
TakeAvailable(p) ==
    LET t == tx[p]
        b == bal[t.w][t.v] IN
    /\ t.pc = "take" /\ Free(p, BalRow(t.w, t.v)) /\ b.available >= t.q
    /\ SetBal(p, [b EXCEPT !.reserved = @ + t.q, !.available = @ - t.q])
    /\ Step(p, [t EXCEPT !.pc = "save"])
    /\ UNCHANGED <<cbal, res, cres, stock, cstock>> /\ UnchangedEnv

\* The reservation row is created or overwritten by its id, whatever its status
\* is by now.
SaveReservation(p) ==
    LET t == tx[p] IN
    /\ t.pc = "save" /\ Free(p, ResRow(t.l))
    /\ res' = [res EXCEPT ![t.l] = [status |-> "ACTIVE", w |-> t.w,
                                    q |-> t.want[t.l], due |-> FALSE]]
    /\ Lock(p, ResRow(t.l))
    /\ LET kept == [t EXCEPT !.pc = "sum", !.want = [@ EXCEPT ![t.l] = 0]] IN
       Step(p, IF t.q # 0 THEN kept ELSE Again(kept))
    /\ UNCHANGED <<bal, cbal, cres, stock, cstock>> /\ UnchangedEnv

----------------------------------------------------------------------------
(* releaseCartReservations *)

\* A cart that is deleted, closed or emptied: the caller holds the cart row.
BeginRelease(p, c) ==
    /\ "release" \in Ops
    /\ tx[p].pc = "idle" /\ Free(p, CartRow(c))
    /\ Step(p, [Idle EXCEPT !.op = "release", !.pc = "next",
                            !.rel = ActiveOf(p, c, Line)])
    /\ Lock(p, CartRow(c))
    /\ UNCHANGED rows /\ UnchangedEnv

\* The abandoned-cart sweep: its conditional update of the carts may match
\* nothing and lock nothing, the reservations are released all the same.
BeginAbandon(p, c) ==
    /\ "abandon" \in Ops
    /\ tx[p].pc = "idle"
    /\ Step(p, [Idle EXCEPT !.op = "abandon", !.pc = "next",
                            !.rel = ActiveOf(p, c, Line)])
    /\ UNCHANGED <<rows, held>> /\ UnchangedEnv

----------------------------------------------------------------------------
(* releaseExpiredReservations *)

\* expiresAt passes.
Tick(l) ==
    /\ "expire" \in Ops
    /\ cres[l].status = "ACTIVE" /\ ~cres[l].due
    /\ \A p \in Session : ResRow(l) \notin held[p]
    /\ res' = [res EXCEPT ![l] = [@ EXCEPT !.due = TRUE]]
    /\ cres' = [cres EXCEPT ![l] = [@ EXCEPT !.due = TRUE]]
    /\ UNCHANGED <<bal, cbal, stock, cstock, held, tx>> /\ UnchangedEnv

\* Mutant: the comparison with the clock is the wrong way round.
ReadUnexpired ==
    /\ "expire" \in Ops
    /\ sweep = {} /\ \A p \in Session : tx[p].op # "expire"
    /\ sweep' = {[l |-> l, w |-> cres[l].w, q |-> cres[l].q] :
                    l \in {k \in Line : cres[k].status = "ACTIVE" /\ ~cres[k].due}}
    /\ UNCHANGED <<rows, held, tx, wh, dflt, resync>>

\* The job reads the due reservations outside any transaction ...
ReadExpired ==
    /\ "expire" \in Ops
    /\ sweep = {} /\ \A p \in Session : tx[p].op # "expire"
    /\ sweep' = {[l |-> l, w |-> cres[l].w, q |-> cres[l].q] :
                    l \in {k \in Line : cres[k].status = "ACTIVE" /\ cres[k].due}}
    /\ UNCHANGED <<rows, held, tx, wh, dflt, resync>>

\* ... and releases them one after the other, each in a transaction of its own.
BeginExpire(p) ==
    /\ tx[p].pc = "idle"
    /\ \A o \in Session : tx[o].op # "expire"
    /\ \E r \in sweep :
          /\ sweep' = sweep \ {r}
          /\ Step(p, [Idle EXCEPT !.op = "expire", !.pc = "next", !.rel = {r}])
    /\ UNCHANGED <<rows, held, wh, dflt, resync>>

----------------------------------------------------------------------------
(* consumeCompletedOrderStock *)

\* The checkout has claimed the cart row; the order is new, so no sale movement
\* with its idempotency key exists.
BeginConsume(p, c, want) ==
    /\ "consume" \in Ops
    /\ tx[p].pc = "idle" /\ Free(p, CartRow(c)) /\ want # Nothing
    /\ Step(p, [Idle EXCEPT !.op = "consume", !.pc = "next", !.want = want])
    /\ Lock(p, CartRow(c))
    /\ UNCHANGED rows /\ UnchangedEnv

\* Mutant: quantityAvailable is not compared.
CanConsumeReserved(b, total, reserved, direct) ==
    b.onHand >= total /\ b.reserved >= reserved

\* canConsumeStockBalance
CanConsume(b, total, reserved, direct) ==
    b.onHand >= total /\ b.reserved >= reserved /\ b.available >= direct

\* consumeCompletedOrderLine, its reads: ReservedPart units come out of the
\* reservation (from the reservation's warehouse), the rest directly from the
\* sales warehouse.
ReservedPart(p, l) ==
    LET r == SeenRes(p, l) IN
    IF r.status # "ACTIVE" THEN 0
    ELSE IF r.q < tx[p].want[l] THEN r.q ELSE tx[p].want[l]

DirectPart(p, l) == tx[p].want[l] - ReservedPart(p, l)

\* The warehouses the direct part can be sold from.
DirectFrom(p, l) ==
    IF DirectPart(p, l) = 0 THEN {tx[p].dw}
    ELSE {w \in SalesWarehouse : CanConsume(SeenBal(p, w, VariantOf[l]),
                                            DirectPart(p, l), 0, DirectPart(p, l))}

ReservedCovered(p, l) ==
    ReservedPart(p, l) > 0 =>
        CanConsume(SeenBal(p, SeenRes(p, l).w, VariantOf[l]),
                   ReservedPart(p, l), ReservedPart(p, l), 0)

ReadHold(p, l) ==
    LET t == tx[p]
        r == SeenRes(p, l)
        reserved == ReservedPart(p, l) IN
    /\ t.op = "consume" /\ t.pc = "next" /\ t.want[l] > 0
    /\ ReservedCovered(p, l)
    /\ \E dw \in DirectFrom(p, l) :
          Step(p, [t EXCEPT !.pc = IF reserved > 0 THEN "mark" ELSE "sellDirect",
                            !.l = l, !.v = VariantOf[l], !.dw = dw,
                            !.w = IF reserved > 0 THEN r.w ELSE dw,
                            !.q = reserved, !.a = DirectPart(p, l),
                            !.d = r.q - reserved,
                            !.want = [@ EXCEPT ![l] = 0]])
    /\ UNCHANGED <<rows, held>> /\ UnchangedEnv

\* Mutant: a reservation larger than the line is closed as a whole.
MarkWholeConsumed(p) ==
    LET t == tx[p] IN
    /\ t.pc = "mark" /\ Free(p, ResRow(t.l))
    /\ res' = [res EXCEPT ![t.l] = [@ EXCEPT !.status = "CONSUMED"]]
    /\ Lock(p, ResRow(t.l))
    /\ Step(p, [t EXCEPT !.pc = "sellReserved"])
    /\ UNCHANGED <<bal, cbal, cres, stock, cstock>> /\ UnchangedEnv

\* Updated by id, whatever the row's status is by now; a reservation larger than
\* the line keeps its status and the rest of its quantity.
MarkConsumed(p) ==
    LET t == tx[p] IN
    /\ t.pc = "mark" /\ Free(p, ResRow(t.l))
    /\ res' = [res EXCEPT ![t.l] = IF t.d > 0 THEN [@ EXCEPT !.q = t.d]
                                   ELSE [@ EXCEPT !.status = "CONSUMED"]]
    /\ Lock(p, ResRow(t.l))
    /\ Step(p, [t EXCEPT !.pc = "sellReserved"])
    /\ UNCHANGED <<bal, cbal, cres, stock, cstock>> /\ UnchangedEnv

\* Mutant: the sale writes no movement.
SellWithoutMovement(b, total, reserved, direct) ==
    [b EXCEPT !.onHand = @ - total, !.reserved = @ - reserved,
              !.available = @ - direct]

\* consumeStockBalance and createSaleMovement
Sell(b, total, reserved, direct) ==
    [b EXCEPT !.onHand = @ - total, !.reserved = @ - reserved,
              !.available = @ - direct, !.moved = @ - total]

SellReserved(p) ==
    LET t == tx[p]
        b == bal[t.w][t.v] IN
    /\ t.pc = "sellReserved" /\ Free(p, BalRow(t.w, t.v))
    /\ CanConsume(b, t.q, t.q, 0)
    /\ SetBal(p, Sell(b, t.q, t.q, 0))
    /\ Step(p, [t EXCEPT !.pc = IF t.a > 0 THEN "sellDirect" ELSE "sum", !.w = t.dw])
    /\ UNCHANGED <<cbal, res, cres, stock, cstock>> /\ UnchangedEnv

SellDirect(p) ==
    LET t == tx[p]
        b == bal[t.w][t.v] IN
    /\ t.pc = "sellDirect" /\ Free(p, BalRow(t.w, t.v))
    /\ CanConsume(b, t.a, 0, t.a)
    /\ SetBal(p, Sell(b, t.a, 0, t.a))
    /\ Step(p, [t EXCEPT !.pc = "sum"])
    /\ UNCHANGED <<cbal, res, cres, stock, cstock>> /\ UnchangedEnv

----------------------------------------------------------------------------
(* adjustStock *)

\* The new quantities are computed from the row as it was read ...
BeginAdjust(p, w, v, d) ==
    LET b == cbal[w][v]
        next == b.onHand + d IN
    /\ "adjust" \in Ops
    /\ tx[p].pc = "idle" /\ wh[w] = "ACTIVE" /\ d # 0
    /\ next >= b.reserved /\ next <= MaxStock /\ b.moved + d \in 0..MaxStock
    /\ Step(p, [Idle EXCEPT !.op = "adjust", !.pc = "upsert", !.w = w, !.v = v,
                            !.q = next, !.a = next - b.reserved, !.d = d])
    /\ UNCHANGED <<rows, held>> /\ UnchangedEnv

\* ... and written as absolute values; quantityReserved is left alone.
UpsertBalance(p) ==
    LET t == tx[p] IN
    /\ t.pc = "upsert" /\ Free(p, BalRow(t.w, t.v))
    /\ SetBal(p, [bal[t.w][t.v] EXCEPT !.onHand = t.q, !.available = t.a,
                                       !.moved = @ + t.d])
    /\ Step(p, [t EXCEPT !.pc = "sum"])
    /\ UNCHANGED <<cbal, res, cres, stock, cstock>> /\ UnchangedEnv

----------------------------------------------------------------------------
(* Warehouses.  The change commits first; the request then runs the resync. *)

CreateWarehouse(w, status, isDefault) ==
    /\ "warehouse" \in Ops
    /\ wh[w] = "absent" /\ ~(status = "DISABLED" /\ isDefault)
    /\ wh' = [wh EXCEPT ![w] = status]
    /\ dflt' = IF isDefault THEN {w} ELSE dflt
    /\ UNCHANGED <<rows, held, tx, resync, sweep>>

\* status and isDefault: "KEEP" when the request does not give the field.
UpdateWarehouse(w, status, isDefault) ==
    /\ "warehouse" \in Ops
    /\ wh[w] \in {"ACTIVE", "DISABLED"}
    /\ ~(status = "DISABLED" /\ isDefault = "YES")
    /\ wh' = IF status = "KEEP" THEN wh ELSE [wh EXCEPT ![w] = status]
    /\ dflt' = IF isDefault = "YES" THEN {w}
               ELSE IF status = "DISABLED" \/ isDefault = "NO" THEN dflt \ {w}
               ELSE dflt
    /\ resync' = IF status = "KEEP" THEN resync ELSE resync \cup {w}
    /\ UNCHANGED <<rows, held, tx, sweep>>

RemoveWarehouse(w) ==
    /\ "warehouse" \in Ops
    /\ wh[w] \in {"ACTIVE", "DISABLED"}
    /\ wh' = [wh EXCEPT ![w] = "deleted"]
    /\ dflt' = dflt \ {w}
    /\ resync' = resync \cup {w}
    /\ UNCHANGED <<rows, held, tx, sweep>>

\* One transaction over the variants with a balance row in w.  A row that was
\* never written is all zero, so vs is any set that has the non-zero rows.
BeginResync(p, w, vs) ==
    /\ tx[p].pc = "idle" /\ w \in resync
    /\ \A v \in Variant \ vs : cbal[w][v].onHand = 0 /\ cbal[w][v].reserved = 0
    /\ resync' = resync \ {w}
    /\ Step(p, [Idle EXCEPT !.op = "warehouse", !.pc = "next", !.vs = vs])
    /\ UNCHANGED <<rows, held, wh, dflt, sweep>>

NextResync(p) ==
    LET t == tx[p] IN
    /\ t.pc = "next"
    /\ \E v \in t.vs : Step(p, [t EXCEPT !.pc = "sum", !.v = v, !.vs = @ \ {v}])
    /\ UNCHANGED <<rows, held>> /\ UnchangedEnv

----------------------------------------------------------------------------
(* Failure *)

\* The statement p is at matched no row: the handler throws and the transaction
\* is rolled back.
Refused(p) ==
    LET t == tx[p]
        b == bal[t.w][t.v] IN
    \/ t.pc = "take" /\ Free(p, BalRow(t.w, t.v)) /\ b.available < t.q
    \/ t.pc = "sellReserved" /\ Free(p, BalRow(t.w, t.v)) /\ ~CanConsume(b, t.q, t.q, 0)
    \/ t.pc = "sellDirect" /\ Free(p, BalRow(t.w, t.v)) /\ ~CanConsume(b, t.a, 0, t.a)
    \/ /\ t.pc = "next" /\ t.op = "consume"
       /\ \E l \in Line : t.want[l] > 0 /\ ~(ReservedCovered(p, l) /\ DirectFrom(p, l) # {})

Throw(p) == Refused(p) /\ Rollback(p)

\* The row the statement p is at has to lock.
Needs(p) ==
    LET t == tx[p] IN
    CASE t.pc \in {"claim", "save", "mark"} -> {ResRow(t.l)}
      [] t.pc \in {"free", "give", "take", "sellReserved", "sellDirect", "upsert"} ->
            {BalRow(t.w, t.v)}
      [] t.pc = "set" -> {StockRow(t.v)}
      [] OTHER -> {}

\* PostgreSQL rolls one of a circle of waiting transactions back.
DeadlockVictim(p) ==
    /\ \E S \in SUBSET Session :
          p \in S /\ \A x \in S : \E y \in S \ {x} : Needs(x) \cap held[y] # {}
    /\ Rollback(p)

\* The process dies or the connection is lost.
Crash(p) == "crash" \in Ops /\ tx[p].pc # "idle" /\ Rollback(p)

----------------------------------------------------------------------------
Begin(p) ==
    \/ \E c \in Cart : \E want \in Wants(c) : BeginReserve(p, c, want)
    \/ \E c \in Cart : \E want \in Wants(c) : BeginConsume(p, c, want)
    \/ \E c \in Cart : BeginRelease(p, c)
    \/ \E c \in Cart : BeginAbandon(p, c)
    \/ \E w \in Warehouse, v \in Variant, d \in -MaxStock..MaxStock :
          BeginAdjust(p, w, v, d)

\* Background work picks a free session.
BeginJob(p) ==
    \/ BeginExpire(p)
    \/ \E w \in Warehouse, vs \in SUBSET Variant : BeginResync(p, w, vs)

\* What an open transaction does next.
Proceed(p) ==
    \/ NextRelease(p) \/ Claim(p) \/ ReleaseReservedQuantity(p)
    \/ \E l \in Line : ReadLine(p, l) \/ ReadHold(p, l)
    \/ TakeAvailable(p) \/ SaveReservation(p)
    \/ MarkConsumed(p) \/ SellReserved(p) \/ SellDirect(p)
    \/ UpsertBalance(p)
    \/ NextResync(p) \/ SumAvailable(p) \/ SetStock(p)
    \/ Commit(p) \/ Throw(p) \/ DeadlockVictim(p)

ChangeWarehouse ==
    \E w \in Warehouse :
        \/ \E status \in {"ACTIVE", "DISABLED"}, isDefault \in BOOLEAN :
              CreateWarehouse(w, status, isDefault)
        \/ \E status \in {"ACTIVE", "DISABLED", "KEEP"},
              isDefault \in {"YES", "NO", "KEEP"} :
              UpdateWarehouse(w, status, isDefault)
        \/ RemoveWarehouse(w)

Next ==
    \/ \E p \in Session : Begin(p) \/ BeginJob(p) \/ Proceed(p) \/ Crash(p)
    \/ \E l \in Line : Tick(l)
    \/ ReadExpired
    \/ ChangeWarehouse

Spec == Init /\ [][Next]_vars

\* The expiry job is started again and again by its schedule.  The connection pool
\* and PostgreSQL's lock queues are first come, first served: the job gets a
\* session, and a statement waiting for a lock gets it once its holder is gone.
\* Requests come as they please.
Fairness ==
    /\ WF_vars(ReadExpired)
    /\ SF_vars(\E p \in Session : BeginExpire(p))
    /\ \A p \in Session :
          /\ WF_vars(Proceed(p))
          /\ SF_vars(Claim(p)) /\ SF_vars(ReleaseReservedQuantity(p)) /\ SF_vars(SetStock(p))

FairSpec == Spec /\ Fairness

----------------------------------------------------------------------------
(* Properties *)

\* Quantities are naturals in every row version: no statement, in whatever order
\* sessions run them, drives a balance below zero, so the warehouse never
\* promises a unit it has not got.
TypeOK ==
    /\ bal \in [Warehouse -> [Variant -> Balance]]
    /\ cbal \in [Warehouse -> [Variant -> Balance]]
    /\ res \in [Line -> Reservation]
    /\ cres \in [Line -> Reservation]
    /\ stock \in [Variant -> [Warehouse -> Nat]]
    /\ cstock \in [Variant -> [Warehouse -> Nat]]
    /\ held \in [Session -> SUBSET Row]
    /\ tx \in [Session -> Tx]
    /\ wh \in [Warehouse -> WarehouseStatus]
    /\ dflt \subseteq Warehouse
    /\ resync \subseteq Warehouse
    /\ sweep \subseteq Snapshot

\* available = onHand - reserved in every committed balance row.  The conditional
\* updates keep it under every interleaving; the absolute write of adjustStock
\* does not.
BalanceEquation ==
    \A w \in Warehouse, v \in Variant :
        cbal[w][v].onHand = cbal[w][v].reserved + cbal[w][v].available

\* The movement journal accounts for every unit: the committed onHand is the sum
\* of quantityDelta over the row's movements.
JournalAccounts ==
    \A w \in Warehouse, v \in Variant : cbal[w][v].onHand = cbal[w][v].moved

\* The sum of f over S: f[x] units of every x in S, counted one by one.
Total(f, S) == Cardinality(UNION {{x} \X (1..f[x]) : x \in S})

\* What the ACTIVE reservations hold of (w, v).
HeldByReservations(w, v) ==
    Total([l \in Line |-> cres[l].q],
          {l \in Line : cres[l].status = "ACTIVE" /\ cres[l].w = w
                         /\ VariantOf[l] = v})

\* quantityReserved is exactly what ACTIVE reservations hold: no reservation is
\* released or sold twice, none is forgotten in the balance.
ReservedBacked ==
    \A w \in Warehouse, v \in Variant : cbal[w][v].reserved = HeldByReservations(w, v)

\* With no transaction open and no resync pending, ProductVariant.stock is the
\* total available over the active warehouses.
StockFresh ==
    (resync = {} /\ \A p \in Session : tx[p].pc = "idle") =>
        \A v \in Variant :
            Total(cstock[v], Warehouse)
              = Total([w \in Warehouse |-> cbal[w][v].available], Active)

\* A reservation past its TTL is renewed or stops being ACTIVE: the job does not
\* leave goods blocked for ever.
DueReservationsEnd ==
    \A l \in Line : (cres[l].status = "ACTIVE" /\ cres[l].due)
                       ~> ~(cres[l].status = "ACTIVE" /\ cres[l].due)
=============================================================================
