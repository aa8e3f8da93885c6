---------------------------- MODULE CartLifecycle ----------------------------
(***************************************************************************)
(* The life of a cart (src/src/modules/cart): a customer's current cart, the *)
(* cart of a hall table and its session, the managers who work on it, the   *)
(* checkout that turns it into an order, and the sweeps that end it.        *)
(*                                                                         *)
(* A request reads the cart and checks what it read; later, in one or more  *)
(* transactions, it writes.  A transaction first writes the cart row and so *)
(* holds its lock to the end: it is one step.  Stock is what the cart holds *)
(* of it (Inventory has the rest): the lines with an ACTIVE reservation.    *)
(***************************************************************************)
EXTENDS Naturals, FiniteSets

CONSTANTS
    Cart,         \* cart ids the run may use
    Table,        \* hall tables
    Item,         \* products a line may be of
    Manager,      \* users who may manage the catalog's carts
    Admin,        \* those of them with the role ADMIN
    Request,      \* concurrent requests
    InventoryMode,
    MaxOrders,    \* bound: orders of one cart
    Ops           \* the requests made, the sweeps run, and "crash"

AllOps == {"open", "join", "line", "share", "submitHall", "delete", "begin", "heartbeat",
           "release", "complete", "submitGuest", "close", "sweepManagers", "sweepDrafts",
           "sweepTables", "ttl", "crash"}

ASSUME CartAssumption ==
    /\ Ops \subseteq AllOps
    /\ Admin \subseteq Manager
    /\ InventoryMode \in {"NONE", "INTERNAL"}
    /\ MaxOrders \in Nat

None == "none"
ASSUME NoneAssumption == None \notin Manager /\ None \notin Table

VARIABLES
    cart,     \* cart[c]: the row of c
    session,  \* session[c]: the CartTableSession of c
    held,     \* held[c]: the lines of c with an ACTIVE reservation
    orders,   \* orders[c]: orders made from c
    call,     \* call[r]: the request r runs
    sweep     \* the sweep under way and the carts it found

vars == <<cart, session, held, orders, call, sweep>>

----------------------------------------------------------------------------
Open == {"DRAFT", "SHARED", "IN_PROGRESS", "PAUSED"}
Terminal == {"CONVERTED", "CANCELLED", "EXPIRED"}
ActiveSession == {"OPEN", "PENDING_CONFIRMATION"}

\* token, key: token and publicKey are set; old: updatedAt is past the TTL.
CartRecord == [status: {"NONE"} \cup Open \cup Terminal, deleted: BOOLEAN, token: BOOLEAN,
               key: BOOLEAN, manager: Manager \cup {None}, items: SUBSET Item, old: BOOLEAN]

\* active: activeKey, which is unique, names the table
SessionRecord == [status: {"NONE", "SUBMITTED", "EXPORT_ERROR", "CLOSED", "CANCELLED", "EXPIRED"}
                           \cup ActiveSession,
                  active: BOOLEAN, table: Table \cup {None}]

Pcs == {"idle", "create", "share", "detach", "delete", "take", "pause", "pend", "close",
        "apply", "read", "claim", "submit", "export"}

\* draft, nokey, items: what the request read and still goes by
Call == [op: AllOps \cup {None}, pc: Pcs, c: Cart \cup {None}, by: Manager \cup Table \cup {None},
         draft: BOOLEAN, nokey: BOOLEAN, items: SUBSET Item]

Idle == [op |-> None, pc |-> "idle", c |-> None, by |-> None,
         draft |-> FALSE, nokey |-> FALSE, items |-> {}]

NoSweep == [kind |-> None, found |-> {}]

Init ==
    /\ cart = [c \in Cart |-> [status |-> "NONE", deleted |-> FALSE, token |-> FALSE, key |-> FALSE,
                               manager |-> None, items |-> {}, old |-> FALSE]]
    /\ session = [c \in Cart |-> [status |-> "NONE", active |-> FALSE, table |-> None]]
    /\ held = [c \in Cart |-> {}]
    /\ orders = [c \in Cart |-> 0]
    /\ call = [r \in Request |-> Idle]
    /\ sweep = NoSweep

----------------------------------------------------------------------------
(* Helpers *)

Become(r, n) == call' = [call EXCEPT ![r] = n]

Start(r, op, pc, c, by) == Become(r, [Idle EXCEPT !.op = op, !.pc = pc, !.c = c, !.by = by])

GoTo(r, pc) == Become(r, [call[r] EXCEPT !.pc = pc])

Return(r) == Become(r, Idle)

\* Every write of the row renews updatedAt.
Write(c, row) == cart' = [cart EXCEPT ![c] = [row EXCEPT !.old = FALSE]]

HasTable(c) == session[c].status # "NONE"

ByToken(c) == cart[c].token /\ cart[c].status \in Open /\ ~cart[c].deleted

ByKey(c) == cart[c].key /\ ~cart[c].deleted

shouldReserveCartStock(status) ==
    InventoryMode = "INTERNAL" /\ status \in {"SHARED", "IN_PROGRESS", "PAUSED"}

\* reserveCartStockIfNeededTx brings the reservations of a cart in line with its lines.
Reserve(c, status, items) ==
    held' = IF shouldReserveCartStock(status) THEN [held EXCEPT ![c] = items] ELSE held

Release(C) == held' = [c \in Cart |-> IF c \in C THEN {} ELSE held[c]]

----------------------------------------------------------------------------
(* The customer *)

\* getOrCreate without a visible cart: a DRAFT with a new token
OpenCart(c) ==
    /\ "open" \in Ops
    /\ cart[c].status = "NONE"
    /\ Write(c, [cart[c] EXCEPT !.status = "DRAFT", !.token = TRUE])
    /\ UNCHANGED <<session, held, orders, call, sweep>>

\* upsertItem and removeItem: a serializable transaction that locks the cart first
\* and checks it then, so what the request read before is of no account.
EditLine(c, items) ==
    /\ "line" \in Ops
    /\ cart[c].status \in Open /\ ~cart[c].deleted
    /\ session[c].status \in {"NONE", "OPEN"}
    /\ \E i \in Item : items \in {cart[c].items \cup {i}, cart[c].items \ {i}}
    /\ items # cart[c].items
    /\ Write(c, [cart[c] EXCEPT !.items = items])
    /\ Reserve(c, cart[c].status, items)
    /\ UNCHANGED <<session, orders, call, sweep>>

\* shareCurrentCart, alone or as the first half of submitCurrentHallOrder
BeginShare(r, op, c) ==
    /\ op \in Ops /\ call[r].pc = "idle" /\ ByToken(c)
    /\ Become(r, [Idle EXCEPT !.op = op, !.pc = "share", !.c = c,
                              !.draft = (cart[c].status = "DRAFT"), !.nokey = ~cart[c].key])
    /\ UNCHANGED <<cart, session, held, orders, sweep>>

Share(r) ==
    LET c == call[r].c
        row == [cart[c] EXCEPT !.status = IF call[r].draft THEN "SHARED" ELSE @,
                               !.key = @ \/ call[r].nokey] IN
    /\ call[r].pc = "share"
    /\ ~cart[c].deleted
    /\ Write(c, row)
    /\ Reserve(c, row.status, row.items)
    /\ IF call[r].op = "submitHall" /\ row.status \in Open /\ row.items # {}
       THEN GoTo(r, "read") ELSE Return(r)
    /\ UNCHANGED <<session, orders, sweep>>

BeginDelete(r, c) ==
    /\ "delete" \in Ops /\ call[r].pc = "idle" /\ ByToken(c)
    /\ Start(r, "delete", IF cart[c].status = "IN_PROGRESS" \/ cart[c].manager # None
                          THEN "detach" ELSE "delete", c, None)
    /\ UNCHANGED <<cart, session, held, orders, sweep>>

Detach(r) ==
    LET c == call[r].c IN
    /\ call[r].pc = "detach"
    /\ Write(c, [cart[c] EXCEPT !.token = FALSE])
    /\ Return(r)
    /\ UNCHANGED <<session, held, orders, sweep>>

\* Mutant: the reservations of a deleted cart are left to their TTL.
DeleteKeepingStock(r) ==
    LET c == call[r].c IN
    /\ call[r].pc = "delete"
    /\ Write(c, [cart[c] EXCEPT !.deleted = TRUE, !.token = FALSE, !.key = FALSE, !.items = {}])
    /\ Return(r)
    /\ UNCHANGED <<session, held, orders, sweep>>

Delete(r) ==
    LET c == call[r].c IN
    /\ call[r].pc = "delete"
    /\ Write(c, [cart[c] EXCEPT !.deleted = TRUE, !.token = FALSE, !.key = FALSE, !.items = {}])
    /\ Release({c})
    /\ Return(r)
    /\ UNCHANGED <<session, orders, sweep>>

----------------------------------------------------------------------------
(* The hall table *)

\* joinHallTableSession: nothing changes when the table has a session; otherwise a
\* cart and its session are created.
BeginJoin(r, t) ==
    /\ "join" \in Ops /\ call[r].pc = "idle"
    /\ ~\E c \in Cart : session[c].active /\ session[c].table = t
    /\ Start(r, "join", "create", None, t)
    /\ UNCHANGED <<cart, session, held, orders, sweep>>

Seat(c, t) ==
    /\ cart[c].status = "NONE"
    /\ Write(c, [cart[c] EXCEPT !.status = "SHARED", !.key = TRUE])
    /\ session' = [session EXCEPT ![c] = [status |-> "OPEN", active |-> TRUE, table |-> t]]

\* Mutant: no unique activeKey.
CreateSessionAnyway(r, c) ==
    /\ call[r].pc = "create"
    /\ Seat(c, call[r].by)
    /\ Return(r)
    /\ UNCHANGED <<held, orders, sweep>>

\* The unique activeKey lets one of two joins create the session; the other returns it.
CreateSession(r, c) ==
    /\ call[r].pc = "create"
    /\ \/ /\ ~\E d \in Cart : session[d].active /\ session[d].table = call[r].by
          /\ Seat(c, call[r].by)
       \/ /\ \E d \in Cart : session[d].active /\ session[d].table = call[r].by
          /\ UNCHANGED <<cart, session>>
    /\ Return(r)
    /\ UNCHANGED <<held, orders, sweep>>

\* submitPublicHallOrder: the checkout data are written, then the session's status,
\* both by id.
BeginGuestSubmit(r, c) ==
    /\ "submitGuest" \in Ops /\ call[r].pc = "idle" /\ ByKey(c)
    /\ session[c].status = "OPEN" /\ cart[c].status \in Open /\ cart[c].items # {}
    /\ Start(r, "submitGuest", "apply", c, None)
    /\ UNCHANGED <<cart, session, held, orders, sweep>>

Pend(r) ==
    /\ call[r].pc = "pend"
    /\ session' = [session EXCEPT ![call[r].c].status = "PENDING_CONFIRMATION"]
    /\ Return(r)
    /\ UNCHANGED <<cart, held, orders, sweep>>

----------------------------------------------------------------------------
(* The manager *)

\* begin refuses a cart another manager is working on, heartbeat and release one
\* that is assigned to another.
MayManage(op, m, c) ==
    \/ m \in Admin \/ cart[c].manager \in {m, None}
    \/ op = "begin" /\ cart[c].status # "IN_PROGRESS"

BeginPresence(r, op, m, c) ==
    /\ op \in Ops \cap {"begin", "heartbeat", "release"} /\ call[r].pc = "idle"
    /\ ByKey(c) /\ cart[c].status \in Open /\ MayManage(op, m, c)
    /\ Start(r, op, IF op = "release" THEN "pause" ELSE "take", c, m)
    /\ UNCHANGED <<cart, session, held, orders, sweep>>

\* The update is by id: the status checked before is not checked again.
Take(r) ==
    LET c == call[r].c IN
    /\ call[r].pc = "take"
    /\ ~cart[c].deleted
    /\ Write(c, [cart[c] EXCEPT !.status = "IN_PROGRESS", !.manager = call[r].by])
    /\ Reserve(c, "IN_PROGRESS", cart[c].items)
    /\ Return(r)
    /\ UNCHANGED <<session, orders, sweep>>

\* release has no transaction: a deleted cart is written too.
Pause(r) ==
    LET c == call[r].c IN
    /\ call[r].pc = "pause"
    /\ Write(c, [cart[c] EXCEPT !.status = "PAUSED", !.manager = call[r].by])
    /\ Return(r)
    /\ UNCHANGED <<session, held, orders, sweep>>

\* completeManagerOrder, confirmHallTableOrder
BeginComplete(r, m, c) ==
    /\ "complete" \in Ops /\ call[r].pc = "idle" /\ ByKey(c)
    /\ HasTable(c) => session[c].status \in ActiveSession
    /\ cart[c].status \in Open /\ cart[c].items # {}
    /\ Start(r, "complete", "apply", c, m)
    /\ UNCHANGED <<cart, session, held, orders, sweep>>

\* applyHallTableCheckoutInput and applyManagerCheckoutInput write by id; the latter
\* only when the manager changed something.
Apply(r) ==
    LET c == call[r].c IN
    /\ call[r].pc = "apply"
    /\ \/ Write(c, cart[c])
       \/ ~HasTable(c) /\ UNCHANGED cart
    /\ GoTo(r, IF call[r].op = "submitGuest" THEN "pend" ELSE "read")
    /\ UNCHANGED <<session, held, orders, sweep>>

\* finishOpenHallTableSession: one transaction that checks both rows as it writes
BeginClose(r, m, c) ==
    /\ "close" \in Ops /\ call[r].pc = "idle" /\ ByKey(c)
    /\ session[c].status \in ActiveSession /\ cart[c].status \in Open
    /\ Start(r, "close", "close", c, m)
    /\ UNCHANGED <<cart, session, held, orders, sweep>>

\* Mutant: the cart's own status is not looked at.
CloseAnyCart(r, status) ==
    LET c == call[r].c IN
    /\ call[r].pc = "close"
    /\ session[c].status \in ActiveSession
    /\ session' = [session EXCEPT ![c].status = status, ![c].active = FALSE]
    /\ Write(c, [cart[c] EXCEPT !.status = "CANCELLED", !.manager = None, !.key = FALSE])
    /\ Release({c})
    /\ Return(r)
    /\ UNCHANGED <<orders, sweep>>

Close(r, status) ==
    LET c == call[r].c IN
    /\ call[r].pc = "close"
    /\ session[c].status \in ActiveSession
    /\ cart[c].status \notin Terminal /\ ~cart[c].deleted
    /\ session' = [session EXCEPT ![c].status = status, ![c].active = FALSE]
    /\ Write(c, [cart[c] EXCEPT !.status = "CANCELLED", !.manager = None, !.key = FALSE])
    /\ Release({c})
    /\ Return(r)
    /\ UNCHANGED <<orders, sweep>>

----------------------------------------------------------------------------
(* Checkout *)

\* complete reads the cart and its lines inside its transaction, before the claim.
ReadCheckout(r) ==
    LET c == call[r].c IN
    /\ call[r].pc = "read"
    /\ ~cart[c].deleted /\ cart[c].status \in Open /\ cart[c].items # {}
    /\ Become(r, [call[r] EXCEPT !.pc = "claim", !.items = cart[c].items])
    /\ UNCHANGED <<cart, session, held, orders, sweep>>

Convert(r) ==
    LET c == call[r].c
        byManager == call[r].op = "complete" IN
    /\ call[r].pc = "claim" /\ orders[c] < MaxOrders
    /\ Write(c, [cart[c] EXCEPT !.status = "CONVERTED", !.key = FALSE,
                                !.manager = IF byManager THEN call[r].by ELSE None])
    /\ orders' = [orders EXCEPT ![c] = @ + 1]
    /\ held' = [held EXCEPT ![c] = @ \ call[r].items]
    /\ IF byManager /\ HasTable(c) THEN GoTo(r, "submit") ELSE Return(r)
    /\ UNCHANGED <<session, sweep>>

\* Mutant: the claim goes by the status that was read.
ClaimUnchecked(r) == Convert(r)

\* The claim: one status change wins, and the order is made with it.  The lines that
\* were read are ordered and taken from stock.
Claim(r) ==
    /\ call[r].pc = "claim"
    /\ cart[call[r].c].status \in Open /\ ~cart[call[r].c].deleted
    /\ Convert(r)

\* completeHallTableCart after the checkout has committed
Submit(r) ==
    /\ call[r].pc = "submit"
    /\ session' = [session EXCEPT ![call[r].c].status = "SUBMITTED", ![call[r].c].active = FALSE]
    /\ GoTo(r, "export")
    /\ UNCHANGED <<cart, held, orders, sweep>>

\* Mutant: the session takes the status of the export row, which is no session status.
ExportRowStatus(r, ok) ==
    /\ call[r].pc = "export"
    /\ session' = [session EXCEPT ![call[r].c].status = IF ok THEN "SUBMITTED" ELSE "ERROR",
                                  ![call[r].c].active = FALSE]
    /\ Return(r)
    /\ UNCHANGED <<cart, held, orders, sweep>>

\* waitForIikoCompletedOrder has returned
Export(r, ok) ==
    /\ call[r].pc = "export"
    /\ session' = [session EXCEPT ![call[r].c].status = IF ok THEN "SUBMITTED" ELSE "EXPORT_ERROR",
                                  ![call[r].c].active = FALSE]
    /\ Return(r)
    /\ UNCHANGED <<cart, held, orders, sweep>>

\* A check fails, the stock does not suffice, or the database refuses: the
\* transaction rolls back and the request ends.
Abort(r) ==
    /\ call[r].pc \notin {"idle", "submit", "export"}
    /\ Return(r)
    /\ UNCHANGED <<cart, session, held, orders, sweep>>

\* After the checkout has committed, the process dies or the database refuses the update.
Crash(r) ==
    /\ "crash" \in Ops
    /\ call[r].pc \in {"submit", "export"}
    /\ Return(r)
    /\ UNCHANGED <<cart, session, held, orders, sweep>>

----------------------------------------------------------------------------
(* The sweeps, each on its timer.  One that fails rolls back, and the next tick  *)
(* does its work: only those that succeed are steps.                            *)

\* Mutant: a table whose guests wait for the waiter is not looked at.
SweepableOpen(c) == session[c].status = "OPEN" /\ cart[c].status \in Open \ {"DRAFT"}

Sweepable(c) == session[c].status \in ActiveSession /\ cart[c].status \in Open \ {"DRAFT"}

\* managerLastSeenAt is left out: a manager may have been gone long enough at any time.
Found(kind) ==
    CASE kind = "sweepManagers" -> {c \in Cart : cart[c].status = "IN_PROGRESS" /\ ~cart[c].deleted}
      [] kind = "sweepDrafts" -> {c \in Cart : cart[c].status \in {"DRAFT", "SHARED"} /\ cart[c].old
                                               /\ ~cart[c].deleted /\ ~HasTable(c)}
      [] kind = "sweepTables" -> {c \in Cart : Sweepable(c) /\ cart[c].old /\ ~cart[c].deleted}

BeginSweep(kind) ==
    /\ kind \in Ops /\ sweep = NoSweep /\ Found(kind) # {}
    /\ sweep' = [kind |-> kind, found |-> Found(kind)]
    /\ UNCHANGED <<cart, session, held, orders, call>>

\* updateMany: the carts found that are still as the WHERE says
SweepCarts(S, swept) ==
    cart' = [c \in Cart |-> IF c \in sweep.found \cap S THEN [swept[c] EXCEPT !.old = FALSE]
                            ELSE cart[c]]

\* expireInactiveManagerSessions
PauseInactive ==
    LET swept == [c \in Cart |-> [cart[c] EXCEPT !.status = "PAUSED"]] IN
    /\ sweep.kind = "sweepManagers"
    /\ SweepCarts({c \in Cart : cart[c].status = "IN_PROGRESS"}, swept)
    /\ sweep' = NoSweep
    /\ UNCHANGED <<session, held, orders, call>>

\* expireAbandonedDraftCarts: the reservations of every cart found are released.
ExpireDrafts ==
    LET swept == [c \in Cart |-> [cart[c] EXCEPT !.status = "EXPIRED"]] IN
    /\ sweep.kind = "sweepDrafts"
    /\ SweepCarts({c \in Cart : cart[c].status \in {"DRAFT", "SHARED"}}, swept)
    /\ Release(sweep.found)
    /\ sweep' = NoSweep
    /\ UNCHANGED <<session, orders, call>>

\* expireStaleHallTableSessions
ExpireTables ==
    LET swept == [c \in Cart |-> [cart[c] EXCEPT !.status = "EXPIRED", !.manager = None, !.key = FALSE]] IN
    /\ sweep.kind = "sweepTables"
    /\ session' = [c \in Cart |-> IF c \in sweep.found /\ session[c].status \in ActiveSession
                                  THEN [session[c] EXCEPT !.status = "EXPIRED", !.active = FALSE]
                                  ELSE session[c]]
    /\ SweepCarts({c \in Cart : cart[c].status \in Open \ {"DRAFT"} /\ ~cart[c].deleted}, swept)
    /\ Release(sweep.found)
    /\ sweep' = NoSweep
    /\ UNCHANGED <<orders, call>>

\* A cart nobody writes grows older than the TTL; nobody asks once it has ended.
GrowOld(c) ==
    /\ cart[c].status \in Open \/ session[c].active
    /\ ~cart[c].old
    /\ cart' = [cart EXCEPT ![c].old = TRUE]
    /\ UNCHANGED <<session, held, orders, call, sweep>>

\* releaseExpiredReservations of the inventory
ExpireReservations(c) ==
    /\ "ttl" \in Ops /\ held[c] # {}
    /\ Release({c})
    /\ UNCHANGED <<cart, session, orders, call, sweep>>

----------------------------------------------------------------------------
Begin(r) ==
    \/ \E c \in Cart :
          \/ \E op \in {"share", "submitHall"} : BeginShare(r, op, c)
          \/ BeginDelete(r, c)
          \/ BeginGuestSubmit(r, c)
          \/ \E m \in Manager : \/ BeginComplete(r, m, c) \/ BeginClose(r, m, c)
                                \/ \E op \in {"begin", "heartbeat", "release"} :
                                      BeginPresence(r, op, m, c)
    \/ \E t \in Table : BeginJoin(r, t)

Proceed(r) ==
    \/ Share(r) \/ Detach(r) \/ Delete(r)
    \/ \E c \in Cart : CreateSession(r, c)
    \/ Apply(r) \/ Pend(r) \/ Take(r) \/ Pause(r)
    \/ \E status \in {"CLOSED", "CANCELLED"} : Close(r, status)
    \/ ReadCheckout(r) \/ Claim(r) \/ Submit(r)
    \/ \E ok \in BOOLEAN : Export(r, ok)

SweepStep == PauseInactive \/ ExpireDrafts \/ ExpireTables

Next ==
    \/ \E c \in Cart : \/ OpenCart(c) \/ GrowOld(c) \/ ExpireReservations(c)
                       \/ \E items \in SUBSET Item : EditLine(c, items)
    \/ \E r \in Request : Begin(r) \/ Proceed(r) \/ Abort(r) \/ Crash(r)
    \/ \E kind \in {"sweepManagers", "sweepDrafts", "sweepTables"} : BeginSweep(kind)
    \/ SweepStep

Spec == Init /\ [][Next]_vars

\* A process runs its requests on, and the timers keep firing.
Fairness ==
    /\ \A r \in Request : WF_vars(Proceed(r) \/ Abort(r))
    /\ WF_vars(SweepStep)
    /\ SF_vars(BeginSweep("sweepTables"))

FairSpec == Spec /\ Fairness

----------------------------------------------------------------------------
(* Properties *)

\* Cart and session rows only ever hold the statuses of their enums, whichever request
\* or sweep writes them last.
TypeOK ==
    /\ cart \in [Cart -> CartRecord]
    /\ session \in [Cart -> SessionRecord]
    /\ held \in [Cart -> SUBSET Item]
    /\ orders \in [Cart -> Nat]
    /\ call \in [Request -> Call]
    /\ sweep.kind \in AllOps \cup {None} /\ sweep.found \subseteq Cart

\* A cart becomes an order once, whoever completes it and however often.
AtMostOneOrder == \A c \in Cart : orders[c] <= 1

\* Two guests who join a table at once share one session.
OneSessionPerTable ==
    \A c, d \in Cart : session[c].active /\ session[d].active
                       /\ session[c].table = session[d].table => c = d

\* A session that is over agrees with its cart: SUBMITTED and EXPORT_ERROR have their
\* order, a table that was closed or reset has none and never will.
SessionCartAgree ==
    \A c \in Cart :
        /\ session[c].status \in {"SUBMITTED", "EXPORT_ERROR"}
             => cart[c].status = "CONVERTED" /\ orders[c] = 1
        /\ session[c].status \in {"CLOSED", "CANCELLED"}
             => cart[c].status = "CANCELLED" /\ orders[c] = 0
        /\ session[c].status = "EXPIRED" => cart[c].status \in Terminal

\* Stock is held only for lines the cart has, and never for a cart that is deleted,
\* cancelled, expired or not yet shared.
EndedHoldsNothing ==
    \A c \in Cart :
        /\ held[c] \subseteq cart[c].items
        /\ cart[c].deleted \/ cart[c].status \in {"NONE", "DRAFT", "CANCELLED", "EXPIRED"}
             => held[c] = {}

\* When the order is made, the reservation of the cart becomes a sale: nothing stays
\* reserved for a converted cart.
ConvertedHoldsNothing == \A c \in Cart : cart[c].status = "CONVERTED" => held[c] = {}

\* A table nobody uses is free again in the end: its session does not stay active.
StaleSessionsEnd ==
    \A c \in Cart : (session[c].active /\ cart[c].old) ~> (~session[c].active \/ ~cart[c].old)
=============================================================================
