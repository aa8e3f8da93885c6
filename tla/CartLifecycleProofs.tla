------------------------- MODULE CartLifecycleProofs -------------------------
(***************************************************************************)
(* Proofs about CartLifecycle, for any number of carts, tables, managers,  *)
(* items and requests.                                                     *)
(***************************************************************************)
EXTENDS CartLifecycle, TLAPS

----------------------------------------------------------------------------
(* The inductive invariant *)

\* The requests that write a status they checked in an earlier step.
Reopeners == {"share", "submitHall", "begin", "heartbeat", "release"}
Calm == Ops \cap Reopeners = {}

WellFormed(n) ==
    /\ n \in Call
    /\ n.pc \notin {"idle", "create"} => n.c \in Cart
    /\ n.pc = "create" => n.by \in Table /\ n.op = "join"
    /\ n.pc = "idle" => n.op = None
    /\ n.pc \in {"take", "pause"} \/ n.op = "complete" => n.by \in Manager

HeldPart(c) ==
    /\ held[c] \subseteq cart[c].items
    /\ cart[c].deleted \/ cart[c].status \in {"NONE", "DRAFT", "CANCELLED", "EXPIRED"}
         => held[c] = {}
    /\ InventoryMode = "NONE" => held[c] = {}

\* A table's cart has no token and is never deleted.
TablePart(c) ==
    /\ HasTable(c) => /\ ~cart[c].token /\ ~cart[c].deleted
                      /\ cart[c].status \notin {"NONE", "DRAFT"}
    /\ cart[c].status = "NONE" => ~cart[c].token /\ ~cart[c].deleted

OrderPart(c) ==
    /\ orders[c] = IF cart[c].status = "CONVERTED" THEN 1 ELSE 0
    /\ session[c].status \in {"SUBMITTED", "EXPORT_ERROR"} => cart[c].status = "CONVERTED"
    /\ session[c].status \in {"CLOSED", "CANCELLED"} => cart[c].status = "CANCELLED"
    /\ session[c].status = "EXPIRED" => cart[c].status \in Terminal

\* A request under way works on a cart that exists, a customer's never on a table's
\* and a guest's on nothing else; after its checkout the cart stays converted.
CallPart(r) ==
    /\ call[r].pc \notin {"idle", "create"} => cart[call[r].c].status # "NONE"
    /\ call[r].pc \in {"share", "detach", "delete"} => ~HasTable(call[r].c)
    /\ call[r].pc \in {"pend", "submit", "export"} \/ call[r].op = "submitGuest"
         => HasTable(call[r].c)
    /\ Calm => /\ call[r].pc \notin {"share", "take", "pause"}
               /\ call[r].pc \in {"submit", "export"} => cart[call[r].c].status = "CONVERTED"

CallGood(r) == WellFormed(call[r]) /\ CallPart(r)

CartInv ==
    /\ TypeOK
    /\ \A c \in Cart : HeldPart(c) /\ TablePart(c) /\ (Calm => OrderPart(c))
    /\ \A r \in Request : CallGood(r)
    /\ OneSessionPerTable

\* What a step may do to a cart
Same(c) == UNCHANGED <<cart[c], session[c], held[c], orders[c]>>

Good(c) ==
    /\ HeldPart(c)' /\ TablePart(c)' /\ (Calm => OrderPart(c)')
    /\ cart[c].status # "NONE" => cart'[c].status # "NONE" /\ (HasTable(c)' <=> HasTable(c))
    /\ Calm /\ cart[c].status = "CONVERTED" => cart'[c].status = "CONVERTED"
    /\ session'[c].active =>
          \/ session[c].active /\ session'[c].table = session[c].table
          \/ \A d \in Cart : d # c => ~(session'[d].active /\ session'[d].table = session'[c].table)

LEMMA InvStep ==
  ASSUME CartInv, TypeOK',
         \A c \in Cart : Same(c) \/ Good(c),
         \A r \in Request : call'[r] = call[r] \/ CallGood(r)'
  PROVE  CartInv'
  <1>1. ASSUME NEW c \in Cart PROVE HeldPart(c)' /\ TablePart(c)' /\ (Calm => OrderPart(c))'
    <2>1. CASE Same(c)
      <3>1. HeldPart(c)'
        BY <2>1 DEF CartInv, Same, HeldPart
      <3>2. TablePart(c)'
        BY <2>1 DEF CartInv, Same, TablePart, HasTable
      <3>3. (Calm => OrderPart(c))'
        BY <2>1 DEF CartInv, Same, OrderPart, Calm
      <3> QED
        BY <3>1, <3>2, <3>3
    <2>2. CASE Good(c)
      BY <2>2 DEF Good, Calm
    <2> QED
      BY <2>1, <2>2
  <1>2. ASSUME NEW c \in Cart, cart[c].status # "NONE"
        PROVE  /\ cart'[c].status # "NONE" /\ (HasTable(c)' <=> HasTable(c))
               /\ Calm /\ cart[c].status = "CONVERTED" => cart'[c].status = "CONVERTED"
    BY <1>2 DEF Same, Good, HasTable
  <1>3. ASSUME NEW r \in Request PROVE CallGood(r)'
    <2>1. CASE call'[r] = call[r]
      <3>1. WellFormed(call[r]) /\ CallPart(r)
        BY DEF CartInv, CallGood
      <3>2. CASE call[r].pc \in {"idle", "create"}
        BY <2>1, <3>1, <3>2 DEF CallGood, CallPart, WellFormed, Calm, None
      <3>3. CASE call[r].pc \notin {"idle", "create"}
        <4>0. PICK c \in Cart : c = call[r].c
          BY <3>1, <3>3 DEF WellFormed
        <4>1. cart[c].status # "NONE"
          BY <3>1, <3>3, <4>0 DEF CallPart
        <4>2. /\ cart'[c].status # "NONE" /\ (HasTable(c)' <=> HasTable(c))
              /\ Calm /\ cart[c].status = "CONVERTED" => cart'[c].status = "CONVERTED"
          BY <1>2, <4>1
        <4>3. WellFormed(call[r])'
          BY <2>1, <3>1 DEF WellFormed
        <4>4. CallPart(r)'
          BY <2>1, <3>1, <4>0, <4>2 DEF CallPart, HasTable, Calm
        <4> QED
          BY <4>3, <4>4 DEF CallGood
      <3> QED
        BY <3>2, <3>3
    <2> QED
      BY <2>1
  <1>4. OneSessionPerTable'
    <2> SUFFICES ASSUME NEW c \in Cart, NEW d \in Cart, c # d,
                        session'[c].active, session'[d].active,
                        session'[c].table = session'[d].table
                 PROVE  FALSE
      BY DEF OneSessionPerTable
    <2>1. ASSUME NEW e \in Cart, session'[e].active
          PROVE  \/ session[e].active /\ session'[e].table = session[e].table
                 \/ \A f \in Cart : f # e => ~(session'[f].active /\ session'[f].table = session'[e].table)
      BY <2>1 DEF Same, Good
    <2>2. session[c].active /\ session'[c].table = session[c].table
      BY <2>1
    <2>3. session[d].active /\ session'[d].table = session[d].table
      BY <2>1
    <2> QED
      BY <2>2, <2>3 DEF CartInv, OneSessionPerTable
  <1> QED
    BY <1>1, <1>3, <1>4 DEF CartInv

----------------------------------------------------------------------------
(* Types, and what the helpers do *)

LEMMA IdleGood == WellFormed(Idle) /\ Idle.pc = "idle"
  <1>1. Idle.pc = "idle" /\ Idle.op = None /\ None \notin {"complete", "submitGuest"}
    BY DEF Idle, None
  <1>2. Idle \in Call
    BY DEF Idle, Call, Pcs
  <1> QED
    BY <1>1, <1>2 DEF WellFormed

LEMMA BecomeStep ==
  ASSUME CartInv, NEW r \in Request, NEW n, n \in Call, Become(r, n)
  PROVE  /\ call' \in [Request -> Call] /\ call'[r] = n
         /\ \A x \in Request : x # r => call'[x] = call[x]
  BY DEF CartInv, TypeOK, Become

LEMMA ReturnStep ==
  ASSUME CartInv, NEW r \in Request, Return(r)
  PROVE  /\ call' \in [Request -> Call]
         /\ \A x \in Request : call'[x] = call[x] \/ CallGood(x)'
  <1>1. Idle \in Call
    BY IdleGood DEF WellFormed
  <1>2. /\ call' \in [Request -> Call] /\ call'[r] = Idle
        /\ \A x \in Request : x # r => call'[x] = call[x]
    BY <1>1, BecomeStep DEF Return
  <1>3. CallGood(r)'
    BY <1>2, IdleGood DEF CallGood, CallPart, WellFormed, None
  <1> QED
    BY <1>2, <1>3

\* A request that goes on, or begins, with call n.
LEMMA MoveStep ==
  ASSUME CartInv, NEW r \in Request, NEW n, WellFormed(n), Become(r, n),
         n.pc \notin {"idle", "create"} => cart'[n.c].status # "NONE",
         n.pc \in {"share", "detach", "delete"} => session'[n.c].status = "NONE",
         n.pc \in {"pend", "submit", "export"} \/ n.op = "submitGuest"
           => session'[n.c].status # "NONE",
         Calm => n.pc \notin {"share", "take", "pause"},
         Calm /\ n.pc \in {"submit", "export"} => cart'[n.c].status = "CONVERTED"
  PROVE  /\ call' \in [Request -> Call]
         /\ \A x \in Request : call'[x] = call[x] \/ CallGood(x)'
  <1>1. /\ call' \in [Request -> Call] /\ call'[r] = n
        /\ \A x \in Request : x # r => call'[x] = call[x]
    BY BecomeStep DEF WellFormed
  <1>2. WellFormed(call[r])'
    BY <1>1 DEF WellFormed
  <1>3. CallPart(r)'
    BY <1>1 DEF CallPart, HasTable, Calm
  <1> QED
    BY <1>1, <1>2, <1>3 DEF CallGood

LEMMA WriteStep ==
  ASSUME CartInv, NEW c \in Cart, NEW row \in CartRecord, Write(c, row)
  PROVE  /\ cart' \in [Cart -> CartRecord]
         /\ \A d \in Cart : d # c => cart'[d] = cart[d]
         /\ cart'[c].status = row.status /\ cart'[c].deleted = row.deleted
         /\ cart'[c].token = row.token /\ cart'[c].items = row.items
  BY DEF CartInv, TypeOK, Write, CartRecord

LEMMA ReserveStep ==
  ASSUME CartInv, NEW c \in Cart, NEW s, NEW items \in SUBSET Item, Reserve(c, s, items)
  PROVE  /\ held' \in [Cart -> SUBSET Item]
         /\ \A d \in Cart : d # c => held'[d] = held[d]
         /\ held'[c] = IF shouldReserveCartStock(s) THEN items ELSE held[c]
  BY DEF CartInv, TypeOK, Reserve

LEMMA ReleaseStep ==
  ASSUME CartInv, NEW C, Release(C)
  PROVE  /\ held' \in [Cart -> SUBSET Item]
         /\ \A d \in Cart : held'[d] = IF d \in C THEN {} ELSE held[d]
  BY DEF CartInv, TypeOK, Release

\* A request under way names a cart that exists.
LEMMA Named ==
  ASSUME CartInv, NEW r \in Request, call[r].pc \notin {"idle", "create"}
  PROVE  \E c \in Cart : c = call[r].c /\ cart[c].status # "NONE"
  BY DEF CartInv, CallGood, WellFormed, CallPart

LEMMA Rows ==
  ASSUME CartInv, NEW c \in Cart
  PROVE  /\ cart[c] \in CartRecord /\ cart[c].items \in SUBSET Item
         /\ session[c] \in SessionRecord /\ held[c] \in SUBSET Item /\ orders[c] \in Nat
  BY DEF CartInv, TypeOK, CartRecord

\* A step that changes nothing but requests.
LEMMA CallsOnly ==
  ASSUME CartInv, UNCHANGED <<cart, session, held, orders, sweep>>,
         call' \in [Request -> Call],
         \A x \in Request : call'[x] = call[x] \/ CallGood(x)'
  PROVE  CartInv'
  <1>1. TypeOK'
    BY DEF CartInv, TypeOK
  <1>2. \A c \in Cart : Same(c)
    BY DEF Same
  <1> QED
    BY <1>1, <1>2, InvStep

----------------------------------------------------------------------------
(* Requests begin *)

\* The first step of a request: it has read a cart that exists.
LEMMA StartStep ==
  ASSUME CartInv, NEW r \in Request, NEW n \in Call,
         n.c \in Cart, cart[n.c].status # "NONE", n.op \in Ops,
         n.pc \notin {"idle", "create", "submit", "export"},
         n.op = "complete" \/ n.pc \in {"take", "pause"} => n.by \in Manager,
         n.pc \in {"share", "detach", "delete"} => session[n.c].status = "NONE",
         n.pc = "pend" \/ n.op = "submitGuest" => session[n.c].status # "NONE",
         n.pc \in {"share", "take", "pause"} => n.op \in Reopeners,
         Become(r, n), UNCHANGED <<cart, session, held, orders, sweep>>
  PROVE  CartInv'
  <1>1. WellFormed(n)
    BY DEF WellFormed
  <1>2. Calm => n.pc \notin {"share", "take", "pause"}
    BY DEF Calm
  <1>3. /\ call' \in [Request -> Call]
        /\ \A x \in Request : call'[x] = call[x] \/ CallGood(x)'
    BY <1>1, <1>2, MoveStep
  <1> QED
    BY <1>3, CallsOnly

\* A cart reached by its token is no table's.
LEMMA TokenCart ==
  ASSUME CartInv, NEW c \in Cart, ByToken(c)
  PROVE  session[c].status = "NONE" /\ cart[c].status # "NONE"
  BY DEF CartInv, ByToken, TablePart, HasTable, Open

LEMMA BeginInv == ASSUME CartInv, NEW r \in Request, Begin(r) PROVE CartInv'
  <1>1. ASSUME NEW c \in Cart, NEW op \in {"share", "submitHall"}, BeginShare(r, op, c)
        PROVE  CartInv'
    <2> DEFINE d == (cart[c].status = "DRAFT")
               k == ~cart[c].key
    <2>1. /\ Become(r, [Idle EXCEPT !.op = op, !.pc = "share", !.c = c, !.draft = d, !.nokey = k])
          /\ UNCHANGED <<cart, session, held, orders, sweep>> /\ op \in Ops /\ ByToken(c)
      BY <1>1 DEF BeginShare
    <2>2. d \in BOOLEAN /\ k \in BOOLEAN /\ "share" \in Pcs /\ op \in Reopeners \cap AllOps
      BY DEF Pcs, Reopeners, AllOps
    <2> HIDE DEF d, k
    <2> DEFINE n == [Idle EXCEPT !.op = op, !.pc = "share", !.c = c, !.draft = d, !.nokey = k]
    <2>3. n \in Call /\ n.op = op /\ n.pc = "share" /\ n.c = c
      BY <2>2, IdleGood DEF WellFormed, Call
    <2>5. Become(r, n)
      BY <2>1
    <2> HIDE DEF n
    <2>4. session[c].status = "NONE" /\ cart[c].status # "NONE"
      BY <2>1, TokenCart
    <2> QED
      BY <2>1, <2>2, <2>3, <2>4, <2>5, StartStep
  <1>2. ASSUME NEW c \in Cart, BeginDelete(r, c) PROVE CartInv'
    <2>1. PICK pc \in {"detach", "delete"} :
             /\ Become(r, [Idle EXCEPT !.op = "delete", !.pc = pc, !.c = c, !.by = None])
             /\ UNCHANGED <<cart, session, held, orders, sweep>> /\ "delete" \in Ops /\ ByToken(c)
      BY <1>2 DEF BeginDelete, Start
    <2>2. pc \in Pcs \ {"create", "submit", "export"}
      BY DEF Pcs
    <2>3. session[c].status = "NONE" /\ cart[c].status # "NONE"
      BY <2>1, TokenCart
    <2> DEFINE n == [Idle EXCEPT !.op = "delete", !.pc = pc, !.c = c, !.by = None]
    <2>4. "delete" \in AllOps /\ pc \in Pcs
      BY DEF AllOps, Pcs
    <2>5. n \in Call /\ n.op = "delete" /\ n.pc = pc /\ n.c = c /\ n.by = None
      BY <2>4, IdleGood DEF WellFormed, Call
    <2>6. Become(r, n)
      BY <2>1
    <2> HIDE DEF n
    <2> QED
      BY <2>1, <2>2, <2>3, <2>5, <2>6, StartStep
  <1>3. ASSUME NEW c \in Cart, BeginGuestSubmit(r, c) PROVE CartInv'
    <2>1. /\ Become(r, [Idle EXCEPT !.op = "submitGuest", !.pc = "apply", !.c = c, !.by = None])
          /\ UNCHANGED <<cart, session, held, orders, sweep>> /\ "submitGuest" \in Ops
          /\ cart[c].status # "NONE" /\ session[c].status # "NONE"
      BY <1>3 DEF BeginGuestSubmit, Start, Open
    <2>2. "apply" \in Pcs
      BY DEF Pcs
    <2> DEFINE n == [Idle EXCEPT !.op = "submitGuest", !.pc = "apply", !.c = c, !.by = None]
    <2>4. "submitGuest" \in AllOps /\ "apply" \in Pcs
      BY DEF AllOps, Pcs
    <2>5. n \in Call /\ n.op = "submitGuest" /\ n.pc = "apply" /\ n.c = c /\ n.by = None
      BY <2>4, IdleGood DEF WellFormed, Call
    <2>6. Become(r, n)
      BY <2>1
    <2> HIDE DEF n
    <2> QED
      BY <2>1, <2>2, <2>5, <2>6, StartStep
  <1>4. ASSUME NEW c \in Cart, NEW m \in Manager, BeginComplete(r, m, c) PROVE CartInv'
    <2>1. /\ Become(r, [Idle EXCEPT !.op = "complete", !.pc = "apply", !.c = c, !.by = m])
          /\ UNCHANGED <<cart, session, held, orders, sweep>> /\ "complete" \in Ops
          /\ cart[c].status # "NONE"
      BY <1>4 DEF BeginComplete, Start, Open
    <2>2. "apply" \in Pcs
      BY DEF Pcs
    <2> DEFINE n == [Idle EXCEPT !.op = "complete", !.pc = "apply", !.c = c, !.by = m]
    <2>4. "complete" \in AllOps /\ "apply" \in Pcs
      BY DEF AllOps, Pcs
    <2>5. n \in Call /\ n.op = "complete" /\ n.pc = "apply" /\ n.c = c /\ n.by = m
      BY <2>4, IdleGood DEF WellFormed, Call
    <2>6. Become(r, n)
      BY <2>1
    <2> HIDE DEF n
    <2> QED
      BY <2>1, <2>2, <2>5, <2>6, StartStep
  <1>5. ASSUME NEW c \in Cart, NEW m \in Manager, BeginClose(r, m, c) PROVE CartInv'
    <2>1. /\ Become(r, [Idle EXCEPT !.op = "close", !.pc = "close", !.c = c, !.by = m])
          /\ UNCHANGED <<cart, session, held, orders, sweep>> /\ "close" \in Ops
          /\ cart[c].status # "NONE"
      BY <1>5 DEF BeginClose, Start, Open
    <2>2. "close" \in Pcs
      BY DEF Pcs
    <2> DEFINE n == [Idle EXCEPT !.op = "close", !.pc = "close", !.c = c, !.by = m]
    <2>4. "close" \in AllOps /\ "close" \in Pcs
      BY DEF AllOps, Pcs
    <2>5. n \in Call /\ n.op = "close" /\ n.pc = "close" /\ n.c = c /\ n.by = m
      BY <2>4, IdleGood DEF WellFormed, Call
    <2>6. Become(r, n)
      BY <2>1
    <2> HIDE DEF n
    <2> QED
      BY <2>1, <2>2, <2>5, <2>6, StartStep
  <1>6. ASSUME NEW c \in Cart, NEW m \in Manager, NEW op \in {"begin", "heartbeat", "release"},
               BeginPresence(r, op, m, c)
        PROVE  CartInv'
    <2>1. PICK pc \in {"take", "pause"} :
             /\ Become(r, [Idle EXCEPT !.op = op, !.pc = pc, !.c = c, !.by = m])
             /\ UNCHANGED <<cart, session, held, orders, sweep>> /\ op \in Ops
             /\ cart[c].status # "NONE"
      BY <1>6 DEF BeginPresence, Start, Open
    <2>2. pc \in Pcs \ {"create", "submit", "export"} /\ op \in Reopeners
      BY DEF Pcs, Reopeners
    <2> DEFINE n == [Idle EXCEPT !.op = op, !.pc = pc, !.c = c, !.by = m]
    <2>4. op \in AllOps /\ pc \in Pcs
      BY DEF AllOps, Pcs
    <2>5. n \in Call /\ n.op = op /\ n.pc = pc /\ n.c = c /\ n.by = m
      BY <2>4, IdleGood DEF WellFormed, Call
    <2>6. Become(r, n)
      BY <2>1
    <2> HIDE DEF n
    <2> QED
      BY <2>1, <2>2, <2>5, <2>6, StartStep
  <1>7. ASSUME NEW t \in Table, BeginJoin(r, t) PROVE CartInv'
    <2> DEFINE n == [Idle EXCEPT !.op = "join", !.pc = "create", !.c = None, !.by = t]
    <2>1. Become(r, n) /\ UNCHANGED <<cart, session, held, orders, sweep>>
      BY <1>7 DEF BeginJoin, Start
    <2>2. n \in Call /\ n.op = "join" /\ n.pc = "create" /\ n.by = t
      BY IdleGood DEF WellFormed, Call, AllOps, Pcs
    <2> HIDE DEF n
    <2>3. WellFormed(n)
      BY <2>2 DEF WellFormed
    <2>4. /\ call' \in [Request -> Call]
          /\ \A x \in Request : call'[x] = call[x] \/ CallGood(x)'
      BY <2>1, <2>2, <2>3, MoveStep
    <2> QED
      BY <2>1, <2>4, CallsOnly
  <1> QED
    BY <1>1, <1>2, <1>3, <1>4, <1>5, <1>6, <1>7 DEF Begin

----------------------------------------------------------------------------
(* Requests go on *)

LEMMA ShareInv == ASSUME CartInv, NEW r \in Request, Share(r) PROVE CartInv'
  <1>0. call[r].pc = "share"
    BY DEF Share
  <1>1. PICK c \in Cart : c = call[r].c /\ cart[c].status # "NONE"
    BY <1>0, Named
  <1>2. ~HasTable(c) /\ ~Calm /\ WellFormed(call[r])
    BY <1>0, <1>1 DEF CartInv, CallGood, CallPart
  <1>3. cart[c] \in CartRecord /\ cart[c].items \in SUBSET Item
    BY Rows
  <1> DEFINE row == [cart[c] EXCEPT !.status = IF call[r].draft THEN "SHARED" ELSE @,
                                    !.key = @ \/ call[r].nokey]
  <1>4. /\ row \in CartRecord /\ row.deleted = cart[c].deleted /\ row.token = cart[c].token
        /\ row.items = cart[c].items /\ row.status \in {"SHARED", cart[c].status}
    BY <1>3 DEF CartRecord, Open, Terminal
  <1>5. /\ ~cart[c].deleted /\ Write(c, row) /\ Reserve(c, row.status, row.items)
        /\ IF call[r].op = "submitHall" /\ row.status \in Open /\ row.items # {}
           THEN GoTo(r, "read") ELSE Return(r)
        /\ UNCHANGED <<session, orders, sweep>>
    BY <1>1 DEF Share
  <1> HIDE DEF row
  <1>6. /\ cart' \in [Cart -> CartRecord]
        /\ \A d \in Cart : d # c => cart'[d] = cart[d]
        /\ cart'[c].status = row.status /\ cart'[c].deleted = row.deleted
        /\ cart'[c].token = row.token /\ cart'[c].items = row.items
    BY <1>4, <1>5, WriteStep
  <1>7. /\ held' \in [Cart -> SUBSET Item]
        /\ \A d \in Cart : d # c => held'[d] = held[d]
        /\ held'[c] = IF shouldReserveCartStock(row.status) THEN row.items ELSE held[c]
    BY <1>3, <1>4, <1>5, ReserveStep
  <1>8. /\ call' \in [Request -> Call]
        /\ \A x \in Request : call'[x] = call[x] \/ CallGood(x)'
    <2>1. CASE Return(r)
      BY <2>1, ReturnStep
    <2>2. CASE call[r].op = "submitHall" /\ GoTo(r, "read")
      <3> DEFINE n == [call[r] EXCEPT !.pc = "read"]
      <3>1. n \in Call /\ n.op = "submitHall" /\ n.pc = "read" /\ n.c = c
        BY <1>1, <1>2, <2>2 DEF WellFormed, Call, Pcs
      <3>2. Become(r, n)
        BY <2>2 DEF GoTo
      <3> HIDE DEF n
      <3>3. WellFormed(n)
        BY <3>1 DEF WellFormed
      <3> QED
        BY <1>1, <1>4, <1>6, <3>1, <3>2, <3>3, MoveStep
    <2> QED
      BY <1>5, <2>1, <2>2
  <1>9. Good(c)
    <2>1. HeldPart(c) /\ TablePart(c)
      BY DEF CartInv
    <2>2. HeldPart(c)'
      BY <1>4, <1>5, <1>6, <1>7, <2>1, CartAssumption DEF HeldPart, shouldReserveCartStock
    <2> QED
      BY <1>1, <1>2, <1>4, <1>5, <1>6, <2>1, <2>2 DEF Good, TablePart, HasTable, Calm
  <1>10. TypeOK'
    BY <1>5, <1>6, <1>7, <1>8 DEF CartInv, TypeOK
  <1>11. \A d \in Cart : d # c => Same(d)
    BY <1>5, <1>6, <1>7 DEF Same
  <1> QED
    BY <1>8, <1>9, <1>10, <1>11, InvStep

LEMMA DetachInv == ASSUME CartInv, NEW r \in Request, Detach(r) PROVE CartInv'
  <1>0. call[r].pc = "detach"
    BY DEF Detach
  <1>1. PICK c \in Cart : c = call[r].c /\ cart[c].status # "NONE"
    BY <1>0, Named
  <1>2. cart[c] \in CartRecord
    BY Rows
  <1> DEFINE row == [cart[c] EXCEPT !.token = FALSE]
  <1>3. /\ row \in CartRecord /\ row.deleted = cart[c].deleted /\ row.token = FALSE
        /\ row.items = cart[c].items /\ row.status = cart[c].status
    BY <1>2 DEF CartRecord
  <1>4. Write(c, row) /\ Return(r) /\ UNCHANGED <<session, held, orders, sweep>>
    BY <1>1 DEF Detach
  <1> HIDE DEF row
  <1>5. /\ cart' \in [Cart -> CartRecord]
        /\ \A d \in Cart : d # c => cart'[d] = cart[d]
        /\ cart'[c].status = row.status /\ cart'[c].deleted = row.deleted
        /\ cart'[c].token = row.token /\ cart'[c].items = row.items
    BY <1>3, <1>4, WriteStep
  <1>6. /\ call' \in [Request -> Call]
        /\ \A x \in Request : call'[x] = call[x] \/ CallGood(x)'
    BY <1>4, ReturnStep
  <1>7. Good(c)
    <2>1. HeldPart(c) /\ TablePart(c) /\ (Calm => OrderPart(c))
      BY DEF CartInv
    <2>2. HeldPart(c)' /\ (Calm => OrderPart(c)')
      BY <1>3, <1>4, <1>5, <2>1 DEF HeldPart, OrderPart
    <2> QED
      BY <1>1, <1>3, <1>4, <1>5, <2>1, <2>2 DEF Good, TablePart, HasTable
  <1>8. TypeOK'
    BY <1>4, <1>5, <1>6 DEF CartInv, TypeOK
  <1>9. \A d \in Cart : d # c => Same(d)
    BY <1>4, <1>5 DEF Same
  <1> QED
    BY <1>6, <1>7, <1>8, <1>9, InvStep

LEMMA DeleteInv == ASSUME CartInv, NEW r \in Request, Delete(r) PROVE CartInv'
  <1>0. call[r].pc = "delete"
    BY DEF Delete
  <1>1. PICK c \in Cart : c = call[r].c /\ cart[c].status # "NONE"
    BY <1>0, Named
  <1>2. cart[c] \in CartRecord /\ ~HasTable(c)
    BY <1>0, <1>1, Rows DEF CartInv, CallGood, CallPart
  <1> DEFINE row == [cart[c] EXCEPT !.deleted = TRUE, !.token = FALSE, !.key = FALSE, !.items = {}]
  <1>3. row \in CartRecord /\ row.deleted = TRUE /\ row.status = cart[c].status
    BY <1>2 DEF CartRecord
  <1>4. Write(c, row) /\ Release({c}) /\ Return(r) /\ UNCHANGED <<session, orders, sweep>>
    BY <1>1 DEF Delete
  <1> HIDE DEF row
  <1>5. /\ cart' \in [Cart -> CartRecord]
        /\ \A d \in Cart : d # c => cart'[d] = cart[d]
        /\ cart'[c].status = row.status /\ cart'[c].deleted = row.deleted
    BY <1>3, <1>4, WriteStep
  <1>6. /\ call' \in [Request -> Call]
        /\ \A x \in Request : call'[x] = call[x] \/ CallGood(x)'
    BY <1>4, ReturnStep
  <1>7. /\ held' \in [Cart -> SUBSET Item]
        /\ \A d \in Cart : held'[d] = IF d \in {c} THEN {} ELSE held[d]
    BY <1>4, ReleaseStep
  <1>8. Good(c)
    <2>1. Calm => OrderPart(c)
      BY DEF CartInv
    <2>2. HeldPart(c)' /\ (Calm => OrderPart(c)')
      BY <1>3, <1>4, <1>5, <1>7, <2>1 DEF HeldPart, OrderPart
    <2> QED
      BY <1>1, <1>2, <1>3, <1>4, <1>5, <2>2 DEF Good, TablePart, HasTable
  <1>9. TypeOK'
    BY <1>4, <1>5, <1>6, <1>7 DEF CartInv, TypeOK
  <1>10. \A d \in Cart : d # c => Same(d)
    BY <1>4, <1>5, <1>7 DEF Same
  <1> QED
    BY <1>6, <1>8, <1>9, <1>10, InvStep

LEMMA CreateSessionInv ==
  ASSUME CartInv, NEW r \in Request, NEW c \in Cart, CreateSession(r, c) PROVE CartInv'
  <1>0. call[r].pc = "create" /\ Return(r) /\ UNCHANGED <<held, orders, sweep>>
    BY DEF CreateSession
  <1>1. PICK t \in Table : t = call[r].by
    BY <1>0 DEF CartInv, CallGood, WellFormed
  <1>2. /\ call' \in [Request -> Call]
        /\ \A x \in Request : call'[x] = call[x] \/ CallGood(x)'
    BY <1>0, ReturnStep
  <1>3. CASE UNCHANGED <<cart, session>>
    BY <1>0, <1>2, <1>3, CallsOnly
  <1>4. CASE /\ ~\E d \in Cart : session[d].active /\ session[d].table = t
             /\ Seat(c, t)
    <2>1. cart[c] \in CartRecord
      BY Rows
    <2> DEFINE row == [cart[c] EXCEPT !.status = "SHARED", !.key = TRUE]
               s == [status |-> "OPEN", active |-> TRUE, table |-> t]
    <2>2. /\ row \in CartRecord /\ row.deleted = cart[c].deleted /\ row.token = cart[c].token
          /\ row.items = cart[c].items /\ row.status = "SHARED"
      BY <2>1 DEF CartRecord, Open
    <2>3. s \in SessionRecord /\ s.status = "OPEN" /\ s.active /\ s.table = t
      BY DEF SessionRecord, ActiveSession
    <2>4. cart[c].status = "NONE" /\ Write(c, row) /\ session' = [session EXCEPT ![c] = s]
      BY <1>4 DEF Seat
    <2> HIDE DEF row, s
    <2>5. /\ cart' \in [Cart -> CartRecord]
          /\ \A d \in Cart : d # c => cart'[d] = cart[d]
          /\ cart'[c].status = row.status /\ cart'[c].deleted = row.deleted
          /\ cart'[c].token = row.token /\ cart'[c].items = row.items
      BY <2>2, <2>4, WriteStep
    <2>6. /\ session' \in [Cart -> SessionRecord] /\ session'[c] = s
          /\ \A d \in Cart : d # c => session'[d] = session[d]
      BY <2>3, <2>4 DEF CartInv, TypeOK
    <2>7. Good(c)
      <3>1. HeldPart(c) /\ TablePart(c) /\ (Calm => OrderPart(c))
        BY DEF CartInv
      <3>2. HeldPart(c)' /\ (Calm => OrderPart(c)')
        BY <1>0, <2>2, <2>3, <2>4, <2>5, <2>6, <3>1 DEF HeldPart, OrderPart
      <3> QED
        BY <1>4, <2>2, <2>3, <2>4, <2>5, <2>6, <3>1, <3>2 DEF Good, TablePart, HasTable
    <2>8. TypeOK'
      BY <1>0, <1>2, <2>5, <2>6 DEF CartInv, TypeOK
    <2>9. \A d \in Cart : d # c => Same(d)
      BY <1>0, <2>5, <2>6 DEF Same
    <2> QED
      BY <1>2, <2>7, <2>8, <2>9, InvStep
  <1> QED
    BY <1>1, <1>3, <1>4 DEF CreateSession

LEMMA ApplyInv == ASSUME CartInv, NEW r \in Request, Apply(r) PROVE CartInv'
  <1>0. call[r].pc = "apply" /\ UNCHANGED <<session, held, orders, sweep>>
    BY DEF Apply
  <1>1. PICK c \in Cart : c = call[r].c /\ cart[c].status # "NONE"
    BY <1>0, Named
  <1>2. /\ cart[c] \in CartRecord /\ WellFormed(call[r])
        /\ call[r].op = "submitGuest" => HasTable(c)
    BY <1>1, Rows DEF CartInv, CallGood, CallPart
  <1>3. /\ cart' \in [Cart -> CartRecord]
        /\ \A d \in Cart : d # c => cart'[d] = cart[d]
        /\ cart'[c].status = cart[c].status /\ cart'[c].deleted = cart[c].deleted
        /\ cart'[c].token = cart[c].token /\ cart'[c].items = cart[c].items
    <2>1. CASE Write(c, cart[c])
      BY <1>2, <2>1, WriteStep
    <2>2. CASE UNCHANGED cart
      BY <2>2 DEF CartInv, TypeOK
    <2> QED
      BY <1>1, <2>1, <2>2 DEF Apply
  <1>4. /\ call' \in [Request -> Call]
        /\ \A x \in Request : call'[x] = call[x] \/ CallGood(x)'
    <2>1. PICK pc \in {"pend", "read"} : GoTo(r, pc) /\ (pc = "pend" => call[r].op = "submitGuest")
      BY DEF Apply
    <2> DEFINE n == [call[r] EXCEPT !.pc = pc]
    <2>2. n \in Call /\ n.pc = pc /\ n.c = c /\ n.op = call[r].op /\ n.by = call[r].by
      BY <1>1, <1>2 DEF WellFormed, Call, Pcs
    <2>3. Become(r, n)
      BY <2>1 DEF GoTo
    <2> HIDE DEF n
    <2>4. WellFormed(n)
      BY <1>2, <2>2 DEF WellFormed
    <2>5. n.pc = "pend" \/ n.op = "submitGuest" => session'[n.c].status # "NONE"
      BY <1>0, <1>2, <2>1, <2>2 DEF HasTable
    <2> QED
      BY <1>1, <1>3, <2>2, <2>3, <2>4, <2>5, MoveStep
  <1>5. Good(c)
    <2>1. HeldPart(c) /\ TablePart(c) /\ (Calm => OrderPart(c))
      BY DEF CartInv
    <2>2. HeldPart(c)' /\ (Calm => OrderPart(c)')
      BY <1>0, <1>3, <2>1 DEF HeldPart, OrderPart
    <2> QED
      BY <1>0, <1>1, <1>3, <2>1, <2>2 DEF Good, TablePart, HasTable
  <1>6. TypeOK'
    BY <1>0, <1>3, <1>4 DEF CartInv, TypeOK
  <1>7. \A d \in Cart : d # c => Same(d)
    BY <1>0, <1>3 DEF Same
  <1> QED
    BY <1>4, <1>5, <1>6, <1>7, InvStep

\* A step that only changes the session of a cart that has one.
LEMMA SessionStep ==
  ASSUME CartInv, NEW c \in Cart, NEW s \in SessionRecord, session' = [session EXCEPT ![c] = s],
         HasTable(c), s.status # "NONE", s.active => session[c].active, s.table = session[c].table,
         Calm => \/ s.status = "PENDING_CONFIRMATION"
                 \/ s.status \in {"SUBMITTED", "EXPORT_ERROR"} /\ cart[c].status = "CONVERTED",
         UNCHANGED <<cart, held, orders, sweep>>,
         call' \in [Request -> Call],
         \A x \in Request : call'[x] = call[x] \/ CallGood(x)'
  PROVE  CartInv'
  <1>1. /\ session' \in [Cart -> SessionRecord] /\ session'[c] = s
        /\ \A d \in Cart : d # c => session'[d] = session[d]
    BY DEF CartInv, TypeOK
  <1>2. HeldPart(c) /\ TablePart(c) /\ (Calm => OrderPart(c))
    BY DEF CartInv
  <1>3. HeldPart(c)' /\ (Calm => OrderPart(c)')
    BY <1>1, <1>2 DEF HeldPart, OrderPart
  <1>4. Good(c)
    BY <1>1, <1>2, <1>3 DEF Good, TablePart, HasTable
  <1>5. TypeOK'
    BY <1>1 DEF CartInv, TypeOK
  <1>6. \A d \in Cart : d # c => Same(d)
    BY <1>1 DEF Same
  <1> QED
    BY <1>4, <1>5, <1>6, InvStep

LEMMA PendInv == ASSUME CartInv, NEW r \in Request, Pend(r) PROVE CartInv'
  <1>0. call[r].pc = "pend" /\ Return(r) /\ UNCHANGED <<cart, held, orders, sweep>>
    BY DEF Pend
  <1>1. PICK c \in Cart : c = call[r].c
    BY <1>0, Named
  <1>2. HasTable(c) /\ session[c] \in SessionRecord
    BY <1>0, <1>1, Rows DEF CartInv, CallGood, CallPart
  <1> DEFINE s == [session[c] EXCEPT !.status = "PENDING_CONFIRMATION"]
  <1>3. /\ s \in SessionRecord /\ s.status = "PENDING_CONFIRMATION"
        /\ s.active = session[c].active /\ s.table = session[c].table
    BY <1>2 DEF SessionRecord, ActiveSession
  <1>4. session' = [session EXCEPT ![c] = s]
    BY <1>1 DEF Pend
  <1> HIDE DEF s
  <1> QED
    BY <1>0, <1>2, <1>3, <1>4, ReturnStep, SessionStep

LEMMA SubmitInv == ASSUME CartInv, NEW r \in Request, Submit(r) PROVE CartInv'
  <1>0. call[r].pc = "submit" /\ GoTo(r, "export") /\ UNCHANGED <<cart, held, orders, sweep>>
    BY DEF Submit
  <1>1. PICK c \in Cart : c = call[r].c /\ cart[c].status # "NONE"
    BY <1>0, Named
  <1>2. /\ HasTable(c) /\ session[c] \in SessionRecord /\ WellFormed(call[r])
        /\ Calm => cart[c].status = "CONVERTED"
    BY <1>0, <1>1, Rows DEF CartInv, CallGood, CallPart
  <1> DEFINE s == [session[c] EXCEPT !.status = "SUBMITTED", !.active = FALSE]
  <1>3. /\ s \in SessionRecord /\ s.status = "SUBMITTED" /\ ~s.active
        /\ s.table = session[c].table
    BY <1>2 DEF SessionRecord
  <1>4. session' = [session EXCEPT ![c] = s]
    BY <1>1 DEF Submit
  <1> HIDE DEF s
  <1>5. session'[c].status # "NONE"
    BY <1>3, <1>4 DEF CartInv, TypeOK
  <1> DEFINE n == [call[r] EXCEPT !.pc = "export"]
  <1>6. n \in Call /\ n.pc = "export" /\ n.c = c /\ n.op = call[r].op /\ n.by = call[r].by
    BY <1>1, <1>2 DEF WellFormed, Call, Pcs
  <1>7. Become(r, n)
    BY <1>0 DEF GoTo
  <1> HIDE DEF n
  <1>8. WellFormed(n)
    BY <1>2, <1>6 DEF WellFormed
  <1>9. /\ call' \in [Request -> Call]
        /\ \A x \in Request : call'[x] = call[x] \/ CallGood(x)'
    BY <1>0, <1>1, <1>2, <1>5, <1>6, <1>7, <1>8, MoveStep
  <1> QED
    BY <1>0, <1>2, <1>3, <1>4, <1>9, SessionStep

LEMMA ExportInv ==
  ASSUME CartInv, NEW r \in Request, NEW ok \in BOOLEAN, Export(r, ok) PROVE CartInv'
  <1>0. call[r].pc = "export" /\ Return(r) /\ UNCHANGED <<cart, held, orders, sweep>>
    BY DEF Export
  <1>1. PICK c \in Cart : c = call[r].c
    BY <1>0, Named
  <1>2. /\ HasTable(c) /\ session[c] \in SessionRecord
        /\ Calm => cart[c].status = "CONVERTED"
    BY <1>0, <1>1, Rows DEF CartInv, CallGood, CallPart
  <1>3. PICK status \in {"SUBMITTED", "EXPORT_ERROR"} :
           session' = [session EXCEPT ![c].status = status, ![c].active = FALSE]
    BY <1>1 DEF Export
  <1> DEFINE s == [session[c] EXCEPT !.status = status, !.active = FALSE]
  <1>4. s \in SessionRecord /\ s.status = status /\ ~s.active /\ s.table = session[c].table
    BY <1>2 DEF SessionRecord
  <1>5. session' = [session EXCEPT ![c] = s]
    BY <1>3
  <1> HIDE DEF s
  <1> QED
    BY <1>0, <1>2, <1>4, <1>5, ReturnStep, SessionStep

LEMMA TakeInv == ASSUME CartInv, NEW r \in Request, Take(r) PROVE CartInv'
  <1>0. call[r].pc = "take"
    BY DEF Take
  <1>1. PICK c \in Cart : c = call[r].c /\ cart[c].status # "NONE"
    BY <1>0, Named
  <1>2. ~Calm /\ call[r].by \in Manager /\ cart[c] \in CartRecord /\ cart[c].items \in SUBSET Item
    BY <1>0, Rows DEF CartInv, CallGood, CallPart, WellFormed
  <1> DEFINE row == [cart[c] EXCEPT !.status = "IN_PROGRESS", !.manager = call[r].by]
  <1>3. /\ row \in CartRecord /\ row.deleted = cart[c].deleted /\ row.token = cart[c].token
        /\ row.items = cart[c].items /\ row.status = "IN_PROGRESS"
    BY <1>2 DEF CartRecord, Open
  <1>4. /\ ~cart[c].deleted /\ Write(c, row) /\ Reserve(c, "IN_PROGRESS", cart[c].items)
        /\ Return(r) /\ UNCHANGED <<session, orders, sweep>>
    BY <1>1 DEF Take
  <1> HIDE DEF row
  <1>5. /\ cart' \in [Cart -> CartRecord]
        /\ \A d \in Cart : d # c => cart'[d] = cart[d]
        /\ cart'[c].status = row.status /\ cart'[c].deleted = row.deleted
        /\ cart'[c].token = row.token /\ cart'[c].items = row.items
    BY <1>3, <1>4, WriteStep
  <1>6. /\ held' \in [Cart -> SUBSET Item]
        /\ \A d \in Cart : d # c => held'[d] = held[d]
        /\ held'[c] = IF shouldReserveCartStock("IN_PROGRESS") THEN cart[c].items ELSE held[c]
    BY <1>2, <1>4, ReserveStep
  <1>7. /\ call' \in [Request -> Call]
        /\ \A x \in Request : call'[x] = call[x] \/ CallGood(x)'
    BY <1>4, ReturnStep
  <1>8. Good(c)
    <2>1. HeldPart(c) /\ TablePart(c)
      BY DEF CartInv
    <2>2. HeldPart(c)'
      BY <1>3, <1>4, <1>5, <1>6, <2>1 DEF HeldPart, shouldReserveCartStock
    <2> QED
      BY <1>1, <1>2, <1>3, <1>4, <1>5, <2>1, <2>2 DEF Good, TablePart, HasTable, Calm
  <1>9. TypeOK'
    BY <1>4, <1>5, <1>6, <1>7 DEF CartInv, TypeOK
  <1>10. \A d \in Cart : d # c => Same(d)
    BY <1>4, <1>5, <1>6 DEF Same
  <1> QED
    BY <1>7, <1>8, <1>9, <1>10, InvStep

LEMMA PauseInv == ASSUME CartInv, NEW r \in Request, Pause(r) PROVE CartInv'
  <1>0. call[r].pc = "pause"
    BY DEF Pause
  <1>1. PICK c \in Cart : c = call[r].c /\ cart[c].status # "NONE"
    BY <1>0, Named
  <1>2. ~Calm /\ call[r].by \in Manager /\ cart[c] \in CartRecord
    BY <1>0, Rows DEF CartInv, CallGood, CallPart, WellFormed
  <1> DEFINE row == [cart[c] EXCEPT !.status = "PAUSED", !.manager = call[r].by]
  <1>3. /\ row \in CartRecord /\ row.deleted = cart[c].deleted /\ row.token = cart[c].token
        /\ row.items = cart[c].items /\ row.status = "PAUSED"
    BY <1>2 DEF CartRecord, Open
  <1>4. Write(c, row) /\ Return(r) /\ UNCHANGED <<session, held, orders, sweep>>
    BY <1>1 DEF Pause
  <1> HIDE DEF row
  <1>5. /\ cart' \in [Cart -> CartRecord]
        /\ \A d \in Cart : d # c => cart'[d] = cart[d]
        /\ cart'[c].status = row.status /\ cart'[c].deleted = row.deleted
        /\ cart'[c].token = row.token /\ cart'[c].items = row.items
    BY <1>3, <1>4, WriteStep
  <1>6. /\ call' \in [Request -> Call]
        /\ \A x \in Request : call'[x] = call[x] \/ CallGood(x)'
    BY <1>4, ReturnStep
  <1>7. Good(c)
    <2>1. HeldPart(c) /\ TablePart(c)
      BY DEF CartInv
    <2>2. HeldPart(c)'
      BY <1>3, <1>4, <1>5, <2>1 DEF HeldPart
    <2> QED
      BY <1>1, <1>2, <1>3, <1>4, <1>5, <2>1, <2>2 DEF Good, TablePart, HasTable, Calm
  <1>8. TypeOK'
    BY <1>4, <1>5, <1>6 DEF CartInv, TypeOK
  <1>9. \A d \in Cart : d # c => Same(d)
    BY <1>4, <1>5 DEF Same
  <1> QED
    BY <1>6, <1>7, <1>8, <1>9, InvStep

LEMMA CloseInv ==
  ASSUME CartInv, NEW r \in Request, NEW status \in {"CLOSED", "CANCELLED"}, Close(r, status)
  PROVE  CartInv'
  <1>0. call[r].pc = "close"
    BY DEF Close
  <1>1. PICK c \in Cart : c = call[r].c /\ cart[c].status # "NONE"
    BY <1>0, Named
  <1>2. cart[c] \in CartRecord /\ session[c] \in SessionRecord
    BY Rows
  <1> DEFINE row == [cart[c] EXCEPT !.status = "CANCELLED", !.manager = None, !.key = FALSE]
             s == [session[c] EXCEPT !.status = status, !.active = FALSE]
  <1>3. /\ row \in CartRecord /\ row.deleted = cart[c].deleted /\ row.token = cart[c].token
        /\ row.items = cart[c].items /\ row.status = "CANCELLED"
    BY <1>2 DEF CartRecord, Terminal
  <1>4. s \in SessionRecord /\ s.status = status /\ ~s.active
    BY <1>2 DEF SessionRecord
  <1>5. /\ session[c].status \in ActiveSession /\ cart[c].status \notin Terminal
        /\ Write(c, row) /\ session' = [session EXCEPT ![c] = s]
        /\ Release({c}) /\ Return(r) /\ UNCHANGED <<orders, sweep>>
    BY <1>1 DEF Close
  <1> HIDE DEF row, s
  <1>6. /\ cart' \in [Cart -> CartRecord]
        /\ \A d \in Cart : d # c => cart'[d] = cart[d]
        /\ cart'[c].status = row.status /\ cart'[c].deleted = row.deleted
        /\ cart'[c].token = row.token /\ cart'[c].items = row.items
    BY <1>3, <1>5, WriteStep
  <1>7. /\ session' \in [Cart -> SessionRecord] /\ session'[c] = s
        /\ \A d \in Cart : d # c => session'[d] = session[d]
    BY <1>4, <1>5 DEF CartInv, TypeOK
  <1>8. /\ held' \in [Cart -> SUBSET Item]
        /\ \A d \in Cart : held'[d] = IF d \in {c} THEN {} ELSE held[d]
    BY <1>5, ReleaseStep
  <1>9. /\ call' \in [Request -> Call]
        /\ \A x \in Request : call'[x] = call[x] \/ CallGood(x)'
    BY <1>5, ReturnStep
  <1>10. Good(c)
    <2>1. TablePart(c) /\ (Calm => OrderPart(c))
      BY DEF CartInv
    <2>2. HeldPart(c)' /\ (Calm => OrderPart(c)')
      BY <1>3, <1>4, <1>5, <1>6, <1>7, <1>8, <2>1 DEF HeldPart, OrderPart, Terminal
    <2> QED
      BY <1>1, <1>3, <1>4, <1>5, <1>6, <1>7, <2>1, <2>2
         DEF Good, TablePart, HasTable, ActiveSession, Terminal
  <1>11. TypeOK'
    BY <1>5, <1>6, <1>7, <1>8, <1>9 DEF CartInv, TypeOK
  <1>12. \A d \in Cart : d # c => Same(d)
    BY <1>5, <1>6, <1>7, <1>8 DEF Same
  <1> QED
    BY <1>9, <1>10, <1>11, <1>12, InvStep

LEMMA ReadCheckoutInv == ASSUME CartInv, NEW r \in Request, ReadCheckout(r) PROVE CartInv'
  <1>0. call[r].pc = "read" /\ UNCHANGED <<cart, session, held, orders, sweep>>
    BY DEF ReadCheckout
  <1>1. PICK c \in Cart : c = call[r].c /\ cart[c].status # "NONE"
    BY <1>0, Named
  <1>2. /\ WellFormed(call[r]) /\ cart[c].items \in SUBSET Item
        /\ call[r].op = "submitGuest" => HasTable(c)
    BY <1>1, Rows DEF CartInv, CallGood, CallPart
  <1> DEFINE n == [call[r] EXCEPT !.pc = "claim", !.items = cart[c].items]
  <1>3. n \in Call /\ n.pc = "claim" /\ n.c = c /\ n.op = call[r].op /\ n.by = call[r].by
    BY <1>1, <1>2 DEF WellFormed, Call, Pcs
  <1>4. Become(r, n)
    BY <1>1 DEF ReadCheckout
  <1> HIDE DEF n
  <1>5. WellFormed(n)
    BY <1>2, <1>3 DEF WellFormed
  <1>6. n.op = "submitGuest" => session'[n.c].status # "NONE"
    BY <1>0, <1>2, <1>3 DEF HasTable
  <1>7. /\ call' \in [Request -> Call]
        /\ \A x \in Request : call'[x] = call[x] \/ CallGood(x)'
    BY <1>0, <1>1, <1>3, <1>4, <1>5, <1>6, MoveStep
  <1> QED
    BY <1>0, <1>7, CallsOnly

LEMMA ClaimInv == ASSUME CartInv, NEW r \in Request, Claim(r) PROVE CartInv'
  <1>0. call[r].pc = "claim" /\ Convert(r)
    BY DEF Claim
  <1>1. PICK c \in Cart : c = call[r].c /\ cart[c].status # "NONE"
    BY <1>0, Named
  <1>2. /\ cart[c] \in CartRecord /\ cart[c].status \in Open /\ WellFormed(call[r])
        /\ held[c] \in SUBSET Item /\ orders[c] \in Nat
        /\ call[r].op = "submitGuest" => HasTable(c)
    BY <1>1, Rows DEF Claim, CartInv, CallGood, CallPart
  <1> DEFINE m == IF call[r].op = "complete" THEN call[r].by ELSE None
  <1>3. m \in Manager \cup {None}
    BY <1>2 DEF WellFormed
  <1>4. /\ Write(c, [cart[c] EXCEPT !.status = "CONVERTED", !.key = FALSE, !.manager = m])
        /\ orders' = [orders EXCEPT ![c] = @ + 1]
        /\ held' = [held EXCEPT ![c] = @ \ call[r].items]
        /\ \/ HasTable(c) /\ GoTo(r, "submit")
           \/ Return(r)
        /\ UNCHANGED <<session, sweep>>
    BY <1>0, <1>1 DEF Convert
  <1> HIDE DEF m
  <1> DEFINE row == [cart[c] EXCEPT !.status = "CONVERTED", !.key = FALSE, !.manager = m]
  <1>5. /\ row \in CartRecord /\ row.deleted = cart[c].deleted /\ row.token = cart[c].token
        /\ row.items = cart[c].items /\ row.status = "CONVERTED"
    BY <1>2, <1>3 DEF CartRecord, Terminal
  <1>w. Write(c, row)
    BY <1>4
  <1> HIDE DEF row
  <1>6. /\ cart' \in [Cart -> CartRecord]
        /\ \A d \in Cart : d # c => cart'[d] = cart[d]
        /\ cart'[c].status = row.status /\ cart'[c].deleted = row.deleted
        /\ cart'[c].token = row.token /\ cart'[c].items = row.items
    BY <1>5, <1>w, WriteStep
  <1>7. /\ held' \in [Cart -> SUBSET Item] /\ held'[c] \subseteq held[c]
        /\ \A d \in Cart : d # c => held'[d] = held[d]
    BY <1>4 DEF CartInv, TypeOK
  <1>8. /\ orders' \in [Cart -> Nat] /\ orders'[c] = orders[c] + 1
        /\ \A d \in Cart : d # c => orders'[d] = orders[d]
    BY <1>4 DEF CartInv, TypeOK
  <1>9. /\ call' \in [Request -> Call]
        /\ \A x \in Request : call'[x] = call[x] \/ CallGood(x)'
    <2>1. CASE Return(r)
      BY <2>1, ReturnStep
    <2>2. CASE HasTable(c) /\ GoTo(r, "submit")
      <3> DEFINE n == [call[r] EXCEPT !.pc = "submit"]
      <3>1. n \in Call /\ n.pc = "submit" /\ n.c = c /\ n.op = call[r].op /\ n.by = call[r].by
        BY <1>1, <1>2 DEF WellFormed, Call, Pcs
      <3>2. Become(r, n)
        BY <2>2 DEF GoTo
      <3> HIDE DEF n
      <3>3. WellFormed(n)
        BY <1>2, <3>1 DEF WellFormed
      <3>4. session'[c].status # "NONE" /\ cart'[c].status = "CONVERTED"
        BY <1>4, <1>5, <1>6, <2>2 DEF HasTable
      <3> QED
        BY <3>1, <3>2, <3>3, <3>4, MoveStep
    <2> QED
      BY <1>4, <2>1, <2>2
  <1>10. Good(c)
    <2>1. HeldPart(c) /\ TablePart(c) /\ (Calm => OrderPart(c))
      BY DEF CartInv
    <2>2. HeldPart(c)'
      BY <1>2, <1>5, <1>6, <1>7, <2>1 DEF HeldPart
    <2>3. Calm => OrderPart(c)'
      BY <1>2, <1>4, <1>5, <1>6, <1>8, <2>1 DEF OrderPart, Open, Terminal
    <2> QED
      BY <1>1, <1>4, <1>5, <1>6, <2>1, <2>2, <2>3 DEF Good, TablePart, HasTable
  <1>11. TypeOK'
    BY <1>4, <1>6, <1>7, <1>8, <1>9 DEF CartInv, TypeOK
  <1>12. \A d \in Cart : d # c => Same(d)
    BY <1>4, <1>6, <1>7, <1>8 DEF Same
  <1> QED
    BY <1>9, <1>10, <1>11, <1>12, InvStep

LEMMA ProceedInv == ASSUME CartInv, NEW r \in Request, Proceed(r) PROVE CartInv'
  BY ShareInv, DetachInv, DeleteInv, CreateSessionInv, ApplyInv, PendInv, TakeInv, PauseInv,
     CloseInv, ReadCheckoutInv, ClaimInv, SubmitInv, ExportInv DEF Proceed

\* A request that fails, or whose process dies, leaves the rows as they are.
LEMMA EndInv == ASSUME CartInv, NEW r \in Request, Abort(r) \/ Crash(r) PROVE CartInv'
  BY ReturnStep, CallsOnly DEF Abort, Crash

----------------------------------------------------------------------------
(* One-step requests, sweeps and time *)

LEMMA OpenCartInv == ASSUME CartInv, NEW c \in Cart, OpenCart(c) PROVE CartInv'
  <1>1. cart[c] \in CartRecord
    BY Rows
  <1> DEFINE row == [cart[c] EXCEPT !.status = "DRAFT", !.token = TRUE]
  <1>2. /\ row \in CartRecord /\ row.deleted = cart[c].deleted /\ row.items = cart[c].items
        /\ row.status = "DRAFT"
    BY <1>1 DEF CartRecord, Open
  <1>3. cart[c].status = "NONE" /\ Write(c, row) /\ UNCHANGED <<session, held, orders, call, sweep>>
    BY DEF OpenCart
  <1> HIDE DEF row
  <1>4. /\ cart' \in [Cart -> CartRecord]
        /\ \A d \in Cart : d # c => cart'[d] = cart[d]
        /\ cart'[c].status = row.status /\ cart'[c].deleted = row.deleted
        /\ cart'[c].items = row.items
    BY <1>2, <1>3, WriteStep
  <1>5. Good(c)
    <2>1. HeldPart(c) /\ TablePart(c) /\ (Calm => OrderPart(c))
      BY DEF CartInv
    <2>2. HeldPart(c)' /\ (Calm => OrderPart(c)')
      BY <1>2, <1>3, <1>4, <2>1 DEF HeldPart, OrderPart, Terminal
    <2> QED
      BY <1>2, <1>3, <1>4, <2>1, <2>2 DEF Good, TablePart, HasTable
  <1>6. TypeOK'
    BY <1>3, <1>4 DEF CartInv, TypeOK
  <1>7. \A d \in Cart : d # c => Same(d)
    BY <1>3, <1>4 DEF Same
  <1> QED
    BY <1>3, <1>5, <1>6, <1>7, InvStep

LEMMA EditLineInv ==
  ASSUME CartInv, NEW c \in Cart, NEW items \in SUBSET Item, EditLine(c, items) PROVE CartInv'
  <1>1. cart[c] \in CartRecord
    BY Rows
  <1> DEFINE row == [cart[c] EXCEPT !.items = items]
  <1>2. /\ row \in CartRecord /\ row.deleted = cart[c].deleted /\ row.token = cart[c].token
        /\ row.items = items /\ row.status = cart[c].status
    BY <1>1 DEF CartRecord
  <1>3. /\ cart[c].status \in Open /\ ~cart[c].deleted
        /\ Write(c, row) /\ Reserve(c, cart[c].status, items)
        /\ UNCHANGED <<session, orders, call, sweep>>
    BY DEF EditLine
  <1> HIDE DEF row
  <1>4. /\ cart' \in [Cart -> CartRecord]
        /\ \A d \in Cart : d # c => cart'[d] = cart[d]
        /\ cart'[c].status = row.status /\ cart'[c].deleted = row.deleted
        /\ cart'[c].token = row.token /\ cart'[c].items = row.items
    BY <1>2, <1>3, WriteStep
  <1>5. /\ held' \in [Cart -> SUBSET Item]
        /\ \A d \in Cart : d # c => held'[d] = held[d]
        /\ held'[c] = IF shouldReserveCartStock(cart[c].status) THEN items ELSE held[c]
    BY <1>3, ReserveStep
  <1>6. Good(c)
    <2>1. HeldPart(c) /\ TablePart(c) /\ (Calm => OrderPart(c))
      BY DEF CartInv
    <2>2. HeldPart(c)'
      BY <1>2, <1>3, <1>4, <1>5, <2>1, CartAssumption DEF HeldPart, shouldReserveCartStock, Open
    <2>3. Calm => OrderPart(c)'
      BY <1>2, <1>3, <1>4, <2>1 DEF OrderPart
    <2> QED
      BY <1>2, <1>3, <1>4, <2>1, <2>2, <2>3 DEF Good, TablePart, HasTable
  <1>7. TypeOK'
    BY <1>3, <1>4, <1>5 DEF CartInv, TypeOK
  <1>8. \A d \in Cart : d # c => Same(d)
    BY <1>3, <1>4, <1>5 DEF Same
  <1> QED
    BY <1>3, <1>6, <1>7, <1>8, InvStep

LEMMA GrowOldInv == ASSUME CartInv, NEW c \in Cart, GrowOld(c) PROVE CartInv'
  <1>1. cart[c] \in CartRecord /\ UNCHANGED <<session, held, orders, call, sweep>>
    BY Rows DEF GrowOld
  <1>2. /\ cart' \in [Cart -> CartRecord]
        /\ \A d \in Cart : d # c => cart'[d] = cart[d]
        /\ cart'[c].status = cart[c].status /\ cart'[c].deleted = cart[c].deleted
        /\ cart'[c].token = cart[c].token /\ cart'[c].items = cart[c].items
    BY ZenonT(60) DEF CartInv, TypeOK, GrowOld, CartRecord
  <1>3. Good(c)
    <2>1. HeldPart(c) /\ TablePart(c) /\ (Calm => OrderPart(c))
      BY DEF CartInv
    <2>2. HeldPart(c)' /\ (Calm => OrderPart(c)')
      BY <1>1, <1>2, <2>1 DEF HeldPart, OrderPart
    <2> QED
      BY <1>1, <1>2, <2>1, <2>2 DEF Good, TablePart, HasTable
  <1>4. TypeOK'
    BY <1>1, <1>2 DEF CartInv, TypeOK
  <1>5. \A d \in Cart : d # c => Same(d)
    BY <1>1, <1>2 DEF Same
  <1> QED
    BY <1>1, <1>3, <1>4, <1>5, InvStep

LEMMA ExpireReservationsInv == ASSUME CartInv, NEW c \in Cart, ExpireReservations(c) PROVE CartInv'
  <1>1. Release({c}) /\ UNCHANGED <<cart, session, orders, call, sweep>>
    BY DEF ExpireReservations
  <1>2. /\ held' \in [Cart -> SUBSET Item]
        /\ \A d \in Cart : held'[d] = IF d \in {c} THEN {} ELSE held[d]
    BY <1>1, ReleaseStep
  <1>3. Good(c)
    <2>1. TablePart(c) /\ (Calm => OrderPart(c))
      BY DEF CartInv
    <2>2. HeldPart(c)' /\ (Calm => OrderPart(c)')
      BY <1>1, <1>2, <2>1 DEF HeldPart, OrderPart
    <2> QED
      BY <1>1, <2>1, <2>2 DEF Good, TablePart, HasTable
  <1>4. TypeOK'
    BY <1>1, <1>2 DEF CartInv, TypeOK
  <1>5. \A d \in Cart : d # c => Same(d)
    BY <1>1, <1>2 DEF Same
  <1> QED
    BY <1>1, <1>3, <1>4, <1>5, InvStep

LEMMA BeginSweepInv ==
  ASSUME CartInv, NEW kind \in {"sweepManagers", "sweepDrafts", "sweepTables"}, BeginSweep(kind)
  PROVE  CartInv'
  <1>1. Found(kind) \subseteq Cart
    <2>1. CASE kind = "sweepManagers"
      BY <2>1 DEF Found
    <2>2. CASE kind = "sweepDrafts"
      BY <2>2 DEF Found
    <2>3. CASE kind = "sweepTables"
      BY <2>3 DEF Found
    <2> QED
      BY <2>1, <2>2, <2>3
  <1>2. TypeOK'
    BY <1>1 DEF BeginSweep, CartInv, TypeOK, AllOps
  <1>3. \A c \in Cart : Same(c)
    BY DEF BeginSweep, Same
  <1>4. \A r \in Request : call'[r] = call[r]
    BY DEF BeginSweep
  <1> QED
    BY <1>2, <1>3, <1>4, InvStep

LEMMA SweepOver == ASSUME sweep' = NoSweep
                   PROVE  sweep'.kind \in AllOps \cup {None} /\ sweep'.found \subseteq Cart
  BY DEF NoSweep

LEMMA PauseInactiveInv == ASSUME CartInv, PauseInactive PROVE CartInv'
  <1>1. UNCHANGED <<session, held, orders, call>> /\ sweep' = NoSweep
    BY DEF PauseInactive
  <1>2. ASSUME NEW c \in Cart
        PROVE  \/ cart'[c] = cart[c]
               \/ /\ cart[c].status = "IN_PROGRESS"
                  /\ cart'[c] = [[cart[c] EXCEPT !.status = "PAUSED"] EXCEPT !.old = FALSE]
    BY DEF PauseInactive, SweepCarts
  <1>3. ASSUME NEW c \in Cart
        PROVE  cart'[c] \in CartRecord /\ (Same(c) \/ Good(c))
    <2>1. cart[c] \in CartRecord
      BY Rows
    <2>2. CASE cart'[c] = cart[c]
      BY <1>1, <2>1, <2>2 DEF Same
    <2>3. CASE /\ cart[c].status = "IN_PROGRESS"
               /\ cart'[c] = [[cart[c] EXCEPT !.status = "PAUSED"] EXCEPT !.old = FALSE]
      <3>1. /\ cart'[c] \in CartRecord /\ cart'[c].status = "PAUSED"
            /\ cart'[c].deleted = cart[c].deleted /\ cart'[c].token = cart[c].token
            /\ cart'[c].items = cart[c].items
        BY <2>1, <2>3 DEF CartRecord, Open
      <3>2. HeldPart(c) /\ TablePart(c) /\ (Calm => OrderPart(c))
        BY DEF CartInv
      <3>3. HeldPart(c)' /\ (Calm => OrderPart(c)')
        BY <1>1, <2>3, <3>1, <3>2 DEF HeldPart, OrderPart, Terminal
      <3> QED
        BY <1>1, <2>3, <3>1, <3>2, <3>3 DEF Good, TablePart, HasTable
    <2> QED
      BY <1>2, <2>2, <2>3
  <1>4. cart' \in [Cart -> CartRecord]
    BY <1>3 DEF PauseInactive, SweepCarts
  <1>5. TypeOK'
    BY <1>1, <1>4, SweepOver DEF CartInv, TypeOK
  <1> QED
    BY <1>1, <1>3, <1>5, InvStep

LEMMA ExpireDraftsInv == ASSUME CartInv, ExpireDrafts PROVE CartInv'
  <1>1. UNCHANGED <<session, orders, call>> /\ sweep' = NoSweep /\ Release(sweep.found)
    BY DEF ExpireDrafts
  <1>2. ASSUME NEW c \in Cart
        PROVE  \/ cart'[c] = cart[c]
               \/ /\ cart[c].status \in {"DRAFT", "SHARED"} /\ c \in sweep.found
                  /\ cart'[c] = [[cart[c] EXCEPT !.status = "EXPIRED"] EXCEPT !.old = FALSE]
    BY DEF ExpireDrafts, SweepCarts
  <1>3. /\ held' \in [Cart -> SUBSET Item]
        /\ \A d \in Cart : held'[d] = IF d \in sweep.found THEN {} ELSE held[d]
    BY <1>1, ReleaseStep
  <1>4. ASSUME NEW c \in Cart
        PROVE  cart'[c] \in CartRecord /\ Good(c)
    <2>1. cart[c] \in CartRecord
      BY Rows
    <2>2. HeldPart(c) /\ TablePart(c) /\ (Calm => OrderPart(c))
      BY DEF CartInv
    <2>3. CASE cart'[c] = cart[c]
      <3>1. HeldPart(c)' /\ (Calm => OrderPart(c)')
        BY <1>1, <1>3, <2>2, <2>3 DEF HeldPart, OrderPart
      <3> QED
        BY <1>1, <2>1, <2>2, <2>3, <3>1 DEF Good, TablePart, HasTable
    <2>4. CASE /\ cart[c].status \in {"DRAFT", "SHARED"} /\ c \in sweep.found
               /\ cart'[c] = [[cart[c] EXCEPT !.status = "EXPIRED"] EXCEPT !.old = FALSE]
      <3>1. /\ cart'[c] \in CartRecord /\ cart'[c].status = "EXPIRED"
            /\ cart'[c].deleted = cart[c].deleted /\ cart'[c].token = cart[c].token
            /\ cart'[c].items = cart[c].items
        BY <2>1, <2>4 DEF CartRecord, Terminal
      <3>2. HeldPart(c)' /\ (Calm => OrderPart(c)')
        BY <1>1, <1>3, <2>2, <2>4, <3>1 DEF HeldPart, OrderPart, Terminal
      <3> QED
        BY <1>1, <2>2, <2>4, <3>1, <3>2 DEF Good, TablePart, HasTable
    <2> QED
      BY <1>2, <2>3, <2>4
  <1>5. cart' \in [Cart -> CartRecord]
    BY <1>4 DEF ExpireDrafts, SweepCarts
  <1>6. TypeOK'
    BY <1>1, <1>3, <1>5, SweepOver DEF CartInv, TypeOK
  <1> QED
    BY <1>1, <1>4, <1>6, InvStep

LEMMA ExpireTablesInv == ASSUME CartInv, ExpireTables PROVE CartInv'
  <1>1. UNCHANGED <<orders, call>> /\ sweep' = NoSweep /\ Release(sweep.found)
    BY DEF ExpireTables
  <1>2. ASSUME NEW c \in Cart
        PROVE  \/ /\ cart'[c] = cart[c]
                  /\ c \in sweep.found => cart[c].status \notin Open \ {"DRAFT"} \/ cart[c].deleted
               \/ /\ cart[c].status \in Open \ {"DRAFT"} /\ c \in sweep.found
                  /\ cart'[c] = [[cart[c] EXCEPT !.status = "EXPIRED", !.manager = None, !.key = FALSE]
                                 EXCEPT !.old = FALSE]
    BY DEF ExpireTables, SweepCarts
  <1>3. ASSUME NEW c \in Cart
        PROVE  \/ session'[c] = session[c]
               \/ /\ session[c].status \in ActiveSession /\ c \in sweep.found
                  /\ session'[c] = [session[c] EXCEPT !.status = "EXPIRED", !.active = FALSE]
    BY DEF ExpireTables
  <1>4. /\ held' \in [Cart -> SUBSET Item]
        /\ \A d \in Cart : held'[d] = IF d \in sweep.found THEN {} ELSE held[d]
    BY <1>1, ReleaseStep
  <1>5. ASSUME NEW c \in Cart
        PROVE  cart'[c] \in CartRecord /\ session'[c] \in SessionRecord /\ Good(c)
    <2>1. cart[c] \in CartRecord /\ session[c] \in SessionRecord
      BY Rows
    <2>2. HeldPart(c) /\ TablePart(c) /\ (Calm => OrderPart(c))
      BY DEF CartInv
    <2>3. /\ cart'[c] \in CartRecord /\ cart'[c].token = cart[c].token
          /\ cart'[c].deleted = cart[c].deleted /\ cart'[c].items = cart[c].items
          /\ \/ /\ cart'[c].status = cart[c].status
                /\ c \in sweep.found => cart[c].status \notin Open \ {"DRAFT"} \/ cart[c].deleted
             \/ /\ cart'[c].status = "EXPIRED" /\ cart[c].status \in Open \ {"DRAFT"}
                /\ c \in sweep.found
      <3>1. CASE cart'[c] = cart[c]
        BY <1>2, <2>1, <3>1 DEF CartRecord
      <3>2. CASE /\ cart[c].status \in Open \ {"DRAFT"} /\ c \in sweep.found
                 /\ cart'[c] = [[cart[c] EXCEPT !.status = "EXPIRED", !.manager = None, !.key = FALSE]
                                EXCEPT !.old = FALSE]
        BY <2>1, <3>2 DEF CartRecord, Terminal
      <3> QED
        BY <1>2, <3>1, <3>2
    <2>4. /\ session'[c] \in SessionRecord
          /\ session'[c].active => session[c].active /\ session'[c].table = session[c].table
          /\ \/ session'[c].status = session[c].status
             \/ /\ session'[c].status = "EXPIRED" /\ session[c].status \in ActiveSession
                /\ c \in sweep.found
      <3>1. CASE session'[c] = session[c]
        BY <2>1, <3>1 DEF SessionRecord
      <3>2. CASE /\ session[c].status \in ActiveSession /\ c \in sweep.found
                 /\ session'[c] = [session[c] EXCEPT !.status = "EXPIRED", !.active = FALSE]
        BY <2>1, <3>2 DEF SessionRecord
      <3> QED
        BY <1>3, <3>1, <3>2
    <2>5. HasTable(c)' <=> HasTable(c)
      BY <2>4 DEF HasTable, ActiveSession
    <2>6. HeldPart(c)'
      BY <1>4, <2>2, <2>3 DEF HeldPart
    <2>7. TablePart(c)'
      BY <2>2, <2>3, <2>5 DEF TablePart, Open
    <2>8. ASSUME Calm PROVE OrderPart(c)'
      <3>1. session'[c].status = "EXPIRED" => cart'[c].status \in Terminal
        <4>1. cart[c].status \in {"NONE"} \cup Open \cup Terminal
          BY <2>1 DEF CartRecord
        <4> QED
          BY <2>2, <2>3, <2>4, <2>8, <4>1 DEF OrderPart, TablePart, HasTable, ActiveSession, Terminal
      <3>2. orders'[c] = IF cart'[c].status = "CONVERTED" THEN 1 ELSE 0
        BY <1>1, <2>2, <2>3, <2>8 DEF OrderPart, Open
      <3> QED
        BY <2>2, <2>3, <2>4, <2>8, <3>1, <3>2 DEF OrderPart, Open
    <2>9. cart[c].status # "NONE" => cart'[c].status # "NONE"
      BY <2>3
    <2>10. cart[c].status = "CONVERTED" => cart'[c].status = "CONVERTED"
      BY <2>3, SMTT(40) DEF Open
    <2> QED
      BY <2>3, <2>4, <2>5, <2>6, <2>7, <2>8, <2>9, <2>10 DEF Good
  <1>6. cart' \in [Cart -> CartRecord] /\ session' \in [Cart -> SessionRecord]
    BY <1>5 DEF ExpireTables, SweepCarts
  <1>7. TypeOK'
    BY <1>1, <1>4, <1>6, SweepOver DEF CartInv, TypeOK
  <1> QED
    BY <1>1, <1>5, <1>7, InvStep

----------------------------------------------------------------------------
(* The theorems *)

LEMMA NextInv == ASSUME CartInv, Next PROVE CartInv'
  <1>1. CASE SweepStep
    BY <1>1, PauseInactiveInv, ExpireDraftsInv, ExpireTablesInv DEF SweepStep
  <1>2. ASSUME NEW r \in Request, Begin(r) \/ Proceed(r) \/ Abort(r) \/ Crash(r) PROVE CartInv'
    BY <1>2, BeginInv, ProceedInv, EndInv
  <1>3. ASSUME NEW c \in Cart,
               \/ OpenCart(c) \/ GrowOld(c) \/ ExpireReservations(c)
               \/ \E items \in SUBSET Item : EditLine(c, items)
        PROVE  CartInv'
    BY <1>3, OpenCartInv, GrowOldInv, ExpireReservationsInv, EditLineInv
  <1>4. ASSUME NEW kind \in {"sweepManagers", "sweepDrafts", "sweepTables"}, BeginSweep(kind)
        PROVE  CartInv'
    BY <1>4, BeginSweepInv
  <1> QED
    BY <1>1, <1>2, <1>3, <1>4 DEF Next

LEMMA StutterInv == ASSUME CartInv, UNCHANGED vars PROVE CartInv'
  BY CallsOnly DEF vars, CartInv, TypeOK

LEMMA InitInv == ASSUME Init PROVE CartInv
  <1>1. TypeOK
    <2>1. cart \in [Cart -> CartRecord]
      BY DEF Init, CartRecord
    <2>2. session \in [Cart -> SessionRecord]
      BY DEF Init, SessionRecord
    <2>3. call \in [Request -> Call]
      BY IdleGood DEF Init, WellFormed
    <2> QED
      BY <2>1, <2>2, <2>3 DEF Init, TypeOK, NoSweep
  <1>2. ASSUME NEW c \in Cart PROVE HeldPart(c) /\ TablePart(c) /\ (Calm => OrderPart(c))
    BY DEF Init, HeldPart, TablePart, OrderPart, HasTable
  <1>3. ASSUME NEW r \in Request PROVE CallGood(r)
    BY IdleGood DEF Init, CallGood, CallPart, WellFormed, None
  <1>4. OneSessionPerTable
    BY DEF Init, OneSessionPerTable
  <1> QED
    BY <1>1, <1>2, <1>3, <1>4 DEF CartInv

LEMMA SpecInv == Spec => []CartInv
  <1>1. CartInv /\ [Next]_vars => CartInv'
    BY NextInv, StutterInv
  <1> QED
    BY <1>1, InitInv, PTL DEF Spec

\* The state of the carts keeps its shape, whatever requests and sweeps are made.
THEOREM CartTypeOK == Spec => []TypeOK
  BY SpecInv, PTL DEF CartInv

\* Whatever the requests and however they interleave, a cart that was deleted, cancelled,
\* expired or never shared holds no stock, and no cart holds stock for a line it has not.
THEOREM EndedCartsHoldNothing == Spec => []EndedHoldsNothing
  <1>1. CartInv => EndedHoldsNothing
    BY DEF CartInv, HeldPart, EndedHoldsNothing
  <1> QED
    BY <1>1, SpecInv, PTL

\* activeKey keeps one active session per table, whatever guests and managers do.
THEOREM TablesShareOneSession == Spec => []OneSessionPerTable
  BY SpecInv, PTL DEF CartInv

\* As long as no request writes a status it checked in an earlier step, the conditional
\* claim of complete makes at most one order of a cart.
THEOREM OneOrderPerCart ==
  ASSUME Ops \cap {"share", "submitHall", "begin", "heartbeat", "release"} = {}
  PROVE  Spec => []AtMostOneOrder
  <1>1. Calm
    BY DEF Calm, Reopeners
  <1>2. CartInv => AtMostOneOrder
    BY <1>1 DEF CartInv, OrderPart, AtMostOneOrder
  <1> QED
    BY <1>2, SpecInv, PTL

\* Under the same condition a session that is over agrees with its cart: SUBMITTED and
\* EXPORT_ERROR have their order, a table that was closed or reset has none.
THEOREM EndedSessionsAgree ==
  ASSUME Ops \cap {"share", "submitHall", "begin", "heartbeat", "release"} = {}
  PROVE  Spec => []SessionCartAgree
  <1>1. Calm
    BY DEF Calm, Reopeners
  <1>2. CartInv => SessionCartAgree
    BY <1>1 DEF CartInv, OrderPart, SessionCartAgree
  <1> QED
    BY <1>2, SpecInv, PTL
=============================================================================
