--------------------------- MODULE InventoryProofs ---------------------------
(***************************************************************************)
(* Proofs about Inventory, for any number of warehouses, variants, carts,  *)
(* lines and sessions and for any quantities.                              *)
(***************************************************************************)
EXTENDS Inventory, FiniteSetTheorems, TLAPS

----------------------------------------------------------------------------
(* The values the statements write *)

LEMMA IdleType == Idle \in Tx
  <1>1. (CHOOSE l \in Line : TRUE) \in Line
    BY InventoryAssumption
  <1>2. (CHOOSE w \in Warehouse : TRUE) \in Warehouse
    BY InventoryAssumption
  <1>3. (CHOOSE v \in Variant : TRUE) \in Variant
    BY InventoryAssumption
  <1> QED
    BY <1>1, <1>2, <1>3 DEF Idle, Tx, Nothing, PC

\* Looking for the next piece of work keeps the work and forgets the reads.
LEMMA AgainType == ASSUME NEW t \in Tx PROVE Again(t) \in Tx
  BY IdleType DEF Again, Tx, PC

LEMMA SeenType ==
  ASSUME TypeOK, NEW p \in Session
  PROVE  /\ \A w \in Warehouse, v \in Variant : SeenBal(p, w, v) \in Balance
         /\ \A l \in Line : SeenRes(p, l) \in Reservation
  BY DEF TypeOK, SeenBal, SeenRes

\* A transaction's next state is well typed when its record is.
LEMMA StepType ==
  ASSUME TypeOK, NEW p \in Session, NEW t \in Tx, Step(p, t)
  PROVE  tx' \in [Session -> Tx]
  BY DEF TypeOK, Step

LEMMA LockType ==
  ASSUME TypeOK, NEW p \in Session, NEW row \in Row, Lock(p, row)
  PROVE  held' \in [Session -> SUBSET Row]
  BY DEF TypeOK, Lock

LEMMA SetBalType ==
  ASSUME TypeOK, NEW p \in Session, NEW b \in Balance, SetBal(p, b)
  PROVE  /\ bal' \in [Warehouse -> [Variant -> Balance]]
         /\ held' \in [Session -> SUBSET Row]
  <1>1. tx[p] \in Tx
    BY DEF TypeOK
  <1>2. tx[p].w \in Warehouse /\ tx[p].v \in Variant
    BY <1>1 DEF Tx
  <1>3. bal' \in [Warehouse -> [Variant -> Balance]]
    BY <1>2 DEF TypeOK, SetBal
  <1>4. BalRow(tx[p].w, tx[p].v) \in Row
    BY <1>2 DEF Row
  <1>5. held' \in [Session -> SUBSET Row]
    BY <1>4, LockType DEF SetBal
  <1> QED
    BY <1>3, <1>5

\* Moving q reserved units back to available.
LEMMA FreedBalance ==
  ASSUME NEW b \in Balance, NEW q \in Nat, b.reserved >= q
  PROVE  [b EXCEPT !.reserved = @ - q, !.available = @ + q] \in Balance
  <1>1. b.reserved - q \in Nat /\ b.available + q \in Nat
    BY DEF Balance
  <1> QED
    BY <1>1 DEF Balance

\* Reserving q available units.
LEMMA TakenBalance ==
  ASSUME NEW b \in Balance, NEW q \in Nat, b.available >= q
  PROVE  [b EXCEPT !.reserved = @ + q, !.available = @ - q] \in Balance
  <1>1. b.reserved + q \in Nat /\ b.available - q \in Nat
    BY DEF Balance
  <1> QED
    BY <1>1 DEF Balance

\* Selling what canConsumeStockBalance allows.
LEMMA SoldBalance ==
  ASSUME NEW b \in Balance, NEW total \in Nat, NEW reserved \in Nat,
         NEW direct \in Nat, CanConsume(b, total, reserved, direct)
  PROVE  Sell(b, total, reserved, direct) \in Balance
  <1>1. /\ b.onHand - total \in Nat
        /\ b.reserved - reserved \in Nat
        /\ b.available - direct \in Nat
        /\ b.moved - total \in Int
    BY DEF Balance, CanConsume
  <1> QED
    BY <1>1 DEF Balance, Sell

\* The absolute write of an adjustment.
LEMMA WrittenBalance ==
  ASSUME NEW b \in Balance, NEW q \in Nat, NEW a \in Nat, NEW d \in Int
  PROVE  [b EXCEPT !.onHand = q, !.available = a, !.moved = @ + d] \in Balance
  <1>1. b.moved + d \in Int
    BY DEF Balance
  <1> QED
    BY <1>1 DEF Balance

\* Snapshots of reservations.
LEMMA ActiveOfType ==
  ASSUME TypeOK, NEW p \in Session, NEW c, NEW L \in SUBSET Line
  PROVE  ActiveOf(p, c, L) \subseteq Snapshot
  BY SeenType DEF ActiveOf, Snapshot, Reservation

----------------------------------------------------------------------------
(* Type correctness, one lemma per action *)

LEMMA CommitTypeOK ==
  ASSUME TypeOK, NEW p \in Session, Commit(p) PROVE TypeOK'
  <1>1. tx' \in [Session -> Tx]
    BY StepType, IdleType DEF Commit
  <1>2. cbal' \in [Warehouse -> [Variant -> Balance]]
    BY SeenType DEF Commit
  <1>3. cres' \in [Line -> Reservation]
    BY SeenType DEF Commit
  <1>4. cstock' \in [Variant -> [Warehouse -> Nat]]
    BY DEF Commit, TypeOK
  <1>5. held' \in [Session -> SUBSET Row]
    BY DEF Commit, TypeOK
  <1> QED
    BY <1>1, <1>2, <1>3, <1>4, <1>5 DEF Commit, TypeOK, UnchangedEnv

LEMMA RollbackTypeOK ==
  ASSUME TypeOK, NEW p \in Session, Rollback(p) PROVE TypeOK'
  <1>1. tx' \in [Session -> Tx]
    BY StepType, IdleType DEF Rollback
  <1>2. bal' \in [Warehouse -> [Variant -> Balance]]
    BY DEF Rollback, TypeOK
  <1>3. res' \in [Line -> Reservation]
    BY DEF Rollback, TypeOK
  <1>4. stock' \in [Variant -> [Warehouse -> Nat]]
    BY DEF Rollback, TypeOK
  <1>5. held' \in [Session -> SUBSET Row]
    BY DEF Rollback, TypeOK
  <1>6. sweep' \subseteq Snapshot
    BY DEF Rollback, TypeOK
  <1> QED
    BY <1>1, <1>2, <1>3, <1>4, <1>5, <1>6 DEF Rollback, TypeOK

LEMMA SumAvailableTypeOK ==
  ASSUME TypeOK, NEW p \in Session, SumAvailable(p) PROVE TypeOK'
  <1> DEFINE t == tx[p]
             seen == [w \in Warehouse |->
                        IF w \in Active THEN SeenBal(p, w, t.v).available ELSE 0]
  <1>1. t \in Tx
    BY DEF TypeOK
  <1>2. seen \in [Warehouse -> Nat]
    BY <1>1, SeenType, SMTT(40) DEF Tx, Balance
  <1>3. [t EXCEPT !.pc = "set", !.seen = seen] \in Tx
    BY <1>1, <1>2 DEF Tx, PC
  <1>4. tx' \in [Session -> Tx]
    BY <1>3, StepType DEF SumAvailable
  <1> QED
    BY <1>4 DEF SumAvailable, TypeOK, UnchangedEnv, rows

LEMMA SetStockTypeOK ==
  ASSUME TypeOK, NEW p \in Session, SetStock(p) PROVE TypeOK'
  <1>1. tx[p] \in Tx
    BY DEF TypeOK
  <1>2. tx' \in [Session -> Tx]
    BY <1>1, StepType, AgainType DEF SetStock
  <1>3. StockRow(tx[p].v) \in Row
    BY <1>1 DEF Tx, Row
  <1>4. held' \in [Session -> SUBSET Row]
    BY <1>3, LockType DEF SetStock
  <1>5. stock' \in [Variant -> [Warehouse -> Nat]]
    BY <1>1 DEF SetStock, TypeOK, Tx
  <1> QED
    BY <1>2, <1>4, <1>5 DEF SetStock, TypeOK, UnchangedEnv

LEMMA NextReleaseTypeOK ==
  ASSUME TypeOK, NEW p \in Session, NextRelease(p) PROVE TypeOK'
  <1> DEFINE t == tx[p]
  <1>1. t \in Tx
    BY DEF TypeOK
  <1>2. PICK r \in t.rel :
          Step(p, [t EXCEPT !.pc = "claim", !.rel = @ \ {r}, !.l = r.l, !.w = r.w,
                            !.v = VariantOf[r.l], !.q = r.q])
    BY DEF NextRelease
  <1>3. r \in Snapshot
    BY <1>1 DEF Tx
  <1>4. [t EXCEPT !.pc = "claim", !.rel = @ \ {r}, !.l = r.l, !.w = r.w,
                  !.v = VariantOf[r.l], !.q = r.q] \in Tx
    BY <1>1, <1>3, InventoryAssumption DEF Tx, PC, Snapshot
  <1>5. tx' \in [Session -> Tx]
    BY <1>2, <1>4, StepType
  <1> QED
    BY <1>5 DEF NextRelease, TypeOK, UnchangedEnv, rows

LEMMA ClaimTypeOK ==
  ASSUME TypeOK, NEW p \in Session, Claim(p) PROVE TypeOK'
  <1> DEFINE t == tx[p]
  <1>1. t \in Tx /\ t.l \in Line
    BY DEF TypeOK, Tx
  <1>2. [t EXCEPT !.pc = "free"] \in Tx
    BY <1>1 DEF Tx, PC
  <1>3. tx' \in [Session -> Tx]
    BY <1>1, <1>2, StepType, AgainType DEF Claim
  <1>4. ResRow(t.l) \in Row
    BY <1>1 DEF Row
  <1>5. held' \in [Session -> SUBSET Row]
    BY <1>4, LockType DEF Claim, TypeOK
  <1>6. res' \in [Line -> Reservation]
    <2> DEFINE r == [res[t.l] EXCEPT !.status = ReleasedStatus(t.op)]
    <2>1. res[t.l] \in Reservation
      BY <1>1 DEF TypeOK
    <2>2. r \in Reservation
      BY <2>1 DEF Reservation, ReleasedStatus, ReservationStatus
    <2>3. res' = res \/ res' = [res EXCEPT ![t.l] = r]
      BY DEF Claim
    <2> HIDE DEF r
    <2> QED
      BY <1>1, <2>2, <2>3 DEF TypeOK
  <1> QED
    BY <1>3, <1>5, <1>6 DEF Claim, TypeOK, UnchangedEnv

LEMMA ReleaseReservedQuantityTypeOK ==
  ASSUME TypeOK, NEW p \in Session, ReleaseReservedQuantity(p) PROVE TypeOK'
  <1> DEFINE t == tx[p]
             b == bal[t.w][t.v]
             n == [b EXCEPT !.reserved = @ - t.q, !.available = @ + t.q]
  <1>1. t \in Tx /\ t.w \in Warehouse /\ t.v \in Variant /\ t.q \in Nat
    BY DEF TypeOK, Tx
  <1>2. b \in Balance
    BY <1>1 DEF TypeOK
  <1>3. b.reserved >= t.q => n \in Balance
    BY <1>1, <1>2, FreedBalance
  <1>4. /\ bal' \in [Warehouse -> [Variant -> Balance]]
        /\ held' \in [Session -> SUBSET Row]
    <2>1. CASE b.reserved >= t.q /\ SetBal(p, n)
      BY <2>1, <1>3, SetBalType
    <2>2. CASE UNCHANGED <<bal, held>>
      BY <2>2 DEF TypeOK
    <2> QED
      BY <2>1, <2>2 DEF ReleaseReservedQuantity
  <1>5. [t EXCEPT !.pc = IF t.pc = "free" THEN "sum" ELSE "save"] \in Tx
    BY <1>1 DEF Tx, PC
  <1>6. tx' \in [Session -> Tx]
    BY <1>5, StepType DEF ReleaseReservedQuantity
  <1> QED
    BY <1>4, <1>6 DEF ReleaseReservedQuantity, TypeOK, UnchangedEnv

LEMMA BeginReserveTypeOK ==
  ASSUME TypeOK, NEW p \in Session, NEW c \in Cart, NEW want \in Wants(c),
         BeginReserve(p, c, want)
  PROVE  TypeOK'
  <1> DEFINE rel == ActiveOf(p, c, {l \in Line : want[l] = 0})
  <1>1. PICK dw \in SalesWarehouse :
          Step(p, [Idle EXCEPT !.op = "reserve", !.pc = "next", !.rel = rel,
                               !.want = want, !.dw = dw])
    BY DEF BeginReserve
  <1>2. rel \subseteq Snapshot
    BY ActiveOfType
  <1>3. want \in [Line -> Nat]
    BY InventoryAssumption DEF Wants
  <1>4. dw \in Warehouse
    BY DEF SalesWarehouse, Active
  <1> HIDE DEF rel
  <1>5. [Idle EXCEPT !.op = "reserve", !.pc = "next", !.rel = rel,
                     !.want = want, !.dw = dw] \in Tx
    BY <1>2, <1>3, <1>4, IdleType DEF Tx, PC, AllOps
  <1>6. tx' \in [Session -> Tx]
    BY <1>1, <1>5, StepType
  <1>7. held' \in [Session -> SUBSET Row]
    BY LockType DEF BeginReserve, Row
  <1> QED
    BY <1>6, <1>7 DEF BeginReserve, TypeOK, UnchangedEnv, rows

LEMMA ReadLineTypeOK ==
  ASSUME TypeOK, NEW p \in Session, NEW l \in Line, ReadLine(p, l) PROVE TypeOK'
  <1> DEFINE t == tx[p]
             r == SeenRes(p, l)
             current == IF r.status = "ACTIVE" THEN r.q ELSE 0
             delta == IF t.want[l] > current THEN t.want[l] - current
                      ELSE current - t.want[l]
             pc == IF t.want[l] > current THEN "take"
                   ELSE IF t.want[l] < current THEN "give" ELSE "save"
  <1>1. t \in Tx /\ t.want \in [Line -> Nat] /\ t.dw \in Warehouse
    BY DEF TypeOK, Tx
  <1>2. r.w \in Warehouse /\ r.q \in Nat
    BY SeenType DEF Reservation
  <1>3. current \in Nat /\ t.want[l] \in Nat
    BY <1>1, <1>2
  <1>4. delta \in Nat
    BY <1>3
  <1>5. VariantOf[l] \in Variant
    BY InventoryAssumption
  <1>6. \/ Step(p, [t EXCEPT !.pc = "claim", !.l = l, !.w = r.w,
                             !.v = VariantOf[l], !.q = r.q])
        \/ Step(p, [t EXCEPT !.pc = pc, !.l = l, !.w = t.dw,
                             !.v = VariantOf[l], !.q = delta])
    BY DEF ReadLine
  <1>7. pc \in PC
    BY DEF PC
  <1> HIDE DEF r, delta, pc
  <1>8. /\ [t EXCEPT !.pc = "claim", !.l = l, !.w = r.w,
                     !.v = VariantOf[l], !.q = r.q] \in Tx
        /\ [t EXCEPT !.pc = pc, !.l = l, !.w = t.dw,
                     !.v = VariantOf[l], !.q = delta] \in Tx
    BY <1>1, <1>2, <1>4, <1>5, <1>7 DEF Tx, PC
  <1>9. tx' \in [Session -> Tx]
    BY <1>6, <1>8, StepType
  <1> QED
    BY <1>9 DEF ReadLine, TypeOK, UnchangedEnv, rows

LEMMA TakeAvailableTypeOK ==
  ASSUME TypeOK, NEW p \in Session, TakeAvailable(p) PROVE TypeOK'
  <1> DEFINE t == tx[p]
             b == bal[t.w][t.v]
  <1>1. t \in Tx /\ t.w \in Warehouse /\ t.v \in Variant /\ t.q \in Nat
    BY DEF TypeOK, Tx
  <1>2. b \in Balance
    BY <1>1 DEF TypeOK
  <1>3. /\ bal' \in [Warehouse -> [Variant -> Balance]]
        /\ held' \in [Session -> SUBSET Row]
    BY <1>1, <1>2, TakenBalance, SetBalType DEF TakeAvailable
  <1>4. [t EXCEPT !.pc = "save"] \in Tx
    BY <1>1 DEF Tx, PC
  <1>5. tx' \in [Session -> Tx]
    BY <1>4, StepType DEF TakeAvailable
  <1> QED
    BY <1>3, <1>5 DEF TakeAvailable, TypeOK, UnchangedEnv

LEMMA SaveReservationTypeOK ==
  ASSUME TypeOK, NEW p \in Session, SaveReservation(p) PROVE TypeOK'
  <1> DEFINE t == tx[p]
             kept == [t EXCEPT !.pc = "sum", !.want = [@ EXCEPT ![t.l] = 0]]
             r == [status |-> "ACTIVE", w |-> t.w, q |-> t.want[t.l], due |-> FALSE]
  <1>1. t \in Tx /\ t.l \in Line /\ t.w \in Warehouse /\ t.want \in [Line -> Nat]
    BY DEF TypeOK, Tx
  <1>2. kept \in Tx
    BY <1>1 DEF Tx, PC
  <1>3. r \in Reservation
    BY <1>1 DEF Reservation, ReservationStatus
  <1>4. res' \in [Line -> Reservation]
    BY <1>1, <1>3 DEF SaveReservation, TypeOK
  <1>5. ResRow(t.l) \in Row
    BY <1>1 DEF Row
  <1>6. held' \in [Session -> SUBSET Row]
    BY <1>5, LockType DEF SaveReservation
  <1>7. tx' \in [Session -> Tx]
    BY <1>2, StepType, AgainType DEF SaveReservation
  <1> QED
    BY <1>4, <1>6, <1>7 DEF SaveReservation, TypeOK, UnchangedEnv

LEMMA BeginReleaseTypeOK ==
  ASSUME TypeOK, NEW p \in Session, NEW c \in Cart,
         BeginRelease(p, c) \/ BeginAbandon(p, c)
  PROVE  TypeOK'
  <1> DEFINE rel == ActiveOf(p, c, Line)
  <1>1. rel \subseteq Snapshot
    BY ActiveOfType
  <1>2. PICK op \in {"release", "abandon"} :
          Step(p, [Idle EXCEPT !.op = op, !.pc = "next", !.rel = rel])
    BY DEF BeginRelease, BeginAbandon
  <1> HIDE DEF rel
  <1>3. [Idle EXCEPT !.op = op, !.pc = "next", !.rel = rel] \in Tx
    BY <1>1, IdleType DEF Tx, PC, AllOps
  <1>4. tx' \in [Session -> Tx]
    BY <1>2, <1>3, StepType
  <1>5. CartRow(c) \in Row
    BY DEF Row
  <1>6. held' \in [Session -> SUBSET Row]
    BY <1>5, LockType DEF BeginRelease, BeginAbandon, TypeOK
  <1> QED
    BY <1>4, <1>6 DEF BeginRelease, BeginAbandon, TypeOK, UnchangedEnv, rows

LEMMA TickTypeOK ==
  ASSUME TypeOK, NEW l \in Line, Tick(l) PROVE TypeOK'
  <1>0. /\ \A r \in Reservation : [r EXCEPT !.due = TRUE] \in Reservation
        /\ res \in [Line -> Reservation] /\ cres \in [Line -> Reservation]
    <2>1. \A r \in Reservation : [r EXCEPT !.due = TRUE] \in Reservation
      BY DEF Reservation
    <2> QED
      BY <2>1 DEF TypeOK
  <1>1. /\ [res[l] EXCEPT !.due = TRUE] \in Reservation
        /\ [cres[l] EXCEPT !.due = TRUE] \in Reservation
    BY <1>0
  <1>2. res' \in [Line -> Reservation] /\ cres' \in [Line -> Reservation]
    BY <1>0, <1>1 DEF Tick
  <1> QED
    BY <1>2 DEF Tick, TypeOK, UnchangedEnv

LEMMA ReadExpiredTypeOK ==
  ASSUME TypeOK, ReadExpired PROVE TypeOK'
  <1>1. sweep' \subseteq Snapshot
    BY DEF ReadExpired, TypeOK, Snapshot, Reservation
  <1> QED
    BY <1>1 DEF ReadExpired, TypeOK, rows

LEMMA BeginExpireTypeOK ==
  ASSUME TypeOK, NEW p \in Session, BeginExpire(p) PROVE TypeOK'
  <1>1. PICK r \in sweep :
          /\ sweep' = sweep \ {r}
          /\ Step(p, [Idle EXCEPT !.op = "expire", !.pc = "next", !.rel = {r}])
    BY DEF BeginExpire
  <1>2. r \in Snapshot /\ sweep' \subseteq Snapshot
    BY <1>1 DEF TypeOK
  <1>3. [Idle EXCEPT !.op = "expire", !.pc = "next", !.rel = {r}] \in Tx
    BY <1>2, IdleType DEF Tx, PC, AllOps
  <1>4. tx' \in [Session -> Tx]
    BY <1>1, <1>3, StepType
  <1> QED
    BY <1>2, <1>4 DEF BeginExpire, TypeOK, rows

LEMMA BeginConsumeTypeOK ==
  ASSUME TypeOK, NEW p \in Session, NEW c \in Cart, NEW want \in Wants(c),
         BeginConsume(p, c, want)
  PROVE  TypeOK'
  <1>1. want \in [Line -> Nat]
    BY InventoryAssumption DEF Wants
  <1>2. [Idle EXCEPT !.op = "consume", !.pc = "next", !.want = want] \in Tx
    BY <1>1, IdleType DEF Tx, PC, AllOps
  <1>3. tx' \in [Session -> Tx]
    BY <1>2, StepType DEF BeginConsume
  <1>4. held' \in [Session -> SUBSET Row]
    BY LockType DEF BeginConsume, Row
  <1> QED
    BY <1>3, <1>4 DEF BeginConsume, TypeOK, UnchangedEnv, rows

\* A line is split into a part its reservation covers and the rest.
LEMMA PartsType ==
  ASSUME TypeOK, NEW p \in Session, NEW l \in Line
  PROVE  /\ ReservedPart(p, l) \in Nat
         /\ DirectPart(p, l) \in Nat
         /\ DirectFrom(p, l) \subseteq Warehouse
  <1>1. tx[p] \in Tx
    BY DEF TypeOK
  <1>2. tx[p].want[l] \in Nat /\ tx[p].dw \in Warehouse
    BY <1>1 DEF Tx
  <1>3. SeenRes(p, l).q \in Nat
    BY SeenType DEF Reservation
  <1>4. ReservedPart(p, l) \in Nat /\ ReservedPart(p, l) <= tx[p].want[l]
    BY <1>2, <1>3 DEF ReservedPart
  <1>5. DirectPart(p, l) \in Nat
    BY <1>2, <1>4 DEF DirectPart
  <1>6. DirectFrom(p, l) \subseteq Warehouse
    BY <1>2 DEF DirectFrom, SalesWarehouse, Active
  <1> QED
    BY <1>4, <1>5, <1>6

LEMMA ReadHoldTypeOK ==
  ASSUME TypeOK, NEW p \in Session, NEW l \in Line, ReadHold(p, l) PROVE TypeOK'
  <1> DEFINE t == tx[p]
             r == SeenRes(p, l)
             reserved == ReservedPart(p, l)
             direct == DirectPart(p, l)
             pc == IF reserved > 0 THEN "mark" ELSE "sellDirect"
             left == r.q - reserved
  <1>1. PICK dw \in DirectFrom(p, l) :
          Step(p, [t EXCEPT !.pc = pc, !.l = l, !.v = VariantOf[l], !.dw = dw,
                            !.w = IF reserved > 0 THEN r.w ELSE dw,
                            !.q = reserved, !.a = direct, !.d = left,
                            !.want = [@ EXCEPT ![l] = 0]])
    BY DEF ReadHold
  <1>2. t \in Tx /\ t.want \in [Line -> Nat]
    BY DEF TypeOK, Tx
  <1>3. r.w \in Warehouse /\ r.q \in Nat
    BY SeenType DEF Reservation
  <1>4. reserved \in Nat /\ direct \in Nat /\ dw \in Warehouse
    BY PartsType
  <1>5. left \in Int
    BY <1>3, <1>4
  <1>6. pc \in PC
    BY DEF PC
  <1>7. VariantOf[l] \in Variant
    BY InventoryAssumption
  <1> DEFINE w == IF reserved > 0 THEN r.w ELSE dw
  <1>8. w \in Warehouse
    BY <1>3, <1>4
  <1> HIDE DEF r, reserved, direct, pc, left, w
  <1>9. [t EXCEPT !.pc = pc, !.l = l, !.v = VariantOf[l], !.dw = dw, !.w = w,
                  !.q = reserved, !.a = direct, !.d = left,
                  !.want = [@ EXCEPT ![l] = 0]] \in Tx
    BY <1>2, <1>4, <1>5, <1>6, <1>7, <1>8 DEF Tx
  <1>10. tx' \in [Session -> Tx]
    BY <1>1, <1>9, StepType DEF w
  <1> QED
    BY <1>10 DEF ReadHold, TypeOK, UnchangedEnv, rows

LEMMA MarkConsumedTypeOK ==
  ASSUME TypeOK, NEW p \in Session, MarkConsumed(p) PROVE TypeOK'
  <1> DEFINE t == tx[p]
             r == IF t.d > 0 THEN [res[t.l] EXCEPT !.q = t.d]
                  ELSE [res[t.l] EXCEPT !.status = "CONSUMED"]
  <1>1. t \in Tx /\ t.l \in Line /\ t.d \in Int
    BY DEF TypeOK, Tx
  <1>2. res[t.l] \in Reservation
    BY <1>1 DEF TypeOK
  <1>3. r \in Reservation
    BY <1>1, <1>2 DEF Reservation, ReservationStatus
  <1>4. res' = [res EXCEPT ![t.l] = r]
    BY DEF MarkConsumed
  <1> HIDE DEF r
  <1>5. res' \in [Line -> Reservation]
    BY <1>1, <1>3, <1>4 DEF TypeOK
  <1>6. ResRow(t.l) \in Row
    BY <1>1 DEF Row
  <1>7. held' \in [Session -> SUBSET Row]
    BY <1>6, LockType DEF MarkConsumed
  <1>8. [t EXCEPT !.pc = "sellReserved"] \in Tx
    BY <1>1 DEF Tx, PC
  <1>9. tx' \in [Session -> Tx]
    BY <1>8, StepType DEF MarkConsumed
  <1> QED
    BY <1>5, <1>7, <1>9 DEF MarkConsumed, TypeOK, UnchangedEnv

LEMMA SellReservedTypeOK ==
  ASSUME TypeOK, NEW p \in Session, SellReserved(p) PROVE TypeOK'
  <1> DEFINE t == tx[p]
             b == bal[t.w][t.v]
             pc == IF t.a > 0 THEN "sellDirect" ELSE "sum"
  <1>1. /\ t \in Tx /\ t.w \in Warehouse /\ t.dw \in Warehouse /\ t.v \in Variant
        /\ t.q \in Nat /\ 0 \in Nat
    BY DEF TypeOK, Tx
  <1>2. b \in Balance
    BY <1>1 DEF TypeOK
  <1>3. Sell(b, t.q, t.q, 0) \in Balance
    BY <1>1, <1>2, SoldBalance DEF SellReserved
  <1>4. /\ bal' \in [Warehouse -> [Variant -> Balance]]
        /\ held' \in [Session -> SUBSET Row]
    BY <1>3, SetBalType DEF SellReserved
  <1>5. pc \in PC
    BY DEF PC
  <1>6. [t EXCEPT !.pc = pc, !.w = t.dw] \in Tx
    BY <1>1, <1>5 DEF Tx
  <1>7. tx' \in [Session -> Tx]
    BY <1>6, StepType DEF SellReserved
  <1> QED
    BY <1>4, <1>7 DEF SellReserved, TypeOK, UnchangedEnv

LEMMA SellDirectTypeOK ==
  ASSUME TypeOK, NEW p \in Session, SellDirect(p) PROVE TypeOK'
  <1> DEFINE t == tx[p]
             b == bal[t.w][t.v]
  <1>1. t \in Tx /\ t.w \in Warehouse /\ t.v \in Variant /\ t.a \in Nat /\ 0 \in Nat
    BY DEF TypeOK, Tx
  <1>2. b \in Balance
    BY <1>1 DEF TypeOK
  <1>3. Sell(b, t.a, 0, t.a) \in Balance
    BY <1>1, <1>2, SoldBalance DEF SellDirect
  <1>4. /\ bal' \in [Warehouse -> [Variant -> Balance]]
        /\ held' \in [Session -> SUBSET Row]
    BY <1>3, SetBalType DEF SellDirect
  <1>5. [t EXCEPT !.pc = "sum"] \in Tx
    BY <1>1 DEF Tx, PC
  <1>6. tx' \in [Session -> Tx]
    BY <1>5, StepType DEF SellDirect
  <1> QED
    BY <1>4, <1>6 DEF SellDirect, TypeOK, UnchangedEnv

LEMMA BeginAdjustTypeOK ==
  ASSUME TypeOK, NEW p \in Session, NEW w \in Warehouse, NEW v \in Variant,
         NEW d \in Int, BeginAdjust(p, w, v, d)
  PROVE  TypeOK'
  <1> DEFINE b == cbal[w][v]
             onHand == b.onHand + d
             available == onHand - b.reserved
  <1>1. b \in Balance
    BY DEF TypeOK
  <1>2. onHand >= b.reserved
    BY DEF BeginAdjust
  <1>3. onHand \in Nat /\ available \in Nat
    BY <1>1, <1>2 DEF Balance
  <1>4. Step(p, [Idle EXCEPT !.op = "adjust", !.pc = "upsert", !.w = w, !.v = v,
                             !.q = onHand, !.a = available, !.d = d])
    BY DEF BeginAdjust
  <1> HIDE DEF onHand, available
  <1>5. [Idle EXCEPT !.op = "adjust", !.pc = "upsert", !.w = w, !.v = v,
                     !.q = onHand, !.a = available, !.d = d] \in Tx
    BY <1>3, IdleType DEF Tx, PC, AllOps
  <1>6. tx' \in [Session -> Tx]
    BY <1>4, <1>5, StepType
  <1> QED
    BY <1>6 DEF BeginAdjust, TypeOK, UnchangedEnv, rows

LEMMA UpsertBalanceTypeOK ==
  ASSUME TypeOK, NEW p \in Session, UpsertBalance(p) PROVE TypeOK'
  <1> DEFINE t == tx[p]
             b == bal[t.w][t.v]
  <1>1. /\ t \in Tx /\ t.w \in Warehouse /\ t.v \in Variant
        /\ t.q \in Nat /\ t.a \in Nat /\ t.d \in Int
    BY DEF TypeOK, Tx
  <1>2. b \in Balance
    BY <1>1 DEF TypeOK
  <1>3. [b EXCEPT !.onHand = t.q, !.available = t.a, !.moved = @ + t.d] \in Balance
    BY <1>1, <1>2, WrittenBalance
  <1>4. /\ bal' \in [Warehouse -> [Variant -> Balance]]
        /\ held' \in [Session -> SUBSET Row]
    BY <1>3, SetBalType DEF UpsertBalance
  <1>5. [t EXCEPT !.pc = "sum"] \in Tx
    BY <1>1 DEF Tx, PC
  <1>6. tx' \in [Session -> Tx]
    BY <1>5, StepType DEF UpsertBalance
  <1> QED
    BY <1>4, <1>6 DEF UpsertBalance, TypeOK, UnchangedEnv

LEMMA ChangeWarehouseTypeOK ==
  ASSUME TypeOK, ChangeWarehouse PROVE TypeOK'
  <1>1. PICK w \in Warehouse :
          \/ \E status \in {"ACTIVE", "DISABLED"}, isDefault \in BOOLEAN :
                CreateWarehouse(w, status, isDefault)
          \/ \E status \in {"ACTIVE", "DISABLED", "KEEP"},
                isDefault \in {"YES", "NO", "KEEP"} :
                UpdateWarehouse(w, status, isDefault)
          \/ RemoveWarehouse(w)
    BY DEF ChangeWarehouse
  <1>2. ASSUME NEW status \in {"ACTIVE", "DISABLED"}, NEW isDefault \in BOOLEAN,
               CreateWarehouse(w, status, isDefault)
        PROVE  TypeOK'
    BY <1>2 DEF CreateWarehouse, TypeOK, WarehouseStatus, rows
  <1>3. ASSUME NEW status \in {"ACTIVE", "DISABLED", "KEEP"},
               NEW isDefault \in {"YES", "NO", "KEEP"},
               UpdateWarehouse(w, status, isDefault)
        PROVE  TypeOK'
    <2>1. wh' \in [Warehouse -> WarehouseStatus]
      BY <1>3 DEF UpdateWarehouse, TypeOK, WarehouseStatus
    <2>2. dflt' \subseteq Warehouse /\ resync' \subseteq Warehouse
      BY <1>3 DEF UpdateWarehouse, TypeOK
    <2> QED
      BY <1>3, <2>1, <2>2 DEF UpdateWarehouse, TypeOK, rows
  <1>4. CASE RemoveWarehouse(w)
    BY <1>4 DEF RemoveWarehouse, TypeOK, WarehouseStatus, rows
  <1> QED
    BY <1>1, <1>2, <1>3, <1>4

LEMMA BeginResyncTypeOK ==
  ASSUME TypeOK, NEW p \in Session, NEW w \in Warehouse, NEW vs \in SUBSET Variant,
         BeginResync(p, w, vs)
  PROVE  TypeOK'
  <1>1. [Idle EXCEPT !.op = "warehouse", !.pc = "next", !.vs = vs] \in Tx
    BY IdleType DEF Tx, PC, AllOps
  <1>2. tx' \in [Session -> Tx]
    BY <1>1, StepType DEF BeginResync
  <1> QED
    BY <1>2 DEF BeginResync, TypeOK, rows

LEMMA NextResyncTypeOK ==
  ASSUME TypeOK, NEW p \in Session, NextResync(p) PROVE TypeOK'
  <1> DEFINE t == tx[p]
  <1>1. t \in Tx
    BY DEF TypeOK
  <1>2. PICK v \in t.vs : Step(p, [t EXCEPT !.pc = "sum", !.v = v, !.vs = @ \ {v}])
    BY DEF NextResync
  <1>3. [t EXCEPT !.pc = "sum", !.v = v, !.vs = @ \ {v}] \in Tx
    BY <1>1 DEF Tx, PC
  <1>4. tx' \in [Session -> Tx]
    BY <1>2, <1>3, StepType
  <1> QED
    BY <1>4 DEF NextResync, TypeOK, UnchangedEnv, rows

----------------------------------------------------------------------------
(* The theorems *)

LEMMA InitTypeOK == ASSUME Init PROVE TypeOK
  <1>1. \A w \in Warehouse : OpeningStock(w) \in Nat
    BY InventoryAssumption DEF OpeningStock
  <1>2. bal \in [Warehouse -> [Variant -> Balance]]
    BY <1>1 DEF Init, Balance
  <1>3. Idle.w \in Warehouse
    BY IdleType DEF Tx
  <1>4. res \in [Line -> Reservation]
    BY <1>3 DEF Init, Reservation, ReservationStatus
  <1>5. stock \in [Variant -> [Warehouse -> Nat]]
    BY <1>1 DEF Init
  <1>6. tx \in [Session -> Tx]
    BY IdleType DEF Init
  <1>7. wh \in [Warehouse -> WarehouseStatus]
    BY DEF Init, WarehouseStatus
  <1>8. dflt \subseteq Warehouse
    BY InventoryAssumption DEF Init
  <1>9. held \in [Session -> SUBSET Row] /\ resync \subseteq Warehouse
        /\ sweep \subseteq Snapshot
    BY DEF Init
  <1> QED
    BY <1>2, <1>4, <1>5, <1>6, <1>7, <1>8, <1>9 DEF Init, TypeOK

\* Every statement of every session keeps the rows and transactions well typed.
LEMMA NextTypeOK == ASSUME TypeOK, [Next]_vars PROVE TypeOK'
  <1>1. ASSUME NEW p \in Session, Begin(p) PROVE TypeOK'
    <2>1. \A d \in -MaxStock..MaxStock : d \in Int
      BY InventoryAssumption
    <2> QED
      BY <1>1, <2>1, BeginReserveTypeOK, BeginConsumeTypeOK, BeginReleaseTypeOK,
         BeginAdjustTypeOK DEF Begin
  <1>2. ASSUME NEW p \in Session, BeginJob(p) PROVE TypeOK'
    BY <1>2, BeginExpireTypeOK, BeginResyncTypeOK DEF BeginJob
  <1>3. ASSUME NEW p \in Session, Proceed(p) PROVE TypeOK'
    <2>1. Throw(p) => Rollback(p)
      BY DEF Throw
    <2>2. DeadlockVictim(p) => Rollback(p)
      BY DEF DeadlockVictim
    <2> QED
      BY <1>3, <2>1, <2>2, NextReleaseTypeOK, ClaimTypeOK,
         ReleaseReservedQuantityTypeOK, ReadLineTypeOK, ReadHoldTypeOK,
         TakeAvailableTypeOK, SaveReservationTypeOK, MarkConsumedTypeOK,
         SellReservedTypeOK, SellDirectTypeOK, UpsertBalanceTypeOK,
         NextResyncTypeOK, SumAvailableTypeOK, SetStockTypeOK, CommitTypeOK,
         RollbackTypeOK DEF Proceed
  <1>4. ASSUME NEW p \in Session, Crash(p) PROVE TypeOK'
    BY <1>4, RollbackTypeOK DEF Crash
  <1>5. CASE \E l \in Line : Tick(l)
    BY <1>5, TickTypeOK
  <1>6. CASE ReadExpired
    BY <1>6, ReadExpiredTypeOK
  <1>7. CASE ChangeWarehouse
    BY <1>7, ChangeWarehouseTypeOK
  <1>8. CASE UNCHANGED vars
    BY <1>8 DEF vars, TypeOK
  <1> QED
    BY <1>1, <1>2, <1>3, <1>4, <1>5, <1>6, <1>7, <1>8 DEF Next

\* No interleaving of reservations, releases, sales, adjustments and sweeps drives
\* a quantity of a balance row below zero: the guards in the WHERE clauses of
\* reserveCartLine, releaseReservedQuantity and consumeStockBalance suffice.
THEOREM InventoryTypeOK == Spec => []TypeOK
  <1>1. Init => TypeOK
    BY InitTypeOK
  <1>2. TypeOK /\ [Next]_vars => TypeOK'
    BY NextTypeOK
  <1> QED
    BY <1>1, <1>2, PTL DEF Spec

----------------------------------------------------------------------------
(* The balance equation and the journal, as long as no adjustment by hand *)
(* runs at the same time as another transaction.                          *)

Squares(b) == b.onHand = b.reserved + b.available /\ b.onHand = b.moved

AllSquare(f) == \A w \in Warehouse, v \in Variant : Squares(f[w][v])

\* One session at most: no two transactions are open at the same time.
Sole == \A p, o \in Session : p = o

\* A row nobody has locked has one version.
Settled ==
    \A w \in Warehouse, v \in Variant :
        (\A p \in Session : BalRow(w, v) \notin held[p]) => bal[w][v] = cbal[w][v]

\* The absolute values p is about to write are those of the row it is going to
\* write them to: what adjustStock read is still true.
Prepared(p) ==
    LET t == tx[p]
        b == bal[t.w][t.v] IN
    t.q = b.onHand + t.d /\ t.q = b.reserved + t.a

\* BalanceEquation and JournalAccounts are not inductive: COMMIT publishes the
\* latest version of a row, so that version has to satisfy them too, and
\* adjustStock writes what it computed from the committed version it read, so
\* that has to be the latest one still.
SquareInv == /\ TypeOK /\ AllSquare(bal) /\ AllSquare(cbal) /\ Settled
             /\ \A p \in Session : tx[p].pc = "idle" => held[p] = {}
             /\ \A p \in Session : tx[p].pc = "upsert" => Sole /\ Prepared(p)

\* The three conditional updates keep a row square, and so does the absolute
\* write of what was computed from the row itself.
LEMMA StatementsSquare ==
  ASSUME NEW b \in Balance, Squares(b), NEW q \in Nat
  PROVE  /\ Squares([b EXCEPT !.reserved = @ - q, !.available = @ + q])
         /\ Squares([b EXCEPT !.reserved = @ + q, !.available = @ - q])
         /\ Squares(Sell(b, q, q, 0))
         /\ Squares(Sell(b, q, 0, q))
         /\ \A a \in Nat, d \in Int :
               q = b.onHand + d /\ q = b.reserved + a
                  => Squares([b EXCEPT !.onHand = q, !.available = a, !.moved = @ + d])
  BY DEF Squares, Balance, Sell

LEMMA SetBalSquare ==
  ASSUME SquareInv, NEW p \in Session, NEW b, Squares(b), SetBal(p, b)
  PROVE  AllSquare(bal')
  <1>1. tx[p].w \in Warehouse /\ tx[p].v \in Variant
    BY DEF SquareInv, TypeOK, Tx
  <1> QED
    BY <1>1 DEF SquareInv, TypeOK, AllSquare, SetBal

\* The statements other than the three leave the latest versions alone; COMMIT and
\* ROLLBACK copy rows between the two.
LEMMA EndSquare ==
  ASSUME SquareInv, NEW p \in Session, Commit(p) \/ Rollback(p)
  PROVE  AllSquare(bal') /\ AllSquare(cbal')
  <1>1. CASE Commit(p)
    BY <1>1 DEF Commit, SquareInv, AllSquare, SeenBal
  <1>2. CASE Rollback(p)
    BY <1>2 DEF Rollback, SquareInv, AllSquare
  <1> QED
    BY <1>1, <1>2

LEMMA ProceedSquare ==
  ASSUME SquareInv, NEW p \in Session, Proceed(p)
  PROVE  AllSquare(bal') /\ AllSquare(cbal')
  <1> DEFINE t == tx[p]
             b == bal[t.w][t.v]
  <1>1. t.w \in Warehouse /\ t.v \in Variant /\ t.q \in Nat /\ t.a \in Nat /\ t.d \in Int
    BY DEF SquareInv, TypeOK, Tx
  <1>2. b \in Balance /\ Squares(b)
    BY <1>1, SMTT(40) DEF SquareInv, TypeOK, AllSquare
  <1>3. CASE ReleaseReservedQuantity(p)
    <2>1. cbal' = cbal
      BY <1>3 DEF ReleaseReservedQuantity
    <2>2. bal' = bal \/ SetBal(p, [b EXCEPT !.reserved = @ - t.q, !.available = @ + t.q])
      BY <1>3, SMTT(40) DEF ReleaseReservedQuantity
    <2> QED
      BY <1>1, <1>2, <2>1, <2>2, StatementsSquare, SetBalSquare DEF SquareInv
  <1>4. CASE TakeAvailable(p)
    BY <1>1, <1>2, <1>4, StatementsSquare, SetBalSquare, ZenonT(60) DEF SquareInv, TakeAvailable
  <1>5. CASE SellReserved(p)
    BY <1>1, <1>2, <1>5, StatementsSquare, SetBalSquare, ZenonT(60) DEF SquareInv, SellReserved
  <1>6. CASE SellDirect(p)
    BY <1>1, <1>2, <1>6, StatementsSquare, SetBalSquare, ZenonT(60) DEF SquareInv, SellDirect
  <1>7. CASE UpsertBalance(p)
    <2>1. t.q = b.onHand + t.d /\ t.q = b.reserved + t.a
      BY <1>7 DEF SquareInv, UpsertBalance, Prepared
    <2>2. /\ SetBal(p, [b EXCEPT !.onHand = t.q, !.available = t.a, !.moved = @ + t.d])
          /\ cbal' = cbal
      BY <1>7 DEF UpsertBalance
    <2> QED
      BY <1>1, <1>2, <2>1, <2>2, StatementsSquare, SetBalSquare DEF SquareInv
  <1>8. CASE Commit(p) \/ Rollback(p)
    BY <1>8, EndSquare, SMTT(40)
  <1>9. ASSUME \/ NextRelease(p) \/ Claim(p) \/ SaveReservation(p) \/ MarkConsumed(p)
               \/ NextResync(p) \/ SumAvailable(p) \/ SetStock(p)
               \/ \E l \in Line : ReadLine(p, l) \/ ReadHold(p, l)
        PROVE  bal' = bal /\ cbal' = cbal
    BY <1>9 DEF NextRelease, Claim, SaveReservation, MarkConsumed, NextResync,
                SumAvailable, SetStock, ReadLine, ReadHold, rows
  <1>10. (bal' = bal /\ cbal' = cbal) => AllSquare(bal') /\ AllSquare(cbal')
    BY DEF SquareInv
  <1> QED
    BY <1>3, <1>4, <1>5, <1>6, <1>7, <1>8, <1>9, <1>10
       DEF Proceed, Throw, DeadlockVictim

\* A statement locks rows for its own session, and COMMIT and ROLLBACK let go of
\* all of them: a row nobody has locked keeps having one version.
LEMMA ProceedSettled ==
  ASSUME SquareInv, NEW p \in Session, Proceed(p)
  PROVE  Settled' /\ \A o \in Session \ {p} : held'[o] = held[o]
  <1> DEFINE t == tx[p]
  <1>1. /\ t.w \in Warehouse /\ t.v \in Variant /\ held \in [Session -> SUBSET Row]
        /\ bal \in [Warehouse -> [Variant -> Balance]]
    BY DEF SquareInv, TypeOK, Tx
  <1>2. ASSUME NEW row, Lock(p, row) \/ UNCHANGED held, UNCHANGED <<bal, cbal>>
        PROVE  Settled' /\ \A o \in Session \ {p} : held'[o] = held[o]
    BY <1>1, <1>2 DEF Lock, SquareInv, Settled
  <1>3. ASSUME NEW b, SetBal(p, b), UNCHANGED cbal
        PROVE  Settled' /\ \A o \in Session \ {p} : held'[o] = held[o]
    <2>1. /\ \A w \in Warehouse, v \in Variant :
                <<w, v>> # <<t.w, t.v>> => bal'[w][v] = bal[w][v]
          /\ BalRow(t.w, t.v) \in held'[p]
          /\ \A o \in Session : held[o] \subseteq held'[o]
          /\ \A o \in Session \ {p} : held'[o] = held[o]
      BY <1>1, <1>3 DEF SetBal, Lock
    <2> QED
      BY <1>3, <2>1 DEF SquareInv, Settled
  <1>4. CASE ReleaseReservedQuantity(p)
    BY <1>2, <1>3, <1>4 DEF ReleaseReservedQuantity
  <1>5. CASE TakeAvailable(p) \/ SellReserved(p) \/ SellDirect(p) \/ UpsertBalance(p)
    BY <1>3, <1>5 DEF TakeAvailable, SellReserved, SellDirect, UpsertBalance
  <1>6. CASE Commit(p)
    BY <1>1, <1>6 DEF Commit, SeenBal, SquareInv, Settled
  <1>7. CASE Rollback(p)
    BY <1>1, <1>7 DEF Rollback, SquareInv, Settled
  <1>8. CASE \/ NextRelease(p) \/ Claim(p) \/ SaveReservation(p) \/ MarkConsumed(p)
             \/ NextResync(p) \/ SumAvailable(p) \/ SetStock(p)
             \/ \E l \in Line : ReadLine(p, l) \/ ReadHold(p, l)
    <2>1. UNCHANGED <<bal, cbal>>
      BY <1>8, ZenonT(60) DEF NextRelease, Claim, SaveReservation, MarkConsumed, NextResync,
                  SumAvailable, SetStock, ReadLine, ReadHold, rows
    <2>2. Lock(p, ResRow(t.l)) \/ Lock(p, StockRow(t.v)) \/ UNCHANGED held
      BY <1>8 DEF NextRelease, Claim, SaveReservation, MarkConsumed, NextResync,
                  SumAvailable, SetStock, ReadLine, ReadHold
    <2> QED
      BY <1>2, <2>1, <2>2, SMTT(40)
  <1> QED
    BY <1>4, <1>5, <1>6, <1>7, <1>8 DEF Proceed, Throw, DeadlockVictim

\* A session moves on to something else than the absolute write.
LEMMA StepAside ==
  ASSUME SquareInv, NEW p \in Session, NEW u, u.pc # "upsert", Step(p, u),
         u.pc = "idle" => held'[p] = {}, \A o \in Session \ {p} : held'[o] = held[o]
  PROVE  /\ \A o \in Session : tx'[o].pc = "idle" => held'[o] = {}
         /\ \A o \in Session : tx'[o].pc = "upsert" => Sole /\ Prepared(o)'
  <1>1. tx \in [Session -> Tx]
    BY DEF SquareInv, TypeOK
  <1>2. tx'[p] = u /\ \A o \in Session \ {p} : tx'[o] = tx[o]
    BY <1>1 DEF Step
  <1>3. ASSUME NEW o \in Session, tx'[o].pc = "upsert" PROVE FALSE
    <2>1. o # p /\ tx[o].pc = "upsert"
      BY <1>2, <1>3
    <2> QED
      BY <2>1 DEF SquareInv, Sole
  <1> QED
    BY <1>2, <1>3 DEF SquareInv

\* The program counter after an update of the record.
LEMMA AtPc ==
  ASSUME NEW t \in Tx
  PROVE  /\ Idle.pc = "idle"
         /\ Again(t).pc = "next"
  BY DEF Idle, Again

LEMMA AtPcIdle == Idle.pc = "idle"
  BY DEF Idle

LEMMA ProceedNoUpsert ==
  ASSUME SquareInv, NEW p \in Session, Proceed(p)
  PROVE  /\ \A o \in Session : tx'[o].pc = "idle" => held'[o] = {}
         /\ \A o \in Session : tx'[o].pc = "upsert" => Sole /\ Prepared(o)'
  <1> DEFINE t == tx[p]
             Aside(u) == u.pc # "upsert" /\ (u.pc = "idle" => held'[p] = {})
  <1>1. t \in Tx
    BY DEF SquareInv, TypeOK
  <1> SUFFICES \E u : Aside(u) /\ Step(p, u)
    BY StepAside, ProceedSettled
  <1>2. CASE NextRelease(p)
    BY <1>1, <1>2 DEF NextRelease, Tx
  <1>3. CASE Claim(p)
    BY <1>1, <1>3, AtPc DEF Claim, Tx
  <1>4. CASE ReleaseReservedQuantity(p)
    BY <1>1, <1>4 DEF ReleaseReservedQuantity, Tx
  <1>5. ASSUME NEW l \in Line, ReadLine(p, l) PROVE \E u : Aside(u) /\ Step(p, u)
    BY <1>1, <1>5 DEF ReadLine, Tx
  <1>6. ASSUME NEW l \in Line, ReadHold(p, l) PROVE \E u : Aside(u) /\ Step(p, u)
    BY <1>1, <1>6 DEF ReadHold, Tx
  <1>7. CASE TakeAvailable(p)
    BY <1>1, <1>7 DEF TakeAvailable, Tx
  <1>8. CASE SaveReservation(p)
    <2> DEFINE kept == [t EXCEPT !.pc = "sum", !.want = [@ EXCEPT ![t.l] = 0]]
    <2>1. kept.pc = "sum"
      BY <1>1 DEF Tx
    <2>2. Step(p, kept) \/ Step(p, Again(kept))
      BY <1>8 DEF SaveReservation
    <2>3. Again(kept).pc = "next"
      BY DEF Again, Idle
    <2> QED
      BY <2>1, <2>2, <2>3
  <1>9. CASE MarkConsumed(p)
    BY <1>1, <1>9 DEF MarkConsumed, Tx
  <1>10. CASE SellReserved(p)
    BY <1>1, <1>10 DEF SellReserved, Tx
  <1>11. CASE SellDirect(p)
    BY <1>1, <1>11 DEF SellDirect, Tx
  <1>12. CASE UpsertBalance(p)
    BY <1>1, <1>12 DEF UpsertBalance, Tx
  <1>13. CASE NextResync(p)
    BY <1>1, <1>13 DEF NextResync, Tx
  <1>14. CASE SumAvailable(p)
    BY <1>1, <1>14 DEF SumAvailable, Tx
  <1>15. CASE SetStock(p)
    BY <1>1, <1>15, AtPc DEF SetStock
  <1>16. CASE Commit(p) \/ Rollback(p)
    <2>1. held \in [Session -> SUBSET Row]
      BY DEF SquareInv, TypeOK
    <2> QED
      BY <1>1, <1>16, <2>1, AtPc DEF Commit, Rollback
  <1> QED
    BY <1>2, <1>3, <1>4, <1>5, <1>6, <1>7, <1>8, <1>9, <1>10, <1>11, <1>12, <1>13,
       <1>14, <1>15, <1>16 DEF Proceed, Throw, DeadlockVictim

LEMMA OpenedPc ==
  ASSUME NEW t \in Tx, NEW op, NEW rel, NEW want, NEW dw, NEW vs
  PROVE  /\ [t EXCEPT !.op = op, !.pc = "next", !.rel = rel, !.want = want,
                      !.dw = dw].pc = "next"
         /\ [t EXCEPT !.op = op, !.pc = "next", !.want = want].pc = "next"
         /\ [t EXCEPT !.op = op, !.pc = "next", !.rel = rel].pc = "next"
         /\ [t EXCEPT !.op = op, !.pc = "next", !.vs = vs].pc = "next"
  BY DEF Tx

\* Opening a transaction writes no balance, and locks the row of a cart at most.
LEMMA BeginSettled ==
  ASSUME SquareInv, NEW p \in Session, Begin(p) \/ BeginJob(p)
  PROVE  /\ UNCHANGED <<bal, cbal>> /\ Settled'
         /\ \A o \in Session \ {p} : held'[o] = held[o]
  <1>1. held \in [Session -> SUBSET Row]
    BY SMTT(40) DEF SquareInv, TypeOK
  <1>2. UNCHANGED <<bal, cbal>>
    BY ZenonT(60) DEF Begin, BeginJob, BeginReserve, BeginConsume, BeginRelease, BeginAbandon,
           BeginAdjust, BeginExpire, BeginResync, rows
  <1>3. (\E c : Lock(p, CartRow(c))) \/ UNCHANGED held
    BY DEF Begin, BeginJob, BeginReserve, BeginConsume, BeginRelease, BeginAbandon,
           BeginAdjust, BeginExpire, BeginResync
  <1> QED
    BY <1>1, <1>2, <1>3 DEF Lock, SquareInv, Settled

\* With one session nothing is locked when adjustStock reads, so what it reads is
\* the latest version of the row.
LEMMA AdjustPrepared ==
  ASSUME Sole, SquareInv, NEW p \in Session, NEW w \in Warehouse, NEW v \in Variant,
         NEW d \in -MaxStock..MaxStock, BeginAdjust(p, w, v, d)
  PROVE  /\ \A o \in Session : tx'[o].pc = "idle" => held'[o] = {}
         /\ \A o \in Session : tx'[o].pc = "upsert" => Sole /\ Prepared(o)'
  <1> DEFINE b == cbal[w][v]
             next == b.onHand + d
             left == next - b.reserved
             u == [Idle EXCEPT !.op = "adjust", !.pc = "upsert", !.w = w, !.v = v,
                               !.q = next, !.a = left, !.d = d]
  <1>0. Step(p, [Idle EXCEPT !.op = "adjust", !.pc = "upsert", !.w = w, !.v = v,
                             !.q = next, !.a = left, !.d = d])
    BY DEF BeginAdjust
  <1>1. held' = held /\ bal' = bal /\ tx[p].pc = "idle" /\ Step(p, u)
    <2>1. UNCHANGED <<rows, held>> /\ tx[p].pc = "idle"
      BY DEF BeginAdjust
    <2>2. Step(p, u)
      BY <1>0
    <2> HIDE DEF u, left, next, b
    <2>3. held' = held /\ bal' = bal
      BY <2>1 DEF rows
    <2> QED
      BY <2>1, <2>2, <2>3
  <1>2. bal[w][v] = b
    <2>1. \A o \in Session : held[o] = {}
      BY <1>1 DEF SquareInv, Sole
    <2> QED
      BY <2>1 DEF SquareInv, Settled
  <1>3. b \in Balance /\ d \in Int /\ tx \in [Session -> Tx]
    BY InventoryAssumption DEF SquareInv, TypeOK
  <1>4. next = b.onHand + d /\ left = next - b.reserved
    OBVIOUS
  <1> HIDE DEF left, next
  <1>5. /\ u.pc = "upsert" /\ u.w = w /\ u.v = v /\ u.d = d
        /\ u.q = next /\ u.a = left
    BY DEF Idle
  <1> HIDE DEF u, b
  <1>6. tx'[p] = u
    BY <1>1, <1>3 DEF Step
  <1>7. Prepared(p)'
    BY <1>1, <1>2, <1>3, <1>4, <1>5, <1>6 DEF Prepared, Balance
  <1> QED
    BY <1>5, <1>6, <1>7 DEF Sole

LEMMA BeginSquare ==
  ASSUME "adjust" \notin Ops \/ Sole, SquareInv, NEW p \in Session, Begin(p) \/ BeginJob(p)
  PROVE  /\ \A o \in Session : tx'[o].pc = "idle" => held'[o] = {}
         /\ \A o \in Session : tx'[o].pc = "upsert" => Sole /\ Prepared(o)'
  <1> DEFINE Opens == \E u : Step(p, u) /\ u.pc = "next"
  <1>a. ASSUME NEW c, NEW want, BeginReserve(p, c, want) PROVE Opens
    <2>0. PICK dw : Step(p, [Idle EXCEPT !.op = "reserve", !.pc = "next",
                            !.rel = ActiveOf(p, c, {l \in Line : want[l] = 0}),
                            !.want = want, !.dw = dw])
      BY <1>a DEF BeginReserve
    <2> DEFINE u == [Idle EXCEPT !.op = "reserve", !.pc = "next",
                            !.rel = ActiveOf(p, c, {l \in Line : want[l] = 0}),
                            !.want = want, !.dw = dw]
    <2>1. u.pc = "next"
      BY OpenedPc, IdleType
    <2>2. Step(p, u)
      BY <2>0
    <2> HIDE DEF u
    <2> QED
      BY <2>1, <2>2
  <1>b. ASSUME NEW c, NEW want, BeginConsume(p, c, want) PROVE Opens
    <2> DEFINE u == [Idle EXCEPT !.op = "consume", !.pc = "next", !.want = want]
    <2>1. u.pc = "next"
      BY OpenedPc, IdleType
    <2>2. Step(p, u)
      BY <1>b DEF BeginConsume
    <2> HIDE DEF u
    <2> QED
      BY <2>1, <2>2
  <1>c. ASSUME NEW c, BeginRelease(p, c) \/ BeginAbandon(p, c) PROVE Opens
    <2>0. PICK op : Step(p, [Idle EXCEPT !.op = op, !.pc = "next", !.rel = ActiveOf(p, c, Line)])
      BY <1>c DEF BeginRelease, BeginAbandon
    <2> DEFINE u == [Idle EXCEPT !.op = op, !.pc = "next", !.rel = ActiveOf(p, c, Line)]
    <2>1. u.pc = "next"
      BY OpenedPc, IdleType
    <2>2. Step(p, u)
      BY <2>0
    <2> HIDE DEF u
    <2> QED
      BY <2>1, <2>2
  <1>d. ASSUME BeginExpire(p) PROVE Opens
    <2>0. PICK r : Step(p, [Idle EXCEPT !.op = "expire", !.pc = "next", !.rel = {r}])
      BY <1>d DEF BeginExpire
    <2> DEFINE u == [Idle EXCEPT !.op = "expire", !.pc = "next", !.rel = {r}]
    <2>1. u.pc = "next"
      BY OpenedPc, IdleType
    <2>2. Step(p, u)
      BY <2>0
    <2> HIDE DEF u
    <2> QED
      BY <2>1, <2>2
  <1>e. ASSUME NEW w, NEW vs, BeginResync(p, w, vs) PROVE Opens
    <2> DEFINE u == [Idle EXCEPT !.op = "warehouse", !.pc = "next", !.vs = vs]
    <2>1. u.pc = "next"
      BY OpenedPc, IdleType
    <2>2. Step(p, u)
      BY <1>e DEF BeginResync
    <2> HIDE DEF u
    <2> QED
      BY <2>1, <2>2
  <1>1. CASE \E w \in Warehouse, v \in Variant, d \in -MaxStock..MaxStock :
                BeginAdjust(p, w, v, d)
    <2>1. Sole
      BY <1>1 DEF BeginAdjust
    <2> QED
      BY <1>1, <2>1, AdjustPrepared
  <1>2. CASE ~\E w \in Warehouse, v \in Variant, d \in -MaxStock..MaxStock :
                BeginAdjust(p, w, v, d)
    <2>1. PICK u : Step(p, u) /\ u.pc = "next"
      <3> HIDE DEF Opens
      <3>1. Opens
        BY <1>2, <1>a, <1>b, <1>c, <1>d, <1>e DEF Begin, BeginJob
      <3> QED
        BY <3>1 DEF Opens
    <2> HIDE DEF Opens
    <2> QED
      BY <2>1, StepAside, BeginSettled
  <1> QED
    BY <1>1, <1>2

LEMMA NextSquare ==
  ASSUME "adjust" \notin Ops \/ Sole, SquareInv, [Next]_vars PROVE SquareInv'
  <1>1. TypeOK'
    BY NextTypeOK DEF SquareInv
  <1>2. ASSUME NEW p \in Session, Begin(p) \/ BeginJob(p) PROVE SquareInv'
    BY <1>1, <1>2, BeginSquare, BeginSettled DEF SquareInv, AllSquare
  <1>3. ASSUME NEW p \in Session, Proceed(p) PROVE SquareInv'
    BY <1>1, <1>3, ProceedSquare, ProceedSettled, ProceedNoUpsert DEF SquareInv
  <1>4. ASSUME NEW p \in Session, Crash(p) PROVE SquareInv'
    <2>1. Rollback(p) /\ held \in [Session -> SUBSET Row]
      BY <1>4 DEF Crash, SquareInv, TypeOK
    <2>2. held' = [held EXCEPT ![p] = {}] /\ Step(p, Idle) /\ Idle.pc = "idle"
      BY <2>1, AtPcIdle DEF Rollback
    <2>3. /\ \A o \in Session : tx'[o].pc = "idle" => held'[o] = {}
          /\ \A o \in Session : tx'[o].pc = "upsert" => Sole /\ Prepared(o)'
      BY <2>1, <2>2, StepAside
    <2>4. Settled'
      BY <2>1 DEF Rollback, SquareInv, Settled
    <2> QED
      BY <1>1, <2>1, <2>3, <2>4, EndSquare DEF SquareInv
  <1>5. CASE UNCHANGED <<bal, cbal, tx, held>>
    BY <1>1, <1>5 DEF SquareInv, AllSquare, Settled, Prepared
  <1>6. ASSUME \/ \E l \in Line : Tick(l)
               \/ ReadExpired
               \/ ChangeWarehouse
               \/ UNCHANGED vars
        PROVE  UNCHANGED <<bal, cbal, tx, held>>
    BY <1>6 DEF Tick, ReadExpired, ChangeWarehouse, CreateWarehouse, UpdateWarehouse,
                RemoveWarehouse, rows, vars
  <1> QED
    BY <1>2, <1>3, <1>4, <1>5, <1>6 DEF Next

LEMMA SpecSquare ==
  ASSUME "adjust" \notin Ops \/ Sole
  PROVE  Spec => []SquareInv
  <1>1. Init => SquareInv
    <2> SUFFICES ASSUME Init PROVE SquareInv
      OBVIOUS
    <2>1. TypeOK
      BY InitTypeOK
    <2>2. \A w \in Warehouse : OpeningStock(w) \in Nat
      BY InventoryAssumption DEF OpeningStock
    <2>3. AllSquare(bal) /\ AllSquare(cbal)
      BY <2>2 DEF Init, AllSquare, Squares
    <2>4. \A p \in Session : tx[p].pc = "idle" /\ held[p] = {}
      BY AtPcIdle DEF Init
    <2>5. Settled
      BY DEF Init, Settled
    <2> QED
      BY <2>1, <2>3, <2>4, <2>5 DEF SquareInv
  <1>2. SquareInv /\ [Next]_vars => SquareInv'
    BY NextSquare
  <1> QED
    BY <1>1, <1>2, PTL DEF Spec

\* In every committed balance row available is onHand less reserved, whatever carts,
\* checkouts, sweeps, warehouse changes, deadlocks and crashes interleave, as long as
\* no stock is adjusted by hand, or whatever operations, adjustments among them,
\* follow one another: only adjustStock, which writes absolute values computed from
\* what it read, at the same time as another transaction can break it.
THEOREM BalanceRowsStaySquare ==
  ASSUME "adjust" \notin Ops \/ \A p, o \in Session : p = o
  PROVE  Spec => []BalanceEquation
  <1>1. SquareInv => BalanceEquation
    BY DEF SquareInv, AllSquare, Squares, BalanceEquation
  <1> QED
    BY <1>1, SpecSquare, PTL DEF Sole

\* Under the same condition the movements of every committed row add up to its onHand:
\* the absolute onHand adjustStock writes and the delta of its movement agree, because
\* the row is still the one it read; no sale changes the stock without its movement,
\* and no rollback undoes one of the two.
THEOREM MovementsAccountForStock ==
  ASSUME "adjust" \notin Ops \/ \A p, o \in Session : p = o
  PROVE  Spec => []JournalAccounts
  <1>1. SquareInv => JournalAccounts
    BY DEF SquareInv, AllSquare, Squares, JournalAccounts
  <1> QED
    BY <1>1, SpecSquare, PTL DEF Sole

----------------------------------------------------------------------------
(* Totals: units counted one by one *)

\* The units of f over S: as many pairs of each x as f[x] says.
Units(f, S) == UNION {{x} \X (1..f[x]) : x \in S}

\* One element stands for as many units as its number says.
LEMMA UnitsOfOne ==
  ASSUME NEW x, NEW n \in Nat
  PROVE  IsFiniteSet({x} \X (1..n)) /\ Cardinality({x} \X (1..n)) = n
  <1>1. IsFiniteSet(1..n) /\ Cardinality(1..n) = n
    BY FS_Interval
  <1>2. IsFiniteSet({x}) /\ Cardinality({x}) = 1
    BY FS_Singleton
  <1> QED
    BY <1>1, <1>2, FS_Product

\* A finite set has a finite number of units.
LEMMA UnitsFinite ==
  ASSUME NEW S, IsFiniteSet(S), NEW f, \A x \in S : f[x] \in Nat
  PROVE  IsFiniteSet(Units(f, S))
  <1> DEFINE h == [x \in S |-> {x} \X (1..f[x])]
             T == {{x} \X (1..f[x]) : x \in S}
  <1>1. h \in Surjection(S, T)
    BY DEF Surjection
  <1>2. IsFiniteSet(T)
    <2> HIDE DEF h, T
    <2> QED
      BY <1>1, FS_Surjection
  <1>3. \A U \in T : IsFiniteSet(U)
    <2> SUFFICES ASSUME NEW U \in T PROVE IsFiniteSet(U)
      OBVIOUS
    <2>1. PICK x \in S : U = {x} \X (1..f[x])
      OBVIOUS
    <2>2. f[x] \in Nat
      OBVIOUS
    <2> QED
      BY <2>1, <2>2, UnitsOfOne
  <1>4. IsFiniteSet(UNION T)
    <2> HIDE DEF T
    <2> QED
      BY <1>2, <1>3, FS_UNION
  <1> QED
    BY <1>4 DEF Units

\* One element's part of a total.
LEMMA TotalSplits ==
  ASSUME NEW S, IsFiniteSet(S), NEW f, \A x \in S : f[x] \in Nat, NEW a \in S
  PROVE  /\ Total(f, S) \in Nat /\ Total(f, S \ {a}) \in Nat
         /\ Total(f, S) = Total(f, S \ {a}) + f[a]
  <1> DEFINE A == {a} \X (1..f[a])
             R == Units(f, S \ {a})
  <1>1. IsFiniteSet(S \ {a})
    BY FS_Difference
  <1>2. IsFiniteSet(R)
    BY <1>1, UnitsFinite
  <1>3. IsFiniteSet(A) /\ Cardinality(A) = f[a]
    BY UnitsOfOne
  <1>4. R \cap A = {}
    BY DEF Units
  <1>5. Units(f, S) = R \cup A
    BY DEF Units
  <1>6. Cardinality(R \cup A) = Cardinality(R) + Cardinality(A) - Cardinality(R \cap A)
    <2> HIDE DEF A, R
    <2> QED
      BY <1>2, <1>3, FS_Union
  <1>7. Cardinality(R \cap A) = 0
    BY <1>4, FS_EmptySet
  <1>8. Cardinality(R) \in Nat
    BY <1>2, FS_CardinalityType
  <1>9. Total(f, S) = Cardinality(Units(f, S)) /\ Total(f, S \ {a}) = Cardinality(R)
    BY DEF Total, Units
  <1> QED
    <2> HIDE DEF A, R
    <2> QED
      BY <1>3, <1>5, <1>6, <1>7, <1>8, <1>9

LEMMA TotalsEqual ==
  ASSUME NEW S, NEW f, NEW h, \A x \in S : f[x] = h[x]
  PROVE  Total(f, S) = Total(h, S)
  <1>1. UNION {{x} \X (1..f[x]) : x \in S} = UNION {{x} \X (1..h[x]) : x \in S}
    OBVIOUS
  <1> QED
    BY <1>1 DEF Total

\* What has no units does not count.
LEMMA TotalOfSome ==
  ASSUME NEW S, NEW T, NEW f, NEW h, T \subseteq S,
         \A x \in T : f[x] = h[x], \A x \in S \ T : h[x] = 0
  PROVE  Total(f, T) = Total(h, S)
  <1>1. \A x \in S \ T : {x} \X (1..h[x]) = {}
    OBVIOUS
  <1>2. UNION {{x} \X (1..f[x]) : x \in T} = UNION {{x} \X (1..h[x]) : x \in S}
    BY <1>1
  <1> QED
    BY <1>2 DEF Total

\* One element changes.
LEMMA TotalChanges ==
  ASSUME NEW S, IsFiniteSet(S), NEW f, NEW h, \A x \in S : f[x] \in Nat /\ h[x] \in Nat,
         NEW a \in S, \A x \in S \ {a} : f[x] = h[x]
  PROVE  /\ Total(h, S) \in Nat /\ Total(f, S) \in Nat
         /\ Total(h, S) = Total(f, S) - f[a] + h[a]
         /\ f[a] <= Total(f, S)
  <1>1. Total(f, S \ {a}) = Total(h, S \ {a})
    BY TotalsEqual
  <1>2. /\ Total(f, S) = Total(f, S \ {a}) + f[a]
        /\ Total(f, S) \in Nat /\ Total(f, S \ {a}) \in Nat
    BY TotalSplits
  <1>3. Total(h, S) = Total(h, S \ {a}) + h[a] /\ Total(h, S) \in Nat
    BY TotalSplits
  <1>4. f[a] \in Nat /\ h[a] \in Nat
    OBVIOUS
  <1> QED
    BY <1>1, <1>2, <1>3, <1>4

----------------------------------------------------------------------------
(* Reserved quantities *)

\* p's transaction has locked the row of l's cart.
Owns(p, l) == CartRow(CartOf[l]) \in held[p]

\* The program counters at which a transaction works on the reservation of its line.
AtWork == {"claim", "free", "take", "give", "save", "mark", "sellReserved"}

\* Between these and the next statement the balance and the reservation disagree.
Flying == {"free", "save", "sellReserved"}

LinesOf(v) == {l \in Line : VariantOf[l] = v}

\* The units reservation row r[l] holds in warehouse w.
Standing(r, l, w) == IF r[l].status = "ACTIVE" /\ r[l].w = w THEN r[l].q ELSE 0

\* The units the balance of w counts for p's line while they disagree.
Counts(p, w) ==
    (IF tx[p].pc = "sellReserved" THEN Standing(res, tx[p].l, w) ELSE 0)
    + (IF tx[p].w # w THEN 0
       ELSE IF tx[p].pc = "save" THEN tx[p].want[tx[p].l] ELSE tx[p].q)

\* The units the balance of w counts for line l, which p owns.
Expected(p, l, w) ==
    IF tx[p].pc \in Flying /\ tx[p].l = l THEN Counts(p, w) ELSE Standing(res, l, w)

LocksApart == \A p, o \in Session : p # o => held[p] \cap held[o] = {}
RowsOwned == \A p \in Session, l \in Line : ResRow(l) \in held[p] => Owns(p, l)
CleanRes == \A l \in Line : (\A p \in Session : ResRow(l) \notin held[p]) => res[l] = cres[l]

\* A transaction works on lines of the cart it has locked.
WorksOnOwn(p) ==
    /\ tx[p].pc \in AtWork => Owns(p, tx[p].l)
    /\ \A r \in tx[p].rel : Owns(p, r.l)
    /\ \A l \in Line : tx[p].want[l] > 0 => Owns(p, l)

\* What it read of the reservations it will release is still true.
ReleasesRight(p) ==
    /\ \A r \in tx[p].rel :
          /\ res[r.l].status = "ACTIVE" /\ res[r.l].w = r.w /\ res[r.l].q = r.q
          /\ tx[p].pc \in AtWork => r.l # tx[p].l
    /\ tx[p].pc \in {"take", "give", "save", "mark", "sellReserved", "sellDirect"}
         => tx[p].rel = {}
    /\ tx[p].op = "consume" => tx[p].rel = {}

\* What it read of the reservation it works on is still true.
ReadsRight(p) ==
    LET t == tx[p] IN
    /\ t.pc \in AtWork => t.v = VariantOf[t.l]
    /\ t.pc = "claim" => /\ res[t.l].status = "ACTIVE"
                         /\ res[t.l].w = t.w /\ res[t.l].q = t.q
    /\ t.pc = "free" => res[t.l].status # "ACTIVE"
    /\ t.pc = "take" => /\ t.q <= t.want[t.l]
                        /\ \A w \in Warehouse : Standing(res, t.l, w)
                              = IF t.w # w THEN 0 ELSE t.want[t.l] - t.q
    /\ t.pc = "give" => /\ res[t.l].status = "ACTIVE"
                        /\ res[t.l].w = t.w /\ res[t.l].q = t.want[t.l] + t.q
    /\ t.pc = "mark" => /\ res[t.l].status = "ACTIVE" /\ t.d >= 0
                        /\ res[t.l].w = t.w /\ res[t.l].q = t.q + t.d

SessionRight(p) == WorksOnOwn(p) /\ ReleasesRight(p) /\ ReadsRight(p)

\* g[l][w]: the units the balance of w counts for line l.
Counted == [Line -> [Warehouse -> Nat]]
Backed(b, g) ==
    \A w \in Warehouse, v \in Variant :
        b[w][v].reserved = Total([l \in Line |-> g[l][w]], LinesOf(v))
Linked(g) ==
    /\ \A p \in Session, l \in Line, w \in Warehouse :
          Owns(p, l) => g[l][w] = Expected(p, l, w)
    /\ \A l \in Line, w \in Warehouse :
          (\A p \in Session : ~Owns(p, l)) => g[l][w] = Standing(res, l, w)
\* It differs from what is committed only where the owner of the line has locked the
\* balance as well.
Guarded(g) ==
    \A l \in Line, w \in Warehouse :
        g[l][w] # Standing(cres, l, w) =>
            \E p \in Session : Owns(p, l) /\ BalRow(w, VariantOf[l]) \in held[p]
Ledger(g) == g \in Counted /\ Backed(bal, g) /\ Linked(g) /\ Guarded(g)

StandingIn(r) == [l \in Line |-> [w \in Warehouse |-> Standing(r, l, w)]]

Serial == LocksApart /\ RowsOwned /\ CleanRes /\ \A p \in Session : SessionRight(p)

BackedInv ==
    /\ TypeOK /\ sweep = {} /\ Serial
    /\ \E g \in Counted : Ledger(g)
    /\ Backed(cbal, StandingIn(cres))

LEMMA StandingNat ==
  ASSUME NEW r \in [Line -> Reservation], NEW l \in Line, NEW w \in Warehouse
  PROVE  Standing(r, l, w) \in Nat
  BY DEF Standing, Reservation

\* Backed is ReservedBacked with the lines that hold nothing in w counted as nought.
LEMMA BackedRows == TypeOK /\ Backed(cbal, StandingIn(cres)) => ReservedBacked
  <1> SUFFICES ASSUME TypeOK, Backed(cbal, StandingIn(cres)),
                      NEW w \in Warehouse, NEW v \in Variant
               PROVE  cbal[w][v].reserved = HeldByReservations(w, v)
    BY DEF ReservedBacked
  <1> DEFINE T == {l \in Line : cres[l].status = "ACTIVE" /\ cres[l].w = w /\ VariantOf[l] = v}
             f == [l \in Line |-> cres[l].q]
             h == [l \in Line |-> StandingIn(cres)[l][w]]
  <1>1. T \subseteq LinesOf(v)
    BY DEF LinesOf
  <1>2. \A l \in T : f[l] = h[l]
    BY DEF StandingIn, Standing
  <1>3. \A l \in LinesOf(v) \ T : h[l] = 0
    BY DEF StandingIn, Standing, LinesOf
  <1>4. Total(f, T) = Total(h, LinesOf(v))
    <2> HIDE DEF T, f, h
    <2> QED
      BY <1>1, <1>2, <1>3, TotalOfSome
  <1>5. cbal[w][v].reserved = Total(h, LinesOf(v))
    BY DEF Backed
  <1>6. HeldByReservations(w, v) = Total(f, T)
    BY DEF HeldByReservations
  <1> QED
    BY <1>4, <1>5, <1>6

\* Another session's statement does not disturb what a transaction relies on.
LEMMA OthersRight ==
  ASSUME TypeOK, NEW o \in Session, SessionRight(o), tx'[o] = tx[o],
         held[o] \subseteq held'[o], \A l \in Line : Owns(o, l) => res'[l] = res[l]
  PROVE  SessionRight(o)'
  <1>1. tx[o] \in Tx
    BY DEF TypeOK
  <1>2. tx[o].l \in Line /\ \A r \in tx[o].rel : r.l \in Line
    BY <1>1 DEF Tx, Snapshot
  <1>3. WorksOnOwn(o)'
    BY DEF SessionRight, WorksOnOwn, Owns
  <1>4. ReleasesRight(o)'
    BY <1>2 DEF SessionRight, WorksOnOwn, ReleasesRight
  <1>5. tx[o].pc \in AtWork => res'[tx[o].l] = res[tx[o].l]
    BY <1>2 DEF SessionRight, WorksOnOwn
  <1>6. ReadsRight(o)'
    <2>0. tx'[o] = tx[o] /\ ReadsRight(o)
      BY DEF SessionRight
    <2>1. CASE tx[o].pc \in AtWork
      <3>1. res'[tx[o].l] = res[tx[o].l]
        BY <1>5, <2>1
      <3> QED
        BY <2>0, <3>1 DEF ReadsRight, Standing
    <2>2. CASE tx[o].pc \notin AtWork
      <3>1. tx'[o].pc \notin AtWork
        BY <2>0, <2>2
      <3> QED
        BY <3>1 DEF ReadsRight, AtWork
    <2> QED
      BY <2>1, <2>2
  <1> QED
    BY <1>3, <1>4, <1>6 DEF SessionRight

\* A statement of p keeps the ledger when it touches only reservations it has locked of
\* lines it owns, and h accounts for the balances it has locked.
LEMMA StatementKeeps ==
  ASSUME BackedInv, TypeOK', NEW p \in Session, NEW g, Ledger(g), NEW h \in Counted,
         \A o \in Session \ {p} : tx'[o] = tx[o] /\ held'[o] = held[o],
         held[p] \subseteq held'[p], LocksApart', RowsOwned',
         UNCHANGED <<cbal, cres>>, sweep' = {},
         \A l \in Line : res'[l] # res[l] => ResRow(l) \in held'[p] /\ Owns(p, l)',
         SessionRight(p)',
         \A l \in Line, w \in Warehouse :
            h[l][w] # g[l][w] => Owns(p, l)' /\ BalRow(w, VariantOf[l]) \in held'[p],
         Backed(bal', h),
         \A l \in Line, w \in Warehouse : Owns(p, l)' => h[l][w] = Expected(p, l, w)'
  PROVE  BackedInv'
  <1>1. \A o \in Session : held[o] \subseteq held'[o]
    OBVIOUS
  <1>2. ASSUME NEW o \in Session, o # p, NEW l \in Line, Owns(o, l)
        PROVE  ~Owns(p, l)' /\ res'[l] = res[l] /\ Owns(o, l)'
    <2>1. CartRow(CartOf[l]) \in held'[o]
      BY <1>1, <1>2 DEF Owns
    <2>2. CartRow(CartOf[l]) \notin held'[p]
      BY <1>2, <2>1 DEF LocksApart
    <2> QED
      BY <2>1, <2>2 DEF Owns
  <1>3. CleanRes'
    <2> SUFFICES ASSUME NEW l \in Line, \A o \in Session : ResRow(l) \notin held'[o]
                 PROVE  res'[l] = cres'[l]
      BY DEF CleanRes
    <2>1. res'[l] = res[l]
      OBVIOUS
    <2>2. \A o \in Session : ResRow(l) \notin held[o]
      BY <1>1
    <2> QED
      BY <2>1, <2>2 DEF BackedInv, Serial, CleanRes
  <1>4. ASSUME NEW o \in Session PROVE SessionRight(o)'
    <2>1. CASE o = p
      BY <2>1
    <2>2. CASE o # p
      <3>1. \A l \in Line : Owns(o, l) => res'[l] = res[l]
        BY <1>2, <2>2
      <3>2. tx'[o] = tx[o] /\ held[o] \subseteq held'[o] /\ SessionRight(o) /\ TypeOK
        BY <1>1, <2>2 DEF BackedInv, Serial
      <3> QED
        BY <3>1, <3>2, OthersRight
    <2> QED
      BY <2>1, <2>2
  <1>5. Linked(h)'
    <2>1. ASSUME NEW o \in Session, NEW l \in Line, NEW w \in Warehouse, Owns(o, l)'
          PROVE  h[l][w] = Expected(o, l, w)'
      <3>1. CASE o = p
        BY <2>1, <3>1
      <3>2. CASE o # p
        <4>1. Owns(o, l)
          BY <2>1, <3>2 DEF Owns
        <4>2. h[l][w] = g[l][w] /\ res'[l] = res[l]
          BY <1>2, <3>2, <4>1
        <4>3. Expected(o, l, w)' = Expected(o, l, w)
          BY <3>2, <4>2 DEF Expected, Counts, Standing
        <4>4. g[l][w] = Expected(o, l, w)
          BY <4>1 DEF Ledger, Linked
        <4> QED
          BY <4>2, <4>3, <4>4
      <3> QED
        BY <3>1, <3>2
    <2>2. ASSUME NEW l \in Line, NEW w \in Warehouse, \A o \in Session : ~Owns(o, l)'
          PROVE  h[l][w] = Standing(res, l, w)'
      <3>1. \A o \in Session : ~Owns(o, l)
        BY <1>1, <2>2 DEF Owns
      <3>2. g[l][w] = Standing(res, l, w)
        BY <3>1 DEF Ledger, Linked
      <3>3. h[l][w] = g[l][w] /\ res'[l] = res[l]
        BY <2>2
      <3> QED
        BY <3>2, <3>3 DEF Standing
    <2> QED
      BY <2>1, <2>2 DEF Linked
  <1>6. Guarded(h)'
    <2> SUFFICES ASSUME NEW l \in Line, NEW w \in Warehouse, h[l][w] # Standing(cres, l, w)
                 PROVE  \E o \in Session : Owns(o, l)' /\ BalRow(w, VariantOf[l]) \in held'[o]
      BY DEF Guarded, Standing
    <2>1. CASE h[l][w] # g[l][w]
      BY <2>1
    <2>2. CASE h[l][w] = g[l][w]
      <3>1. PICK o \in Session : Owns(o, l) /\ BalRow(w, VariantOf[l]) \in held[o]
        BY <2>2 DEF Ledger, Guarded
      <3> QED
        BY <1>1, <3>1 DEF Owns
    <2> QED
      BY <2>1, <2>2
  <1>7. Backed(cbal, StandingIn(cres))'
    BY DEF BackedInv, Backed, StandingIn, Standing
  <1>8. Ledger(h)'
    BY <1>5, <1>6 DEF Ledger, Backed
  <1>9. Serial'
    BY <1>3, <1>4 DEF Serial
  <1> QED
    BY <1>7, <1>8, <1>9 DEF BackedInv

LEMMA RowKinds ==
  ASSUME NEW l, NEW k, NEW w, NEW v, NEW c
  PROVE  /\ BalRow(w, v) # ResRow(l) /\ StockRow(v) # ResRow(l) /\ CartRow(c) # ResRow(l)
         /\ BalRow(w, v) # StockRow(k) /\ ResRow(l) = ResRow(k) => l = k
  BY DEF BalRow, ResRow, StockRow, CartRow

\* A lock that is free is taken by one session.
LEMMA LockKeeps ==
  ASSUME TypeOK, LocksApart, RowsOwned, NEW p \in Session, NEW row, Free(p, row),
         Lock(p, row), \A l \in Line : row = ResRow(l) => Owns(p, l)
  PROVE  /\ LocksApart' /\ RowsOwned'
         /\ held'[p] = held[p] \cup {row}
         /\ \A o \in Session \ {p} : held'[o] = held[o]
  <1>1. held \in [Session -> SUBSET Row]
    BY DEF TypeOK
  <1>2. held'[p] = held[p] \cup {row} /\ \A o \in Session \ {p} : held'[o] = held[o]
    BY <1>1 DEF Lock
  <1>3. LocksApart'
    BY <1>2 DEF LocksApart, Free
  <1>4. RowsOwned'
    BY <1>2 DEF RowsOwned, Owns
  <1> QED
    BY <1>2, <1>3, <1>4

LEMMA IdleRight ==
  ASSUME NEW p, tx'[p] = Idle
  PROVE  SessionRight(p)'
  <1>1. /\ tx'[p].pc = "idle" /\ tx'[p].op = "none" /\ tx'[p].rel = {}
        /\ \A l \in Line : tx'[p].want[l] = 0
    BY DEF Idle, Nothing
  <1>2. WorksOnOwn(p)'
    BY <1>1 DEF WorksOnOwn, AtWork
  <1>3. ReleasesRight(p)'
    BY <1>1 DEF ReleasesRight
  <1>4. ReadsRight(p)'
    BY <1>1 DEF ReadsRight, AtWork
  <1> QED
    BY <1>2, <1>3, <1>4 DEF SessionRight

\* The owner of a line sees its reservation as it is.
LEMMA OwnerSees ==
  ASSUME Serial, NEW p \in Session, NEW l \in Line,
         \A o \in Session \ {p} : ~Owns(o, l)
  PROVE  SeenRes(p, l) = res[l] /\ (ResRow(l) \notin held[p] => res[l] = cres[l])
  <1>1. \A o \in Session \ {p} : ResRow(l) \notin held[o]
    BY DEF Serial, RowsOwned
  <1> QED
    BY <1>1 DEF Serial, CleanRes, SeenRes

LEMMA OneOwner ==
  ASSUME LocksApart, NEW p \in Session, NEW o \in Session, NEW l, Owns(p, l), o # p
  PROVE  ~Owns(o, l)
  BY DEF LocksApart, Owns

\* The two ways a transaction ends: what p had locked is free, and h is what the
\* balances count from then on.
LEMMA EndKeeps ==
  ASSUME BackedInv, TypeOK', NEW p \in Session, NEW g, Ledger(g), NEW h \in Counted,
         held' = [held EXCEPT ![p] = {}], tx' = [tx EXCEPT ![p] = Idle], sweep' = {},
         \A l \in Line : Owns(p, l) => /\ res'[l] = cres'[l]
                                       /\ \A w \in Warehouse : h[l][w] = Standing(cres, l, w)',
         \A l \in Line : ~Owns(p, l) => res'[l] = res[l] /\ cres'[l] = cres[l] /\ h[l] = g[l],
         Backed(bal', h), Backed(cbal', StandingIn(cres'))
  PROVE  BackedInv'
  <1>1. held \in [Session -> SUBSET Row] /\ tx \in [Session -> Tx]
    BY DEF BackedInv, TypeOK
  <1>2. /\ held'[p] = {} /\ tx'[p] = Idle
        /\ \A o \in Session \ {p} : held'[o] = held[o] /\ tx'[o] = tx[o]
    BY <1>1
  <1>3. LocksApart'
    BY <1>2 DEF LocksApart, BackedInv, Serial
  <1>4. RowsOwned'
    BY <1>2 DEF RowsOwned, Owns, BackedInv, Serial
  <1>5. CleanRes'
    <2> SUFFICES ASSUME NEW l \in Line, \A o \in Session : ResRow(l) \notin held'[o]
                 PROVE  res'[l] = cres'[l]
      BY DEF CleanRes
    <2>1. CASE Owns(p, l)
      BY <2>1
    <2>2. CASE ~Owns(p, l)
      <3>1. ResRow(l) \notin held[p]
        BY <2>2 DEF BackedInv, Serial, RowsOwned
      <3>2. \A o \in Session : ResRow(l) \notin held[o]
        BY <1>2, <3>1
      <3> QED
        BY <2>2, <3>2 DEF BackedInv, Serial, CleanRes
    <2> QED
      BY <2>1, <2>2
  <1>6. ASSUME NEW o \in Session, o # p, NEW l \in Line, Owns(o, l)
        PROVE  ~Owns(p, l)
    BY <1>6, OneOwner DEF BackedInv, Serial
  <1>7. ASSUME NEW o \in Session PROVE SessionRight(o)'
    <2>1. CASE o = p
      BY <1>2, <2>1, IdleRight
    <2>2. CASE o # p
      <3>1. \A l \in Line : Owns(o, l) => res'[l] = res[l]
        BY <1>6, <2>2
      <3>2. tx'[o] = tx[o] /\ held[o] \subseteq held'[o] /\ SessionRight(o) /\ TypeOK
        BY <1>2, <2>2 DEF BackedInv, Serial
      <3> QED
        BY <3>1, <3>2, OthersRight
    <2> QED
      BY <2>1, <2>2
  <1>8. Linked(h)'
    <2>1. ASSUME NEW o \in Session, NEW l \in Line, NEW w \in Warehouse, Owns(o, l)'
          PROVE  h[l][w] = Expected(o, l, w)'
      <3>1. o # p /\ Owns(o, l)
        BY <1>2, <2>1 DEF Owns
      <3>2. ~Owns(p, l)
        BY <1>6, <3>1
      <3>3. h[l][w] = g[l][w] /\ res'[l] = res[l]
        BY <3>2
      <3>4. Expected(o, l, w)' = Expected(o, l, w)
        BY <1>2, <3>1, <3>3 DEF Expected, Counts, Standing
      <3>5. g[l][w] = Expected(o, l, w)
        BY <3>1 DEF Ledger, Linked
      <3> QED
        BY <3>3, <3>4, <3>5
    <2>2. ASSUME NEW l \in Line, NEW w \in Warehouse, \A o \in Session : ~Owns(o, l)'
          PROVE  h[l][w] = Standing(res, l, w)'
      <3>1. CASE Owns(p, l)
        BY <3>1 DEF Standing
      <3>2. CASE ~Owns(p, l)
        <4>1. \A o \in Session : ~Owns(o, l)
          BY <1>2, <2>2, <3>2 DEF Owns
        <4>2. g[l][w] = Standing(res, l, w)
          BY <4>1 DEF Ledger, Linked
        <4> QED
          BY <3>2, <4>2 DEF Standing
      <3> QED
        BY <3>1, <3>2
    <2> QED
      BY <2>1, <2>2 DEF Linked
  <1>9. Guarded(h)'
    <2> SUFFICES ASSUME NEW l \in Line, NEW w \in Warehouse, h[l][w] # Standing(cres, l, w)'
                 PROVE  \E o \in Session : Owns(o, l)' /\ BalRow(w, VariantOf[l]) \in held'[o]
      BY DEF Guarded, Standing
    <2>1. ~Owns(p, l)
      OBVIOUS
    <2>2. g[l][w] # Standing(cres, l, w)
      BY <2>1 DEF Standing
    <2>3. PICK o \in Session : Owns(o, l) /\ BalRow(w, VariantOf[l]) \in held[o]
      BY <2>2 DEF Ledger, Guarded
    <2>4. o # p
      BY <2>1, <2>3
    <2> QED
      BY <1>2, <2>3, <2>4 DEF Owns
  <1>10. Ledger(h)'
    BY <1>8, <1>9 DEF Ledger, Backed
  <1>11. Serial'
    BY <1>3, <1>4, <1>5, <1>7 DEF Serial
  <1>12. Backed(cbal, StandingIn(cres))'
    BY DEF Backed, StandingIn, Standing
  <1> QED
    BY <1>10, <1>11, <1>12 DEF BackedInv

\* What a session's end does not touch.
LEMMA Untouched ==
  ASSUME BackedInv, NEW p \in Session, NEW g, Ledger(g), NEW l \in Line, NEW w \in Warehouse,
         \/ Owns(p, l) /\ BalRow(w, VariantOf[l]) \notin held[p]
         \/ ~Owns(p, l) /\ BalRow(w, VariantOf[l]) \in held[p]
  PROVE  g[l][w] = Standing(cres, l, w)
  <1> SUFFICES ASSUME NEW o \in Session, Owns(o, l), BalRow(w, VariantOf[l]) \in held[o]
               PROVE  FALSE
    BY DEF Ledger, Guarded
  <1>1. o # p
    OBVIOUS
  <1>2. held[p] \cap held[o] = {}
    BY <1>1 DEF BackedInv, Serial, LocksApart
  <1> QED
    BY <1>2 DEF Owns

LEMMA RestoredRow ==
  ASSUME BackedInv, NEW p \in Session, NEW l \in Line, Owns(p, l)
  PROVE  SeenRes(p, l) = res[l] /\ (ResRow(l) \notin held[p] => res[l] = cres[l])
  <1>1. \A o \in Session \ {p} : ~Owns(o, l)
    BY OneOwner DEF BackedInv, Serial
  <1> QED
    BY <1>1, OwnerSees DEF BackedInv

LEMMA CommitKeeps ==
  ASSUME BackedInv, TypeOK', NEW p \in Session, Commit(p)
  PROVE  BackedInv'
  <1>1. PICK g \in Counted : Ledger(g)
    BY DEF BackedInv
  <1>2. /\ held' = [held EXCEPT ![p] = {}] /\ tx' = [tx EXCEPT ![p] = Idle] /\ sweep' = {}
        /\ bal' = bal /\ res' = res /\ tx[p].pc = "next"
    BY DEF Commit, Step, UnchangedEnv, BackedInv
  <1>3. \A l \in Line : cres'[l] = SeenRes(p, l)
    BY DEF Commit
  <1>4. ASSUME NEW l \in Line, Owns(p, l)
        PROVE  /\ res'[l] = cres'[l]
               /\ \A w \in Warehouse : g[l][w] = Standing(cres, l, w)'
    <2>1. cres'[l] = res[l]
      BY <1>3, <1>4, RestoredRow
    <2>2. \A w \in Warehouse : g[l][w] = Expected(p, l, w)
      BY <1>1, <1>4 DEF Ledger, Linked
    <2>3. \A w \in Warehouse : Expected(p, l, w) = Standing(res, l, w)
      BY <1>2 DEF Expected, Flying
    <2> QED
      BY <1>2, <2>1, <2>2, <2>3 DEF Standing
  <1>5. ASSUME NEW l \in Line, ~Owns(p, l)
        PROVE  res'[l] = res[l] /\ cres'[l] = cres[l]
    BY <1>2, <1>3, <1>5 DEF SeenRes, BackedInv, Serial, RowsOwned
  <1>6. Backed(bal', g)
    BY <1>1, <1>2 DEF Ledger
  <1>7. ASSUME NEW w \in Warehouse, NEW v \in Variant
        PROVE  cbal'[w][v].reserved = Total([l \in Line |-> StandingIn(cres')[l][w]], LinesOf(v))
    <2> DEFINE new == [l \in Line |-> StandingIn(cres')[l][w]]
               old == [l \in Line |-> StandingIn(cres)[l][w]]
               now == [l \in Line |-> g[l][w]]
    <2>0. \A l \in LinesOf(v) : l \in Line /\ VariantOf[l] = v
      BY DEF LinesOf
    <2>1. \A l \in LinesOf(v) : /\ new[l] = Standing(cres, l, w)'
                               /\ old[l] = Standing(cres, l, w)
                               /\ now[l] = g[l][w]
      BY <2>0 DEF StandingIn, Standing
    <2>2. cbal'[w][v] = SeenBal(p, w, v)
      BY DEF Commit
    <2>3. CASE BalRow(w, v) \in held[p]
      <3>1. cbal'[w][v].reserved = Total(now, LinesOf(v))
        BY <1>1, <2>2, <2>3 DEF SeenBal, Ledger, Backed
      <3>2. ASSUME NEW l \in LinesOf(v) PROVE now[l] = new[l]
        <4>1. CASE Owns(p, l)
          BY <1>4, <2>0, <2>1, <4>1
        <4>2. CASE ~Owns(p, l)
          <5>1. g[l][w] = Standing(cres, l, w)
            BY <1>1, <2>0, <2>3, <4>2, Untouched
          <5> QED
            BY <1>5, <2>0, <2>1, <4>2, <5>1 DEF Standing
        <4> QED
          BY <4>1, <4>2
      <3>3. Total(now, LinesOf(v)) = Total(new, LinesOf(v))
        <4> HIDE DEF now, new
        <4> QED
          BY <3>2, TotalsEqual
      <3> QED
        BY <3>1, <3>3
    <2>4. CASE BalRow(w, v) \notin held[p]
      <3>1. cbal'[w][v].reserved = Total(old, LinesOf(v))
        BY <2>2, <2>4 DEF SeenBal, BackedInv, Backed
      <3>2. ASSUME NEW l \in LinesOf(v) PROVE old[l] = new[l]
        <4>1. CASE Owns(p, l)
          <5>1. g[l][w] = Standing(cres, l, w)
            BY <1>1, <2>0, <2>4, <4>1, Untouched
          <5> QED
            BY <1>4, <2>0, <2>1, <4>1, <5>1
        <4>2. CASE ~Owns(p, l)
          BY <1>5, <2>0, <2>1, <4>2, ZenonT(60) DEF Standing
        <4> QED
          BY <4>1, <4>2
      <3>3. Total(old, LinesOf(v)) = Total(new, LinesOf(v))
        <4> HIDE DEF old, new
        <4> QED
          BY <3>2, TotalsEqual
      <3> QED
        BY <3>1, <3>3
    <2> QED
      BY <2>3, <2>4
  <1>8. Backed(cbal', StandingIn(cres'))
    BY <1>7 DEF Backed
  <1> QED
    BY <1>1, <1>2, <1>4, <1>5, <1>6, <1>8, EndKeeps

LEMMA RollbackKeeps ==
  ASSUME BackedInv, TypeOK', NEW p \in Session, Rollback(p)
  PROVE  BackedInv'
  <1>1. PICK g \in Counted : Ledger(g)
    BY DEF BackedInv
  <1> DEFINE h == [l \in Line |-> IF Owns(p, l) THEN StandingIn(cres)[l] ELSE g[l]]
  <1>2. /\ held' = [held EXCEPT ![p] = {}] /\ tx' = [tx EXCEPT ![p] = Idle] /\ sweep' = {}
        /\ cbal' = cbal /\ cres' = cres
    BY DEF Rollback, Step, BackedInv
  <1>3. \A l \in Line : res'[l] = IF ResRow(l) \in held[p] THEN cres[l] ELSE res[l]
    BY DEF Rollback
  <1>4. cres \in [Line -> Reservation]
    BY DEF BackedInv, TypeOK
  <1>5. h \in Counted
    BY <1>4, StandingNat DEF Counted, StandingIn
  <1>6. ASSUME NEW l \in Line, Owns(p, l)
        PROVE  /\ res'[l] = cres'[l]
               /\ \A w \in Warehouse : h[l][w] = Standing(cres, l, w)'
    <2>1. res'[l] = cres'[l]
      BY <1>2, <1>3, <1>6, RestoredRow
    <2>2. \A w \in Warehouse : h[l][w] = Standing(cres, l, w)
      BY <1>6 DEF StandingIn
    <2> QED
      BY <1>2, <2>1, <2>2 DEF Standing
  <1>7. ASSUME NEW l \in Line, ~Owns(p, l)
        PROVE  res'[l] = res[l] /\ cres'[l] = cres[l] /\ h[l] = g[l]
    BY <1>2, <1>3, <1>7 DEF BackedInv, Serial, RowsOwned
  <1>8. ASSUME NEW w \in Warehouse, NEW v \in Variant
        PROVE  bal'[w][v].reserved = Total([l \in Line |-> h[l][w]], LinesOf(v))
    <2> DEFINE new == [l \in Line |-> h[l][w]]
               old == [l \in Line |-> StandingIn(cres)[l][w]]
               now == [l \in Line |-> g[l][w]]
    <2>0. \A l \in LinesOf(v) : l \in Line /\ VariantOf[l] = v
      BY DEF LinesOf
    <2>1. \A l \in LinesOf(v) : /\ new[l] = IF Owns(p, l) THEN Standing(cres, l, w) ELSE g[l][w]
                               /\ old[l] = Standing(cres, l, w)
                               /\ now[l] = g[l][w]
      BY <2>0 DEF StandingIn
    <2>2. bal'[w][v] = IF BalRow(w, v) \in held[p] THEN cbal[w][v] ELSE bal[w][v]
      BY DEF Rollback
    <2>3. CASE BalRow(w, v) \in held[p]
      <3>1. bal'[w][v].reserved = Total(old, LinesOf(v))
        BY <2>2, <2>3 DEF BackedInv, Backed
      <3>2. ASSUME NEW l \in LinesOf(v) PROVE old[l] = new[l]
        BY <1>1, <2>0, <2>1, <2>3, Untouched
      <3>3. Total(old, LinesOf(v)) = Total(new, LinesOf(v))
        <4> HIDE DEF old, new
        <4> QED
          BY <3>2, TotalsEqual
      <3> QED
        BY <3>1, <3>3
    <2>4. CASE BalRow(w, v) \notin held[p]
      <3>1. bal'[w][v].reserved = Total(now, LinesOf(v))
        BY <1>1, <2>2, <2>4 DEF Ledger, Backed
      <3>2. ASSUME NEW l \in LinesOf(v) PROVE now[l] = new[l]
        <4>1. CASE Owns(p, l)
          <5>1. g[l][w] = Standing(cres, l, w)
            BY <1>1, <2>0, <2>4, <4>1, Untouched
          <5> QED
            BY <2>1, <4>1, <5>1
        <4>2. CASE ~Owns(p, l)
          BY <2>1, <4>2
        <4> QED
          BY <4>1, <4>2
      <3>3. Total(now, LinesOf(v)) = Total(new, LinesOf(v))
        <4> HIDE DEF now, new
        <4> QED
          BY <3>2, TotalsEqual
      <3> QED
        BY <3>1, <3>3
    <2> QED
      BY <2>3, <2>4
  <1>9. Backed(bal', h)
    BY <1>8 DEF Backed
  <1>10. Backed(cbal', StandingIn(cres'))
    BY <1>2 DEF BackedInv
  <1> HIDE DEF h
  <1> QED
    BY <1>1, <1>2, <1>5, <1>6, <1>7, <1>9, <1>10, EndKeeps

\* A statement after which p works on no line leaves the rest of its work right.
LEMMA QuietRight ==
  ASSUME NEW p \in Session, SessionRight(p), held[p] \subseteq held'[p],
         tx'[p].pc \notin AtWork \cup {"sellDirect"}, tx'[p].op = tx[p].op,
         tx'[p].rel \subseteq tx[p].rel,
         \A l \in Line : tx'[p].want[l] > 0 => tx[p].want[l] > 0,
         \A r \in tx'[p].rel : res'[r.l] = res[r.l]
  PROVE  SessionRight(p)'
  <1>1. WorksOnOwn(p)'
    BY DEF SessionRight, WorksOnOwn, Owns
  <1>2. ReleasesRight(p)'
    <2>1. tx'[p].pc \notin {"take", "give", "save", "mark", "sellReserved", "sellDirect"}
      BY DEF AtWork
    <2> QED
      BY <2>1 DEF SessionRight, ReleasesRight
  <1>3. ReadsRight(p)'
    BY DEF ReadsRight, AtWork
  <1> QED
    BY <1>1, <1>2, <1>3 DEF SessionRight

\* A statement that moves no reserved units.
LEMMA QuietKeeps ==
  ASSUME BackedInv, TypeOK', NEW p \in Session,
         \A o \in Session \ {p} : tx'[o] = tx[o] /\ held'[o] = held[o],
         held[p] \subseteq held'[p], LocksApart', RowsOwned',
         UNCHANGED <<cbal, cres, sweep>>,
         \A l \in Line : res'[l] # res[l] => ResRow(l) \in held'[p] /\ Owns(p, l)',
         SessionRight(p)',
         \A w \in Warehouse, v \in Variant : bal'[w][v].reserved = bal[w][v].reserved,
         \A l \in Line, w \in Warehouse : Owns(p, l)' =>
            Expected(p, l, w)' = IF Owns(p, l) THEN Expected(p, l, w) ELSE Standing(res, l, w)
  PROVE  BackedInv'
  <1>1. PICK g \in Counted : Ledger(g)
    BY DEF BackedInv
  <1>2. Backed(bal', g)
    BY <1>1 DEF Ledger, Backed
  <1>3. ASSUME NEW l \in Line, NEW w \in Warehouse, Owns(p, l)'
        PROVE  g[l][w] = Expected(p, l, w)'
    <2>1. CASE Owns(p, l)
      BY <1>1, <1>3, <2>1 DEF Ledger, Linked
    <2>2. CASE ~Owns(p, l)
      <3>1. \A o \in Session : ~Owns(o, l)
        BY <1>3, <2>2 DEF Owns, LocksApart
      <3>2. g[l][w] = Standing(res, l, w)
        BY <1>1, <3>1 DEF Ledger, Linked
      <3> QED
        BY <1>3, <2>2, <3>2
    <2> QED
      BY <2>1, <2>2
  <1>4. sweep' = {}
    BY DEF BackedInv
  <1> QED
    BY <1>1, <1>2, <1>3, <1>4, StatementKeeps

\* A statement that only reads.
LEMMA ReadKeeps ==
  ASSUME BackedInv, TypeOK', NEW p \in Session, NEW u, Step(p, u),
         UNCHANGED <<bal, cbal, res, cres, held, sweep>>, SessionRight(p)',
         \A l \in Line, w \in Warehouse : Owns(p, l) => Expected(p, l, w)' = Expected(p, l, w)
  PROVE  BackedInv'
  <1>1. \A o \in Session \ {p} : tx'[o] = tx[o] /\ held'[o] = held[o]
    BY DEF Step, BackedInv, TypeOK
  <1>2. LocksApart' /\ RowsOwned'
    BY DEF BackedInv, Serial, LocksApart, RowsOwned, Owns
  <1>3. \A l \in Line, w \in Warehouse : Owns(p, l)' =>
            Expected(p, l, w)' = IF Owns(p, l) THEN Expected(p, l, w) ELSE Standing(res, l, w)
    BY DEF Owns
  <1> QED
    BY <1>1, <1>2, <1>3, QuietKeeps

\* The balance has at least the units it counts for one line.
LEMMA CountedWithin ==
  ASSUME BackedInv, NEW g, Ledger(g), NEW h \in Counted,
         NEW l \in Line, NEW w \in Warehouse, \A k \in Line \ {l} : h[k][w] = g[k][w]
  PROVE  LET b == bal[w][VariantOf[l]].reserved IN
         /\ g[l][w] <= b /\ g[l][w] \in Nat /\ b \in Nat
         /\ Total([k \in Line |-> h[k][w]], LinesOf(VariantOf[l])) = b - g[l][w] + h[l][w]
  <1> DEFINE S == LinesOf(VariantOf[l])
             f == [k \in Line |-> g[k][w]]
             e == [k \in Line |-> h[k][w]]
  <1>1. IsFiniteSet(S)
    <2>1. S \in SUBSET Line
      BY DEF LinesOf
    <2> QED
      BY <2>1, InventoryAssumption, FS_Subset
  <1>2. l \in S
    BY DEF LinesOf
  <1>3. \A k \in S : k \in Line
    BY DEF LinesOf
  <1>4. \A k \in S : f[k] \in Nat /\ e[k] \in Nat
    BY <1>3 DEF Ledger, Counted
  <1>5. \A k \in S \ {l} : f[k] = e[k]
    BY <1>3
  <1>6. /\ Total(e, S) \in Nat /\ Total(f, S) \in Nat
        /\ Total(e, S) = Total(f, S) - f[l] + e[l] /\ f[l] <= Total(f, S)
    <2> HIDE DEF S, f, e
    <2> QED
      BY <1>1, <1>2, <1>4, <1>5, TotalChanges
  <1>7. VariantOf[l] \in Variant
    BY InventoryAssumption
  <1>8. bal[w][VariantOf[l]].reserved = Total(f, S)
    BY <1>7 DEF Ledger, Backed
  <1>9. f[l] = g[l][w] /\ e[l] = h[l][w] /\ f[l] \in Nat
    BY <1>2, <1>4
  <1> QED
    BY <1>6, <1>8, <1>9

\* A statement that makes the balance count n units for p's line.
LEMMA MoveKeeps ==
  ASSUME BackedInv, TypeOK', NEW p \in Session, NEW g, Ledger(g), NEW u, Step(p, u),
         tx[p].pc \in AtWork, NEW n \in Nat, Free(p, BalRow(tx[p].w, tx[p].v)),
         NEW b, SetBal(p, b), UNCHANGED <<cbal, res, cres, sweep>>,
         b.reserved = bal[tx[p].w][tx[p].v].reserved - g[tx[p].l][tx[p].w] + n,
         SessionRight(p)', u.l = tx[p].l,
         \A x \in Warehouse :
            Expected(p, tx[p].l, x)' = IF x = tx[p].w THEN n ELSE Expected(p, tx[p].l, x)
  PROVE  BackedInv'
  <1> DEFINE l == tx[p].l
             w == tx[p].w
             h == [k \in Line |-> [x \in Warehouse |-> IF k = l /\ x = w THEN n ELSE g[k][x]]]
  <1>0. tx[p] \in Tx
    BY DEF BackedInv, TypeOK
  <1>1. l \in Line /\ w \in Warehouse /\ tx[p].v = VariantOf[l] /\ Owns(p, l)
    BY <1>0 DEF Tx, BackedInv, Serial, SessionRight, WorksOnOwn, ReadsRight
  <1>2. VariantOf[l] \in Variant
    BY <1>1, InventoryAssumption
  <1>3. h \in Counted
    BY DEF Ledger, Counted
  <1>4. \A k \in Line, x \in Warehouse :
          h[k][x] = IF k = l /\ x = w THEN n ELSE g[k][x]
    OBVIOUS
  <1>5. /\ tx'[p] = u
        /\ \A o \in Session \ {p} : tx'[o] = tx[o]
    BY DEF Step, BackedInv, TypeOK
  <1>6. /\ LocksApart' /\ RowsOwned' /\ held'[p] = held[p] \cup {BalRow(w, tx[p].v)}
        /\ \A o \in Session \ {p} : held'[o] = held[o]
    <2>1. Lock(p, BalRow(w, tx[p].v))
      BY DEF SetBal
    <2>2. \A k \in Line : BalRow(w, tx[p].v) # ResRow(k)
      BY RowKinds
    <2>3. TypeOK /\ LocksApart /\ RowsOwned
      BY DEF BackedInv, Serial
    <2> QED
      BY <2>1, <2>2, <2>3, LockKeeps
  <1>7. \A k \in Line : Owns(p, k)' <=> Owns(p, k)
    <2>1. \A k \in Line : CartRow(CartOf[k]) # BalRow(w, tx[p].v)
      BY DEF CartRow, BalRow
    <2> QED
      BY <1>6, <2>1 DEF Owns
  <1>8. Backed(bal', h)
    <2> SUFFICES ASSUME NEW x \in Warehouse, NEW v \in Variant
                 PROVE  bal'[x][v].reserved = Total([k \in Line |-> h[k][x]], LinesOf(v))
      BY DEF Backed
    <2>1. bal'[x][v] = IF x = w /\ v = tx[p].v THEN b ELSE bal[x][v]
      BY SMTT(40) DEF SetBal, BackedInv, TypeOK
    <2>2. CASE x = w /\ v = tx[p].v
      <3>1. \A k \in Line \ {l} : h[k][w] = g[k][w]
        BY <1>1, <1>4
      <3>2. h[l][w] = n
        BY <1>1, <1>4
      <3>3. Total([k \in Line |-> h[k][w]], LinesOf(VariantOf[l]))
              = bal[w][VariantOf[l]].reserved - g[l][w] + n
        <4> HIDE DEF h, l, w
        <4> QED
          BY <1>1, <1>3, <3>1, <3>2, CountedWithin
      <3> QED
        BY <1>1, <2>1, <2>2, <3>3
    <2>3. CASE ~(x = w /\ v = tx[p].v)
      <3> DEFINE f == [k \in Line |-> g[k][x]]
                 e == [k \in Line |-> h[k][x]]
      <3>1. bal'[x][v].reserved = Total(f, LinesOf(v))
        BY <2>1, <2>3 DEF Ledger, Backed
      <3>2. \A k \in LinesOf(v) : f[k] = e[k]
        BY <1>1, <2>3 DEF LinesOf
      <3>3. Total(f, LinesOf(v)) = Total(e, LinesOf(v))
        <4> HIDE DEF f, e
        <4> QED
          BY <3>2, TotalsEqual
      <3> QED
        BY <3>1, <3>3
    <2> QED
      BY <2>2, <2>3
  <1>9. ASSUME NEW k \in Line, NEW x \in Warehouse, h[k][x] # g[k][x]
        PROVE  Owns(p, k)' /\ BalRow(x, VariantOf[k]) \in held'[p]
    <2>1. k = l /\ x = w
      BY <1>4, <1>9
    <2> QED
      BY <1>1, <1>6, <1>7, <2>1
  <1>10. ASSUME NEW k \in Line, NEW x \in Warehouse, Owns(p, k)'
         PROVE  h[k][x] = Expected(p, k, x)'
    <2>1. g[k][x] = Expected(p, k, x)
      BY <1>7, <1>10 DEF Ledger, Linked
    <2>2. CASE k = l
      <3>1. tx'[p].l = l
        BY SMTT(40), <1>5
      <3>2. Expected(p, k, x)' = IF x = w THEN n ELSE Expected(p, k, x)
        BY <2>2, <3>1 DEF Expected, Counts, Standing
      <3> QED
        BY <1>4, <2>1, <2>2, <3>2
    <2>3. CASE k # l
      <3>1. Expected(p, k, x) = Standing(res, k, x) /\ Expected(p, k, x)' = Standing(res', k, x)
        BY <1>5, <2>3 DEF Expected, Standing
      <3> QED
        BY <1>4, <2>1, <2>3, <3>1
    <2> QED
      BY <2>2, <2>3
  <1>11. sweep' = {}
    BY DEF BackedInv
  <1> HIDE DEF h, l, w
  <1> QED
    BY <1>3, <1>5, <1>6, <1>8, <1>9, <1>10, <1>11, StatementKeeps

LEMMA Stepped ==
  ASSUME TypeOK, NEW p \in Session, NEW u, Step(p, u)
  PROVE  tx'[p] = u /\ \A o \in Session \ {p} : tx'[o] = tx[o]
  BY DEF TypeOK, Step

\* What BackedInv says of one session.
LEMMA InvOf ==
  ASSUME BackedInv, NEW p \in Session
  PROVE  /\ TypeOK /\ Serial /\ LocksApart /\ RowsOwned /\ SessionRight(p)
         /\ WorksOnOwn(p) /\ ReleasesRight(p) /\ ReadsRight(p)
         /\ tx[p] \in Tx /\ tx[p].l \in Line /\ tx[p].w \in Warehouse
         /\ tx[p].v \in Variant /\ tx[p].q \in Nat /\ tx[p].a \in Nat
         /\ tx[p].d \in Int /\ tx[p].want \in [Line -> Nat]
         /\ \A r \in tx[p].rel : r \in Snapshot /\ r.l \in Line
         /\ res \in [Line -> Reservation]
  BY DEF BackedInv, Serial, SessionRight, TypeOK, Tx, Snapshot

LEMMA NextReleaseKeeps ==
  ASSUME BackedInv, TypeOK', NEW p \in Session, NextRelease(p)
  PROVE  BackedInv'
  <1> DEFINE t == tx[p]
  <1>0. /\ TypeOK /\ t \in Tx /\ WorksOnOwn(p) /\ ReleasesRight(p)
        /\ \A r \in t.rel : r \in Snapshot /\ r.l \in Line
    BY InvOf
  <1>1. PICK r \in t.rel :
          Step(p, [t EXCEPT !.pc = "claim", !.rel = @ \ {r}, !.l = r.l, !.w = r.w,
                            !.v = VariantOf[r.l], !.q = r.q])
    BY DEF NextRelease
  <1> DEFINE u == [t EXCEPT !.pc = "claim", !.rel = @ \ {r}, !.l = r.l, !.w = r.w,
                            !.v = VariantOf[r.l], !.q = r.q]
  <1>2. /\ u.pc = "claim" /\ u.rel = t.rel \ {r} /\ u.l = r.l /\ u.w = r.w
        /\ u.v = VariantOf[r.l] /\ u.q = r.q /\ u.op = t.op /\ u.want = t.want
    BY <1>0 DEF Tx
  <1>3. t.pc = "next" /\ UNCHANGED <<bal, cbal, res, cres, held, sweep>>
    BY DEF NextRelease, rows, UnchangedEnv
  <1>4. Step(p, u)
    BY <1>1
  <1> HIDE DEF u
  <1>5. tx'[p] = u
    BY <1>0, <1>4, Stepped
  <1>6. WorksOnOwn(p)'
    BY <1>0, <1>2, <1>3, <1>5 DEF WorksOnOwn, Owns
  <1>7. \A s \in u.rel : s.l # r.l
    BY <1>0, <1>2 DEF ReleasesRight, Snapshot
  <1>8. ReleasesRight(p)'
    BY <1>0, <1>2, <1>3, <1>5, <1>7 DEF ReleasesRight
  <1>9. ReadsRight(p)'
    BY <1>0, <1>2, <1>3, <1>5 DEF ReadsRight, ReleasesRight
  <1>10. \A l \in Line, w \in Warehouse : Expected(p, l, w)' = Expected(p, l, w)
    BY <1>2, <1>3, <1>5 DEF Expected, Flying, Standing
  <1> QED
    BY <1>3, <1>4, <1>6, <1>8, <1>9, <1>10, ReadKeeps DEF SessionRight

\* Statements that leave the line alone.
LEMMA AsideKeeps ==
  ASSUME BackedInv, TypeOK', NEW p \in Session, NextResync(p) \/ SumAvailable(p)
  PROVE  BackedInv'
  <1> DEFINE t == tx[p]
  <1>0. TypeOK /\ t \in Tx /\ SessionRight(p)
    BY InvOf
  <1>1. PICK u : /\ Step(p, u) /\ u.pc \in {"sum", "set"}
                 /\ u.op = t.op /\ u.rel = t.rel /\ u.want = t.want
    <2>1. CASE NextResync(p)
      <3>1. PICK v \in t.vs : Step(p, [t EXCEPT !.pc = "sum", !.v = v, !.vs = @ \ {v}])
        BY <2>1 DEF NextResync
      <3> DEFINE u == [t EXCEPT !.pc = "sum", !.v = v, !.vs = @ \ {v}]
      <3>2. u.pc = "sum" /\ u.op = t.op /\ u.rel = t.rel /\ u.want = t.want
        BY <1>0 DEF Tx
      <3>3. Step(p, u)
        BY <3>1
      <3> HIDE DEF u
      <3> QED
        BY <3>2, <3>3
    <2>2. CASE SumAvailable(p)
      <3> DEFINE u == [t EXCEPT !.pc = "set",
                         !.seen = [w \in Warehouse |->
                             IF w \in Active THEN SeenBal(p, w, t.v).available ELSE 0]]
      <3>2. u.pc = "set" /\ u.op = t.op /\ u.rel = t.rel /\ u.want = t.want
        BY <1>0 DEF Tx
      <3>3. Step(p, u)
        BY <2>2 DEF SumAvailable
      <3> HIDE DEF u
      <3> QED
        BY <3>2, <3>3
    <2> QED
      BY <2>1, <2>2
  <1>2. /\ t.pc \in {"next", "sum"}
        /\ UNCHANGED <<bal, cbal, res, cres, held, sweep>>
    BY DEF NextResync, SumAvailable, rows, UnchangedEnv
  <1>3. tx'[p] = u
    BY <1>0, <1>1, Stepped
  <1>4. tx'[p].pc \notin AtWork \cup {"sellDirect"}
    BY <1>1, <1>3 DEF AtWork
  <1>5. SessionRight(p)'
    BY <1>0, <1>1, <1>2, <1>3, <1>4, QuietRight
  <1>6. \A l \in Line, w \in Warehouse : Expected(p, l, w)' = Expected(p, l, w)
    BY <1>1, <1>2, <1>3 DEF Expected, Flying, Standing
  <1> QED
    BY <1>1, <1>2, <1>5, <1>6, ReadKeeps

\* The line a transaction that holds the cart works on, as it reads it.
LEMMA OwnLine ==
  ASSUME BackedInv, NEW p \in Session, NEW l \in Line, tx[p].want[l] > 0
  PROVE  Owns(p, l) /\ SeenRes(p, l) = res[l]
  <1>1. Owns(p, l)
    BY InvOf DEF WorksOnOwn
  <1> QED
    BY <1>1, RestoredRow

LEMMA ReadLineKeeps ==
  ASSUME BackedInv, TypeOK', NEW p \in Session, NEW l \in Line, ReadLine(p, l)
  PROVE  BackedInv'
  <1> DEFINE t == tx[p]
             r == res[l]
             current == IF r.status = "ACTIVE" THEN r.q ELSE 0
             moves == r.status = "ACTIVE" /\ r.w # t.dw
  <1>0. /\ TypeOK /\ t \in Tx /\ WorksOnOwn(p) /\ ReleasesRight(p)
        /\ t.want \in [Line -> Nat] /\ r \in Reservation
    BY InvOf
  <1>1. /\ t.pc = "next" /\ t.rel = {} /\ t.want[l] > 0
        /\ UNCHANGED <<bal, cbal, res, cres, held, sweep>>
    BY DEF ReadLine, rows, UnchangedEnv
  <1>2. Owns(p, l) /\ SeenRes(p, l) = r
    BY <1>1, OwnLine
  <1>3. t.want[l] \in Nat /\ current \in Nat /\ t.dw \in Warehouse /\ r.q \in Nat
    BY <1>0 DEF Reservation, Tx
  <1>4. PICK u : /\ Step(p, u) /\ u.rel = {} /\ u.want = t.want /\ u.op = t.op
                 /\ u.l = l /\ u.v = VariantOf[l]
                 /\ \/ moves /\ u.pc = "claim" /\ u.w = r.w /\ u.q = r.q
                    \/ /\ ~moves /\ u.w = t.dw
                       /\ u.pc = IF t.want[l] > current THEN "take"
                                 ELSE IF t.want[l] < current THEN "give" ELSE "save"
                       /\ u.q = IF t.want[l] > current THEN t.want[l] - current
                                ELSE current - t.want[l]
    <2>1. CASE moves
      <3> DEFINE u == [t EXCEPT !.pc = "claim", !.l = l, !.w = r.w,
                               !.v = VariantOf[l], !.q = r.q]
      <3>1. Step(p, u)
        BY <1>2, <2>1 DEF ReadLine
      <3>2. /\ u.rel = {} /\ u.want = t.want /\ u.op = t.op /\ u.l = l /\ u.v = VariantOf[l]
            /\ u.pc = "claim" /\ u.w = r.w /\ u.q = r.q
        BY <1>0, <1>1 DEF Tx
      <3> HIDE DEF u
      <3> QED
        BY <2>1, <3>1, <3>2
    <2>2. CASE ~moves
      <3> DEFINE pc == IF t.want[l] > current THEN "take"
                       ELSE IF t.want[l] < current THEN "give" ELSE "save"
                 q == IF t.want[l] > current THEN t.want[l] - current
                      ELSE current - t.want[l]
                 u == [t EXCEPT !.pc = pc, !.l = l, !.w = t.dw, !.v = VariantOf[l], !.q = q]
      <3>1. Step(p, u)
        BY <1>2, <2>2 DEF ReadLine
      <3>2. /\ u.rel = {} /\ u.want = t.want /\ u.op = t.op /\ u.l = l /\ u.v = VariantOf[l]
            /\ u.pc = pc /\ u.w = t.dw /\ u.q = q
        <4> HIDE DEF pc, q
        <4> QED
          BY <1>0, <1>1 DEF Tx
      <3> HIDE DEF u
      <3> QED
        BY <2>2, <3>1, <3>2
    <2> QED
      BY <2>1, <2>2
  <1>5. tx'[p] = u
    BY <1>0, <1>4, Stepped
  <1>6. WorksOnOwn(p)'
    BY <1>0, <1>1, <1>2, <1>4, <1>5 DEF WorksOnOwn, Owns
  <1>7. ReleasesRight(p)'
    BY <1>4, <1>5 DEF ReleasesRight
  <1>8. ReadsRight(p)'
    <2>1. CASE moves
      BY <1>1, <1>4, <1>5, <2>1 DEF ReadsRight
    <2>2. CASE ~moves /\ t.want[l] > current
      <3>1. u.pc = "take" /\ u.w = t.dw /\ u.q = t.want[l] - current
        BY <1>4, <2>2
      <3>2. \A w \in Warehouse : Standing(res, l, w) = IF u.w # w THEN 0 ELSE u.want[l] - u.q
        BY <1>3, <1>4, <2>2, <3>1 DEF Standing
      <3>3. u.q <= u.want[l]
        BY <1>3, <1>4, <3>1
      <3> QED
        BY <1>1, <1>4, <1>5, <3>1, <3>2, <3>3 DEF ReadsRight, Standing
    <2>3. CASE ~moves /\ t.want[l] < current
      <3>1. u.pc = "give" /\ u.w = t.dw /\ u.q = current - t.want[l]
        BY <1>3, <1>4, <2>3
      <3>2. r.status = "ACTIVE" /\ r.w = u.w /\ r.q = u.want[l] + u.q
        BY <1>3, <1>4, <2>3, <3>1
      <3> QED
        BY <1>1, <1>4, <1>5, <3>1, <3>2 DEF ReadsRight
    <2>4. CASE ~moves /\ t.want[l] = current
      <3>1. u.pc = "save"
        BY <1>3, <1>4, <2>4
      <3> QED
        BY <1>4, <1>5, <3>1 DEF ReadsRight
    <2> QED
      BY <1>3, <2>1, <2>2, <2>3, <2>4
  <1>9. ASSUME NEW k \in Line, NEW w \in Warehouse
        PROVE  Expected(p, k, w)' = Expected(p, k, w)
    <2>1. Expected(p, k, w) = Standing(res, k, w)
      BY <1>1 DEF Expected, Flying
    <2>2. CASE u.pc \notin Flying \/ k # l
      <3>1. Expected(p, k, w)' = Standing(res', k, w)
        BY <1>4, <1>5, <2>2 DEF Expected, Standing
      <3> QED
        BY <1>1, <2>1, <3>1
    <2>3. CASE u.pc \in Flying /\ k = l
      <3>1. u.pc = "save" /\ ~moves /\ u.w = t.dw /\ t.want[l] = current
        BY <1>3, <1>4, <2>3 DEF Flying
      <3>2. Counts(p, w)' = IF u.w # w THEN 0 ELSE u.want[l]
        BY <1>3, <1>4, <1>5, <3>1 DEF Counts
      <3>3. Standing(res, l, w) = IF u.w # w THEN 0 ELSE u.want[l]
        BY <1>1, <1>3, <1>4, <3>1 DEF Standing
      <3>4. Expected(p, k, w)' = Counts(p, w)'
        BY <1>4, <1>5, <2>3 DEF Expected
      <3> QED
        BY <2>1, <2>3, <3>2, <3>3, <3>4
    <2> QED
      BY <2>2, <2>3
  <1> QED
    BY <1>1, <1>4, <1>6, <1>7, <1>8, <1>9, ReadKeeps DEF SessionRight

LEMMA ReadHoldKeeps ==
  ASSUME BackedInv, TypeOK', NEW p \in Session, NEW l \in Line, ReadHold(p, l)
  PROVE  BackedInv'
  <1> DEFINE t == tx[p]
             r == res[l]
             part == ReservedPart(p, l)
  <1>0. /\ TypeOK /\ t \in Tx /\ WorksOnOwn(p) /\ ReleasesRight(p)
        /\ t.want \in [Line -> Nat] /\ r \in Reservation
    BY InvOf
  <1>1. /\ t.pc = "next" /\ t.op = "consume" /\ t.want[l] > 0
        /\ UNCHANGED <<bal, cbal, res, cres, held, sweep>>
    BY DEF ReadHold, rows, UnchangedEnv
  <1>2. Owns(p, l) /\ SeenRes(p, l) = r
    BY <1>1, OwnLine
  <1>3. t.want[l] \in Nat /\ r.q \in Nat
    BY <1>0 DEF Reservation
  <1>4. /\ part \in Nat /\ (part > 0 => r.status = "ACTIVE" /\ part <= r.q)
    BY <1>2, <1>3 DEF ReservedPart
  <1>5. PICK u : /\ Step(p, u) /\ u.rel = {} /\ u.want = [t.want EXCEPT ![l] = 0]
                 /\ u.op = t.op /\ u.l = l /\ u.v = VariantOf[l]
                 /\ u.pc = (IF part > 0 THEN "mark" ELSE "sellDirect")
                 /\ (part > 0 => u.w = r.w) /\ u.q = part /\ u.d = r.q - part
    <2>1. PICK dw : Step(p, [t EXCEPT !.pc = IF part > 0 THEN "mark" ELSE "sellDirect",
                            !.l = l, !.v = VariantOf[l], !.dw = dw,
                            !.w = IF part > 0 THEN r.w ELSE dw,
                            !.q = part, !.a = DirectPart(p, l),
                            !.d = r.q - part,
                            !.want = [@ EXCEPT ![l] = 0]])
      BY <1>2 DEF ReadHold
    <2> DEFINE pc == IF part > 0 THEN "mark" ELSE "sellDirect"
               uw == IF part > 0 THEN r.w ELSE dw
               a == DirectPart(p, l)
               d == r.q - part
               u == [t EXCEPT !.pc = pc, !.l = l, !.v = VariantOf[l], !.dw = dw, !.w = uw,
                              !.q = part, !.a = a, !.d = d, !.want = [@ EXCEPT ![l] = 0]]
    <2>2. Step(p, u)
      BY <2>1
    <2>3. t.rel = {}
      BY <1>0, <1>1 DEF ReleasesRight
    <2>4. /\ u.rel = {} /\ u.want = [t.want EXCEPT ![l] = 0] /\ u.op = t.op /\ u.l = l
          /\ u.v = VariantOf[l] /\ u.pc = pc /\ u.w = uw /\ u.q = part /\ u.d = d
      <3> HIDE DEF pc, uw, part, a, d
      <3> QED
        BY <1>0, <2>3 DEF Tx
    <2>5. (part > 0 => uw = r.w) /\ d = r.q - part
      OBVIOUS
    <2> HIDE DEF u, part, uw, a, d
    <2> QED
      BY <2>2, <2>4, <2>5
  <1> HIDE DEF part
  <1>6. tx'[p] = u
    BY <1>0, <1>5, Stepped
  <1>7. \A k \in Line : u.want[k] > 0 => t.want[k] > 0
    BY <1>0, <1>5
  <1>8. WorksOnOwn(p)'
    BY <1>0, <1>1, <1>2, <1>5, <1>6, <1>7 DEF WorksOnOwn, Owns
  <1>9. ReleasesRight(p)'
    BY <1>5, <1>6 DEF ReleasesRight
  <1>10. ReadsRight(p)'
    <2>1. CASE part > 0
      <3>1. u.d >= 0 /\ r.q = u.q + u.d
        BY <1>3, <1>4, <1>5, <2>1
      <3> QED
        BY <1>1, <1>4, <1>5, <1>6, <2>1, <3>1 DEF ReadsRight
    <2>2. CASE ~(part > 0)
      BY <1>5, <1>6, <2>2 DEF ReadsRight, AtWork
    <2> QED
      BY <2>1, <2>2
  <1>11. \A k \in Line, w \in Warehouse : Expected(p, k, w)' = Expected(p, k, w)
    <2>1. u.pc \notin Flying /\ t.pc \notin Flying
      BY <1>1, <1>5 DEF Flying
    <2> QED
      BY <1>1, <1>6, <2>1 DEF Expected, Standing
  <1> QED
    BY <1>1, <1>5, <1>8, <1>9, <1>10, <1>11, ReadKeeps DEF SessionRight

\* Claim, SaveReservation and MarkConsumed write the reservation of the line p works on.
LEMMA ReservationKeeps ==
  ASSUME BackedInv, TypeOK', NEW p \in Session, tx[p].pc \in AtWork,
         Free(p, ResRow(tx[p].l)), Lock(p, ResRow(tx[p].l)), NEW u, Step(p, u),
         UNCHANGED <<bal, cbal, cres, sweep>>,
         NEW row, res' = [res EXCEPT ![tx[p].l] = row],
         u.l = tx[p].l \/ u.pc \notin Flying,
         SessionRight(p)',
         \A w \in Warehouse : (IF u.pc \in Flying THEN Counts(p, w)'
                               ELSE Standing(res', tx[p].l, w)) = Expected(p, tx[p].l, w)
  PROVE  BackedInv'
  <1> DEFINE l == tx[p].l
  <1>1. /\ TypeOK /\ LocksApart /\ RowsOwned /\ l \in Line /\ Owns(p, l)
        /\ res \in [Line -> Reservation]
    BY InvOf DEF WorksOnOwn
  <1>2. tx'[p] = u /\ \A o \in Session \ {p} : tx'[o] = tx[o]
    BY <1>1, Stepped
  <1>3. \A k \in Line : ResRow(l) = ResRow(k) => Owns(p, k)
    <2>1. \A k \in Line : ResRow(l) = ResRow(k) => l = k
      BY DEF ResRow
    <2> QED
      BY <1>1, <2>1
  <1>4. /\ LocksApart' /\ RowsOwned' /\ held'[p] = held[p] \cup {ResRow(l)}
        /\ \A o \in Session \ {p} : held'[o] = held[o]
    BY <1>1, <1>3, LockKeeps
  <1>5. \A k \in Line : Owns(p, k)' <=> Owns(p, k)
    <2>1. \A k \in Line : CartRow(CartOf[k]) # ResRow(l)
      BY DEF CartRow, ResRow
    <2> QED
      BY <1>4, <2>1 DEF Owns
  <1>6. \A k \in Line \ {l} : res'[k] = res[k]
    BY <1>1
  <1>7. ASSUME NEW k \in Line, NEW w \in Warehouse, Owns(p, k)'
        PROVE  Expected(p, k, w)' = IF Owns(p, k) THEN Expected(p, k, w) ELSE Standing(res, k, w)
    <2>0. Owns(p, k)
      BY <1>5, <1>7
    <2>1. CASE k = l
      <3>1. Expected(p, k, w)' = IF u.pc \in Flying THEN Counts(p, w)' ELSE Standing(res', l, w)
        BY <1>2, <2>1 DEF Expected, Standing
      <3> QED
        BY <2>0, <2>1, <3>1
    <2>2. CASE k # l
      <3>1. Expected(p, k, w) = Standing(res, k, w)
        BY <2>2 DEF Expected
      <3>2. Expected(p, k, w)' = Standing(res', k, w)
        BY <1>2, <2>2 DEF Expected, Standing
      <3>3. Standing(res', k, w) = Standing(res, k, w)
        BY <1>6, <2>2 DEF Standing
      <3> QED
        BY <2>0, <3>1, <3>2, <3>3
    <2> QED
      BY <2>1, <2>2
  <1>8. \A k \in Line : res'[k] # res[k] => ResRow(k) \in held'[p] /\ Owns(p, k)'
    BY <1>1, <1>4, <1>5, <1>6
  <1>9. \A o \in Session \ {p} : tx'[o] = tx[o] /\ held'[o] = held[o]
    BY <1>2, <1>4
  <1>10. held[p] \subseteq held'[p]
    BY <1>4
  <1> HIDE DEF l
  <1> QED
    BY <1>4, <1>7, <1>8, <1>9, <1>10, QuietKeeps

LEMMA ClaimKeeps ==
  ASSUME BackedInv, TypeOK', NEW p \in Session, Claim(p)
  PROVE  BackedInv'
  <1> DEFINE t == tx[p]
             row == [res[t.l] EXCEPT !.status = ReleasedStatus(t.op)]
             u == [t EXCEPT !.pc = "free"]
  <1>0. /\ TypeOK /\ t \in Tx /\ WorksOnOwn(p) /\ ReleasesRight(p) /\ ReadsRight(p)
        /\ res \in [Line -> Reservation] /\ t.l \in Line /\ t.q \in Nat
        /\ \A r \in t.rel : r \in Snapshot /\ r.l \in Line
    BY InvOf
  <1>1. t.pc = "claim" /\ Free(p, ResRow(t.l)) /\ UNCHANGED <<bal, cbal, cres, sweep>>
    BY DEF Claim, UnchangedEnv
  <1>2. res[t.l].status = "ACTIVE" /\ res[t.l].w = t.w /\ res[t.l].q = t.q
    BY <1>0, <1>1 DEF ReadsRight
  <1>3. res' = [res EXCEPT ![t.l] = row] /\ Lock(p, ResRow(t.l)) /\ Step(p, u)
    BY <1>2 DEF Claim
  <1>4. /\ u.pc = "free" /\ u.l = t.l /\ u.w = t.w /\ u.q = t.q /\ u.rel = t.rel
        /\ u.want = t.want /\ u.op = t.op /\ u.v = t.v
    BY <1>0 DEF Tx
  <1>5. row.status # "ACTIVE"
    BY <1>0 DEF Reservation, ReleasedStatus
  <1> HIDE DEF u, row
  <1>6. tx'[p] = u
    BY <1>0, <1>3, Stepped
  <1>7. held[p] \subseteq held'[p]
    BY <1>0, <1>3 DEF Lock, TypeOK
  <1>8. res'[t.l] = row /\ \A k \in Line \ {t.l} : res'[k] = res[k]
    BY <1>0, <1>3
  <1>9. WorksOnOwn(p)'
    BY <1>0, <1>1, <1>4, <1>6, <1>7 DEF WorksOnOwn, Owns, AtWork
  <1>10. ReleasesRight(p)'
    BY <1>0, <1>1, <1>4, <1>6, <1>8 DEF ReleasesRight, AtWork
  <1>11. ReadsRight(p)'
    BY <1>0, <1>1, <1>4, <1>5, <1>6, <1>8 DEF ReadsRight, AtWork
  <1>12. ASSUME NEW w \in Warehouse
         PROVE  (IF u.pc \in Flying THEN Counts(p, w)' ELSE Standing(res', t.l, w))
                   = Expected(p, t.l, w)
    <2>1. Expected(p, t.l, w) = IF t.w # w THEN 0 ELSE t.q
      BY <1>0, <1>1, <1>2 DEF Expected, Flying, Standing
    <2>2. Counts(p, w)' = IF t.w # w THEN 0 ELSE t.q
      BY <1>0, <1>4, <1>6 DEF Counts
    <2> QED
      BY <1>4, <2>1, <2>2 DEF Flying
  <1>13. t.pc \in AtWork
    BY <1>1 DEF AtWork
  <1> QED
    BY <1>1, <1>3, <1>4, <1>9, <1>10, <1>11, <1>12, <1>13, ReservationKeeps DEF SessionRight

LEMMA SaveReservationKeeps ==
  ASSUME BackedInv, TypeOK', NEW p \in Session, SaveReservation(p)
  PROVE  BackedInv'
  <1> DEFINE t == tx[p]
             row == [status |-> "ACTIVE", w |-> t.w, q |-> t.want[t.l], due |-> FALSE]
             kept == [t EXCEPT !.pc = "sum", !.want = [@ EXCEPT ![t.l] = 0]]
             u == IF t.q # 0 THEN kept ELSE Again(kept)
  <1>0. /\ TypeOK /\ t \in Tx /\ SessionRight(p) /\ ReleasesRight(p)
        /\ res \in [Line -> Reservation] /\ t.l \in Line /\ t.want \in [Line -> Nat]
    BY InvOf
  <1>1. /\ t.pc = "save" /\ Free(p, ResRow(t.l)) /\ UNCHANGED <<bal, cbal, cres, sweep>>
        /\ res' = [res EXCEPT ![t.l] = row] /\ Lock(p, ResRow(t.l)) /\ Step(p, u)
    BY DEF SaveReservation, UnchangedEnv
  <1>2. /\ kept.pc = "sum" /\ kept.rel = t.rel /\ kept.op = t.op
        /\ kept.want = [t.want EXCEPT ![t.l] = 0]
    BY <1>0 DEF Tx
  <1>3. /\ Again(kept).pc = "next" /\ Again(kept).rel = kept.rel
        /\ Again(kept).op = kept.op /\ Again(kept).want = kept.want
    BY DEF Again, Idle
  <1>4. /\ u.pc \in {"sum", "next"} /\ u.rel = t.rel /\ u.op = t.op
        /\ u.want = [t.want EXCEPT ![t.l] = 0]
    BY <1>2, <1>3
  <1> HIDE DEF u, kept
  <1>5. tx'[p] = u
    BY <1>0, <1>1, Stepped
  <1>6. held[p] \subseteq held'[p]
    BY <1>0, <1>1 DEF Lock, TypeOK
  <1>7. u.rel = {}
    BY <1>0, <1>1, <1>4 DEF ReleasesRight
  <1>8. \A k \in Line : u.want[k] > 0 => t.want[k] > 0
    BY <1>0, <1>4
  <1>9. u.pc \notin AtWork \cup {"sellDirect"} /\ u.pc \notin Flying /\ t.pc \in AtWork
    BY <1>1, <1>4 DEF AtWork, Flying
  <1>10. SessionRight(p)'
    BY <1>0, <1>4, <1>5, <1>6, <1>7, <1>8, <1>9, QuietRight
  <1>11. ASSUME NEW w \in Warehouse
         PROVE  (IF u.pc \in Flying THEN Counts(p, w)' ELSE Standing(res', t.l, w))
                   = Expected(p, t.l, w)
    <2>1. Expected(p, t.l, w) = IF t.w # w THEN 0 ELSE t.want[t.l]
      BY <1>0, <1>1 DEF Expected, Flying, Counts
    <2>2. Standing(res', t.l, w) = IF t.w # w THEN 0 ELSE t.want[t.l]
      BY <1>0, <1>1 DEF Standing
    <2> QED
      BY <1>9, <2>1, <2>2
  <1> HIDE DEF row
  <1> QED
    BY <1>1, <1>9, <1>10, <1>11, ReservationKeeps

LEMMA MarkConsumedKeeps ==
  ASSUME BackedInv, TypeOK', NEW p \in Session, MarkConsumed(p)
  PROVE  BackedInv'
  <1> DEFINE t == tx[p]
             row == IF t.d > 0 THEN [res[t.l] EXCEPT !.q = t.d]
                    ELSE [res[t.l] EXCEPT !.status = "CONSUMED"]
             u == [t EXCEPT !.pc = "sellReserved"]
  <1>0. /\ TypeOK /\ t \in Tx /\ WorksOnOwn(p) /\ ReleasesRight(p) /\ ReadsRight(p)
        /\ res \in [Line -> Reservation] /\ t.l \in Line /\ t.q \in Nat /\ t.d \in Int
        /\ res[t.l] \in Reservation
    BY InvOf
  <1>1. /\ t.pc = "mark" /\ Free(p, ResRow(t.l)) /\ UNCHANGED <<bal, cbal, cres, sweep>>
        /\ res' = [res EXCEPT ![t.l] = row] /\ Lock(p, ResRow(t.l)) /\ Step(p, u)
    BY DEF MarkConsumed, UnchangedEnv
  <1>2. /\ res[t.l].status = "ACTIVE" /\ res[t.l].w = t.w /\ res[t.l].q = t.q + t.d
        /\ t.d >= 0 /\ t.v = VariantOf[t.l] /\ t.rel = {}
    BY <1>0, <1>1 DEF ReadsRight, ReleasesRight, AtWork
  <1>3. /\ u.pc = "sellReserved" /\ u.l = t.l /\ u.w = t.w /\ u.q = t.q /\ u.rel = t.rel
        /\ u.want = t.want /\ u.op = t.op /\ u.v = t.v
    BY <1>0 DEF Tx
  <1>4. \A w : (IF row.status = "ACTIVE" /\ row.w = w THEN row.q ELSE 0)
                  = IF t.w # w THEN 0 ELSE t.d
    BY <1>0, <1>2 DEF Reservation
  <1> HIDE DEF u, row
  <1>5. tx'[p] = u
    BY <1>0, <1>1, Stepped
  <1>6. held[p] \subseteq held'[p]
    BY <1>0, <1>1 DEF Lock, TypeOK
  <1>7. res'[t.l] = row
    BY <1>0, <1>1
  <1>8. WorksOnOwn(p)'
    BY <1>0, <1>1, <1>3, <1>5, <1>6 DEF WorksOnOwn, Owns, AtWork
  <1>9. ReleasesRight(p)'
    BY <1>2, <1>3, <1>5 DEF ReleasesRight
  <1>10. ReadsRight(p)'
    BY <1>2, <1>3, <1>5 DEF ReadsRight
  <1>11. ASSUME NEW w \in Warehouse
         PROVE  (IF u.pc \in Flying THEN Counts(p, w)' ELSE Standing(res', t.l, w))
                   = Expected(p, t.l, w)
    <2>1. Expected(p, t.l, w) = IF t.w # w THEN 0 ELSE t.q + t.d
      BY <1>1, <1>2 DEF Expected, Flying, Standing
    <2>2. Standing(res', t.l, w) = IF t.w # w THEN 0 ELSE t.d
      BY <1>4, <1>7 DEF Standing
    <2>3. Counts(p, w)' = Standing(res', t.l, w) + (IF t.w # w THEN 0 ELSE t.q)
      BY <1>3, <1>5 DEF Counts, Standing
    <2>4. Counts(p, w)' = IF t.w # w THEN 0 ELSE t.q + t.d
      BY <1>0, <2>2, <2>3
    <2> QED
      BY <1>3, <2>1, <2>4 DEF Flying
  <1>12. t.pc \in AtWork
    BY <1>1 DEF AtWork
  <1> QED
    BY <1>1, <1>3, <1>8, <1>9, <1>10, <1>11, <1>12, ReservationKeeps DEF SessionRight

\* The update of releaseReservedQuantity matches its row: the balance counts the units.
LEMMA ReleaseMatches ==
  ASSUME BackedInv, NEW p \in Session, tx[p].pc \in {"free", "give"},
         NEW g \in Counted, Ledger(g)
  PROVE  LET t == tx[p]
             n == IF t.pc = "free" THEN 0 ELSE t.want[t.l]
             b == bal[t.w][t.v].reserved IN
         g[t.l][t.w] = n + t.q /\ n \in Nat /\ b \in Nat /\ b >= t.q
  <1> DEFINE t == tx[p]
             n == IF t.pc = "free" THEN 0 ELSE t.want[t.l]
             b == bal[t.w][t.v].reserved
  <1>0. /\ WorksOnOwn(p) /\ ReadsRight(p) /\ t.l \in Line /\ t.w \in Warehouse
        /\ t.q \in Nat /\ t.want \in [Line -> Nat]
    BY InvOf
  <1>1. Owns(p, t.l) /\ t.v = VariantOf[t.l]
    BY <1>0 DEF AtWork, WorksOnOwn, ReadsRight
  <1>2. g[t.l][t.w] = n + t.q /\ n \in Nat
    <2>1. g[t.l][t.w] = Expected(p, t.l, t.w)
      BY <1>0, <1>1 DEF Ledger, Linked
    <2>2. CASE t.pc = "free"
      BY <1>0, <2>1, <2>2 DEF Expected, Flying, Counts
    <2>3. CASE t.pc = "give"
      BY <1>0, <2>1, <2>3 DEF Expected, Flying, Standing, ReadsRight
    <2> QED
      BY <2>2, <2>3
  <1>3. g[t.l][t.w] <= b /\ b \in Nat
    BY <1>0, <1>1, CountedWithin
  <1>4. b >= t.q
    <2> HIDE DEF n, b
    <2> QED
      BY <1>0, <1>2, <1>3
  <1> QED
    BY <1>2, <1>3, <1>4

LEMMA ReleaseReservedQuantityKeeps ==
  ASSUME BackedInv, TypeOK', NEW p \in Session, ReleaseReservedQuantity(p)
  PROVE  BackedInv'
  <1> DEFINE t == tx[p]
             b == bal[t.w][t.v]
             c == [b EXCEPT !.reserved = @ - t.q, !.available = @ + t.q]
             pc == IF t.pc = "free" THEN "sum" ELSE "save"
             u == [t EXCEPT !.pc = pc]
             n == IF t.pc = "free" THEN 0 ELSE t.want[t.l]
  <1>0. /\ TypeOK /\ t \in Tx /\ SessionRight(p) /\ WorksOnOwn(p) /\ ReleasesRight(p)
        /\ ReadsRight(p) /\ t.l \in Line /\ t.w \in Warehouse /\ t.v \in Variant
        /\ t.q \in Nat /\ t.want \in [Line -> Nat] /\ res \in [Line -> Reservation]
    BY InvOf
  <1>1. /\ t.pc \in {"free", "give"} /\ Free(p, BalRow(t.w, t.v))
        /\ UNCHANGED <<cbal, res, cres, sweep>> /\ Step(p, u)
    BY DEF ReleaseReservedQuantity, UnchangedEnv
  <1>2. PICK g \in Counted : Ledger(g)
    BY DEF BackedInv
  <1>3. t.pc \in AtWork /\ Owns(p, t.l) /\ t.v = VariantOf[t.l]
    BY <1>0, <1>1 DEF AtWork, WorksOnOwn, ReadsRight
  <1>4. /\ u.pc = pc /\ u.l = t.l /\ u.w = t.w /\ u.q = t.q /\ u.rel = t.rel
        /\ u.want = t.want /\ u.op = t.op /\ u.v = t.v
    <2> HIDE DEF pc
    <2> QED
      BY <1>0 DEF Tx
  <1> HIDE DEF u
  <1>5. g[t.l][t.w] = n + t.q /\ n \in Nat
    BY <1>1, <1>2, ReleaseMatches
  <1>6. b.reserved \in Nat
    BY <1>1, <1>2, ReleaseMatches
  <1>7. b.reserved >= t.q
    BY <1>1, <1>2, ReleaseMatches
  <1>8. SetBal(p, c)
    BY <1>0, <1>6, <1>7 DEF ReleaseReservedQuantity
  <1>9. c.reserved = b.reserved - g[t.l][t.w] + n
    <2>1. b \in Balance
      BY <1>0 DEF TypeOK
    <2>2. c.reserved = b.reserved - t.q
      BY <2>1 DEF Balance
    <2> QED
      BY <1>0, <1>5, <1>6, <2>2
  <1>10. tx'[p] = u
    BY <1>0, <1>1, Stepped
  <1>11. held[p] \subseteq held'[p]
    BY <1>0, <1>8 DEF SetBal, Lock, TypeOK
  <1>12. SessionRight(p)'
    <2>1. CASE t.pc = "free"
      <3>1. u.pc \notin AtWork \cup {"sellDirect"}
        BY <1>4, <2>1 DEF AtWork
      <3> QED
        BY <1>0, <1>1, <1>4, <1>10, <1>11, <3>1, QuietRight
    <2>2. CASE t.pc = "give"
      <3>1. u.pc = "save" /\ t.rel = {}
        BY <1>0, <1>4, <2>2 DEF ReleasesRight
      <3>2. WorksOnOwn(p)'
        BY <1>0, <1>3, <1>4, <1>10, <1>11, <3>1 DEF WorksOnOwn, Owns
      <3>3. ReleasesRight(p)'
        BY <1>4, <1>10, <3>1 DEF ReleasesRight
      <3>4. ReadsRight(p)'
        BY <1>3, <1>4, <1>10, <3>1 DEF ReadsRight
      <3> QED
        BY <3>2, <3>3, <3>4 DEF SessionRight
    <2> QED
      BY <1>1, <2>1, <2>2
  <1>13. ASSUME NEW x \in Warehouse
         PROVE  Expected(p, tx[p].l, x)' = IF x = t.w THEN n ELSE Expected(p, t.l, x)
    <2>1. CASE t.pc = "free"
      <3>1. Expected(p, t.l, x) = IF t.w # x THEN 0 ELSE t.q
        BY <1>0, <2>1 DEF Expected, Flying, Counts
      <3>2. Expected(p, tx[p].l, x)' = 0
        BY <1>0, <1>1, <1>4, <1>10, <2>1 DEF Expected, Flying, Standing, ReadsRight
      <3> QED
        BY <2>1, <3>1, <3>2
    <2>2. CASE t.pc = "give"
      <3>1. Expected(p, t.l, x) = IF t.w # x THEN 0 ELSE t.want[t.l] + t.q
        BY <1>0, <2>2 DEF Expected, Flying, Standing, ReadsRight
      <3>2. Expected(p, tx[p].l, x)' = IF t.w # x THEN 0 ELSE t.want[t.l]
        BY <1>0, <1>1, <1>4, <1>10, <2>2, SMTT(40) DEF Expected, Flying, Counts
      <3> QED
        BY <2>2, <3>1, <3>2
    <2> QED
      BY <1>1, <2>1, <2>2
  <1> HIDE DEF c, n
  <1> QED
    BY <1>1, <1>2, <1>3, <1>4, <1>5, <1>8, <1>9, <1>12, <1>13, MoveKeeps

LEMMA TakeAvailableKeeps ==
  ASSUME BackedInv, TypeOK', NEW p \in Session, TakeAvailable(p)
  PROVE  BackedInv'
  <1> DEFINE t == tx[p]
             b == bal[t.w][t.v]
             c == [b EXCEPT !.reserved = @ + t.q, !.available = @ - t.q]
             u == [t EXCEPT !.pc = "save"]
             n == t.want[t.l]
  <1>0. /\ TypeOK /\ t \in Tx /\ WorksOnOwn(p) /\ ReleasesRight(p)
        /\ ReadsRight(p) /\ t.l \in Line /\ t.w \in Warehouse /\ t.v \in Variant
        /\ t.q \in Nat /\ t.want \in [Line -> Nat] /\ res \in [Line -> Reservation]
    BY InvOf
  <1>1. /\ t.pc = "take" /\ Free(p, BalRow(t.w, t.v)) /\ SetBal(p, c)
        /\ UNCHANGED <<cbal, res, cres, sweep>> /\ Step(p, u)
    BY DEF TakeAvailable, UnchangedEnv
  <1>2. PICK g \in Counted : Ledger(g)
    BY DEF BackedInv
  <1>3. t.pc \in AtWork /\ Owns(p, t.l) /\ t.v = VariantOf[t.l] /\ n \in Nat /\ t.rel = {}
    BY <1>0, <1>1 DEF AtWork, WorksOnOwn, ReadsRight, ReleasesRight
  <1>4. /\ u.pc = "save" /\ u.l = t.l /\ u.w = t.w /\ u.q = t.q /\ u.rel = t.rel
        /\ u.want = t.want /\ u.op = t.op /\ u.v = t.v
    BY <1>0 DEF Tx
  <1> HIDE DEF u
  <1>5. \A x \in Warehouse : Expected(p, t.l, x) = IF t.w # x THEN 0 ELSE n - t.q
    BY <1>0, <1>1 DEF Expected, Flying, ReadsRight
  <1>6. g[t.l][t.w] = n - t.q
    BY <1>0, <1>2, <1>3, <1>5 DEF Ledger, Linked
  <1>7. c.reserved = b.reserved - g[t.l][t.w] + n
    <2>1. b \in Balance /\ b.reserved \in Nat
      BY <1>0 DEF TypeOK, Balance
    <2>2. c.reserved = b.reserved + t.q
      BY <2>1 DEF Balance
    <2> QED
      BY <1>0, <1>3, <1>6, <2>1, <2>2
  <1>8. tx'[p] = u
    BY <1>0, <1>1, Stepped
  <1>9. held[p] \subseteq held'[p]
    BY <1>0, <1>1 DEF SetBal, Lock, TypeOK
  <1>10. SessionRight(p)'
    <2>1. WorksOnOwn(p)'
      BY <1>0, <1>3, <1>4, <1>8, <1>9 DEF WorksOnOwn, Owns
    <2>2. ReleasesRight(p)'
      BY <1>3, <1>4, <1>8 DEF ReleasesRight
    <2>3. ReadsRight(p)'
      BY <1>3, <1>4, <1>8 DEF ReadsRight
    <2> QED
      BY <2>1, <2>2, <2>3 DEF SessionRight
  <1>11. ASSUME NEW x \in Warehouse
         PROVE  Expected(p, tx[p].l, x)' = IF x = t.w THEN n ELSE Expected(p, t.l, x)
    <2>1. Expected(p, tx[p].l, x)' = IF t.w # x THEN 0 ELSE n
      BY <1>0, <1>1, <1>3, <1>4, <1>8, SMTT(40) DEF Expected, Flying, Counts
    <2> QED
      BY SMTT(40), <1>5, <2>1
  <1> HIDE DEF c, n
  <1> QED
    BY <1>1, <1>2, <1>3, <1>4, <1>7, <1>10, <1>11, MoveKeeps

LEMMA SellReservedKeeps ==
  ASSUME BackedInv, TypeOK', NEW p \in Session, SellReserved(p)
  PROVE  BackedInv'
  <1> DEFINE t == tx[p]
             b == bal[t.w][t.v]
             c == Sell(b, t.q, t.q, 0)
             pc == IF t.a > 0 THEN "sellDirect" ELSE "sum"
             u == [t EXCEPT !.pc = pc, !.w = t.dw]
             n == Standing(res, t.l, t.w)
  <1>0. /\ TypeOK /\ t \in Tx /\ WorksOnOwn(p) /\ ReleasesRight(p)
        /\ ReadsRight(p) /\ t.l \in Line /\ t.w \in Warehouse /\ t.v \in Variant
        /\ t.q \in Nat /\ t.want \in [Line -> Nat] /\ res \in [Line -> Reservation]
    BY InvOf
  <1>1. /\ t.pc = "sellReserved" /\ Free(p, BalRow(t.w, t.v)) /\ SetBal(p, c)
        /\ UNCHANGED <<cbal, res, cres, sweep>> /\ Step(p, u)
    BY DEF SellReserved, UnchangedEnv
  <1>2. PICK g \in Counted : Ledger(g)
    BY DEF BackedInv
  <1>3. t.pc \in AtWork /\ Owns(p, t.l) /\ t.v = VariantOf[t.l] /\ t.rel = {}
    BY <1>0, <1>1 DEF AtWork, WorksOnOwn, ReadsRight, ReleasesRight
  <1>4. n \in Nat
    BY <1>0, StandingNat
  <1>5. /\ u.pc = pc /\ u.l = t.l /\ u.rel = t.rel /\ u.want = t.want /\ u.op = t.op
    <2> HIDE DEF pc
    <2> QED
      BY <1>0 DEF Tx
  <1> HIDE DEF u
  <1>6. \A x \in Warehouse :
           Expected(p, t.l, x) = Standing(res, t.l, x) + (IF t.w # x THEN 0 ELSE t.q)
    BY <1>0, <1>1 DEF Expected, Flying, Counts
  <1>7. g[t.l][t.w] = n + t.q
    BY <1>0, <1>2, <1>3, <1>6 DEF Ledger, Linked
  <1>8. c.reserved = b.reserved - g[t.l][t.w] + n
    <2>1. b \in Balance /\ b.reserved \in Nat
      BY <1>0 DEF TypeOK, Balance
    <2>2. c.reserved = b.reserved - t.q
      BY <2>1 DEF Balance, Sell
    <2> HIDE DEF n
    <2> QED
      BY <1>0, <1>4, <1>7, <2>1, <2>2
  <1>9. tx'[p] = u
    BY <1>0, <1>1, Stepped
  <1>10. held[p] \subseteq held'[p]
    BY <1>0, <1>1 DEF SetBal, Lock, TypeOK
  <1>11. u.pc \notin AtWork /\ u.pc \notin Flying
    BY <1>5 DEF AtWork, Flying
  <1>12. SessionRight(p)'
    <2>1. WorksOnOwn(p)'
      BY <1>0, <1>5, <1>9, <1>10, <1>11 DEF WorksOnOwn, Owns
    <2>2. ReleasesRight(p)'
      BY <1>3, <1>5, <1>9 DEF ReleasesRight
    <2>3. ReadsRight(p)'
      BY <1>9, <1>11 DEF ReadsRight, AtWork
    <2> QED
      BY <2>1, <2>2, <2>3 DEF SessionRight
  <1>13. ASSUME NEW x \in Warehouse
         PROVE  Expected(p, tx[p].l, x)' = IF x = t.w THEN n ELSE Expected(p, t.l, x)
    <2>1. Expected(p, tx[p].l, x)' = Standing(res, t.l, x)
      BY <1>1, <1>5, <1>9, <1>11 DEF Expected, Standing
    <2>2. Standing(res, t.l, x) \in Nat
      BY <1>0, StandingNat
    <2> QED
      BY <1>6, <2>1, <2>2
  <1> HIDE DEF c, n
  <1> QED
    BY <1>1, <1>2, <1>3, <1>4, <1>5, <1>8, <1>12, <1>13, MoveKeeps

\* SellDirect, the absolute write of adjustStock and SetStock leave quantityReserved alone.
LEMMA OtherWritesKeep ==
  ASSUME BackedInv, TypeOK', NEW p \in Session,
         SellDirect(p) \/ UpsertBalance(p) \/ SetStock(p)
  PROVE  BackedInv'
  <1> DEFINE t == tx[p]
  <1>0. /\ TypeOK /\ t \in Tx /\ SessionRight(p) /\ LocksApart /\ RowsOwned
        /\ t.w \in Warehouse /\ t.v \in Variant
    BY InvOf
  <1>1. /\ t.pc \in {"sellDirect", "upsert", "set"}
        /\ UNCHANGED <<cbal, res, cres, sweep>>
    BY DEF SellDirect, UpsertBalance, SetStock, UnchangedEnv
  <1>2. PICK u : /\ Step(p, u) /\ u.pc \in {"sum", "next"}
                 /\ u.op = t.op /\ u.rel = t.rel /\ u.want = t.want
    <2>1. CASE SellDirect(p) \/ UpsertBalance(p)
      <3> DEFINE u == [t EXCEPT !.pc = "sum"]
      <3>1. u.pc = "sum" /\ u.op = t.op /\ u.rel = t.rel /\ u.want = t.want
        BY <1>0 DEF Tx
      <3>2. Step(p, u)
        BY <2>1 DEF SellDirect, UpsertBalance
      <3> HIDE DEF u
      <3> QED
        BY <3>1, <3>2
    <2>2. CASE SetStock(p)
      <3>1. /\ Again(t).pc = "next" /\ Again(t).op = t.op /\ Again(t).rel = t.rel
            /\ Again(t).want = t.want
        BY DEF Again, Idle
      <3>2. Step(p, Again(t))
        BY <2>2 DEF SetStock
      <3> QED
        BY <3>1, <3>2
    <2> QED
      BY <2>1, <2>2
  <1>3. PICK row : /\ Free(p, row) /\ Lock(p, row)
                   /\ row = BalRow(t.w, t.v) \/ row = StockRow(t.v)
    BY DEF SellDirect, UpsertBalance, SetStock, SetBal
  <1>4. \A k \in Line : row # ResRow(k) /\ row # CartRow(CartOf[k])
    BY <1>3 DEF BalRow, ResRow, StockRow, CartRow
  <1>5. /\ LocksApart' /\ RowsOwned' /\ held'[p] = held[p] \cup {row}
        /\ \A o \in Session \ {p} : held'[o] = held[o]
    BY <1>0, <1>3, <1>4, LockKeeps
  <1>6. tx'[p] = u /\ \A o \in Session \ {p} : tx'[o] = tx[o]
    BY <1>0, <1>2, Stepped
  <1>7. \A x \in Warehouse, v \in Variant : bal'[x][v].reserved = bal[x][v].reserved
    <2> DEFINE b == bal[t.w][t.v]
    <2>0. b \in Balance
      BY <1>0 DEF TypeOK
    <2>1. CASE SetStock(p)
      BY <2>1 DEF SetStock
    <2>2. CASE SellDirect(p) \/ UpsertBalance(p)
      <3>1. PICK c : SetBal(p, c) /\ c.reserved = b.reserved
        <4>1. CASE SellDirect(p)
          <5>1. Sell(b, t.a, 0, t.a).reserved = b.reserved
            BY <2>0 DEF Sell, Balance
          <5>2. SetBal(p, Sell(b, t.a, 0, t.a))
            BY <4>1 DEF SellDirect
          <5> QED
            BY <5>1, <5>2
        <4>2. CASE UpsertBalance(p)
          <5> DEFINE c == [b EXCEPT !.onHand = t.q, !.available = t.a, !.moved = @ + t.d]
          <5>1. c.reserved = b.reserved
            BY <2>0 DEF Balance
          <5>2. SetBal(p, c)
            BY <4>2 DEF UpsertBalance
          <5> HIDE DEF c
          <5> QED
            BY <5>1, <5>2
        <4> QED
          BY <2>2, <4>1, <4>2
      <3> QED
        BY <1>0, <3>1 DEF SetBal, TypeOK
    <2> QED
      BY <2>1, <2>2
  <1>8. u.pc \notin AtWork \cup {"sellDirect"} /\ u.pc \notin Flying /\ t.pc \notin Flying
    BY <1>1, <1>2 DEF AtWork, Flying
  <1>9. held[p] \subseteq held'[p]
    BY <1>5
  <1>10. SessionRight(p)'
    BY <1>0, <1>1, <1>2, <1>6, <1>8, <1>9, QuietRight
  <1>11. \A k \in Line, x \in Warehouse : Expected(p, k, x)' = Expected(p, k, x)
    BY <1>1, <1>6, <1>8 DEF Expected, Standing
  <1>12. \A k \in Line : Owns(p, k)' <=> Owns(p, k)
    BY <1>4, <1>5 DEF Owns
  <1>13. \A o \in Session \ {p} : tx'[o] = tx[o] /\ held'[o] = held[o]
    BY <1>5, <1>6
  <1>14. \A l \in Line : res'[l] # res[l] => ResRow(l) \in held'[p] /\ Owns(p, l)'
    BY <1>1
  <1>15. \A l \in Line, w \in Warehouse : Owns(p, l)' =>
            Expected(p, l, w)' = IF Owns(p, l) THEN Expected(p, l, w) ELSE Standing(res, l, w)
    BY <1>11, <1>12
  <1> QED
    BY <1>1, <1>5, <1>7, <1>9, <1>10, <1>13, <1>14, <1>15, QuietKeeps

\* An operation on a cart begins: it locks the cart row and reads the reservations.
LEMMA OpenKeeps ==
  ASSUME BackedInv, TypeOK', NEW p \in Session, tx[p].pc = "idle", NEW c,
         Free(p, CartRow(c)), Lock(p, CartRow(c)), NEW u, Step(p, u), u.pc = "next",
         UNCHANGED <<bal, cbal, res, cres, sweep>>, u.op = "consume" => u.rel = {},
         \A r \in u.rel : /\ r.l \in Line /\ CartOf[r.l] = c
                          /\ SeenRes(p, r.l).status = "ACTIVE"
                          /\ r.w = SeenRes(p, r.l).w /\ r.q = SeenRes(p, r.l).q,
         \A l \in Line : u.want[l] > 0 => CartOf[l] = c
  PROVE  BackedInv'
  <1>0. TypeOK /\ Serial /\ LocksApart /\ RowsOwned
    BY InvOf
  <1>1. \A k \in Line : CartRow(c) # ResRow(k)
    BY DEF CartRow, ResRow
  <1>2. /\ LocksApart' /\ RowsOwned' /\ held'[p] = held[p] \cup {CartRow(c)}
        /\ \A o \in Session \ {p} : held'[o] = held[o]
    BY <1>0, <1>1, LockKeeps
  <1>3. tx'[p] = u /\ \A o \in Session \ {p} : tx'[o] = tx[o]
    BY <1>0, Stepped
  <1>4. \A l \in Line : CartOf[l] = c => Owns(p, l)'
    BY <1>2 DEF Owns
  <1>5. ASSUME NEW l \in Line, CartOf[l] = c PROVE SeenRes(p, l) = res[l]
    <2>1. \A o \in Session \ {p} : ~Owns(o, l)
      BY <1>5 DEF Owns, Free
    <2> QED
      BY <1>0, <2>1, OwnerSees
  <1>6. WorksOnOwn(p)'
    BY <1>3, <1>4 DEF WorksOnOwn, AtWork
  <1>7. ReleasesRight(p)'
    <2>1. \A r \in u.rel : res'[r.l].status = "ACTIVE" /\ res'[r.l].w = r.w /\ res'[r.l].q = r.q
      BY <1>5
    <2> QED
      BY <1>3, <2>1 DEF ReleasesRight, AtWork
  <1>8. ReadsRight(p)'
    BY <1>3 DEF ReadsRight, AtWork
  <1>9. SessionRight(p)'
    BY <1>6, <1>7, <1>8 DEF SessionRight
  <1>10. \A l \in Line, w \in Warehouse :
            /\ Expected(p, l, w)' = Standing(res, l, w)
            /\ Expected(p, l, w) = Standing(res, l, w)
    BY <1>3 DEF Expected, Flying, Standing
  <1>11. \A o \in Session \ {p} : tx'[o] = tx[o] /\ held'[o] = held[o]
    BY <1>2, <1>3
  <1>12. held[p] \subseteq held'[p]
    BY <1>2
  <1>13. \A l \in Line : res'[l] # res[l] => ResRow(l) \in held'[p] /\ Owns(p, l)'
    OBVIOUS
  <1>14. \A w \in Warehouse, v \in Variant : bal'[w][v].reserved = bal[w][v].reserved
    OBVIOUS
  <1>15. \A l \in Line, w \in Warehouse : Owns(p, l)' =>
            Expected(p, l, w)' = IF Owns(p, l) THEN Expected(p, l, w) ELSE Standing(res, l, w)
    BY <1>10
  <1> QED
    BY <1>2, <1>9, <1>11, <1>12, <1>13, <1>14, <1>15, QuietKeeps

LEMMA OpenedFields ==
  ASSUME NEW op, NEW rel, NEW want, NEW dw
  PROVE  LET r == [Idle EXCEPT !.op = op, !.pc = "next", !.rel = rel, !.want = want, !.dw = dw]
             c == [Idle EXCEPT !.op = op, !.pc = "next", !.want = want]
             d == [Idle EXCEPT !.op = op, !.pc = "next", !.rel = rel] IN
         /\ r.op = op /\ r.pc = "next" /\ r.rel = rel /\ r.want = want
         /\ c.op = op /\ c.pc = "next" /\ c.rel = {} /\ c.want = want
         /\ d.op = op /\ d.pc = "next" /\ d.rel = rel /\ d.want = Nothing
  BY DEF Idle

LEMMA BeginKeeps ==
  ASSUME BackedInv, TypeOK', "abandon" \notin Ops, NEW p \in Session, Begin(p)
  PROVE  BackedInv'
  <1> DEFINE Reads(c, rel) ==
        \A r \in rel : /\ r.l \in Line /\ CartOf[r.l] = c
                       /\ SeenRes(p, r.l).status = "ACTIVE"
                       /\ r.w = SeenRes(p, r.l).w /\ r.q = SeenRes(p, r.l).q
  <1>1. ASSUME NEW c, NEW L \in SUBSET Line PROVE Reads(c, ActiveOf(p, c, L))
    BY DEF ActiveOf
  <1> HIDE DEF Reads
  <1>2. ASSUME NEW c \in Cart, NEW want \in Wants(c), BeginReserve(p, c, want) PROVE BackedInv'
    <2> DEFINE rel == ActiveOf(p, c, {l \in Line : want[l] = 0})
    <2>1. PICK dw \in SalesWarehouse :
            Step(p, [Idle EXCEPT !.op = "reserve", !.pc = "next", !.rel = rel,
                                 !.want = want, !.dw = dw])
      BY <1>2 DEF BeginReserve
    <2>2. Reads(c, rel)
      BY <1>1
    <2> HIDE DEF rel
    <2> DEFINE u == [Idle EXCEPT !.op = "reserve", !.pc = "next", !.rel = rel,
                                 !.want = want, !.dw = dw]
    <2>3. u.op = "reserve" /\ u.pc = "next" /\ u.rel = rel /\ u.want = want
      BY OpenedFields
    <2>4. Step(p, u)
      BY <2>1
    <2> HIDE DEF u
    <2>5. /\ tx[p].pc = "idle" /\ Free(p, CartRow(c)) /\ Lock(p, CartRow(c))
          /\ UNCHANGED <<bal, cbal, res, cres, sweep>>
      BY <1>2 DEF BeginReserve, rows, UnchangedEnv
    <2>6. \A l \in Line : u.want[l] > 0 => CartOf[l] = c
      BY <2>3 DEF Wants
    <2> QED
      BY <2>2, <2>3, <2>4, <2>5, <2>6, OpenKeeps DEF Reads
  <1>3. ASSUME NEW c \in Cart, NEW want \in Wants(c), BeginConsume(p, c, want) PROVE BackedInv'
    <2> DEFINE u == [Idle EXCEPT !.op = "consume", !.pc = "next", !.want = want]
    <2>1. u.op = "consume" /\ u.pc = "next" /\ u.rel = {} /\ u.want = want
      BY OpenedFields
    <2>2. Step(p, u)
      BY <1>3 DEF BeginConsume
    <2> HIDE DEF u
    <2>3. /\ tx[p].pc = "idle" /\ Free(p, CartRow(c)) /\ Lock(p, CartRow(c))
          /\ UNCHANGED <<bal, cbal, res, cres, sweep>>
      BY <1>3 DEF BeginConsume, rows, UnchangedEnv
    <2>4. \A l \in Line : u.want[l] > 0 => CartOf[l] = c
      BY <2>1 DEF Wants
    <2> QED
      BY <2>1, <2>2, <2>3, <2>4, OpenKeeps
  <1>4. ASSUME NEW c \in Cart, BeginRelease(p, c) PROVE BackedInv'
    <2> DEFINE rel == ActiveOf(p, c, Line)
    <2>1. Reads(c, rel)
      BY <1>1
    <2>2. Step(p, [Idle EXCEPT !.op = "release", !.pc = "next", !.rel = rel])
      BY <1>4 DEF BeginRelease
    <2> HIDE DEF rel
    <2> DEFINE u == [Idle EXCEPT !.op = "release", !.pc = "next", !.rel = rel]
    <2>3. u.op = "release" /\ u.pc = "next" /\ u.rel = rel /\ u.want = Nothing
      BY OpenedFields
    <2>4. Step(p, u)
      BY <2>2
    <2> HIDE DEF u
    <2>5. /\ tx[p].pc = "idle" /\ Free(p, CartRow(c)) /\ Lock(p, CartRow(c))
          /\ UNCHANGED <<bal, cbal, res, cres, sweep>>
      BY <1>4 DEF BeginRelease, rows, UnchangedEnv
    <2>6. \A l \in Line : u.want[l] > 0 => CartOf[l] = c
      BY <2>3 DEF Nothing
    <2> QED
      BY <2>1, <2>3, <2>4, <2>5, <2>6, OpenKeeps DEF Reads
  <1>5. ASSUME NEW w \in Warehouse, NEW v \in Variant, NEW d, BeginAdjust(p, w, v, d)
        PROVE  BackedInv'
    <2>0. PICK q, a : Step(p, [Idle EXCEPT !.op = "adjust", !.pc = "upsert", !.w = w, !.v = v,
                                           !.q = q, !.a = a, !.d = d])
      BY <1>5 DEF BeginAdjust
    <2> DEFINE u == [Idle EXCEPT !.op = "adjust", !.pc = "upsert", !.w = w, !.v = v,
                                 !.q = q, !.a = a, !.d = d]
    <2>1. Step(p, u)
      BY <2>0
    <2>2. u.op = "adjust" /\ u.pc = "upsert" /\ u.rel = {} /\ u.want = Nothing
      BY DEF Idle
    <2> HIDE DEF u
    <2>3. tx[p].pc = "idle" /\ UNCHANGED <<bal, cbal, res, cres, held, sweep>>
      BY <1>5 DEF BeginAdjust, rows, UnchangedEnv
    <2>4. tx'[p] = u
      BY <2>1, InvOf, Stepped
    <2>5. WorksOnOwn(p)'
      BY <2>2, <2>4 DEF WorksOnOwn, AtWork, Nothing
    <2>6. ReleasesRight(p)'
      BY <2>2, <2>4 DEF ReleasesRight
    <2>7. ReadsRight(p)'
      BY <2>2, <2>4 DEF ReadsRight, AtWork
    <2>8. \A l \in Line, x \in Warehouse : Expected(p, l, x)' = Expected(p, l, x)
      BY <2>2, <2>3, <2>4 DEF Expected, Flying, Standing
    <2> QED
      BY <2>1, <2>3, <2>5, <2>6, <2>7, <2>8, ReadKeeps DEF SessionRight
  <1>6. \A c : ~BeginAbandon(p, c)
    BY DEF BeginAbandon
  <1> QED
    BY <1>2, <1>3, <1>4, <1>5, <1>6 DEF Begin

LEMMA BeginJobKeeps ==
  ASSUME BackedInv, TypeOK', NEW p \in Session, BeginJob(p)
  PROVE  BackedInv'
  <1>1. ~BeginExpire(p)
    BY DEF BeginExpire, BackedInv
  <1>2. PICK w \in Warehouse, vs \in SUBSET Variant : BeginResync(p, w, vs)
    BY <1>1 DEF BeginJob
  <1> DEFINE u == [Idle EXCEPT !.op = "warehouse", !.pc = "next", !.vs = vs]
  <1>3. Step(p, u)
    BY <1>2 DEF BeginResync
  <1>4. u.op = "warehouse" /\ u.pc = "next" /\ u.rel = {} /\ u.want = Nothing
    BY DEF Idle
  <1> HIDE DEF u
  <1>5. tx[p].pc = "idle" /\ UNCHANGED <<bal, cbal, res, cres, held, sweep>>
    BY <1>2 DEF BeginResync, rows
  <1>6. tx'[p] = u
    BY <1>3, InvOf, Stepped
  <1>7. WorksOnOwn(p)'
    BY <1>4, <1>6 DEF WorksOnOwn, AtWork, Nothing
  <1>8. ReleasesRight(p)'
    BY <1>4, <1>6 DEF ReleasesRight
  <1>9. ReadsRight(p)'
    BY <1>4, <1>6 DEF ReadsRight, AtWork
  <1>10. \A l \in Line, x \in Warehouse : Expected(p, l, x)' = Expected(p, l, x)
    BY <1>4, <1>5, <1>6 DEF Expected, Flying, Standing
  <1> QED
    BY <1>3, <1>5, <1>7, <1>8, <1>9, <1>10, ReadKeeps DEF SessionRight

LEMMA NextKeepsBacked ==
  ASSUME "expire" \notin Ops, "abandon" \notin Ops, BackedInv, [Next]_vars
  PROVE  BackedInv'
  <1>0. TypeOK'
    BY NextTypeOK DEF BackedInv
  <1>1. ASSUME NEW p \in Session, Begin(p) \/ BeginJob(p) PROVE BackedInv'
    BY <1>0, <1>1, BeginKeeps, BeginJobKeeps
  <1>2. ASSUME NEW p \in Session, Proceed(p) PROVE BackedInv'
    <2>1. CASE Throw(p) \/ DeadlockVictim(p)
      BY <1>0, <2>1, RollbackKeeps DEF Throw, DeadlockVictim
    <2> QED
      BY <1>0, <1>2, <2>1, NextReleaseKeeps, ClaimKeeps, ReleaseReservedQuantityKeeps,
         ReadLineKeeps, ReadHoldKeeps, TakeAvailableKeeps, SaveReservationKeeps,
         MarkConsumedKeeps, SellReservedKeeps, OtherWritesKeep, AsideKeeps, CommitKeeps
         DEF Proceed
  <1>3. ASSUME NEW p \in Session, Crash(p) PROVE BackedInv'
    BY <1>0, <1>3, RollbackKeeps DEF Crash
  <1>4. ASSUME \/ \E l \in Line : Tick(l)
               \/ ReadExpired
               \/ ChangeWarehouse
               \/ UNCHANGED vars
        PROVE  UNCHANGED <<bal, cbal, res, cres, held, tx, sweep>>
    BY <1>4 DEF Tick, ReadExpired, ChangeWarehouse, CreateWarehouse, UpdateWarehouse,
                RemoveWarehouse, rows, vars
  <1>5. ASSUME UNCHANGED <<bal, cbal, res, cres, held, tx, sweep>> PROVE BackedInv'
    <2>1. PICK g \in Counted : Ledger(g)
      BY DEF BackedInv
    <2>2. Ledger(g)'
      BY <1>5, <2>1 DEF Ledger, Backed, Linked, Guarded, Owns, Expected, Counts, Standing
    <2>3. Serial'
      BY <1>5 DEF BackedInv, Serial, LocksApart, RowsOwned, CleanRes, SessionRight, WorksOnOwn,
                  ReleasesRight, ReadsRight, Owns, Standing
    <2>4. Backed(cbal, StandingIn(cres))'
      BY <1>5 DEF BackedInv, Backed, StandingIn, Standing
    <2> QED
      BY <1>0, <1>5, <2>1, <2>2, <2>3, <2>4 DEF BackedInv
  <1> QED
    BY <1>1, <1>2, <1>3, <1>4, <1>5 DEF Next

\* Nothing is reserved at the start.
LEMMA InitBacked == ASSUME Init PROVE BackedInv
  <1>0. TypeOK
    BY InitTypeOK
  <1> DEFINE g == [l \in Line |-> [w \in Warehouse |-> 0]]
  <1>1. /\ \A l \in Line : res[l].status = "NONE" /\ cres[l].status = "NONE" /\ res[l] = cres[l]
        /\ \A p \in Session : held[p] = {} /\ tx[p] = Idle
        /\ \A w \in Warehouse, v \in Variant : bal[w][v].reserved = 0 /\ cbal[w][v].reserved = 0
        /\ sweep = {}
    BY DEF Init
  <1>2. \A l \in Line, w \in Warehouse :
          Standing(res, l, w) = 0 /\ Standing(cres, l, w) = 0
    BY <1>1 DEF Standing
  <1>3. ASSUME NEW f, NEW v, \A l \in LinesOf(v) : f[l] = 0
        PROVE  Total(f, LinesOf(v)) = 0
    <2>1. \A l \in LinesOf(v) : 1..f[l] = {}
      BY <1>3
    <2>2. UNION {{l} \X (1..f[l]) : l \in LinesOf(v)} = {}
      BY <2>1
    <2> QED
      BY <2>2, FS_EmptySet DEF Total
  <1>4. ASSUME NEW w \in Warehouse, NEW v \in Variant
        PROVE  /\ Total([l \in Line |-> g[l][w]], LinesOf(v)) = 0
               /\ Total([l \in Line |-> StandingIn(cres)[l][w]], LinesOf(v)) = 0
    <2> DEFINE f == [l \in Line |-> g[l][w]]
               e == [l \in Line |-> StandingIn(cres)[l][w]]
    <2>1. \A l \in LinesOf(v) : f[l] = 0 /\ e[l] = 0
      BY <1>2 DEF LinesOf, StandingIn
    <2>2. Total(f, LinesOf(v)) = 0 /\ Total(e, LinesOf(v)) = 0
      <3> HIDE DEF f, e
      <3> QED
        BY <1>3, <2>1
    <2> QED
      BY <2>2
  <1>5. Backed(bal, g) /\ Backed(cbal, StandingIn(cres))
    BY <1>1, <1>4 DEF Backed
  <1>6. \A p \in Session, l \in Line : ~Owns(p, l)
    BY <1>1 DEF Owns
  <1>7. g \in Counted
    BY DEF Counted
  <1>8. Linked(g) /\ Guarded(g)
    BY <1>2, <1>6 DEF Linked, Guarded
  <1>9. ASSUME NEW p \in Session PROVE SessionRight(p)
    <2>1. /\ tx[p].pc = "idle" /\ tx[p].op = "none" /\ tx[p].rel = {}
          /\ \A l \in Line : tx[p].want[l] = 0
      <3>1. tx[p] = Idle
        BY <1>1
      <3> QED
        BY <3>1 DEF Idle, Nothing
    <2> QED
      BY <2>1 DEF SessionRight, WorksOnOwn, ReleasesRight, ReadsRight, AtWork
  <1>10. LocksApart /\ RowsOwned /\ CleanRes
    BY <1>1 DEF LocksApart, RowsOwned, CleanRes
  <1> HIDE DEF g
  <1> QED
    BY <1>0, <1>1, <1>5, <1>7, <1>8, <1>9, <1>10 DEF BackedInv, Ledger, Serial

\* While neither the expiry job nor the abandoned-cart sweep releases a reservation it read
\* without the cart's lock, quantityReserved of every committed balance row is what the ACTIVE
\* reservations of its variant hold in its warehouse, for any number of warehouses, carts,
\* lines and sessions, whatever is reserved, moved, given back, sold in part, refused, rolled
\* back or lost in a crash.
THEOREM ReservationsBackReserved ==
  ASSUME "expire" \notin Ops, "abandon" \notin Ops
  PROVE  Spec => []ReservedBacked
  <1>1. Init => BackedInv
    BY InitBacked
  <1>2. BackedInv /\ [Next]_vars => BackedInv'
    BY NextKeepsBacked
  <1>3. BackedInv => ReservedBacked
    BY BackedRows DEF BackedInv
  <1> QED
    BY <1>1, <1>2, <1>3, PTL DEF Spec

----------------------------------------------------------------------------
(* The stock read model *)

\* Nobody else changes the balances of a variant a session has changed.
OneWriter == (\A a, b \in Warehouse : a = b) \/ (\A p, o \in Session : p = o)

\* What the sync writes of (v, w), given the balances b.
Shown(b, v, w) == IF w \in Active THEN b[w][v].available ELSE 0

Touched(p, v) == \E w \in Warehouse : BalRow(w, v) \in held[p]

\* p's transaction is on its way to the sync of v.
Due(p, v) ==
    /\ tx[p].v = v
    /\ tx[p].pc \in {"sum", "set", "sellDirect"} \/ (tx[p].pc = "save" /\ tx[p].q # 0)

CleanBal == \A w \in Warehouse, v \in Variant :
    (\A p \in Session : BalRow(w, v) \notin held[p]) => bal[w][v] = cbal[w][v]
CleanStock == \A v \in Variant :
    (\A p \in Session : StockRow(v) \notin held[p]) => stock[v] = cstock[v]

\* The variants whose balances p has changed are synced, or about to be.
Synced(p, v) == StockRow(v) \in held[p] /\ \A w \in Warehouse : stock[v][w] = Shown(bal, v, w)

FreshSession(p) ==
    /\ tx[p].vs = {}
    /\ tx[p].pc \in {"take", "give"} => tx[p].q # 0
    /\ tx[p].pc \in {"sum", "set"} \/ (tx[p].pc = "save" /\ tx[p].q # 0) => Touched(p, tx[p].v)
    /\ tx[p].pc = "set" => \A w \in Warehouse : tx[p].seen[w] = Shown(bal, tx[p].v, w)
    /\ \A v \in Variant : StockRow(v) \in held[p] => Touched(p, v)
    /\ \A v \in Variant : Touched(p, v) => Due(p, v) \/ Synced(p, v)

FreshRows == \A v \in Variant, w \in Warehouse : cstock[v][w] = Shown(cbal, v, w)

FreshInv == /\ BackedInv /\ resync = {} /\ CleanBal /\ CleanStock /\ FreshRows
            /\ \A p \in Session : FreshSession(p)

LEMMA FreshTotals == FreshInv => StockFresh
  <1> SUFFICES ASSUME FreshInv, NEW v \in Variant
               PROVE  Total(cstock[v], Warehouse)
                        = Total([w \in Warehouse |-> cbal[w][v].available], Active)
    BY DEF StockFresh
  <1> DEFINE f == [w \in Warehouse |-> cbal[w][v].available]
             h == cstock[v]
  <1>1. Active \subseteq Warehouse
    BY DEF Active
  <1>2. \A w \in Active : f[w] = h[w]
    BY <1>1 DEF FreshInv, FreshRows, Shown
  <1>3. \A w \in Warehouse \ Active : h[w] = 0
    BY DEF FreshInv, FreshRows, Shown
  <1>4. Total(f, Active) = Total(h, Warehouse)
    <2> HIDE DEF f, h
    <2> QED
      BY <1>1, <1>2, <1>3, TotalOfSome
  <1> QED
    BY <1>4

\* A session that has changed a balance of v is the only one that has.
LEMMA Alone ==
  ASSUME OneWriter, LocksApart, NEW p \in Session, NEW v, Touched(p, v),
         NEW o \in Session, o # p, NEW w \in Warehouse
  PROVE  BalRow(w, v) \notin held[o]
  <1>1. PICK x \in Warehouse : BalRow(x, v) \in held[p]
    BY DEF Touched
  <1>2. x = w
    BY DEF OneWriter
  <1> QED
    BY <1>1, <1>2 DEF LocksApart

LEMMA OthersFresh ==
  ASSUME NEW o \in Session, FreshSession(o), tx'[o] = tx[o], held'[o] = held[o], wh' = wh,
         tx[o] \in Tx,
         \A v \in Variant, w \in Warehouse : Touched(o, v) => bal'[w][v] = bal[w][v],
         \A v \in Variant : StockRow(v) \in held[o] => stock'[v] = stock[v]
  PROVE  FreshSession(o)'
  <1>0. Active' = Active /\ tx[o].v \in Variant
    BY DEF Active, Tx
  <1>1. \A v \in Variant : Touched(o, v)' <=> Touched(o, v)
    BY DEF Touched
  <1>2. \A v \in Variant, w \in Warehouse : Touched(o, v) => Shown(bal, v, w)' = Shown(bal, v, w)
    BY <1>0 DEF Shown
  <1>3. tx[o].pc = "set" => Touched(o, tx[o].v)
    BY DEF FreshSession
  <1>4. tx'[o].pc = "set" => \A w \in Warehouse : tx'[o].seen[w] = Shown(bal, tx[o].v, w)'
    <2> SUFFICES ASSUME tx[o].pc = "set", NEW w \in Warehouse
                 PROVE  tx[o].seen[w] = Shown(bal, tx[o].v, w)'
      OBVIOUS
    <2>1. tx[o].seen[w] = Shown(bal, tx[o].v, w)
      BY DEF FreshSession
    <2>2. bal'[w][tx[o].v] = bal[w][tx[o].v]
      BY <1>0, <1>3
    <2> QED
      BY <1>0, <2>1, <2>2 DEF Shown
  <1>5. \A v \in Variant : Due(o, v)' <=> Due(o, v)
    BY DEF Due
  <1>6. ASSUME NEW v \in Variant, Touched(o, v), Synced(o, v) PROVE Synced(o, v)'
    <2>1. stock'[v] = stock[v]
      BY <1>6 DEF Synced
    <2> QED
      BY <1>2, <1>6, <2>1 DEF Synced
  <1>7. \A v \in Variant : Touched(o, v)' => Due(o, v)' \/ Synced(o, v)'
    BY <1>1, <1>5, <1>6 DEF FreshSession
  <1>8. /\ tx'[o].vs = {} /\ (tx'[o].pc \in {"take", "give"} => tx'[o].q # 0)
        /\ (tx'[o].pc \in {"sum", "set"} \/ (tx'[o].pc = "save" /\ tx'[o].q # 0) => Touched(o, tx[o].v)')
    BY <1>0, <1>1 DEF FreshSession, Touched
  <1>9. \A v \in Variant : StockRow(v) \in held'[o] => Touched(o, v)'
    BY <1>1 DEF FreshSession
  <1> QED
    BY <1>4, <1>7, <1>8, <1>9 DEF FreshSession, Touched, Shown

\* A statement of p keeps the read model when it writes only rows it has locked.
LEMMA StatementFresh ==
  ASSUME OneWriter, FreshInv, BackedInv', NEW p \in Session,
         \A o \in Session \ {p} : tx'[o] = tx[o] /\ held'[o] = held[o],
         held[p] \subseteq held'[p], UNCHANGED <<cbal, cstock, wh, resync>>,
         \A w \in Warehouse, v \in Variant :
            bal'[w][v] # bal[w][v] => BalRow(w, v) \in held'[p],
         \A v \in Variant : stock'[v] # stock[v] => StockRow(v) \in held'[p],
         FreshSession(p)'
  PROVE  FreshInv'
  <1>1. LocksApart' /\ \A o \in Session : tx[o] \in Tx
    BY DEF BackedInv, Serial, FreshInv, TypeOK
  <1>2. ASSUME NEW o \in Session PROVE FreshSession(o)'
    <2>1. CASE o = p
      BY <2>1
    <2>2. CASE o # p
      <3>1. ASSUME NEW v \in Variant, NEW w \in Warehouse, Touched(o, v)
            PROVE  bal'[w][v] = bal[w][v]
        <4>1. PICK x \in Warehouse : BalRow(x, v) \in held'[o]
          BY <2>2, <3>1 DEF Touched
        <4>2. x = w
          BY <2>2 DEF OneWriter
        <4>3. BalRow(w, v) \notin held'[p]
          BY <1>1, <2>2, <4>1, <4>2 DEF LocksApart
        <4> QED
          BY <4>3
      <3>2. ASSUME NEW v \in Variant, StockRow(v) \in held[o] PROVE stock'[v] = stock[v]
        <4>1. StockRow(v) \notin held'[p]
          BY <1>1, <2>2, <3>2 DEF LocksApart
        <4> QED
          BY <4>1
      <3>3. tx'[o] = tx[o] /\ held'[o] = held[o] /\ FreshSession(o) /\ tx[o] \in Tx /\ wh' = wh
        BY <1>1, <2>2 DEF FreshInv
      <3> QED
        BY <3>1, <3>2, <3>3, OthersFresh
    <2> QED
      BY <2>1, <2>2
  <1>3. \A o \in Session : held[o] \subseteq held'[o]
    OBVIOUS
  <1>4. CleanBal'
    BY <1>3 DEF CleanBal, FreshInv
  <1>5. CleanStock'
    BY <1>3 DEF CleanStock, FreshInv
  <1>6. FreshRows'
    BY DEF FreshRows, FreshInv, Shown, Active
  <1> QED
    BY <1>2, <1>4, <1>5, <1>6 DEF FreshInv

\* A statement that writes neither balance nor read model.
LEMMA QuietFresh ==
  ASSUME OneWriter, FreshInv, BackedInv', NEW p \in Session, NEW u, Step(p, u),
         UNCHANGED <<bal, cbal, stock, cstock, wh, resync>>,
         \/ held' = held
         \/ \E row : Lock(p, row) /\ \A w, v : row # BalRow(w, v) /\ row # StockRow(v),
         u.vs = {}, u.pc \in {"take", "give"} => u.q # 0,
         u.pc \in {"sum", "set"} \/ (u.pc = "save" /\ u.q # 0) => Touched(p, u.v),
         u.pc = "set" => \A w \in Warehouse : u.seen[w] = Shown(bal, u.v, w),
         \A v \in Variant : Due(p, v) =>
            u.v = v /\ (u.pc \in {"sum", "set", "sellDirect"} \/ (u.pc = "save" /\ u.q # 0))
  PROVE  FreshInv'
  <1>1. TypeOK /\ FreshSession(p)
    BY DEF FreshInv, BackedInv
  <1>2. tx'[p] = u /\ \A o \in Session \ {p} : tx'[o] = tx[o]
    BY <1>1, Stepped
  <1>3. /\ \A o \in Session \ {p} : held'[o] = held[o]
        /\ held[p] \subseteq held'[p]
        /\ \A w, v : /\ BalRow(w, v) \in held'[p] <=> BalRow(w, v) \in held[p]
                     /\ StockRow(v) \in held'[p] <=> StockRow(v) \in held[p]
    BY <1>1 DEF Lock, TypeOK
  <1>4. \A v : Touched(p, v)' <=> Touched(p, v)
    BY <1>3 DEF Touched
  <1>5. Active' = Active
    BY DEF Active
  <1>6. \A v, w : Shown(bal, v, w)' = Shown(bal, v, w)
    BY <1>5 DEF Shown
  <1>7. \A v \in Variant : Due(p, v) => Due(p, v)'
    BY <1>2 DEF Due
  <1>8. \A v \in Variant : Synced(p, v) => Synced(p, v)'
    BY <1>3, <1>6 DEF Synced
  <1>9. \A v \in Variant : Touched(p, v)' => Due(p, v)' \/ Synced(p, v)'
    BY <1>1, <1>4, <1>7, <1>8 DEF FreshSession
  <1>10. \A v \in Variant : StockRow(v) \in held'[p] => Touched(p, v)'
    BY <1>1, <1>3, <1>4 DEF FreshSession
  <1>11. u.pc \in {"sum", "set"} \/ (u.pc = "save" /\ u.q # 0) => Touched(p, tx[p].v)'
    BY <1>2, <1>3 DEF Touched
  <1>12. u.pc = "set" => \A w \in Warehouse : u.seen[w] = Shown(bal, tx[p].v, w)'
    BY <1>2, <1>5 DEF Shown
  <1>13. FreshSession(p)'
    BY <1>2, <1>9, <1>10, <1>11, <1>12 DEF FreshSession
  <1>14. /\ \A w \in Warehouse, v \in Variant :
               bal'[w][v] # bal[w][v] => BalRow(w, v) \in held'[p]
         /\ \A v \in Variant : stock'[v] # stock[v] => StockRow(v) \in held'[p]
    OBVIOUS
  <1>15. \A o \in Session \ {p} : tx'[o] = tx[o] /\ held'[o] = held[o]
    BY <1>2, <1>3
  <1> QED
    BY <1>3, <1>13, <1>14, <1>15, StatementFresh

\* A statement that writes a balance: the sync of its variant is due.
LEMMA WriteFresh ==
  ASSUME OneWriter, FreshInv, BackedInv', NEW p \in Session, NEW u, Step(p, u),
         NEW b, SetBal(p, b), UNCHANGED <<cbal, stock, cstock, wh, resync>>,
         u.v = tx[p].v, u.vs = {},
         u.pc \in {"sum", "sellDirect"} \/ (u.pc = "save" /\ u.q # 0)
  PROVE  FreshInv'
  <1> DEFINE t == tx[p]
  <1>1. TypeOK /\ FreshSession(p) /\ t.w \in Warehouse /\ t.v \in Variant
    BY InvOf DEF FreshInv
  <1>2. tx'[p] = u /\ \A o \in Session \ {p} : tx'[o] = tx[o]
    BY <1>1, Stepped
  <1>3. /\ held'[p] = held[p] \cup {BalRow(t.w, t.v)}
        /\ \A o \in Session \ {p} : held'[o] = held[o]
    BY <1>1 DEF SetBal, Lock, TypeOK
  <1>4. Touched(p, t.v)' /\ \A v \in Variant \ {t.v} : Touched(p, v)' <=> Touched(p, v)
    <2>1. \E w \in Warehouse : BalRow(w, t.v) \in held'[p]
      BY <1>1, <1>3
    <2>2. \A v \in Variant \ {t.v}, w \in Warehouse : BalRow(w, v) # BalRow(t.w, t.v)
      BY DEF BalRow
    <2>3. tx'[p].v = t.v
      BY <1>2
    <2> QED
      BY <1>3, <2>1, <2>2, <2>3 DEF Touched
  <1>5. \A v \in Variant : StockRow(v) \in held'[p] <=> StockRow(v) \in held[p]
    <2>1. \A v \in Variant : StockRow(v) # BalRow(t.w, t.v)
      BY DEF StockRow, BalRow
    <2> QED
      BY <1>3, <2>1
  <1>6. \A w \in Warehouse, v \in Variant :
           bal'[w][v] # bal[w][v] => w = t.w /\ v = t.v
    BY <1>1 DEF SetBal, TypeOK
  <1>7. Active' = Active
    BY DEF Active
  <1>8. ASSUME NEW v \in Variant \ {t.v}, Touched(p, v)' PROVE Synced(p, v)'
    <2>1. Touched(p, v) /\ ~Due(p, v)
      BY <1>4, <1>8 DEF Due
    <2>2. Synced(p, v)
      BY <1>1, <2>1 DEF FreshSession
    <2>3. \A w \in Warehouse : Shown(bal, v, w)' = Shown(bal, v, w)
      BY <1>6, <1>7 DEF Shown
    <2> QED
      BY <1>5, <2>2, <2>3 DEF Synced
  <1>9. Due(p, t.v)'
    BY <1>2 DEF Due
  <1>10. \A v \in Variant : Touched(p, v)' => Due(p, v)' \/ Synced(p, v)'
    <2> SUFFICES ASSUME NEW v \in Variant, Touched(p, v)' PROVE Due(p, v)' \/ Synced(p, v)'
      OBVIOUS
    <2>1. CASE v = t.v
      BY <1>2, <2>1 DEF Due
    <2>2. CASE v # t.v
      BY <1>8, <2>2
    <2> QED
      BY <2>1, <2>2
  <1>11. \A v \in Variant : StockRow(v) \in held'[p] => Touched(p, v)'
    <2> SUFFICES ASSUME NEW v \in Variant, StockRow(v) \in held'[p] PROVE Touched(p, v)'
      OBVIOUS
    <2>1. CASE v = t.v
      BY <1>1, <1>3, <2>1 DEF Touched
    <2>2. CASE v # t.v
      BY <1>1, <1>4, <1>5, <2>2 DEF FreshSession
    <2> QED
      BY <2>1, <2>2
  <1>12. FreshSession(p)'
    BY <1>2, <1>4, <1>10, <1>11 DEF FreshSession
  <1>13. /\ \A w \in Warehouse, v \in Variant :
               bal'[w][v] # bal[w][v] => BalRow(w, v) \in held'[p]
         /\ \A v \in Variant : stock'[v] # stock[v] => StockRow(v) \in held'[p]
    BY <1>3, <1>6
  <1>14. \A o \in Session \ {p} : tx'[o] = tx[o] /\ held'[o] = held[o]
    BY <1>2, <1>3
  <1>15. held[p] \subseteq held'[p]
    BY <1>3
  <1> QED
    BY <1>12, <1>13, <1>14, <1>15, StatementFresh

LEMMA NotDue ==
  ASSUME NEW p, tx[p].pc \in {"idle", "next", "claim", "mark"} PROVE \A v : ~Due(p, v)
  BY DEF Due

\* What FreshInv says of one session.
LEMMA FreshOf ==
  ASSUME FreshInv, NEW p \in Session
  PROVE  /\ BackedInv /\ TypeOK /\ FreshSession(p) /\ tx[p] \in Tx /\ tx[p].vs = {}
         /\ tx[p].q \in Nat /\ tx[p].want \in [Line -> Nat]
  BY InvOf DEF FreshInv, FreshSession

LEMMA LineReadsFresh ==
  ASSUME OneWriter, FreshInv, BackedInv', NEW p \in Session,
         \/ NextRelease(p) \/ Claim(p) \/ MarkConsumed(p)
         \/ \E l \in Line : ReadLine(p, l) \/ ReadHold(p, l)
  PROVE  FreshInv'
  <1> DEFINE t == tx[p]
             Goes(u) == /\ Step(p, u) /\ u.vs = {} /\ u.pc \notin {"sum", "set"}
                        /\ u.pc \in {"take", "give"} => u.q # 0
                        /\ u.pc = "save" => u.q = 0
  <1>0. TypeOK /\ t \in Tx /\ t.vs = {} /\ t.q \in Nat /\ t.want \in [Line -> Nat]
    BY FreshOf, SMTT(40)
  <1>1. /\ t.pc \in {"next", "claim", "mark"}
        /\ UNCHANGED <<bal, cbal, stock, cstock, wh, resync>>
    BY ZenonT(60) DEF NextRelease, Claim, MarkConsumed, ReadLine, ReadHold, rows, UnchangedEnv
  <1>2. \/ held' = held
        \/ \E row : Lock(p, row) /\ \A w, v : row # BalRow(w, v) /\ row # StockRow(v)
    <2>1. \A l, w, v : ResRow(l) # BalRow(w, v) /\ ResRow(l) # StockRow(v)
      BY SMTT(40) DEF ResRow, BalRow, StockRow
    <2>2. held' = held \/ Lock(p, ResRow(t.l))
      BY DEF NextRelease, Claim, MarkConsumed, ReadLine, ReadHold, rows
    <2> QED
      BY <2>1, <2>2
  <1>3. \E u : Goes(u)
    <2>1. CASE NextRelease(p)
      <3>1. PICK r \in t.rel :
              Step(p, [t EXCEPT !.pc = "claim", !.rel = @ \ {r}, !.l = r.l, !.w = r.w,
                                !.v = VariantOf[r.l], !.q = r.q])
        BY <2>1 DEF NextRelease
      <3> DEFINE u == [t EXCEPT !.pc = "claim", !.rel = @ \ {r}, !.l = r.l, !.w = r.w,
                                !.v = VariantOf[r.l], !.q = r.q]
      <3>2. u.pc = "claim" /\ u.vs = {}
        BY <1>0 DEF Tx
      <3>3. Step(p, u)
        BY <3>1
      <3> HIDE DEF u
      <3> QED
        BY <3>2, <3>3
    <2>2. CASE Claim(p)
      <3>1. Step(p, [t EXCEPT !.pc = "free"]) \/ Step(p, Again(t))
        BY <2>2 DEF Claim
      <3>2. [t EXCEPT !.pc = "free"].pc = "free" /\ [t EXCEPT !.pc = "free"].vs = {}
        BY <1>0 DEF Tx
      <3>3. Again(t).pc = "next" /\ Again(t).vs = t.vs
        BY DEF Again, Idle
      <3> QED
        BY <1>0, <3>1, <3>2, <3>3
    <2>3. CASE MarkConsumed(p)
      <3>1. Step(p, [t EXCEPT !.pc = "sellReserved"])
        BY <2>3 DEF MarkConsumed
      <3>2. /\ [t EXCEPT !.pc = "sellReserved"].pc = "sellReserved"
            /\ [t EXCEPT !.pc = "sellReserved"].vs = {}
        BY <1>0 DEF Tx
      <3> QED
        BY <3>1, <3>2
    <2>4. ASSUME NEW l \in Line, ReadLine(p, l) PROVE \E u : Goes(u)
      <3> DEFINE r == SeenRes(p, l)
                 current == IF r.status = "ACTIVE" THEN r.q ELSE 0
                 moves == r.status = "ACTIVE" /\ r.w # t.dw
                 pc == IF t.want[l] > current THEN "take"
                       ELSE IF t.want[l] < current THEN "give" ELSE "save"
                 q == IF t.want[l] > current THEN t.want[l] - current
                      ELSE current - t.want[l]
                 u == [t EXCEPT !.pc = "claim", !.l = l, !.w = r.w, !.v = VariantOf[l], !.q = r.q]
                 x == [t EXCEPT !.pc = pc, !.l = l, !.w = t.dw, !.v = VariantOf[l], !.q = q]
      <3>1. t.want[l] \in Nat /\ current \in Nat
        BY <1>0, SeenType, SMTT(40) DEF Reservation
      <3>2. Step(p, u) \/ Step(p, x)
        BY <2>4 DEF ReadLine
      <3>3. u.pc = "claim" /\ u.vs = {}
        BY <1>0 DEF Tx
      <3>4. x.pc = pc /\ x.vs = {} /\ x.q = q
        <4> HIDE DEF pc, q
        <4> QED
          BY <1>0 DEF Tx
      <3>5. /\ pc \in {"take", "give", "save"} /\ (pc \in {"take", "give"} => q # 0)
            /\ (pc = "save" => q = 0)
        <4> HIDE DEF current
        <4> QED
          BY <3>1
      <3> HIDE DEF u, x, pc, q
      <3> QED
        BY <3>2, <3>3, <3>4, <3>5
    <2>5. ASSUME NEW l \in Line, ReadHold(p, l) PROVE \E u : Goes(u)
      <3> DEFINE r == SeenRes(p, l)
                 part == ReservedPart(p, l)
                 pc == IF part > 0 THEN "mark" ELSE "sellDirect"
      <3>1. PICK dw : Step(p, [t EXCEPT !.pc = pc, !.l = l, !.v = VariantOf[l], !.dw = dw,
                                        !.w = IF part > 0 THEN r.w ELSE dw,
                                        !.q = part, !.a = DirectPart(p, l), !.d = r.q - part,
                                        !.want = [@ EXCEPT ![l] = 0]])
        BY <2>5 DEF ReadHold
      <3> DEFINE uw == IF part > 0 THEN r.w ELSE dw
                 a == DirectPart(p, l)
                 d == r.q - part
                 u == [t EXCEPT !.pc = pc, !.l = l, !.v = VariantOf[l], !.dw = dw, !.w = uw,
                                !.q = part, !.a = a, !.d = d, !.want = [@ EXCEPT ![l] = 0]]
      <3>2. Step(p, u)
        BY <3>1
      <3>3. u.pc = pc /\ u.vs = {}
        <4> HIDE DEF pc, part, uw, a, d
        <4> QED
          BY <1>0 DEF Tx
      <3>4. pc \in {"mark", "sellDirect"}
        OBVIOUS
      <3> HIDE DEF u, pc
      <3> QED
        BY <3>2, <3>3, <3>4
    <2> HIDE DEF Goes
    <2> QED
      BY <2>1, <2>2, <2>3, <2>4, <2>5
  <1>4. PICK u : Goes(u)
    BY <1>3
  <1>5. \A v \in Variant : ~Due(p, v)
    BY <1>1, NotDue
  <1> QED
    BY <1>1, <1>2, <1>4, <1>5, QuietFresh

LEMMA SaveFresh ==
  ASSUME OneWriter, FreshInv, BackedInv', NEW p \in Session, SaveReservation(p)
  PROVE  FreshInv'
  <1> DEFINE t == tx[p]
             kept == [t EXCEPT !.pc = "sum", !.want = [@ EXCEPT ![t.l] = 0]]
             u == IF t.q # 0 THEN kept ELSE Again(kept)
  <1>0. TypeOK /\ t \in Tx /\ t.vs = {} /\ FreshSession(p)
    BY FreshOf
  <1>1. /\ t.pc = "save" /\ UNCHANGED <<bal, cbal, stock, cstock, wh, resync>>
        /\ Lock(p, ResRow(t.l)) /\ Step(p, u)
    BY DEF SaveReservation, UnchangedEnv
  <1>2. kept.pc = "sum" /\ kept.vs = {} /\ kept.v = t.v
    BY <1>0 DEF Tx
  <1>3. Again(kept).pc = "next" /\ Again(kept).vs = kept.vs
    BY DEF Again, Idle
  <1>4. /\ u.vs = {} /\ (t.q # 0 => u.pc = "sum" /\ u.v = t.v) /\ (t.q = 0 => u.pc = "next")
    BY <1>2, <1>3
  <1> HIDE DEF u, kept
  <1>5. \A l, w, v : ResRow(l) # BalRow(w, v) /\ ResRow(l) # StockRow(v)
    BY DEF ResRow, BalRow, StockRow
  <1>6. \A v \in Variant : Due(p, v) => t.q # 0 /\ t.v = v
    BY <1>1 DEF Due
  <1>7. u.pc \in {"sum", "set"} => Touched(p, u.v)
    BY <1>0, <1>1, <1>4 DEF FreshSession
  <1>8. u.pc \in {"sum", "next"}
    BY <1>4
  <1>9. \E row : Lock(p, row) /\ \A w, v : row # BalRow(w, v) /\ row # StockRow(v)
    BY <1>1, <1>5
  <1> QED
    BY <1>1, <1>4, <1>6, <1>7, <1>8, <1>9, QuietFresh

LEMMA SumFresh ==
  ASSUME OneWriter, FreshInv, BackedInv', NEW p \in Session, SumAvailable(p)
  PROVE  FreshInv'
  <1> DEFINE t == tx[p]
             seen == [w \in Warehouse |->
                        IF w \in Active THEN SeenBal(p, w, t.v).available ELSE 0]
             u == [t EXCEPT !.pc = "set", !.seen = seen]
  <1>0. TypeOK /\ t \in Tx /\ t.vs = {} /\ FreshSession(p) /\ t.v \in Variant /\ LocksApart
    BY FreshOf, InvOf
  <1>1. /\ t.pc = "sum" /\ UNCHANGED <<bal, cbal, stock, cstock, wh, resync, held>> /\ Step(p, u)
    BY DEF SumAvailable, rows, UnchangedEnv
  <1>2. u.pc = "set" /\ u.vs = {} /\ u.v = t.v /\ u.seen = seen
    <2> HIDE DEF seen
    <2> QED
      BY <1>0 DEF Tx
  <1> HIDE DEF u
  <1>3. Touched(p, t.v)
    BY <1>0, <1>1 DEF FreshSession
  <1>4. ASSUME NEW w \in Warehouse PROVE SeenBal(p, w, t.v) = bal[w][t.v]
    <2>1. CASE BalRow(w, t.v) \in held[p]
      BY <2>1 DEF SeenBal
    <2>2. CASE BalRow(w, t.v) \notin held[p]
      <3>1. \A o \in Session : BalRow(w, t.v) \notin held[o]
        BY <1>0, <1>3, <2>2, Alone
      <3> QED
        BY <1>0, <2>2, <3>1 DEF FreshInv, CleanBal, SeenBal
    <2> QED
      BY <2>1, <2>2
  <1>5. \A w \in Warehouse : u.seen[w] = Shown(bal, u.v, w)
    BY <1>2, <1>4 DEF Shown
  <1>6. \A v \in Variant : Due(p, v) => u.v = v
    BY <1>2 DEF Due
  <1> QED
    BY <1>1, <1>2, <1>3, <1>5, <1>6, QuietFresh

LEMMA SetStockFresh ==
  ASSUME OneWriter, FreshInv, BackedInv', NEW p \in Session, SetStock(p)
  PROVE  FreshInv'
  <1> DEFINE t == tx[p]
             u == Again(t)
  <1>0. TypeOK /\ t \in Tx /\ t.vs = {} /\ FreshSession(p) /\ t.v \in Variant
    BY FreshOf, InvOf
  <1>1. /\ t.pc = "set" /\ UNCHANGED <<bal, cbal, cstock, wh, resync>> /\ Step(p, u)
        /\ stock' = [stock EXCEPT ![t.v] = t.seen] /\ Lock(p, StockRow(t.v))
    BY DEF SetStock, UnchangedEnv
  <1>2. u.pc = "next" /\ u.vs = {}
    BY <1>0 DEF Again, Idle
  <1> HIDE DEF u
  <1>3. tx'[p] = u /\ \A o \in Session \ {p} : tx'[o] = tx[o]
    BY <1>0, <1>1, Stepped
  <1>4. /\ held'[p] = held[p] \cup {StockRow(t.v)}
        /\ \A o \in Session \ {p} : held'[o] = held[o]
    BY <1>0, <1>1 DEF Lock, TypeOK
  <1>5. \A v \in Variant : Touched(p, v)' <=> Touched(p, v)
    <2>1. \A w, v : BalRow(w, v) # StockRow(t.v)
      BY DEF StockRow, BalRow
    <2> QED
      BY <1>4, <2>1 DEF Touched
  <1>6. \A v \in Variant : StockRow(v) \in held'[p] <=> (StockRow(v) \in held[p] \/ v = t.v)
    <2>1. \A v \in Variant : StockRow(v) = StockRow(t.v) => v = t.v
      BY DEF StockRow
    <2> QED
      BY <1>4, <2>1
  <1>7. stock'[t.v] = t.seen /\ \A v \in Variant \ {t.v} : stock'[v] = stock[v]
    BY <1>0, <1>1 DEF TypeOK
  <1>8. Active' = Active
    BY <1>1 DEF Active
  <1>9. \A v, w : Shown(bal, v, w)' = Shown(bal, v, w)
    BY <1>1, <1>8 DEF Shown
  <1>10. ASSUME NEW v \in Variant, Touched(p, v)' PROVE Synced(p, v)'
    <2>1. CASE v = t.v
      <3>1. \A w \in Warehouse : t.seen[w] = Shown(bal, t.v, w)
        BY <1>0, <1>1 DEF FreshSession
      <3> QED
        BY <1>6, <1>7, <1>9, <2>1, <3>1 DEF Synced
    <2>2. CASE v # t.v
      <3>1. ~Due(p, v)
        BY <2>2 DEF Due
      <3>2. Synced(p, v)
        BY <1>0, <1>5, <1>10, <3>1 DEF FreshSession
      <3> QED
        BY <1>6, <1>7, <1>9, <2>2, <3>2 DEF Synced
    <2> QED
      BY <2>1, <2>2
  <1>11. \A v \in Variant : StockRow(v) \in held'[p] => Touched(p, v)'
    BY <1>0, <1>1, <1>5, <1>6 DEF FreshSession
  <1>12. FreshSession(p)'
    BY <1>2, <1>3, <1>10, <1>11 DEF FreshSession
  <1>13. /\ \A w \in Warehouse, v \in Variant :
               bal'[w][v] # bal[w][v] => BalRow(w, v) \in held'[p]
         /\ \A v \in Variant : stock'[v] # stock[v] => StockRow(v) \in held'[p]
    BY <1>1, <1>6, <1>7
  <1>14. \A o \in Session \ {p} : tx'[o] = tx[o] /\ held'[o] = held[o]
    BY <1>3, <1>4
  <1>15. held[p] \subseteq held'[p]
    BY <1>4
  <1> QED
    BY <1>1, <1>12, <1>13, <1>14, <1>15, StatementFresh

LEMMA BalanceFresh ==
  ASSUME OneWriter, FreshInv, BackedInv', NEW p \in Session,
         \/ ReleaseReservedQuantity(p) \/ TakeAvailable(p) \/ SellReserved(p)
         \/ SellDirect(p) \/ UpsertBalance(p)
  PROVE  FreshInv'
  <1> DEFINE t == tx[p]
             Goes(u) == /\ Step(p, u) /\ u.vs = {} /\ u.v = t.v
                        /\ u.pc \in {"sum", "sellDirect"} \/ (u.pc = "save" /\ u.q # 0)
  <1>0. BackedInv /\ TypeOK /\ t \in Tx /\ t.vs = {} /\ t.q \in Nat /\ FreshSession(p)
    BY FreshOf
  <1>1. UNCHANGED <<cbal, stock, cstock, wh, resync>>
    BY DEF ReleaseReservedQuantity, TakeAvailable, SellReserved, SellDirect, UpsertBalance,
           UnchangedEnv
  <1>2. \E b : SetBal(p, b)
    <2>1. CASE ReleaseReservedQuantity(p)
      <3>1. PICK g \in Counted : Ledger(g)
        BY <1>0 DEF BackedInv
      <3>2. t.pc \in {"free", "give"}
        BY <2>1 DEF ReleaseReservedQuantity
      <3>3. bal[t.w][t.v].reserved \in Nat /\ bal[t.w][t.v].reserved >= t.q
        BY <1>0, <3>1, <3>2, ReleaseMatches
      <3> QED
        BY <1>0, <2>1, <3>3 DEF ReleaseReservedQuantity
    <2>2. CASE TakeAvailable(p) \/ SellReserved(p) \/ SellDirect(p) \/ UpsertBalance(p)
      BY <2>2 DEF TakeAvailable, SellReserved, SellDirect, UpsertBalance
    <2> QED
      BY SMTT(40), <2>1, <2>2
  <1>3. \A pc : LET u == [t EXCEPT !.pc = pc] IN u.pc = pc /\ u.vs = {} /\ u.v = t.v /\ u.q = t.q
    BY <1>0 DEF Tx
  <1>4. \E u : Goes(u)
    <2>1. CASE ReleaseReservedQuantity(p)
      <3>1. CASE t.pc = "free"
        <4>1. Step(p, [t EXCEPT !.pc = "sum"])
          BY <2>1, <3>1 DEF ReleaseReservedQuantity
        <4> QED
          BY <1>3, <4>1
      <3>2. CASE t.pc = "give"
        <4>1. Step(p, [t EXCEPT !.pc = "save"])
          BY <2>1, <3>2 DEF ReleaseReservedQuantity
        <4>2. t.q # 0
          BY <1>0, <3>2 DEF FreshSession
        <4>3. /\ [t EXCEPT !.pc = "save"].pc = "save" /\ [t EXCEPT !.pc = "save"].vs = {}
              /\ [t EXCEPT !.pc = "save"].v = t.v /\ [t EXCEPT !.pc = "save"].q = t.q
          BY <1>3
        <4> QED
          BY <4>1, <4>2, <4>3
      <3> QED
        BY <2>1, <3>1, <3>2 DEF ReleaseReservedQuantity
    <2>2. CASE TakeAvailable(p)
      <3>1. Step(p, [t EXCEPT !.pc = "save"]) /\ t.pc = "take"
        BY <2>2 DEF TakeAvailable
      <3>2. t.q # 0
        BY <1>0, <3>1 DEF FreshSession
      <3>3. /\ [t EXCEPT !.pc = "save"].pc = "save" /\ [t EXCEPT !.pc = "save"].vs = {}
            /\ [t EXCEPT !.pc = "save"].v = t.v /\ [t EXCEPT !.pc = "save"].q = t.q
        BY <1>3
      <3> QED
        BY <3>1, <3>2, <3>3
    <2>3. CASE SellReserved(p)
      <3>1. PICK pc \in {"sum", "sellDirect"} : Step(p, [t EXCEPT !.pc = pc, !.w = t.dw])
        BY <2>3 DEF SellReserved
      <3> DEFINE u == [t EXCEPT !.pc = pc, !.w = t.dw]
      <3>2. u.pc = pc /\ u.vs = {} /\ u.v = t.v
        BY <1>0 DEF Tx
      <3>3. Step(p, u)
        BY <3>1
      <3> HIDE DEF u
      <3> QED
        BY <3>2, <3>3
    <2>4. CASE SellDirect(p) \/ UpsertBalance(p)
      <3>1. Step(p, [t EXCEPT !.pc = "sum"])
        BY <2>4 DEF SellDirect, UpsertBalance
      <3> QED
        BY <1>3, <3>1
    <2> HIDE DEF Goes
    <2> QED
      BY SMTT(40), <2>1, <2>2, <2>3, <2>4
  <1>5. PICK u : Goes(u)
    BY <1>4
  <1>6. PICK b : SetBal(p, b)
    BY <1>2
  <1> QED
    BY <1>1, <1>5, <1>6, WriteFresh

\* A transaction opens with no sync due.
LEMMA BeginFresh ==
  ASSUME OneWriter, FreshInv, BackedInv', NEW p \in Session, Begin(p) \/ BeginJob(p)
  PROVE  FreshInv'
  <1> DEFINE Opens(u) == Step(p, u) /\ u.vs = {} /\ u.pc \in {"next", "upsert"}
  <1>0. Idle.vs = {}
    BY DEF Idle
  <1>1. ~\E w, vs : BeginResync(p, w, vs)
    BY DEF BeginResync, FreshInv
  <1>2. ~BeginExpire(p)
    BY DEF BeginExpire, FreshInv, BackedInv
  <1>3. Begin(p)
    BY <1>1, <1>2, SMTT(40) DEF BeginJob
  <1>4. /\ tx[p].pc = "idle" /\ UNCHANGED <<bal, cbal, stock, cstock, wh, resync>>
    BY <1>3, ZenonT(60) DEF Begin, BeginReserve, BeginConsume, BeginRelease, BeginAbandon,
       BeginAdjust,
                rows, UnchangedEnv
  <1>5. held' = held \/ \E c : Lock(p, CartRow(c))
    BY <1>3 DEF Begin, BeginReserve, BeginConsume, BeginRelease, BeginAbandon, BeginAdjust
  <1>6. \/ held' = held
        \/ \E row : Lock(p, row) /\ \A w, v : row # BalRow(w, v) /\ row # StockRow(v)
    <2>1. \A c, w, v : CartRow(c) # BalRow(w, v) /\ CartRow(c) # StockRow(v)
      BY DEF CartRow, BalRow, StockRow
    <2> QED
      BY <1>5, <2>1
  <1>7. \E u : Opens(u)
    <2>1. ASSUME NEW c, NEW want, BeginReserve(p, c, want) PROVE \E u : Opens(u)
      <3> DEFINE rel == ActiveOf(p, c, {l \in Line : want[l] = 0})
      <3>1. PICK dw : Step(p, [Idle EXCEPT !.op = "reserve", !.pc = "next", !.rel = rel,
                                           !.want = want, !.dw = dw])
        BY <2>1 DEF BeginReserve
      <3> HIDE DEF rel
      <3> DEFINE u == [Idle EXCEPT !.op = "reserve", !.pc = "next", !.rel = rel,
                                   !.want = want, !.dw = dw]
      <3>2. u.pc = "next" /\ u.vs = {}
        BY DEF Idle
      <3>3. Step(p, u)
        BY <3>1
      <3> HIDE DEF u
      <3> QED
        BY <3>2, <3>3
    <2>2. ASSUME NEW c, NEW want, BeginConsume(p, c, want) PROVE \E u : Opens(u)
      <3> DEFINE u == [Idle EXCEPT !.op = "consume", !.pc = "next", !.want = want]
      <3>1. u.pc = "next" /\ u.vs = {}
        BY DEF Idle
      <3>2. Step(p, u)
        BY <2>2 DEF BeginConsume
      <3> HIDE DEF u
      <3> QED
        BY <3>1, <3>2
    <2>3. ASSUME NEW c, BeginRelease(p, c) \/ BeginAbandon(p, c) PROVE \E u : Opens(u)
      <3> DEFINE rel == ActiveOf(p, c, Line)
      <3>1. PICK op : Step(p, [Idle EXCEPT !.op = op, !.pc = "next", !.rel = rel])
        BY <2>3 DEF BeginRelease, BeginAbandon
      <3> HIDE DEF rel
      <3> DEFINE u == [Idle EXCEPT !.op = op, !.pc = "next", !.rel = rel]
      <3>2. u.pc = "next" /\ u.vs = {}
        BY DEF Idle
      <3>3. Step(p, u)
        BY <3>1
      <3> HIDE DEF u
      <3> QED
        BY <3>2, <3>3
    <2>4. ASSUME NEW w, NEW v, NEW d, BeginAdjust(p, w, v, d) PROVE \E u : Opens(u)
      <3>1. PICK q, a : Step(p, [Idle EXCEPT !.op = "adjust", !.pc = "upsert", !.w = w, !.v = v,
                                             !.q = q, !.a = a, !.d = d])
        BY <2>4 DEF BeginAdjust
      <3> DEFINE u == [Idle EXCEPT !.op = "adjust", !.pc = "upsert", !.w = w, !.v = v,
                                   !.q = q, !.a = a, !.d = d]
      <3>2. u.pc = "upsert" /\ u.vs = {}
        BY DEF Idle
      <3>3. Step(p, u)
        BY <3>1
      <3> HIDE DEF u
      <3> QED
        BY <3>2, <3>3
    <2> HIDE DEF Opens
    <2> QED
      BY <1>3, <2>1, <2>2, <2>3, <2>4 DEF Begin
  <1>8. PICK u : Opens(u)
    BY <1>7
  <1>9. \A v \in Variant : ~Due(p, v)
    BY <1>4, NotDue
  <1> QED
    BY <1>4, <1>6, <1>8, <1>9, QuietFresh

\* COMMIT publishes a balance together with the read model; ROLLBACK takes both back.
LEMMA EndFresh ==
  ASSUME OneWriter, FreshInv, BackedInv', NEW p \in Session, Commit(p) \/ Rollback(p)
  PROVE  FreshInv'
  <1>0. TypeOK /\ LocksApart /\ FreshSession(p) /\ \A o \in Session : tx[o] \in Tx
    BY FreshOf, InvOf
  <1>1. held' = [held EXCEPT ![p] = {}] /\ Step(p, Idle) /\ UNCHANGED <<wh, resync>>
    BY DEF Commit, Rollback, UnchangedEnv
  <1>2. tx'[p] = Idle /\ \A o \in Session \ {p} : tx'[o] = tx[o]
    BY <1>0, <1>1, Stepped
  <1>3. held'[p] = {} /\ \A o \in Session \ {p} : held'[o] = held[o]
    BY <1>0, <1>1 DEF TypeOK
  <1>4. /\ \A w \in Warehouse, v \in Variant :
             IF BalRow(w, v) \in held[p] THEN bal'[w][v] = cbal'[w][v]
             ELSE bal'[w][v] = bal[w][v] /\ cbal'[w][v] = cbal[w][v]
        /\ \A v \in Variant :
             IF StockRow(v) \in held[p] THEN stock'[v] = cstock'[v]
             ELSE stock'[v] = stock[v] /\ cstock'[v] = cstock[v]
    BY DEF Commit, Rollback, SeenBal
  <1>5. CleanBal'
    <2> SUFFICES ASSUME NEW w \in Warehouse, NEW v \in Variant,
                        \A o \in Session : BalRow(w, v) \notin held'[o]
                 PROVE  bal'[w][v] = cbal'[w][v]
      BY DEF CleanBal
    <2>1. CASE BalRow(w, v) \in held[p]
      BY <1>4, <2>1
    <2>2. CASE BalRow(w, v) \notin held[p]
      <3>1. \A o \in Session : BalRow(w, v) \notin held[o]
        BY <1>3, <2>2
      <3> QED
        BY <1>4, <2>2, <3>1 DEF FreshInv, CleanBal
    <2> QED
      BY <2>1, <2>2
  <1>6. CleanStock'
    <2> SUFFICES ASSUME NEW v \in Variant, \A o \in Session : StockRow(v) \notin held'[o]
                 PROVE  stock'[v] = cstock'[v]
      BY DEF CleanStock
    <2>1. CASE StockRow(v) \in held[p]
      BY <1>4, <2>1
    <2>2. CASE StockRow(v) \notin held[p]
      <3>1. \A o \in Session : StockRow(v) \notin held[o]
        BY <1>3, <2>2
      <3> QED
        BY <1>4, <2>2, <3>1 DEF FreshInv, CleanStock
    <2> QED
      BY <2>1, <2>2
  <1>7. Active' = Active
    BY <1>1 DEF Active
  <1>8. FreshRows'
    <2>1. CASE Rollback(p)
      BY <1>7, <2>1 DEF Rollback, FreshInv, FreshRows, Shown
    <2>2. CASE Commit(p)
      <3> SUFFICES ASSUME NEW v \in Variant, NEW w \in Warehouse
                   PROVE  cstock'[v][w] = Shown(cbal, v, w)'
        BY DEF FreshRows
      <3>1. /\ cbal'[w][v] = SeenBal(p, w, v)
            /\ cstock'[v] = IF StockRow(v) \in held[p] THEN stock[v] ELSE cstock[v]
            /\ tx[p].pc = "next"
        BY <2>2 DEF Commit
      <3>2. CASE Touched(p, v)
        <4>1. Synced(p, v)
          BY <1>0, <3>1, <3>2, NotDue DEF FreshSession
        <4>2. cbal'[w][v] = bal[w][v]
          <5>1. CASE BalRow(w, v) \in held[p]
            BY <3>1, <5>1 DEF SeenBal
          <5>2. CASE BalRow(w, v) \notin held[p]
            <6>1. \A o \in Session : BalRow(w, v) \notin held[o]
              BY <1>0, <3>2, <5>2, Alone
            <6> QED
              BY <3>1, <5>2, <6>1 DEF SeenBal, FreshInv, CleanBal
          <5> QED
            BY <5>1, <5>2
        <4>3. cstock'[v][w] = Shown(bal, v, w)
          BY <3>1, <4>1 DEF Synced
        <4> QED
          BY <1>7, <4>2, <4>3 DEF Shown
      <3>3. CASE ~Touched(p, v)
        <4>1. cbal'[w][v] = cbal[w][v] /\ cstock'[v] = cstock[v]
          BY <1>0, <3>1, <3>3 DEF Touched, SeenBal, FreshSession
        <4> QED
          BY <1>7, <4>1 DEF FreshInv, FreshRows, Shown
      <3> QED
        BY <3>2, <3>3
    <2> QED
      BY <2>1, <2>2
  <1>9. ASSUME NEW o \in Session PROVE FreshSession(o)'
    <2>1. CASE o = p
      <3>1. tx'[o].pc = "idle" /\ tx'[o].vs = {}
        BY <1>2, <2>1 DEF Idle
      <3>2. \A v \in Variant : ~Touched(o, v)' /\ StockRow(v) \notin held'[o]
        BY <1>3, <2>1 DEF Touched
      <3> QED
        BY <3>1, <3>2 DEF FreshSession
    <2>2. CASE o # p
      <3>1. ASSUME NEW v \in Variant, NEW w \in Warehouse, Touched(o, v)
            PROVE  bal'[w][v] = bal[w][v]
        <4>1. BalRow(w, v) \notin held[p]
          BY <1>0, <2>2, <3>1, Alone
        <4> QED
          BY <1>4, <4>1
      <3>2. ASSUME NEW v \in Variant, StockRow(v) \in held[o] PROVE stock'[v] = stock[v]
        <4>1. StockRow(v) \notin held[p]
          BY <1>0, <2>2, <3>2 DEF LocksApart
        <4> QED
          BY <1>4, <4>1
      <3>3. tx'[o] = tx[o] /\ held'[o] = held[o] /\ FreshSession(o) /\ tx[o] \in Tx /\ wh' = wh
        BY <1>0, <1>1, <1>2, <1>3, <2>2 DEF FreshInv
      <3> QED
        BY <3>1, <3>2, <3>3, OthersFresh
    <2> QED
      BY <2>1, <2>2
  <1> QED
    BY <1>1, <1>5, <1>6, <1>8, <1>9 DEF FreshInv

LEMMA NextKeepsFresh ==
  ASSUME "expire" \notin Ops, "abandon" \notin Ops, "warehouse" \notin Ops, OneWriter,
         FreshInv, [Next]_vars
  PROVE  FreshInv'
  <1>0. BackedInv'
    BY NextKeepsBacked DEF FreshInv
  <1>1. ASSUME NEW p \in Session, Begin(p) \/ BeginJob(p) PROVE FreshInv'
    BY <1>0, <1>1, BeginFresh
  <1>2. ASSUME NEW p \in Session, Proceed(p) PROVE FreshInv'
    <2>1. CASE Commit(p) \/ Throw(p) \/ DeadlockVictim(p)
      BY <1>0, <2>1, EndFresh DEF Throw, DeadlockVictim
    <2>2. ~NextResync(p)
      BY DEF NextResync, FreshInv, FreshSession
    <2> QED
      BY <1>0, <1>2, <2>1, <2>2, LineReadsFresh, SaveFresh, SumFresh, SetStockFresh, BalanceFresh
         DEF Proceed
  <1>3. ASSUME NEW p \in Session, Crash(p) PROVE FreshInv'
    BY <1>0, <1>3, EndFresh DEF Crash
  <1>4. ASSUME \/ \E l \in Line : Tick(l)
               \/ ReadExpired
               \/ ChangeWarehouse
               \/ UNCHANGED vars
        PROVE  UNCHANGED <<bal, cbal, stock, cstock, held, tx, wh, resync>>
    BY <1>4 DEF Tick, ReadExpired, ChangeWarehouse, CreateWarehouse, UpdateWarehouse,
                RemoveWarehouse, rows, vars
  <1>5. ASSUME UNCHANGED <<bal, cbal, stock, cstock, held, tx, wh, resync>> PROVE FreshInv'
    BY <1>0, <1>5 DEF FreshInv, CleanBal, CleanStock, FreshRows, FreshSession, Synced, Due,
                      Touched, Shown, Active
  <1> QED
    BY <1>1, <1>2, <1>3, <1>4, <1>5 DEF Next

LEMMA InitFresh == ASSUME Init PROVE FreshInv
  <1>0. BackedInv
    BY InitBacked
  <1>1. /\ bal = cbal /\ stock = cstock /\ resync = {}
        /\ \A p \in Session : held[p] = {} /\ tx[p] = Idle
    BY DEF Init
  <1>2. FreshRows
    <2>1. \A v \in Variant, w \in Warehouse :
             /\ cstock[v][w] = OpeningStock(w) /\ cbal[w][v].available = OpeningStock(w)
             /\ w \in Active <=> w \in Opened
      BY DEF Init, Active
    <2> QED
      BY <2>1 DEF FreshRows, Shown, OpeningStock
  <1>3. ASSUME NEW p \in Session PROVE FreshSession(p)
    <2>1. tx[p].pc = "idle" /\ tx[p].vs = {}
      <3>1. tx[p] = Idle
        BY <1>1
      <3> QED
        BY <3>1 DEF Idle
    <2>2. \A v \in Variant : ~Touched(p, v) /\ StockRow(v) \notin held[p]
      BY <1>1 DEF Touched
    <2> QED
      BY <2>1, <2>2 DEF FreshSession
  <1>4. CleanBal /\ CleanStock
    BY <1>1 DEF CleanBal, CleanStock
  <1> QED
    BY <1>0, <1>1, <1>2, <1>3, <1>4 DEF FreshInv

\* With one warehouse (for any number of sessions) or one session (for any number of
\* warehouses), while warehouses keep their status and no sweep releases reservations without
\* the cart's lock, ProductVariant.stock is the total available over the active warehouses
\* whenever no transaction is open: syncVariantStockReadModel runs in every transaction that
\* changes a balance, after the change and under its row lock.
THEOREM StockReadModelFresh ==
  ASSUME "expire" \notin Ops, "abandon" \notin Ops, "warehouse" \notin Ops, OneWriter
  PROVE  Spec => []StockFresh
  <1>1. Init => FreshInv
    BY InitFresh
  <1>2. FreshInv /\ [Next]_vars => FreshInv'
    BY NextKeepsFresh
  <1>3. FreshInv => StockFresh
    BY FreshTotals
  <1> QED
    BY <1>1, <1>2, <1>3, PTL DEF Spec

=============================================================================
