CONSTANTS
    c1 = c1
    c2 = c2
    t1 = t1
    i1 = i1
    i2 = i2
    m1 = m1
    a1 = a1
    r1 = r1
    r2 = r2
    Cart = {c1}
    Table = {t1}
    Item = {i1, i2}
    Manager = {m1, a1}
    Admin = {a1}
    Request = {r1, r2}
    InventoryMode = "INTERNAL"
    MaxOrders = 2
    Ops = {"open", "join", "line", "share", "submitHall", "delete", "begin", "heartbeat", "release", "complete", "sweepManagers", "sweepDrafts", "ttl", "crash"}
SPECIFICATION Spec
INVARIANT
    EndedHoldsNothing
SYMMETRY RequestSymmetry
CHECK_DEADLOCK FALSE
