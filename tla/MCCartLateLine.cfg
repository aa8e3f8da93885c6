CONSTANTS
    c1 = c1
    c2 = c2
    t1 = t1
    i1 = i1
    i2 = i2
    m1 = m1
    a1 = a1
    r1 = r1
    r2 = r2
    Cart = {c1}
    Table = {t1}
    Item = {i1, i2}
    Manager = {m1}
    Admin = {}
    Request = {r1}
    InventoryMode = "INTERNAL"
    MaxOrders = 2
    Ops = {"open", "line", "share", "complete"}
SPECIFICATION Spec
INVARIANT
    ConvertedHoldsNothing
CHECK_DEADLOCK FALSE
