CONSTANTS
    c1 = c1
    c2 = c2
    t1 = t1
    i1 = i1
    i2 = i2
    m1 = m1
    a1 = a1
    r1 = r1
    r2 = r2
    Cart = {c1, c2}
    Table = {t1}
    Item = {i1}
    Manager = {m1}
    Admin = {}
    Request = {r1, r2}
    InventoryMode = "NONE"
    MaxOrders = 2
    Ops = {"join", "line", "submitGuest", "complete", "close", "sweepTables"}
SPECIFICATION FairSpec
INVARIANTS
    TypeOK
    AtMostOneOrder
    OneSessionPerTable
    SessionCartAgree
PROPERTY
    StaleSessionsEnd
CHECK_DEADLOCK FALSE
