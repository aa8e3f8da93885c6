CONSTANTS
    c1 = c1
    c2 = c2
    l1 = l1
    l2 = l2
    v1 = v1
    w1 = w1
    w2 = w2
    p1 = p1
    p2 = p2
    Warehouse = {w1}
    Opened = {w1}
    Variant = {v1}
    Cart = {c1, c2}
    Line = {l1}
    CartOf <- MCCartOf
    VariantOf <- MCVariantOf
    Session = {p1, p2}
    MaxQty = 2
    MaxStock = 2
    InitStock = 2
    Ops = {"reserve", "expire"}
SPECIFICATION Spec
INVARIANT
    ReservedBacked
