CONSTANTS
    e1 = e1
    e2 = e2
    p1 = p1
    p2 = p2
    a1 = a1
    a2 = a2
    b1 = b1
    Event = {e1}
    Process = {p1, p2}
    Worker = {a1, a2}
    ProcessOf <- MCProcessOf
    Handlers = 2
    MaxAttempts = 2
    MaxCrashes = 1
    Faults = {"throw", "slow"}
SPECIFICATION Spec
INVARIANT
    NothingLost
CHECK_DEADLOCK FALSE
