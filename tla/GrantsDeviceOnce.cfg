SPECIFICATION Spec
CONSTANTS
    u1 = u1
    u2 = u2
    p1 = p1
    p2 = p2
    d1 = d1
    d2 = d2
    e1 = e1
    e2 = e2
    k1 = k1
    k2 = k2
    Users = {u1, u2}
    Agent = Agent
    Owner = Owner
    Polls = {p1, p2}
    Decisions = {d1, d2}
    Evaluations = {e1, e2}
    OperationKeys = {k1, k2}
    None = None
    TTL = 2
    Interval = 1
    Increment = 1
    MaxClock = 3
    MaxStops = 1
INVARIANTS
    DeviceExchangedOnce
SYMMETRY Symmetric
CHECK_DEADLOCK FALSE
