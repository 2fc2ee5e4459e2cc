SPECIFICATION Spec
CONSTANTS
    e1 = e1
    e2 = e2
    k1 = k1
    h1 = h1
    h2 = h2
    s1 = s1
    s2 = s2
    t1 = t1
    t2 = t2
    Rows = {e1, e2}
    Keys = {k1}
    KeyOf <- OneKey
    Tenants = {t1}
    TenantOf <- OneTenant
    Bodies <- LoopBodies
    Handlers = {h1, h2}
    Slots = {s1, s2}
    ReversalKeys = {1}
    MaxFaults = 1
    NoRow = NoRow
    NoHandler = NoHandler
INVARIANTS
    BooksFollowObligations
    PayoutsExhaustThePool
    OnePayloadPerKey
CHECK_DEADLOCK FALSE
SYMMETRY Symmetry
