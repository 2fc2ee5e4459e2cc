SPECIFICATION SpendSpec
CONSTANTS
    p1 = p1  k1 = k1  k2 = k2  k3 = k3  q1 = q1  q2 = q2  c1 = c1  c2 = c2
    Policies = {p1}
    Forms <- MCForms
    SpendKeys = {k1, k2, k3}
    Routes <- MCRoutes
    Cards <- MCCards
    Estimates <- MCEstimates
    Usages <- MCUsages
    ProviderRequests = {q1, q2}
    ChargeIds = {c1, c2}
    Charges = {2, 6}
    Tolerance = 1
    ExactBelow = 1500000
    Dropped <- MCDropped
    MaxTime = 2
    NoPolicy = NoPolicy
    NoRequest = NoRequest
INVARIANTS
    ColumnsAreTheReservations
    FailClosed
    ChargedAsReserved
    ChargesAreMatched
CHECK_DEADLOCK FALSE
SYMMETRY Symmetry
