\* Two executions in one process.
SPECIFICATION Spec
CONSTANTS
    a1 = a1  k1 = k1  k2 = k2  k3 = k3  g1 = g1  g2 = g2
    Auths = {a1}
    Keys = {k1, k2, k3}
    Agents = {g1, g2}
    Calls = {c1, c2}
    Requests <- MCRequests
    Budget <- MCBudget
    Allowed <- MCAllowed
    Invoices <- ThreeInvoices
    Fees = {0, 2}
    NoInvoice = NoInvoice
    NoRequest = NoRequest
    SharedLoop = TRUE
    MaxDeaths = 1
INVARIANTS
    BudgetHolds
    NeverPaysTwice
    CallsWithinLimit
    MoneyInFlightIsHeld
    ReceiptIsProven
SYMMETRY CallSymmetry
