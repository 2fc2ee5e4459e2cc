\* Two calls, their repetitions and recoveries, one of them cut off; a route fee
\* of two sats is covered by the reservation for one invoice and not for the other.
SPECIFICATION FairSpec
CONSTANTS
    a1 = a1  k1 = k1  k2 = k2  k3 = k3  g1 = g1  g2 = g2
    Auths = {a1}
    Keys = {k1, k2}
    Agents = {g1}
    Calls = {c1, c2}
    Requests <- TwoCalls
    Budget <- TightBudget
    Allowed <- MCAllowed
    Invoices <- TwoInvoices
    Fees = {2}
    NoInvoice = NoInvoice
    NoRequest = NoRequest
    SharedLoop = TRUE
    MaxDeaths = 1
PROPERTY ProofIsReceiptedInTheEnd
