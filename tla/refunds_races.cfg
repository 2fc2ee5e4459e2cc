\* Two handlers refund one payment under three keys, one of them reused.
SPECIFICATION Spec
CONSTANTS
    p1 = p1  k1 = k1  k2 = k2  k3 = k3
    PaymentIds = {p1}
    PaymentAmount <- MCAmount
    Keys = {k1, k2, k3}
    Handlers = {h1, h2}
    Requests <- SharedKey
    NoRequest = NoRequest
    ProcessorCaps = FALSE
    MaxReversals = 2
SYMMETRY HandlerSymmetry
INVARIANTS
    SplitStateIsKept
    RefundRecordsWhatWasReturned
    RefundsWithinPayment
