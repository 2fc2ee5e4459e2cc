SPECIFICATION Spec
CONSTANTS
    w1 = w1  w2 = w2  c1 = c1  c2 = c2  k1 = k1  k2 = k2
    Workers = {w1, w2}
    Ids = {c1, c2}
    Terms <- MCTerms
    Calls <- MCCalls
    Outcomes <- MCOutcomes
    Deliveries <- MCDeliveries
    Tenant <- MCTenant
    RouteFee <- MCRouteFee
    Debits = {3, 5}
    NoForm = NoForm
    NoContract = NoContract
INVARIANTS
    VerdictsAreAuthorized
    VerdictsFollowEvidence
    OneStoryPerExecution
    ReputationIsTheOutcomes
SYMMETRY Symmetry
