SPECIFICATION FraudSpec
CONSTANTS
    m1 = m1  m2 = m2  w1 = w1  w2 = w2
    Merchants = {m1, m2}
    Workers = {w1, w2}
    Checkouts <- MCCheckouts
    Payouts <- MCPayouts
    Tracks <- MCTracks
    Histories <- MCHistories
    Short = 1
    Medium = 2
    Day = 3
    MaxRequests = 3
    MaxTime = 2
    MaxCrashes = 1
    None = None
INVARIANTS
    VelocityIsTheMerchantsOwn
    ProofsDecidePayouts
    StableAnswer
    CertificatesHold
SYMMETRY Symmetry
CHECK_DEADLOCK FALSE
