\* Two sessions, all kinds of request, two transactions in the book.
SPECIFICATION FairSpec
CONSTANTS
    a1 = a1  a2 = a2  b1 = b1  o1 = o1  o2 = o2  k1 = k1  k2 = k2
    Orgs <- MCOrgs
    Accounts <- MCAccounts
    AccountOrg <- MCAccountOrg
    Keys <- MCKeys
    NoKey = NoKey
    TxnIds = {1, 2, 3}
    NoTxn = NoTxn
    Requests <- AllRequests
    Sessions = {s1, s2}
    NoSession = NoSession
INVARIANTS
    StoreAgreesWithJournal
    ReversedIffReversal
    BooksReconcile
PROPERTIES
    ImplementsBook
    EveryRequestEnds
