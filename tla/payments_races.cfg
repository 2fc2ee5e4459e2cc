\* Two handlers, two keys, two organizations.
SPECIFICATION Spec
CONSTANTS
    o1 = o1  o2 = o2  k1 = k1  k2 = k2
    Orgs = {o1, o2}
    Keys = {k1, k2}
    Handlers = {h1, h2}
    Requests <- MCRequests
    NoOrg = NoOrg
    NoRequest = NoRequest
INVARIANTS
    ChargedAtMostOnce
    BooksFollowTheMoney
    SoleHandler
    UnpostedIsQueued
PROPERTY ImplementsRecord
