\* Two handlers that may outlive their claims.
SPECIFICATION Spec
CONSTANTS
    o1 = o1  o2 = o2  k1 = k1
    Orgs = {o1, o2}
    Keys = {k1}
    Handlers = {h1, h2}
    Requests <- OneMerchant
    EventIds = {1, 2, 3}
    NoOrg = NoOrg
    NoRequest = NoRequest
    NoEvent = NoEvent
INVARIANTS
    CompletedHasReceipt
    KeyBindsRequest
    ReceiptTellsTheWork
PROPERTIES
    AnswersAreFinal
SYMMETRY HandlerSymmetry
