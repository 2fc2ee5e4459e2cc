------------------------------- MODULE Gateway -------------------------------
(***************************************************************************)
(* The production gateway: POST /v1/payments                               *)
(* (services/gateway/production_main.py), the orchestration of the other   *)
(* services (orchestrator.py) and the durable idempotency claims and       *)
(* receipts (gateway_store.py, migrations/005_gateway_core.sql).           *)
(*                                                                         *)
(* A step is one database transaction or one HTTP call.  The transaction   *)
(* service is PaymentRecord: it goes on when the gateway stops waiting.    *)
(* The request hash stands for the request itself.                         *)
(***************************************************************************)
EXTENDS Integers, FiniteSets

CONSTANTS
    Orgs,           \* merchants, which are the organizations downstream
    Keys,           \* values of the Idempotency-Key header
    Handlers,       \* concurrent request handlers
    Requests,       \* payment requests merchants may send
    EventIds,       \* uuids of events
    NoOrg, NoRequest, NoEvent

VARIABLES
    claim,          \* gateway_payment_idempotency
    aged,           \* claims older than reclaim_after_seconds
    overrun,        \* claims that aged under a handler still at work (history)
    receipt,        \* gateway_payment_receipts, UNIQUE (merchant_id, key)
    payment,        \* the transaction service's payments
    inflight,       \* requests that reach it after the gateway gave up
    recorded,       \* payments the analytics service has recorded
    ledgerQueue,    \* LEDGER_RECOVERY_FILE, by correlation id
    analyticsQueue, \* ANALYTICS_RECOVERY_FILE, by correlation id
    untold,         \* history: claims with a payment whose answer was lost
    handler         \* what each handler is doing

vars == <<claim, aged, overrun, receipt, payment, inflight, recorded, ledgerQueue,
          analyticsQueue, untold, handler>>

Record == INSTANCE PaymentRecord WITH row <- payment

RequestType == [org : Orgs, key : Keys, amount : Nat, feeAmount : Nat]

ASSUME GatewayAssumption ==
    /\ NoOrg \notin Orgs
    /\ NoRequest \notin RequestType
    /\ NoEvent \notin EventIds
    /\ Requests \subseteq RequestType

\* PRIMARY KEY (merchant_id, idempotency_key).
Claims == Orgs \X Keys

ClaimOf(req) == <<req.org, req.key>>

NoClaim == [status |-> "NONE", req |-> NoRequest, event |-> NoEvent]
NoReceipt == [event |-> NoEvent, req |-> NoRequest, status |-> "NONE", named |-> FALSE]
Idle == [pc |-> "idle", req |-> NoRequest, event |-> NoEvent, first |-> FALSE,
         status |-> "processing", named |-> FALSE]

Init ==
    /\ claim = [c \in Claims |-> NoClaim]
    /\ aged = {}
    /\ overrun = {}
    /\ receipt = [c \in Claims |-> NoReceipt]
    /\ Record!Init
    /\ inflight = {}
    /\ recorded = {}
    /\ ledgerQueue = {}
    /\ analyticsQueue = {}
    /\ untold = {}
    /\ handler = [h \in Handlers |-> Idle]

downstream == <<payment, inflight, recorded, ledgerQueue, analyticsQueue, untold>>
claims == <<claim, aged, overrun>>

At(h, pc) == handler[h].pc = pc
Mine(h) == ClaimOf(handler[h].req)
Goto(h, pc) == handler' = [handler EXCEPT ![h].pc = pc, ![h].first = FALSE]
\* The event gets its status and the receipt is built from it.
Finish(h, status) ==
    handler' = [handler EXCEPT ![h].pc = "save", ![h].status = status,
                               ![h].first = FALSE]
\* The event gets its transaction_id.
Named(h, pc) ==
    handler' = [handler EXCEPT ![h].pc = pc, ![h].first = FALSE, ![h].named = TRUE]
\* The event is forgotten with the exception.
Fail(h) ==
    handler' = [handler EXCEPT ![h] =
                  [Idle EXCEPT !.pc = "fail", !.req = handler[h].req]]
Return(h) == handler' = [handler EXCEPT ![h] = Idle]

-----------------------------------------------------------------------------
\* claim_idempotency, one transaction with the row locked.
Start(h, req, event) ==
    /\ claim' = [claim EXCEPT ![ClaimOf(req)] =
                   [status |-> "PROCESSING", req |-> req, event |-> event]]
    /\ aged' = aged \ {ClaimOf(req)}
    /\ handler' = [handler EXCEPT ![h] =
                     [Idle EXCEPT !.pc = "credentials", !.req = req]]

\* INSERT ... ON CONFLICT DO NOTHING inserted the row.
ClaimNew(h, req) ==
    /\ At(h, "idle")
    /\ claim[ClaimOf(req)].status = "NONE"
    /\ Start(h, req, NoEvent)
    /\ UNCHANGED <<overrun, receipt, downstream>>

\* Faults: the request hash is not compared; a COMPLETED claim is processed again.
ClaimAgainUnbound(h, req) ==
    LET c == ClaimOf(req) IN
    /\ At(h, "idle")
    /\ claim[c].status = "FAILED"
    /\ Start(h, req, claim[c].event)
    /\ UNCHANGED <<overrun, receipt, downstream>>
ClaimAgainCompleted(h, req) ==
    LET c == ClaimOf(req) IN
    /\ At(h, "idle")
    /\ claim[c].req = req
    /\ claim[c].status \in {"COMPLETED", "FAILED"}
    /\ Start(h, req, claim[c].event)
    /\ UNCHANGED <<overrun, receipt, downstream>>

\* A PROCESSING claim is reclaimed once it has aged, a FAILED one at once; the
\* event id of an earlier completion stays in the row.
ClaimAgain(h, req) ==
    LET c == ClaimOf(req) IN
    /\ At(h, "idle")
    /\ claim[c].req = req
    /\ \/ claim[c].status = "PROCESSING" /\ c \in aged
       \/ claim[c].status = "FAILED"
    /\ Start(h, req, claim[c].event)
    /\ UNCHANGED <<overrun, receipt, downstream>>

\* HTTP 409 for a key used for another request or still being processed, and
\* the saved receipt (by the event id of the row) for a COMPLETED one: the
\* request is answered from the tables and changes nothing.
AnswerFromRow(h, req) ==
    LET c == ClaimOf(req) IN
    /\ At(h, "idle")
    /\ \/ claim[c].status # "NONE" /\ claim[c].req # req
       \/ claim[c].status = "PROCESSING" /\ c \notin aged
       \/ claim[c].status = "COMPLETED"
    /\ UNCHANGED vars

-----------------------------------------------------------------------------
UsedEvents ==
    {handler[h].event : h \in Handlers}
        \cup {receipt[c].event : c \in Claims} \cup {claim[c].event : c \in Claims}

\* get_service_credentials and to_canonical_event: a new event.
PrepareEvent(h) ==
    /\ At(h, "credentials")
    /\ EventIds \ UsedEvents # {}
    /\ handler' = [handler EXCEPT ![h].pc = "fraud",
         ![h].event = CHOOSE e \in EventIds \ UsedEvents : TRUE]
    /\ UNCHANGED <<claims, receipt, downstream>>

\* The claims that lose the answer to a payment when this handler ends: it
\* waits for the answer, or has it in an event that is not saved yet.
Unheard(h) ==
    {c \in {Mine(h)} : At(h, "waiting") \/ (handler[h].named /\ ~At(h, "complete"))}

\* An exception around the orchestrator (no credentials, an amount that rounds to
\* zero minor units, a database that cannot be written): fail_idempotency.
Raise(h) ==
    /\ handler[h].pc \in {"credentials", "save", "complete"}
    /\ Fail(h)
    /\ untold' = untold \cup Unheard(h)
    /\ UNCHANGED <<claims, receipt, payment, inflight, recorded, ledgerQueue,
                   analyticsQueue>>

\* An exception inside process_payment of the orchestrator (an answer that is not
\* JSON, a secret that is not set, a recovery file that cannot be written) is
\* caught: the event is 'failed' and its receipt is saved like any other.  The
\* analytics service may have recorded the payment.
Caught(h) ==
    /\ handler[h].pc \in {"fraud", "transact", "waiting", "reconcile", "analytics"}
    /\ Finish(h, "failed")
    /\ \/ UNCHANGED recorded
       \/ At(h, "analytics") /\ recorded' = recorded \cup {Mine(h)}
    /\ untold' = untold \cup {c \in {Mine(h)} : At(h, "waiting")}
    /\ UNCHANGED <<claims, receipt, payment, inflight, ledgerQueue, analyticsQueue>>

\* Any error, and any answer without a decision, counts as "block".
check_fraud(h) ==
    /\ At(h, "fraud")
    /\ \E decision \in {"approve", "block", "manual_review"} :
         CASE decision = "approve" -> Goto(h, "transact")
           [] decision = "block" -> Finish(h, "blocked")
           [] OTHER -> Finish(h, "review")
    /\ UNCHANGED <<claims, receipt, downstream>>

\* POST /payments with the merchant's own key: it arrives, or the client gives
\* up first and the request may still arrive later.  A receipt saved under this
\* claim by an earlier handler does not learn of it.
process_transaction(h) ==
    LET req == handler[h].req
        late == {c \in {Mine(h)} : receipt[c] # NoReceipt}
    IN
    /\ At(h, "transact")
    /\ \/ /\ Record!Accept(req)
          /\ handler' = [handler EXCEPT ![h].pc = "waiting", ![h].first = TRUE]
          /\ untold' = untold \cup late
          /\ UNCHANGED inflight
       \/ /\ payment[req.key].status # "NONE"
          /\ Goto(h, "waiting")
          /\ untold' = untold \cup late
          /\ UNCHANGED <<payment, inflight>>
       \/ /\ inflight' = inflight \cup {req}
          /\ Finish(h, "failed")
          /\ untold' = untold \cup {Mine(h)}
          /\ UNCHANGED payment
    /\ UNCHANGED <<claims, receipt, recorded, ledgerQueue, analyticsQueue>>

\* Fault: a payment that is not posted yet counts as failed.
TransactionAnswersPosted(h) ==
    LET row == payment[handler[h].req.key] IN
    /\ At(h, "waiting")
    /\ handler[h].first => row.status # "PENDING"
    /\ IF row.org = handler[h].req.org /\ row.ledger = "set"
       THEN Named(h, "analytics") ELSE Finish(h, "failed")
    /\ UNCHANGED <<claims, receipt, downstream>>

\* The answer: the request that created the payment waits for its outcome, any
\* other gets the row as it is (HTTP 201, also when it is PENDING), or 500 when
\* the key belongs to another organization.  FAILED is HTTP 402.
TransactionAnswers(h) ==
    LET row == payment[handler[h].req.key] IN
    /\ At(h, "waiting")
    /\ handler[h].first => row.status # "PENDING"
    /\ IF row.org # handler[h].req.org \/ row.status = "FAILED" THEN Finish(h, "failed")
       ELSE IF row.ledger = "set" THEN Named(h, "analytics")
       ELSE Named(h, "reconcile")
    /\ UNCHANGED <<claims, receipt, downstream>>

\* httpx timeout, or the service is gone.
TransactionTimesOut(h) ==
    /\ At(h, "waiting")
    /\ Finish(h, "failed")
    /\ untold' = untold \cup {Mine(h)}
    /\ UNCHANGED <<claims, receipt, payment, inflight, recorded, ledgerQueue,
                   analyticsQueue>>

\* The ledger has no route for GET /transactions: the lookup never finds the
\* posting and the event is queued.
reconcile_missing_ledger(h) ==
    /\ At(h, "reconcile")
    /\ ledgerQueue' = ledgerQueue \cup {Mine(h)}
    /\ Finish(h, "partial")
    /\ UNCHANGED <<claims, receipt, payment, inflight, recorded, analyticsQueue,
                   untold>>

\* Recorded and answered; refused or not reached; recorded but not answered.
record_analytics(h) ==
    /\ At(h, "analytics")
    /\ \E stored, answered \in BOOLEAN :
         /\ recorded' = IF stored THEN recorded \cup {Mine(h)} ELSE recorded
         /\ IF stored /\ answered
            THEN /\ analyticsQueue' = analyticsQueue \ {Mine(h)}
                 /\ Finish(h, "completed")
            ELSE /\ analyticsQueue' = analyticsQueue \cup {Mine(h)}
                 /\ Finish(h, "partial")
    /\ UNCHANGED <<claims, receipt, payment, inflight, ledgerQueue, untold>>

\* Fault: ON CONFLICT on the key, doing nothing.
save_receipt_keeping(h) ==
    LET c == Mine(h) IN
    /\ At(h, "save")
    /\ receipt' = IF receipt[c] # NoReceipt THEN receipt
                  ELSE [receipt EXCEPT ![c] =
                          [event |-> handler[h].event, req |-> handler[h].req,
                           status |-> handler[h].status, named |-> handler[h].named]]
    /\ Goto(h, "complete")
    /\ UNCHANGED <<claims, downstream>>

\* INSERT ... ON CONFLICT (event_id) DO UPDATE: the event is new, so a receipt
\* that exists under this key violates UNIQUE (merchant_id, idempotency_key).
save_receipt(h) ==
    LET c == Mine(h) IN
    /\ At(h, "save")
    /\ IF receipt[c] = NoReceipt
       THEN /\ receipt' = [receipt EXCEPT ![c] =
                 [event |-> handler[h].event, req |-> handler[h].req,
                  status |-> handler[h].status, named |-> handler[h].named]]
            /\ Goto(h, "complete")
       ELSE /\ Fail(h)
            /\ UNCHANGED receipt
    /\ UNCHANGED <<claims, downstream>>

\* Unconditional updates of the row, whoever holds the claim by now.
complete_idempotency(h) ==
    /\ At(h, "complete")
    /\ claim' = [claim EXCEPT ![Mine(h)].status = "COMPLETED",
                              ![Mine(h)].event = handler[h].event]
    /\ aged' = aged \ {Mine(h)}
    /\ Return(h)
    /\ UNCHANGED <<overrun, receipt, downstream>>

fail_idempotency(h) ==
    /\ At(h, "fail")
    /\ claim' = [claim EXCEPT ![Mine(h)].status = "FAILED"]
    /\ aged' = aged \ {Mine(h)}
    /\ Return(h)
    /\ UNCHANGED <<overrun, receipt, downstream>>

-----------------------------------------------------------------------------
\* The gateway process dies, or the update of the claim itself fails.
Die(h) ==
    /\ ~At(h, "idle")
    /\ Return(h)
    /\ untold' = untold \cup Unheard(h)
    /\ UNCHANGED <<claims, receipt, payment, inflight, recorded, ledgerQueue,
                   analyticsQueue>>

\* reclaim_after_seconds pass.
Age(c) ==
    /\ claim[c].status = "PROCESSING"
    /\ aged' = aged \cup {c}
    /\ overrun' = IF \E h \in Handlers : ~At(h, "idle") /\ Mine(h) = c
                  THEN overrun \cup {c} ELSE overrun
    /\ UNCHANGED <<claim, receipt, downstream, handler>>

\* The transaction service works on, with or without its caller.
LateArrival(req) ==
    /\ req \in inflight
    /\ inflight' = inflight \ {req}
    /\ \/ Record!Accept(req)
       \/ payment[req.key].status # "NONE" /\ UNCHANGED payment
    /\ UNCHANGED <<claims, receipt, recorded, ledgerQueue, analyticsQueue, untold,
                   handler>>

TransactionService(k) ==
    /\ Record!Decide(k) \/ Record!Link(k)
    /\ UNCHANGED <<claims, receipt, inflight, recorded, ledgerQueue,
                   analyticsQueue, untold, handler>>

Work(h) ==
    \/ PrepareEvent(h)
    \/ Raise(h)
    \/ Caught(h)
    \/ check_fraud(h)
    \/ process_transaction(h)
    \/ TransactionAnswers(h)
    \/ TransactionTimesOut(h)
    \/ reconcile_missing_ledger(h)
    \/ record_analytics(h)
    \/ save_receipt(h)
    \/ complete_idempotency(h)
    \/ fail_idempotency(h)

process_payment(h, req) ==
    \/ ClaimNew(h, req)
    \/ ClaimAgain(h, req)
    \/ AnswerFromRow(h, req)

Next ==
    \/ \E h \in Handlers :
         \/ \E req \in Requests : process_payment(h, req)
         \/ Work(h)
         \/ Die(h)
    \/ \E c \in Claims : Age(c)
    \/ \E req \in Requests : LateArrival(req)
    \/ \E k \in Keys : TransactionService(k)

Spec == Init /\ [][Next]_vars

-----------------------------------------------------------------------------
ReceiptStatuses == {"completed", "partial", "failed", "blocked", "review"}

\* Every column and every handler has its type.
TypeOK ==
    /\ claim \in [Claims -> [status : {"NONE", "PROCESSING", "COMPLETED", "FAILED"},
                             req : RequestType \cup {NoRequest},
                             event : EventIds \cup {NoEvent}]]
    /\ aged \subseteq Claims
    /\ overrun \subseteq Claims
    /\ receipt \in [Claims -> [event : EventIds \cup {NoEvent},
                               req : RequestType \cup {NoRequest},
                               status : ReceiptStatuses \cup {"NONE"},
                               named : BOOLEAN]]
    /\ payment \in [Keys -> [org : Orgs \cup {NoOrg}, amount : Nat, feeAmount : Nat,
                             status : {"NONE", "PENDING", "SUCCEEDED", "FAILED"},
                             ledger : {"null", "set"}]]
    /\ inflight \subseteq Requests
    /\ recorded \subseteq Claims
    /\ ledgerQueue \subseteq Claims
    /\ analyticsQueue \subseteq Claims
    /\ untold \subseteq Claims
    /\ handler \in [Handlers ->
         [pc : {"idle", "credentials", "fraud", "transact", "waiting", "reconcile",
                "analytics", "save", "complete", "fail"},
          req : RequestType \cup {NoRequest}, event : EventIds \cup {NoEvent},
          first : BOOLEAN, status : ReceiptStatuses \cup {"processing"},
          named : BOOLEAN]]

\* "completed request is missing its receipt" never happens: a COMPLETED claim
\* names the event of the receipt saved under its key, also when a reclaimed
\* request overlaps the first one.
CompletedHasReceipt ==
    \A c \in Claims : claim[c].status = "COMPLETED" =>
        claim[c].event # NoEvent /\ receipt[c].event = claim[c].event

\* "One idempotency key cannot be reused for a different request": every handler
\* at work on a key, its receipt, a late request and the payment of the
\* merchant under that key are all about the one request of the claim; and
\* concurrent claims have one winner, through failures and retries, as long as
\* a handler ends within reclaim_after_seconds.
KeyBindsRequest ==
    /\ \A h \in Handlers : ~At(h, "idle") => claim[Mine(h)].req = handler[h].req
    /\ \A req \in inflight : claim[ClaimOf(req)].req = req
    /\ \A c \in Claims : receipt[c] # NoReceipt => claim[c].req = receipt[c].req
    /\ \A k \in Keys : payment[k].status # "NONE" =>
         LET bound == claim[<<payment[k].org, k>>].req
         IN  /\ bound # NoRequest
             /\ payment[k].amount = bound.amount
             /\ payment[k].feeAmount = bound.feeAmount
    /\ \A g, h \in Handlers :
         ~At(g, "idle") /\ ~At(h, "idle") /\ Mine(g) = Mine(h) => g = h \/ Mine(g) \in overrun

\* A completed receipt is backed by a succeeded, posted and recorded payment of
\* this merchant, and work a partial receipt leaves open is in a recovery queue
\* or has been done since.
DoneWorkIsTold ==
    \A c \in Claims :
        LET row == payment[c[2]]
        IN  /\ receipt[c].status = "completed" =>
                 row.org = c[1] /\ row.ledger = "set" /\ c \in recorded
            /\ receipt[c].status = "partial" =>
                 row.org = c[1] /\ c \in ledgerQueue \cup analyticsQueue \cup recorded

Live(c) == payment[c[2]].org = c[1] /\ payment[c[2]].status \in {"PENDING", "SUCCEEDED"}

\* A receipt that names a transaction, also a failed one, names a payment of this
\* merchant; one that names none (failed, blocked or in review) hides no payment,
\* unless the answer to a payment was lost on the way to a receipt or a handler
\* outlived its claim.
NoWorkIsHidden ==
    \A c \in Claims :
        /\ receipt[c].named => payment[c[2]].org = c[1]
        /\ receipt[c] # NoReceipt /\ ~receipt[c].named /\ c \notin untold \cup overrun =>
             ~Live(c)

\* "A receipt must report partial or failed work honestly": over exceptions that
\* become failed receipts, retries, deaths and late requests, every receipt tells
\* the work that was done, and one that reports none hides none.
ReceiptTellsTheWork == DoneWorkIsTold /\ NoWorkIsHidden

\* What a merchant was told stays true: a saved receipt is never replaced (the
\* signed payload is the evidence), and a completed request stays completed and
\* keeps answering with its receipt, unless a handler outlived its claim.
AnswersAreFinal ==
    [][\A c \in Claims :
         /\ receipt[c] # NoReceipt => receipt'[c] = receipt[c]
         /\ c \notin overrun /\ claim[c].status = "COMPLETED" => claim'[c] = claim[c]]_vars

==============================================================================
