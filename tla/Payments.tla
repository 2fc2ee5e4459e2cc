------------------------------ MODULE Payments ------------------------------
(***************************************************************************)
(* createPayment of the transaction service                                *)
(* (services/transaction/transaction-service-core.ts) with the processor   *)
(* and the ledger it calls.  The service opens no database transaction:    *)
(* every statement commits on its own, handlers of concurrent requests     *)
(* interleave between any two of them, and a handler may die anywhere.     *)
(*                                                                         *)
(* A payments row is named by its idempotency key: the column is UNIQUE    *)
(* and rows are never deleted, so a key never has a second row.  The       *)
(* ledger is seen through LedgerBook's promise: a posting under the key    *)
(* payment-<id> is made at most once.                                      *)
(***************************************************************************)
EXTENDS Integers, FiniteSets

CONSTANTS
    Orgs,       \* organizations
    Keys,       \* idempotency keys of payment requests
    Handlers,   \* concurrent request handlers
    Requests,   \* the requests callers may send
    NoOrg,      \* no row yet
    NoRequest   \* the handler is idle

VARIABLES
    payment,    \* table payments, by idempotency key
    calls,      \* charge requests that reached the processor, per key
    processor,  \* what the processor did with the money of a key
    chart,      \* account codes that exist in the ledger, per organization
    posted,     \* ledger transactions under payment-<id>
    unposted,   \* table unposted_payments
    handler,    \* what each handler is doing
    answer,     \* what each handler last returned
    died        \* keys whose handler died (history)

vars == <<payment, calls, processor, chart, posted, unposted, handler, answer, died>>

\* Processor Clearing, Merchant Payable, Platform Fee Revenue.
Codes == {"1100", "2001", "4001"}

RequestType == [org : Orgs, key : Keys, amount : Nat, feeAmount : Nat]

ASSUME PaymentsAssumption ==
    /\ NoOrg \notin Orgs
    /\ NoRequest \notin RequestType
    /\ Requests \subseteq RequestType

NoRow == [org |-> NoOrg, status |-> "NONE", amount |-> 0, feeAmount |-> 0,
          reference |-> "null", ledger |-> "null"]

Idle == [pc |-> "idle", req |-> NoRequest, known |-> {}, reference |-> "null"]

\* What callers can rely on in a row.
Row(k) == [org |-> payment[k].org, amount |-> payment[k].amount,
           feeAmount |-> payment[k].feeAmount, status |-> payment[k].status,
           ledger |-> payment[k].ledger]

Record == INSTANCE PaymentRecord WITH row <- [k \in Keys |-> Row(k)]

Init ==
    /\ payment = [k \in Keys |-> NoRow]
    /\ calls = [k \in Keys |-> 0]
    /\ processor = [k \in Keys |-> "none"]
    /\ chart = [o \in Orgs |-> {}]
    /\ posted = [k \in Keys |-> 0]
    /\ unposted = {}
    /\ handler = [h \in Handlers |-> Idle]
    /\ answer = [h \in Handlers |-> "none"]
    /\ died = {}

Key(h) == handler[h].req.key
Org(h) == handler[h].req.org
At(h, pc) == handler[h].pc = pc
Goto(h, pc) == handler' = [handler EXCEPT ![h].pc = pc]

\* Row-level security: a handler reads the rows of its organization only.
Visible(org, k) == payment[k].org = org

\* The handler returns and its session is closed.
Return(h, what) ==
    /\ handler' = [handler EXCEPT ![h] = Idle]
    /\ answer' = [answer EXCEPT ![h] = what]

-----------------------------------------------------------------------------
\* Fault: a PENDING row is taken up again instead of returned.
createPaymentResuming(h, req) ==
    /\ At(h, "idle")
    /\ handler' = [handler EXCEPT ![h].req = req,
         ![h].pc = IF payment[req.key].status = "PENDING" THEN "charge" ELSE "insert"]
    /\ UNCHANGED <<payment, calls, processor, chart, posted, unposted, answer, died>>

\* createPayment up to its first SELECT: an existing row of the organization is
\* returned as it is, whatever its status and whatever the request says.
createPayment(h, req) ==
    /\ At(h, "idle")
    /\ IF Visible(req.org, req.key)
       THEN Return(h, payment[req.key].status)
       ELSE /\ handler' = [handler EXCEPT ![h].pc = "insert", ![h].req = req]
            /\ answer' = [answer EXCEPT ![h] = "none"]
    /\ UNCHANGED <<payment, calls, processor, chart, posted, unposted, died>>

\* Fault: ON CONFLICT DO UPDATE instead of the unique violation.
InsertPendingUpsert(h) ==
    LET req == handler[h].req IN
    /\ At(h, "insert")
    /\ payment' = [payment EXCEPT ![req.key] =
         [NoRow EXCEPT !.org = req.org, !.status = "PENDING",
                       !.amount = req.amount, !.feeAmount = req.feeAmount]]
    /\ Goto(h, "charge")
    /\ UNCHANGED <<calls, processor, chart, posted, unposted, answer, died>>

\* INSERT ... 'PENDING'.  CHECK (amount > 0); UNIQUE (idempotency_key), which
\* row-level security does not filter: on 23505 the row of the racing request
\* is returned if it can be seen, otherwise the error is thrown on.
InsertPending(h) ==
    LET req == handler[h].req IN
    /\ At(h, "insert")
    /\ IF req.amount > 0 /\ payment[req.key].status = "NONE"
       THEN /\ payment' = [payment EXCEPT ![req.key] =
                 [NoRow EXCEPT !.org = req.org, !.status = "PENDING",
                               !.amount = req.amount,
                               !.feeAmount = req.feeAmount]]
            /\ Goto(h, "charge")
            /\ UNCHANGED answer
       ELSE /\ Return(h, IF req.amount > 0 /\ Visible(req.org, req.key)
                         THEN payment[req.key].status ELSE "error")
            /\ UNCHANGED payment
    /\ UNCHANGED <<calls, processor, chart, posted, unposted, died>>

\* Fault: any verdict but a decline counts as success.
callProcessorTrusting(h) ==
    /\ At(h, "charge")
    /\ \E verdict \in {"charged", "processing", "declined"} :
         /\ processor' = [processor EXCEPT ![Key(h)] = verdict]
         /\ calls' = [calls EXCEPT ![Key(h)] = @ + 1]
         /\ handler' = [handler EXCEPT ![h].reference = "set",
              ![h].pc = IF verdict = "declined" THEN "failed" ELSE "succeeded"]
    /\ UNCHANGED <<payment, chart, posted, unposted, answer, died>>

\* callProcessor: the adapter may refuse the request before it is sent
\* ("none"), and the processor's verdict may not come back.  Every outcome but
\* a delivered "succeeded" counts as a failure.
callProcessor(h) ==
    /\ At(h, "charge")
    /\ \E verdict \in {"none", "charged", "processing", "declined"},
          delivered \in BOOLEAN :
         /\ verdict = "none" => ~delivered
         /\ processor' = [processor EXCEPT ![Key(h)] = verdict]
         /\ calls' = [calls EXCEPT ![Key(h)] = @ + IF verdict = "none" THEN 0 ELSE 1]
         /\ handler' = [handler EXCEPT
              ![h].pc = IF verdict = "charged" /\ delivered THEN "succeeded" ELSE "failed",
              ![h].reference = IF delivered THEN "set" ELSE "null"]
    /\ UNCHANGED <<payment, chart, posted, unposted, answer, died>>

\* Fault: the key is freed for a retry.
RecordFailureDeleting(h) ==
    /\ At(h, "failed")
    /\ payment' = [payment EXCEPT ![Key(h)] = NoRow]
    /\ Return(h, "FAILED")
    /\ UNCHANGED <<calls, processor, chart, posted, unposted, died>>

\* UPDATE payments SET status = 'FAILED', and the row is returned (HTTP 402).
RecordFailure(h) ==
    /\ At(h, "failed")
    /\ payment' = [payment EXCEPT ![Key(h)].status = "FAILED",
                                  ![Key(h)].reference = handler[h].reference]
    /\ Return(h, "FAILED")
    /\ UNCHANGED <<calls, processor, chart, posted, unposted, died>>

RecordSuccess(h) ==
    /\ At(h, "succeeded")
    /\ payment' = [payment EXCEPT ![Key(h)].status = "SUCCEEDED",
                                  ![Key(h)].reference = "set"]
    /\ Goto(h, "accounts")
    /\ UNCHANGED <<calls, processor, chart, posted, unposted, answer, died>>

\* resolveLedgerAccounts, the list call; any ledger error leads to the queue.
listAccounts(h) ==
    /\ At(h, "accounts")
    /\ \/ handler' = [handler EXCEPT ![h].pc = "create", ![h].known = chart[Org(h)]]
       \/ Goto(h, "enqueue")
    /\ UNCHANGED <<payment, calls, processor, chart, posted, unposted, answer, died>>

FirstMissing(known) ==
    IF "1100" \notin known THEN "1100"
    ELSE IF "2001" \notin known THEN "2001" ELSE "4001"

\* resolveLedgerAccounts, one create call for a code the list did not show: the
\* ledger refuses a code that exists by now, and an answer may be lost.
createAccount(h) ==
    /\ At(h, "create")
    /\ handler[h].known # Codes
    /\ LET code == FirstMissing(handler[h].known) IN
            \/ /\ code \notin chart[Org(h)]
               /\ chart' = [chart EXCEPT ![Org(h)] = @ \cup {code}]
               /\ \/ handler' = [handler EXCEPT ![h].known = @ \cup {code}]
                  \/ Goto(h, "enqueue")
            \/ /\ Goto(h, "enqueue")
               /\ UNCHANGED chart
    /\ UNCHANGED <<payment, calls, processor, posted, unposted, answer, died>>

\* The ledger takes only lines with amount > 0: a fee that eats the whole
\* amount leaves a net line of zero.
LedgerTakes(req) == req.amount - req.feeAmount > 0

\* postPaymentSucceeded under the key payment-<id>: refused or unreachable, or
\* posted with an answer that may be lost.
postPaymentSucceeded(h) ==
    /\ At(h, "create")
    /\ handler[h].known = Codes
    /\ \/ /\ LedgerTakes(handler[h].req)
          /\ posted' = [posted EXCEPT ![Key(h)] = IF @ = 0 THEN 1 ELSE @]
          /\ Goto(h, "link") \/ Goto(h, "enqueue")
       \/ /\ Goto(h, "enqueue")
          /\ UNCHANGED posted
    /\ UNCHANGED <<payment, calls, processor, chart, unposted, answer, died>>

\* Fault: the update is outside the try, its failure is not queued.
LinkLedgerUnguarded(h) ==
    /\ At(h, "link")
    /\ \/ payment' = [payment EXCEPT ![Key(h)].ledger = "set"]
       \/ UNCHANGED payment
    /\ Return(h, "SUCCEEDED")
    /\ UNCHANGED <<calls, processor, chart, posted, unposted, died>>

\* UPDATE payments SET ledger_transaction_id, and the row is returned (HTTP
\* 201).  The statement is inside the same try: its failure leads to the queue.
LinkLedger(h) ==
    /\ At(h, "link")
    /\ \/ /\ payment' = [payment EXCEPT ![Key(h)].ledger = "set"]
          /\ Return(h, "SUCCEEDED")
       \/ /\ Goto(h, "enqueue")
          /\ UNCHANGED <<payment, answer>>
    /\ UNCHANGED <<calls, processor, chart, posted, unposted, died>>

\* enqueueUnpostedPayment, and the row is returned without a ledger id.
enqueueUnpostedPayment(h) ==
    /\ At(h, "enqueue")
    /\ unposted' = unposted \cup {Key(h)}
    /\ Return(h, "SUCCEEDED")
    /\ UNCHANGED <<payment, calls, processor, chart, posted, died>>

-----------------------------------------------------------------------------
\* The service dies, or a statement outside every try fails.
Die(h) ==
    /\ ~At(h, "idle")
    /\ Return(h, "lost")
    /\ died' = IF At(h, "insert") THEN died ELSE died \cup {Key(h)}
    /\ UNCHANGED <<payment, calls, processor, chart, posted, unposted>>

\* A charge the processor reported as processing settles later.
Settle(k) ==
    /\ processor[k] = "processing"
    /\ \E verdict \in {"charged", "declined"} :
         processor' = [processor EXCEPT ![k] = verdict]
    /\ UNCHANGED <<payment, calls, chart, posted, unposted, handler, answer, died>>

Work(h) ==
    \/ InsertPending(h)
    \/ callProcessor(h)
    \/ RecordFailure(h)
    \/ RecordSuccess(h)
    \/ listAccounts(h)
    \/ createAccount(h)
    \/ postPaymentSucceeded(h)
    \/ LinkLedger(h)
    \/ enqueueUnpostedPayment(h)

Next ==
    \/ \E h \in Handlers :
         \/ \E req \in Requests : createPayment(h, req)
         \/ Work(h)
         \/ Die(h)
    \/ \E k \in Keys : Settle(k)

Spec == Init /\ [][Next]_vars

-----------------------------------------------------------------------------
Statuses == {"NONE", "PENDING", "FAILED", "SUCCEEDED"}

\* An id column or field: NULL or given.
Nullable == {"null", "set"}

RowType == [org : Orgs \cup {NoOrg}, status : Statuses, amount : Nat,
            feeAmount : Nat, reference : Nullable, ledger : Nullable]

PCs == {"idle", "insert", "charge", "failed", "succeeded", "accounts",
        "create", "link", "enqueue"}

\* Every column and every handler has its type.
TypeOK ==
    /\ payment \in [Keys -> RowType]
    /\ calls \in [Keys -> Nat]
    /\ processor \in [Keys -> {"none", "charged", "processing", "declined"}]
    /\ chart \in [Orgs -> SUBSET Codes]
    /\ posted \in [Keys -> Nat]
    /\ unposted \subseteq Keys
    /\ handler \in [Handlers -> [pc : PCs, req : RequestType \cup {NoRequest},
                                 known : SUBSET Codes, reference : Nullable]]
    /\ answer \in [Handlers -> Statuses \cup {"none", "error", "lost"}]
    /\ died \subseteq Keys

\* "Repeated requests with the same idempotency key must not create duplicate
\* money movement": retries, races, other tenants' requests and crashes
\* together send one charge per key, and the ledger gets one posting.
ChargedAtMostOnce == \A k \in Keys : calls[k] <= 1 /\ posted[k] <= 1

\* "Only a processor succeeded result can move the payment to SUCCEEDED", and
\* nothing is in the books, or linked, before that.
BooksFollowTheMoney ==
    \A k \in Keys :
        /\ payment[k].status = "SUCCEEDED" => processor[k] = "charged"
        /\ posted[k] > 0 => payment[k].status = "SUCCEEDED"
        /\ payment[k].ledger = "set" => posted[k] = 1

\* A handler past its INSERT owns the row: nobody else works on that key.
Working(h) == handler[h].pc \notin {"idle", "insert"}

SoleHandler ==
    \A g, h \in Handlers :
        Working(g) /\ Working(h) /\ Key(g) = Key(h) => g = h

\* findUnpostedPayments and the queue: a succeeded payment that is not linked
\* to the ledger is in unposted_payments, unless its handler is still working
\* on it or died.
UnpostedIsQueued ==
    \A k \in Keys :
        payment[k].status = "SUCCEEDED" /\ payment[k].ledger = "null" =>
            \/ k \in unposted \cup died
            \/ \E h \in Handlers : Working(h) /\ Key(h) = k

\* The service implements PaymentRecord: under a key one request is accepted, it
\* is decided once and linked to the ledger once; no handler overwrites the
\* result of another.
ImplementsRecord == Record!Spec

=============================================================================
