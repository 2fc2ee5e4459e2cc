# Archisynapse: a TLA+ development

Archisynapse moves money for merchants and for software agents. This directory
holds TLA+ models of the parts of it that decide about money, TLC runs that check
them on small instances, and TLAPS proofs of the results that matter most. Line
numbers are those of the repository this directory accompanies; `PROJECT.json`
maps every definition to the lines it models.

## 1. The system

| part | state | operations | talks to |
|---|---|---|---|
| ledger service (`services/ledger`) | accounts with a denormalised balance, transactions, journal entries, idempotency store, audit log (PostgreSQL) | create account, post, reverse, trial balance, reconcile | - |
| transaction service, payments (`services/transaction`) | payments, unposted_payments | create payment | processor, ledger (HTTP) |
| transaction service, refunds | refunds, processor_refund_attempts, payments.status | refund payment | processor, ledger |
| production gateway (`services/gateway`) | idempotency claims, receipts, two recovery files, merchants and credentials | process payment, process refund, read receipt | fraud, transaction, ledger, analytics |
| royalty loop (gateway and transaction service) | Lyrica's outbox, claims, receipts, obligations, payouts, reversals | create, release, reverse obligation | ledger, fraud, ownership verifier |
| economic-truth outbox (gateway) | outbox rows | enqueue, deliver, flush | SLA113 |
| agent commerce (`services/agent-commerce`) | authorizations, reservations, receipts, audit chain (SQLite) | create, revoke, call, reconcile | LND, paid agents |
| service contracts (agent commerce) | contracts, FABLE receipts, outcomes, reputation | create, contracted call, record outcome | paid calls |
| token spend (agent commerce) | rate cards, policies, reservations, usage receipts, provider charges, alerts | put card, create policy, stop, preflight, finalize, reconcile | - |
| fraud (`services/fraud`) | merchants, events, idempotency records, spine events, birth certificates | score checkout, score payout, receive event, verify certificate | - |
| analytics | events, statistics | record, report | - |

What is hard in it:

* **Interleaving.** Every service is a pool of handlers over one database. Between
  two statements, and at every `await`, another handler runs. Uniqueness is decided
  by the database, sums and checks are made before the write they protect.
* **Failure between steps.** A payment is a database row, a call to a processor, a
  second update, a posting in another service and a third update; a process may die
  or an answer may be lost between any two.
* **Retries.** Every operation has an idempotency key, kept in a different way in
  each service (unique index with a stored response, unique index alone, a claim row
  with a status and a reclaim time, an attempt row, a reservation).
* **Somebody else's state.** The gateway reports on a payment it no longer waits for;
  the agent-commerce service on a Lightning payment it cannot cancel.

What makes each part correct: the books balance and are never rewritten, one
transaction per key (ledger); money is taken once per key, the books follow the money,
what was not posted is remembered (payments); the processor moves before the books,
refunds state what was returned (refunds); a receipt says what was done, is kept, and
a key stands for one request (gateway); budgets hold, one payment per call, money on
its way stays reserved, a receipt is backed by a settlement (agent commerce); the
books follow the obligations, payouts are the whole pool, every event settles (royalty
loop); the budget columns are the sum of the reservations, an active policy has nothing
against it, a call is charged as it was reserved (token spend); verdicts rest on the
authority, the payment and the outcome on record, and are told once (contracts); a
decision counts the merchant's own events, an answer is stable, a track has one
certificate (fraud).
`PROJECT.json` lists the hazards behind these, each at its line.

## 2. Modules

| module | what it is |
|---|---|
| `LedgerBook` | abstract: an append-only book of balanced transactions |
| `Ledger` | the ledger service, statement by statement |
| `LedgerProofs` | the proofs about `Ledger`, with the refinement of `LedgerBook` |
| `PaymentRecord` | abstract: the life of a payment row, as the gateway may rely on it |
| `Payments` | `createPayment`, await by await |
| `PaymentsProofs` | the proofs about `Payments` |
| `Refunds` | `refundPayment`, await by await |
| `RefundsProofs` | the proofs about `Refunds` |
| `Gateway` | `POST /v1/payments` of the production gateway, over `PaymentRecord` |
| `GatewayProofs` | the proofs about `Gateway` |
| `AgentCommerce` | authorizations, paid calls, receipts and recovery |
| `AgentCommerceProofs` | the proofs about `AgentCommerce` |
| `RoyaltyMoney` | the largest-remainder split, as operators |
| `Royalty` | the royalty loop from Lyrica's outbox to the ledger, over `RoyaltyMoney` |
| `TokenSpend` | AI token spend controls |
| `Contracts` | service contracts, FABLE receipts and reputation around a paid call |
| `AgentControlsProofs` | the proofs about `TokenSpend` and `Contracts` |
| `Fraud` | the fraud service and the spine receiver |
| `RoyaltyLoopProofs` | the proofs about `Royalty`, `RoyaltyMoney` and `Fraud` |
| `SumTheorems` | lemmas on finite sums, for the proofs |
| `MC*` | instances for TLC |

Definitions marked `Fault:` are mutated forms of the definition that follows them;
no specification uses them. They show that a property can fail. Every module states
its `TypeOK`; it is proved for every module and is in no run, as it says nothing about
the code that the other invariants do not rest on. `TokenSpend` and `Fraud` prefix the
usual names (`SpendSpec`, `SpendTypeOK`, `FraudSpec`, `FraudTypeOK`), so that one module
of proofs can extend two components.

### Ledger
A session (`session`) is a database connection inside `BEGIN ... COMMIT`. `BeginPost`
and `BeginReverse` open it, then `checkIdempotency`, validation, `InsertTransaction`
(which waits while another session holds the same key in the unique index), one
`InsertEntry` and one `UpdateBalance` per line (the AFTER INSERT trigger: the sum is
read when the statement starts, the write waits for the row lock), `Commit`.
`Disconnect` ends a session anywhere, `DeadlockAbort` is PostgreSQL's detector,
`Expire` the end of a stored response. The state that is not committed lives in the
session and in `pending`, so a rollback forgets it. Amounts are small integers;
currencies, descriptions, pagination and the audit log are left out. `LedgerBook` is
refined by taking the committed journal.

### Payments, Refunds
One action per statement or remote call. A remote call may do its work and be
answered, do it and lose the answer, or not do it. `Die` is a crash, or an exception
of a statement that the code does not catch. The processor is external: it keeps its
first answer to a key (the adapter sends the request's key as its idempotency key),
refuses the key for another request and, with `ProcessorCaps`, refuses to return more
than it took. Callers may send one refund key for several amounts: `refundPayment` does
not compare, and resumes the attempt it finds. `overtaken` remembers the payments of
which one refund inserted its row while another was between its sum and its own row.
`PaymentRecord` keeps of a payment only what its row tells: accepted, decided once,
linked to the ledger once; `Payments` implements it (run and theorem), and `Gateway`
uses it in place of the transaction service. It is the record of `createPayment`: that
`refundPayment` later makes a SUCCEEDED row PARTIALLY_REFUNDED or REFUNDED
(`transaction-service-core.ts:418`) is in `Refunds` only.

### Gateway
One action per database transaction or HTTP call. `process_transaction` either
reaches the transaction service or gives up; a request that was given up may arrive
later (`LateArrival`), and the service works on by itself (`TransactionService`). An
exception inside the orchestrator's `process_payment` is caught there (`Caught`,
`orchestrator.py:155`): the event is "failed", its receipt is saved and the claim
completed, like any other. Only what is raised around it (credentials, the writing of
the receipt, the completion) reaches `fail_idempotency` (`Raise`). A receipt may name its
transaction or none (`named`); `untold` remembers the claims of which an answer to a
payment was lost before it reached a receipt. The request hash stands for the
request itself. `aged` is the passing of `reclaim_after_seconds`; `overrun` remembers
that this happened to a handler which was still at work. An answer from the tables
(409, or the saved receipt) changes nothing, so it is a step without effect.
The ledger has no route for the lookup by reference the gateway makes, so
`reconcile_missing_ledger` always queues.

### AgentCommerce
One action per SQLite transaction (`BEGIN IMMEDIATE`), read or remote call.
`SharedLoop` says that all executions run in one event loop, as the image starts them
(`Dockerfile`: one uvicorn process): another execution runs only at an `await`.
Invoices are offered by agents, who may offer the same one twice and one hash with
two amounts. `Lightning` settles or fails what was sent, at any fee in `Fees`: the code
sends no limit, so fees above `max_route_fee_sats` are among them.
`reconcile_initiated_payment` is the operator's request, and its lookup may prove the
payment (`LookupProves`) or come back with nothing although it settled (`LookupFails`,
`l402.py:140`). The fee ceiling of a quote is
the code's `ceil(price * 1.1)`, whose binary rounding adds one to some multiples of
ten (`Ceilings` allows both).

### Royalty, RoyaltyMoney
Three processes over four stores. Lyrica's outbox sends a row, waits for one answer,
and settles or retries it by the status code (`StateAfter`). A gateway handler goes
through `verify_and_parse`, `claim_idempotency`, the pre-flight computation, the
decision and the call of the transaction service, then the receipt, the completion and
the truth record; every database transaction and every call is a step. A request to the
transaction service (`job`) looks up its key, posts to the ledger and inserts the
obligation, and goes on when its caller has given up. Claims grow old (`Age`) and are
taken over; events leave the five-minute replay window (`GrowStale`); answers get lost,
either service restarts, and the database may refuse a receipt, up to `MaxFaults` times.
The decision is a free choice at every attempt, since fraud and verifier may answer a
retry differently, and it may raise (`DecisionFails`: the claim fails, the answer is 500);
`sent` remembers which decisions went out under a key. Claims are unique per tenant and
key, obligations and ledger postings by the key alone, and a tenant does not see the
other's obligation (row-level security): `poster` remembers whose event a posting was
made for. The transaction service refuses shares of zero (`splitSchema`) and payouts of
zero (`CHECK (amount > 0)`). The ledger
is what its client sees: a posting per idempotency key, and reversals without one.
The gateway routes for release and reversal lock the obligation row from its read to
the commit, so each is one step and one more for the receipt; a release whose commit
fails after the ledger answered is remembered in `torn`. A negative share, which Lyrica's
validator lets through and the service refuses like a share of zero, is represented by the
share of zero; two outbox rows have two event ids.
`RoyaltyMoney` computes in integers: amounts in units of 1/10000 dollar, payouts in
cents, rounding and the three-level order of remainders as in the code.

### TokenSpend
Every operation of the store is one `BEGIN IMMEDIATE` transaction and so one action;
what raises, changes nothing. Token counts keep their four kinds, prices are per million
tokens. Time is in minutes, the window of the call rate. A replay with the same key
changes nothing and has no action.

`effective_at` is stored as it was sent and compared as text (`token_preflight.py:175`).
A card therefore has, for its time, its `text`: the first time of the clock whose own text
is not less than the stored one, which an offset or a missing fraction of a second sets
apart from the instant it names. `InForce` compares `text`, and `LatestCard` sorts by it.
The clock's own texts are taken to be in order, which they are save within one second.

Costs are `math.ceil` of a division of floats (`token_rates.py:112`). `MathCeil` is the
exact ceiling except for the pairs in `Dropped`, of which the quotient has a fraction too
small for a double: then it is lost before it is rounded up, as in
`ceil((2**35 * 10**6 + 1) / 10**6) == 2**35`. That only happens from 2^53 on
(`ExactBelow`), where numerators are no longer all doubles. The run puts the limit low, so
that it is crossed. The anomaly multiplier, a float of at least 1, is a fraction. Amounts
of 2^53 micro dollars and more, where the sums themselves are rounded, are not modelled.

### Contracts
A worker is a task of the event loop or a thread. The contracted call is interrupted
only where it awaits the payment; creating a contract and recording an outcome are
plain functions, which the server runs on threads, so each of their transactions is a
step and two of them interleave. The payment itself is `AgentCommerce`; here `Pay`,
`Deliver`, `Replay` and `Reconcile` are what a caller sees of it. A payment has its quote,
which is what the contract is compared with, and its debit, which is what was taken: any
invoice up to `int(quote * 1.1 + 0.999999)` with the route fee on top is paid
(`DebitCeiling`), any other debit is refused. A FABLE receipt is its
content; `fable` keeps the receipts of one type, contract and execution in the order of
insertion, because `issue` compares with the oldest.

### Fraud
A request looks up its key, scores, commits the event and commits the idempotency
record in four steps. A row keeps the `event_type` of its caller, which only defaults to
the endpoint's; the payout velocity counts the rows called `royalty_payout_request`, so
requests to the payout endpoint under another name are scored and not counted. The
scores, weights, windows and thresholds are those of the code. Every velocity count is a SELECT of its own, so `Calculate` chooses for every signal how
much of the table it saw, from the length at the look-up to the present one. Hashes are
the identifiers they are made of; the three windows are one, two and three ticks.
`Histories` are tables one event short of a threshold.

## 3. Runs

| run | instance | shows |
|---|---|---|
| `ledger_races` | 2 sessions, 3 accounts of 2 organizations, 3 transactions, 5 kinds of request | store and journal agree, reversed exactly when a reversal exists, the books reconcile, `LedgerBook` is implemented (append-only, one transaction per key, own accounts), every request ends |
| `payments_races` | 2 handlers, 2 keys, 2 organizations, 5 requests | one charge per key, books follow money, one handler per key, unposted is queued, `PaymentRecord` is implemented |
| `refunds_races` | 2 handlers, 1 payment, 3 keys, one of them sent for three amounts, a processor that does not cap | split state kept; rows and reversals follow the processor, and state what it returned where the key was sent for one refund; refunds stay within the payment unless one overtakes another |
| `gateway_races` | 2 handlers, 1 key, 2 requests | completed claims have their receipt, a key binds a request and has one winner, receipts tell the work and, failed ones included, hide none whose answer was not lost, receipts and completed claims are final |
| `commerce_races` | 2 executions, 3 keys, 5 requests, 3 invoices, one crash | budget, call limit, one payment per call, money on its way is held and the columns are its sums, receipts are proven |
| `commerce_receipted` | 2 executions, 2 keys, a fee that one reservation covers and one does not, lookups that fail, one crash | a payment whose proof the service has, within its reservation, has its receipt in the end |
| `royalty_loop` | 2 events under one key, 4 payloads, 2 handlers, 2 service requests, 1 reversal key, 1 fault | books follow obligations, payouts exhaust the pool, one payload per key |
| `royalty_two_tenants` | 2 tenants with one key, 2 handlers, 1 service request, 1 fault | nobody is paid with the posting, or answered with the obligation, of another tenant |
| `royalty_settles` | 1 event with 3 payloads, 2 handlers, 1 service request, 1 fault | every row is receipted or rejected in the end |
| `token_spend` | 1 policy, 3 keys, 2 routes, 3 cards, 2 provider requests, 2 charges, 3 times | columns are the reservations, fail closed, charged as reserved, charges are matched |
| `fraud` | 2 merchants, 2 workers, 3 requests, 2 histories, 4 tracks, 1 crash | own velocity, proofs decide, stable answers, certificates hold |
| `contracts` | 2 workers, 2 contracts, 2 keys, 4 calls, 6 outcomes, 2 deliveries | verdicts are authorized and follow the evidence, one story per execution, reputation is the outcomes |

**Bounds.** Two handlers are enough for every race here: the conflicts are between a
read and another handler's write, or between two writers of one row. A third
transaction id lets the ledger post, reverse and post again. Three event ids let the
gateway process a request, fail, and process it twice more. `MaxReversals` caps a
counter that the code lets grow with every retry. `MaxDeaths` caps crashes in the
agent-commerce runs; after one crash the key is retried by the other execution. The
royalty runs have one fault, which is all it takes to leave a posting without an
obligation, or a claim without a handler, for a retry to find; taking a claim over and
sending a row again are not faults and are not bounded. Of its four payloads one
leaves a cent to distribute, one cannot balance in the ledger, one repeats an owner and
one, a single cent for two owners, can be held and not paid; `royalty_settles` has one with
a share of zero. `gateway_races` has one merchant: that nobody is told of the payment of
another merchant under the same key is proved (section 4), for any number of them.
Three token-spend keys let one call be finalized while one is reserved and one is asked
for, over a price change at time 1 and a policy that ends there. Three fraud requests
cover a decision, its retry and a racing one; the histories bring every threshold that
three requests can cross within reach. The calls of `contracts` are all of one
execution, since executions do not meet otherwise; its quotes are 1 and 2 sats, the debits
3 (the ceiling of one, inside that of the other, above the contract's price) and 5 (always
refused).
Handlers and executions are interchangeable, so runs without liveness use symmetry.
The runs of `Royalty`, `TokenSpend` and `Fraud` end when their bounded
clocks, ids and rows are used up and so do not check deadlock.

**Fairness.** `Ledger`: a statement that can run runs (weak fairness of a session's
steps), and a lock or unique-index entry that becomes free again and again is given
to the waiter (strong fairness of the two waiting statements), which PostgreSQL's lock
queues provide. Clients need not send anything, and a session may always die.
`AgentCommerce`: executions that are ready again and again go on, and the Lightning
network settles or fails what it holds; nothing is asked of operators.
`Royalty`: handlers and service requests go on (weak), and a due row is sent again (strong, as it needs a free handler
and `run_once` selects every due row each time); nothing is assumed about connections
that are refused, claims that age or events that grow stale.

**Disagreements.** Modelling met these places where the code does something else than a
document, a comment or the name of a thing says. The properties are stated so that they
hold of the code, with the exception as a condition; TLC finds each of the first six
when the condition is taken away:

* a refund key that is sent again for another amount resumes the first attempt
  (`transaction-service-core.ts:306`): the row and the books state the second amount,
  the processor returned the first; against "One idempotency key cannot be reused for a
  different request" (`README.md:138`). Condition: `OneRequest`;
* two refunds pass the sum check together (`transaction-service-core.ts:270`), and with a
  reused key the rows exceed the payment even if the processor caps; against "a payment
  can never be refunded for more than its original amount"
  (`transaction-service-schema.sql:70`). Condition: `overtaken`;
* a request that times out has a "failed" receipt for good, and its payment succeeds
  (`gateway/orchestrator.py:342`); against "A receipt must report partial or failed work
  honestly" (`README.md:143`). Condition: `untold`;
* `pay_invoice` sends no fee limit and `mark_paid` refuses a fee above the reservation
  (`l402.py:108`, `authorization.py:383`): paid work gets no receipt, however often operators
  reconcile; against "Paid-but-undelivered work still produces a signed receipt"
  (`services/agent-commerce/README.md:12`). Condition: `HasProof`, which is about debits
  within the reservation; a payment that nobody has the proof of waits for an operator;
* a royalty posted as allowed whose answer is lost, retried as a hold and released,
  credits its creators twice (`royalty-service-core.ts:72`); against "at most one financial
  effect per `idempotency_key`" (`spec/SPEC-royalty-loop-v1.md:15`). Condition: `AgreedOn`;
* a fraud request that is retried between the two commits of the first one, or after a
  crash there, is scored and counted again (`archisynapse_fraud_mvp.py:287`, 741); against
  "instead of double-scoring and double-counting velocity signals" (line 137). Condition:
  `lapsed`;
* a rate card whose `effective_at` has an offset is used before, or after, its instant
  (`token_preflight.py:175`); against "versioned by provider, model, effective time"
  (`docs/AI_TOKEN_SPEND_CONTROLS.md:24`). `ChargedAsReserved` is about the text;
* a delivery is judged complete over a payment above the contract's price, since only the
  quote is compared with it (`l402.py:213`); against "rejected when ... price differs from
  the contract" (`docs/AGENT_SERVICE_CONTRACTS.md:155`). `VerdictsAreAuthorized` bounds the
  quote by the contract and the debit by `DebitCeiling`;
* `accounts.balance` goes stale when two postings on one account overlap, since the
  trigger's sum is taken from the statement's snapshot (`002_ledger_schema.sql:227`),
  against "Account balances are always in sync" (`ledger-service-core.ts:31`);
* a retry of a ledger posting that overlaps the first one, or comes after the stored
  response expired, is answered with a unique violation, not "same result"
  (`ledger-service-core.ts:32`, 159, 513);
* nothing reads `unposted_payments` (`transaction-service-core.ts:528`), against "The
  transaction service will retry" (`gateway/orchestrator.py:349`);
* `postRefund` sends no key, so a refund that is retried after a lost ledger answer or a
  crash reverses the books again (`transaction-service-ledger-client.ts:169`, against
  `README.md:137`); royalty reversals have the same gap (`royalty-service-core.ts:189`);
* after a crash between `save_receipt` and `complete_idempotency` the gateway
  processes the request again, and every later attempt fails on the unique key of the
  receipt (`gateway_store.py:374`);
* a Lightning payment that failed keeps its reservation (`l402.py:262`,
  `recovery.py:33`), against `docs/AGENT_COMMERCE_RAIL.md:21`;
* with `SharedLoop = FALSE` the check and the release of a reservation in
  `l402.py:261` can be separated by a payment, and one hash with two amounts can give
  a receipt for the wrong one: the budget and the single payment still hold then
  (proved for both values of `SharedLoop`), `MoneyInFlightIsHeld` and `ReceiptIsProven`
  do not;
* a royalty event whose gateway stays away for five minutes is rejected as stale and so
  lost for good (`royalty_orchestrator.py:113`), against section 8 of
  `spec/SPEC-royalty-loop-v1.md`;
* a royalty that is decided otherwise on a retry, after its first attempt posted and
  lost its obligation, is recorded with the first attempt's posting
  (`royalty-service-core.ts:58`): the obligation then says POSTED over a posting in
  suspense, or BLOCKED over one that credits;
* a runaway policy is not paused: the pause is rolled back by the exception that reports
  it (`token_preflight.py:75`), against `services/agent-commerce/README.md:19`;
* costs are divided in floats, so a very large one may be rounded down by less than a
  micro dollar (`token_rates.py:112`), against "avoids binary floating-point accounting
  drift" (`docs/AI_TOKEN_SPEND_CONTROLS.md:48`);
* a provider charge that arrives before the usage stays an orphan
  (`token_reconcile.py:57`);
* a delivery whose JSON is not an object lacks no required deliverable
  (`contracts.py:434`);
* the outcome route without a contract lets a provider validate itself
  (`api.py:440`), and then stands in the way of the contract's validator;
* a contracted call that is sent again is judged on an empty body: the first verdict
  stays and the answer is a conflict, or, when the first call died before its verdict,
  the delivery is rejected (`l402.py:232`, `api.py:361`); after a revocation the retry
  conflicts with its own authority receipt; a second payment of an execution is paid
  and gets no verdict; a payment that was reconciled names no endpoint and can never be
  bound to its contract (`recovery.py:76`).

## 4. Proofs

TLAPS proves the theorems below for every value of the constants: any number of
handlers, keys, requests, accounts or policies, any amounts. Each proof finds an
inductive invariant `IInv`, shows `Init => IInv` and, one action at a time, that every
step keeps it, and reads the theorems off it.

**Assumptions.** Each module names one (`LedgerAssumption`, `GatewayAssumption`, ...)
and TLC evaluates it on every run: the sets have the types the code gives them, "no
value" is not a value, numbers are natural numbers. `LedgerAssumption` says moreover
that accounts and transaction ids are finitely many, which makes the totals of
`reconcile` sums; elsewhere finiteness of what was written so far is a part of the
invariant. `RoyaltyAssumption` says that the splits of an event add up to 10000 basis
points, as the validator of `royalty_events.py:94` demands, and `HistoryAssumption` that
the tables `Fraud` starts from hold events with decisions of their endpoint.
`ContractsAssumption` says that an idempotency key is used under one
authorization, since the model's keys are the rows of the reservation table.
`TokenSpendAssumption` says that a quotient is only rounded down where its numerator is
`ExactBelow` or more, and that a multiplier is at least 1. Two theorems of
`AgentCommerceProofs` have `SharedLoop` as a hypothesis besides these, for the reason given
there; nothing is assumed of callers or of the processor.

**`SumTheorems`.** Balances, budgets, totals and counters are sums over finite sets
(`SumFunctionOnSet`). What a sum does when an element is added, removed or changed,
when its set is split, reindexed or scaled and when two sums are exchanged is proved here,
and how many elements of a finite order have fewer than n before them. Induction over
finite sets needs no operator: of the subsets of a finite set for which an equation
fails there would be a smallest one.

**`PaymentsProofs`.** `IInv` is `TypeOK`, `HasRequest` (a handler past the first
SELECT has its request), `SoleHandler` (one handler past the INSERT of a key),
`StageMatchesRow` (where a handler is tells what its row says: still PENDING before
the outcome is written, SUCCEEDED and not linked while it posts) and `KeySound` (one
call and one posting per key, each effect after the one it rests on).
`ChargedAtMostOnce` alone is not inductive: a handler at the charge must be known to
have made none, and to be the only one that ever will, because the unique index let
one INSERT through and a row never goes back to none.

| theorem | establishes |
|---|---|
| `TypeCorrect` | `[]TypeOK` |
| `NoDoubleCharge` | `[]ChargedAtMostOnce` |
| `EffectsInOrder` | `[]BooksFollowTheMoney` |
| `OneHandlerPerKey` | `[]SoleHandler` |
| `NothingForgotten` | `[]UnpostedIsQueued`, inductive relative to `IInv` |
| `Refinement` | `Payments` implements `PaymentRecord` |

**`LedgerProofs`.** `IInv` is `TypeOK`, the two properties on keys and reversals, and
what they rest on: `SessionsAreSound` (what a session is about to commit balances, is
its organization's as far as it is inserted, and uses an id and a key that no committed
row has), `RowsAreApart` (no two open sessions hold one id or one key, which is the
unique index) and `JournalIsSound` (what is committed balances on its organization's
accounts). `BooksReconcile` follows from `JournalIsSound` by exchanging the sum over
accounts of entries for the sum over entries of accounts. The refinement takes the
committed journal for the book: `Commit` is `LedgerBook`'s posting or reversal, every
other step a stutter.

| theorem | establishes |
|---|---|
| `LedgerTypeCorrect` | `[]TypeOK` |
| `StoreKeepsAgreeing` | `[]StoreAgreesWithJournal` |
| `ReversalsStayPaired` | `[]ReversedIffReversal` |
| `BooksAlwaysReconcile` | `[]BooksReconcile` |
| `LedgerImplementsBook` | `Ledger` implements `LedgerBook` |

**`RefundsProofs`.** `IInv` is `TypeOK`, `SplitStateIsKept`, and the chain from request
to row: `ProcessorWasAsked` and `RowsWereAsked` (what the processor and the table hold
under a key was asked for under that key), `AttemptFollows` (the attempt is neither
behind nor ahead of the processor), `Knows` (what each handler may rely on at its
await) and `FewKeys`. A row states the processor's payment and amount where its key was
sent for one refund only, since both were asked for under it; other keys may be sent for
anything. A second layer, `SumInv`, is about the sum check: while a payment was not
overtaken, what a handler past the sum has read is still the sum of the rows and leaves
room for its amount, and its key has no row yet (`SumHolds`). The step that inserts a row
is the only one that moves the sum; every other handler between its sum and its row then
makes the payment an overtaken one. No cap of the processor is used.

| theorem | establishes |
|---|---|
| `RefundsTypeCorrect` | `[]TypeOK` |
| `SplitStateStaysKept` | `[]SplitStateIsKept` |
| `RowsRecordWhatWasReturned` | `[]RefundRecordsWhatWasReturned` |
| `RefundsStayWithinPayment` | `[]RefundsWithinPayment` |

**`GatewayProofs`.** `IInv` is `TypeOK`, `HasRequest`, `UnusedBindsNothing` (a row
that was never inserted has no request and no receipt), `HolderIsProcessing` (the claim
of a handler at work is PROCESSING, unless it was reclaimed), `KeyBindsRequest`,
`CompletedHasReceipt`, `DoneWorkIsTold` (what a receipt claims was done) and `StageIsTrue`
(from the answer of the transaction service on, the payment is this merchant's; the
status a handler is about to save is true). A handler
that was reclaimed from goes on, so its knowledge has to hold whatever the second one
does: it does because `PaymentRecord` only moves forward. The other half of
`ReceiptTellsTheWork`, that a receipt without a transaction hides none, needs a second
layer, `ToldInv`: a live payment of a claim that is neither untold nor overrun is named in
the receipt or carried by a handler on its way to one (`LiveIsCarried`), a handler that
carries it has no other receipt before it (`CarriesTruly`), what is named is the merchant's
(`NamesAreTrue`) and a request that may still arrive is untold (`LateIsUntold`).
`AnswersAreFinal` is an action property from `IInv`.

| theorem | establishes |
|---|---|
| `GatewayTypeCorrect` | `[]TypeOK` |
| `CompletedClaimsHaveReceipts` | `[]CompletedHasReceipt` |
| `KeysBindRequests` | `[]KeyBindsRequest` |
| `ReceiptsTellTheWork` | `[]ReceiptTellsTheWork` |
| `AnswersStayFinal` | the action property `AnswersAreFinal` |

**`AgentCommerceProofs`.** Three layers. `IInv` is `TypeOK`, `Sound` (an execution at
work has a row and an invoice, a row has its request and, once bound, an invoice),
`Within` (the budget, for every row) and `Paying`: nothing is sent while a row is before
`payment_initiated`, no status goes back over that line, and at most one execution is
between `mark_payment_initiated` and the send. `NeverPaysTwice` rests on `Paying`;
`BudgetHolds` rests on `Within`, and that on `reserve` checking what is available in
the transaction that takes it and on `finalize_paid_call` debiting at most what the row
holds. `Columns` adds that `calls`, `reserved` and `spent` are the counts and sums over
the rows. Neither uses `SharedLoop`.

`Flow` is about money under way, and does: in several processes an execution can pay
between another's check and release of the same reservation, and the row of a sent
payment is released. With one event loop, no other execution runs between the two
(`Alone`), so what an execution read is still so (`StageIsTrue`), a sent payment's row is
never released, and a row that is paid names the settlement (`RowIsTrue`).

| theorem | establishes |
|---|---|
| `TypeCorrect` | `[]TypeOK` |
| `BudgetNeverExceeded` | `[]BudgetHolds` |
| `OnePaymentPerCall` | `[]NeverPaysTwice` |
| `CallsStayWithinLimit` | `[]CallsWithinLimit` |
| `MoneyStaysHeld` | `SharedLoop` gives `[]MoneyInFlightIsHeld` |
| `ReceiptsAreProven` | `SharedLoop` gives `[]ReceiptIsProven` |

**`AgentControlsProofs`, token spend.** `SpendIInv` is the four invariants of the run, `SpendTablesOK` (the types
of the rows), `NothingBefore` (nothing is about a policy before it is created) and
`RequestsAreKnown` (a provider's request id belongs to one finalized call, and a charge
that is not an orphan found one). The four need each other: a usage is an anomaly or
not by the reservation it finalizes, whose route and card `ChargedAsReserved` fixes, and the
slack in `FailClosed` is a sum over the same rows as the columns. What `calculate_cost`
charges is less than a micro dollar off, and not too little below `ExactBelow`, by
`CeilingInDoubles` (on `MathCeil`) and `CostIsRounded`. The route's card is the one whose
text was reached, which is all the code looks at.

| theorem | establishes |
|---|---|
| `TokenSpendTypeCorrect` | `[]SpendTypeOK` |
| `ColumnsStayTheReservations` | `[]ColumnsAreTheReservations` |
| `SpendingFailsClosed` | `[]FailClosed` |
| `CallsAreChargedAsReserved` | `[]ChargedAsReserved` |
| `ChargesStayMatched` | `[]ChargesAreMatched` |

**`AgentControlsProofs`, contracts.** `IInv` says what each worker knows at its step (`JobIsTrue`) and
what each receipt is (`ReceiptIsTrue`: a delivery verdict has its payment and authority,
a final verdict is the evaluation of the outcome on record), over `TablesOK` (a debit is
within the `DebitCeiling` of its quote), `OutcomesOK`, `SlotsHold` and `CountersOK`. Every step only adds: contracts, receipts,
finalized payments and recorded outcomes never change, so what a worker read before its
next transaction is still so. Two workers may both find no final verdict and both insert
one; they insert the same, because the verdicts of one slot rest on one delivery verdict,
hence on one payment, hence on the one outcome that the reputation accepted.

| theorem | establishes |
|---|---|
| `ContractsTypeCorrect` | `[]TypeOK` |
| `VerdictsStayAuthorized` | `[]VerdictsAreAuthorized` |
| `VerdictsStayEvident` | `[]VerdictsFollowEvidence` |
| `OneStoryIsTold` | `[]OneStoryPerExecution` |
| `ReputationStaysTheOutcomes` | `[]ReputationIsTheOutcomes` |

**`RoyaltyLoopProofs`, the loop.** `RoyaltyIInv` says what every process may rely on at its
step and what every row is. A handler past the claim holds the row its key was claimed
for, and one with an answer knows what the obligation is or was before it moved on
(`HandlerRight`); a request in the transaction service is of a claimed, payable event,
its decision is among those sent under the key, and it inserts a posted obligation only
over a posting (`JobRight`), answering at most one handler (`CallRight`). A completed
claim of a tenant names its receipt (`ClaimRight`), a posting was sent for by the event
that `poster` names (`PostingRight`, `MadeFor`), an obligation is of the claimed row and its status one its outcome can lead to
(`ObligationRight`), a receipt tells a status the obligation had (`ReceiptRight`).
Takeovers, lost answers and restarts do not disturb these, because what they speak of
only grows (`Grows`): a claim keeps its row when it is taken over, postings stay, and an
obligation moves from HELD to POSTED to REVERSED and never back. A posting is an
obligation's own because the key of a posting is global and its lookup the tenant's: the
second tenant to post under a key is refused. "Never credited twice" needs the decisions of an event to agree (`AgreedOn`);
where they do not it fails (section 3).

`PayoutsExhaustThePool` rests on the split. That the payouts add up to the pool is what
`compute_royalty` checks before anything is decided, and is carried to the obligation;
that this check never raises for distinct owners whose shares are 10000 basis points is
`ComputeRoyaltyNeverRaises`: the order of the leftover cents is a strict total order
(`AheadIsAnOrder`), so as many splits have a place among them as there are cents
(`RanksAreCounted`, `LeftoverIsServed`). With an owner who is named twice it may raise,
which the third payload of `royalty_loop` shows. That each is
within a cent of the exact share is about the largest remainder: the floored shares
leave the sum of the remainders over 10000 (`LeftoverIs`), which is less than the number of
positive remainders, so a cent only goes to an owner who has one (`LeftoverNeedsPart`,
`PaidWithinACent`). That a larger share is never paid less: where two owners are floored
alike the larger share has the larger remainder and goes first in the order of
remainders (`DividesInOrder`, `AheadMeans`, `PaidInOrder`).

| theorem | establishes |
|---|---|
| `RoyaltyIsInductive` | `[]RoyaltyIInv` |
| `RoyaltyTypeCorrect` | `[]TypeOK` |
| `RoyaltyOnePayloadPerKey` | `[]OnePayloadPerKey` |
| `RoyaltyBooksFollow` | `[]BooksFollowObligations` |
| `RoyaltyPayoutsExhaustThePool` | `[]PayoutsExhaustThePool` |
| `ComputeRoyaltyNeverRaises` | `compute_royalty_ok` for distinct owners, any amount and any shares |

**`RoyaltyLoopProofs`, the fraud service.** `FraudIInv` is `FraudTypeOK`, `TracksHold` (a
request about to record a track has its certificate), `OneAtWork` and `OneEvent` (a key
that did not lapse has one request at work or one record, and its one event is accounted
for by either), `DecidedRight`, and `ScoresAreTrue`: the reasons a request holds between
its scoring and its commit, and those of a stored event, lie between the counts over the
merchant's own rows at the look-up and at the commit. Counts only grow, since events are
only appended (`OwnGrows`, `CountedGrows`), so the upper bound holds on while other requests
commit; the lower one is about rows that are there already. `ProofsDecidePayouts` then is
arithmetic on the weights: three missing proofs reach the blocking score whatever else is
added, and all velocity signals together do not.

| theorem | establishes |
|---|---|
| `FraudTypeCorrect` | `[]FraudTypeOK` |
| `FraudVelocityIsTheMerchantsOwn` | `[]VelocityIsTheMerchantsOwn` |
| `FraudProofsDecidePayouts` | `[]ProofsDecidePayouts` |
| `FraudStableAnswer` | `[]StableAnswer` |
| `FraudCertificatesHold` | `[]CertificatesHold` |

**Only model-checked.** Liveness under fairness (`EveryRequestEnds`,
`ProofIsReceiptedInTheEnd`, `EveryRowSettles`), which this prover does not handle. Every
invariant and action property of the passing runs, and both refinements, are proved.

## 5. Not modelled

Request validation, formatting, logging, metrics; cryptography (receipt signatures,
service tokens, key ring, encrypted credentials, the audit chain, the identity of the
agent-commerce service); analytics, whose statistics are batch computations (the gateway
sees a free choice of its answers); the economic-truth outbox, which sends copies of
receipts to a system outside this repository; the development gateway, mocks and tools;
`process_refund` of the gateway, which forwards to `refundPayment` and keeps nothing, and
the recovery files, which no production code reads. The gateway and the royalty loop see
the fraud service as a free choice of decision, which covers every history `Fraud` can
have.

## 6. Plan

1. A composition of `Royalty` with `Fraud`, in place of the free choice of decision, should
   a property come to depend on what the fraud service remembers of an event.
2. `process_refund` of the gateway over an abstraction of `Refunds`, as `process_payment`
   is over `PaymentRecord`.
3. An `Outbox` module for the economic truth, should anything come to depend on it.
