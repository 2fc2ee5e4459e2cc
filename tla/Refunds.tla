------------------------------- MODULE Refunds -------------------------------
(***************************************************************************)
(* refundPayment of the transaction service                                *)
(* (services/transaction/transaction-service-core.ts) on payments that     *)
(* have succeeded and are linked to the ledger.  As in Payments, every     *)
(* statement commits on its own, handlers interleave and may die.          *)
(*                                                                         *)
(* The processor keeps its first answer per idempotency key, repeats it    *)
(* and refuses the key for another request; a pending refund may go        *)
(* through later.  The ledger reverses the whole original transaction on   *)
(* every call.                                                             *)
(***************************************************************************)
EXTENDS Integers, FiniteSets, Functions

CONSTANTS
    PaymentIds,     \* payments that may be refunded
    PaymentAmount,  \* what each of them took
    Keys,           \* idempotency keys of refund requests
    Handlers,       \* concurrent request handlers
    Requests,       \* refund requests callers may send
    NoRequest,      \* the handler is idle
    ProcessorCaps,  \* the processor refuses to refund more than it took
    MaxReversals    \* bound of the model: reversals per key

VARIABLES
    status,     \* payments.status
    attempt,    \* table processor_refund_attempts, by idempotency key
    refund,     \* table refunds, by idempotency key
    processor,  \* the processor's own record of a key
    reversals,  \* ledger reversals made under a key
    handler,
    answer,     \* what each handler last returned
    overtaken   \* history: payments with a refund overtaken by another

vars == <<status, attempt, refund, processor, reversals, handler, answer, overtaken>>

RequestType == [payment : PaymentIds, key : Keys, amount : Nat]

ASSUME RefundsAssumption ==
    /\ PaymentAmount \in [PaymentIds -> Nat \ {0}]
    /\ NoRequest \notin RequestType \cup PaymentIds
    /\ Requests \subseteq RequestType
    /\ ProcessorCaps \in BOOLEAN
    /\ MaxReversals \in Nat

AttemptStatuses == {"PROCESSING", "PROCESSOR_SUCCEEDED", "LEDGER_SUCCEEDED", "FAILED"}

Idle == [pc |-> "idle", req |-> NoRequest, already |-> 0, ok |-> FALSE]

Init ==
    /\ status = [p \in PaymentIds |-> "SUCCEEDED"]
    /\ attempt = [k \in Keys |-> "NONE"]
    /\ refund = [k \in Keys |-> [payment |-> NoRequest, amount |-> 0]]
    /\ processor = [k \in Keys |-> [said |-> "none", moved |-> FALSE,
                                    payment |-> NoRequest, amount |-> 0]]
    /\ reversals = [k \in Keys |-> 0]
    /\ handler = [h \in Handlers |-> Idle]
    /\ answer = [h \in Handlers |-> "none"]
    /\ overtaken = {}

Key(h) == handler[h].req.key
Pay(h) == handler[h].req.payment
Amount(h) == handler[h].req.amount
At(h, pc) == handler[h].pc = pc
Goto(h, pc) == handler' = [handler EXCEPT ![h].pc = pc]

Return(h, what) ==
    /\ handler' = [handler EXCEPT ![h] = Idle]
    /\ answer' = [answer EXCEPT ![h] = what]

HasRow(k) == refund[k].amount > 0

\* SUM(amount) over the rows of the given keys that are about payment p.
Total(table, keys, p) ==
    LET rows == {k \in keys : table[k].payment = p}
    IN  SumFunctionOnSet([k \in rows |-> table[k].amount], rows)

Refunded(p) == Total(refund, Keys, p)

\* A handler there has read the sum and has not inserted its row.
SumRead == {"attempt", "restart", "processor", "record", "ledger", "insert"}

-----------------------------------------------------------------------------
\* SELECT * FROM refunds WHERE idempotency_key: a finished refund is returned.
refundPayment(h, req) ==
    /\ At(h, "idle")
    /\ IF HasRow(req.key)
       THEN Return(h, "SUCCEEDED")
       ELSE /\ handler' = [handler EXCEPT ![h].pc = "read", ![h].req = req]
            /\ answer' = [answer EXCEPT ![h] = "none"]
    /\ UNCHANGED <<overtaken, status, attempt, refund, processor, reversals>>

\* SELECT * FROM payments: only SUCCEEDED and PARTIALLY_REFUNDED go on.
ReadPayment(h) ==
    /\ At(h, "read")
    /\ IF status[Pay(h)] \in {"SUCCEEDED", "PARTIALLY_REFUNDED"}
       THEN Goto(h, "sum") /\ UNCHANGED answer
       ELSE Return(h, "error")
    /\ UNCHANGED <<overtaken, status, attempt, refund, processor, reversals>>

\* Fault: what was refunded before is not counted.
CheckRemainingAlone(h) ==
    /\ At(h, "sum")
    /\ IF Amount(h) <= PaymentAmount[Pay(h)]
       THEN /\ handler' = [handler EXCEPT ![h].pc = "attempt",
                                          ![h].already = Refunded(Pay(h))]
            /\ UNCHANGED answer
       ELSE Return(h, "error")
    /\ UNCHANGED <<overtaken, status, attempt, refund, processor, reversals>>

\* SELECT SUM(amount) FROM refunds, and the check against the payment amount.
\* The sum is used again when the payment row is updated at the end.
CheckRemaining(h) ==
    /\ At(h, "sum")
    /\ IF Refunded(Pay(h)) + Amount(h) <= PaymentAmount[Pay(h)]
       THEN /\ handler' = [handler EXCEPT ![h].pc = "attempt",
                                          ![h].already = Refunded(Pay(h))]
            /\ UNCHANGED answer
       ELSE Return(h, "error")
    /\ UNCHANGED <<overtaken, status, attempt, refund, processor, reversals>>

\* INSERT INTO processor_refund_attempts ... ON CONFLICT DO NOTHING, with
\* CHECK (amount > 0); on conflict the existing row decides.
ClaimAttempt(h) ==
    /\ At(h, "attempt")
    /\ IF Amount(h) = 0
       THEN Return(h, "error") /\ UNCHANGED attempt
       ELSE CASE attempt[Key(h)] = "NONE" ->
                   /\ attempt' = [attempt EXCEPT ![Key(h)] = "PROCESSING"]
                   /\ Goto(h, "processor")
                   /\ UNCHANGED answer
              [] attempt[Key(h)] = "PROCESSING" ->
                   Return(h, "error") /\ UNCHANGED attempt
              [] attempt[Key(h)] = "LEDGER_SUCCEEDED" ->
                   /\ IF HasRow(Key(h))
                      THEN Return(h, "SUCCEEDED")
                      ELSE Goto(h, "processor") /\ UNCHANGED answer
                   /\ UNCHANGED attempt
              [] attempt[Key(h)] = "FAILED" ->
                   Goto(h, "restart") /\ UNCHANGED <<attempt, answer>>
              [] attempt[Key(h)] = "PROCESSOR_SUCCEEDED" ->
                   Goto(h, "ledger") /\ UNCHANGED <<attempt, answer>>
    /\ UNCHANGED <<overtaken, status, refund, processor, reversals>>

\* A FAILED attempt is set back to PROCESSING, without looking at it again.
RestartAttempt(h) ==
    /\ At(h, "restart")
    /\ attempt' = [attempt EXCEPT ![Key(h)] = "PROCESSING"]
    /\ Goto(h, "processor")
    /\ UNCHANGED <<overtaken, status, refund, processor, reversals, answer>>

\* What the processor answers to a refund request (external): the first answer
\* again for the same request, "none" (an HTTP error) for another request under
\* the same key or for more money than it took.
Promised == {k \in Keys : processor[k].said \in {"refunded", "pending"}}

Verdicts(h) ==
    LET record == processor[Key(h)] IN
    IF record.said # "none"
    THEN {IF record.payment = Pay(h) /\ record.amount = Amount(h)
          THEN record.said ELSE "none"}
    ELSE IF ProcessorCaps
            /\ Total(processor, Promised, Pay(h)) + Amount(h) > PaymentAmount[Pay(h)]
    THEN {"none"}
    ELSE {"refunded", "pending", "failed"}

\* Fault: an accepted but pending refund counts as done.
processorRefundTrusting(h) ==
    /\ At(h, "processor")
    /\ \E verdict \in Verdicts(h) \ {"none"} :
         /\ processor' = [processor EXCEPT ![Key(h)] =
              [said |-> verdict, moved |-> verdict = "refunded",
               payment |-> Pay(h), amount |-> Amount(h)]]
         /\ handler' = [handler EXCEPT ![h].pc = "record",
                                       ![h].ok = verdict # "failed"]
    /\ UNCHANGED <<overtaken, status, attempt, refund, reversals, answer>>

\* processor.refund: an HTTP error or a lost answer is thrown and leaves the
\* attempt as it is; a delivered verdict is recorded next.
processorRefund(h) ==
    /\ At(h, "processor")
    /\ \E verdict \in Verdicts(h) \cup {"none"}, delivered \in BOOLEAN :
         /\ verdict = "none" => ~delivered
         /\ processor' =
              IF verdict = "none" \/ processor[Key(h)].said # "none" THEN processor
              ELSE [processor EXCEPT ![Key(h)] =
                      [said |-> verdict, moved |-> verdict = "refunded",
                       payment |-> Pay(h), amount |-> Amount(h)]]
         /\ IF delivered
            THEN /\ handler' = [handler EXCEPT ![h].pc = "record",
                                               ![h].ok = verdict = "refunded"]
                 /\ UNCHANGED answer
            ELSE Return(h, "error")
    /\ UNCHANGED <<overtaken, status, attempt, refund, reversals>>

\* A pending refund goes through after all (external).
Settle(k) ==
    /\ processor[k].said = "pending"
    /\ ~processor[k].moved
    /\ processor' = [processor EXCEPT ![k].moved = TRUE]
    /\ UNCHANGED <<overtaken, status, attempt, refund, reversals, handler, answer>>

\* UPDATE ... 'PROCESSOR_SUCCEEDED', or 'FAILED' and throw.
RecordProcessor(h) ==
    /\ At(h, "record")
    /\ IF handler[h].ok
       THEN /\ attempt' = [attempt EXCEPT ![Key(h)] = "PROCESSOR_SUCCEEDED"]
            /\ Goto(h, "ledger")
            /\ UNCHANGED answer
       ELSE /\ attempt' = [attempt EXCEPT ![Key(h)] = "FAILED"]
            /\ Return(h, "error")
    /\ UNCHANGED <<overtaken, status, refund, processor, reversals>>

\* Fault: a ledger error marks the attempt FAILED.
postRefundGivingUp(h) ==
    /\ At(h, "ledger")
    /\ \/ /\ reversals[Key(h)] < MaxReversals
          /\ reversals' = [reversals EXCEPT ![Key(h)] = @ + 1]
          /\ Goto(h, "insert")
          /\ UNCHANGED <<attempt, answer>>
       \/ /\ attempt' = [attempt EXCEPT ![Key(h)] = "FAILED"]
          /\ Return(h, "error")
          /\ UNCHANGED reversals
    /\ UNCHANGED <<overtaken, status, refund, processor>>

\* postRefund: POST /transactions/:id/reverse, which carries no idempotency
\* key.  A refusal or a lost answer is noted on the attempt and thrown.
postRefund(h) ==
    /\ At(h, "ledger")
    /\ \/ /\ reversals[Key(h)] < MaxReversals
          /\ reversals' = [reversals EXCEPT ![Key(h)] = @ + 1]
          /\ \/ Goto(h, "insert") /\ UNCHANGED answer
             \/ Return(h, "error")
       \/ /\ Return(h, "error")
          /\ UNCHANGED reversals
    /\ UNCHANGED <<overtaken, status, attempt, refund, processor>>

\* The payments whose refunds are overtaken when h inserts its row: a refund
\* that has read the sum and has not inserted yet, or that found no row under
\* the same key.
Overtakes(h) ==
    {Pay(g) : g \in {g \in Handlers \ {h} :
        \/ ~At(g, "idle") /\ Key(g) = Key(h)
        \/ handler[g].pc \in SumRead /\ Pay(g) = Pay(h)}}

\* INSERT INTO refunds ... ON CONFLICT DO NOTHING.
InsertRefund(h) ==
    /\ At(h, "insert")
    /\ IF HasRow(Key(h))
       THEN UNCHANGED <<refund, overtaken>>
       ELSE /\ refund' = [refund EXCEPT ![Key(h)] =
                            [payment |-> Pay(h), amount |-> Amount(h)]]
            /\ overtaken' = overtaken \cup Overtakes(h)
    /\ Goto(h, "finish")
    /\ UNCHANGED <<status, attempt, processor, reversals, answer>>

FinishAttempt(h) ==
    /\ At(h, "finish")
    /\ attempt' = [attempt EXCEPT ![Key(h)] = "LEDGER_SUCCEEDED"]
    /\ Goto(h, "status")
    /\ UNCHANGED <<overtaken, status, refund, processor, reversals, answer>>

\* UPDATE payments SET status, from the sum read before the processor call.
UpdatePayment(h) ==
    /\ At(h, "status")
    /\ status' = [status EXCEPT ![Pay(h)] =
                    IF handler[h].already + Amount(h) = PaymentAmount[Pay(h)]
                    THEN "REFUNDED" ELSE "PARTIALLY_REFUNDED"]
    /\ Return(h, "SUCCEEDED")
    /\ UNCHANGED <<overtaken, attempt, refund, processor, reversals>>

-----------------------------------------------------------------------------
\* The service dies or a statement fails.
Die(h) ==
    /\ ~At(h, "idle")
    /\ Return(h, "lost")
    /\ UNCHANGED <<overtaken, status, attempt, refund, processor, reversals>>

Work(h) ==
    \/ ReadPayment(h)
    \/ CheckRemaining(h)
    \/ ClaimAttempt(h)
    \/ RestartAttempt(h)
    \/ processorRefund(h)
    \/ RecordProcessor(h)
    \/ postRefund(h)
    \/ InsertRefund(h)
    \/ FinishAttempt(h)
    \/ UpdatePayment(h)

Next ==
    \/ \E h \in Handlers :
         \/ \E req \in Requests : refundPayment(h, req)
         \/ Work(h)
         \/ Die(h)
    \/ \E k \in Keys : Settle(k)

Spec == Init /\ [][Next]_vars

-----------------------------------------------------------------------------
RowType == [payment : PaymentIds \cup {NoRequest}, amount : Nat]

\* Every column and every handler has its type.
TypeOK ==
    /\ status \in [PaymentIds -> {"SUCCEEDED", "PARTIALLY_REFUNDED", "REFUNDED"}]
    /\ attempt \in [Keys -> AttemptStatuses \cup {"NONE"}]
    /\ refund \in [Keys -> RowType]
    /\ processor \in [Keys -> [said : {"none", "refunded", "pending", "failed"},
                               moved : BOOLEAN, amount : Nat,
                               payment : PaymentIds \cup {NoRequest}]]
    /\ reversals \in [Keys -> Nat]
    /\ handler \in [Handlers ->
         [pc : {"idle", "read", "sum", "attempt", "restart", "processor", "record",
                "ledger", "insert", "finish", "status"},
          req : RequestType \cup {NoRequest}, already : Nat, ok : BOOLEAN]]
    /\ answer \in [Handlers -> {"none", "SUCCEEDED", "error", "lost"}]
    /\ overtaken \subseteq PaymentIds

\* "A processor-success / ledger-pending refund is kept as durable recovery
\* state": once the processor accepted a refund its attempt is neither missing
\* nor marked FAILED, and it is marked complete only with the refund row.
SplitStateIsKept ==
    \A k \in Keys :
        /\ processor[k].said = "refunded" => attempt[k] \notin {"NONE", "FAILED"}
        /\ attempt[k] \in {"PROCESSOR_SUCCEEDED", "LEDGER_SUCCEEDED"} =>
             processor[k].said = "refunded"
        /\ attempt[k] = "LEDGER_SUCCEEDED" => HasRow(k)

\* Callers sent one refund under the key: refundPayment does not compare a
\* request with the attempt it finds.
OneRequest(k) ==
    \A req, other \in Requests :
        req.key = k /\ other.key = k /\ req.amount > 0 /\ other.amount > 0 => req = other

RowIsTheProcessors(k) ==
    processor[k].payment = refund[k].payment /\ processor[k].amount = refund[k].amount

\* The records follow the money over retries and crashes, whatever callers send:
\* "It must not reverse the ledger before the processor accepts the refund", a
\* refund row states money that the processor did give back and that the ledger
\* has reversed, and it states that payment and that amount when its key was
\* sent for one refund only, although other keys are sent for several.
RefundRecordsWhatWasReturned ==
    \A k \in Keys :
        /\ reversals[k] > 0 => processor[k].said = "refunded"
        /\ HasRow(k) => /\ processor[k].moved
                        /\ reversals[k] > 0
                        /\ OneRequest(k) => RowIsTheProcessors(k)

\* The check of the remaining amount does its work wherever it can: a payment is
\* refunded for more than it took, or is marked REFUNDED without its rows, only
\* after one refund of it overtook another one between its sum and its row,
\* whatever keys callers reuse, whoever dies, and though the processor may not
\* cap what it gives back.
RefundsWithinPayment ==
    \A p \in PaymentIds \ overtaken :
        /\ Refunded(p) <= PaymentAmount[p]
        /\ status[p] = "REFUNDED" => Refunded(p) = PaymentAmount[p]

==============================================================================
