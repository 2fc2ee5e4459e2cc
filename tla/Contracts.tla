----------------------------- MODULE Contracts -----------------------------
(***************************************************************************)
(* Service contracts, FABLE receipts and reputation of the agent commerce  *)
(* service (services/agent-commerce/agent_commerce: contracts.py,          *)
(* fable.py, reputation.py and their routes in api.py).                    *)
(*                                                                         *)
(* A contracted call leaves an authority receipt, pays, and leaves a       *)
(* delivery verdict; a validator's outcome changes the provider's          *)
(* reputation and leaves the final verdict.  The call's handler runs on    *)
(* the event loop and is interrupted only where it awaits; creating a      *)
(* contract and recording an outcome run on threads, so every transaction  *)
(* of theirs is a step.  The payment inside the call is module             *)
(* AgentCommerce; here it is a step that ends in a payment receipt.        *)
(***************************************************************************)
EXTENDS Integers, Sequences, FiniteSetsExt

CONSTANTS
    Workers,        \* handlers at work: tasks of the event loop and threads
    Ids,            \* service contract ids
    Terms,          \* what each contract is created with
    Calls,          \* requests to /v1/agent-calls and /v1/contracted-agent-calls
    Outcomes,       \* requests to /v1/receipts/{id}/outcomes
    Deliveries,     \* what the paid agent may answer: status, latency and body
    Tenant,         \* the tenant of each authorization
    RouteFee,       \* max_route_fee_sats of each authorization
    Debits,         \* what a payment may take, its route fee included
    NoForm, NoContract

Keys == {q.key : q \in Calls}
Agents == {q.agent : q \in Calls}
Executions == {q.execution : q \in Calls} \cup {"contract"}
Types == {"service_contract", "execution_authorization", "delivery_verdict", "final_sla_verdict"}

\* A key is an idempotency key together with its authorization.
ASSUME ContractsAssumption ==
    /\ \A q, r \in Calls : q.key = r.key => q.auth = r.auth
    /\ \A q \in Calls : q.contract \in Ids \cup {NoContract} /\ q.auth \in DOMAIN Tenant
    /\ \A o \in Outcomes : o.contract \in Ids \cup {NoContract} /\ o.key \in Keys
    /\ \A q \in Calls : q.execution # "contract" /\ q.price \in Nat \ {0}
    /\ \A o \in Outcomes : o.quality \in Nat /\ o.latency \in Nat
    /\ \A d \in Deliveries : d.latency \in Nat
    /\ RouteFee \in [DOMAIN Tenant -> Nat] /\ Debits \subseteq Nat \ {0}
    /\ DOMAIN Terms = Ids /\ NoContract \notin Ids
    /\ \A c \in Ids : Terms[c] # NoForm /\ Terms[c].deadline \in Nat

VARIABLES
    contract,       \* service_contracts
    expired,        \* contracts whose expires_at has passed
    revoked,        \* authorizations revoked: their version has moved on
    payment,        \* the payment receipt of each key, once there is one
    fable,          \* fable_receipts: by type, contract and execution, oldest first
    outcome,        \* reputation_outcomes, by the payment receipt they are about
    reputation,     \* agent_reputation
    job             \* what each worker is doing

vars == <<contract, expired, revoked, payment, fable, outcome, reputation, job>>

Idle == [at |-> "idle"]
NoPayment == [status |-> "none"]
NoOutcome == [validator |-> "none"]
NoJobs == [verified |-> 0, successful |-> 0, failed |-> 0, paid |-> 0, latency |-> 0,
           quality |-> 0]

Init ==
    /\ contract = [c \in Ids |-> NoForm]
    /\ expired = {}
    /\ revoked = {}
    /\ payment = [k \in Keys |-> NoPayment]
    /\ fable = [s \in Types \X Ids \X Executions |-> <<>>]
    /\ outcome = [k \in Keys |-> NoOutcome]
    /\ reputation = [a \in Agents |-> NoJobs]
    /\ job = [w \in Workers |-> Idle]

Go(w, step) == job' = [job EXCEPT ![w] = step]
Done(w) == Go(w, Idle)

-----------------------------------------------------------------------------
(* FABLE receipts *)

Slot(r) == <<r.type, r.contract, r.execution>>
Lookup(r) == fable[Slot(r)]

\* Fault: the stored receipt is answered without comparing it.
ConflictNever(r) == FALSE

\* The oldest receipt of the execution has other content: IdempotencyConflict.
Conflict(r) == Lookup(r) # <<>> /\ Head(Lookup(r)) # r

\* issue, where nothing runs between its SELECT and its INSERT.
issue(r) == fable' = IF Lookup(r) = <<>> THEN [fable EXCEPT ![Slot(r)] = <<r>>] ELSE fable

Receipt(type, c, auth, execution, key, body) ==
    [type |-> type, contract |-> c, auth |-> auth, execution |-> execution, key |-> key,
     body |-> body]

ContractReceipt(c) ==
    Receipt("service_contract", c, "none", "contract", "none", [form |-> contract[c]])

AuthorityReceipt(q) ==
    Receipt("execution_authorization", q.contract, q.auth, q.execution, "none",
            [agent |-> q.agent, endpoint |-> q.endpoint, price |-> q.price, query |-> q.query,
             revoked |-> q.auth \in revoked])

\* A receipt of a payment also names the payment receipt's hash.
DeliveryVerdict(q, key, verdict) ==
    Receipt("delivery_verdict", q.contract, q.auth, q.execution, key, verdict)

FinalVerdict(o, verdict) ==
    Receipt("final_sla_verdict", o.contract, payment[o.key].auth, payment[o.key].execution,
            o.key, verdict)

\* The places of a payment's delivery verdicts in their slot, which is in the
\* order of insertion; the newest is answered.
VerdictSlot(c, key) == fable[<<"delivery_verdict", c, payment[key].execution>>]
find_delivery_verdict(c, key) ==
    {i \in DOMAIN VerdictSlot(c, key) : VerdictSlot(c, key)[i].key = key}
Newest(c, key) == VerdictSlot(c, key)[Max(find_delivery_verdict(c, key))]

-----------------------------------------------------------------------------
(* Creating a contract: the row, then its receipt in a transaction of its  *)
(* own.                                                                     *)

Acceptable(form) ==
    /\ form.settlement = "prepaid_l402" => form.price > 0
    /\ ~ (form.validatorRequired /\ form.selfVerify)

create(w, c) ==
    /\ job[w] = Idle
    /\ contract[c] = NoForm
    /\ Acceptable(Terms[c])
    /\ contract' = [contract EXCEPT ![c] = Terms[c]]
    /\ Go(w, [at |-> "receipt", contract |-> c])
    /\ UNCHANGED <<expired, revoked, payment, fable, outcome, reputation>>

issue_contract_receipt(w) ==
    /\ job[w].at = "receipt"
    /\ issue(ContractReceipt(job[w].contract))
    /\ Done(w)
    /\ UNCHANGED <<contract, expired, revoked, payment, outcome, reputation>>

\* Time passes expires_at, when the contract has one.
Expire(c) ==
    /\ contract[c] # NoForm /\ contract[c].expires /\ c \notin expired
    /\ expired' = expired \cup {c}
    /\ UNCHANGED <<contract, revoked, payment, fable, outcome, reputation, job>>

Revoke(a) ==
    /\ a \notin revoked
    /\ revoked' = revoked \cup {a}
    /\ UNCHANGED <<contract, expired, payment, fable, outcome, reputation, job>>

-----------------------------------------------------------------------------
(* execute_contracted_agent_call and execute_agent_call *)

validate_paid_call(q) ==
    /\ contract[q.contract] # NoForm
    /\ q.contract \notin expired
    /\ contract[q.contract].tenant = Tenant[q.auth]
    /\ contract[q.contract].agent = q.agent
    /\ contract[q.contract].endpoint = q.endpoint
    /\ contract[q.contract].settlement = "prepaid_l402"
    /\ q.price <= contract[q.contract].price

Authorize(w, q) ==
    /\ job[w] = Idle
    /\ q.contract # NoContract
    /\ validate_paid_call(q)
    /\ ~ Conflict(AuthorityReceipt(q))
    /\ issue(AuthorityReceipt(q))
    /\ Go(w, [at |-> "execute", call |-> q])
    /\ UNCHANGED <<contract, expired, revoked, payment, outcome, reputation>>

\* The compatibility route takes no contract.
AgentCall(w, q) ==
    /\ job[w] = Idle
    /\ q.contract = NoContract
    /\ Go(w, [at |-> "execute", call |-> q])
    /\ UNCHANGED <<contract, expired, revoked, payment, fable, outcome, reputation>>

\* The most a payment may take: the reservation allows an invoice a tenth over
\* the quote, rounded up (1.1 as a float puts the ceiling of a multiple of ten
\* one higher), and the authorization's route fee.
DebitCeiling(price, auth) ==
    (11 * price + (IF price % 10 = 0 THEN 10 ELSE 9)) \div 10 + RouteFee[auth]

\* The key is paid: the quote is what a retry is compared with, total_debit_sats
\* (the invoice and its route fee) what the receipt and the reputation count.
Pay(w, debit) ==
    /\ job[w].at = "execute"
    /\ payment[job[w].call.key] = NoPayment
    /\ job[w].call.auth \notin revoked
    /\ debit <= DebitCeiling(job[w].call.price, job[w].call.auth)
    /\ LET q == job[w].call IN
         /\ payment' = [payment EXCEPT ![q.key] =
              [status |-> "paid", auth |-> q.auth, agent |-> q.agent, price |-> q.price,
               debit |-> debit, execution |-> q.execution, endpoint |-> "unknown",
               delivery |-> [status |-> "none", latency |-> 0]]]
         /\ Go(w, [at |-> "deliver", call |-> q])
    /\ UNCHANGED <<contract, expired, revoked, fable, outcome, reputation>>

\* The reservation's details are compared; the endpoint and the query are not
\* among them.
SameCall(q) ==
    /\ payment[q.key].agent = q.agent
    /\ payment[q.key].price = q.price
    /\ payment[q.key].execution = q.execution

Empty == [json |-> "no", complete |-> FALSE, size |-> 0]

AfterExecute(w, body) ==
    IF job[w].call.contract = NoContract
    THEN Done(w)
    ELSE Go(w, [at |-> "judge", call |-> job[w].call, body |-> body])

\* A key that is paid and finalized: its receipt is answered with no body.
Replay(w) ==
    /\ job[w].at = "execute"
    /\ payment[job[w].call.key].status = "finalized"
    /\ SameCall(job[w].call)
    /\ AfterExecute(w, Empty)
    /\ UNCHANGED <<contract, expired, revoked, payment, fable, outcome, reputation>>

\* No payment is made: the agent, the authorization or the key's payment in
\* flight forbids it.
Refuse(w) ==
    /\ job[w].at = "execute"
    /\ Done(w)
    /\ UNCHANGED <<contract, expired, revoked, payment, fable, outcome, reputation>>

Finalized(key, endpoint, delivery) ==
    [payment EXCEPT ![key].status = "finalized", ![key].endpoint = endpoint,
                    ![key].delivery = delivery]

\* finalize_paid_call keeps the receipt a reconciliation made meanwhile.
Deliver(w, d) ==
    /\ job[w].at = "deliver"
    /\ LET q == job[w].call IN
         payment' = IF payment[q.key].status = "finalized"
                    THEN payment
                    ELSE Finalized(q.key, q.endpoint, [status |-> d.status, latency |-> d.latency])
    /\ AfterExecute(w, d.body)
    /\ UNCHANGED <<contract, expired, revoked, fable, outcome, reputation>>

\* The credential of the delivery is gone: the receipt does not name the endpoint.
Reconcile(key) ==
    /\ payment[key].status = "paid"
    /\ payment' = Finalized(key, "recovery", [status |-> "delivery_unknown", latency |-> 0])
    /\ UNCHANGED <<contract, expired, revoked, fable, outcome, reputation, job>>

\* The response's parts are looked for in an object only: any other JSON value
\* lacks nothing.
DeliveryBlockers(form, delivery, body) ==
    LET found == [undelivered |-> delivery.status # "delivered",
                  late        |-> delivery.latency > form.deadline,
                  large       |-> body.size > form.size,
                  json        |-> body.json = "no",
                  missing     |-> body.json = "object" /\ ~ body.complete]
    IN  {b \in DOMAIN found : found[b]}

evaluate_delivery(form, delivery, body) ==
    LET blockers == DeliveryBlockers(form, delivery, body) IN
      [blockers |-> blockers,
       status |-> IF blockers # {} THEN "rejected"
                  ELSE IF form.validatorRequired THEN "pending_independent_validation"
                  ELSE "accepted"]

\* A verdict other than the stored one is an IdempotencyConflict, after the payment.
Judge(w) ==
    /\ job[w].at = "judge"
    /\ LET q == job[w].call
           verdict == evaluate_delivery(contract[q.contract], payment[q.key].delivery,
                                        job[w].body)
           r == DeliveryVerdict(q, q.key, verdict)
       IN  IF Conflict(r) THEN UNCHANGED fable ELSE issue(r)
    /\ Done(w)
    /\ UNCHANGED <<contract, expired, revoked, payment, outcome, reputation>>

-----------------------------------------------------------------------------
(* record_outcome *)

\* Fault: the endpoint of the payment is not compared.
BoundButEndpoint(o) ==
    /\ Tenant[payment[o.key].auth] = contract[o.contract].tenant
    /\ payment[o.key].agent = contract[o.contract].agent
    /\ find_delivery_verdict(o.contract, o.key) # {}

\* validate_receipt_binding
Bound(o) ==
    /\ Tenant[payment[o.key].auth] = contract[o.contract].tenant
    /\ payment[o.key].agent = contract[o.contract].agent
    /\ payment[o.key].endpoint = contract[o.contract].endpoint
    /\ find_delivery_verdict(o.contract, o.key) # {}

evaluate_validator_outcome(form, o, evaluation) ==
    LET blockers == evaluation.blockers
                      \cup (IF o.success THEN {} ELSE {"unsuccessful"})
                      \cup (IF o.quality >= form.quality THEN {} ELSE {"quality"})
    IN  [validator |-> o.validator, quality |-> o.quality, evidence |-> o.evidence,
         blockers |-> blockers,
         status |-> IF blockers = {} THEN "accepted" ELSE "rejected",
         refund |-> blockers # {} /\ form.refund]

\* The reads of the handler, up to the result it will sign.
Evaluate(w, o) ==
    /\ job[w] = Idle
    /\ o.contract # NoContract
    /\ contract[o.contract] # NoForm
    /\ payment[o.key].status = "finalized"
    /\ Bound(o)
    /\ contract[o.contract].selfVerify \/ o.validator # contract[o.contract].agent
    /\ LET verdict == Newest(o.contract, o.key).body
           result == evaluate_validator_outcome(contract[o.contract], o, verdict)
       IN  Go(w, [at |-> "score", outcome |-> o, result |-> result])
    /\ UNCHANGED <<contract, expired, revoked, payment, fable, outcome, reputation>>

Told(o) ==
    [validator |-> o.validator, success |-> o.success, quality |-> o.quality,
     latency |-> o.latency, evidence |-> o.evidence]

\* Fault: a known outcome is counted again.
ScoredAgain(o) == TRUE

\* The outcome of a receipt is recorded once.
Scored(o) == outcome[o.key] = NoOutcome

WithOutcome(rep, o) ==
    [verified |-> rep.verified + 1,
     successful |-> rep.successful + (IF o.success THEN 1 ELSE 0),
     failed |-> rep.failed + (IF o.success THEN 0 ELSE 1),
     paid |-> rep.paid + payment[o.key].debit,
     latency |-> rep.latency + o.latency,
     quality |-> rep.quality + o.quality]

record_verified_outcome(o) ==
    IF Scored(o)
    THEN /\ outcome' = [outcome EXCEPT ![o.key] = Told(o)]
         /\ reputation' = [reputation EXCEPT ![payment[o.key].agent] = WithOutcome(@, o)]
    ELSE UNCHANGED <<outcome, reputation>>

\* Fault: an outcome other than the recorded one is taken for a replay.
AgreesAlways(o) == TRUE

\* The handler of an outcome, at its next step.
Onward(w, at) == Go(w, [at |-> at, outcome |-> job[w].outcome, result |-> job[w].result])

\* No different outcome is recorded: the call goes on.
Agrees(o) == outcome[o.key] \in {NoOutcome, Told(o)}

Score(w) ==
    /\ job[w].at = "score"
    /\ record_verified_outcome(job[w].outcome)
    /\ IF Agrees(job[w].outcome) THEN Onward(w, "final") ELSE Done(w)
    /\ UNCHANGED <<contract, expired, revoked, payment, fable>>

\* Without a contract only the reputation changes, whoever the validator is.
ScoreOnly(w, o) ==
    /\ job[w] = Idle
    /\ o.contract = NoContract
    /\ payment[o.key].status = "finalized"
    /\ record_verified_outcome(o)
    /\ UNCHANGED <<contract, expired, revoked, payment, fable, job>>

\* issue_final_sla_verdict: the SELECT, and the INSERT a thread makes later.
FinalLookup(w) ==
    /\ job[w].at = "final"
    /\ IF Lookup(FinalVerdict(job[w].outcome, job[w].result)) = <<>>
       THEN Onward(w, "insert")
       ELSE Done(w)
    /\ UNCHANGED <<contract, expired, revoked, payment, fable, outcome, reputation>>

FinalInsert(w) ==
    /\ job[w].at = "insert"
    /\ LET r == FinalVerdict(job[w].outcome, job[w].result)
       IN  fable' = [fable EXCEPT ![Slot(r)] = Append(@, r)]
    /\ Done(w)
    /\ UNCHANGED <<contract, expired, revoked, payment, outcome, reputation>>

\* The process dies and restarts; the database keeps every committed step.
Crash ==
    /\ \E w \in Workers : job[w] # Idle
    /\ job' = [w \in Workers |-> Idle]
    /\ UNCHANGED <<contract, expired, revoked, payment, fable, outcome, reputation>>

-----------------------------------------------------------------------------
Next ==
    \/ \E w \in Workers :
         \/ \E c \in Ids : create(w, c)
         \/ issue_contract_receipt(w)
         \/ \E q \in Calls : Authorize(w, q) \/ AgentCall(w, q)
         \/ \E debit \in Debits : Pay(w, debit)
         \/ Replay(w)
         \/ Refuse(w)
         \/ \E d \in Deliveries : Deliver(w, d)
         \/ Judge(w)
         \/ \E o \in Outcomes : Evaluate(w, o) \/ ScoreOnly(w, o)
         \/ Score(w)
         \/ FinalLookup(w)
         \/ FinalInsert(w)
    \/ \E c \in Ids : Expire(c)
    \/ \E a \in DOMAIN Tenant : Revoke(a)
    \/ \E k \in Keys : Reconcile(k)
    \/ Crash

Spec == Init /\ [][Next]_vars

-----------------------------------------------------------------------------
Receipts == UNION {{fable[s][i] : i \in DOMAIN fable[s]} : s \in DOMAIN fable}
OfType(type) == {r \in Receipts : r.type = type}
Verdicts == {"rejected", "pending_independent_validation", "accepted"}

\* Every table holds rows of its columns, and a job is in a step of its handler.
TypeOK ==
    /\ contract \in [Ids -> {Terms[c] : c \in Ids} \cup {NoForm}]
    /\ expired \subseteq Ids /\ revoked \subseteq DOMAIN Tenant
    /\ \A k \in Keys : payment[k] # NoPayment => payment[k].status \in {"paid", "finalized"}
    /\ \A r \in Receipts :
         r.type \in {"delivery_verdict", "final_sla_verdict"} => r.body.status \in Verdicts
    /\ \A k \in Keys : outcome[k] # NoOutcome => outcome[k] \in {Told(o) : o \in Outcomes}
    /\ \A w \in Workers :
         job[w].at \in {"idle", "receipt", "execute", "deliver", "judge", "score", "final", "insert"}

\* A delivery is judged under the authority it was paid with: with a delivery
\* verdict there is an authority receipt of the same contract, execution and
\* authorization; the payment it judges went to the agent named there and was
\* quoted at the price named there, which is within the contract's; and what it
\* took is within what that authority allowed to reserve for this quote
\* (execute_contracted_agent_call; the key may have been paid by another call,
\* and the call may be a retry).
VerdictsAreAuthorized ==
    \A r \in OfType("delivery_verdict") :
      LET p == payment[r.key] IN
        /\ p.status = "finalized" /\ p.execution = r.execution /\ p.auth = r.auth
        /\ p.price <= contract[r.contract].price
        /\ \E a \in OfType("execution_authorization") :
             /\ a.contract = r.contract /\ a.execution = r.execution /\ a.auth = r.auth
             /\ a.body.agent = p.agent /\ a.body.price = p.price
             /\ p.debit <= DebitCeiling(a.body.price, a.auth)

\* A final verdict rests on the payment, the delivery verdict and the outcome
\* that are on record: the payment was made to the contract's provider at its
\* endpoint for its tenant, a delivery verdict is there, what it
\* blocked stays blocked, the reputation holds this validator's outcome, and an
\* accepted delivery was complete, successful, good enough and, unless the
\* contract allows it, not validated by its provider (record_outcome).
VerdictsFollowEvidence ==
    \A r \in OfType("final_sla_verdict") :
      LET p == payment[r.key]  form == contract[r.contract] IN
        /\ p.status = "finalized" /\ Tenant[p.auth] = form.tenant
        /\ p.agent = form.agent /\ p.endpoint = form.endpoint
        /\ \E d \in OfType("delivery_verdict") :
             /\ d.contract = r.contract /\ d.key = r.key
             /\ d.body.blockers \subseteq r.body.blockers
        /\ outcome[r.key].validator = r.body.validator
        /\ outcome[r.key].quality = r.body.quality
        /\ r.body.status = "accepted" =>
             /\ p.delivery.status = "delivered" /\ p.delivery.latency <= form.deadline
             /\ outcome[r.key].success /\ outcome[r.key].quality >= form.quality
        /\ form.selfVerify \/ outcome[r.key].validator # form.agent

\* Receipts of one kind for one execution of a contract tell one story, however
\* often calls are retried or cross: issue looks before it inserts and no index
\* keeps two threads from inserting, but what they insert is the same.
OneStoryPerExecution ==
    \A r, s \in Receipts : Slot(r) = Slot(s) => r = s

\* The payments of an agent that have an outcome, and the successful ones.
Validated(a) == {k \in Keys : outcome[k] # NoOutcome /\ payment[k].agent = a}
Won(a) == {k \in Validated(a) : outcome[k].success}
Lost(a) == Validated(a) \ Won(a)

\* An agent's counters are the sums over the outcomes recorded for its payments,
\* each payment once, although an outcome may be sent again with and without a
\* contract and by two validators at a time (record_verified_outcome).
ReputationIsTheOutcomes ==
    \A a \in Agents :
        /\ reputation[a].verified = Cardinality(Validated(a))
        /\ reputation[a].successful = Cardinality(Won(a))
        /\ reputation[a].failed = Cardinality(Lost(a))
        /\ reputation[a].paid =
             SumFunctionOnSet([k \in Validated(a) |-> payment[k].debit], Validated(a))
        /\ reputation[a].latency =
             SumFunctionOnSet([k \in Validated(a) |-> outcome[k].latency], Validated(a))
        /\ reputation[a].quality =
             SumFunctionOnSet([k \in Validated(a) |-> outcome[k].quality], Validated(a))
==============================================================================
