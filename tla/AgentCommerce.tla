--------------------------- MODULE AgentCommerce ---------------------------
(***************************************************************************)
(* Paid agent calls (services/agent-commerce/agent_commerce): the budget   *)
(* of an authorization (authorization.py), the L402 call that reserves,    *)
(* pays over Lightning and is delivered (l402.py), its receipt             *)
(* (receipts.py) and the recovery of a payment that was cut off            *)
(* (recovery.py).                                                          *)
(*                                                                         *)
(* A step is one BEGIN IMMEDIATE transaction, one read or one remote call. *)
(* Calls of one process share an event loop: another one runs only while   *)
(* they await.  Any of them may be cut off between two steps.              *)
(***************************************************************************)
EXTENDS Integers, FiniteSets, Functions

CONSTANTS
    Auths,      \* authorizations
    Keys,       \* idempotency keys of calls
    Agents,     \* npubs of paid agents
    Calls,      \* concurrent executions: agent calls and reconcile requests
    Requests,   \* the calls an orchestrator may ask for
    Budget,     \* max_total_sats, max_per_call_sats, max_route_fee_sats, max_calls
    Allowed,    \* allowed_agent_npubs; the empty set allows everyone
    Invoices,   \* Lightning invoices agents may ask to be paid
    Fees,       \* route fees a payment may cost
    NoInvoice, NoRequest,
    SharedLoop, \* all calls run in one process, as the image starts it
    MaxDeaths   \* bound of the model: calls that are cut off

VARIABLES
    auth,       \* table authorizations
    expired,    \* authorizations past expires_at
    resv,       \* table reservations, UNIQUE (authorization_id, idempotency_key)
    receipt,    \* table receipts, UNIQUE (reservation_id)
    lightning,  \* what became of each invoice in the Lightning network
    sent,       \* payment requests sent for a reservation (history)
    call,       \* what each execution is doing
    deaths

vars == <<auth, expired, resv, receipt, lightning, sent, call, deaths>>

RequestType == [auth : Auths, key : Keys, agent : Agents, quoted : Nat]
InvoiceType == [hash : Nat, sats : Nat]

ASSUME AgentCommerceAssumption ==
    /\ Budget \in [Auths -> [total : Nat, perCall : Nat, fee : Nat, calls : Nat]]
    /\ Allowed \in [Auths -> SUBSET Agents]
    /\ Requests \subseteq RequestType
    /\ Invoices \subseteq InvoiceType
    /\ Fees \subseteq Nat
    /\ NoRequest \notin RequestType
    /\ NoInvoice \notin InvoiceType
    /\ SharedLoop \in BOOLEAN
    /\ MaxDeaths \in Nat

Reservations == Auths \X Keys
Of(req) == <<req.auth, req.key>>
Hashes == {inv.hash : inv \in Invoices}

NoRow == [status |-> "none", req |-> NoRequest, reserved |-> 0,
          invoice |-> NoInvoice, fee |-> 0]
NoReceipt == [debit |-> 0, delivery |-> "none"]
Idle == [pc |-> "idle", id |-> NoRequest, invoice |-> NoInvoice, fee |-> 0,
         delivery |-> "none"]

Init ==
    /\ auth = [a \in Auths |-> [status |-> "none", reserved |-> 0, spent |-> 0,
                                calls |-> 0]]
    /\ expired = {}
    /\ resv = [r \in Reservations |-> NoRow]
    /\ receipt = [r \in Reservations |-> NoReceipt]
    /\ lightning = [h \in Hashes |-> [state |-> "none", fee |-> 0]]
    /\ sent = [r \in Reservations |-> 0]
    /\ call = [c \in Calls |-> Idle]
    /\ deaths = 0

store == <<auth, resv, receipt>>
outside == <<lightning, sent>>
clock == <<expired, deaths>>

\* Where an execution awaits and the event loop may run another one.
Awaiting == {"idle", "pay", "paying", "deliver", "lookup"}

MayRun(c) ==
    SharedLoop => \A d \in Calls \ {c} : call[d].pc \in Awaiting

At(c, pc) == call[c].pc = pc /\ MayRun(c)
Goto(c, pc) == call' = [call EXCEPT ![c].pc = pc]
Leave(c) == call' = [call EXCEPT ![c] = Idle]
Row(c) == resv[call[c].id]
SetRow(c, row) == resv' = [resv EXCEPT ![call[c].id] = row]

-----------------------------------------------------------------------------
\* create: positive budgets, a per-call ceiling within the total, not expired.
create(a) ==
    /\ auth[a].status = "none"
    /\ Budget[a].total > 0 /\ Budget[a].perCall > 0 /\ Budget[a].calls > 0
    /\ Budget[a].perCall <= Budget[a].total
    /\ a \notin expired
    /\ auth' = [auth EXCEPT ![a].status = "active"]
    /\ UNCHANGED <<resv, receipt, outside, call, clock>>

\* revoke works on any status.
revoke(a) ==
    /\ auth[a].status \notin {"none", "revoked"}
    /\ auth' = [auth EXCEPT ![a].status = "revoked"]
    /\ UNCHANGED <<resv, receipt, outside, call, clock>>

\* The clock passes expires_at; the row keeps its status.
Expire(a) ==
    /\ a \notin expired
    /\ expired' = expired \cup {a}
    /\ UNCHANGED <<store, outside, call, deaths>>

-----------------------------------------------------------------------------
\* The advertised price plus ten per cent, rounded up (execute).
MaxAdvertised(quoted) == (11 * quoted + 9) \div 10

\* reserve computes it as ceil(quoted * 1.1) in binary: a product that should be
\* a whole number may come out one higher.
Ceilings(quoted) ==
    {MaxAdvertised(quoted)}
        \cup IF quoted % 10 = 0 THEN {MaxAdvertised(quoted) + 1} ELSE {}

OPEN_RESERVATION_STATES == {"reserved", "invoice_bound", "payment_initiated", "paid"}
Open(a) ==
    {r \in Reservations : r[1] = a /\ resv[r].status \in OPEN_RESERVATION_STATES}

\* Faults: finished calls only are counted; what is held counts as available.
CallLeftFinished(a) == auth[a].calls < Budget[a].calls
AvailableIgnoringHolds(a) == Budget[a].total - auth[a].spent

CallLeft(a) == auth[a].calls + Cardinality(Open(a)) < Budget[a].calls
Available(a) == Budget[a].total - auth[a].spent - auth[a].reserved

\* What reserve checks before it inserts.  An expired authorization is refused;
\* the UPDATE that would mark it is rolled back by the exception.
MayReserve(req, ceiling) ==
    LET a == req.auth IN
    /\ req.quoted > 0
    /\ auth[a].status = "active"
    /\ a \notin expired
    /\ Allowed[a] = {} \/ req.agent \in Allowed[a]
    /\ req.quoted <= Budget[a].perCall
    /\ CallLeft(a)
    /\ ceiling <= Budget[a].perCall
    /\ ceiling + Budget[a].fee <= Available(a)

\* execute, first part: the agent asks for an invoice within the advertised
\* price, and reserve finds no row under the key.
reserve(c, req, invoice) ==
    /\ At(c, "idle")
    /\ invoice.sats > 0 /\ invoice.sats <= MaxAdvertised(req.quoted)
    /\ resv[Of(req)].status = "none"
    /\ \E ceiling \in Ceilings(req.quoted) :
         /\ MayReserve(req, ceiling)
         /\ resv' = [resv EXCEPT ![Of(req)] =
                       [status |-> "reserved", req |-> req,
                        reserved |-> ceiling + Budget[req.auth].fee,
                        invoice |-> NoInvoice, fee |-> 0]]
         /\ auth' = [auth EXCEPT ![req.auth].reserved =
                       @ + ceiling + Budget[req.auth].fee]
    /\ call' = [call EXCEPT ![c] = [Idle EXCEPT !.pc = "bind", !.id = Of(req),
                                                !.invoice = invoice]]
    /\ UNCHANGED <<receipt, outside, clock>>

\* Fault: a call that had reached payment pays again.
resumePaying(c, req, invoice) ==
    /\ At(c, "idle")
    /\ resv[Of(req)].req = req
    /\ resv[Of(req)].status \notin {"paid", "finalized"}
    /\ call' = [call EXCEPT ![c] =
         [Idle EXCEPT !.id = Of(req), !.invoice = invoice,
            !.pc = IF resv[Of(req)].status = "payment_initiated" THEN "pay" ELSE "bind"]]
    /\ UNCHANGED <<store, outside, clock>>

\* The same call again: a finalized one answers with its receipt, one that has
\* reached payment raises, any other goes on with the row there is.
resume(c, req, invoice) ==
    LET status == resv[Of(req)].status IN
    /\ At(c, "idle")
    /\ invoice.sats > 0 /\ invoice.sats <= MaxAdvertised(req.quoted)
    /\ resv[Of(req)].req = req
    /\ status # "finalized"
    /\ call' = [call EXCEPT ![c] =
         [Idle EXCEPT !.id = Of(req), !.invoice = invoice,
            !.pc = IF status \in {"payment_initiated", "paid"} THEN "check" ELSE "bind"]]
    /\ UNCHANGED <<store, outside, clock>>

\* A call that changes nothing: the price does not match, the key was used with
\* other details, the authorization refuses, or the receipt is returned.
NoEffect(c, req, invoice) ==
    LET row == resv[Of(req)] IN
    /\ At(c, "idle")
    /\ \/ invoice.sats = 0 \/ invoice.sats > MaxAdvertised(req.quoted)
       \/ row.status # "none" /\ row.req # req
       \/ row.status = "none"
            /\ \E ceiling \in Ceilings(req.quoted) : ~MayReserve(req, ceiling)
       \/ row.status = "finalized"
    /\ UNCHANGED vars

\* bind_invoice; a second bind must bring the same invoice.
bind_invoice(c) ==
    LET row == Row(c)
        invoice == call[c].invoice
    IN
    /\ At(c, "bind")
    /\ IF /\ row.status \in {"reserved", "invoice_bound"}
          /\ invoice.sats <= row.reserved
          /\ row.invoice = NoInvoice \/ row.invoice.hash = invoice.hash
       THEN /\ SetRow(c, [row EXCEPT !.status = "invoice_bound", !.invoice = invoice])
            /\ Goto(c, "initiate")
       ELSE Goto(c, "check") /\ UNCHANGED resv
    /\ UNCHANGED <<auth, receipt, outside, clock>>

mark_payment_initiated(c) ==
    /\ At(c, "initiate")
    /\ IF Row(c).status = "invoice_bound"
       THEN /\ SetRow(c, [Row(c) EXCEPT !.status = "payment_initiated"])
            /\ Goto(c, "pay")
       ELSE Goto(c, "check") /\ UNCHANGED resv
    /\ UNCHANGED <<auth, receipt, outside, clock>>

\* pay_invoice, sent to LND, which does not pay a hash twice (external).
pay_invoice(c) ==
    LET h == call[c].invoice.hash IN
    /\ At(c, "pay")
    /\ sent' = [sent EXCEPT ![call[c].id] = @ + 1]
    /\ IF lightning[h].state \in {"none", "failed"}
       THEN /\ lightning' = [lightning EXCEPT ![h].state = "inflight"]
            /\ Goto(c, "paying")
       ELSE Goto(c, "check") /\ UNCHANGED lightning
    /\ UNCHANGED <<store, clock>>

\* The payment comes through or fails for good (external).
Lightning(h) ==
    /\ lightning[h].state = "inflight"
    /\ \/ \E fee \in Fees :
            lightning' = [lightning EXCEPT ![h] = [state |-> "settled", fee |-> fee]]
       \/ lightning' = [lightning EXCEPT ![h].state = "failed"]
    /\ UNCHANGED <<store, sent, call, clock>>

\* LND's answer with the preimage, a payment error, or no answer in time.
PaymentAnswer(c) ==
    LET h == call[c].invoice.hash IN
    /\ At(c, "paying")
    /\ \/ /\ lightning[h].state = "settled"
          /\ call' = [call EXCEPT ![c].pc = "settle", ![c].fee = lightning[h].fee]
       \/ Goto(c, "check")
    /\ UNCHANGED <<store, outside, clock>>

\* mark_paid: repeating the same settlement is accepted.
Settles(row, fee) ==
    /\ row.status = "payment_initiated"
    /\ row.invoice.sats + fee <= row.reserved

\* Fault: a settlement that is repeated is refused.
mark_paidOnce(c, paid, refused) ==
    \/ /\ Settles(Row(c), call[c].fee)
       /\ SetRow(c, [Row(c) EXCEPT !.status = "paid", !.fee = call[c].fee])
       /\ Goto(c, paid)
    \/ /\ ~Settles(Row(c), call[c].fee)
       /\ Goto(c, refused)
       /\ UNCHANGED resv

mark_paid(c, paid, refused) ==
    LET row == Row(c) IN
    \/ /\ Settles(row, call[c].fee)
       /\ SetRow(c, [row EXCEPT !.status = "paid", !.fee = call[c].fee])
       /\ Goto(c, paid)
    \/ /\ row.status = "paid" /\ row.fee = call[c].fee
       /\ Goto(c, paid)
       /\ UNCHANGED resv
    \/ /\ ~Settles(row, call[c].fee)
       /\ row.status = "paid" => row.fee # call[c].fee
       /\ Goto(c, refused)
       /\ UNCHANGED resv

Settle(c) ==
    /\ At(c, "settle")
    /\ mark_paid(c, "deliver", "check")
    /\ UNCHANGED <<auth, receipt, outside, clock>>

\* Fault: whatever is not paid is released.
CheckReleaseUnpaid(c) ==
    /\ At(c, "check")
    /\ IF Row(c).status \in {"paid", "finalized"} THEN Leave(c) ELSE Goto(c, "release")
    /\ UNCHANGED <<store, outside, clock>>

\* The except branch looks at the row again before it releases it.
CheckRelease(c) ==
    /\ At(c, "check")
    /\ IF Row(c).status \in {"paid", "finalized", "payment_initiated"}
       THEN Leave(c) ELSE Goto(c, "release")
    /\ UNCHANGED <<store, outside, clock>>

release(c) ==
    LET row == Row(c) IN
    /\ At(c, "release")
    /\ IF row.status \in {"released", "finalized", "paid"}
       THEN UNCHANGED <<resv, auth>>
       ELSE /\ SetRow(c, [row EXCEPT !.status = "released"])
            /\ auth' = [auth EXCEPT ![row.req.auth].reserved = @ - row.reserved]
    /\ Leave(c)
    /\ UNCHANGED <<receipt, outside, clock>>

\* The paid request is sent again with the preimage; whatever comes back, the
\* call is finalized.
Deliver(c) ==
    /\ At(c, "deliver")
    /\ \E delivery \in {"delivered", "delivery_failed"} :
         call' = [call EXCEPT ![c].pc = "finalize", ![c].delivery = delivery]
    /\ UNCHANGED <<store, outside, clock>>

Debit(c) == call[c].invoice.sats + call[c].fee

\* What finalize_paid_call demands of a row that has no receipt yet.
MayFinalize(c) ==
    LET row == Row(c) IN
    /\ row.status = "paid"
    /\ Debit(c) <= row.reserved
    /\ auth[row.req.auth].spent + Debit(c) <= Budget[row.req.auth].total

Spend(account, limit, row, debit) ==
    [status   |-> IF \/ account.calls + 1 >= limit.calls
                     \/ account.spent + debit >= limit.total
                  THEN "consumed" ELSE account.status,
     reserved |-> account.reserved - row.reserved,
     spent    |-> account.spent + debit,
     calls    |-> account.calls + 1]

\* finalize_paid_call: an existing receipt is returned.
finalize_paid_call(c) ==
    LET row == Row(c)
        a   == row.req.auth
    IN
    /\ At(c, "finalize")
    /\ IF receipt[call[c].id] = NoReceipt /\ MayFinalize(c)
       THEN /\ receipt' = [receipt EXCEPT ![call[c].id] =
                 [debit |-> Debit(c), delivery |-> call[c].delivery]]
            /\ auth' = [auth EXCEPT ![a] = Spend(auth[a], Budget[a], row, Debit(c))]
            /\ SetRow(c, [row EXCEPT !.status = "finalized"])
       ELSE UNCHANGED <<receipt, auth, resv>>
    /\ Leave(c)
    /\ UNCHANGED <<outside, clock>>

-----------------------------------------------------------------------------
\* reconcile_initiated_payment, on an operator's request.
reconcile_initiated_payment(c, r) ==
    LET row == resv[r]
        known == [Idle EXCEPT !.id = r, !.invoice = row.invoice,
                              !.delivery = "delivery_unknown"]
    IN
    /\ At(c, "idle")
    /\ \/ /\ row.status = "payment_initiated"
          /\ call' = [call EXCEPT ![c] = [known EXCEPT !.pc = "lookup"]]
       \/ /\ row.status = "paid"
          /\ call' = [call EXCEPT ![c] = [known EXCEPT !.pc = "finalize",
                                                       !.fee = row.fee]]
    /\ UNCHANGED <<store, outside, clock>>

\* Fault: a payment that is known to LND counts as settled.
lookupKnown(c) ==
    /\ At(c, "lookup")
    /\ call' = [call EXCEPT ![c].pc = "resettle",
                            ![c].fee = lightning[call[c].invoice.hash].fee]
    /\ UNCHANGED <<store, outside, clock>>

\* lookup_payment: only a proven settlement goes on.  The node may also not
\* answer, or answer without the preimage, whatever became of the payment.
LookupProves(c) ==
    LET h == call[c].invoice.hash IN
    /\ At(c, "lookup")
    /\ lightning[h].state = "settled"
    /\ call' = [call EXCEPT ![c].pc = "resettle", ![c].fee = lightning[h].fee]
    /\ UNCHANGED <<store, outside, clock>>

LookupFails(c) ==
    /\ At(c, "lookup")
    /\ Leave(c)
    /\ UNCHANGED <<store, outside, clock>>

lookup_payment(c) == LookupProves(c) \/ LookupFails(c)

Resettle(c) ==
    /\ At(c, "resettle")
    /\ mark_paid(c, "finalize", "refused")
    /\ UNCHANGED <<auth, receipt, outside, clock>>

\* An exception of mark_paid ends the reconcile request.
Refused(c) ==
    /\ At(c, "refused")
    /\ Leave(c)
    /\ UNCHANGED <<store, outside, clock>>

\* The process dies, the task is cancelled or the database stays locked.
Die(c) ==
    /\ call[c].pc # "idle"
    /\ deaths < MaxDeaths
    /\ deaths' = deaths + 1
    /\ Leave(c)
    /\ UNCHANGED <<store, outside, expired>>

-----------------------------------------------------------------------------
Work(c) ==
    \/ bind_invoice(c)
    \/ mark_payment_initiated(c)
    \/ pay_invoice(c)
    \/ PaymentAnswer(c)
    \/ Settle(c)
    \/ CheckRelease(c)
    \/ release(c)
    \/ Deliver(c)
    \/ finalize_paid_call(c)
    \/ lookup_payment(c)
    \/ Resettle(c)
    \/ Refused(c)

execute(c) ==
    \E req \in Requests, invoice \in Invoices :
        \/ reserve(c, req, invoice)
        \/ resume(c, req, invoice)
        \/ NoEffect(c, req, invoice)

Next ==
    \/ \E a \in Auths : create(a) \/ revoke(a) \/ Expire(a)
    \/ \E c \in Calls :
         \/ execute(c)
         \/ \E r \in Reservations : reconcile_initiated_payment(c, r)
         \/ Work(c)
         \/ Die(c)
    \/ \E h \in Hashes : Lightning(h)

Spec == Init /\ [][Next]_vars

\* An execution that is ready again and again goes on: every await has a timeout,
\* and the event loop takes ready tasks in turn.  The Lightning network settles
\* or fails what it was given.
FairSpec ==
    /\ Spec
    /\ \A c \in Calls : SF_vars(Work(c))
    /\ \A h \in Hashes : WF_vars(Lightning(h))

-----------------------------------------------------------------------------
PCs == {"idle", "bind", "initiate", "pay", "paying", "settle", "check", "release",
        "deliver", "finalize", "lookup", "resettle", "refused"}

RowType == [status : OPEN_RESERVATION_STATES \cup {"none", "released", "finalized"},
            req : RequestType \cup {NoRequest}, reserved : Nat,
            invoice : InvoiceType \cup {NoInvoice}, fee : Nat]

Deliveries == {"none", "delivered", "delivery_failed", "delivery_unknown"}

\* Every column and every execution has its type.
TypeOK ==
    /\ auth \in [Auths -> [status : {"none", "active", "revoked", "consumed"},
                           reserved : Int, spent : Nat, calls : Nat]]
    /\ expired \subseteq Auths
    /\ resv \in [Reservations -> RowType]
    /\ receipt \in [Reservations -> [debit : Nat, delivery : Deliveries]]
    /\ lightning \in [Hashes -> [state : {"none", "inflight", "settled", "failed"},
                                 fee : Nat]]
    /\ sent \in [Reservations -> Nat]
    /\ call \in [Calls -> [pc : PCs, id : Reservations \cup {NoRequest},
                           invoice : InvoiceType \cup {NoInvoice}, fee : Nat,
                           delivery : Deliveries]]
    /\ deaths \in Nat

\* "Atomic budget reservation prevents concurrent overspend": what is spent and
\* what is held for open calls stays within max_total_sats.
BudgetHolds ==
    \A a \in Auths :
        auth[a].status # "none" => auth[a].spent + auth[a].reserved <= Budget[a].total

\* Finished and open calls together stay within max_calls, however many executions
\* race for the last one (reserve, release, finalize_paid_call).
CallsWithinLimit ==
    \A a \in Auths : auth[a].calls + Cardinality(Open(a)) <= Budget[a].calls

\* "It never blindly pays twice": however a call is cut off, retried, offered
\* another invoice or reconciled, one payment request is sent for it.
NeverPaysTwice == \A r \in Reservations : sent[r] <= 1

\* What the open reservations of an authorization hold, and what its receipts
\* debit.
Receipted(a) == {r \in Reservations : r[1] = a /\ receipt[r] # NoReceipt}
Held(a) == SumFunctionOnSet([r \in Open(a) |-> resv[r].reserved], Open(a))
Debited(a) == SumFunctionOnSet([r \in Receipted(a) |-> receipt[r].debit], Receipted(a))

\* "An unproven payment remains reserved rather than being falsely released":
\* money that is on its way or gone is still held by its reservation, or spent;
\* and the authorization's columns account for it, reserved_sats being what the
\* open reservations hold and spent_sats what the receipts debit.
MoneyInFlightIsHeld ==
    /\ \A r \in Reservations :
         sent[r] > 0 /\ lightning[resv[r].invoice.hash].state \in {"inflight", "settled"}
             => resv[r].status \in {"payment_initiated", "paid", "finalized"}
    /\ \A a \in Auths :
         /\ auth[a].reserved = Held(a)
         /\ auth[a].spent = Debited(a)

\* A receipt and a finalized row come together, and only for a payment the
\* Lightning network has settled, with its own amount and fee.
ReceiptIsProven ==
    \A r \in Reservations :
        /\ resv[r].status = "finalized" <=> receipt[r] # NoReceipt
        /\ receipt[r] # NoReceipt =>
             LET inv == resv[r].invoice
             IN  /\ lightning[inv.hash].state = "settled"
                 /\ receipt[r].debit = inv.sats + lightning[inv.hash].fee

\* An execution has the proof that the payment of r settled, for an amount the
\* reservation covers: from the node's answer to the payment or to a lookup, or
\* from the row.
HasProof(c, r) ==
    /\ call[c].id = r
    /\ call[c].pc \in {"settle", "resettle", "deliver", "finalize"}
    /\ Debit(c) <= resv[r].reserved

\* "Paid-but-undelivered work still produces a signed receipt and consumes the
\* real spend": a call, or a recovery, that has the proof of a payment within its
\* reservation ends in a receipt, whoever else settles, delivers, revokes or
\* finalizes meanwhile, unless something is cut off after that.
ProofIsReceiptedInTheEnd ==
    \A c \in Calls, r \in Reservations, n \in 0..MaxDeaths :
        (HasProof(c, r) /\ deaths = n) ~> (receipt[r] # NoReceipt \/ deaths > n)

============================================================================
