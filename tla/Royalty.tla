------------------------------- MODULE Royalty -------------------------------
(***************************************************************************)
(* The royalty receipt loop: Lyrica's outbox                               *)
(* (services/gateway/royalty_outbox_simulator.py), the gateway's ingest,   *)
(* release and reverse routes (royalty_routes.py, royalty_orchestrator.py, *)
(* royalty_state.py, royalty_decision.py) and the transaction service,     *)
(* which posts to the ledger and owns the obligations                      *)
(* (services/transaction/royalty-service-core.ts).                         *)
(*                                                                         *)
(* A step is one database transaction or one HTTP call.  A request goes on *)
(* in the service it reached when its caller stops waiting.  Every tenant  *)
(* has a Lyrica of its own, and its claims; the obligations and the ledger *)
(* know a key whoever uses it.  The payload of a row never changes, so the *)
(* row stands for the request hash; a receipt stands for its id.           *)
(***************************************************************************)
EXTENDS RoyaltyMoney

CONSTANTS
    Rows,           \* events of lyrica_outbox
    Keys,           \* idempotency keys
    KeyOf,          \* the key each event carries
    Tenants,        \* tenants, each with an outbox of its own
    TenantOf,       \* the tenant of each event
    Bodies,         \* amounts and splits each event may have
    Handlers,       \* concurrent requests in the gateway
    Slots,          \* concurrent requests in the transaction service
    ReversalKeys,   \* idempotency keys of reversals
    MaxFaults,      \* bound on timeouts, crashes and lost answers
    NoRow, NoHandler

VARIABLES
    outbox,         \* lyrica_outbox: state and payload of each row
    stale,          \* rows whose occurred_at left the replay window
    sender,         \* the delivery attempt each tenant's Lyrica waits for
    registered,     \* tenants whose API key and signing key are registered
    rejections,     \* royalty_rejections
    claim,          \* royalty_idempotency
    aged,           \* claims older than PROCESSING_ABANDONED_AFTER_SECONDS
    receipts,       \* royalty_receipts
    handler,        \* requests in the gateway
    job,            \* POST /royalties requests in the transaction service
    obligation,     \* royalty_obligations with royalty_payouts
    reversal,       \* royalty_reversals
    posting,        \* the ledger transaction under each event's key
    poster,         \* the event it was posted for: organization and reference
    released,       \* keys with a release posting in the ledger
    reversed,       \* reversing entries of a posting in the ledger
    sent,           \* outcomes the gateway has sent on per event (history)
    torn,           \* keys released in the ledger by a failed commit (history)
    faults          \* faults so far (history)

lyrica == <<outbox, stale, sender>>
tenant == <<registered, rejections>>
claims == <<claim, aged>>
ledger == <<posting, poster, released, reversed>>
service == <<obligation, reversal>>
past == <<sent, torn>>
vars == <<lyrica, tenant, claims, receipts, handler, job, service, ledger, past, faults>>

ASSUME RoyaltyAssumption ==
    /\ KeyOf \in [Rows -> Keys]
    /\ TenantOf \in [Rows -> Tenants]
    /\ \A r \in Rows : \A b \in Bodies[r] :
         b.amount \in Nat /\ b.splits \in Seq(Split) /\ splits_sum_to_10000(b.splits)
    /\ MaxFaults \in Nat
    /\ NoRow \notin Rows /\ NoHandler \notin Handlers

NoBody == [amount |-> 0, splits |-> <<>>]
NoReceipt == [op |-> "none", row |-> NoRow, status |-> "none", outcome |-> "none"]
NoObligation == [row |-> NoRow, status |-> "none", ledger |-> "none",
                 outcome |-> "none", payouts |-> <<>>]
Idle == [pc |-> "idle", row |-> NoRow, outcome |-> "none", status |-> "none"]
Free == [pc |-> "free", row |-> NoRow, outcome |-> "none", caller |-> NoHandler]
Waiting == [row |-> NoRow, handler |-> NoHandler]

\* PRIMARY KEY (tenant_id, idempotency_key).
Claims == Tenants \X Keys
ClaimOf(r) == <<TenantOf[r], KeyOf[r]>>

Init ==
    /\ outbox = [r \in Rows |-> [state |-> "none", body |-> NoBody]]
    /\ stale = {}
    /\ sender = [t \in Tenants |-> Waiting]
    /\ registered \in SUBSET Tenants
    /\ rejections = {}
    /\ claim = [c \in Claims |-> [status |-> "NONE", row |-> NoRow, receipt |-> NoReceipt]]
    /\ aged = {}
    /\ receipts = {}
    /\ handler = [h \in Handlers |-> Idle]
    /\ job = [s \in Slots |-> Free]
    /\ obligation = [k \in Keys |-> NoObligation]
    /\ reversal = [x \in ReversalKeys |-> NoRow]
    /\ posting = [k \in Keys |-> "none"]
    /\ poster = [k \in Keys |-> NoRow]
    /\ released = {}
    /\ reversed = [k \in Keys |-> [create |-> 0, release |-> 0]]
    /\ sent = [r \in Rows |-> {}]
    /\ torn = {}
    /\ faults = 0

At(h, pc) == handler[h].pc = pc
Body(r) == outbox[r].body
Goto(h, pc) == handler' = [handler EXCEPT ![h].pc = pc]
Fault == faults < MaxFaults /\ faults' = faults + 1

-----------------------------------------------------------------------------
(* Lyrica. *)

enqueue(r, body) ==
    /\ outbox[r].state = "none"
    /\ outbox' = [outbox EXCEPT ![r] = [state |-> "pending", body |-> body]]
    /\ UNCHANGED <<stale, sender, tenant, claims, receipts, handler, job, service,
                   ledger, past, faults>>

Due(r) == outbox[r].state \in {"pending", "sent"}

\* run_once sends one row after the other.
SendRow(r, h) ==
    /\ sender[TenantOf[r]] = Waiting
    /\ Due(r)
    /\ At(h, "idle")
    /\ sender' = [sender EXCEPT ![TenantOf[r]] = [row |-> r, handler |-> h]]
    /\ handler' = [handler EXCEPT ![h] = [Idle EXCEPT !.pc = "verify", !.row = r]]
    /\ UNCHANGED <<outbox, stale, tenant, claims, receipts, job, service, ledger,
                   past, faults>>

mark_retry(r) == outbox' = [outbox EXCEPT ![r].state = "sent"]

\* The gateway cannot be reached, or ROYALTY_LOOP_ENABLED is off (503).
ConnectionRefused(r) ==
    /\ sender[TenantOf[r]] = Waiting
    /\ Due(r)
    /\ mark_retry(r)
    /\ UNCHANGED <<stale, sender, tenant, claims, receipts, handler, job, service,
                   ledger, past, faults>>

\* The client's ten seconds pass, or Lyrica dies; the gateway works on.
StopWaiting(t) ==
    /\ sender[t] # Waiting
    /\ Fault
    /\ mark_retry(sender[t].row) \/ UNCHANGED outbox
    /\ sender' = [sender EXCEPT ![t] = Waiting]
    /\ UNCHANGED <<stale, tenant, claims, receipts, handler, job, service, ledger, past>>

\* Fault: every answer but a receipt is retried.
StateAfterRetry(code) == IF code \in {200, 201} THEN "receipted" ELSE "sent"

StateAfter(code) ==
    CASE code \in {200, 201} -> "receipted"
      [] code = 503 -> "sent"
      [] OTHER -> "rejected"

\* The handler ends; its answer settles the row if Lyrica still waits for it.
Respond(h, code) ==
    /\ handler' = [handler EXCEPT ![h] = Idle]
    /\ IF sender[TenantOf[handler[h].row]].handler = h
       THEN /\ outbox' = [outbox EXCEPT ![handler[h].row].state = StateAfter(code)]
            /\ sender' = [sender EXCEPT ![TenantOf[handler[h].row]] = Waiting]
       ELSE UNCHANGED <<outbox, sender>>
    /\ UNCHANGED stale

-----------------------------------------------------------------------------
(* The gateway. *)

\* register_tenant_key and register_tenant_api_key.
RegisterTenant(t) ==
    /\ t \notin registered
    /\ registered' = registered \cup {t}
    /\ UNCHANGED <<lyrica, rejections, claims, receipts, handler, job, service,
                   ledger, past, faults>>

\* verify_and_parse: an unregistered tenant and a stale event are refused and
\* recorded, before the claim is looked at.
verify_and_parse(h) ==
    LET r == handler[h].row
        refused == IF TenantOf[r] \notin registered THEN 403
                   ELSE IF r \in stale THEN 422 ELSE 0
    IN  /\ At(h, "verify")
        /\ IF refused # 0
           THEN /\ rejections' = rejections \cup {<<r, refused>>}
                /\ Respond(h, refused)
           ELSE /\ Goto(h, "claim")
                /\ UNCHANGED <<rejections, lyrica>>
        /\ UNCHANGED <<registered, claims, receipts, job, service, ledger, past, faults>>

Take(c, r) ==
    /\ claim' = [claim EXCEPT ![c].status = "PROCESSING", ![c].row = r]
    /\ aged' = aged \ {c}

\* Fault: a claim is taken over whatever the payload.
ClaimableUnbound(c, r) == claim[c].status \in {"NONE", "FAILED"}

Claimable(c, r) ==
    \/ claim[c].status = "NONE"
    \/ /\ claim[c].row = r
       /\ \/ claim[c].status = "FAILED"
          \/ claim[c].status = "PROCESSING" /\ c \in aged

\* claim_idempotency, one transaction with the row locked; a COMPLETED claim
\* is answered with its receipt, whose truth is recorded once more, and is
\* processed again should the receipt be missing.
claim_idempotency(h) ==
    LET r == handler[h].row
        c == ClaimOf(r)
    IN  /\ At(h, "claim")
        /\ IF Claimable(c, r)
           THEN Take(c, r) /\ Goto(h, "decide") /\ UNCHANGED lyrica
           ELSE IF claim[c].row # r \/ claim[c].status = "PROCESSING"
           THEN Respond(h, 409) /\ UNCHANGED claims
           ELSE IF claim[c].receipt \in receipts
           THEN /\ handler' = [handler EXCEPT ![h].pc = "truth",
                                              ![h].outcome = claim[c].receipt.outcome]
                /\ UNCHANGED <<claims, lyrica>>
           ELSE Goto(h, "decide") /\ UNCHANGED <<claims, lyrica>>
        /\ UNCHANGED <<tenant, receipts, job, service, ledger, past, faults>>

\* The pre-flight computation fails: the claim is failed, HTTP 400.
Preflight(h) ==
    LET r == handler[h].row IN
    /\ At(h, "decide")
    /\ ~compute_royalty_ok(Body(r).amount, Body(r).splits)
    /\ Goto(h, "fail400")
    /\ UNCHANGED <<lyrica, tenant, claims, receipts, job, service, ledger, past, faults>>

\* evaluate_decision: no proof of ownership is "disowned", no answer of the
\* fraud service is "hold"; a retry may be decided otherwise.  Then
\* create_obligation is sent to the transaction service.
Outcomes == {"allow", "hold", "block", "disowned"}

evaluate_decision(h, s, outcome) ==
    LET r == handler[h].row IN
    /\ At(h, "decide")
    /\ compute_royalty_ok(Body(r).amount, Body(r).splits)
    /\ job[s] = Free
    /\ job' = [job EXCEPT ![s] = [pc |-> "lookup", row |-> r, outcome |-> outcome,
                                  caller |-> h]]
    /\ sent' = [sent EXCEPT ![r] = @ \cup
                  {IF outcome = "disowned" THEN "block" ELSE outcome}]
    /\ handler' = [handler EXCEPT ![h].pc = "waiting", ![h].outcome = outcome]
    /\ UNCHANGED <<lyrica, tenant, claims, receipts, service, ledger, torn, faults>>

\* evaluate_decision raises: an answer of the fraud service that is no JSON
\* object, or whose score is no number.  Nothing was sent on.
DecisionFails(h) ==
    /\ At(h, "decide")
    /\ compute_royalty_ok(Body(handler[h].row).amount, Body(handler[h].row).splits)
    /\ Goto(h, "fail500")
    /\ UNCHANGED <<lyrica, tenant, claims, receipts, job, service, ledger, past, faults>>

ReceiptStatus(status) ==
    CASE status = "POSTED" -> "paid"
      [] status = "HELD" -> "held"
      [] status = "BLOCKED" -> "blocked"
      [] status = "REVERSED" -> "reversed"

\* The answer of job s reaches its caller, if there still is one.
Answer(s, pc, status) ==
    /\ job' = [job EXCEPT ![s] = Free]
    /\ LET h == job[s].caller
       IN  handler' = IF h = NoHandler THEN handler
                      ELSE [handler EXCEPT ![h].pc = pc, ![h].status = status]

\* httpx gives up after twenty seconds: not a TransactionServiceError, so the
\* claim is failed and the exception goes on (HTTP 500).
GatewayTimesOut(h, s) ==
    /\ At(h, "waiting")
    /\ job[s].caller = h
    /\ Fault
    /\ job' = [job EXCEPT ![s].caller = NoHandler]
    /\ Goto(h, "fail500")
    /\ UNCHANGED <<lyrica, tenant, claims, receipts, service, ledger, past>>

\* _build_receipt and save_royalty_receipt: the status of the obligation the
\* service answered with, the policy of this attempt's decision.
BuiltReceipt(h) == [op |-> "create", row |-> handler[h].row,
                    status |-> ReceiptStatus(handler[h].status),
                    outcome |-> handler[h].outcome]
save_royalty_receipt(h) ==
    /\ At(h, "save")
    /\ receipts' = receipts \cup {BuiltReceipt(h)}
    /\ Goto(h, "complete")
    /\ UNCHANGED <<lyrica, tenant, claims, job, service, ledger, past, faults>>

\* Unconditional: whoever holds the claim by now.
complete_idempotency(h) ==
    LET c == ClaimOf(handler[h].row) IN
    /\ At(h, "complete")
    /\ claim' = [claim EXCEPT ![c].status = "COMPLETED", ![c].receipt = BuiltReceipt(h)]
    /\ aged' = aged \ {c}
    /\ Goto(h, "truth")
    /\ UNCHANGED <<lyrica, tenant, receipts, job, service, ledger, past, faults>>

\* _record_royalty_truth and the response; an unconfigured truth endpoint
\* raises (HTTP 500) although the royalty is done.
ingest_royalty_event(h) ==
    /\ At(h, "truth")
    /\ \/ /\ Respond(h, IF handler[h].outcome = "disowned" THEN 422 ELSE 201)
          /\ UNCHANGED faults
       \/ Fault /\ Respond(h, 500)
    /\ UNCHANGED <<tenant, claims, receipts, job, service, ledger, past>>

fail_idempotency(h, code) ==
    LET c == ClaimOf(handler[h].row) IN
    /\ claim' = [claim EXCEPT ![c].status = "FAILED"]
    /\ aged' = aged \ {c}
    /\ Respond(h, code)
    /\ UNCHANGED <<tenant, receipts, job, service, ledger, past, faults>>

\* What each way to fail is answered with; 409 is another tenant's payload
\* under the key: the claims are per tenant, the obligations are not.
FailCode == [fail400 |-> 400, fail409 |-> 409, fail500 |-> 500, fail503 |-> 503]

FailClaim(h) ==
    /\ handler[h].pc \in DOMAIN FailCode
    /\ fail_idempotency(h, FailCode[handler[h].pc])

\* The database refuses the receipt or the completion.
StoreFails(h) ==
    /\ handler[h].pc \in {"save", "complete"}
    /\ Fault
    /\ Goto(h, "fail500")
    /\ UNCHANGED <<lyrica, tenant, claims, receipts, job, service, ledger, past>>

\* The gateway dies: its requests are gone, those it sent go on.
GatewayRestarts ==
    /\ \E h \in Handlers : ~At(h, "idle")
    /\ Fault
    /\ handler' = [h \in Handlers |-> Idle]
    /\ job' = [s \in Slots |-> [job[s] EXCEPT !.caller = NoHandler]]
    /\ outbox' = [r \in Rows |-> IF sender[TenantOf[r]].row = r
                                 THEN [outbox[r] EXCEPT !.state = "sent"] ELSE outbox[r]]
    /\ sender' = [t \in Tenants |-> Waiting]
    /\ UNCHANGED <<stale, tenant, claims, receipts, service, ledger, past>>

-----------------------------------------------------------------------------
(* The transaction service: POST /royalties. *)

\* createSchema: every share is a basis point at least; HTTP 400, which the
\* gateway takes for an unavailable service.
splitSchema(splits) == \A i \in DOMAIN splits : splits[i].bps \in 1 .. BPS_DENOMINATOR

SamePayload(k, r) == obligation[k].row = r

\* The request is validated, then SELECT by idempotency key alone, outside a
\* transaction.
LookUp(s) ==
    LET r == job[s].row
        k == KeyOf[r]
    IN  /\ job[s].pc = "lookup"
        /\ IF ~splitSchema(Body(r).splits)
           THEN Answer(s, "fail503", "none")
           ELSE IF obligation[k] = NoObligation
           THEN /\ job' = [job EXCEPT ![s].pc =
                             IF job[s].outcome \in {"allow", "hold"} THEN "post" ELSE "insert"]
                /\ UNCHANGED handler
           ELSE IF SamePayload(k, r)
           THEN Answer(s, "save", obligation[k].status)
           ELSE Answer(s, "fail409", "none")
        /\ UNCHANGED <<lyrica, tenant, claims, receipts, service, ledger, past, faults>>

\* Fault: a ledger without tenant isolation answers with anyone's posting.
PostedForAnyone(k, r) == posting[k] # "none"

\* checkIdempotency sees the rows of the caller's organization.
PostedFor(k, r) == posting[k] # "none" /\ TenantOf[poster[k]] = TenantOf[r]

\* postHold or postAllow under the event's idempotency key: the ledger answers
\* with the transaction the tenant already posted under that key, whatever it
\* was, and refuses a key another tenant posted under (UNIQUE), an empty line
\* and a posting that does not balance.
PostToLedger(s) ==
    LET r == job[s].row
        k == KeyOf[r]
        fresh == /\ posting[k] = "none"
                 /\ IF job[s].outcome = "hold" THEN Body(r).amount > 0
                    ELSE JournalAccepts(Body(r).amount, Body(r).splits)
        accepted == PostedFor(k, r) \/ fresh
    IN  /\ job[s].pc = "post"
        /\ posting' = IF fresh THEN [posting EXCEPT ![k] = job[s].outcome] ELSE posting
        /\ poster' = IF fresh THEN [poster EXCEPT ![k] = r] ELSE poster
        /\ \/ /\ accepted
              /\ job' = [job EXCEPT ![s].pc = "insert"]
              /\ UNCHANGED <<handler, faults>>
           \/ ~accepted /\ Answer(s, "fail503", "none") /\ UNCHANGED faults
           \/ accepted /\ Fault /\ Answer(s, "fail503", "none")
        /\ UNCHANGED <<lyrica, tenant, claims, receipts, service, released, reversed, past>>

\* The obligation row and its payouts, one transaction; the key is UNIQUE and
\* every amount is positive (CHECK).
InsertedStatus(outcome) ==
    CASE outcome = "allow" -> "POSTED"
      [] outcome = "hold" -> "HELD"
      [] OTHER -> "BLOCKED"
InsertObligation(s) ==
    LET r == job[s].row
        k == KeyOf[r]
        status == InsertedStatus(job[s].outcome)
        payouts == IF status = "POSTED"
                   THEN distribute_splits(pool(Body(r).amount), Body(r).splits) ELSE <<>>
    IN  /\ job[s].pc = "insert"
        /\ IF /\ obligation[k] = NoObligation
              /\ Body(r).amount > 0
              /\ \A i \in DOMAIN payouts : payouts[i] > 0
           THEN /\ obligation' = [obligation EXCEPT ![k] =
                     [row |-> r, status |-> status, outcome |-> job[s].outcome,
                      ledger |-> IF status = "BLOCKED" THEN "none" ELSE "create",
                      payouts |-> payouts]]
                /\ Answer(s, "save", status)
           ELSE /\ Answer(s, "fail503", "none")
                /\ UNCHANGED obligation
        /\ UNCHANGED <<lyrica, tenant, claims, receipts, reversal, ledger, past, faults>>

\* The transaction service dies; its callers see a broken connection.
ServiceRestarts ==
    /\ \E s \in Slots : job[s] # Free
    /\ Fault
    /\ job' = [s \in Slots |-> Free]
    /\ handler' = [h \in Handlers |->
         IF At(h, "waiting") THEN [handler[h] EXCEPT !.pc = "fail500"] ELSE handler[h]]
    /\ UNCHANGED <<lyrica, tenant, claims, receipts, service, ledger, past>>

-----------------------------------------------------------------------------
(* Release and reversal: the row is locked from its read to the commit.    *)

Keep(h, op, r, status) ==
    handler' = [handler EXCEPT ![h] = [pc |-> op, row |-> r, status |-> status,
                                       outcome |-> obligation[KeyOf[r]].outcome]]

\* Fault: an obligation is released again.
ReleasableAlways(k) == obligation[k].status \in {"HELD", "POSTED"}

Releasable(k) == obligation[k].status = "HELD"

\* releaseObligation; a POSTED obligation is answered as it is, any other that
\* is not HELD is refused.  The posting stays when the commit fails.
release_obligation(h, r) ==
    LET k == KeyOf[r]
        gross == Body(r).amount
        splits == Body(r).splits
    IN  /\ At(h, "idle")
        /\ obligation[k].row = r
        /\ \/ /\ Releasable(k)
              /\ JournalAccepts(gross, splits)
              /\ released' = released \cup {k}
              /\ \/ /\ obligation' = [obligation EXCEPT
                         ![k].status = "POSTED", ![k].ledger = "release",
                         ![k].payouts = distribute_splits(pool(gross), splits)]
                    /\ Keep(h, "release", r, "POSTED")
                    /\ UNCHANGED <<torn, faults>>
                 \/ Fault /\ torn' = torn \cup {k} /\ UNCHANGED <<obligation, handler>>
           \/ /\ obligation[k].status = "POSTED"
              /\ Keep(h, "release", r, "POSTED")
              /\ UNCHANGED <<obligation, released, torn, faults>>
        /\ UNCHANGED <<lyrica, tenant, claims, receipts, job, reversal, posting, poster,
                       reversed, sent>>

\* reverseObligation: a reversal key that is known is a replay; otherwise the
\* ledger transaction of the obligation is reversed.  The ledger has no key for
\* reversals, and the reversing entry stays when the commit fails.
reverse_obligation(h, r, x) ==
    LET k == KeyOf[r]
        o == obligation[k]
    IN  /\ At(h, "idle")
        /\ \/ /\ reversal[x] # NoRow
              /\ Keep(h, "reverse", reversal[x], obligation[KeyOf[reversal[x]]].status)
              /\ UNCHANGED <<obligation, reversal, reversed, faults>>
           \/ /\ reversal[x] = NoRow
              /\ o.row = r
              /\ o.status # "REVERSED"
              /\ o.ledger # "none"
              /\ reversed' = [reversed EXCEPT ![k][o.ledger] = @ + 1]
              /\ \/ /\ obligation' = [obligation EXCEPT ![k].status = "REVERSED"]
                    /\ reversal' = [reversal EXCEPT ![x] = r]
                    /\ Keep(h, "reverse", r, "REVERSED")
                    /\ UNCHANGED faults
                 \/ Fault /\ UNCHANGED <<obligation, reversal, handler>>
        /\ UNCHANGED <<lyrica, tenant, claims, receipts, job, posting, poster, released, past>>

\* _receipt_from_obligation and save_royalty_receipt, under a fixed receipt id.
SaveOperationReceipt(h) ==
    /\ handler[h].pc \in {"release", "reverse"}
    /\ receipts' = receipts \cup
         {[op |-> handler[h].pc, row |-> handler[h].row, outcome |-> handler[h].outcome,
           status |-> ReceiptStatus(handler[h].status)]}
    /\ handler' = [handler EXCEPT ![h] = Idle]
    /\ UNCHANGED <<lyrica, tenant, claims, job, service, ledger, past, faults>>

-----------------------------------------------------------------------------
\* Five minutes pass since occurred_at.
GrowStale(r) ==
    /\ outbox[r].state # "none"
    /\ stale' = stale \cup {r}
    /\ UNCHANGED <<outbox, sender, tenant, claims, receipts, handler, job, service,
                   ledger, past, faults>>

\* PROCESSING_ABANDONED_AFTER_SECONDS pass since the claim.
Age(c) ==
    /\ claim[c].status = "PROCESSING"
    /\ aged' = aged \cup {c}
    /\ UNCHANGED <<lyrica, tenant, claim, receipts, handler, job, service, ledger,
                   past, faults>>

Work(h) ==
    \/ verify_and_parse(h)
    \/ claim_idempotency(h)
    \/ Preflight(h)
    \/ \E s \in Slots, outcome \in Outcomes : evaluate_decision(h, s, outcome)
    \/ save_royalty_receipt(h)
    \/ complete_idempotency(h)
    \/ ingest_royalty_event(h)
    \/ FailClaim(h)
    \/ SaveOperationReceipt(h)

Serve(s) == LookUp(s) \/ PostToLedger(s) \/ InsertObligation(s)

Next ==
    \/ \E r \in Rows : \E b \in Bodies[r] : enqueue(r, b)
    \/ \E r \in Rows, h \in Handlers : SendRow(r, h) \/ release_obligation(h, r)
    \/ \E r \in Rows : ConnectionRefused(r) \/ GrowStale(r)
    \/ \E r \in Rows, h \in Handlers, x \in ReversalKeys : reverse_obligation(h, r, x)
    \/ \E h \in Handlers : Work(h) \/ DecisionFails(h) \/ StoreFails(h)
    \/ \E h \in Handlers, s \in Slots : GatewayTimesOut(h, s)
    \/ \E s \in Slots : Serve(s)
    \/ \E c \in Claims : Age(c)
    \/ \E t \in Tenants : RegisterTenant(t) \/ StopWaiting(t)
    \/ GatewayRestarts
    \/ ServiceRestarts

Spec == Init /\ [][Next]_vars

\* run_once tries every due row again and again; a service that is up goes on
\* with its requests.
FairSpec ==
    /\ Spec
    /\ \A r \in Rows : SF_vars(\E h \in Handlers : SendRow(r, h))
    /\ \A h \in Handlers : WF_vars(Work(h))
    /\ \A s \in Slots : WF_vars(Serve(s))

-----------------------------------------------------------------------------
(* Properties. *)

Settled == {"receipted", "rejected"}
Receipt == [op : {"create", "release", "reverse"}, row : Rows,
            status : {"paid", "held", "blocked", "reversed"}, outcome : Outcomes]

\* The types of the gateway's and the transaction service's tables.
TypeOK ==
    /\ \A r \in Rows : outbox[r] \in [state : Settled \cup {"none", "pending", "sent"},
                                     body : Bodies[r] \cup {NoBody}]
    /\ sender \in [Tenants -> [row : Rows, handler : Handlers] \cup {Waiting}]
    /\ \A c \in Claims :
         /\ claim[c].status \in {"NONE", "PROCESSING", "COMPLETED", "FAILED"}
         /\ claim[c].receipt \in Receipt \cup {NoReceipt}
    /\ \A k \in Keys :
         obligation[k].status \in {"none", "POSTED", "HELD", "BLOCKED", "REVERSED"}
    /\ receipts \subseteq Receipt
    /\ \A h \in Handlers :
         handler[h].pc \in {"idle", "verify", "claim", "decide", "waiting", "save", "complete",
                           "truth", "release", "reverse"} \cup DOMAIN FailCode
    /\ \A s \in Slots : job[s].pc \in {"free", "lookup", "post", "insert"}
    /\ posting \in [Keys -> {"none", "allow", "hold"}]

\* The gateway decided the event the same way at every attempt.
AgreedOn(r) == Cardinality(sent[r]) <= 1

\* Postings that credit the creators for the event of k.
Credits(k) == (IF posting[k] = "allow" THEN 1 ELSE 0) + (IF k \in released THEN 1 ELSE 0)

\* The books of an event whose obligation stands under k.
BooksOf(k) ==
    LET o == obligation[k] IN
    /\ o.status # "BLOCKED" => posting[k] # "none" /\ poster[k] = o.row
    /\ AgreedOn(o.row) =>
         /\ Credits(k) <= 1
         /\ o.status = "POSTED" => Credits(k) = 1
         /\ o.status = "HELD" => posting[k] = "hold" /\ (k \in released => k \in torn)
         /\ o.status = "BLOCKED" => poster[k] # o.row /\ k \notin released

\* The books follow the obligations over takeovers, retries and crashes, and
\* over two tenants that use the same key.  An obligation that claims a posting
\* has one, made for its own event.  As long as a retry is decided like the
\* attempt before it, its creators are credited once when it is POSTED, never
\* when it is BLOCKED, and while it is HELD by nothing but a release whose
\* commit failed.  A stored receipt never says more than the obligation's later
\* life allows (createObligation, releaseObligation, _build_receipt).
BooksFollowObligations ==
    \A k \in Keys :
        /\ IF obligation[k] = NoObligation THEN Credits(k) <= 1 ELSE BooksOf(k)
        /\ \A c \in receipts : KeyOf[c.row] = k =>
             obligation[k].status \in
               CASE c.status = "paid" -> {"POSTED", "REVERSED"}
                 [] c.status = "held" -> {"HELD", "POSTED", "REVERSED"}
                 [] c.status = "blocked" -> {"BLOCKED"}
                 [] c.status = "reversed" -> {"REVERSED"}

\* The payouts of an obligation are the whole pool, and all of the gross amount
\* if the event was never decided in two ways; every owner is within a cent of
\* the exact share and a larger share is never paid less (distribute_splits).
PayoutsExhaustThePool ==
    \A k \in Keys : obligation[k].payouts # <<>> =>
        LET body == Body(obligation[k].row)
            paid == obligation[k].payouts
            exact(i) == pool(body.amount) * body.splits[i].bps
        IN  /\ Total(paid) = pool(body.amount)
            /\ AgreedOn(obligation[k].row) => Total(paid) * 100 = body.amount
            /\ Cardinality(Owners(body.splits)) = Len(body.splits) =>
                 \A i, j \in DOMAIN paid :
                    /\ paid[i] * BPS_DENOMINATOR - exact(i)
                         \in 1 - BPS_DENOMINATOR .. BPS_DENOMINATOR - 1
                    /\ body.splits[i].bps > body.splits[j].bps => paid[i] >= paid[j]

\* One payload per key from end to end: a COMPLETED claim names a stored
\* receipt of the payload it was claimed for, the obligation under a key is of
\* a payload the key was claimed for by its tenant, every receipt under a key
\* is of the obligation's payload though another tenant used the key too, and
\* Lyrica marks a row receipted only when the gateway stores a receipt of that
\* row, whatever takeovers and lost answers came before (claim_idempotency,
\* createObligation, _attempt_one).
OnePayloadPerKey ==
    /\ \A c \in Claims : claim[c].status = "COMPLETED" =>
         claim[c].receipt \in receipts /\ claim[c].receipt.row = claim[c].row
    /\ \A k \in Keys : obligation[k] # NoObligation =>
         claim[ClaimOf(obligation[k].row)].row = obligation[k].row
    /\ \A c \in receipts : obligation[KeyOf[c.row]].row = c.row
    /\ \A r \in Rows : outbox[r].state = "receipted" =>
         \E c \in receipts : c.row = r /\ c.op = "create"

\* Every event Lyrica recorded is receipted or rejected in the end, if the
\* service accepts its splits and the ledger can post its amounts; one it
\* cannot post is retried for ever, as is one whose key another tenant posted
\* under without an obligation to show for it.
EveryRowSettles ==
    \A r \in Rows :
        (/\ Due(r) /\ splitSchema(Body(r).splits)
         /\ JournalAccepts(Body(r).amount, Body(r).splits))
            ~> \/ outbox[r].state \in Settled
               \/ posting[KeyOf[r]] # "none" /\ poster[KeyOf[r]] # r

==============================================================================
