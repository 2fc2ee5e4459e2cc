--------------------------- MODULE GatewayProofs ---------------------------
(***************************************************************************)
(* The safety of POST /v1/payments of the production gateway, for every    *)
(* set of merchants, keys, handlers, requests and events: claims bind      *)
(* requests, completed claims have their receipts, receipts tell what was  *)
(* done, and answers are final.                                            *)
(***************************************************************************)
EXTENDS Gateway, TLAPS

Busy(h) == ~At(h, "idle")

\* A handler at work has a request that a merchant sent.
HasRequest == \A h \in Handlers : Busy(h) => handler[h].req \in Requests

\* A row that was never inserted binds nothing.
UnusedBindsNothing ==
    /\ \A c \in Claims : claim[c].status = "NONE" =>
         claim[c].req = NoRequest /\ receipt[c] = NoReceipt
    /\ \A k \in Keys : payment[k].status = "NONE" <=> payment[k].org = NoOrg

\* As long as no handler outlived its claim, the claim of a handler at work is
\* PROCESSING and cannot be reclaimed.
HolderIsProcessing ==
    \A h \in Handlers : Busy(h) /\ Mine(h) \notin overrun =>
        claim[Mine(h)].status = "PROCESSING" /\ Mine(h) \notin aged

\* What a receipt of this status under the claim c says is true.
Honest(c, status) ==
    /\ status = "completed" =>
         payment[c[2]].org = c[1] /\ payment[c[2]].ledger = "set" /\ c \in recorded
    /\ status = "partial" =>
         payment[c[2]].org = c[1] /\ c \in ledgerQueue \cup analyticsQueue \cup recorded

\* What a handler knows where it is.
StageIsTrue(h) ==
    /\ handler[h].pc \in {"fraud", "transact", "waiting", "reconcile", "analytics", "save",
                          "complete"} => handler[h].event # NoEvent
    /\ handler[h].pc \in {"reconcile", "analytics"} =>
         payment[handler[h].req.key].org = handler[h].req.org
    /\ At(h, "analytics") => payment[handler[h].req.key].ledger = "set"
    /\ At(h, "save") =>
         handler[h].status \in ReceiptStatuses /\ Honest(Mine(h), handler[h].status)
    /\ At(h, "complete") => receipt[Mine(h)].event = handler[h].event

IInv ==
    /\ TypeOK
    /\ HasRequest
    /\ UnusedBindsNothing
    /\ HolderIsProcessing
    /\ KeyBindsRequest
    /\ CompletedHasReceipt
    /\ DoneWorkIsTold
    /\ \A h \in Handlers : StageIsTrue(h)

-----------------------------------------------------------------------------
ClaimType == [status : {"NONE", "PROCESSING", "COMPLETED", "FAILED"},
              req : RequestType \cup {NoRequest}, event : EventIds \cup {NoEvent}]
ReceiptType == [event : EventIds \cup {NoEvent}, req : RequestType \cup {NoRequest},
                status : ReceiptStatuses \cup {"NONE"}, named : BOOLEAN]
RowType == [org : Orgs \cup {NoOrg}, amount : Nat, feeAmount : Nat,
            status : {"NONE", "PENDING", "SUCCEEDED", "FAILED"}, ledger : {"null", "set"}]
PCs == {"idle", "credentials", "fraud", "transact", "waiting", "reconcile", "analytics",
        "save", "complete", "fail"}
HandlerType == [pc : PCs, req : RequestType \cup {NoRequest}, event : EventIds \cup {NoEvent},
                first : BOOLEAN, status : ReceiptStatuses \cup {"processing"}, named : BOOLEAN]

\* The tables of the gateway have their types.
TablesOK ==
    /\ claim \in [Claims -> ClaimType]
    /\ aged \subseteq Claims /\ overrun \subseteq Claims
    /\ receipt \in [Claims -> ReceiptType]

\* What the gateway keeps in other services and in files has its type.
DownstreamOK ==
    /\ payment \in [Keys -> RowType]
    /\ inflight \subseteq Requests
    /\ recorded \subseteq Claims /\ ledgerQueue \subseteq Claims /\ analyticsQueue \subseteq Claims
    /\ untold \subseteq Claims

\* The type invariant is the tables, the downstream state and the handlers.
LEMMA TypeParts ==
    TypeOK <=> TablesOK /\ DownstreamOK /\ handler \in [Handlers -> HandlerType]
BY DEF TypeOK, TablesOK, DownstreamOK, ClaimType, ReceiptType, RowType, HandlerType, PCs

\* The fields of the requests merchants send, and the claim they are under.
LEMMA RequestFields ==
    ASSUME NEW req \in Requests
    PROVE  /\ req \in RequestType /\ req # NoRequest
           /\ req.org \in Orgs /\ req.org # NoOrg /\ req.key \in Keys
           /\ req.amount \in Nat /\ req.feeAmount \in Nat
           /\ ClaimOf(req) \in Claims
           /\ ClaimOf(req)[1] = req.org /\ ClaimOf(req)[2] = req.key
BY GatewayAssumption DEF RequestType, ClaimOf, Claims

\* Only the handler h moves, to pc.
Moves(h, pc) ==
    /\ handler' \in [Handlers -> HandlerType]
    /\ handler'[h].pc = pc
    /\ \A g \in Handlers \ {h} : handler'[g] = handler[g]

\* Goto keeps the request and the event of the handler.
LEMMA GotoMoves ==
    ASSUME handler \in [Handlers -> HandlerType], NEW h \in Handlers,
           NEW pc \in PCs, Goto(h, pc)
    PROVE  /\ Moves(h, pc)
           /\ handler'[h].req = handler[h].req /\ handler'[h].event = handler[h].event
           /\ handler'[h].named = handler[h].named
<1> DEFINE new == [handler[h] EXCEPT !.pc = pc, !.first = FALSE]
<1>1. handler' = [handler EXCEPT ![h] = new]
  BY DEF Goto
<1>2. /\ new \in HandlerType /\ new.pc = pc /\ new.named = handler[h].named
      /\ new.req = handler[h].req /\ new.event = handler[h].event
  BY DEF HandlerType, PCs
<1> HIDE DEF new
<1> QED
  BY <1>1, <1>2 DEF Moves

\* Named also gives the event its transaction.
LEMMA NamedMoves ==
    ASSUME handler \in [Handlers -> HandlerType], NEW h \in Handlers,
           NEW pc \in PCs, Named(h, pc)
    PROVE  /\ Moves(h, pc)
           /\ handler'[h].req = handler[h].req /\ handler'[h].event = handler[h].event
           /\ handler'[h].named = TRUE
<1> DEFINE new == [handler[h] EXCEPT !.pc = pc, !.first = FALSE, !.named = TRUE]
<1>1. handler' = [handler EXCEPT ![h] = new]
  BY DEF Named
<1>2. /\ new \in HandlerType /\ new.pc = pc /\ new.named = TRUE
      /\ new.req = handler[h].req /\ new.event = handler[h].event
  BY DEF HandlerType, PCs
<1> HIDE DEF new
<1> QED
  BY <1>1, <1>2 DEF Moves

\* Finish also gives the event its status.
LEMMA FinishMoves ==
    ASSUME handler \in [Handlers -> HandlerType], NEW h \in Handlers,
           NEW status \in ReceiptStatuses, Finish(h, status)
    PROVE  /\ Moves(h, "save")
           /\ handler'[h].req = handler[h].req /\ handler'[h].event = handler[h].event
           /\ handler'[h].status = status /\ handler'[h].named = handler[h].named
<1> DEFINE new == [handler[h] EXCEPT !.pc = "save", !.status = status, !.first = FALSE]
<1>1. handler' = [handler EXCEPT ![h] = new]
  BY DEF Finish
<1>2. /\ new \in HandlerType /\ new.pc = "save" /\ new.status = status
      /\ new.req = handler[h].req /\ new.event = handler[h].event
      /\ new.named = handler[h].named
  BY DEF HandlerType, PCs
<1> HIDE DEF new
<1> QED
  BY <1>1, <1>2 DEF Moves

\* Fail keeps the request only.
LEMMA FailMoves ==
    ASSUME handler \in [Handlers -> HandlerType], NEW h \in Handlers, Fail(h)
    PROVE  Moves(h, "fail") /\ handler'[h].req = handler[h].req /\ handler'[h].named = FALSE
<1> DEFINE failed == [Idle EXCEPT !.pc = "fail", !.req = handler[h].req]
<1>1. Idle \in HandlerType /\ Idle.named = FALSE
  BY DEF Idle, HandlerType, PCs
<1>2. handler[h].req \in RequestType \cup {NoRequest}
  BY DEF HandlerType
<1>3. /\ failed \in HandlerType /\ failed.pc = "fail" /\ failed.req = handler[h].req
      /\ failed.named = FALSE
  BY <1>1, <1>2 DEF HandlerType, PCs
<1>4. handler' = [handler EXCEPT ![h] = failed]
  BY DEF Fail
<1> HIDE DEF failed
<1> QED
  BY <1>3, <1>4 DEF Moves

\* Return forgets everything.
LEMMA ReturnMoves ==
    ASSUME handler \in [Handlers -> HandlerType], NEW h \in Handlers, Return(h)
    PROVE  Moves(h, "idle") /\ handler'[h].named = FALSE
<1>1. Idle \in HandlerType /\ Idle.pc = "idle" /\ Idle.named = FALSE
  BY DEF Idle, HandlerType, PCs
<1> QED
  BY <1>1 DEF Return, Moves

-----------------------------------------------------------------------------
\* What no step undoes: a payment keeps its organization, amounts and posting,
\* an entry leaves the analytics queue only when it is recorded, a claim keeps
\* the request it was inserted with and a receipt stays as it was saved.
Grows ==
    /\ \A k \in Keys : payment[k].status # "NONE" =>
         /\ payment'[k].status # "NONE" /\ payment'[k].org = payment[k].org
         /\ payment'[k].amount = payment[k].amount
         /\ payment'[k].feeAmount = payment[k].feeAmount
         /\ payment[k].ledger = "set" => payment'[k].ledger = "set"
    /\ recorded \subseteq recorded' /\ ledgerQueue \subseteq ledgerQueue'
    /\ analyticsQueue \subseteq analyticsQueue' \cup recorded'
    /\ \A c \in Claims : claim[c].status # "NONE" =>
         claim'[c].status # "NONE" /\ claim'[c].req = claim[c].req
    /\ \A c \in Claims : receipt[c] # NoReceipt => receipt'[c] = receipt[c]
    /\ overrun \subseteq overrun'

\* The transaction service accepts a request.
LEMMA AcceptRow ==
    ASSUME payment \in [Keys -> RowType], NEW req \in Requests, Record!Accept(req)
    PROVE  /\ payment' \in [Keys -> RowType]
           /\ payment[req.key].status = "NONE"
           /\ payment'[req.key].status = "PENDING"
           /\ payment'[req.key].org = req.org
           /\ payment'[req.key].amount = req.amount
           /\ payment'[req.key].feeAmount = req.feeAmount
           /\ \A k \in Keys \ {req.key} : payment'[k] = payment[k]
BY RequestFields DEF Record!Accept, RowType

\* The transaction service decides or links a payment it has.
LEMMA ServiceRow ==
    ASSUME payment \in [Keys -> RowType], NEW k \in Keys, Record!Decide(k) \/ Record!Link(k)
    PROVE  /\ payment' \in [Keys -> RowType]
           /\ payment[k].status # "NONE" /\ payment'[k].status # "NONE"
           /\ payment'[k].org = payment[k].org
           /\ payment'[k].amount = payment[k].amount
           /\ payment'[k].feeAmount = payment[k].feeAmount
           /\ payment[k].ledger = "set" => payment'[k].ledger = "set"
           /\ \A j \in Keys \ {k} : payment'[j] = payment[j]
<1>1. CASE Record!Decide(k)
  BY <1>1 DEF Record!Decide, RowType
<1>2. CASE Record!Link(k)
  BY <1>2 DEF Record!Link, RowType
<1> QED
  BY <1>1, <1>2

\* What was honest stays honest.
LEMMA HonestStays ==
    ASSUME IInv, Grows, NEW c \in Claims, NEW status, Honest(c, status)
    PROVE  Honest(c, status)'
<1>1. c[1] \in Orgs /\ c[1] # NoOrg /\ c[2] \in Keys
  BY GatewayAssumption DEF Claims
<1>2. payment[c[2]].org = c[1] =>
        /\ payment'[c[2]].org = c[1]
        /\ payment[c[2]].ledger = "set" => payment'[c[2]].ledger = "set"
  BY <1>1 DEF IInv, UnusedBindsNothing, Grows
<1> QED
  BY <1>1, <1>2 DEF Honest, Grows

\* What a handler that does not move knows stays true.
LEMMA StageStays ==
    ASSUME IInv, Grows, NEW g \in Handlers, handler'[g] = handler[g]
    PROVE  StageIsTrue(g)'
<1>1. CASE ~Busy(g)
  BY <1>1 DEF StageIsTrue, Busy, At
<1>2. CASE Busy(g)
  <2> DEFINE req == handler[g].req
  <2>1. req \in Requests /\ StageIsTrue(g)
    BY <1>2 DEF IInv, HasRequest
  <2>2. req.key \in Keys /\ req.org # NoOrg /\ Mine(g) \in Claims /\ Mine(g)' = Mine(g)
    BY <2>1, RequestFields DEF Mine
  <2>3. /\ payment[req.key].org = req.org => payment'[req.key].org = req.org
        /\ payment[req.key].org = req.org /\ payment[req.key].ledger = "set" =>
             payment'[req.key].ledger = "set"
    BY <2>2 DEF IInv, UnusedBindsNothing, Grows
  <2>4. At(g, "save") => Honest(Mine(g), handler[g].status)'
    BY <2>1, <2>2, HonestStays DEF StageIsTrue
  <2>5. At(g, "complete") => receipt'[Mine(g)] = receipt[Mine(g)]
    BY <2>1, <2>2 DEF StageIsTrue, Grows, At, NoReceipt
  <2>6. /\ handler'[g].pc \in {"reconcile", "analytics"} =>
             payment'[handler'[g].req.key].org = handler'[g].req.org
        /\ At(g, "analytics")' => payment'[handler'[g].req.key].ledger = "set"
    BY <2>1, <2>3 DEF StageIsTrue, At
  <2>7. At(g, "save")' => Honest(Mine(g), handler[g].status)'
    BY <2>4 DEF At
  <2>8. At(g, "complete")' => receipt'[Mine(g)'] = receipt[Mine(g)] /\ At(g, "complete")
    BY <2>2, <2>5 DEF At
  <2> QED
    BY <2>1, <2>2, <2>6, <2>7, <2>8 DEF StageIsTrue, At
<1> QED
  BY <1>1, <1>2

-----------------------------------------------------------------------------
(* The parts of KeyBindsRequest. *)

BoundHandlers == \A h \in Handlers : Busy(h) => claim[Mine(h)].req = handler[h].req

BoundDownstream ==
    /\ \A req \in inflight : claim[ClaimOf(req)].req = req
    /\ \A k \in Keys : payment[k].status # "NONE" =>
         /\ claim[<<payment[k].org, k>>].req # NoRequest
         /\ payment[k].amount = claim[<<payment[k].org, k>>].req.amount
         /\ payment[k].feeAmount = claim[<<payment[k].org, k>>].req.feeAmount

BoundReceipts == \A c \in Claims : receipt[c] # NoReceipt => claim[c].req = receipt[c].req

OneWinner ==
    \A g, h \in Handlers :
        Busy(g) /\ Busy(h) /\ Mine(g) = Mine(h) => g = h \/ Mine(g) \in overrun

\* KeyBindsRequest is these four.
LEMMA KeyParts ==
    KeyBindsRequest <=> BoundHandlers /\ BoundDownstream /\ BoundReceipts /\ OneWinner
BY DEF KeyBindsRequest, BoundHandlers, BoundDownstream, BoundReceipts, OneWinner, Busy

\* A payment is under a claim of its organization.
LEMMA PaidUnderClaim ==
    ASSUME IInv, NEW k \in Keys, payment[k].status # "NONE"
    PROVE  /\ <<payment[k].org, k>> \in Claims
           /\ claim[<<payment[k].org, k>>].status # "NONE"
<1>1. claim[<<payment[k].org, k>>].req # NoRequest
  BY KeyParts DEF IInv, BoundDownstream
<1>2. payment[k].org \in Orgs
  BY DEF IInv, TypeOK, UnusedBindsNothing
<1> QED
  BY <1>1, <1>2 DEF IInv, UnusedBindsNothing, Claims

\* The claim of a request that is at work, late, or in a receipt exists.
LEMMA InsertedClaims ==
    ASSUME IInv
    PROVE  /\ \A h \in Handlers : Busy(h) =>
                Mine(h) \in Claims /\ claim[Mine(h)].status # "NONE"
           /\ \A req \in inflight : claim[ClaimOf(req)].status # "NONE"
<1>1. ASSUME NEW h \in Handlers, Busy(h)
      PROVE  Mine(h) \in Claims /\ claim[Mine(h)].status # "NONE"
  <2>1. handler[h].req \in Requests /\ claim[Mine(h)].req = handler[h].req
    BY <1>1, KeyParts DEF IInv, HasRequest, BoundHandlers
  <2> QED
    BY <2>1, RequestFields DEF IInv, UnusedBindsNothing, Mine
<1>2. ASSUME NEW req \in inflight PROVE claim[ClaimOf(req)].status # "NONE"
  <2>1. req \in Requests /\ claim[ClaimOf(req)].req = req
    BY KeyParts DEF IInv, TypeOK, BoundDownstream
  <2> QED
    BY <2>1, RequestFields DEF IInv, UnusedBindsNothing
<1> QED
  BY <1>1, <1>2

\* A step of a handler at work that touches no table of the gateway keeps the
\* invariant if the handler keeps its request or ends, and what it knows and
\* what it leaves downstream is right.
LEMMA QuietStep ==
    ASSUME IInv, Grows, NEW h \in Handlers, Busy(h), NEW pc, Moves(h, pc),
           pc = "idle" \/ handler'[h].req = handler[h].req,
           UNCHANGED <<claims, receipt>>, DownstreamOK',
           UnusedBindsNothing', BoundDownstream', StageIsTrue(h)'
    PROVE  IInv'
<1>0. UNCHANGED <<claim, aged, overrun, receipt>>
  BY DEF claims
<1>1. TypeOK'
  <2>1. TablesOK'
    BY <1>0, TypeParts DEF IInv, TablesOK
  <2> QED
    BY <2>1 DEF Moves, TypeOK, TablesOK, DownstreamOK, ClaimType, ReceiptType, RowType,
       HandlerType, PCs
<1>2. \A g \in Handlers : Busy(g)' => Busy(g) /\ handler'[g].req = handler[g].req
  BY DEF Moves, Busy, At
<1>3. HasRequest'
  BY <1>2 DEF IInv, HasRequest
<1>4. \A g \in Handlers : Busy(g)' => Busy(g) /\ Mine(g)' = Mine(g)
  BY <1>2 DEF Mine
<1>5. HolderIsProcessing'
  BY <1>0, <1>4 DEF IInv, HolderIsProcessing
<1>6. BoundHandlers' /\ BoundReceipts' /\ OneWinner'
  BY <1>0, <1>2, <1>4, KeyParts DEF IInv, BoundHandlers, BoundReceipts, OneWinner
<1>7. KeyBindsRequest'
  BY <1>6 DEF KeyBindsRequest, BoundHandlers, BoundDownstream, BoundReceipts, OneWinner, Busy
<1>8. CompletedHasReceipt'
  BY <1>0 DEF IInv, CompletedHasReceipt
<1>9. DoneWorkIsTold'
  <2> SUFFICES ASSUME NEW c \in Claims PROVE Honest(c, receipt[c].status)'
    BY DEF DoneWorkIsTold, Honest
  <2>1. Honest(c, receipt[c].status)
    BY DEF IInv, DoneWorkIsTold, Honest
  <2> QED
    BY <1>0, <2>1, HonestStays DEF Honest
<1>10. \A g \in Handlers : StageIsTrue(g)'
  BY StageStays DEF Moves
<1> QED
  BY <1>1, <1>3, <1>5, <1>7, <1>8, <1>9, <1>10 DEF IInv

\* A step that leaves the payments, the late requests and the tables alone.
LEMMA SameDownstream ==
    ASSUME IInv, UNCHANGED <<claim, receipt, payment, inflight>>
    PROVE  UnusedBindsNothing' /\ BoundDownstream'
BY KeyParts DEF IInv, UnusedBindsNothing, BoundDownstream

\* A step of a handler that changes nothing but the handler.
LEMMA StillStep ==
    ASSUME IInv, NEW h \in Handlers, Busy(h), NEW pc, Moves(h, pc),
           pc = "idle" \/ handler'[h].req = handler[h].req,
           UNCHANGED <<claims, receipt, downstream>>, StageIsTrue(h)'
    PROVE  IInv'
<1>1. UNCHANGED <<claim, aged, overrun, receipt, payment, inflight, recorded, ledgerQueue,
                  analyticsQueue, untold>>
  BY DEF claims, downstream
<1>2. Grows
  BY <1>1 DEF Grows
<1>3. DownstreamOK'
  BY <1>1, TypeParts DEF IInv, DownstreamOK
<1> QED
  BY <1>1, <1>2, <1>3, SameDownstream, QuietStep

\* A step of a handler that changes nothing else but the history of lost answers
\* and what the analytics service has recorded.
LEMMA LossyStep ==
    ASSUME IInv, NEW h \in Handlers, Busy(h), NEW pc, Moves(h, pc),
           pc = "idle" \/ handler'[h].req = handler[h].req,
           UNCHANGED <<claims, receipt, payment, inflight, ledgerQueue, analyticsQueue>>,
           recorded' = recorded \/ recorded' = recorded \cup {Mine(h)},
           untold' \subseteq untold \cup {Mine(h)}, StageIsTrue(h)'
    PROVE  IInv'
<1>1. UNCHANGED <<claim, aged, overrun>> /\ Mine(h) \in Claims
  BY InsertedClaims DEF claims
<1>2. Grows
  BY <1>1 DEF Grows
<1>3. DownstreamOK'
  BY <1>1, TypeParts DEF IInv, DownstreamOK
<1> QED
  BY <1>1, <1>2, <1>3, SameDownstream, QuietStep

\* PrepareEvent keeps the invariant: the event is a new one.
LEMMA PrepareEventKeeps ==
    ASSUME IInv, NEW h \in Handlers, PrepareEvent(h) PROVE IInv'
<1> DEFINE e == CHOOSE e \in EventIds \ UsedEvents : TRUE
<1>1. e \in EventIds /\ e # NoEvent
  BY GatewayAssumption DEF PrepareEvent
<1> HIDE DEF e
<1>2. handler \in [Handlers -> HandlerType]
  BY TypeParts DEF IInv
<1>3. handler' = [handler EXCEPT ![h].pc = "fraud", ![h].event = e]
  BY DEF PrepareEvent, e
<1>4. /\ Moves(h, "fraud") /\ handler'[h].req = handler[h].req /\ handler'[h].event = e
  <2> DEFINE new == [handler[h] EXCEPT !.pc = "fraud", !.event = e]
  <2>1. handler' = [handler EXCEPT ![h] = new]
    BY <1>3
  <2>2. new \in HandlerType /\ new.pc = "fraud" /\ new.req = handler[h].req /\ new.event = e
    BY <1>1, <1>2 DEF HandlerType, PCs
  <2> HIDE DEF new
  <2> QED
    BY <1>2, <2>1, <2>2 DEF Moves
<1>5. StageIsTrue(h)'
  BY <1>1, <1>4 DEF Moves, StageIsTrue, At
<1> QED
  BY <1>4, <1>5, StillStep DEF PrepareEvent, Busy, At

\* An exception before fail_idempotency, and the death of the process, keep it.
LEMMA RaiseKeeps ==
    ASSUME IInv, NEW h \in Handlers, Raise(h) \/ Die(h) PROVE IInv'
<1>1. handler \in [Handlers -> HandlerType]
  BY TypeParts DEF IInv
<1>2. CASE Raise(h)
  <2>1. Moves(h, "fail") /\ handler'[h].req = handler[h].req
    BY <1>1, <1>2, FailMoves DEF Raise
  <2>2. StageIsTrue(h)'
    BY <2>1 DEF Moves, StageIsTrue, At
  <2> QED
    BY <1>2, <2>1, <2>2, LossyStep DEF Raise, Busy, At, Unheard
<1>3. CASE Die(h)
  <2>1. Moves(h, "idle")
    BY <1>1, <1>3, ReturnMoves DEF Die
  <2>2. StageIsTrue(h)'
    BY <2>1 DEF Moves, StageIsTrue, At
  <2> QED
    BY <1>3, <2>1, <2>2, LossyStep DEF Die, Busy, Unheard
<1> QED
  BY <1>2, <1>3

\* A receipt of this status claims nothing about the payment.
LEMMA FinishKeeps ==
    ASSUME IInv, NEW h \in Handlers, NEW status \in {"blocked", "review", "failed"},
           handler[h].pc \in {"fraud", "transact", "waiting", "reconcile", "analytics"},
           Finish(h, status)
    PROVE  /\ Moves(h, "save") /\ handler'[h].req = handler[h].req
           /\ StageIsTrue(h)'
<1>1. handler \in [Handlers -> HandlerType]
  BY TypeParts DEF IInv
<1>2. /\ Moves(h, "save") /\ handler'[h].req = handler[h].req
      /\ handler'[h].event = handler[h].event /\ handler'[h].status = status
  BY <1>1, FinishMoves DEF ReceiptStatuses
<1>3. handler[h].event # NoEvent
  BY DEF IInv, StageIsTrue
<1>4. Honest(Mine(h), handler[h].status)'
  BY <1>2 DEF Honest
<1> QED
  BY <1>2, <1>3, <1>4 DEF Moves, StageIsTrue, At, ReceiptStatuses

\* An exception that the orchestrator catches keeps it.
LEMMA CaughtKeeps ==
    ASSUME IInv, NEW h \in Handlers, Caught(h) PROVE IInv'
<1>1. Moves(h, "save") /\ handler'[h].req = handler[h].req /\ StageIsTrue(h)'
  BY FinishKeeps DEF Caught
<1> QED
  BY <1>1, LossyStep DEF Caught, Busy, At

\* check_fraud keeps it.
LEMMA check_fraudKeeps ==
    ASSUME IInv, NEW h \in Handlers, check_fraud(h) PROVE IInv'
<1>1. handler \in [Handlers -> HandlerType] /\ handler[h].event # NoEvent /\ Busy(h)
  BY TypeParts DEF IInv, check_fraud, StageIsTrue, At, Busy
<1>2. CASE Goto(h, "transact")
  <2>1. /\ Moves(h, "transact") /\ handler'[h].req = handler[h].req
        /\ handler'[h].event = handler[h].event
    BY <1>1, <1>2, GotoMoves DEF PCs
  <2>2. StageIsTrue(h)'
    BY <1>1, <2>1 DEF Moves, StageIsTrue, At
  <2> QED
    BY <1>1, <2>1, <2>2, StillStep DEF check_fraud
<1>3. CASE Finish(h, "blocked") \/ Finish(h, "review")
  <2>1. Moves(h, "save") /\ handler'[h].req = handler[h].req /\ StageIsTrue(h)'
    BY <1>3, FinishKeeps DEF check_fraud, At
  <2> QED
    BY <1>1, <2>1, StillStep DEF check_fraud
<1>4. Goto(h, "transact") \/ Finish(h, "blocked") \/ Finish(h, "review")
  BY DEF check_fraud
<1> QED
  BY <1>2, <1>3, <1>4

\* The transaction service accepting a request that its claim is bound to keeps
\* what KeyBindsRequest says of payments, and undoes nothing.
LEMMA AcceptKeeps ==
    ASSUME IInv, NEW req \in Requests, Record!Accept(req), claim[ClaimOf(req)].req = req,
           inflight' \subseteq inflight \cup {req}, untold' \subseteq Claims,
           UNCHANGED <<claims, receipt, recorded, ledgerQueue, analyticsQueue>>
    PROVE  Grows /\ DownstreamOK' /\ UnusedBindsNothing' /\ BoundDownstream'
<1>0. UNCHANGED <<claim, aged, overrun>>
  BY DEF claims
<1>1. DownstreamOK
  BY TypeParts DEF IInv
<1>2. /\ payment' \in [Keys -> RowType]
      /\ payment[req.key].status = "NONE"
      /\ payment'[req.key].status = "PENDING"
      /\ payment'[req.key].org = req.org
      /\ payment'[req.key].amount = req.amount
      /\ payment'[req.key].feeAmount = req.feeAmount
      /\ \A k \in Keys \ {req.key} : payment'[k] = payment[k]
  BY <1>1, AcceptRow DEF DownstreamOK
<1>3. Grows
  BY <1>0, <1>2 DEF Grows
<1>4. DownstreamOK'
  BY <1>1, <1>2, RequestFields DEF DownstreamOK
<1>5. UnusedBindsNothing'
  BY <1>0, <1>2, RequestFields DEF IInv, UnusedBindsNothing
<1>6. BoundDownstream'
  <2>1. BoundDownstream
    BY KeyParts DEF IInv
  <2>2. \A r \in inflight' : claim'[ClaimOf(r)].req = r
    BY <1>0, <2>1 DEF BoundDownstream
  <2>3. ASSUME NEW k \in Keys, payment'[k].status # "NONE"
        PROVE  /\ claim'[<<payment'[k].org, k>>].req # NoRequest
               /\ payment'[k].amount = claim'[<<payment'[k].org, k>>].req.amount
               /\ payment'[k].feeAmount = claim'[<<payment'[k].org, k>>].req.feeAmount
    <3>1. CASE k = req.key
      BY <1>0, <1>2, <3>1, RequestFields DEF ClaimOf
    <3>2. CASE k # req.key
      BY <1>0, <1>2, <2>1, <2>3, <3>2 DEF BoundDownstream
    <3> QED
      BY <3>1, <3>2
  <2> QED
    BY <2>2, <2>3 DEF BoundDownstream
<1> QED
  BY <1>3, <1>4, <1>5, <1>6

\* process_transaction keeps it, whether the request arrives or not.
LEMMA process_transactionKeeps ==
    ASSUME IInv, NEW h \in Handlers, process_transaction(h) PROVE IInv'
<1> DEFINE req == handler[h].req
<1>1. /\ handler \in [Handlers -> HandlerType] /\ handler[h].event # NoEvent /\ Busy(h)
      /\ At(h, "transact")
  BY TypeParts DEF IInv, process_transaction, StageIsTrue, At, Busy
<1>2. req \in Requests /\ claim[ClaimOf(req)].req = req /\ Mine(h) \in Claims
  BY <1>1, KeyParts, RequestFields DEF IInv, HasRequest, BoundHandlers, Mine
<1>3. /\ UNCHANGED <<claims, receipt, recorded, ledgerQueue, analyticsQueue>>
      /\ untold' \subseteq untold \cup {Mine(h)}
  BY DEF process_transaction
<1>0. untold' \subseteq Claims
  BY <1>2, <1>3 DEF IInv, TypeOK
<1>4. CASE /\ Record!Accept(req)
           /\ handler' = [handler EXCEPT ![h].pc = "waiting", ![h].first = TRUE]
           /\ UNCHANGED inflight
  <2>1. /\ Moves(h, "waiting") /\ handler'[h].req = handler[h].req
        /\ handler'[h].event = handler[h].event
    <3> DEFINE new == [handler[h] EXCEPT !.pc = "waiting", !.first = TRUE]
    <3>1. handler' = [handler EXCEPT ![h] = new]
      BY <1>4
    <3>2. /\ new \in HandlerType /\ new.pc = "waiting" /\ new.req = handler[h].req
          /\ new.event = handler[h].event
      BY <1>1 DEF HandlerType, PCs
    <3> HIDE DEF new
    <3> QED
      BY <1>1, <3>1, <3>2 DEF Moves
  <2>2. StageIsTrue(h)'
    BY <1>1, <2>1 DEF Moves, StageIsTrue, At
  <2>3. Grows /\ DownstreamOK' /\ UnusedBindsNothing' /\ BoundDownstream'
    BY <1>0, <1>2, <1>3, <1>4, AcceptKeeps
  <2> QED
    BY <1>1, <1>3, <2>1, <2>2, <2>3, QuietStep
<1>5. CASE Goto(h, "waiting") /\ UNCHANGED <<payment, inflight>>
  <2>1. /\ Moves(h, "waiting") /\ handler'[h].req = handler[h].req
        /\ handler'[h].event = handler[h].event
    BY <1>1, <1>5, GotoMoves DEF PCs
  <2>2. StageIsTrue(h)'
    BY <1>1, <2>1 DEF Moves, StageIsTrue, At
  <2> QED
    BY <1>1, <1>3, <1>5, <2>1, <2>2, LossyStep
<1>6. CASE inflight' = inflight \cup {req} /\ Finish(h, "failed") /\ UNCHANGED payment
  <2>1. Moves(h, "save") /\ handler'[h].req = handler[h].req /\ StageIsTrue(h)'
    BY <1>1, <1>6, FinishKeeps DEF At
  <2>2. UNCHANGED <<claim, overrun>>
    BY <1>3 DEF claims
  <2>3. Grows
    BY <1>3, <1>6, <2>2 DEF Grows
  <2>4. DownstreamOK'
    BY <1>0, <1>2, <1>3, <1>6, TypeParts DEF IInv, DownstreamOK
  <2>5. UnusedBindsNothing' /\ BoundDownstream'
    BY <1>2, <1>3, <1>6, <2>2, KeyParts DEF IInv, UnusedBindsNothing, BoundDownstream
  <2> QED
    BY <1>1, <1>3, <2>1, <2>3, <2>4, <2>5, QuietStep
<1> QED
  BY <1>4, <1>5, <1>6 DEF process_transaction

\* The answer of the transaction service, or its absence, keeps it.
LEMMA TransactionAnswersKeeps ==
    ASSUME IInv, NEW h \in Handlers, TransactionAnswers(h) \/ TransactionTimesOut(h)
    PROVE  IInv'
<1> DEFINE row == payment[handler[h].req.key]
<1>1. /\ handler \in [Handlers -> HandlerType] /\ handler[h].event # NoEvent /\ Busy(h)
      /\ At(h, "waiting")
  BY TypeParts DEF IInv, TransactionAnswers, TransactionTimesOut, StageIsTrue, At, Busy
<1>2. /\ UNCHANGED <<claims, receipt, payment, inflight, recorded, ledgerQueue, analyticsQueue>>
      /\ untold' \subseteq untold \cup {Mine(h)}
  BY DEF TransactionAnswers, TransactionTimesOut, downstream
<1>3. CASE Finish(h, "failed")
  <2>1. Moves(h, "save") /\ handler'[h].req = handler[h].req /\ StageIsTrue(h)'
    BY <1>1, <1>3, FinishKeeps DEF At
  <2> QED
    BY <1>1, <1>2, <2>1, LossyStep
<1>4. CASE row.org = handler[h].req.org /\ row.ledger = "set" /\ Named(h, "analytics")
  <2>1. /\ Moves(h, "analytics") /\ handler'[h].req = handler[h].req
        /\ handler'[h].event = handler[h].event
    BY <1>1, <1>4, NamedMoves DEF PCs
  <2>2. StageIsTrue(h)'
    BY <1>1, <1>2, <1>4, <2>1 DEF Moves, StageIsTrue, At
  <2> QED
    BY <1>1, <1>2, <2>1, <2>2, LossyStep
<1>5. CASE row.org = handler[h].req.org /\ Named(h, "reconcile")
  <2>1. /\ Moves(h, "reconcile") /\ handler'[h].req = handler[h].req
        /\ handler'[h].event = handler[h].event
    BY <1>1, <1>5, NamedMoves DEF PCs
  <2>2. StageIsTrue(h)'
    BY <1>1, <1>2, <1>5, <2>1 DEF Moves, StageIsTrue, At
  <2> QED
    BY <1>1, <1>2, <2>1, <2>2, LossyStep
<1>6. CASE TransactionTimesOut(h)
  BY <1>3, <1>6 DEF TransactionTimesOut
<1>7. CASE TransactionAnswers(h)
  <2>1. CASE row.org # handler[h].req.org \/ row.status = "FAILED"
    BY <1>3, <1>7, <2>1 DEF TransactionAnswers
  <2>2. CASE ~(row.org # handler[h].req.org \/ row.status = "FAILED") /\ row.ledger = "set"
    BY <1>4, <1>7, <2>2 DEF TransactionAnswers
  <2>3. CASE ~(row.org # handler[h].req.org \/ row.status = "FAILED") /\ row.ledger # "set"
    BY <1>5, <1>7, <2>3 DEF TransactionAnswers
  <2> QED
    BY <2>1, <2>2, <2>3
<1> QED
  BY <1>6, <1>7

\* Queueing a missing posting keeps it: the partial receipt will be honest.
LEMMA reconcileKeeps ==
    ASSUME IInv, NEW h \in Handlers, reconcile_missing_ledger(h) PROVE IInv'
<1>1. /\ handler \in [Handlers -> HandlerType] /\ handler[h].event # NoEvent /\ Busy(h)
      /\ At(h, "reconcile")
      /\ payment[handler[h].req.key].org = handler[h].req.org
  BY TypeParts DEF IInv, reconcile_missing_ledger, StageIsTrue, At, Busy
<1>2. /\ UNCHANGED <<claims, receipt, payment, inflight, recorded, analyticsQueue, untold>>
      /\ ledgerQueue' = ledgerQueue \cup {Mine(h)} /\ Finish(h, "partial")
  BY DEF reconcile_missing_ledger
<1>3. UNCHANGED <<claim, overrun>>
  BY <1>2 DEF claims
<1>4. handler[h].req \in Requests /\ Mine(h) \in Claims
      /\ Mine(h)[1] = handler[h].req.org /\ Mine(h)[2] = handler[h].req.key
  BY <1>1, RequestFields DEF IInv, HasRequest, Mine
<1>5. /\ Moves(h, "save") /\ handler'[h].req = handler[h].req
      /\ handler'[h].event = handler[h].event /\ handler'[h].status = "partial"
  BY <1>1, <1>2, FinishMoves DEF ReceiptStatuses
<1>6. Grows
  BY <1>2, <1>3 DEF Grows
<1>7. DownstreamOK'
  BY <1>2, <1>4, TypeParts DEF IInv, DownstreamOK
<1>8. UnusedBindsNothing' /\ BoundDownstream'
  BY <1>2, <1>3, SameDownstream
<1>9. Honest(Mine(h), handler[h].status)'
  BY <1>1, <1>2, <1>4, <1>5 DEF Honest, Mine
<1>10. StageIsTrue(h)'
  BY <1>1, <1>5, <1>9 DEF Moves, StageIsTrue, At, ReceiptStatuses
<1> QED
  BY <1>1, <1>2, <1>5, <1>6, <1>7, <1>8, <1>10, QuietStep

\* record_analytics keeps it: what is not recorded and answered is queued.
LEMMA record_analyticsKeeps ==
    ASSUME IInv, NEW h \in Handlers, record_analytics(h) PROVE IInv'
<1>1. /\ handler \in [Handlers -> HandlerType] /\ handler[h].event # NoEvent /\ Busy(h)
      /\ At(h, "analytics")
      /\ payment[handler[h].req.key].org = handler[h].req.org
      /\ payment[handler[h].req.key].ledger = "set"
  BY TypeParts DEF IInv, record_analytics, StageIsTrue, At, Busy
<1>2. UNCHANGED <<claims, receipt, payment, inflight, ledgerQueue, untold>>
  BY DEF record_analytics
<1>3. UNCHANGED <<claim, overrun>>
  BY <1>2 DEF claims
<1>4. handler[h].req \in Requests /\ Mine(h) \in Claims
      /\ Mine(h)[1] = handler[h].req.org /\ Mine(h)[2] = handler[h].req.key
  BY <1>1, RequestFields DEF IInv, HasRequest, Mine
<1>5. \/ /\ recorded' = recorded \cup {Mine(h)} /\ analyticsQueue' = analyticsQueue \ {Mine(h)}
         /\ Finish(h, "completed")
      \/ /\ recorded' \in {recorded, recorded \cup {Mine(h)}}
         /\ analyticsQueue' = analyticsQueue \cup {Mine(h)} /\ Finish(h, "partial")
  BY DEF record_analytics
<1>6. PICK status \in {"completed", "partial"} : Finish(h, status)
  BY <1>5
<1>7. /\ Moves(h, "save") /\ handler'[h].req = handler[h].req
      /\ handler'[h].event = handler[h].event
      /\ Finish(h, "completed") => handler'[h].status = "completed"
      /\ Finish(h, "partial") => handler'[h].status = "partial"
  BY <1>1, <1>6, FinishMoves DEF ReceiptStatuses
<1>8. Grows
  BY <1>2, <1>3, <1>5 DEF Grows
<1>9. DownstreamOK'
  BY <1>2, <1>4, <1>5, TypeParts DEF IInv, DownstreamOK
<1>10. UnusedBindsNothing' /\ BoundDownstream'
  BY <1>2, <1>3, SameDownstream
<1>11. Mine(h)' = Mine(h)
  BY <1>7 DEF Mine
<1>12. Honest(Mine(h), handler[h].status)'
  BY <1>1, <1>2, <1>4, <1>5, <1>7, <1>11 DEF Honest
<1>13. StageIsTrue(h)'
  BY <1>1, <1>5, <1>7, <1>12 DEF Moves, StageIsTrue, At, ReceiptStatuses
<1> QED
  BY <1>1, <1>2, <1>7, <1>8, <1>9, <1>10, <1>13, QuietStep

-----------------------------------------------------------------------------
\* A receipt that is there stays honest, and so does one that is saved honestly.
LEMMA TellsStays ==
    ASSUME IInv, Grows,
           \A c \in Claims : receipt'[c] = receipt[c] \/ Honest(c, receipt'[c].status)
    PROVE  DoneWorkIsTold'
<1> SUFFICES ASSUME NEW c \in Claims PROVE Honest(c, receipt[c].status)'
  BY DEF DoneWorkIsTold, Honest
<1>1. PICK status : status = receipt'[c].status
  OBVIOUS
<1>2. Honest(c, status)
  BY <1>1 DEF IInv, DoneWorkIsTold, Honest
<1>3. Honest(c, status)'
  BY <1>2, HonestStays
<1> QED
  BY <1>1, <1>3 DEF Honest

\* The handler h writes the row of the claim c, to begin its work or to end it:
\* it keeps the invariant if the row keeps its request, no other handler holds
\* the claim, and a COMPLETED row names the receipt.
LEMMA ClaimStep ==
    ASSUME IInv, NEW h \in Handlers, NEW c \in Claims, NEW pc \in {"idle", "credentials"},
           Moves(h, pc), claim' \in [Claims -> ClaimType],
           \A d \in Claims \ {c} : claim'[d] = claim[d],
           aged' = aged \ {c}, UNCHANGED <<overrun, receipt, downstream>>,
           claim'[c].status # "NONE",
           claim[c].status # "NONE" => claim'[c].req = claim[c].req,
           claim'[c].status = "COMPLETED" =>
             claim'[c].event # NoEvent /\ receipt[c].event = claim'[c].event,
           \A g \in Handlers \ {h} : Busy(g) /\ Mine(g) = c => c \in overrun,
           pc = "credentials" =>
             /\ handler'[h].req \in Requests /\ ClaimOf(handler'[h].req) = c
             /\ claim'[c].req = handler'[h].req /\ claim'[c].status = "PROCESSING"
    PROVE  IInv'
<1>0. UNCHANGED <<payment, inflight, recorded, ledgerQueue, analyticsQueue, untold>>
  BY DEF downstream
<1>1. TablesOK /\ DownstreamOK
  BY TypeParts DEF IInv
<1>2. TypeOK'
  <2>1. TablesOK' /\ DownstreamOK'
    BY <1>0, <1>1 DEF TablesOK, DownstreamOK
  <2> QED
    BY <2>1 DEF Moves, TypeOK, TablesOK, DownstreamOK, ClaimType, ReceiptType, RowType,
       HandlerType, PCs
<1>3. Grows
  BY <1>0 DEF Grows
<1>4. \A g \in Handlers : Busy(g)' =>
        \/ g # h /\ Busy(g) /\ handler'[g] = handler[g] /\ Mine(g)' = Mine(g)
        \/ g = h /\ pc = "credentials" /\ Mine(g)' = c
  BY DEF Moves, Busy, At, Mine
<1>5. HasRequest'
  BY <1>4 DEF IInv, HasRequest
<1>6. UnusedBindsNothing'
  BY <1>0 DEF IInv, UnusedBindsNothing
<1>7. HolderIsProcessing'
  <2> SUFFICES ASSUME NEW g \in Handlers, Busy(g)', Mine(g)' \notin overrun
               PROVE  claim'[Mine(g)'].status = "PROCESSING" /\ Mine(g)' \notin aged'
    BY DEF HolderIsProcessing
  <2>1. CASE g = h
    BY <1>4, <2>1
  <2>2. CASE g # h
    <3>1. Busy(g) /\ Mine(g)' = Mine(g) /\ Mine(g) # c /\ Mine(g) \in Claims
      BY <1>4, <2>2, InsertedClaims
    <3> QED
      BY <3>1 DEF IInv, HolderIsProcessing
  <2> QED
    BY <2>1, <2>2
<1>8. BoundHandlers'
  <2> SUFFICES ASSUME NEW g \in Handlers, Busy(g)'
               PROVE  claim'[Mine(g)'].req = handler'[g].req
    BY DEF BoundHandlers
  <2>1. CASE g = h
    BY <1>4, <2>1
  <2>2. CASE g # h
    <3>1. /\ Busy(g) /\ Mine(g)' = Mine(g) /\ handler'[g] = handler[g]
          /\ Mine(g) \in Claims /\ claim[Mine(g)].status # "NONE"
      BY <1>4, <2>2, InsertedClaims
    <3>2. claim'[Mine(g)].req = claim[Mine(g)].req
      BY <1>3, <3>1 DEF Grows
    <3> QED
      BY <3>1, <3>2, KeyParts DEF IInv, BoundHandlers
  <2> QED
    BY <2>1, <2>2
<1>9. BoundDownstream'
  <2>1. BoundDownstream
    BY KeyParts DEF IInv
  <2>2. ASSUME NEW req \in inflight PROVE claim'[ClaimOf(req)].req = req
    <3>1. req \in Requests /\ claim[ClaimOf(req)].status # "NONE"
      BY <1>1, InsertedClaims DEF DownstreamOK
    <3>2. claim'[ClaimOf(req)].req = claim[ClaimOf(req)].req
      BY <1>3, <3>1, RequestFields DEF Grows
    <3> QED
      BY <2>1, <3>2 DEF BoundDownstream
  <2>3. ASSUME NEW k \in Keys, payment[k].status # "NONE"
        PROVE  claim'[<<payment[k].org, k>>].req = claim[<<payment[k].org, k>>].req
    BY <1>3, <2>3, PaidUnderClaim DEF Grows
  <2> QED
    BY <1>0, <2>1, <2>2, <2>3 DEF BoundDownstream
<1>10. BoundReceipts'
  <2> SUFFICES ASSUME NEW d \in Claims, receipt[d] # NoReceipt
               PROVE  claim'[d].req = receipt[d].req
    BY DEF BoundReceipts
  <2>1. claim[d].status # "NONE" /\ claim[d].req = receipt[d].req
    BY KeyParts DEF IInv, UnusedBindsNothing, BoundReceipts
  <2> QED
    BY <1>3, <2>1 DEF Grows
<1>11. OneWinner'
  <2> SUFFICES ASSUME NEW f \in Handlers, NEW g \in Handlers, Busy(f)', Busy(g)',
                      Mine(f)' = Mine(g)', f # g
               PROVE  Mine(f)' \in overrun
    BY DEF OneWinner
  <2> QED
    BY <1>4, KeyParts DEF IInv, OneWinner
<1>12. KeyBindsRequest'
  BY <1>8, <1>9, <1>10, <1>11
     DEF KeyBindsRequest, BoundHandlers, BoundDownstream, BoundReceipts, OneWinner, Busy
<1>13. CompletedHasReceipt'
  BY DEF IInv, CompletedHasReceipt
<1>14. DoneWorkIsTold'
  BY <1>3, TellsStays
<1>15. ASSUME NEW g \in Handlers PROVE StageIsTrue(g)'
  <2>1. CASE g = h
    BY <2>1 DEF Moves, StageIsTrue, At
  <2>2. CASE g # h
    BY <1>3, <2>2, StageStays DEF Moves
  <2> QED
    BY <2>1, <2>2
<1> QED
  BY <1>2, <1>5, <1>6, <1>7, <1>12, <1>13, <1>14, <1>15 DEF IInv

\* claim_idempotency writes the row and the handler begins.
LEMMA StartMoves ==
    ASSUME IInv, NEW h \in Handlers, NEW req \in Requests, NEW event \in EventIds \cup {NoEvent},
           Start(h, req, event)
    PROVE  /\ Moves(h, "credentials") /\ handler'[h].req = req /\ handler'[h].named = FALSE
           /\ claim' \in [Claims -> ClaimType]
           /\ \A d \in Claims \ {ClaimOf(req)} : claim'[d] = claim[d]
           /\ claim'[ClaimOf(req)].status = "PROCESSING" /\ claim'[ClaimOf(req)].req = req
<1>1. TablesOK /\ handler \in [Handlers -> HandlerType]
  BY TypeParts DEF IInv
<1> DEFINE started == [Idle EXCEPT !.pc = "credentials", !.req = req]
<1>2. Idle \in HandlerType /\ Idle.named = FALSE
  BY DEF Idle, HandlerType, PCs
<1>3. /\ started \in HandlerType /\ started.pc = "credentials" /\ started.req = req
      /\ started.named = FALSE
  BY <1>2, RequestFields DEF HandlerType, PCs
<1>4. handler' = [handler EXCEPT ![h] = started]
  BY DEF Start
<1> HIDE DEF started
<1>5. Moves(h, "credentials") /\ handler'[h].req = req /\ handler'[h].named = FALSE
  BY <1>1, <1>3, <1>4 DEF Moves
<1>6. [status |-> "PROCESSING", req |-> req, event |-> event] \in ClaimType
  BY RequestFields DEF ClaimType
<1> QED
  BY <1>1, <1>5, <1>6, RequestFields DEF Start, TablesOK

\* A new claim and a reclaimed one keep the invariant: no handler holds the
\* claim, unless one outlived it.
LEMMA ClaimKeeps ==
    ASSUME IInv, NEW h \in Handlers, NEW req \in Requests,
           ClaimNew(h, req) \/ ClaimAgain(h, req)
    PROVE  IInv'
<1> DEFINE c == ClaimOf(req)
<1>0. c \in Claims
  BY RequestFields
<1>1. PICK event \in EventIds \cup {NoEvent} : Start(h, req, event)
  <2>1. claim[c].event \in EventIds \cup {NoEvent}
    BY <1>0 DEF IInv, TypeOK
  <2> QED
    BY <2>1 DEF ClaimNew, ClaimAgain
<1>2. /\ Moves(h, "credentials") /\ handler'[h].req = req
      /\ claim' \in [Claims -> ClaimType]
      /\ \A d \in Claims \ {c} : claim'[d] = claim[d]
      /\ claim'[c].status = "PROCESSING" /\ claim'[c].req = req
  BY <1>1, StartMoves
<1>3. aged' = aged \ {c} /\ UNCHANGED <<overrun, receipt, downstream>>
  BY <1>1 DEF Start, ClaimNew, ClaimAgain
<1>4. claim[c].status # "NONE" => claim'[c].req = claim[c].req
  BY <1>2 DEF ClaimNew, ClaimAgain
<1>5. ASSUME NEW g \in Handlers \ {h}, Busy(g), Mine(g) = c PROVE c \in overrun
  <2>1. claim[c].status # "NONE"
    BY <1>5, InsertedClaims
  <2>2. ~(claim[c].status = "PROCESSING" /\ c \notin aged)
    BY <2>1 DEF ClaimNew, ClaimAgain
  <2> QED
    BY <1>5, <2>2 DEF IInv, HolderIsProcessing
<1> QED
  BY <1>0, <1>2, <1>3, <1>4, <1>5, ClaimStep

\* The handler's last write keeps it: a completed row names the saved receipt.
LEMMA EndKeeps ==
    ASSUME IInv, NEW h \in Handlers, complete_idempotency(h) \/ fail_idempotency(h)
    PROVE  IInv'
<1> DEFINE c == Mine(h)
<1>1. TablesOK /\ handler \in [Handlers -> HandlerType]
  BY TypeParts DEF IInv
<1>2. Busy(h) /\ Moves(h, "idle")
  BY <1>1, ReturnMoves DEF complete_idempotency, fail_idempotency, Busy, At
<1>3. c \in Claims /\ claim[c].status # "NONE"
  BY <1>2, InsertedClaims
<1>4. aged' = aged \ {c} /\ UNCHANGED <<overrun, receipt, downstream>>
  BY DEF complete_idempotency, fail_idempotency
<1>5. /\ claim' \in [Claims -> ClaimType]
      /\ \A d \in Claims \ {c} : claim'[d] = claim[d]
      /\ claim'[c].req = claim[c].req
      /\ \/ claim'[c].status = "FAILED"
         \/ /\ claim'[c].status = "COMPLETED"
            /\ claim'[c].event = handler[h].event /\ At(h, "complete")
  <2>1. handler[h].event \in EventIds \cup {NoEvent}
    BY <1>1 DEF HandlerType
  <2>2. CASE complete_idempotency(h)
    BY <1>1, <1>3, <2>1, <2>2 DEF complete_idempotency, TablesOK, ClaimType
  <2>3. CASE fail_idempotency(h)
    BY <1>1, <1>3, <2>3 DEF fail_idempotency, TablesOK, ClaimType
  <2> QED
    BY <2>2, <2>3
<1>6. claim'[c].status = "COMPLETED" =>
        claim'[c].event # NoEvent /\ receipt[c].event = claim'[c].event
  BY <1>5 DEF IInv, StageIsTrue, At
<1>7. \A g \in Handlers \ {h} : Busy(g) /\ Mine(g) = c => c \in overrun
  BY <1>2, KeyParts DEF IInv, OneWinner
<1>8. claim'[c].status # "NONE"
  BY <1>5
<1> QED
  BY <1>2, <1>3, <1>4, <1>5, <1>6, <1>7, <1>8, ClaimStep

\* save_receipt keeps it: the first receipt of a claim is saved, another one fails.
LEMMA save_receiptKeeps ==
    ASSUME IInv, NEW h \in Handlers, save_receipt(h) PROVE IInv'
<1> DEFINE c == Mine(h)
<1>1. /\ TablesOK /\ DownstreamOK /\ handler \in [Handlers -> HandlerType]
      /\ At(h, "save") /\ Busy(h) /\ handler[h].event # NoEvent
  BY TypeParts DEF IInv, save_receipt, StageIsTrue, At, Busy
<1>2. c \in Claims /\ claim[c].status # "NONE" /\ handler[h].req \in Requests
  BY <1>1, InsertedClaims DEF IInv, HasRequest
<1>3. CASE receipt[c] # NoReceipt
  <2>1. Moves(h, "fail") /\ handler'[h].req = handler[h].req
    BY <1>1, <1>3, FailMoves DEF save_receipt
  <2>2. StageIsTrue(h)'
    BY <2>1 DEF Moves, StageIsTrue, At
  <2> QED
    BY <1>1, <1>3, <2>1, <2>2, StillStep DEF save_receipt
<1>4. CASE receipt[c] = NoReceipt
  <2> DEFINE saved == [event |-> handler[h].event, req |-> handler[h].req,
                       status |-> handler[h].status, named |-> handler[h].named]
  <2>1. /\ receipt' = [receipt EXCEPT ![c] = saved] /\ Goto(h, "complete")
        /\ UNCHANGED <<claims, downstream>>
    BY <1>4 DEF save_receipt
  <2>2. UNCHANGED <<claim, aged, overrun, payment, inflight, recorded, ledgerQueue,
                    analyticsQueue, untold>>
    BY <2>1 DEF claims, downstream
  <2>3. /\ Moves(h, "complete") /\ handler'[h].req = handler[h].req
        /\ handler'[h].event = handler[h].event
    BY <1>1, <2>1, GotoMoves DEF PCs
  <2>4. handler[h].status \in ReceiptStatuses /\ Honest(c, handler[h].status)
    BY <1>1 DEF IInv, StageIsTrue
  <2>5. saved \in ReceiptType /\ saved # NoReceipt
    BY <1>1, <1>2, <2>4, RequestFields DEF ReceiptType, HandlerType, NoReceipt
  <2>6. /\ receipt' \in [Claims -> ReceiptType] /\ receipt'[c] = saved
        /\ \A d \in Claims \ {c} : receipt'[d] = receipt[d]
    BY <1>1, <1>2, <2>1, <2>5 DEF TablesOK
  <2>7. Grows
    BY <1>4, <2>2, <2>6 DEF Grows
  <2>8. TypeOK'
    <3>1. TablesOK' /\ DownstreamOK'
      BY <1>1, <2>2, <2>6 DEF TablesOK, DownstreamOK
    <3> QED
      BY <2>3, <3>1 DEF Moves, TypeOK, TablesOK, DownstreamOK, ClaimType, ReceiptType, RowType,
         HandlerType, PCs
  <2>9. \A g \in Handlers : Busy(g)' =>
          Busy(g) /\ handler'[g].req = handler[g].req /\ Mine(g)' = Mine(g)
    BY <1>1, <2>3 DEF Moves, Busy, At, Mine
  <2>10. HasRequest' /\ HolderIsProcessing'
    BY <2>2, <2>9 DEF IInv, HasRequest, HolderIsProcessing
  <2>11. UnusedBindsNothing'
    BY <1>2, <2>2, <2>6 DEF IInv, UnusedBindsNothing
  <2>12. BoundHandlers' /\ BoundDownstream' /\ OneWinner'
    BY <2>2, <2>9, KeyParts DEF IInv, BoundHandlers, BoundDownstream, OneWinner
  <2>13. BoundReceipts'
    BY <1>1, <2>2, <2>6, KeyParts DEF IInv, BoundHandlers, BoundReceipts
  <2>14. KeyBindsRequest'
    BY <2>12, <2>13
       DEF KeyBindsRequest, BoundHandlers, BoundDownstream, BoundReceipts, OneWinner, Busy
  <2>15. CompletedHasReceipt'
    BY <1>4, <2>2, <2>6 DEF IInv, CompletedHasReceipt, NoReceipt
  <2>16. DoneWorkIsTold'
    BY <2>4, <2>6, <2>7, TellsStays
  <2>17. ASSUME NEW g \in Handlers PROVE StageIsTrue(g)'
    <3>1. CASE g = h
      <4>1. Mine(h)' = c /\ receipt'[c].event = handler[h].event
        BY <2>3, <2>6 DEF Mine
      <4> QED
        BY <1>1, <2>3, <3>1, <4>1 DEF Moves, StageIsTrue, At
    <3>2. CASE g # h
      BY <2>3, <2>7, <3>2, StageStays DEF Moves
    <3> QED
      BY <3>1, <3>2
  <2> QED
    BY <2>8, <2>10, <2>11, <2>14, <2>15, <2>16, <2>17 DEF IInv
<1> QED
  BY <1>3, <1>4

-----------------------------------------------------------------------------
\* A step of the clock or of the transaction service keeps the invariant if it
\* leaves the gateway's tables and handlers alone and undoes nothing.
LEMMA OutsideStep ==
    ASSUME IInv, Grows, UNCHANGED <<claim, receipt, handler>>, TypeOK',
           UnusedBindsNothing', BoundDownstream', HolderIsProcessing'
    PROVE  IInv'
<1>1. \A g \in Handlers : (Busy(g)' <=> Busy(g)) /\ Mine(g)' = Mine(g)
  BY DEF Busy, At, Mine
<1>2. HasRequest'
  BY <1>1 DEF IInv, HasRequest
<1>3. BoundHandlers' /\ BoundReceipts' /\ OneWinner'
  BY <1>1, KeyParts DEF IInv, BoundHandlers, BoundReceipts, OneWinner, Grows
<1>4. KeyBindsRequest'
  BY <1>3 DEF KeyBindsRequest, BoundHandlers, BoundDownstream, BoundReceipts, OneWinner, Busy
<1>5. CompletedHasReceipt'
  BY DEF IInv, CompletedHasReceipt
<1>6. DoneWorkIsTold'
  BY TellsStays
<1>7. \A g \in Handlers : StageIsTrue(g)'
  BY StageStays
<1> QED
  BY <1>2, <1>4, <1>5, <1>6, <1>7 DEF IInv

\* reclaim_after_seconds pass: a handler that is still at work has overrun.
LEMMA AgeKeeps ==
    ASSUME IInv, NEW c \in Claims, Age(c) PROVE IInv'
<1>1. UNCHANGED <<claim, receipt, handler, payment, inflight, recorded, ledgerQueue,
                  analyticsQueue, untold>>
  BY DEF Age, downstream
<1>2. /\ aged' = aged \cup {c} /\ overrun \subseteq overrun' /\ overrun' \subseteq overrun \cup {c}
      /\ \A h \in Handlers : Busy(h) /\ Mine(h) = c => c \in overrun'
  BY DEF Age, Busy
<1>3. Grows
  BY <1>1, <1>2 DEF Grows
<1>4. TypeOK'
  BY <1>1, <1>2 DEF IInv, TypeOK
<1>5. UnusedBindsNothing' /\ BoundDownstream'
  BY <1>1, SameDownstream
<1>6. \A g \in Handlers : (Busy(g)' <=> Busy(g)) /\ Mine(g)' = Mine(g)
  BY <1>1 DEF Busy, At, Mine
<1>7. HolderIsProcessing'
  BY <1>1, <1>2, <1>6 DEF IInv, HolderIsProcessing
<1> QED
  BY <1>1, <1>3, <1>4, <1>5, <1>7, OutsideStep

\* The transaction service takes a late request or works on a payment.
LEMMA ServiceKeeps ==
    ASSUME IInv, \/ \E req \in Requests : LateArrival(req)
                 \/ \E k \in Keys : TransactionService(k)
    PROVE  IInv'
<1>0. TablesOK /\ DownstreamOK /\ handler \in [Handlers -> HandlerType]
  BY TypeParts DEF IInv
<1>1. /\ UNCHANGED <<claims, receipt, recorded, ledgerQueue, analyticsQueue, untold, handler>>
      /\ UNCHANGED <<claim, aged, overrun>>
  BY DEF LateArrival, TransactionService, claims
<1>2. Grows /\ DownstreamOK' /\ UnusedBindsNothing' /\ BoundDownstream'
  <2>1. ASSUME NEW req \in Requests, LateArrival(req), Record!Accept(req)
        PROVE  Grows /\ DownstreamOK' /\ UnusedBindsNothing' /\ BoundDownstream'
    <3>1. claim[ClaimOf(req)].req = req
      BY <2>1, KeyParts DEF IInv, LateArrival, BoundDownstream
    <3>2. inflight' \subseteq inflight \cup {req} /\ untold' \subseteq Claims
      BY <1>0, <1>1, <2>1 DEF LateArrival, DownstreamOK
    <3> QED
      BY <1>1, <2>1, <3>1, <3>2, AcceptKeeps
  <2>2. ASSUME NEW req \in Requests, LateArrival(req), payment' = payment
        PROVE  Grows /\ DownstreamOK' /\ UnusedBindsNothing' /\ BoundDownstream'
    <3>1. inflight' \subseteq inflight
      BY <2>2 DEF LateArrival
    <3> QED
      BY <1>0, <1>1, <2>2, <3>1, KeyParts
         DEF IInv, Grows, DownstreamOK, UnusedBindsNothing, BoundDownstream
  <2>3. ASSUME NEW k \in Keys, TransactionService(k)
        PROVE  Grows /\ DownstreamOK' /\ UnusedBindsNothing' /\ BoundDownstream'
    <3>1. inflight' = inflight /\ (Record!Decide(k) \/ Record!Link(k))
      BY <2>3 DEF TransactionService
    <3>2. /\ payment' \in [Keys -> RowType]
          /\ payment[k].status # "NONE" /\ payment'[k].status # "NONE"
          /\ payment'[k].org = payment[k].org
          /\ payment'[k].amount = payment[k].amount
          /\ payment'[k].feeAmount = payment[k].feeAmount
          /\ payment[k].ledger = "set" => payment'[k].ledger = "set"
          /\ \A j \in Keys \ {k} : payment'[j] = payment[j]
      BY <1>0, <3>1, ServiceRow DEF DownstreamOK
    <3>3. Grows /\ DownstreamOK'
      BY <1>0, <1>1, <3>1, <3>2 DEF Grows, DownstreamOK
    <3>4. UnusedBindsNothing' /\ BoundDownstream'
      BY <1>1, <3>1, <3>2, KeyParts DEF IInv, UnusedBindsNothing, BoundDownstream
    <3> QED
      BY <3>3, <3>4
  <2>4. \A req \in Requests : LateArrival(req) => Record!Accept(req) \/ payment' = payment
    BY DEF LateArrival
  <2> QED
    BY <2>1, <2>2, <2>3, <2>4
<1>3. TypeOK'
  <2>1. TablesOK'
    BY <1>0, <1>1 DEF TablesOK
  <2> QED
    BY <1>0, <1>1, <1>2, <2>1 DEF TypeOK, TablesOK, DownstreamOK, ClaimType, ReceiptType,
       RowType, HandlerType, PCs
<1>4. HolderIsProcessing'
  BY <1>1 DEF IInv, HolderIsProcessing, Busy, At, Mine
<1> QED
  BY <1>1, <1>2, <1>3, <1>4, OutsideStep

-----------------------------------------------------------------------------
\* The initial states satisfy the invariant.
LEMMA InitIInv == Init => IInv
<1> SUFFICES ASSUME Init PROVE IInv
  OBVIOUS
<1>1. NoClaim \in ClaimType /\ NoReceipt \in ReceiptType /\ Idle \in HandlerType
  BY DEF NoClaim, NoReceipt, Idle, ClaimType, ReceiptType, HandlerType, PCs
<1>2. payment = [k \in Keys |-> Record!NoRow] /\ Record!NoRow \in RowType
  BY DEF Init, Record!Init, Record!NoRow, RowType
<1>3. TypeOK
  <2>1. TablesOK /\ DownstreamOK /\ handler \in [Handlers -> HandlerType]
    BY <1>1, <1>2 DEF Init, TablesOK, DownstreamOK
  <2> QED
    BY <2>1, TypeParts
<1>4. \A h \in Handlers : handler[h].pc = "idle"
  BY DEF Init, Idle
<1>5. \A k \in Keys : payment[k].status = "NONE" /\ payment[k].org = NoOrg
  BY <1>2 DEF Record!NoRow
<1>6. /\ \A c \in Claims : claim[c].status = "NONE" /\ claim[c].req = NoRequest
      /\ \A c \in Claims : receipt[c] = NoReceipt /\ receipt[c].status = "NONE"
      /\ inflight = {}
  BY DEF Init, NoClaim, NoReceipt
<1>7. HasRequest /\ HolderIsProcessing /\ \A h \in Handlers : StageIsTrue(h)
  BY <1>4 DEF HasRequest, HolderIsProcessing, StageIsTrue, Busy, At
<1>8. UnusedBindsNothing /\ CompletedHasReceipt /\ DoneWorkIsTold
  BY <1>5, <1>6 DEF UnusedBindsNothing, CompletedHasReceipt, DoneWorkIsTold
<1>9. KeyBindsRequest
  BY <1>4, <1>5, <1>6 DEF KeyBindsRequest, At
<1> QED
  BY <1>3, <1>7, <1>8, <1>9 DEF IInv

\* Every step of the gateway and of the services around it keeps the invariant.
LEMMA NextIInv == IInv /\ [Next]_vars => IInv'
<1> SUFFICES ASSUME IInv, [Next]_vars PROVE IInv'
  OBVIOUS
<1>1. CASE UNCHANGED vars
  <2>1. UNCHANGED <<claim, aged, overrun, receipt, payment, inflight, recorded, ledgerQueue,
                    analyticsQueue, untold, handler>>
    BY <1>1 DEF vars
  <2>2. Grows /\ TypeOK'
    BY <2>1 DEF IInv, Grows, TypeOK
  <2>3. HolderIsProcessing'
    BY <2>1 DEF IInv, HolderIsProcessing, Busy, At, Mine
  <2> QED
    BY <2>1, <2>2, <2>3, SameDownstream, OutsideStep
<1>2. ASSUME NEW h \in Handlers, NEW req \in Requests, process_payment(h, req) PROVE IInv'
  BY <1>1, <1>2, ClaimKeeps DEF process_payment, AnswerFromRow
<1>3. ASSUME NEW h \in Handlers, Work(h) \/ Die(h) PROVE IInv'
  BY <1>3, PrepareEventKeeps, RaiseKeeps, CaughtKeeps, check_fraudKeeps, process_transactionKeeps,
     TransactionAnswersKeeps, reconcileKeeps, record_analyticsKeeps, save_receiptKeeps,
     EndKeeps DEF Work
<1>4. ASSUME NEW c \in Claims, Age(c) PROVE IInv'
  BY <1>4, AgeKeeps
<1> QED
  BY <1>1, <1>2, <1>3, <1>4, ServiceKeeps DEF Next

\* The inductive invariant holds in every reachable state.
THEOREM GatewayInvariant == Spec => []IInv
BY InitIInv, NextIInv, PTL DEF Spec

\* Every table and every handler of the gateway has its type.
THEOREM GatewayTypeCorrect == Spec => []TypeOK
<1>1. IInv => TypeOK
  BY DEF IInv
<1> QED
  BY <1>1, GatewayInvariant, PTL

\* "completed request is missing its receipt" never happens: a COMPLETED claim
\* names the saved receipt, also when handlers outlive their claims.
THEOREM CompletedClaimsHaveReceipts == Spec => []CompletedHasReceipt
<1>1. IInv => CompletedHasReceipt
  BY DEF IInv
<1> QED
  BY <1>1, GatewayInvariant, PTL

\* A key is bound to one request in the handlers, the receipts, the late calls
\* and the payments, and concurrent claims have one winner (claim_idempotency).
THEOREM KeysBindRequests == Spec => []KeyBindsRequest
<1>1. IInv => KeyBindsRequest
  BY DEF IInv
<1> QED
  BY <1>1, GatewayInvariant, PTL

\* No step replaces a receipt, and none takes back a completion unless a handler
\* outlived its claim.
LEMMA StepIsFinal ==
    ASSUME IInv, [Next]_vars, NEW c \in Claims
    PROVE  /\ receipt[c] # NoReceipt => receipt'[c] = receipt[c]
           /\ c \notin overrun /\ claim[c].status = "COMPLETED" => claim'[c] = claim[c]
<1>0. TablesOK
  BY TypeParts DEF IInv
<1>1. ASSUME NEW h \in Handlers, NEW req \in Requests, process_payment(h, req)
      PROVE  /\ receipt' = receipt
             /\ claim[c].status = "COMPLETED" => claim'[c] = claim[c]
  <2>1. CASE AnswerFromRow(h, req)
    BY <2>1 DEF AnswerFromRow, vars
  <2>2. CASE ClaimNew(h, req)
    BY <1>0, <2>2 DEF ClaimNew, Start, TablesOK
  <2>3. CASE ClaimAgain(h, req)
    BY <1>0, <2>3 DEF ClaimAgain, Start, TablesOK
  <2> QED
    BY <1>1, <2>1, <2>2, <2>3 DEF process_payment
<1>2. ASSUME NEW h \in Handlers, complete_idempotency(h) \/ fail_idempotency(h)
      PROVE  /\ receipt' = receipt
             /\ c \notin overrun /\ claim[c].status = "COMPLETED" => claim'[c] = claim[c]
  <2>1. Busy(h)
    BY <1>2 DEF complete_idempotency, fail_idempotency, Busy, At
  <2>2. Mine(h) \notin overrun => claim[Mine(h)].status = "PROCESSING"
    BY <2>1 DEF IInv, HolderIsProcessing
  <2> QED
    BY <1>0, <1>2, <2>2 DEF complete_idempotency, fail_idempotency, TablesOK
<1>3. ASSUME NEW h \in Handlers, save_receipt(h)
      PROVE  claim' = claim /\ (receipt[c] # NoReceipt => receipt'[c] = receipt[c])
  BY <1>0, <1>3 DEF save_receipt, TablesOK, claims
<1>4. ASSUME NEW h \in Handlers,
             \/ PrepareEvent(h) \/ Raise(h) \/ Caught(h) \/ check_fraud(h) \/ process_transaction(h)
             \/ TransactionAnswers(h) \/ TransactionTimesOut(h) \/ reconcile_missing_ledger(h)
             \/ record_analytics(h) \/ Die(h)
      PROVE  UNCHANGED <<claim, receipt>>
  BY <1>4 DEF PrepareEvent, Raise, Caught, check_fraud, process_transaction, TransactionAnswers,
     TransactionTimesOut, reconcile_missing_ledger, record_analytics, Die, claims
<1>5. CASE \/ \E d \in Claims : Age(d)
           \/ \E req \in Requests : LateArrival(req)
           \/ \E k \in Keys : TransactionService(k)
  BY <1>5 DEF Age, LateArrival, TransactionService, claims
<1>6. CASE UNCHANGED vars
  BY <1>6 DEF vars
<1> QED
  BY <1>1, <1>2, <1>3, <1>4, <1>5, <1>6 DEF Next, Work

\* What a merchant was told stays true: a saved receipt is never replaced, and
\* a completed request stays completed unless a handler outlived its claim.
THEOREM AnswersStayFinal == Spec => AnswersAreFinal
<1>1. IInv /\ [Next]_vars =>
        [\A c \in Claims :
           /\ receipt[c] # NoReceipt => receipt'[c] = receipt[c]
           /\ c \notin overrun /\ claim[c].status = "COMPLETED" => claim'[c] = claim[c]]_vars
  BY StepIsFinal
<1> QED
  BY <1>1, GatewayInvariant, PTL DEF Spec, AnswersAreFinal

-----------------------------------------------------------------------------
(* What failed, blocked and reviewed receipts do not hide. *)

\* A handler carries the answer to a payment, or is there to get it.
Carries(h) == At(h, "waiting") \/ handler[h].named

\* What a handler that carries an answer knows: no receipt was saved under its
\* claim yet, and the one it saves names the transaction.
CarriesTruly(h) ==
    /\ handler[h].named => /\ handler[h].pc \in {"reconcile", "analytics", "save", "complete"}
                           /\ payment[handler[h].req.key].org = handler[h].req.org
    /\ Carries(h) /\ ~At(h, "complete") /\ Mine(h) \notin untold \cup overrun =>
         receipt[Mine(h)] = NoReceipt
    /\ At(h, "complete") /\ handler[h].named => receipt[Mine(h)].named

NamesAreTrue == \A c \in Claims : receipt[c].named => payment[c[2]].org = c[1]
LateIsUntold == \A req \in inflight : ClaimOf(req) \in untold
LiveIsCarried ==
    \A c \in Claims : Live(c) /\ c \notin untold \cup overrun =>
        receipt[c].named \/ \E h \in Handlers : Carries(h) /\ Mine(h) = c

\* A live payment that is not told in a receipt is carried by a handler.
ToldInv ==
    /\ \A h \in Handlers : CarriesTruly(h)
    /\ NamesAreTrue
    /\ LateIsUntold
    /\ LiveIsCarried

\* Then no receipt hides a payment.
LEMMA ToldSuffices ==
    ASSUME IInv, ToldInv PROVE NoWorkIsHidden
<1> SUFFICES ASSUME NEW c \in Claims
             PROVE  /\ receipt[c].named => payment[c[2]].org = c[1]
                    /\ /\ receipt[c] # NoReceipt /\ ~receipt[c].named
                       /\ c \notin untold \cup overrun
                       => ~Live(c)
  BY DEF NoWorkIsHidden
<1>1. receipt[c].named => payment[c[2]].org = c[1]
  BY DEF ToldInv, NamesAreTrue
<1>2. ASSUME receipt[c] # NoReceipt, ~receipt[c].named, c \notin untold \cup overrun, Live(c)
      PROVE  FALSE
  <2>1. PICK h \in Handlers : Carries(h) /\ Mine(h) = c
    BY <1>2 DEF ToldInv, LiveIsCarried
  <2>2. At(h, "complete")
    BY <1>2, <2>1 DEF ToldInv, CarriesTruly
  <2>3. handler[h].named
    BY <2>1, <2>2 DEF Carries, At
  <2> QED
    BY <1>2, <2>1, <2>2, <2>3 DEF ToldInv, CarriesTruly
<1> QED
  BY <1>1, <1>2

\* A handler that does not move keeps what it knows, if no receipt is saved
\* under its claim.
LEMMA OthersCarry ==
    ASSUME IInv, ToldInv, Grows, untold \subseteq untold', NEW g \in Handlers,
           handler'[g] = handler[g],
           Busy(g) => receipt'[Mine(g)] = receipt[Mine(g)] \/ Mine(g) \in overrun
    PROVE  CarriesTruly(g)'
<1>1. CarriesTruly(g) /\ (Carries(g)' <=> Carries(g)) /\ Mine(g)' = Mine(g)
      /\ (At(g, "complete")' <=> At(g, "complete"))
  BY DEF ToldInv, Carries, At, Mine
<1>2. CASE ~Busy(g)
  BY <1>1, <1>2 DEF CarriesTruly, Carries, Busy, At
<1>3. CASE Busy(g)
  <2>1. handler[g].req \in Requests
    BY <1>3 DEF IInv, HasRequest
  <2>2. handler[g].req.key \in Keys /\ handler[g].req.org # NoOrg /\ Mine(g) \in Claims
    BY <2>1, RequestFields DEF Mine
  <2>3. payment[handler[g].req.key].org = handler[g].req.org =>
          payment'[handler[g].req.key].org = handler[g].req.org
    BY <2>2 DEF IInv, UnusedBindsNothing, Grows
  <2>4. /\ Mine(g) \notin overrun' => receipt'[Mine(g)] = receipt[Mine(g)]
        /\ receipt[Mine(g)].named => receipt'[Mine(g)].named
    BY <1>3, <2>2 DEF Grows, NoReceipt
  <2>5. overrun \subseteq overrun'
    BY DEF Grows
  <2> QED
    BY <1>1, <2>3, <2>4, <2>5 DEF CarriesTruly
<1> QED
  BY <1>2, <1>3

\* A receipt that names a transaction goes on doing so.
LEMMA NamesStay ==
    ASSUME IInv, ToldInv, Grows,
           \A c \in Claims : receipt'[c] = receipt[c] \/
                             (receipt'[c].named => payment[c[2]].org = c[1])
    PROVE  NamesAreTrue'
<1> SUFFICES ASSUME NEW c \in Claims, receipt'[c].named PROVE payment'[c[2]].org = c[1]
  BY DEF NamesAreTrue
<1>1. c[1] # NoOrg /\ c[2] \in Keys
  BY GatewayAssumption DEF Claims
<1>2. payment[c[2]].org = c[1]
  BY DEF ToldInv, NamesAreTrue
<1> QED
  BY <1>1, <1>2 DEF IInv, UnusedBindsNothing, Grows

\* A handler moves and no receipt is saved.
LEMMA CarryStep ==
    ASSUME IInv, ToldInv, Grows, NEW h \in Handlers,
           \A g \in Handlers \ {h} : handler'[g] = handler[g],
           receipt' = receipt, untold \subseteq untold', CarriesTruly(h)', LateIsUntold',
           \A c \in Claims : Live(c)' /\ ~Live(c) => Carries(h)' /\ Mine(h)' = c,
           Carries(h) => \/ Mine(h) \in untold' \cup overrun
                         \/ receipt[Mine(h)].named
                         \/ ~Live(Mine(h))
                         \/ Carries(h)' /\ Mine(h)' = Mine(h)
    PROVE  ToldInv'
<1>1. \A g \in Handlers : CarriesTruly(g)'
  BY OthersCarry
<1>2. NamesAreTrue'
  BY NamesStay
<1>3. LiveIsCarried'
  <2> SUFFICES ASSUME NEW c \in Claims, Live(c)', c \notin untold' \cup overrun', ~receipt[c].named
               PROVE  \E g \in Handlers : Carries(g)' /\ Mine(g)' = c
    BY DEF LiveIsCarried
  <2>1. CASE ~Live(c)
    BY <2>1
  <2>2. CASE Live(c)
    <3>1. PICK g \in Handlers : Carries(g) /\ Mine(g) = c
      BY <2>2 DEF ToldInv, LiveIsCarried, Grows
    <3>2. CASE g = h
      BY <2>2, <3>1, <3>2 DEF Grows
    <3>3. CASE g # h
      <4>1. Carries(g)' /\ Mine(g)' = c
        BY <3>1, <3>3 DEF Carries, At, Mine
      <4> QED
        BY <4>1
    <3> QED
      BY <3>2, <3>3
  <2> QED
    BY <2>1, <2>2
<1> QED
  BY <1>1, <1>2, <1>3 DEF ToldInv

\* No step undoes what was done.
LEMMA StepGrows ==
    ASSUME IInv, Next PROVE Grows
<1>0. TablesOK /\ DownstreamOK /\ \A c \in Claims : receipt[c] # NoReceipt => receipt'[c] = receipt[c]
  BY TypeParts, StepIsFinal DEF IInv
<1>1. \A k \in Keys : payment[k].status # "NONE" =>
        /\ payment'[k].status # "NONE" /\ payment'[k].org = payment[k].org
        /\ payment'[k].amount = payment[k].amount
        /\ payment'[k].feeAmount = payment[k].feeAmount
        /\ payment[k].ledger = "set" => payment'[k].ledger = "set"
  <2>1. CASE payment' = payment
    BY <2>1
  <2>2. ASSUME NEW req \in Requests, Record!Accept(req)
        PROVE  \A k \in Keys : payment[k].status # "NONE" => payment'[k] = payment[k]
    BY <1>0, <2>2, AcceptRow DEF DownstreamOK
  <2>3. ASSUME NEW j \in Keys, Record!Decide(j) \/ Record!Link(j)
        PROVE  \A k \in Keys :
                 /\ payment[k].status # "NONE" => payment'[k].status # "NONE"
                 /\ payment'[k].org = payment[k].org
                 /\ payment'[k].amount = payment[k].amount
                 /\ payment'[k].feeAmount = payment[k].feeAmount
                 /\ payment[k].ledger = "set" => payment'[k].ledger = "set"
    BY <1>0, <2>3, ServiceRow DEF DownstreamOK
  <2>4. \/ payment' = payment
        \/ \E req \in Requests : Record!Accept(req)
        \/ \E j \in Keys : Record!Decide(j) \/ Record!Link(j)
    <3>1. ASSUME NEW h \in Handlers, process_transaction(h)
          PROVE  payment' = payment \/ \E req \in Requests : Record!Accept(req)
      <4>1. handler[h].req \in Requests
        BY <3>1 DEF process_transaction, IInv, HasRequest, Busy, At
      <4> QED
        BY <3>1, <4>1 DEF process_transaction
    <3>2. ASSUME NEW h \in Handlers, Work(h) \/ Die(h), ~process_transaction(h)
          PROVE  payment' = payment
      BY <3>2 DEF Work, Die, PrepareEvent, Raise, Caught, check_fraud, TransactionAnswers,
         TransactionTimesOut, reconcile_missing_ledger, record_analytics, save_receipt,
         complete_idempotency, fail_idempotency, downstream
    <3>3. ASSUME NEW h \in Handlers, NEW req \in Requests, process_payment(h, req)
          PROVE  payment' = payment
      BY <3>3 DEF process_payment, ClaimNew, ClaimAgain, AnswerFromRow, downstream, vars
    <3>4. ASSUME NEW c \in Claims, Age(c) PROVE payment' = payment
      BY <3>4 DEF Age, downstream
    <3>5. ASSUME NEW req \in Requests, LateArrival(req)
          PROVE  payment' = payment \/ Record!Accept(req)
      BY <3>5 DEF LateArrival
    <3>6. ASSUME NEW k \in Keys, TransactionService(k) PROVE Record!Decide(k) \/ Record!Link(k)
      BY <3>6 DEF TransactionService
    <3> QED
      BY <3>1, <3>2, <3>3, <3>4, <3>5, <3>6 DEF Next
  <2> QED
    BY <2>1, <2>2, <2>3, <2>4
<1>2. /\ recorded \subseteq recorded' /\ ledgerQueue \subseteq ledgerQueue'
      /\ analyticsQueue \subseteq analyticsQueue' \cup recorded' /\ overrun \subseteq overrun'
      /\ untold \subseteq untold'
  <2>1. ASSUME NEW h \in Handlers, Work(h) \/ Die(h)
        PROVE  /\ recorded \subseteq recorded' /\ ledgerQueue \subseteq ledgerQueue'
               /\ analyticsQueue \subseteq analyticsQueue' \cup recorded' /\ overrun \subseteq overrun'
               /\ untold \subseteq untold'
    BY <2>1 DEF Work, Die, PrepareEvent, Raise, Caught, check_fraud, process_transaction,
       TransactionAnswers, TransactionTimesOut, reconcile_missing_ledger, record_analytics,
       save_receipt, complete_idempotency, fail_idempotency, downstream, claims
  <2>2. ASSUME NEW h \in Handlers, NEW req \in Requests, process_payment(h, req)
        PROVE  UNCHANGED <<recorded, ledgerQueue, analyticsQueue, overrun, untold>>
    BY <2>2 DEF process_payment, ClaimNew, ClaimAgain, AnswerFromRow, downstream, vars
  <2>3. ASSUME NEW c \in Claims, Age(c)
        PROVE  UNCHANGED <<recorded, ledgerQueue, analyticsQueue, untold>>
               /\ overrun \subseteq overrun'
    BY <2>3 DEF Age, downstream
  <2>4. ASSUME \/ \E req \in Requests : LateArrival(req)
               \/ \E k \in Keys : TransactionService(k)
        PROVE  UNCHANGED <<recorded, ledgerQueue, analyticsQueue, overrun, untold>>
    BY <2>4 DEF LateArrival, TransactionService, claims
  <2> QED
    BY <2>1, <2>2, <2>3, <2>4 DEF Next
<1>3. ASSUME NEW c \in Claims, claim[c].status # "NONE"
      PROVE  claim'[c].status # "NONE" /\ claim'[c].req = claim[c].req
  <2>1. claim \in [Claims -> ClaimType]
    BY <1>0 DEF TablesOK
  <2>2. ASSUME NEW h \in Handlers, Work(h) \/ Die(h)
        PROVE  claim'[c].status # "NONE" /\ claim'[c].req = claim[c].req
    <3>1. CASE complete_idempotency(h) \/ fail_idempotency(h)
      BY <1>3, <2>1, <3>1 DEF complete_idempotency, fail_idempotency, ClaimType
    <3>2. CASE ~(complete_idempotency(h) \/ fail_idempotency(h))
      <4>1. claim' = claim
        BY <2>2, <3>2 DEF Work, Die, PrepareEvent, Raise, Caught, check_fraud,
           process_transaction, TransactionAnswers, TransactionTimesOut,
           reconcile_missing_ledger, record_analytics, save_receipt, claims
      <4> QED
        BY <1>3, <4>1
    <3> QED
      BY <3>1, <3>2
  <2>3. ASSUME NEW h \in Handlers, NEW req \in Requests, process_payment(h, req)
        PROVE  claim'[c].status # "NONE" /\ claim'[c].req = claim[c].req
    BY <1>3, <2>1, <2>3 DEF process_payment, ClaimNew, ClaimAgain, Start, AnswerFromRow, vars,
       ClaimType
  <2>4. ASSUME \/ \E d \in Claims : Age(d)
               \/ \E req \in Requests : LateArrival(req)
               \/ \E k \in Keys : TransactionService(k)
        PROVE  claim' = claim
    BY <2>4 DEF Age, LateArrival, TransactionService, claims
  <2> QED
    BY <1>3, <2>2, <2>3, <2>4 DEF Next
<1> QED
  BY <1>0, <1>1, <1>2, <1>3 DEF Grows

\* A handler moves and changes neither a payment nor a receipt, nor what is late.
LEMMA CarryQuietly ==
    ASSUME IInv, ToldInv, Next, NEW h \in Handlers, NEW pc, Moves(h, pc),
           UNCHANGED <<payment, receipt, inflight>>, untold \subseteq untold', CarriesTruly(h)',
           Carries(h) => \/ Mine(h) \in untold' \cup overrun
                         \/ receipt[Mine(h)].named
                         \/ ~Live(Mine(h))
                         \/ Carries(h)' /\ Mine(h)' = Mine(h)
    PROVE  ToldInv'
<1>1. Grows
  BY StepGrows
<1>2. \A g \in Handlers \ {h} : handler'[g] = handler[g]
  BY DEF Moves
<1>3. LateIsUntold'
  BY DEF ToldInv, LateIsUntold
<1>4. \A c \in Claims : Live(c)' <=> Live(c)
  BY DEF Live
<1>5. receipt' = receipt
  OBVIOUS
<1> QED
  BY <1>1, <1>2, <1>3, <1>4, <1>5, CarryStep

\* A handler that carries nothing knows what it has to.
LEMMA EmptyHands ==
    ASSUME NEW h \in Handlers, NEW pc, Moves(h, pc), pc # "waiting", handler'[h].named = FALSE
    PROVE  CarriesTruly(h)'
BY DEF Moves, CarriesTruly, Carries, At

LEMMA ClaimTells ==
    ASSUME IInv, ToldInv, Next, NEW h \in Handlers, NEW req \in Requests, process_payment(h, req)
    PROVE  ToldInv'
<1>1. CASE AnswerFromRow(h, req)
  BY <1>1 DEF AnswerFromRow, vars, ToldInv, CarriesTruly, Carries, NamesAreTrue, LateIsUntold,
     LiveIsCarried, Live, Mine, At
<1>2. ASSUME NEW event \in EventIds \cup {NoEvent}, Start(h, req, event), At(h, "idle"),
             UNCHANGED <<receipt, downstream>>
      PROVE  ToldInv'
  <2>1. Moves(h, "credentials") /\ handler'[h].named = FALSE
    BY <1>2, StartMoves
  <2>2. ~Carries(h)
    BY <1>2 DEF ToldInv, CarriesTruly, Carries, At
  <2>3. UNCHANGED <<payment, receipt, inflight>> /\ untold' = untold
    BY <1>2 DEF downstream
  <2> QED
    BY <2>1, <2>2, <2>3, EmptyHands, CarryQuietly
<1>3. ClaimOf(req) \in Claims /\ claim \in [Claims -> ClaimType]
  BY RequestFields, TypeParts DEF IInv, TablesOK
<1>4. claim[ClaimOf(req)].event \in EventIds \cup {NoEvent}
  BY <1>3 DEF ClaimType
<1> QED
  BY <1>1, <1>2, <1>4 DEF process_payment, ClaimNew, ClaimAgain

LEMMA PrepareTells ==
    ASSUME IInv, ToldInv, Next, NEW h \in Handlers, PrepareEvent(h)
    PROVE  ToldInv'
<1>1. handler \in [Handlers -> HandlerType] /\ ~handler[h].named /\ handler[h].named \in BOOLEAN
      /\ ~Carries(h)
  BY TypeParts DEF PrepareEvent, ToldInv, CarriesTruly, Carries, At, IInv, HandlerType
<1>2. Moves(h, "fraud") /\ handler'[h].named = FALSE
  <2>1. PICK e \in EventIds : handler' = [handler EXCEPT ![h].pc = "fraud", ![h].event = e]
    BY DEF PrepareEvent
  <2> DEFINE new == [handler[h] EXCEPT !.pc = "fraud", !.event = e]
  <2>2. handler' = [handler EXCEPT ![h] = new]
    BY <2>1
  <2>3. new \in HandlerType /\ new.pc = "fraud" /\ new.named = FALSE
    BY <1>1 DEF HandlerType, PCs
  <2> HIDE DEF new
  <2> QED
    BY <1>1, <2>2, <2>3 DEF Moves
<1>3. UNCHANGED <<payment, receipt, inflight>> /\ untold' = untold
  BY DEF PrepareEvent, downstream
<1> QED
  BY <1>1, <1>2, <1>3, EmptyHands, CarryQuietly

\* A handler that ends with an exception or with the process.
LEMMA EndTells ==
    ASSUME IInv, ToldInv, Next, NEW h \in Handlers, Raise(h) \/ Die(h)
    PROVE  ToldInv'
<1>1. handler \in [Handlers -> HandlerType] /\ untold' = untold \cup Unheard(h)
      /\ UNCHANGED <<payment, receipt, inflight>>
  BY TypeParts DEF IInv, Raise, Die
<1>2. PICK pc : Moves(h, pc) /\ pc # "waiting" /\ handler'[h].named = FALSE
  BY <1>1, FailMoves, ReturnMoves DEF Raise, Die
<1>3. Carries(h) => Mine(h) \in untold' \/ receipt[Mine(h)].named
  <2>1. CASE At(h, "complete")
    BY <2>1 DEF ToldInv, CarriesTruly, Carries, At
  <2>2. CASE ~At(h, "complete")
    BY <1>1, <2>2 DEF Unheard, Carries
  <2> QED
    BY <2>1, <2>2
<1> QED
  BY <1>1, <1>2, <1>3, EmptyHands, CarryQuietly

\* A receipt is built from the event: the answer the handler has stays in it.
LEMMA FinishTells ==
    ASSUME IInv, ToldInv, Next, NEW h \in Handlers, NEW status \in ReceiptStatuses,
           Finish(h, status), ~At(h, "complete"), UNCHANGED <<payment, receipt, inflight, overrun>>,
           untold \subseteq untold', At(h, "waiting") => Mine(h) \in untold' \/ ~Live(Mine(h))
    PROVE  ToldInv'
<1>1. handler \in [Handlers -> HandlerType]
  BY TypeParts DEF IInv
<1>2. /\ Moves(h, "save") /\ handler'[h].req = handler[h].req
      /\ handler'[h].named = handler[h].named
  BY <1>1, FinishMoves
<1>3. CarriesTruly(h)'
  <2>1. handler'[h].pc = "save" /\ ~At(h, "waiting")' /\ Mine(h)' = Mine(h)
    BY <1>2 DEF Moves, At, Mine
  <2>2. CarriesTruly(h)
    BY DEF ToldInv
  <2> QED
    BY <1>2, <2>1, <2>2 DEF CarriesTruly, Carries, At
<1>4. Carries(h) => \/ Mine(h) \in untold' \/ ~Live(Mine(h))
                    \/ Carries(h)' /\ Mine(h)' = Mine(h)
  BY <1>2 DEF Carries, Mine
<1> QED
  BY <1>2, <1>3, <1>4, CarryQuietly

LEMMA CaughtTells ==
    ASSUME IInv, ToldInv, Next, NEW h \in Handlers,
           Caught(h) \/ check_fraud(h) \/ TransactionTimesOut(h)
             \/ reconcile_missing_ledger(h) \/ record_analytics(h)
    PROVE  ToldInv'
<1>1. CASE check_fraud(h)
  <2>1. At(h, "fraud") /\ ~handler[h].named /\ ~Carries(h)
    BY <1>1 DEF check_fraud, ToldInv, CarriesTruly, Carries, At
  <2>2. handler \in [Handlers -> HandlerType]
    BY TypeParts DEF IInv
  <2>3. UNCHANGED <<payment, receipt, inflight, overrun>> /\ untold' = untold
    BY <1>1 DEF check_fraud, downstream, claims
  <2>4. CASE Goto(h, "transact")
    <3>1. Moves(h, "transact") /\ handler'[h].named = FALSE
      BY <2>1, <2>2, <2>4, GotoMoves DEF PCs, HandlerType
    <3> QED
      BY <2>1, <2>3, <3>1, EmptyHands, CarryQuietly
  <2>5. CASE Finish(h, "blocked") \/ Finish(h, "review")
    BY <2>1, <2>3, <2>5, FinishTells DEF ReceiptStatuses, At
  <2> QED
    BY <1>1, <2>4, <2>5 DEF check_fraud
<1>2. CASE Caught(h) \/ TransactionTimesOut(h) \/ reconcile_missing_ledger(h)
  <2>1. \E status \in ReceiptStatuses : Finish(h, status)
    BY <1>2 DEF Caught, TransactionTimesOut, reconcile_missing_ledger, ReceiptStatuses
  <2>2. /\ ~At(h, "complete") /\ UNCHANGED <<payment, receipt, inflight, overrun>>
        /\ untold \subseteq untold' /\ (At(h, "waiting") => Mine(h) \in untold')
    BY <1>2 DEF Caught, TransactionTimesOut, reconcile_missing_ledger, At, claims
  <2> QED
    BY <2>1, <2>2, FinishTells
<1>3. CASE record_analytics(h)
  <2>1. \E status \in ReceiptStatuses : Finish(h, status)
    BY <1>3 DEF record_analytics, ReceiptStatuses
  <2>2. /\ ~At(h, "complete") /\ UNCHANGED <<payment, receipt, inflight, overrun>>
        /\ untold' = untold /\ ~At(h, "waiting")
    BY <1>3 DEF record_analytics, At, claims
  <2> QED
    BY <2>1, <2>2, FinishTells
<1> QED
  BY <1>1, <1>2, <1>3

LEMMA TransactTells ==
    ASSUME IInv, ToldInv, Next, NEW h \in Handlers, process_transaction(h)
    PROVE  ToldInv'
<1> DEFINE req == handler[h].req
<1>1. /\ At(h, "transact") /\ ~handler[h].named /\ ~Carries(h) /\ ~At(h, "complete")
      /\ ~At(h, "waiting")
  BY DEF process_transaction, ToldInv, CarriesTruly, Carries, At
<1>2. req \in Requests /\ handler \in [Handlers -> HandlerType] /\ payment \in [Keys -> RowType]
  BY <1>1, TypeParts DEF IInv, HasRequest, Busy, At, DownstreamOK
<1>3. Mine(h) \in Claims /\ Mine(h) = <<req.org, req.key>> /\ req.key \in Keys
  BY <1>2, RequestFields DEF Mine, ClaimOf
<1>4. UNCHANGED <<receipt, overrun>>
  BY DEF process_transaction, claims
<1>5. CASE /\ handler' = [handler EXCEPT ![h].pc = "waiting", ![h].first = TRUE]
               \/ Goto(h, "waiting")
           /\ untold' = untold \cup {c \in {Mine(h)} : receipt[c] # NoReceipt}
           /\ UNCHANGED inflight
           /\ Record!Accept(req) \/ UNCHANGED payment
  <2>1. Moves(h, "waiting") /\ handler'[h].req = req /\ handler'[h].named = FALSE
    <3>1. CASE handler' = [handler EXCEPT ![h].pc = "waiting", ![h].first = TRUE]
      <4> DEFINE new == [handler[h] EXCEPT !.pc = "waiting", !.first = TRUE]
      <4>1. handler' = [handler EXCEPT ![h] = new]
        BY <3>1
      <4>2. /\ new \in HandlerType /\ new.pc = "waiting" /\ new.named = FALSE
            /\ new.req = handler[h].req
        BY <1>1, <1>2 DEF HandlerType, PCs
      <4> HIDE DEF new
      <4> QED
        BY <1>2, <4>1, <4>2 DEF Moves
    <3>2. CASE Goto(h, "waiting")
      BY <1>1, <1>2, <3>2, GotoMoves DEF HandlerType, PCs
    <3> QED
      BY <1>5, <3>1, <3>2
  <2>2. Carries(h)' /\ Mine(h)' = Mine(h) /\ At(h, "waiting")' /\ ~At(h, "complete")'
    BY <2>1 DEF Moves, Carries, At, Mine
  <2>3. CarriesTruly(h)'
    <3>1. Mine(h) \notin untold' => receipt[Mine(h)] = NoReceipt
      BY <1>5
    <3> QED
      BY <1>4, <2>1, <2>2, <3>1 DEF CarriesTruly
  <2>4. \A c \in Claims : Live(c)' /\ ~Live(c) => c = Mine(h)
    <3>1. CASE UNCHANGED payment
      BY <3>1 DEF Live
    <3>2. CASE Record!Accept(req)
      <4>1. /\ payment'[req.key].org = req.org
            /\ \A k \in Keys \ {req.key} : payment'[k] = payment[k]
        BY <1>2, <3>2, AcceptRow
      <4> SUFFICES ASSUME NEW c \in Claims, Live(c)', ~Live(c) PROVE c = <<req.org, req.key>>
        BY <1>3
      <4>2. c[2] \in Keys /\ c = <<c[1], c[2]>> /\ payment'[c[2]].org = c[1]
        BY DEF Claims, Live
      <4>3. c[2] = req.key
        BY <4>1, <4>2 DEF Live
      <4> QED
        BY <4>1, <4>2, <4>3
    <3> QED
      BY <1>5, <3>1, <3>2
  <2>5. LateIsUntold' /\ untold \subseteq untold'
    BY <1>5 DEF ToldInv, LateIsUntold
  <2>6. Grows /\ \A g \in Handlers \ {h} : handler'[g] = handler[g]
    BY <2>1, StepGrows DEF Moves
  <2> QED
    BY <1>1, <1>4, <2>2, <2>3, <2>4, <2>5, <2>6, CarryStep
<1>6. CASE /\ inflight' = inflight \cup {req} /\ Finish(h, "failed")
           /\ untold' = untold \cup {Mine(h)} /\ UNCHANGED payment
  <2>1. Moves(h, "save") /\ handler'[h].named = FALSE
    BY <1>1, <1>2, <1>6, FinishMoves DEF ReceiptStatuses, HandlerType
  <2>2. LateIsUntold' /\ untold \subseteq untold'
    BY <1>6 DEF ToldInv, LateIsUntold, Mine
  <2>3. \A c \in Claims : Live(c)' <=> Live(c)
    BY <1>6 DEF Live
  <2>4. Grows /\ \A g \in Handlers \ {h} : handler'[g] = handler[g]
    BY <2>1, StepGrows DEF Moves
  <2>5. CarriesTruly(h)'
    BY <2>1, EmptyHands
  <2> QED
    BY <1>1, <1>4, <2>2, <2>3, <2>4, <2>5, CarryStep
<1> QED
  BY <1>5, <1>6 DEF process_transaction

LEMMA AnswersTell ==
    ASSUME IInv, ToldInv, Next, NEW h \in Handlers, TransactionAnswers(h)
    PROVE  ToldInv'
<1> DEFINE req == handler[h].req
<1>1. At(h, "waiting") /\ ~At(h, "complete") /\ Carries(h) /\ CarriesTruly(h)
  BY DEF TransactionAnswers, ToldInv, Carries, At
<1>2. req \in Requests /\ handler \in [Handlers -> HandlerType]
  BY <1>1, TypeParts DEF IInv, HasRequest, Busy, At
<1>3. Mine(h) = <<req.org, req.key>> /\ UNCHANGED <<payment, receipt, inflight, overrun>>
      /\ untold' = untold
  BY DEF Mine, ClaimOf, TransactionAnswers, downstream, claims
<1>4. CASE Finish(h, "failed") /\ (payment[req.key].org # req.org \/ payment[req.key].status = "FAILED")
  <2>1. ~Live(Mine(h))
    BY <1>3, <1>4 DEF Live
  <2> QED
    BY <1>1, <1>3, <1>4, <2>1, FinishTells DEF ReceiptStatuses
<1>5. ASSUME NEW pc \in {"analytics", "reconcile"}, Named(h, pc), payment[req.key].org = req.org
      PROVE  ToldInv'
  <2>1. Moves(h, pc) /\ handler'[h].req = req /\ handler'[h].named = TRUE
    BY <1>2, <1>5, NamedMoves DEF PCs
  <2>2. Carries(h)' /\ Mine(h)' = Mine(h) /\ ~At(h, "complete")' /\ handler'[h].pc = pc
    BY <2>1 DEF Carries, Mine, At, Moves
  <2>3. CarriesTruly(h)'
    BY <1>1, <1>3, <1>5, <2>1, <2>2 DEF CarriesTruly
  <2> QED
    BY <1>3, <2>1, <2>2, <2>3, CarryQuietly
<1> QED
  BY <1>4, <1>5 DEF TransactionAnswers

LEMMA SaveTells ==
    ASSUME IInv, ToldInv, Next, NEW h \in Handlers, save_receipt(h)
    PROVE  ToldInv'
<1> DEFINE mine == Mine(h)
<1>1. At(h, "save") /\ ~At(h, "complete") /\ ~At(h, "waiting") /\ Busy(h) /\ CarriesTruly(h)
  BY DEF save_receipt, ToldInv, Busy, At
<1>2. handler \in [Handlers -> HandlerType] /\ receipt \in [Claims -> ReceiptType]
      /\ handler[h].req \in Requests /\ mine \in Claims
  BY <1>1, TypeParts, InsertedClaims DEF IInv, TablesOK, HasRequest
<1>3. mine[1] = handler[h].req.org /\ mine[2] = handler[h].req.key
  BY <1>2, RequestFields DEF Mine
<1>4. UNCHANGED <<payment, inflight, untold, overrun>> /\ Grows
  BY StepGrows DEF save_receipt, downstream, claims
<1>5. CASE receipt[mine] # NoReceipt
  <2>1. Fail(h) /\ receipt' = receipt
    BY <1>5 DEF save_receipt
  <2>2. Moves(h, "fail") /\ handler'[h].named = FALSE
    BY <1>2, <2>1, FailMoves
  <2>3. CarriesTruly(h)'
    BY <2>2, EmptyHands
  <2>4. Carries(h) => mine \in untold' \cup overrun
    BY <1>1, <1>4, <1>5 DEF CarriesTruly
  <2> QED
    BY <1>4, <2>1, <2>2, <2>3, <2>4, CarryQuietly
<1>6. CASE receipt[mine] = NoReceipt
  <2>1. /\ Goto(h, "complete")
        /\ receipt' = [receipt EXCEPT ![mine] =
             [event |-> handler[h].event, req |-> handler[h].req,
              status |-> handler[h].status, named |-> handler[h].named]]
    BY <1>6 DEF save_receipt
  <2>2. receipt'[mine].named = handler[h].named /\ \A c \in Claims \ {mine} : receipt'[c] = receipt[c]
    BY <1>2, <2>1
  <2>3. /\ Moves(h, "complete") /\ handler'[h].req = handler[h].req
        /\ handler'[h].named = handler[h].named
    BY <1>2, <2>1, GotoMoves DEF PCs
  <2>4. handler'[h].pc = "complete" /\ mine' = mine /\ At(h, "complete")'
    BY <2>3 DEF Moves, Mine, At
  <2>5. CarriesTruly(h)'
    BY <1>1, <1>4, <2>2, <2>3, <2>4 DEF CarriesTruly
  <2>6. ASSUME NEW g \in Handlers, g # h PROVE CarriesTruly(g)'
    <3>1. handler'[g] = handler[g]
      BY <2>3, <2>6 DEF Moves
    <3>2. Busy(g) => Mine(g) \in Claims /\ (Mine(g) = mine => Mine(g) \in overrun)
      BY <1>1, <2>6, KeyParts, InsertedClaims DEF IInv, OneWinner
    <3>3. Busy(g) => receipt'[Mine(g)] = receipt[Mine(g)] \/ Mine(g) \in overrun
      BY <2>2, <3>2
    <3>4. untold \subseteq untold'
      BY <1>4
    <3> QED
      BY <1>4, <3>1, <3>3, <3>4, OthersCarry
  <2>7. NamesAreTrue'
    <3>1. \A c \in Claims : receipt'[c] = receipt[c] \/
                            (receipt'[c].named => payment[c[2]].org = c[1])
      BY <1>1, <1>3, <2>2 DEF CarriesTruly
    <3> QED
      BY <1>4, <3>1, NamesStay
  <2>8. LateIsUntold'
    BY <1>4 DEF ToldInv, LateIsUntold
  <2>9. LiveIsCarried'
    <3> SUFFICES ASSUME NEW c \in Claims, Live(c)', c \notin untold' \cup overrun',
                        ~receipt'[c].named
                 PROVE  \E g \in Handlers : Carries(g)' /\ Mine(g)' = c
      BY DEF LiveIsCarried
    <3>1. Live(c) /\ c \notin untold \cup overrun
      BY <1>4 DEF Live
    <3>2. ~receipt[c].named
      BY <1>6, <2>2 DEF NoReceipt
    <3>3. PICK g \in Handlers : Carries(g) /\ Mine(g) = c
      BY <3>1, <3>2 DEF ToldInv, LiveIsCarried
    <3>4. CASE g = h
      <4>1. handler[h].named /\ c = mine
        BY <1>1, <3>3, <3>4 DEF Carries
      <4> QED
        BY <2>2, <4>1
    <3>5. CASE g # h
      <4>1. Carries(g)' /\ Mine(g)' = c
        BY <2>3, <3>3, <3>5 DEF Carries, At, Mine, Moves
      <4> QED
        BY <4>1
    <3> QED
      BY <3>4, <3>5
  <2> QED
    BY <2>5, <2>6, <2>7, <2>8, <2>9 DEF ToldInv
<1> QED
  BY <1>5, <1>6

LEMMA ReturnTells ==
    ASSUME IInv, ToldInv, Next, NEW h \in Handlers, complete_idempotency(h) \/ fail_idempotency(h)
    PROVE  ToldInv'
<1>1. handler \in [Handlers -> HandlerType] /\ CarriesTruly(h)
  BY TypeParts DEF IInv, ToldInv
<1>2. Moves(h, "idle") /\ handler'[h].named = FALSE
  BY <1>1, ReturnMoves DEF complete_idempotency, fail_idempotency
<1>3. UNCHANGED <<payment, receipt, inflight>> /\ untold' = untold
  BY DEF complete_idempotency, fail_idempotency, downstream
<1>4. Carries(h) => receipt[Mine(h)].named
  BY <1>1 DEF complete_idempotency, fail_idempotency, CarriesTruly, Carries, At
<1> QED
  BY <1>2, <1>3, <1>4, EmptyHands, CarryQuietly

\* No handler moves: what arrives late is untold, and the transaction service
\* revives no payment.
LEMMA OutsideTells ==
    ASSUME IInv, ToldInv, Next,
           \/ \E c \in Claims : Age(c)
           \/ \E req \in Requests : LateArrival(req)
           \/ \E k \in Keys : TransactionService(k)
    PROVE  ToldInv'
<1>1. UNCHANGED <<receipt, untold, handler>> /\ Grows /\ payment \in [Keys -> RowType]
  BY StepGrows, TypeParts DEF Age, LateArrival, TransactionService, downstream, IInv, DownstreamOK
<1>2. \A g \in Handlers : CarriesTruly(g)'
  BY <1>1, OthersCarry
<1>3. NamesAreTrue'
  BY <1>1, NamesStay
<1>4. LateIsUntold'
  BY <1>1 DEF ToldInv, LateIsUntold, Age, LateArrival, TransactionService, downstream
<1>5. \A c \in Claims : Live(c)' => Live(c) \/ c \in untold
  <2> SUFFICES ASSUME NEW c \in Claims, Live(c)', ~Live(c) PROVE c \in untold
    OBVIOUS
  <2>1. c = <<c[1], c[2]>> /\ c[2] \in Keys /\ payment' # payment
    BY DEF Claims, Live
  <2>2. ~ \E k \in Keys : TransactionService(k)
    <3> SUFFICES ASSUME NEW k \in Keys, TransactionService(k) PROVE FALSE
      OBVIOUS
    <3>1. CASE Record!Decide(k)
      BY <1>1, <2>1, <3>1 DEF Record!Decide, Live, RowType
    <3>2. CASE Record!Link(k)
      BY <1>1, <2>1, <3>2 DEF Record!Link, Live, RowType
    <3> QED
      BY <3>1, <3>2 DEF TransactionService
  <2>3. PICK req \in Requests : LateArrival(req)
    BY <2>1, <2>2 DEF Age, downstream
  <2>4. Record!Accept(req) /\ ClaimOf(req) \in untold
    BY <2>1, <2>3 DEF LateArrival, ToldInv, LateIsUntold
  <2>5. /\ payment'[req.key].org = req.org
        /\ \A k \in Keys \ {req.key} : payment'[k] = payment[k]
    BY <1>1, <2>4, AcceptRow
  <2>6. c[2] = req.key
    BY <2>1, <2>5 DEF Live
  <2>7. c = ClaimOf(req)
    BY <2>1, <2>5, <2>6 DEF Live, ClaimOf
  <2> QED
    BY <2>4, <2>7
<1>6. LiveIsCarried'
  <2> SUFFICES ASSUME NEW c \in Claims, Live(c)', c \notin untold' \cup overrun',
                      ~receipt'[c].named
               PROVE  \E g \in Handlers : Carries(g)' /\ Mine(g)' = c
    BY DEF LiveIsCarried
  <2>1. Live(c) /\ c \notin untold \cup overrun /\ ~receipt[c].named
    BY <1>1, <1>5 DEF Grows
  <2>2. PICK g \in Handlers : Carries(g) /\ Mine(g) = c
    BY <2>1 DEF ToldInv, LiveIsCarried
  <2>3. Carries(g)' /\ Mine(g)' = c
    BY <1>1, <2>2 DEF Carries, At, Mine
  <2> QED
    BY <2>3
<1> QED
  BY <1>2, <1>3, <1>4, <1>6 DEF ToldInv

LEMMA InitTells == Init => ToldInv
<1> SUFFICES ASSUME Init PROVE ToldInv
  OBVIOUS
<1>1. \A h \in Handlers : handler[h].pc = "idle" /\ handler[h].named = FALSE
  BY DEF Init, Idle
<1>2. \A c \in Claims : receipt[c].named = FALSE
  BY DEF Init, NoReceipt
<1>3. \A c \in Claims : ~Live(c)
  BY DEF Init, Live, Claims, Record!Init, Record!NoRow
<1>4. inflight = {}
  BY DEF Init
<1> QED
  BY <1>1, <1>2, <1>3, <1>4 DEF ToldInv, CarriesTruly, Carries, At, NamesAreTrue, LateIsUntold,
     LiveIsCarried

LEMMA NextTells == IInv /\ ToldInv /\ [Next]_vars => ToldInv'
<1> SUFFICES ASSUME IInv, ToldInv, [Next]_vars PROVE ToldInv'
  OBVIOUS
<1>1. CASE UNCHANGED vars
  BY <1>1 DEF vars, ToldInv, CarriesTruly, Carries, NamesAreTrue, LateIsUntold, LiveIsCarried,
     Live, Mine, At
<1>2. CASE Next
  BY <1>2, ClaimTells, PrepareTells, EndTells, CaughtTells, TransactTells, AnswersTell, SaveTells,
     ReturnTells, OutsideTells DEF Next, Work
<1> QED
  BY <1>1, <1>2

\* "A receipt must report partial or failed work honestly": what a completed or
\* a partial receipt says was done was done or is queued, a receipt that names a
\* transaction names one of this merchant, and a failed, blocked or reviewed one
\* hides no payment unless its answer was lost or a handler outlived its claim.
THEOREM ReceiptsTellTheWork == Spec => []ReceiptTellsTheWork
<1>1. IInv /\ ToldInv => ReceiptTellsTheWork
  BY ToldSuffices DEF IInv, ReceiptTellsTheWork
<1> QED
  BY <1>1, InitTells, NextTells, GatewayInvariant, PTL DEF Spec

=============================================================================
