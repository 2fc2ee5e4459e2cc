------------------------ MODULE AgentCommerceProofs ------------------------
(***************************************************************************)
(* Proofs about paid agent calls, for any set of authorizations, keys,     *)
(* agents, executions, requests, invoices and fees, and for executions in  *)
(* one event loop as well as in several processes.                         *)
(***************************************************************************)
EXTENDS AgentCommerce, SumTheorems

CallType == [pc : PCs, id : Reservations \cup {NoRequest},
             invoice : InvoiceType \cup {NoInvoice}, fee : Nat,
             delivery : Deliveries]

\* An execution at work has a reservation and an invoice an agent offered.
CallOK(v) ==
    /\ v \in CallType
    /\ v.pc # "idle" => v.id \in Reservations /\ v.invoice \in Invoices

\* A row that exists has its request, one that is bound has its invoice.
RowOK(w) ==
    /\ w \in RowType
    /\ w.status # "none" <=> w.req \in RequestType
    /\ w.status \in {"invoice_bound", "payment_initiated", "paid"} =>
         w.invoice \in Invoices

\* The tables and the executions fit together.
Sound ==
    /\ call \in [Calls -> CallType]
    /\ resv \in [Reservations -> RowType]
    /\ \A c \in Calls : CallOK(call[c])
    /\ \A r \in Reservations : RowOK(resv[r])
    /\ \A c \in Calls : call[c].pc # "idle" => resv[call[c].id].status # "none"

\* The budget holds for every row, created or not.
Within == \A a \in Auths : auth[a].spent + auth[a].reserved <= Budget[a].total

\* Before mark_payment_initiated nothing is sent, after it the status never goes
\* back, and the one execution that made that step is the one that sends.
Early == {"none", "reserved", "invoice_bound"}

Paying ==
    /\ \A c \in Calls : call[c].pc = "pay" =>
         sent[call[c].id] = 0 /\ resv[call[c].id].status \notin Early
    /\ \A r \in Reservations :
         /\ sent[r] <= 1
         /\ sent[r] > 0 => resv[r].status \notin Early
    /\ \A c, d \in Calls :
         call[c].pc = "pay" /\ call[d].pc = "pay" /\ call[c].id = call[d].id => c = d

IInv == TypeOK /\ Sound /\ Within /\ Paying

-----------------------------------------------------------------------------
AuthType == [status : {"none", "active", "revoked", "consumed"},
             reserved : Int, spent : Nat, calls : Nat]

\* The columns that Sound does not speak of.
Rest ==
    /\ auth \in [Auths -> AuthType]
    /\ expired \subseteq Auths
    /\ receipt \in [Reservations -> [debit : Nat, delivery : Deliveries]]
    /\ lightning \in [Hashes -> [state : {"none", "inflight", "settled", "failed"},
                                 fee : Nat]]
    /\ sent \in [Reservations -> Nat]
    /\ deaths \in Nat

\* Sound and Rest are all of TypeOK.
LEMMA TypeParts == Sound /\ Rest => TypeOK
BY DEF Sound, Rest, TypeOK, CallType, AuthType

\* The same after a step.
LEMMA TypePartsNext == Sound' /\ Rest' => TypeOK'
BY DEF Sound, Rest, TypeOK, CallType, AuthType

\* Invoices have a hash the Lightning network knows and an amount.
LEMMA InvoiceFields ==
    ASSUME NEW invoice \in Invoices
    PROVE  invoice \in InvoiceType /\ invoice.hash \in Hashes /\ invoice.sats \in Nat
BY AgentCommerceAssumption DEF InvoiceType, Hashes

\* The row of a request.
LEMMA RequestFields ==
    ASSUME NEW req \in RequestType
    PROVE  /\ req.auth \in Auths /\ req.key \in Keys
           /\ Of(req) \in Reservations
BY DEF RequestType, Of, Reservations

\* Execution c moves and is well formed where it gets to.
Moves(c) ==
    /\ call' \in [Calls -> CallType]
    /\ CallOK(call'[c])
    /\ \A d \in Calls \ {c} : call'[d] = call[d]

\* Row r is written and is well formed.
Writes(r) ==
    /\ resv' \in [Reservations -> RowType]
    /\ RowOK(resv'[r])
    /\ resv'[r].status # "none"
    /\ \A q \in Reservations \ {r} : resv'[q] = resv[q]

\* Goto moves an execution, which keeps its reservation.
LEMMA GotoMoves ==
    ASSUME Sound, NEW c \in Calls, call[c].pc # "idle", NEW pc \in PCs, Goto(c, pc)
    PROVE  Moves(c) /\ call'[c].pc = pc /\ call'[c].id = call[c].id
<1>1. call \in [Calls -> CallType] /\ CallOK(call[c])
  BY DEF Sound
<1>2. call'[c] = [call[c] EXCEPT !.pc = pc] /\ call'[c] \in CallType
  BY <1>1 DEF Goto, CallType
<1> QED
  BY <1>1, <1>2 DEF Moves, Goto, CallOK, CallType

\* Leave makes an execution idle.
LEMMA LeaveMoves ==
    ASSUME Sound, NEW c \in Calls, Leave(c)
    PROVE  Moves(c) /\ call'[c].pc = "idle"
<1>1. Idle \in CallType /\ Idle.pc = "idle" /\ CallOK(Idle)
  BY DEF Idle, CallType, CallOK, PCs, Deliveries
<1> QED
  BY <1>1 DEF Sound, Moves, Leave

\* An execution moves; the rows stay.
LEMMA MoveSound ==
    ASSUME Sound, NEW c \in Calls, Moves(c), resv' = resv,
           call'[c].pc # "idle" => resv[call'[c].id].status # "none"
    PROVE  Sound'
BY DEF Sound, Moves, CallOK, RowOK

\* An execution moves and writes one row.
LEMMA WriteSound ==
    ASSUME Sound, NEW c \in Calls, Moves(c), NEW r \in Reservations, Writes(r),
           call'[c].pc # "idle" => call'[c].id = r
    PROVE  Sound'
<1>1. call' \in [Calls -> CallType] /\ resv' \in [Reservations -> RowType]
  BY DEF Moves, Writes
<1>2. \A d \in Calls : CallOK(call'[d])
  BY DEF Sound, Moves
<1>3. \A q \in Reservations : RowOK(resv'[q])
  BY DEF Sound, Writes
<1>4. \A d \in Calls : call'[d].pc # "idle" => resv'[call'[d].id].status # "none"
  <2> SUFFICES ASSUME NEW d \in Calls, call'[d].pc # "idle"
               PROVE  resv'[call'[d].id].status # "none"
    OBVIOUS
  <2>1. call'[d].id \in Reservations
    BY <1>2 DEF CallOK
  <2> QED
    BY <2>1 DEF Sound, Moves, Writes
<1> QED
  BY <1>1, <1>2, <1>3, <1>4 DEF Sound, CallOK, RowOK

\* A step that sends nothing, takes no status back and brings nobody to "pay"
\* keeps the discipline of payments.
LEMMA CalmPaying ==
    ASSUME Sound, Paying, sent' = sent,
           \A r \in Reservations : resv[r].status \notin Early => resv'[r].status \notin Early,
           \A c \in Calls : call'[c].pc = "pay" =>
               call[c].pc = "pay" /\ call'[c].id = call[c].id
    PROVE  Paying'
<1>1. \A c \in Calls : call[c].pc = "pay" => call[c].id \in Reservations
  BY DEF Sound, CallOK
<1> QED
  BY <1>1 DEF Paying, Early

\* An execution moves, not to "pay", and writes nothing.
LEMMA QuietMove ==
    ASSUME IInv, NEW c \in Calls, Moves(c), call'[c].pc # "pay",
           UNCHANGED <<auth, resv, sent>>,
           call'[c].pc # "idle" => resv[call'[c].id].status # "none"
    PROVE  Sound' /\ Within' /\ Paying'
<1>1. Sound'
  BY MoveSound DEF IInv
<1>2. Within'
  BY DEF IInv, Within
<1>3. Paying'
  <2>1. \A d \in Calls : call'[d].pc = "pay" => call'[d] = call[d]
    BY DEF Moves
  <2> QED
    BY <2>1, CalmPaying DEF IInv
<1> QED
  BY <1>1, <1>2, <1>3

\* An execution moves, not to "pay", and writes the row it works on.
LEMMA RowMove ==
    ASSUME IInv, NEW c \in Calls, Moves(c), call'[c].pc # "pay", sent' = sent,
           NEW r \in Reservations, Writes(r),
           call'[c].pc # "idle" => call'[c].id = r,
           resv[r].status \notin Early => resv'[r].status \notin Early
    PROVE  Sound' /\ Paying'
<1>1. Sound'
  BY WriteSound DEF IInv
<1>2. \A d \in Calls : call'[d].pc = "pay" => call'[d] = call[d]
  BY DEF Moves
<1>3. \A q \in Reservations : resv[q].status \notin Early => resv'[q].status \notin Early
  BY DEF Writes
<1> QED
  BY <1>1, <1>2, <1>3, CalmPaying DEF IInv

\* Goto to anywhere but "pay", writing nothing.
LEMMA QuietGoto ==
    ASSUME IInv, NEW c \in Calls, call[c].pc # "idle", NEW pc \in PCs, pc # "pay",
           Goto(c, pc), UNCHANGED <<auth, resv, sent>>
    PROVE  Sound' /\ Within' /\ Paying'
<1>1. resv[call[c].id].status # "none"
  BY DEF IInv, Sound
<1>2. Moves(c) /\ call'[c].pc = pc /\ call'[c].id = call[c].id
  BY GotoMoves DEF IInv
<1> QED
  BY <1>1, <1>2, QuietMove

\* SetRow writes the row of an execution.
LEMMA SetRowWrites ==
    ASSUME IInv, NEW c \in Calls, call[c].pc # "idle", NEW w, RowOK(w),
           w.status # "none", SetRow(c, w)
    PROVE  Writes(call[c].id) /\ resv'[call[c].id] = w
<1>1. call[c].id \in Reservations /\ resv \in [Reservations -> RowType]
  BY DEF IInv, Sound, CallOK
<1> QED
  BY <1>1 DEF Writes, SetRow, RowOK

\* Leaving, writing nothing.
LEMMA QuietLeave ==
    ASSUME IInv, NEW c \in Calls, Leave(c), UNCHANGED <<auth, resv, sent>>
    PROVE  Sound' /\ Within' /\ Paying'
<1>1. Moves(c) /\ call'[c].pc = "idle"
  BY LeaveMoves DEF IInv
<1> QED
  BY <1>1, QuietMove

-----------------------------------------------------------------------------
\* The parts of IInv the steps below re-establish.
LEMMA Parts == IInv <=> Sound /\ Rest /\ Within /\ Paying
BY TypeParts DEF IInv, Sound, Rest, TypeOK, CallType, AuthType

\* The same parts after a step.
LEMMA PartsNext == Sound' /\ Rest' /\ Within' /\ Paying' => IInv'
BY TypePartsNext DEF IInv

\* The numbers of an authorization.
LEMMA AuthFields ==
    ASSUME IInv, NEW a \in Auths
    PROVE  /\ auth \in [Auths -> AuthType]
           /\ auth[a].spent \in Nat /\ auth[a].reserved \in Int /\ auth[a].calls \in Nat
           /\ Budget[a].fee \in Nat /\ Budget[a].total \in Nat
           /\ auth[a].spent + auth[a].reserved <= Budget[a].total
<1>1. auth \in [Auths -> AuthType] /\ Within
  BY Parts DEF Rest
<1> QED
  BY <1>1, AgentCommerceAssumption DEF AuthType, Within

\* UPDATE authorizations SET status.
LEMMA StatusColumn ==
    ASSUME auth \in [Auths -> AuthType], NEW a \in Auths,
           NEW status \in {"active", "revoked"},
           auth' = [auth EXCEPT ![a].status = status]
    PROVE  /\ auth' \in [Auths -> AuthType]
           /\ \A b \in Auths : auth'[b].spent = auth[b].spent /\ auth'[b].reserved = auth[b].reserved
BY DEF AuthType

\* UPDATE authorizations SET reserved_sats.
LEMMA ReservedColumn ==
    ASSUME auth \in [Auths -> AuthType], NEW a \in Auths, NEW n \in Int,
           auth' = [auth EXCEPT ![a].reserved = n]
    PROVE  /\ auth' \in [Auths -> AuthType]
           /\ auth'[a].reserved = n /\ auth'[a].spent = auth[a].spent
           /\ \A b \in Auths \ {a} : auth'[b] = auth[b]
BY DEF AuthType

\* Authorizations are created and revoked, and expire, beside the calls.
LEMMA AuthorizationStep ==
    ASSUME IInv, NEW a \in Auths, create(a) \/ revoke(a) \/ Expire(a)
    PROVE  IInv'
<1>1. UNCHANGED <<resv, receipt, lightning, sent, call, deaths>>
  BY DEF create, revoke, Expire, clock, outside, store
<1>2. Sound'
  BY <1>1 DEF IInv, Sound, CallOK, RowOK
<1>3. Paying'
  BY <1>1 DEF IInv, Paying
<1>4. /\ auth' \in [Auths -> AuthType]
      /\ \A b \in Auths : auth'[b].spent = auth[b].spent /\ auth'[b].reserved = auth[b].reserved
      /\ expired' \subseteq Auths
  <2>1. auth \in [Auths -> AuthType] /\ expired \subseteq Auths
    BY Parts DEF Rest
  <2>2. CASE create(a)
    BY <2>1, <2>2, StatusColumn DEF create, clock
  <2>3. CASE revoke(a)
    BY <2>1, <2>3, StatusColumn DEF revoke, clock
  <2>4. CASE Expire(a)
    BY <2>1, <2>4 DEF Expire, store
  <2> QED
    BY <2>2, <2>3, <2>4
<1>5. Rest' /\ Within'
  BY <1>1, <1>4, Parts DEF Rest, Within
<1> QED
  BY <1>2, <1>3, <1>5, PartsNext

\* A step of an execution that leaves the other tables alone.
LEMMA RestStays ==
    ASSUME IInv, UNCHANGED <<auth, receipt, lightning, sent, expired, deaths>>
    PROVE  Rest' /\ Within'
BY Parts DEF Rest, Within

\* reserve takes no more than what is available.
LEMMA ReserveStep ==
    ASSUME IInv, NEW c \in Calls, NEW req \in Requests, NEW invoice \in Invoices,
           reserve(c, req, invoice)
    PROVE  IInv'
<1>1. /\ req \in RequestType /\ req.auth \in Auths /\ Of(req) \in Reservations
      /\ req.quoted \in Nat
      /\ invoice \in InvoiceType
  BY RequestFields, InvoiceFields, AgentCommerceAssumption DEF RequestType
<1>2. /\ Budget[req.auth].fee \in Nat /\ Budget[req.auth].total \in Nat
      /\ auth[req.auth].spent \in Nat /\ auth[req.auth].reserved \in Int
  BY <1>1, AuthFields
<1>3. PICK ceiling \in Ceilings(req.quoted) :
        /\ MayReserve(req, ceiling)
        /\ resv' = [resv EXCEPT ![Of(req)] =
                      [status |-> "reserved", req |-> req,
                       reserved |-> ceiling + Budget[req.auth].fee,
                       invoice |-> NoInvoice, fee |-> 0]]
        /\ auth' = [auth EXCEPT ![req.auth].reserved =
                      @ + ceiling + Budget[req.auth].fee]
  BY DEF reserve
<1>4. ceiling \in Nat
  BY <1>1 DEF Ceilings, MaxAdvertised
<1>5. DEFINE w == [status |-> "reserved", req |-> req,
                   reserved |-> ceiling + Budget[req.auth].fee,
                   invoice |-> NoInvoice, fee |-> 0]
             v == [Idle EXCEPT !.pc = "bind", !.id = Of(req), !.invoice = invoice]
<1>6. RowOK(w) /\ w.status = "reserved"
  <2>1. ceiling + Budget[req.auth].fee \in Nat
    BY <1>2, <1>4
  <2> QED
    BY <1>1, <2>1 DEF RowOK, RowType, OPEN_RESERVATION_STATES
<1>7. CallOK(v) /\ v.pc = "bind" /\ v.id = Of(req)
  BY <1>1 DEF CallOK, CallType, Idle, PCs, Deliveries
<1>8. call' = [call EXCEPT ![c] = v] /\ resv' = [resv EXCEPT ![Of(req)] = w]
  BY <1>3 DEF reserve
<1> HIDE DEF v, w
<1>9. Moves(c) /\ call'[c].pc = "bind" /\ call'[c].id = Of(req)
  BY <1>7, <1>8 DEF IInv, Sound, Moves, CallOK
<1>10. Writes(Of(req))
  BY <1>1, <1>6, <1>8 DEF IInv, Sound, Writes, RowOK
<1>11. resv[Of(req)].status = "none" /\ sent' = sent
  BY DEF reserve, outside
<1>12. Sound' /\ Paying'
  BY <1>1, <1>9, <1>10, <1>11, RowMove DEF Early
<1>13. /\ auth' \in [Auths -> AuthType]
       /\ auth'[req.auth].spent = auth[req.auth].spent
       /\ auth'[req.auth].reserved = auth[req.auth].reserved + ceiling + Budget[req.auth].fee
       /\ \A b \in Auths \ {req.auth} : auth'[b] = auth[b]
  <2>1. PICK n \in Int : n = auth[req.auth].reserved + ceiling + Budget[req.auth].fee
    BY <1>2, <1>4
  <2>2. auth' = [auth EXCEPT ![req.auth].reserved = n] /\ auth \in [Auths -> AuthType]
    BY <1>1, <1>3, <2>1, AuthFields
  <2>3. /\ auth' \in [Auths -> AuthType]
        /\ auth'[req.auth].reserved = n /\ auth'[req.auth].spent = auth[req.auth].spent
        /\ \A b \in Auths \ {req.auth} : auth'[b] = auth[b]
    BY ONLY <1>1, <2>1, <2>2 DEF AuthType
  <2> QED
    BY <2>1, <2>3
<1>14. Within'
  <2>1. ceiling + Budget[req.auth].fee
          <= Budget[req.auth].total - auth[req.auth].spent - auth[req.auth].reserved
    BY <1>3 DEF MayReserve, Available
  <2> QED
    BY <1>1, <1>2, <1>4, <1>13, <2>1, Parts DEF Within
<1>15. Rest'
  BY <1>13, Parts DEF Rest, reserve, outside, clock
<1> QED
  BY <1>12, <1>14, <1>15, PartsNext

\* An execution at work, and the row it works on.
LEMMA AtWork ==
    ASSUME IInv, NEW c \in Calls, call[c].pc # "idle"
    PROVE  /\ call[c] \in CallType /\ call[c].id \in Reservations
           /\ call[c].invoice \in Invoices /\ call[c].fee \in Nat
           /\ Row(c) = resv[call[c].id] /\ RowOK(Row(c)) /\ Row(c).status # "none"
BY DEF IInv, Sound, CallOK, CallType, Row

\* An execution begins with a record of its own.
LEMMA BeginMoves ==
    ASSUME IInv, NEW c \in Calls, NEW v \in CallType, CallOK(v),
           call' = [call EXCEPT ![c] = v]
    PROVE  Moves(c) /\ call'[c] = v
BY DEF IInv, Sound, Moves

\* The same call again starts on a row that exists, and not at "pay".
LEMMA ResumeStep ==
    ASSUME IInv, NEW c \in Calls, NEW req \in Requests, NEW invoice \in Invoices,
           resume(c, req, invoice)
    PROVE  IInv'
<1>1. /\ req \in RequestType /\ Of(req) \in Reservations
      /\ invoice \in InvoiceType
  BY RequestFields, InvoiceFields, AgentCommerceAssumption
<1>2. resv[Of(req)].status # "none"
  <2>1. resv[Of(req)].req = req /\ RowOK(resv[Of(req)])
    BY <1>1 DEF resume, IInv, Sound
  <2> QED
    BY <1>1, <2>1 DEF RowOK
<1>3. DEFINE pc == IF resv[Of(req)].status \in {"payment_initiated", "paid"}
                   THEN "check" ELSE "bind"
             v == [Idle EXCEPT !.id = Of(req), !.invoice = invoice, !.pc = pc]
<1>4. pc \in {"check", "bind"}
  OBVIOUS
<1> HIDE DEF pc
<1>5. v \in CallType /\ CallOK(v) /\ v.pc = pc /\ v.id = Of(req)
  BY <1>1, <1>4 DEF CallOK, CallType, Idle, PCs, Deliveries
<1>6. call' = [call EXCEPT ![c] = v]
  BY DEF resume, pc
<1> HIDE DEF v
<1>7. Moves(c) /\ call'[c] = v
  BY <1>5, <1>6, BeginMoves
<1>8. Sound' /\ Within' /\ Paying'
  BY <1>2, <1>4, <1>5, <1>7, QuietMove DEF resume, store, outside
<1> QED
  BY <1>8, RestStays, PartsNext DEF resume, store, outside, clock

\* bind_invoice stays before the payment.
LEMMA BindStep ==
    ASSUME IInv, NEW c \in Calls, bind_invoice(c)
    PROVE  IInv'
<1>1. call[c].pc = "bind"
  BY DEF bind_invoice, At
<1>2. Rest' /\ Within'
  BY RestStays DEF bind_invoice, outside, clock
<1>3. CASE Goto(c, "check") /\ UNCHANGED resv
  BY <1>1, <1>2, <1>3, QuietGoto, PartsNext DEF bind_invoice, outside, PCs
<1>4. CASE /\ Row(c).status \in {"reserved", "invoice_bound"}
           /\ SetRow(c, [Row(c) EXCEPT !.status = "invoice_bound",
                                       !.invoice = call[c].invoice])
           /\ Goto(c, "initiate")
  <2>1. Moves(c) /\ call'[c].pc = "initiate" /\ call'[c].id = call[c].id
    BY <1>1, <1>4, GotoMoves DEF IInv, PCs
  <2>2. Writes(call[c].id)
    <3>1. call[c].invoice \in InvoiceType
      BY <1>1, AtWork, InvoiceFields
    <3> DEFINE w == [Row(c) EXCEPT !.status = "invoice_bound",
                                   !.invoice = call[c].invoice]
    <3>2. RowOK(w) /\ w.status = "invoice_bound"
      BY <1>1, <3>1, AtWork DEF RowOK, RowType, OPEN_RESERVATION_STATES
    <3>3. SetRow(c, w)
      BY <1>4
    <3> HIDE DEF w
    <3> QED
      BY <1>1, <3>2, <3>3, SetRowWrites
  <2>3. resv[call[c].id].status \in Early /\ sent' = sent
    BY <1>1, <1>4, AtWork DEF Early, bind_invoice, outside
  <2>4. Sound' /\ Paying'
    BY <1>1, <2>1, <2>2, <2>3, AtWork, RowMove
  <2> QED
    BY <1>2, <2>4, PartsNext
<1> QED
  BY <1>3, <1>4 DEF bind_invoice

-----------------------------------------------------------------------------
\* A row gets another status and a fee, and keeps its request and its invoice.
LEMMA StatusWrites ==
    ASSUME IInv, NEW c \in Calls, call[c].pc # "idle",
           NEW status \in {"payment_initiated", "paid", "released", "finalized"},
           NEW fee \in Nat,
           status \in {"payment_initiated", "paid"} => Row(c).invoice \in Invoices,
           SetRow(c, [Row(c) EXCEPT !.status = status, !.fee = fee])
    PROVE  Writes(call[c].id) /\ resv'[call[c].id].status = status
<1> DEFINE w == [Row(c) EXCEPT !.status = status, !.fee = fee]
<1>1. RowOK(w) /\ w.status = status
  BY AtWork DEF RowOK, RowType, OPEN_RESERVATION_STATES
<1>2. SetRow(c, w) /\ status # "none"
  OBVIOUS
<1> HIDE DEF w
<1> QED
  BY <1>1, <1>2, SetRowWrites

\* The same for an UPDATE of the status alone.
LEMMA StatusOnlyWrites ==
    ASSUME IInv, NEW c \in Calls, call[c].pc # "idle",
           NEW status \in {"payment_initiated", "paid", "released", "finalized"},
           status \in {"payment_initiated", "paid"} => Row(c).invoice \in Invoices,
           SetRow(c, [Row(c) EXCEPT !.status = status])
    PROVE  Writes(call[c].id) /\ resv'[call[c].id].status = status
<1> DEFINE w == [Row(c) EXCEPT !.status = status]
<1>1. RowOK(w) /\ w.status = status
  BY AtWork DEF RowOK, RowType, OPEN_RESERVATION_STATES
<1>2. SetRow(c, w) /\ status # "none"
  OBVIOUS
<1> HIDE DEF w
<1> QED
  BY <1>1, <1>2, SetRowWrites

\* mark_payment_initiated: from "invoice_bound" only, and so once for a row.
LEMMA InitiateStep ==
    ASSUME IInv, NEW c \in Calls, mark_payment_initiated(c)
    PROVE  IInv'
<1>1. call[c].pc = "initiate"
  BY DEF mark_payment_initiated, At
<1>2. Rest' /\ Within' /\ sent' = sent
  BY RestStays DEF mark_payment_initiated, outside, clock
<1>3. CASE Goto(c, "check") /\ UNCHANGED resv
  BY <1>1, <1>2, <1>3, QuietGoto, PartsNext DEF mark_payment_initiated, PCs
<1>4. CASE /\ Row(c).status = "invoice_bound"
           /\ SetRow(c, [Row(c) EXCEPT !.status = "payment_initiated"])
           /\ Goto(c, "pay")
  <2>1. Moves(c) /\ call'[c].pc = "pay" /\ call'[c].id = call[c].id
    BY <1>1, <1>4, GotoMoves DEF IInv, PCs
  <2>2. /\ call[c].id \in Reservations
        /\ resv[call[c].id].status = "invoice_bound"
        /\ Row(c).invoice \in Invoices
    BY <1>1, <1>4, AtWork DEF RowOK
  <2>3. Writes(call[c].id) /\ resv'[call[c].id].status = "payment_initiated"
    BY <1>1, <1>4, <2>2, StatusOnlyWrites
  <2>4. Sound'
    BY <1>1, <2>1, <2>2, <2>3, WriteSound DEF IInv
  <2>5. /\ sent[call[c].id] \in Nat /\ sent[call[c].id] = 0
        /\ \A d \in Calls : call[d].pc = "pay" => call[d].id # call[c].id
    BY <2>2, Parts DEF Rest, Paying, Early
  <2>6. \A d \in Calls : call[d].pc = "pay" => call[d].id \in Reservations
    BY DEF IInv, Sound, CallOK
  <2>7. \A d \in Calls \ {c} : call'[d] = call[d]
    BY <2>1 DEF Moves
  <2>8. \A q \in Reservations \ {call[c].id} : resv'[q] = resv[q]
    BY <2>3 DEF Writes
  <2>9. Paying
    BY DEF IInv
  <2>10. \A d \in Calls : call'[d].pc = "pay" =>
           sent'[call'[d].id] = 0 /\ resv'[call'[d].id].status \notin Early
    BY <1>2, <2>1, <2>3, <2>5, <2>6, <2>7, <2>8, <2>9 DEF Paying, Early
  <2>11. \A r \in Reservations :
           sent'[r] <= 1 /\ (sent'[r] > 0 => resv'[r].status \notin Early)
    BY <1>2, <2>3, <2>8, <2>9 DEF Paying, Early
  <2>12. \A d, e \in Calls :
           call'[d].pc = "pay" /\ call'[e].pc = "pay" /\ call'[d].id = call'[e].id => d = e
    BY <2>1, <2>5, <2>7, <2>9 DEF Paying
  <2>13. Paying'
    BY <2>10, <2>11, <2>12 DEF Paying, Early
  <2> QED
    BY <1>2, <2>4, <2>13, PartsNext
<1> QED
  BY <1>3, <1>4 DEF mark_payment_initiated

\* The Lightning network's record of an invoice.
LightningType == [state : {"none", "inflight", "settled", "failed"}, fee : Nat]

\* The state of a payment changes.
LEMMA LightningState ==
    ASSUME IInv, NEW h \in Hashes, NEW state \in {"inflight", "failed"},
           lightning' = [lightning EXCEPT ![h].state = state]
    PROVE  lightning' \in [Hashes -> LightningType]
BY Parts DEF Rest, LightningType

\* pay_invoice: the one execution at "pay" sends the one request.
LEMMA PayStep ==
    ASSUME IInv, NEW c \in Calls, pay_invoice(c)
    PROVE  IInv'
<1>1. call[c].pc = "pay" /\ UNCHANGED <<auth, resv, receipt, expired, deaths>>
  BY DEF pay_invoice, At, store, clock
<1>2. call[c].id \in Reservations /\ call[c].invoice.hash \in Hashes
  BY <1>1, AtWork, InvoiceFields
<1>3. /\ Moves(c) /\ call'[c].id = call[c].id /\ call'[c].pc \in {"paying", "check"}
  <2>1. Goto(c, "paying") \/ Goto(c, "check")
    BY DEF pay_invoice
  <2> QED
    BY <1>1, <2>1, GotoMoves DEF IInv, PCs
<1>4. Sound'
  <2>1. resv[call[c].id].status # "none"
    BY <1>1, AtWork
  <2> QED
    BY <1>1, <1>3, <2>1, MoveSound DEF IInv
<1>5. lightning' \in [Hashes -> LightningType]
  <2>1. CASE lightning' = lightning
    BY <2>1, Parts DEF Rest, LightningType
  <2>2. CASE lightning' = [lightning EXCEPT ![call[c].invoice.hash].state = "inflight"]
    BY <1>2, <2>2, LightningState
  <2> QED
    BY <2>1, <2>2 DEF pay_invoice
<1>6. /\ sent \in [Reservations -> Nat] /\ Paying
      /\ sent' = [sent EXCEPT ![call[c].id] = @ + 1]
  BY Parts DEF Rest, pay_invoice
<1>7. sent[call[c].id] = 0 /\ resv[call[c].id].status \notin Early
  BY <1>1, <1>6 DEF Paying
<1>8. /\ sent' \in [Reservations -> Nat] /\ sent'[call[c].id] = 1
      /\ \A r \in Reservations \ {call[c].id} : sent'[r] = sent[r]
  BY <1>2, <1>6, <1>7
<1>9. Rest' /\ Within'
  BY <1>1, <1>5, <1>8, Parts DEF Rest, Within, LightningType
<1>10. \A d \in Calls : call'[d].pc = "pay" =>
         d # c /\ call'[d] = call[d] /\ call[d].id # call[c].id
  BY <1>1, <1>3, <1>6 DEF Moves, Paying
<1>11. \A d \in Calls : call[d].pc = "pay" => call[d].id \in Reservations
  BY DEF IInv, Sound, CallOK
<1>12. Paying'
  BY <1>1, <1>6, <1>7, <1>8, <1>10, <1>11 DEF Paying, Early
<1> QED
  BY <1>4, <1>9, <1>12, PartsNext

\* The Lightning network decides a payment.
LEMMA LightningStep ==
    ASSUME IInv, NEW h \in Hashes, Lightning(h)
    PROVE  IInv'
<1>1. UNCHANGED <<auth, resv, receipt, sent, call, expired, deaths>>
  BY DEF Lightning, store, clock
<1>2. Sound' /\ Paying'
  BY <1>1 DEF IInv, Sound, CallOK, RowOK, Paying
<1>3. lightning' \in [Hashes -> LightningType]
  <2>1. CASE lightning' = [lightning EXCEPT ![h].state = "failed"]
    BY <2>1, LightningState
  <2>2. CASE \E fee \in Fees :
               lightning' = [lightning EXCEPT ![h] = [state |-> "settled", fee |-> fee]]
    BY <2>2, Parts, AgentCommerceAssumption DEF Rest, LightningType
  <2> QED
    BY <2>1, <2>2 DEF Lightning
<1>4. Rest' /\ Within'
  BY <1>1, <1>3, Parts DEF Rest, Within, LightningType
<1> QED
  BY <1>2, <1>4, PartsNext

\* An execution goes on with what it has learned, and writes nothing.
LEMMA LearnStep ==
    ASSUME IInv, NEW c \in Calls, call[c].pc # "idle",
           NEW pc \in {"settle", "resettle", "finalize"}, NEW fee \in Nat,
           NEW delivery \in Deliveries,
           call' = [call EXCEPT ![c] =
             [call[c] EXCEPT !.pc = pc, !.fee = fee, !.delivery = delivery]],
           UNCHANGED <<store, outside, clock>>
    PROVE  IInv'
<1> DEFINE v == [call[c] EXCEPT !.pc = pc, !.fee = fee, !.delivery = delivery]
<1>1. v \in CallType /\ CallOK(v) /\ v.pc = pc /\ v.id = call[c].id
  BY AtWork DEF CallOK, CallType, PCs
<1>2. call' = [call EXCEPT ![c] = v]
  OBVIOUS
<1> HIDE DEF v
<1>3. Moves(c) /\ call'[c] = v
  BY <1>1, <1>2, BeginMoves
<1>4. Sound' /\ Within' /\ Paying'
  BY <1>1, <1>3, AtWork, QuietMove DEF store, outside
<1> QED
  BY <1>4, RestStays, PartsNext DEF store, outside, clock

\* The fee of a payment is a number.
LEMMA LightningFee ==
    ASSUME IInv, NEW h \in Hashes
    PROVE  lightning[h].fee \in Nat
BY Parts DEF Rest

\* The columns of an execution's record.
LEMMA CallFields ==
    ASSUME IInv, NEW c \in Calls
    PROVE  /\ call \in [Calls -> CallType] /\ call[c] \in CallType
           /\ call[c].fee \in Nat /\ call[c].delivery \in Deliveries
           /\ call[c] = [pc |-> call[c].pc, id |-> call[c].id,
                         invoice |-> call[c].invoice, fee |-> call[c].fee,
                         delivery |-> call[c].delivery]
BY DEF IInv, Sound, CallType

\* PaymentAnswer: the preimage, or an error.
LEMMA AnswerStep ==
    ASSUME IInv, NEW c \in Calls, PaymentAnswer(c)
    PROVE  IInv'
<1>1. call[c].pc = "paying" /\ UNCHANGED <<store, outside, clock>>
  BY DEF PaymentAnswer, At
<1>2. lightning[call[c].invoice.hash].fee \in Nat
  BY <1>1, AtWork, InvoiceFields, LightningFee
<1>3. CASE Goto(c, "check")
  <2>1. Sound' /\ Within' /\ Paying'
    BY <1>1, <1>3, QuietGoto DEF PCs, store, outside
  <2> QED
    BY <1>1, <2>1, RestStays, PartsNext DEF store, outside, clock
<1>4. CASE call' = [call EXCEPT ![c].pc = "settle",
                                ![c].fee = lightning[call[c].invoice.hash].fee]
  <2>1. call' = [call EXCEPT ![c] =
                  [call[c] EXCEPT !.pc = "settle",
                                  !.fee = lightning[call[c].invoice.hash].fee,
                                  !.delivery = call[c].delivery]]
    BY <1>4, CallFields DEF CallType
  <2> QED
    BY <1>1, <1>2, <2>1, CallFields, LearnStep
<1> QED
  BY <1>3, <1>4 DEF PaymentAnswer

\* lookup_payment: a proven settlement, or nothing.
LEMMA LookupStep ==
    ASSUME IInv, NEW c \in Calls, lookup_payment(c)
    PROVE  IInv'
<1>1. call[c].pc = "lookup" /\ UNCHANGED <<store, outside, clock>>
  BY DEF lookup_payment, LookupProves, LookupFails, At
<1>2. lightning[call[c].invoice.hash].fee \in Nat
  BY <1>1, AtWork, InvoiceFields, LightningFee
<1>3. CASE Leave(c)
  <2>1. Sound' /\ Within' /\ Paying'
    BY <1>1, <1>3, QuietLeave DEF store, outside
  <2> QED
    BY <1>1, <2>1, RestStays, PartsNext DEF store, outside, clock
<1>4. CASE call' = [call EXCEPT ![c].pc = "resettle",
                                ![c].fee = lightning[call[c].invoice.hash].fee]
  <2>1. call' = [call EXCEPT ![c] =
                  [call[c] EXCEPT !.pc = "resettle",
                                  !.fee = lightning[call[c].invoice.hash].fee,
                                  !.delivery = call[c].delivery]]
    BY <1>4, CallFields DEF CallType
  <2> QED
    BY <1>1, <1>2, <2>1, CallFields, LearnStep
<1> QED
  BY <1>3, <1>4 DEF lookup_payment, LookupProves, LookupFails

\* Deliver: whatever comes back, the call is finalized.
LEMMA DeliverStep ==
    ASSUME IInv, NEW c \in Calls, Deliver(c)
    PROVE  IInv'
<1>1. call[c].pc = "deliver" /\ UNCHANGED <<store, outside, clock>>
  BY DEF Deliver, At
<1>2. PICK delivery \in {"delivered", "delivery_failed"} :
        call' = [call EXCEPT ![c].pc = "finalize", ![c].delivery = delivery]
  BY DEF Deliver
<1>3. call' = [call EXCEPT ![c] =
                [call[c] EXCEPT !.pc = "finalize", !.fee = call[c].fee,
                                !.delivery = delivery]]
  BY <1>2, CallFields DEF CallType
<1>4. delivery \in Deliveries
  BY DEF Deliveries
<1> QED
  BY <1>1, <1>3, <1>4, CallFields, LearnStep

\* reconcile_initiated_payment takes up a row that has its invoice.
LEMMA ReconcileStep ==
    ASSUME IInv, NEW c \in Calls, NEW r \in Reservations,
           reconcile_initiated_payment(c, r)
    PROVE  IInv'
<1>1. UNCHANGED <<store, outside, clock>>
  BY DEF reconcile_initiated_payment
<1>2. /\ resv[r].status \in {"payment_initiated", "paid"}
      /\ resv[r].invoice \in Invoices /\ resv[r].fee \in Nat
  BY DEF reconcile_initiated_payment, IInv, Sound, RowOK, RowType
<1>3. resv[r].invoice \in InvoiceType
  BY <1>2, InvoiceFields
<1>4. ASSUME NEW v \in CallType, CallOK(v), v.pc \in {"lookup", "finalize"}, v.id = r,
             call' = [call EXCEPT ![c] = v]
      PROVE  IInv'
  <2>1. Moves(c) /\ call'[c] = v
    BY <1>4, BeginMoves
  <2>2. Sound' /\ Within' /\ Paying'
    BY <1>1, <1>2, <1>4, <2>1, QuietMove DEF store, outside
  <2> QED
    BY <1>1, <2>2, RestStays, PartsNext DEF store, outside, clock
<1> DEFINE v(pc, fee) == [pc |-> pc, id |-> r, invoice |-> resv[r].invoice,
                          fee |-> fee, delivery |-> "delivery_unknown"]
<1>5. \/ call' = [call EXCEPT ![c] = v("lookup", 0)]
      \/ call' = [call EXCEPT ![c] = v("finalize", resv[r].fee)]
  BY DEF reconcile_initiated_payment, Idle
<1>6. ASSUME NEW pc \in {"lookup", "finalize"}, NEW fee \in Nat
      PROVE  /\ v(pc, fee) \in CallType /\ CallOK(v(pc, fee))
             /\ v(pc, fee).pc = pc /\ v(pc, fee).id = r
  BY <1>2, <1>3 DEF CallOK, CallType, PCs, Deliveries
<1> HIDE DEF v
<1>7. CASE call' = [call EXCEPT ![c] = v("lookup", 0)]
  BY <1>4, <1>6, <1>7
<1>8. CASE call' = [call EXCEPT ![c] = v("finalize", resv[r].fee)]
  BY <1>2, <1>4, <1>6, <1>8
<1> QED
  BY <1>5, <1>7, <1>8

-----------------------------------------------------------------------------
\* mark_paid writes "paid" over "payment_initiated" only.
LEMMA MarkPaidStep ==
    ASSUME IInv, NEW c \in Calls, call[c].pc # "idle",
           NEW paid \in PCs, NEW refused \in PCs, paid # "pay", refused # "pay",
           mark_paid(c, paid, refused), UNCHANGED <<auth, receipt, outside, clock>>
    PROVE  IInv'
<1>1. Rest' /\ Within' /\ sent' = sent
  BY RestStays DEF outside, clock
<1>2. CASE UNCHANGED resv /\ (Goto(c, paid) \/ Goto(c, refused))
  BY <1>1, <1>2, QuietGoto, PartsNext
<1>3. CASE /\ Settles(Row(c), call[c].fee)
           /\ SetRow(c, [Row(c) EXCEPT !.status = "paid", !.fee = call[c].fee])
           /\ Goto(c, paid)
  <2>1. Moves(c) /\ call'[c].pc = paid /\ call'[c].id = call[c].id
    BY <1>3, GotoMoves DEF IInv
  <2>2. call[c].id \in Reservations /\ Row(c).invoice \in Invoices /\ call[c].fee \in Nat
    BY <1>3, AtWork DEF Settles, RowOK
  <2>3. Writes(call[c].id) /\ resv'[call[c].id].status = "paid"
    <3> DEFINE w == [Row(c) EXCEPT !.status = "paid", !.fee = call[c].fee]
    <3>1. RowOK(w) /\ w.status = "paid" /\ w.status # "none"
      BY <2>2, AtWork DEF RowOK, RowType, OPEN_RESERVATION_STATES
    <3>2. SetRow(c, w)
      BY <1>3
    <3> HIDE DEF w
    <3> QED
      BY <3>1, <3>2, SetRowWrites
  <2>4. Sound' /\ Paying'
    BY <1>1, <2>1, <2>2, <2>3, RowMove DEF Early
  <2> QED
    BY <1>1, <2>4, PartsNext
<1> QED
  BY <1>2, <1>3 DEF mark_paid

\* An execution leaves, or goes to release what it holds.
LEMMA CheckStep ==
    ASSUME IInv, NEW c \in Calls, CheckRelease(c) \/ Refused(c)
    PROVE  IInv'
<1>1. call[c].pc # "idle" /\ UNCHANGED <<store, outside, clock>>
  BY DEF CheckRelease, Refused, At
<1>2. Leave(c) \/ Goto(c, "release")
  BY DEF CheckRelease, Refused
<1>3. Sound' /\ Within' /\ Paying'
  BY <1>1, <1>2, QuietLeave, QuietGoto DEF PCs, store, outside
<1> QED
  BY <1>1, <1>3, RestStays, PartsNext DEF store, outside, clock

\* Die: only the execution is lost.
LEMMA DieStep ==
    ASSUME IInv, NEW c \in Calls, Die(c)
    PROVE  IInv'
<1>1. Leave(c) /\ UNCHANGED <<auth, resv, receipt, lightning, sent, expired>>
  BY DEF Die, store, outside
<1>2. Sound' /\ Within' /\ Paying'
  BY <1>1, QuietLeave
<1>3. Rest'
  BY <1>1, Parts DEF Rest, Die
<1> QED
  BY <1>2, <1>3, PartsNext

\* release gives back what the row holds, and no more.
LEMMA ReleaseStep ==
    ASSUME IInv, NEW c \in Calls, release(c)
    PROVE  IInv'
<1>1. /\ call[c].pc = "release" /\ Leave(c)
      /\ UNCHANGED <<receipt, lightning, sent, expired, deaths>>
  BY DEF release, At, outside, clock
<1>2. CASE UNCHANGED <<resv, auth>>
  BY <1>1, <1>2, QuietLeave, RestStays, PartsNext
<1>3. CASE /\ SetRow(c, [Row(c) EXCEPT !.status = "released"])
           /\ auth' = [auth EXCEPT ![Row(c).req.auth].reserved = @ - Row(c).reserved]
  <2>1. Moves(c) /\ call'[c].pc = "idle"
    BY <1>1, LeaveMoves DEF IInv
  <2>2. call[c].id \in Reservations /\ Row(c).req \in RequestType /\ Row(c).reserved \in Nat
    BY <1>1, AtWork DEF RowOK, RowType
  <2>3. Writes(call[c].id) /\ resv'[call[c].id].status = "released"
    BY <1>1, <1>3, StatusOnlyWrites
  <2>4. Sound' /\ Paying'
    BY <1>1, <2>1, <2>2, <2>3, RowMove DEF Early
  <2> DEFINE a == Row(c).req.auth
             n == auth[a].reserved - Row(c).reserved
  <2>5. a \in Auths /\ auth[a].reserved \in Int /\ auth[a].spent \in Nat
    BY <2>2, RequestFields, AuthFields
  <2>6. n \in Int /\ n <= auth[a].reserved
    BY <2>2, <2>5
  <2>7. auth' = [auth EXCEPT ![a].reserved = n]
    BY <1>3
  <2> HIDE DEF a, n
  <2>8. /\ auth' \in [Auths -> AuthType]
        /\ auth'[a].reserved = n /\ auth'[a].spent = auth[a].spent
        /\ \A b \in Auths \ {a} : auth'[b] = auth[b]
    BY <2>5, <2>6, <2>7, AuthFields, ReservedColumn
  <2>9. Within'
    <3>1. \A b \in Auths : auth[b].spent + auth[b].reserved <= Budget[b].total
      BY Parts DEF Within
    <3>2. Budget[a].total \in Nat
      BY <2>5, AuthFields
    <3>3. auth'[a].spent + auth'[a].reserved <= Budget[a].total
      BY <2>5, <2>6, <2>8, <3>1, <3>2
    <3> QED
      BY <2>8, <3>1, <3>3 DEF Within
  <2>10. Rest'
    BY <1>1, <2>8, Parts DEF Rest
  <2> QED
    BY <2>4, <2>9, <2>10, PartsNext
<1> QED
  BY <1>2, <1>3 DEF release

\* finalize_paid_call moves at most what was reserved from held to spent.
LEMMA FinalizeStep ==
    ASSUME IInv, NEW c \in Calls, finalize_paid_call(c)
    PROVE  IInv'
<1>1. /\ call[c].pc = "finalize" /\ Leave(c)
      /\ UNCHANGED <<lightning, sent, expired, deaths>>
  BY DEF finalize_paid_call, At, outside, clock
<1>2. CASE UNCHANGED <<receipt, auth, resv>>
  BY <1>1, <1>2, QuietLeave, RestStays, PartsNext
<1> DEFINE a == Row(c).req.auth
<1>3. CASE /\ MayFinalize(c)
           /\ receipt' = [receipt EXCEPT ![call[c].id] =
                [debit |-> Debit(c), delivery |-> call[c].delivery]]
           /\ auth' = [auth EXCEPT ![a] = Spend(auth[a], Budget[a], Row(c), Debit(c))]
           /\ SetRow(c, [Row(c) EXCEPT !.status = "finalized"])
  <2>1. Moves(c) /\ call'[c].pc = "idle"
    BY <1>1, LeaveMoves DEF IInv
  <2>2. call[c].id \in Reservations /\ Row(c).req \in RequestType /\ Row(c).reserved \in Nat
    BY <1>1, AtWork DEF RowOK, RowType
  <2>3. Writes(call[c].id) /\ resv'[call[c].id].status = "finalized"
    BY <1>1, <1>3, StatusOnlyWrites
  <2>4. Sound' /\ Paying'
    BY <1>1, <2>1, <2>2, <2>3, RowMove DEF Early
  <2>5. Debit(c) \in Nat /\ Debit(c) <= Row(c).reserved
    <3>1. call[c].invoice.sats \in Nat /\ call[c].fee \in Nat
      BY <1>1, AtWork, InvoiceFields
    <3> QED
      BY <1>3, <3>1 DEF Debit, MayFinalize
  <2>6. receipt' \in [Reservations -> [debit : Nat, delivery : Deliveries]]
    <3>1. receipt \in [Reservations -> [debit : Nat, delivery : Deliveries]]
      BY Parts DEF Rest
    <3> QED
      BY <1>3, <2>2, <2>5, <3>1, CallFields
  <2>7. a \in Auths
    BY <2>2, RequestFields
  <2> DEFINE s == Spend(auth[a], Budget[a], Row(c), Debit(c))
  <2>8. /\ auth \in [Auths -> AuthType] /\ auth[a] \in AuthType
        /\ auth[a].spent \in Nat /\ auth[a].reserved \in Int /\ auth[a].calls \in Nat
        /\ Budget[a].total \in Nat
        /\ auth[a].spent + auth[a].reserved <= Budget[a].total
    BY <2>7, AuthFields
  <2>9. /\ s \in AuthType
        /\ s.spent = auth[a].spent + Debit(c)
        /\ s.reserved = auth[a].reserved - Row(c).reserved
    <3> HIDE DEF a
    <3> QED
      BY <2>2, <2>5, <2>8 DEF Spend, AuthType
  <2>10. auth' = [auth EXCEPT ![a] = s]
    BY <1>3
  <2>11. s.spent + s.reserved <= Budget[a].total
    <3> HIDE DEF a, s
    <3> QED
      BY <2>2, <2>5, <2>8, <2>9
  <2> HIDE DEF a, s
  <2>12. /\ auth' \in [Auths -> AuthType] /\ auth'[a] = s
         /\ \A b \in Auths \ {a} : auth'[b] = auth[b]
    BY <2>7, <2>8, <2>9, <2>10
  <2>13. Within'
    BY <2>11, <2>12, Parts DEF Within
  <2>14. Rest'
    BY <1>1, <2>6, <2>12, Parts DEF Rest
  <2> QED
    BY <2>4, <2>13, <2>14, PartsNext
<1> QED
  BY <1>2, <1>3 DEF finalize_paid_call

-----------------------------------------------------------------------------
\* Every step of an execution at work.
LEMMA WorkStep ==
    ASSUME IInv, NEW c \in Calls, Work(c)
    PROVE  IInv'
<1>1. CASE Settle(c)
  BY <1>1, MarkPaidStep DEF Settle, At, PCs
<1>2. CASE Resettle(c)
  BY <1>2, MarkPaidStep DEF Resettle, At, PCs
<1> QED
  BY <1>1, <1>2, BindStep, InitiateStep, PayStep, AnswerStep, CheckStep, ReleaseStep,
     DeliverStep, FinalizeStep, LookupStep DEF Work

\* The tables are empty and nobody is at work.
LEMMA InitIInv == Init => IInv
<1> SUFFICES ASSUME Init PROVE IInv
  OBVIOUS
<1>1. Sound
  BY AgentCommerceAssumption
  DEF Init, Sound, CallOK, RowOK, CallType, RowType, Idle, NoRow, PCs, Deliveries
<1>2. Rest
  BY DEF Init, Rest, AuthType, NoReceipt, Deliveries
<1>3. Within
  BY AgentCommerceAssumption DEF Init, Within
<1>4. Paying
  BY DEF Init, Paying, Idle
<1> QED
  BY <1>1, <1>2, <1>3, <1>4, Parts

\* Every step keeps the invariant.
LEMMA NextIInv == IInv /\ [Next]_vars => IInv'
<1> SUFFICES ASSUME IInv, [Next]_vars PROVE IInv'
  OBVIOUS
<1>1. CASE UNCHANGED vars
  <2>1. Sound' /\ Paying'
    BY <1>1 DEF vars, IInv, Sound, CallOK, RowOK, Paying
  <2> QED
    BY <1>1, <2>1, RestStays, PartsNext DEF vars
<1>2. CASE \E c \in Calls : execute(c)
  <2>1. PICK c \in Calls, req \in Requests, invoice \in Invoices :
          \/ reserve(c, req, invoice)
          \/ resume(c, req, invoice)
          \/ NoEffect(c, req, invoice)
    BY <1>2 DEF execute
  <2> QED
    BY <1>1, <2>1, ReserveStep, ResumeStep DEF NoEffect
<1>3. CASE \E a \in Auths : create(a) \/ revoke(a) \/ Expire(a)
  BY <1>3, AuthorizationStep
<1>4. CASE \E c \in Calls, r \in Reservations : reconcile_initiated_payment(c, r)
  BY <1>4, ReconcileStep
<1>5. CASE \E c \in Calls : Work(c) \/ Die(c)
  BY <1>5, WorkStep, DieStep
<1>6. CASE \E h \in Hashes : Lightning(h)
  BY <1>6, LightningStep
<1> QED
  BY <1>1, <1>2, <1>3, <1>4, <1>5, <1>6 DEF Next

\* The invariant holds in every reachable state.
THEOREM Invariance == Spec => []IInv
<1> QED
  BY InitIInv, NextIInv, PTL DEF Spec

\* Every column and every execution keeps its type.
THEOREM TypeCorrect == Spec => []TypeOK
<1>1. IInv => TypeOK
  BY DEF IInv
<1> QED
  BY <1>1, Invariance, PTL

\* "Atomic budget reservation prevents concurrent overspend" (the service's README):
\* what an authorization has spent and holds is within its total, however many
\* executions in however many processes reserve, release and finalize.
THEOREM BudgetNeverExceeded == Spec => []BudgetHolds
<1>1. IInv => BudgetHolds
  BY DEF IInv, Within, BudgetHolds
<1> QED
  BY <1>1, Invariance, PTL

\* "It never blindly pays twice" (the service's README): at most one payment request is sent
\* for a reservation, across retries, other invoices, deaths and reconciles.
THEOREM OnePaymentPerCall == Spec => []NeverPaysTwice
<1>1. IInv => NeverPaysTwice
  BY DEF IInv, Paying, NeverPaysTwice
<1> QED
  BY <1>1, Invariance, PTL

-----------------------------------------------------------------------------
(***************************************************************************)
(* The columns of an authorization: calls, reserved_sats and spent_sats    *)
(* are what the rows of its reservations and receipts say.                 *)
(***************************************************************************)

\* A row is the row of its request, and an authorization has finitely many open
\* reservations and receipts.
RowsFit == \A r \in Reservations : resv[r].req \in RequestType => Of(resv[r].req) = r
FewRows == \A a \in Auths : IsFiniteSet(Open(a)) /\ IsFiniteSet(Receipted(a))

\* The totals of the rows, and the numbers of the authorization.
Totals == \A a \in Auths : auth[a].reserved = Held(a) /\ auth[a].spent = Debited(a)

Columns == RowsFit /\ FewRows /\ CallsWithinLimit /\ Totals

\* An execution that is about to finalize knows how the delivery went.
Named ==
    \A c \in Calls :
        call[c].pc \in {"lookup", "resettle", "finalize"} => call[c].delivery # "none"

(***************************************************************************)
(* Money under way, when all executions share one event loop.              *)
(***************************************************************************)

\* The states of a reservation whose payment may have been sent.
Kept == {"payment_initiated", "paid", "finalized"}

\* The Lightning network has settled the invoice, at this fee.
Proven(invoice, fee) ==
    /\ lightning[invoice.hash].state = "settled"
    /\ lightning[invoice.hash].fee = fee

\* At most one execution is between two awaits.
Alone ==
    \A c, d \in Calls : c # d /\ call[c].pc \notin Awaiting => call[d].pc \in Awaiting

\* What an execution knows of its row and of its payment.
StageIsTrue(c) ==
    LET me == call[c]
        row == resv[call[c].id]
    IN
    /\ me.pc = "initiate" => row.status = "invoice_bound" /\ row.invoice = me.invoice
    /\ me.pc \in {"pay", "paying", "settle", "deliver", "finalize", "lookup", "resettle"} =>
         row.status \in Kept /\ row.invoice = me.invoice
    /\ me.pc \in {"settle", "resettle", "deliver", "finalize"} => Proven(me.invoice, me.fee)
    /\ me.pc = "release" => row.status \notin Kept

\* A reservation whose payment was sent is kept; one that is paid is proven, and
\* its receipt debits what was proven.
RowIsTrue(r) ==
    LET row == resv[r] IN
    /\ sent[r] > 0 => row.status \in Kept
    /\ row.status \in {"paid", "finalized"} =>
         row.invoice \in Invoices /\ Proven(row.invoice, row.fee)
    /\ row.status = "finalized" <=> receipt[r] # NoReceipt
    /\ receipt[r] # NoReceipt => receipt[r].debit = row.invoice.sats + row.fee

Flow ==
    /\ Alone
    /\ \A c \in Calls : StageIsTrue(c)
    /\ \A r \in Reservations : RowIsTrue(r)

-----------------------------------------------------------------------------
(* The columns, step by step. *)

\* A row's request, what it holds, and its receipt are of their types.
LEMMA RowFields ==
    ASSUME IInv, NEW r \in Reservations
    PROVE  /\ resv[r].reserved \in Nat /\ receipt[r].debit \in Nat
           /\ resv[r] \in RowType /\ receipt[r] \in [debit : Nat, delivery : Deliveries]
BY Parts DEF Sound, RowType, Rest

\* A step that opens and closes no reservation, writes no receipt and leaves the
\* numbers of the authorizations alone.
LEMMA ColumnsStay ==
    ASSUME IInv, Columns, receipt' = receipt,
           \A q \in Reservations :
               /\ resv'[q].req = resv[q].req /\ resv'[q].reserved = resv[q].reserved
               /\ resv'[q].status \in OPEN_RESERVATION_STATES <=>
                    resv[q].status \in OPEN_RESERVATION_STATES,
           \A b \in Auths : /\ auth'[b].reserved = auth[b].reserved
                            /\ auth'[b].spent = auth[b].spent
                            /\ auth'[b].calls = auth[b].calls
    PROVE  Columns'
<1>1. RowsFit'
  BY DEF Columns, RowsFit
<1>2. ASSUME NEW a \in Auths
      PROVE  /\ Open(a)' = Open(a) /\ Receipted(a)' = Receipted(a)
             /\ Held(a)' = Held(a) /\ Debited(a)' = Debited(a)
  <2>1. Open(a)' = Open(a)
    BY DEF Open
  <2>2. Receipted(a)' = Receipted(a)
    BY DEF Receipted
  <2>3. [r \in Open(a)' |-> resv'[r].reserved] = [r \in Open(a) |-> resv[r].reserved]
    BY <2>1 DEF Open
  <2> QED
    BY <2>1, <2>2, <2>3 DEF Held, Debited
<1>3. FewRows' /\ CallsWithinLimit' /\ Totals'
  BY <1>2 DEF Columns, FewRows, CallsWithinLimit, Totals
<1> QED
  BY <1>1, <1>3 DEF Columns

\* A step that writes no table.
LEMMA NothingWritten ==
    ASSUME IInv, Columns, UNCHANGED store PROVE Columns'
BY ColumnsStay DEF store

\* A step that only changes how far an open reservation is.
LEMMA RowWritten ==
    ASSUME IInv, Columns, NEW c \in Calls, call[c].pc # "idle", UNCHANGED <<auth, receipt>>,
           Row(c).status \in OPEN_RESERVATION_STATES,
           NEW w \in RowType, w.req = Row(c).req, w.reserved = Row(c).reserved,
           w.status \in OPEN_RESERVATION_STATES, SetRow(c, w)
    PROVE  Columns'
<1>1. /\ call[c].id \in Reservations /\ resv \in [Reservations -> RowType]
      /\ Row(c) = resv[call[c].id]
  BY AtWork DEF IInv, Sound
<1>2. resv' = [resv EXCEPT ![call[c].id] = w]
  BY DEF SetRow
<1>3. ASSUME NEW q \in Reservations
      PROVE  /\ resv'[q].req = resv[q].req /\ resv'[q].reserved = resv[q].reserved
             /\ resv'[q].status \in OPEN_RESERVATION_STATES <=>
                    resv[q].status \in OPEN_RESERVATION_STATES
  BY <1>1, <1>2
<1> QED
  BY <1>3, ColumnsStay

\* Authorizations change their status.
LEMMA AuthorizationColumns ==
    ASSUME IInv, Columns, NEW a \in Auths, create(a) \/ revoke(a) \/ Expire(a)
    PROVE  Columns'
<1>1. UNCHANGED <<resv, receipt>>
  BY DEF create, revoke, Expire, store
<1>2. \/ auth' = auth
      \/ \E s : auth' = [auth EXCEPT ![a].status = s]
  BY DEF create, revoke, Expire, store
<1>3. auth \in [Auths -> AuthType]
  BY Parts DEF Rest
<1>4. \A b \in Auths : /\ auth'[b].reserved = auth[b].reserved
                       /\ auth'[b].spent = auth[b].spent
                       /\ auth'[b].calls = auth[b].calls
  BY <1>2, <1>3 DEF AuthType
<1> QED
  BY <1>1, <1>4, ColumnsStay

\* One reservation of authorization a opens or closes.
LEMMA OneRow ==
    ASSUME NEW r \in Reservations, NEW a, r[1] = a,
           \A q \in Reservations \ {r} : resv'[q] = resv[q]
    PROVE  /\ \A b \in Auths \ {a} :
                Open(b)' = Open(b) /\ [q \in Open(b)' |-> resv'[q].reserved] =
                                        [q \in Open(b) |-> resv[q].reserved]
           /\ resv'[r].status \in OPEN_RESERVATION_STATES => Open(a)' = Open(a) \cup {r}
           /\ resv'[r].status \notin OPEN_RESERVATION_STATES => Open(a)' = Open(a) \ {r}
           /\ resv[r].status \in OPEN_RESERVATION_STATES <=> r \in Open(a)
           /\ Open(a) \subseteq Reservations
BY DEF Open

\* reserve opens one reservation, of the call that was left, for what it holds.
LEMMA ReserveColumns ==
    ASSUME IInv, Columns, NEW c \in Calls, NEW req \in Requests, NEW invoice \in Invoices,
           reserve(c, req, invoice)
    PROVE  Columns'
<1> DEFINE a == req.auth
           r == Of(req)
<1>1. /\ req \in RequestType /\ a \in Auths /\ r \in Reservations /\ req.quoted \in Nat
      /\ r[1] = a /\ Budget[a].calls \in Nat
  BY RequestFields, AgentCommerceAssumption DEF RequestType, Of
<1>2. /\ auth \in [Auths -> AuthType] /\ auth[a].reserved \in Int /\ auth[a].calls \in Nat
      /\ Budget[a].fee \in Nat
  BY <1>1, AuthFields
<1>3. PICK ceiling \in Ceilings(req.quoted) :
        /\ MayReserve(req, ceiling)
        /\ resv' = [resv EXCEPT ![Of(req)] =
                      [status |-> "reserved", req |-> req,
                       reserved |-> ceiling + Budget[req.auth].fee,
                       invoice |-> NoInvoice, fee |-> 0]]
        /\ auth' = [auth EXCEPT ![req.auth].reserved =
                      @ + ceiling + Budget[req.auth].fee]
  BY DEF reserve
<1>4. ceiling \in Nat
  BY <1>1 DEF Ceilings, MaxAdvertised
<1>5. PICK n \in Nat : n = ceiling + Budget[a].fee
  BY <1>2, <1>4
<1>6. /\ auth'[a].reserved = auth[a].reserved + n
      /\ auth'[a].spent = auth[a].spent /\ auth'[a].calls = auth[a].calls
      /\ \A b \in Auths \ {a} : auth'[b] = auth[b]
  BY <1>1, <1>2, <1>3, <1>4, <1>5 DEF AuthType
<1>7. /\ resv'[r].status = "reserved" /\ resv'[r].req = req /\ resv'[r].reserved = n
      /\ \A q \in Reservations \ {r} : resv'[q] = resv[q]
  <2>1. resv \in [Reservations -> RowType]
    BY DEF IInv, Sound
  <2> QED
    BY <1>1, <1>3, <1>5, <2>1
<1>8. /\ resv[r].status = "none" /\ receipt' = receipt /\ CallLeft(a)
  BY <1>3 DEF reserve, MayReserve
<1> HIDE DEF a, r
<1>9. r \notin Open(a) /\ Open(a)' = Open(a) \cup {r} /\ Open(a) \subseteq Reservations
  BY <1>1, <1>7, <1>8, OneRow DEF OPEN_RESERVATION_STATES
<1>10. \A b \in Auths : Receipted(b)' = Receipted(b) /\ Debited(b)' = Debited(b)
  BY <1>8 DEF Receipted, Debited
<1>11. \A b \in Auths \ {a} : Open(b)' = Open(b) /\ Held(b)' = Held(b)
  BY <1>1, <1>7, OneRow DEF Held
<1>12. IsFiniteSet(Open(a)) /\ Cardinality(Open(a)) \in Nat
  BY <1>1, FS_CardinalityType DEF Columns, FewRows
<1>13. IsFiniteSet(Open(a)') /\ Cardinality(Open(a)') = Cardinality(Open(a)) + 1
  BY <1>9, <1>12, FS_AddElement
<1>14. Held(a)' = Held(a) + n
  <2> DEFINE f == [q \in Open(a) |-> resv[q].reserved]
             g == [q \in Open(a)' |-> resv'[q].reserved]
  <2>1. \A q \in Open(a) : f[q] \in Int /\ g[q] = f[q]
    BY <1>7, <1>9, RowFields
  <2>2. g[r] = n
    BY <1>7, <1>9
  <2>3. Held(a) = SumFunctionOnSet(f, Open(a)) /\ Held(a)' = SumFunctionOnSet(g, Open(a)')
    BY DEF Held
  <2> HIDE DEF f, g
  <2>4. SumFunctionOnSet(g, Open(a) \cup {r}) = SumFunctionOnSet(f, Open(a)) + g[r]
    BY <1>9, <1>12, <2>1, <2>2, SumGrown
  <2> QED
    BY <1>9, <2>2, <2>3, <2>4
<1>15. RowsFit'
  BY <1>7 DEF Columns, RowsFit, r
<1>16. FewRows'
  BY <1>10, <1>11, <1>13 DEF Columns, FewRows
<1>17. CallsWithinLimit'
  <2>1. auth'[a].calls + Cardinality(Open(a)') <= Budget[a].calls
    BY <1>1, <1>2, <1>6, <1>8, <1>12, <1>13 DEF CallLeft
  <2> QED
    BY <1>6, <1>11, <2>1 DEF Columns, CallsWithinLimit
<1>18. Totals'
  <2>1. auth'[a].reserved = Held(a)' /\ auth'[a].spent = Debited(a)'
    BY <1>1, <1>6, <1>10, <1>14 DEF Columns, Totals
  <2>2. ASSUME NEW b \in Auths \ {a}
        PROVE  auth'[b].reserved = Held(b)' /\ auth'[b].spent = Debited(b)'
    <3>1. b \in Auths /\ auth[b].reserved = Held(b) /\ auth[b].spent = Debited(b)
      BY DEF Columns, Totals
    <3>2. auth'[b] = auth[b] /\ Held(b)' = Held(b) /\ Debited(b)' = Debited(b)
      BY <1>6, <1>10, <1>11, <3>1
    <3> QED
      BY ONLY <3>1, <3>2
  <2> QED
    BY <2>1, <2>2 DEF Totals
<1> QED
  BY <1>15, <1>16, <1>17, <1>18 DEF Columns

\* Closing the reservation of an execution frees one call and what the row held.
LEMMA RowCloses ==
    ASSUME IInv, Columns, NEW c \in Calls, call[c].pc # "idle",
           Row(c).status \in OPEN_RESERVATION_STATES,
           NEW w \in RowType, w.req = Row(c).req, w.status \notin OPEN_RESERVATION_STATES,
           SetRow(c, w), NEW a, a = Row(c).req.auth
    PROVE  /\ a \in Auths /\ call[c].id[1] = a /\ call[c].id \in Reservations
           /\ IsFiniteSet(Open(a)') /\ Cardinality(Open(a)) \in Nat
           /\ Cardinality(Open(a)') = Cardinality(Open(a)) - 1
           /\ Held(a) \in Int /\ Held(a)' = Held(a) - Row(c).reserved
           /\ \A b \in Auths \ {a} : Open(b)' = Open(b) /\ Held(b)' = Held(b)
           /\ RowsFit'
<1> DEFINE r == call[c].id
<1>1. /\ r \in Reservations /\ resv \in [Reservations -> RowType] /\ Row(c) = resv[r]
      /\ RowOK(Row(c)) /\ Row(c).status # "none"
  BY AtWork DEF IInv, Sound
<1>2. resv[r].req \in RequestType /\ Of(resv[r].req) = r
  BY <1>1 DEF RowOK, Columns, RowsFit
<1>3. a \in Auths /\ r[1] = a
  <2>1. a = resv[r].req.auth
    BY <1>1
  <2>2. \A req : Of(req)[1] = req.auth
    BY DEF Of
  <2> QED
    BY <1>2, <2>1, <2>2, RequestFields
<1>4. resv'[r] = w /\ \A q \in Reservations \ {r} : resv'[q] = resv[q]
  BY <1>1 DEF SetRow
<1> HIDE DEF r
<1>5. /\ r \in Open(a) /\ Open(a)' = Open(a) \ {r} /\ Open(a) \subseteq Reservations
      /\ \A b \in Auths \ {a} :
           Open(b)' = Open(b) /\ [q \in Open(b)' |-> resv'[q].reserved] =
                                   [q \in Open(b) |-> resv[q].reserved]
  BY <1>1, <1>3, <1>4, OneRow
<1>6. IsFiniteSet(Open(a)) /\ Cardinality(Open(a)) \in Nat
  BY <1>3, FS_CardinalityType DEF Columns, FewRows
<1>7. IsFiniteSet(Open(a)') /\ Cardinality(Open(a)') = Cardinality(Open(a)) - 1
  BY <1>5, <1>6, FS_RemoveElement
<1>8. Held(a) \in Int /\ Held(a)' = Held(a) - Row(c).reserved
  <2> DEFINE f == [q \in Open(a) |-> resv[q].reserved]
             g == [q \in Open(a)' |-> resv'[q].reserved]
  <2>1. \A q \in Open(a) : f[q] \in Int
    BY <1>5, RowFields
  <2>2. \A q \in Open(a) \ {r} : g[q] = f[q]
    BY <1>4, <1>5
  <2>3. f[r] = Row(c).reserved
    BY <1>1, <1>5
  <2>4. Held(a) = SumFunctionOnSet(f, Open(a)) /\ Held(a)' = SumFunctionOnSet(g, Open(a)')
    BY DEF Held
  <2> HIDE DEF f, g
  <2>5. SumFunctionOnSet(g, Open(a) \ {r}) = SumFunctionOnSet(f, Open(a)) - f[r]
    BY <1>5, <1>6, <2>1, <2>2, SumShrunk
  <2>6. SumFunctionOnSet(f, Open(a)) \in Int
    BY <1>6, <2>1, SumInt
  <2> QED
    BY <1>5, <2>3, <2>4, <2>5, <2>6
<1>9. \A b \in Auths \ {a} : Held(b)' = Held(b)
  BY <1>5 DEF Held
<1>10. RowsFit'
  BY <1>1, <1>4 DEF Columns, RowsFit
<1> QED
  BY <1>1, <1>3, <1>5, <1>6, <1>7, <1>8, <1>9, <1>10 DEF r

\* release gives the call and its money back.
LEMMA ReleaseColumns ==
    ASSUME IInv, Columns, NEW c \in Calls, release(c) PROVE Columns'
<1>1. call[c].pc = "release" /\ receipt' = receipt
  BY DEF release, At
<1>2. CASE UNCHANGED <<resv, auth>>
  BY <1>1, <1>2, NothingWritten DEF store
<1>3. CASE /\ Row(c).status \notin {"released", "finalized", "paid"}
           /\ SetRow(c, [Row(c) EXCEPT !.status = "released"])
           /\ auth' = [auth EXCEPT ![Row(c).req.auth].reserved = @ - Row(c).reserved]
  <2> DEFINE w == [Row(c) EXCEPT !.status = "released"]
  <2>1. PICK a : a = Row(c).req.auth
    OBVIOUS
  <2>2. /\ w \in RowType /\ w.req = Row(c).req /\ w.status = "released"
        /\ Row(c).status \in OPEN_RESERVATION_STATES /\ Row(c).reserved \in Nat
    BY <1>1, <1>3, AtWork DEF RowOK, RowType, OPEN_RESERVATION_STATES
  <2>3. SetRow(c, w) /\ w.status \notin OPEN_RESERVATION_STATES
    BY <1>3, <2>2 DEF OPEN_RESERVATION_STATES
  <2> HIDE DEF w
  <2>4. /\ a \in Auths
        /\ IsFiniteSet(Open(a)') /\ Cardinality(Open(a)) \in Nat
        /\ Cardinality(Open(a)') = Cardinality(Open(a)) - 1
        /\ Held(a) \in Int /\ Held(a)' = Held(a) - Row(c).reserved
        /\ \A b \in Auths \ {a} : Open(b)' = Open(b) /\ Held(b)' = Held(b)
        /\ RowsFit'
    BY <1>1, <2>1, <2>2, <2>3, RowCloses
  <2>5. \A b \in Auths : Receipted(b)' = Receipted(b) /\ Debited(b)' = Debited(b)
    BY <1>1 DEF Receipted, Debited
  <2>6. /\ auth'[a].reserved = auth[a].reserved - Row(c).reserved
        /\ auth'[a].spent = auth[a].spent /\ auth'[a].calls = auth[a].calls
        /\ \A b \in Auths \ {a} : auth'[b] = auth[b]
    BY <1>3, <2>1, <2>4, AuthFields DEF AuthType
  <2>7. FewRows'
    BY <2>4, <2>5 DEF Columns, FewRows
  <2>8. CallsWithinLimit'
    <3>1. auth[a].calls \in Nat /\ Budget[a].calls \in Nat
      BY <2>4, AuthFields, AgentCommerceAssumption
    <3>2. auth'[a].calls + Cardinality(Open(a)') <= Budget[a].calls
      BY <2>4, <2>6, <3>1 DEF Columns, CallsWithinLimit
    <3> QED
      BY <2>4, <2>6, <3>2 DEF Columns, CallsWithinLimit
  <2>9. Totals'
    BY <2>4, <2>5, <2>6 DEF Columns, Totals
  <2> QED
    BY <2>4, <2>7, <2>8, <2>9 DEF Columns
<1> QED
  BY <1>2, <1>3 DEF release

\* A new receipt of an authorization adds its debit.
LEMMA ReceiptAdds ==
    ASSUME IInv, Columns, NEW r \in Reservations, NEW a \in Auths, r[1] = a,
           receipt[r] = NoReceipt, NEW x, x # NoReceipt, x.debit \in Nat,
           receipt' = [receipt EXCEPT ![r] = x]
    PROVE  /\ IsFiniteSet(Receipted(a)')
           /\ Debited(a)' = Debited(a) + x.debit
           /\ \A b \in Auths \ {a} : Receipted(b)' = Receipted(b) /\ Debited(b)' = Debited(b)
<1>1. receipt \in [Reservations -> [debit : Nat, delivery : Deliveries]]
  BY Parts DEF Rest
<1>2. receipt'[r] = x /\ \A q \in Reservations \ {r} : receipt'[q] = receipt[q]
  BY <1>1
<1>3. /\ Receipted(a)' = Receipted(a) \cup {r} /\ r \notin Receipted(a)
      /\ Receipted(a) \subseteq Reservations
  BY <1>2 DEF Receipted
<1>4. ASSUME NEW b \in Auths \ {a}
      PROVE  Receipted(b)' = Receipted(b) /\ Debited(b)' = Debited(b)
  <2>1. Receipted(b)' = Receipted(b)
    BY <1>2 DEF Receipted
  <2>2. [q \in Receipted(b)' |-> receipt'[q].debit] = [q \in Receipted(b) |-> receipt[q].debit]
    BY <1>2, <2>1 DEF Receipted
  <2> QED
    BY <2>1, <2>2 DEF Debited
<1>5. IsFiniteSet(Receipted(a))
  BY DEF Columns, FewRows
<1>6. IsFiniteSet(Receipted(a)')
  BY <1>3, <1>5, FS_AddElement
<1>7. Debited(a)' = Debited(a) + x.debit
  <2> DEFINE f == [q \in Receipted(a) |-> receipt[q].debit]
             g == [q \in Receipted(a)' |-> receipt'[q].debit]
  <2>1. \A q \in Receipted(a) : f[q] \in Int /\ g[q] = f[q]
    BY <1>2, <1>3, RowFields
  <2>2. g[r] = x.debit /\ x.debit \in Int
    BY <1>2, <1>3
  <2>3. /\ Debited(a) = SumFunctionOnSet(f, Receipted(a))
        /\ Debited(a)' = SumFunctionOnSet(g, Receipted(a)')
    BY DEF Debited
  <2> HIDE DEF f, g
  <2>4. SumFunctionOnSet(g, Receipted(a) \cup {r}) = SumFunctionOnSet(f, Receipted(a)) + g[r]
    BY <1>3, <1>5, <2>1, <2>2, SumGrown
  <2> QED
    BY <1>3, <2>2, <2>3, <2>4
<1> QED
  BY <1>4, <1>6, <1>7

\* finalize_paid_call closes the reservation, counts the call and debits it.
LEMMA FinalizeColumns ==
    ASSUME IInv, Columns, Named, NEW c \in Calls, finalize_paid_call(c) PROVE Columns'
<1>1. call[c].pc = "finalize"
  BY DEF finalize_paid_call, At
<1>2. CASE UNCHANGED <<receipt, auth, resv>>
  BY <1>1, <1>2, NothingWritten DEF store
<1>3. CASE /\ receipt[call[c].id] = NoReceipt /\ MayFinalize(c)
           /\ receipt' = [receipt EXCEPT ![call[c].id] =
                [debit |-> Debit(c), delivery |-> call[c].delivery]]
           /\ auth' = [auth EXCEPT ![Row(c).req.auth] =
                Spend(auth[Row(c).req.auth], Budget[Row(c).req.auth], Row(c), Debit(c))]
           /\ SetRow(c, [Row(c) EXCEPT !.status = "finalized"])
  <2> DEFINE w == [Row(c) EXCEPT !.status = "finalized"]
             x == [debit |-> Debit(c), delivery |-> call[c].delivery]
  <2>1. PICK a : a = Row(c).req.auth
    OBVIOUS
  <2>2. /\ w \in RowType /\ w.req = Row(c).req /\ w.status = "finalized"
        /\ Row(c).status \in OPEN_RESERVATION_STATES /\ Row(c).reserved \in Nat
    BY <1>1, <1>3, AtWork DEF RowOK, RowType, OPEN_RESERVATION_STATES, MayFinalize
  <2>3. SetRow(c, w) /\ w.status \notin OPEN_RESERVATION_STATES
    BY <1>3, <2>2 DEF OPEN_RESERVATION_STATES
  <2> HIDE DEF w
  <2>4. /\ a \in Auths /\ call[c].id \in Reservations /\ call[c].id[1] = a
        /\ IsFiniteSet(Open(a)') /\ Cardinality(Open(a)) \in Nat
        /\ Cardinality(Open(a)') = Cardinality(Open(a)) - 1
        /\ Held(a) \in Int /\ Held(a)' = Held(a) - Row(c).reserved
        /\ \A b \in Auths \ {a} : Open(b)' = Open(b) /\ Held(b)' = Held(b)
        /\ RowsFit'
    BY <1>1, <2>1, <2>2, <2>3, RowCloses
  <2>5. x.debit = Debit(c) /\ x.debit \in Nat
    BY <1>1, AtWork, InvoiceFields DEF Debit
  <2>6. x # NoReceipt
    BY <1>1 DEF NoReceipt, Named
  <2>7. receipt' = [receipt EXCEPT ![call[c].id] = x]
    BY <1>3
  <2> HIDE DEF x
  <2>8. /\ IsFiniteSet(Receipted(a)')
        /\ Debited(a)' = Debited(a) + x.debit
        /\ \A b \in Auths \ {a} : Receipted(b)' = Receipted(b) /\ Debited(b)' = Debited(b)
    <3>1. PICK r \in Reservations : r = call[c].id
      BY <2>4
    <3>2. receipt[r] = NoReceipt /\ r[1] = a /\ a \in Auths
      BY <1>3, <2>4, <3>1
    <3>3. receipt' = [receipt EXCEPT ![r] = x]
      BY <2>7, <3>1
    <3> QED
      BY <2>5, <2>6, <3>2, <3>3, ReceiptAdds
  <2>9. /\ auth'[a].reserved = auth[a].reserved - Row(c).reserved
        /\ auth'[a].spent = auth[a].spent + Debit(c)
        /\ auth'[a].calls = auth[a].calls + 1
        /\ \A b \in Auths \ {a} : auth'[b] = auth[b]
    <3>1. auth' = [auth EXCEPT ![a] = Spend(auth[a], Budget[a], Row(c), Debit(c))]
      BY <1>3, <2>1
    <3>2. auth'[a] = Spend(auth[a], Budget[a], Row(c), Debit(c))
          /\ \A b \in Auths \ {a} : auth'[b] = auth[b]
      BY <2>4, <3>1, AuthFields
    <3> QED
      BY <3>2 DEF Spend
  <2>10. FewRows'
    BY <2>4, <2>8 DEF Columns, FewRows
  <2>11. CallsWithinLimit'
    <3>1. auth[a].calls \in Nat /\ Budget[a].calls \in Nat
      BY <2>4, AuthFields, AgentCommerceAssumption
    <3>2. auth'[a].calls + Cardinality(Open(a)') <= Budget[a].calls
      BY <2>4, <2>9, <3>1 DEF Columns, CallsWithinLimit
    <3> QED
      BY <2>4, <2>9, <3>2 DEF Columns, CallsWithinLimit
  <2>12. Totals'
    BY <2>4, <2>5, <2>8, <2>9 DEF Columns, Totals
  <2> QED
    BY <2>4, <2>10, <2>11, <2>12 DEF Columns
<1> QED
  BY <1>2, <1>3 DEF finalize_paid_call

\* bind_invoice, mark_payment_initiated and mark_paid change how far a row is.
LEMMA ProgressColumns ==
    ASSUME IInv, Columns, NEW c \in Calls,
           \/ bind_invoice(c) \/ mark_payment_initiated(c) \/ Settle(c) \/ Resettle(c)
    PROVE  Columns'
<1>1. call[c].pc # "idle" /\ UNCHANGED <<auth, receipt>>
  BY DEF bind_invoice, mark_payment_initiated, Settle, Resettle, At
<1>2. CASE UNCHANGED resv
  BY <1>1, <1>2, NothingWritten DEF store
<1>3. /\ Row(c) \in RowType /\ call[c].fee \in Nat /\ call[c].invoice \in InvoiceType
  BY <1>1, AtWork, InvoiceFields DEF RowOK
<1>4. CASE /\ Row(c).status \in {"reserved", "invoice_bound"}
           /\ SetRow(c, [Row(c) EXCEPT !.status = "invoice_bound",
                                       !.invoice = call[c].invoice])
  <2> DEFINE w == [Row(c) EXCEPT !.status = "invoice_bound", !.invoice = call[c].invoice]
  <2>1. /\ w \in RowType /\ w.req = Row(c).req /\ w.reserved = Row(c).reserved
        /\ w.status = "invoice_bound" /\ SetRow(c, w)
    BY <1>3, <1>4 DEF RowType, OPEN_RESERVATION_STATES
  <2> HIDE DEF w
  <2> QED
    BY <1>1, <1>4, <2>1, RowWritten DEF OPEN_RESERVATION_STATES
<1>5. CASE /\ Row(c).status = "invoice_bound"
           /\ SetRow(c, [Row(c) EXCEPT !.status = "payment_initiated"])
  <2> DEFINE w == [Row(c) EXCEPT !.status = "payment_initiated"]
  <2>1. /\ w \in RowType /\ w.req = Row(c).req /\ w.reserved = Row(c).reserved
        /\ w.status = "payment_initiated" /\ SetRow(c, w)
    BY <1>3, <1>5 DEF RowType, OPEN_RESERVATION_STATES
  <2> HIDE DEF w
  <2> QED
    BY <1>1, <1>5, <2>1, RowWritten DEF OPEN_RESERVATION_STATES
<1>6. CASE /\ Row(c).status = "payment_initiated"
           /\ SetRow(c, [Row(c) EXCEPT !.status = "paid", !.fee = call[c].fee])
  <2> DEFINE w == [Row(c) EXCEPT !.status = "paid", !.fee = call[c].fee]
  <2>1. /\ w \in RowType /\ w.req = Row(c).req /\ w.reserved = Row(c).reserved
        /\ w.status = "paid" /\ SetRow(c, w)
    BY <1>3, <1>6 DEF RowType, OPEN_RESERVATION_STATES
  <2> HIDE DEF w
  <2> QED
    BY <1>1, <1>6, <2>1, RowWritten DEF OPEN_RESERVATION_STATES
<1>7. CASE bind_invoice(c)
  BY <1>2, <1>4, <1>7 DEF bind_invoice
<1>8. CASE mark_payment_initiated(c)
  BY <1>2, <1>5, <1>8 DEF mark_payment_initiated
<1>9. CASE Settle(c) \/ Resettle(c)
  BY <1>2, <1>6, <1>9 DEF Settle, Resettle, mark_paid, Settles
<1> QED
  BY <1>7, <1>8, <1>9

\* Every step keeps the columns.
LEMMA ColumnsStep ==
    ASSUME IInv, Columns, Named, [Next]_vars PROVE Columns'
<1>1. CASE UNCHANGED vars
  BY <1>1, NothingWritten DEF vars, store
<1>2. ASSUME NEW a \in Auths, create(a) \/ revoke(a) \/ Expire(a) PROVE Columns'
  BY <1>2, AuthorizationColumns
<1>3. ASSUME NEW c \in Calls, execute(c) PROVE Columns'
  <2>1. PICK req \in Requests, invoice \in Invoices :
          \/ reserve(c, req, invoice)
          \/ resume(c, req, invoice)
          \/ NoEffect(c, req, invoice)
    BY <1>3 DEF execute
  <2>2. CASE reserve(c, req, invoice)
    BY <2>2, ReserveColumns
  <2>3. CASE resume(c, req, invoice)
    BY <2>3, NothingWritten DEF resume
  <2>4. CASE NoEffect(c, req, invoice)
    BY <2>4, <1>1 DEF NoEffect
  <2> QED
    BY <2>1, <2>2, <2>3, <2>4
<1>4. ASSUME NEW c \in Calls, NEW r \in Reservations, reconcile_initiated_payment(c, r)
      PROVE  Columns'
  BY <1>4, NothingWritten DEF reconcile_initiated_payment
<1>5. ASSUME NEW c \in Calls, Work(c) PROVE Columns'
  <2>1. CASE bind_invoice(c) \/ mark_payment_initiated(c) \/ Settle(c) \/ Resettle(c)
    BY <2>1, ProgressColumns
  <2>2. CASE release(c)
    BY <2>2, ReleaseColumns
  <2>3. CASE finalize_paid_call(c)
    BY <2>3, FinalizeColumns
  <2>4. CASE \/ pay_invoice(c) \/ PaymentAnswer(c) \/ CheckRelease(c) \/ Deliver(c)
             \/ lookup_payment(c) \/ Refused(c)
    BY <2>4, NothingWritten
    DEF pay_invoice, PaymentAnswer, CheckRelease, Deliver, lookup_payment, LookupProves,
        LookupFails, Refused
  <2> QED
    BY <1>5, <2>1, <2>2, <2>3, <2>4 DEF Work
<1>6. ASSUME NEW c \in Calls, Die(c) PROVE Columns'
  BY <1>6, NothingWritten DEF Die
<1>7. ASSUME NEW h \in Hashes, Lightning(h) PROVE Columns'
  BY <1>7, NothingWritten DEF Lightning
<1> QED
  BY <1>1, <1>2, <1>3, <1>4, <1>5, <1>6, <1>7 DEF Next

-----------------------------------------------------------------------------
(* How an execution moves. *)

\* A step of one execution leaves the others where they are.
OnlyMoves(c) == \A d \in Calls \ {c} : call'[d] = call[d]

\* Goto changes where the execution is, Leave forgets everything.
LEMMA GotoGoes ==
    ASSUME IInv, NEW c \in Calls, NEW pc, Goto(c, pc)
    PROVE  /\ OnlyMoves(c) /\ call'[c].pc = pc /\ call'[c].id = call[c].id
           /\ call'[c].invoice = call[c].invoice /\ call'[c].fee = call[c].fee
           /\ call'[c].delivery = call[c].delivery
BY CallFields DEF Goto, OnlyMoves, CallType

\* The execution ends.
LEMMA LeaveGoes ==
    ASSUME IInv, NEW c \in Calls, Leave(c) PROVE OnlyMoves(c) /\ call'[c].pc = "idle"
BY CallFields DEF Leave, OnlyMoves, Idle

\* reserve and resume begin an execution at "bind" or "check".
LEMMA BeginGoes ==
    ASSUME IInv, NEW c \in Calls, NEW req \in Requests, NEW invoice \in Invoices,
           reserve(c, req, invoice) \/ resume(c, req, invoice)
    PROVE  /\ OnlyMoves(c) /\ MayRun(c) /\ call'[c].pc \in {"bind", "check"}
           /\ call'[c].id = Of(req)
<1>1. call \in [Calls -> CallType]
  BY CallFields
<1>2. CASE reserve(c, req, invoice)
  BY <1>1, <1>2 DEF reserve, Idle, OnlyMoves, At
<1>3. CASE resume(c, req, invoice)
  BY <1>1, <1>3 DEF resume, Idle, OnlyMoves, At
<1> QED
  BY <1>2, <1>3

\* reconcile_initiated_payment begins with the invoice of the row.
LEMMA ReconcileGoes ==
    ASSUME IInv, NEW c \in Calls, NEW r \in Reservations, reconcile_initiated_payment(c, r)
    PROVE  /\ OnlyMoves(c) /\ MayRun(c)
           /\ call'[c].id = r /\ call'[c].invoice = resv[r].invoice
           /\ call'[c].delivery = "delivery_unknown"
           /\ \/ call'[c].pc = "lookup" /\ resv[r].status = "payment_initiated"
              \/ /\ call'[c].pc = "finalize" /\ resv[r].status = "paid"
                 /\ call'[c].fee = resv[r].fee
<1>1. call \in [Calls -> CallType]
  BY CallFields
<1>2. CASE /\ resv[r].status = "payment_initiated"
           /\ call' = [call EXCEPT ![c] =
                [[Idle EXCEPT !.id = r, !.invoice = resv[r].invoice,
                              !.delivery = "delivery_unknown"] EXCEPT !.pc = "lookup"]]
  BY <1>1, <1>2 DEF reconcile_initiated_payment, Idle, OnlyMoves, At
<1>3. CASE /\ resv[r].status = "paid"
           /\ call' = [call EXCEPT ![c] =
                [[Idle EXCEPT !.id = r, !.invoice = resv[r].invoice,
                              !.delivery = "delivery_unknown"]
                    EXCEPT !.pc = "finalize", !.fee = resv[r].fee]]
  BY <1>1, <1>3 DEF reconcile_initiated_payment, Idle, OnlyMoves, At
<1> QED
  BY <1>2, <1>3 DEF reconcile_initiated_payment

\* PaymentAnswer and lookup_payment bring a settlement and its fee.
LEMMA AnswerGoes ==
    ASSUME IInv, NEW c \in Calls, NEW pc, NEW fee,
           call' = [call EXCEPT ![c].pc = pc, ![c].fee = fee]
    PROVE  /\ OnlyMoves(c) /\ call'[c].pc = pc /\ call'[c].id = call[c].id
           /\ call'[c].invoice = call[c].invoice /\ call'[c].fee = fee
           /\ call'[c].delivery = call[c].delivery
BY CallFields DEF OnlyMoves, CallType

\* Deliver brings an outcome.
LEMMA DeliverGoes ==
    ASSUME IInv, NEW c \in Calls, NEW d,
           call' = [call EXCEPT ![c].pc = "finalize", ![c].delivery = d]
    PROVE  /\ OnlyMoves(c) /\ call'[c].pc = "finalize" /\ call'[c].id = call[c].id
           /\ call'[c].invoice = call[c].invoice /\ call'[c].fee = call[c].fee
           /\ call'[c].delivery = d
BY CallFields DEF OnlyMoves, CallType

\* One execution moves, and knows the outcome of the delivery where it must.
LEMMA NamedMove ==
    ASSUME Named, NEW c \in Calls, OnlyMoves(c),
           call'[c].pc \in {"lookup", "resettle", "finalize"} => call'[c].delivery # "none"
    PROVE  Named'
BY DEF Named, OnlyMoves

\* Every step of an execution at work keeps Named.
LEMMA NamedWork ==
    ASSUME IInv, Named, NEW c \in Calls, Work(c) PROVE Named'
<1>1. ASSUME NEW pc, Goto(c, pc), pc \notin {"lookup", "resettle", "finalize"} PROVE Named'
  BY <1>1, GotoGoes, NamedMove
<1>2. CASE Leave(c)
  BY <1>2, LeaveGoes, NamedMove
<1>3. CASE Resettle(c)
  <2>1. call[c].delivery # "none" /\ (Goto(c, "finalize") \/ Goto(c, "refused"))
    BY <1>3 DEF Resettle, At, Named, mark_paid
  <2> QED
    BY <2>1, GotoGoes, NamedMove
<1>4. CASE lookup_payment(c)
  <2>1. CASE Leave(c)
    BY <1>2, <2>1
  <2>2. CASE \E fee : call' = [call EXCEPT ![c].pc = "resettle", ![c].fee = fee]
    <3>1. call[c].delivery # "none"
      BY <1>4 DEF lookup_payment, LookupProves, LookupFails, At, Named
    <3>2. PICK fee : call' = [call EXCEPT ![c].pc = "resettle", ![c].fee = fee]
      BY <2>2
    <3>3. OnlyMoves(c) /\ call'[c].delivery = call[c].delivery
      BY <3>2, AnswerGoes
    <3> QED
      BY <3>1, <3>3, NamedMove
  <2> QED
    BY <1>4, <2>1, <2>2 DEF lookup_payment, LookupProves, LookupFails
<1>5. CASE Deliver(c)
  <2>1. PICK d \in {"delivered", "delivery_failed"} :
          call' = [call EXCEPT ![c].pc = "finalize", ![c].delivery = d]
    BY <1>5 DEF Deliver
  <2> QED
    BY <2>1, DeliverGoes, NamedMove
<1>6. CASE PaymentAnswer(c)
  <2>1. CASE \E fee : call' = [call EXCEPT ![c].pc = "settle", ![c].fee = fee]
    <3>1. PICK fee : call' = [call EXCEPT ![c].pc = "settle", ![c].fee = fee]
      BY <2>1
    <3>2. OnlyMoves(c) /\ call'[c].pc = "settle"
      BY <3>1, AnswerGoes
    <3> QED
      BY <3>2, NamedMove
  <2> QED
    BY <1>1, <1>6, <2>1 DEF PaymentAnswer
<1>7. CASE \/ bind_invoice(c) \/ mark_payment_initiated(c) \/ pay_invoice(c) \/ Settle(c)
           \/ CheckRelease(c) \/ release(c) \/ finalize_paid_call(c) \/ Refused(c)
  BY <1>1, <1>2, <1>7 DEF bind_invoice, mark_payment_initiated, pay_invoice, Settle,
     mark_paid, CheckRelease, release, finalize_paid_call, Refused
<1> QED
  BY <1>3, <1>4, <1>5, <1>6, <1>7 DEF Work

\* Every step keeps Named.
LEMMA NamedStep == ASSUME IInv, Named, [Next]_vars PROVE Named'
<1>1. CASE call' = call
  BY <1>1 DEF Named
<1>2. ASSUME NEW c \in Calls, execute(c) PROVE Named'
  <2>1. PICK req \in Requests, invoice \in Invoices :
          \/ reserve(c, req, invoice)
          \/ resume(c, req, invoice)
          \/ NoEffect(c, req, invoice)
    BY <1>2 DEF execute
  <2>2. CASE reserve(c, req, invoice) \/ resume(c, req, invoice)
    BY <2>2, BeginGoes, NamedMove
  <2> QED
    BY <1>1, <2>1, <2>2 DEF NoEffect, vars
<1>3. ASSUME NEW c \in Calls, NEW r \in Reservations, reconcile_initiated_payment(c, r)
      PROVE  Named'
  BY <1>3, ReconcileGoes, NamedMove
<1>4. ASSUME NEW c \in Calls, Die(c) PROVE Named'
  BY <1>4, LeaveGoes, NamedMove DEF Die
<1>5. CASE \/ UNCHANGED vars
           \/ \E a \in Auths : create(a) \/ revoke(a) \/ Expire(a)
           \/ \E h \in Hashes : Lightning(h)
  BY <1>1, <1>5 DEF vars, create, revoke, Expire, Lightning
<1> QED
  BY <1>2, <1>3, <1>4, <1>5, NamedWork DEF Next

\* The columns and the deliveries of the first state.
LEMMA ColumnsInit == Init => Columns /\ Named
<1> SUFFICES ASSUME Init PROVE Columns /\ Named
  OBVIOUS
<1>1. \A r \in Reservations : resv[r] = NoRow /\ receipt[r] = NoReceipt
  BY DEF Init
<1>2. ASSUME NEW a \in Auths PROVE Open(a) = {} /\ Receipted(a) = {}
  BY <1>1 DEF Open, Receipted, NoRow, OPEN_RESERVATION_STATES
<1>3. RowsFit
  BY <1>1, AgentCommerceAssumption DEF RowsFit, NoRow
<1>4. FewRows
  BY <1>2, FS_EmptySet DEF FewRows
<1>5. ASSUME NEW a \in Auths PROVE Held(a) = 0 /\ Debited(a) = 0
  BY <1>2, SumEmpty DEF Held, Debited
<1>6. \A a \in Auths : auth[a].reserved = 0 /\ auth[a].spent = 0 /\ auth[a].calls = 0
  BY DEF Init
<1>7. CallsWithinLimit
  <2>1. \A a \in Auths : Budget[a].calls \in Nat
    BY AgentCommerceAssumption
  <2>2. \A a \in Auths : Cardinality(Open(a)) = 0
    BY <1>2, FS_EmptySet
  <2> QED
    BY <1>6, <2>1, <2>2 DEF CallsWithinLimit
<1>8. Totals
  BY <1>5, <1>6 DEF Totals
<1>9. Named
  BY DEF Init, Named, Idle
<1> QED
  BY <1>3, <1>4, <1>7, <1>8, <1>9 DEF Columns

\* The columns of every authorization are what its rows say, in every reachable
\* state and for any number of processes.
THEOREM ColumnsAreTheRows == Spec => [](Columns /\ Named)
<1>1. IInv /\ Columns /\ Named /\ [Next]_vars => (Columns /\ Named)'
  BY ColumnsStep, NamedStep
<1> QED
  BY <1>1, ColumnsInit, Invariance, PTL DEF Spec

\* Finished and open calls stay within max_calls, however many executions race
\* for the last one (reserve, release, finalize_paid_call).
THEOREM CallsStayWithinLimit == Spec => []CallsWithinLimit
<1>1. Columns => CallsWithinLimit
  BY DEF Columns
<1> QED
  BY <1>1, ColumnsAreTheRows, PTL

-----------------------------------------------------------------------------
(* Money under way, step by step. *)

\* A settlement is final.
LightningStays ==
    \A h \in Hashes : lightning[h].state = "settled" => lightning'[h] = lightning[h]

\* A reservation whose payment may have been sent keeps its invoice.
RowsGo ==
    \A q \in Reservations : resv[q].status \in Kept =>
        resv'[q].status \in Kept /\ resv'[q].invoice = resv[q].invoice

\* What was proven stays proven.
LEMMA ProvenStays ==
    ASSUME LightningStays, NEW invoice \in Invoices, NEW fee, Proven(invoice, fee)
    PROVE  Proven(invoice, fee)'
BY InvoiceFields DEF LightningStays, Proven

\* A reservation that the step leaves alone.
LEMMA RowStays ==
    ASSUME LightningStays, NEW q \in Reservations, RowIsTrue(q),
           resv'[q] = resv[q], receipt'[q] = receipt[q], sent'[q] = sent[q]
    PROVE  RowIsTrue(q)'
<1>1. resv[q].status \in {"paid", "finalized"} =>
        /\ resv[q].invoice \in Invoices
        /\ lightning'[resv[q].invoice.hash].state = "settled"
        /\ lightning'[resv[q].invoice.hash].fee = resv[q].fee
  BY InvoiceFields DEF RowIsTrue, LightningStays, Proven
<1> QED
  BY <1>1 DEF RowIsTrue, Proven

\* An execution that waits while the rows and the payments move on.
LEMMA WaitingStays ==
    ASSUME IInv, LightningStays, RowsGo, NEW d \in Calls, StageIsTrue(d),
           call'[d] = call[d], call[d].pc \in Awaiting
    PROVE  StageIsTrue(d)'
<1>1. CASE call[d].pc = "idle"
  BY <1>1 DEF StageIsTrue
<1>2. CASE call[d].pc # "idle"
  <2>1. call[d].id \in Reservations /\ call[d].invoice \in Invoices
    BY <1>2, AtWork
  <2>2. call[d].invoice.hash \in Hashes
    BY <2>1, InvoiceFields
  <2> QED
    BY <2>1, <2>2 DEF StageIsTrue, Awaiting, RowsGo, LightningStays, Proven
<1> QED
  BY <1>1, <1>2

\* An execution takes a step while the others wait.
LEMMA FlowStep ==
    ASSUME IInv, Flow, SharedLoop, NEW c \in Calls, MayRun(c), OnlyMoves(c),
           LightningStays, RowsGo, StageIsTrue(c)',
           \A r \in Reservations : RowIsTrue(r)'
    PROVE  Flow'
<1>1. \A d \in Calls \ {c} : call[d].pc \in Awaiting /\ call'[d] = call[d]
  BY DEF MayRun, OnlyMoves
<1>2. Alone'
  BY <1>1 DEF Alone
<1>3. ASSUME NEW d \in Calls PROVE StageIsTrue(d)'
  <2>1. CASE d = c
    BY <2>1
  <2>2. CASE d # c
    BY <1>1, <2>2, WaitingStays DEF Flow
  <2> QED
    BY <2>1, <2>2
<1> QED
  BY <1>2, <1>3 DEF Flow

\* Executions may end, or the network answer, without a step of theirs.
LEMMA FlowQuiet ==
    ASSUME IInv, Flow, LightningStays, UNCHANGED <<resv, receipt, sent>>,
           \A d \in Calls : call'[d] = call[d] \/ call'[d].pc = "idle"
    PROVE  Flow'
<1>1. Alone'
  BY DEF Flow, Alone, Awaiting
<1>2. ASSUME NEW d \in Calls PROVE StageIsTrue(d)'
  <2>1. CASE call'[d].pc = "idle"
    BY <2>1 DEF StageIsTrue
  <2>2. CASE call'[d] = call[d] /\ call[d].pc # "idle"
    <3>1. call[d].id \in Reservations /\ call[d].invoice.hash \in Hashes
      BY <2>2, AtWork, InvoiceFields
    <3> QED
      BY <2>2, <3>1 DEF Flow, StageIsTrue, LightningStays, Proven
  <2> QED
    BY <2>1, <2>2
<1>3. \A r \in Reservations : RowIsTrue(r)'
  BY RowStays DEF Flow
<1> QED
  BY <1>1, <1>2, <1>3 DEF Flow

\* A step of an execution that writes no table and sends nothing.
LEMMA FlowMove ==
    ASSUME IInv, Flow, SharedLoop, NEW c \in Calls, MayRun(c), OnlyMoves(c),
           UNCHANGED <<store, outside>>, StageIsTrue(c)'
    PROVE  Flow'
<1>1. LightningStays /\ RowsGo
  BY DEF LightningStays, RowsGo, store, outside
<1>2. \A r \in Reservations : RowIsTrue(r)'
  BY <1>1, RowStays DEF Flow, store, outside
<1> QED
  BY <1>1, <1>2, FlowStep

\* A step of an execution that writes its own row only.
LEMMA FlowWrite ==
    ASSUME IInv, Flow, SharedLoop, NEW c \in Calls, MayRun(c), OnlyMoves(c),
           NEW r \in Reservations, UNCHANGED outside,
           \A q \in Reservations \ {r} : resv'[q] = resv[q] /\ receipt'[q] = receipt[q],
           resv[r].status \in Kept =>
               resv'[r].status \in Kept /\ resv'[r].invoice = resv[r].invoice,
           RowIsTrue(r)', StageIsTrue(c)'
    PROVE  Flow'
<1>1. LightningStays /\ RowsGo /\ sent' = sent
  BY DEF LightningStays, RowsGo, outside
<1>2. ASSUME NEW q \in Reservations PROVE RowIsTrue(q)'
  <2>1. CASE q = r
    BY <2>1
  <2>2. CASE q # r
    BY <1>1, <2>2, RowStays DEF Flow
  <2> QED
    BY <2>1, <2>2
<1> QED
  BY <1>1, <1>2, FlowStep

\* The conclusions below, an execution that leaves or gives up.
LEMMA NothingToTell ==
    ASSUME NEW c \in Calls, call'[c].pc \in {"idle", "check", "bind", "refused"}
    PROVE  StageIsTrue(c)'
BY DEF StageIsTrue

\* reserve begins on a row that nobody pays; the execution knows nothing yet.
LEMMA ReserveFlow ==
    ASSUME IInv, Flow, SharedLoop, NEW c \in Calls, NEW req \in Requests,
           NEW invoice \in Invoices, reserve(c, req, invoice)
    PROVE  Flow'
<1>1. OnlyMoves(c) /\ MayRun(c) /\ StageIsTrue(c)'
  BY BeginGoes, NothingToTell
<1>2. PICK r \in Reservations : r = Of(req)
  BY RequestFields, AgentCommerceAssumption
<1>3. PICK ceiling : resv' = [resv EXCEPT ![r] =
                       [status |-> "reserved", req |-> req,
                        reserved |-> ceiling + Budget[req.auth].fee,
                        invoice |-> NoInvoice, fee |-> 0]]
  BY <1>2 DEF reserve
<1>4. resv \in [Reservations -> RowType] /\ resv[r].status = "none"
  BY <1>2 DEF reserve, IInv, Sound
<1>5. resv'[r].status = "reserved" /\ \A q \in Reservations \ {r} : resv'[q] = resv[q]
  BY <1>3, <1>4
<1>6. UNCHANGED <<receipt, outside>>
  BY DEF reserve
<1>7. RowIsTrue(r)
  BY DEF Flow
<1>8. RowIsTrue(r)'
  BY <1>4, <1>5, <1>6, <1>7 DEF RowIsTrue, Kept, outside
<1> QED
  BY <1>1, <1>4, <1>5, <1>6, <1>8, FlowWrite DEF Kept

\* resume knows nothing yet either.
LEMMA ResumeFlow ==
    ASSUME IInv, Flow, SharedLoop, NEW c \in Calls, NEW req \in Requests,
           NEW invoice \in Invoices, resume(c, req, invoice)
    PROVE  Flow'
<1>1. OnlyMoves(c) /\ MayRun(c) /\ StageIsTrue(c)'
  BY BeginGoes, NothingToTell
<1> QED
  BY <1>1, FlowMove DEF resume

\* reconcile_initiated_payment works with what the row says.
LEMMA ReconcileFlow ==
    ASSUME IInv, Flow, SharedLoop, NEW c \in Calls, NEW r \in Reservations,
           reconcile_initiated_payment(c, r)
    PROVE  Flow'
<1>1. UNCHANGED <<store, outside>>
  BY DEF reconcile_initiated_payment
<1>2. RowIsTrue(r)
  BY DEF Flow
<1>3. StageIsTrue(c)'
  BY <1>1, <1>2, ReconcileGoes DEF StageIsTrue, RowIsTrue, Kept, Proven, store, outside
<1> QED
  BY <1>1, <1>3, ReconcileGoes, FlowMove

\* The row of an execution at work.
LEMMA FlowAtWork ==
    ASSUME IInv, Flow, NEW c \in Calls, call[c].pc # "idle"
    PROVE  /\ StageIsTrue(c) /\ RowIsTrue(call[c].id)
           /\ call[c].id \in Reservations /\ call[c].invoice \in Invoices
           /\ Row(c) = resv[call[c].id] /\ Row(c) \in RowType /\ RowOK(Row(c))
           /\ resv \in [Reservations -> RowType]
BY AtWork DEF Flow, RowOK, IInv, Sound

\* bind_invoice finds a row that no payment was sent for.
LEMMA BindFlow ==
    ASSUME IInv, Flow, SharedLoop, NEW c \in Calls, bind_invoice(c) PROVE Flow'
<1>1. call[c].pc = "bind" /\ MayRun(c) /\ UNCHANGED <<auth, receipt, outside>>
  BY DEF bind_invoice, At
<1>2. CASE Goto(c, "check") /\ UNCHANGED resv
  BY <1>1, <1>2, GotoGoes, NothingToTell, FlowMove DEF store
<1>3. CASE /\ Row(c).status \in {"reserved", "invoice_bound"}
           /\ SetRow(c, [Row(c) EXCEPT !.status = "invoice_bound", !.invoice = call[c].invoice])
           /\ Goto(c, "initiate")
  <2>1. PICK r \in Reservations : r = call[c].id
    BY <1>1, FlowAtWork
  <2>2. /\ resv'[r].status = "invoice_bound" /\ resv'[r].invoice = call[c].invoice
        /\ \A q \in Reservations \ {r} : resv'[q] = resv[q]
    BY <1>1, <1>3, <2>1, FlowAtWork DEF SetRow, RowType
  <2>3. /\ OnlyMoves(c) /\ call'[c].pc = "initiate" /\ call'[c].id = r
        /\ call'[c].invoice = call[c].invoice
    BY <1>3, <2>1, GotoGoes
  <2>4. StageIsTrue(c)'
    BY <2>2, <2>3 DEF StageIsTrue
  <2>5. RowIsTrue(r) /\ resv[r].status \in {"reserved", "invoice_bound"}
    BY <1>1, <1>3, <2>1, FlowAtWork
  <2>6. RowIsTrue(r)'
    BY <1>1, <2>2, <2>5 DEF RowIsTrue, Kept, outside
  <2> QED
    BY <1>1, <2>2, <2>3, <2>4, <2>5, <2>6, FlowWrite DEF Kept
<1> QED
  BY <1>2, <1>3 DEF bind_invoice

\* mark_payment_initiated pins the invoice the execution is about to pay.
LEMMA InitiateFlow ==
    ASSUME IInv, Flow, SharedLoop, NEW c \in Calls, mark_payment_initiated(c) PROVE Flow'
<1>1. call[c].pc = "initiate" /\ MayRun(c) /\ UNCHANGED <<auth, receipt, outside>>
  BY DEF mark_payment_initiated, At
<1>2. CASE Goto(c, "check") /\ UNCHANGED resv
  BY <1>1, <1>2, GotoGoes, NothingToTell, FlowMove DEF store
<1>3. CASE /\ Row(c).status = "invoice_bound"
           /\ SetRow(c, [Row(c) EXCEPT !.status = "payment_initiated"])
           /\ Goto(c, "pay")
  <2>1. PICK r \in Reservations : r = call[c].id
    BY <1>1, FlowAtWork
  <2>2. /\ resv'[r].status = "payment_initiated" /\ resv'[r].invoice = resv[r].invoice
        /\ \A q \in Reservations \ {r} : resv'[q] = resv[q]
    BY <1>1, <1>3, <2>1, FlowAtWork DEF SetRow, RowType
  <2>3. /\ OnlyMoves(c) /\ call'[c].pc = "pay" /\ call'[c].id = r
        /\ call'[c].invoice = call[c].invoice
    BY <1>3, <2>1, GotoGoes
  <2>4. /\ RowIsTrue(r) /\ resv[r].status = "invoice_bound"
        /\ resv[r].invoice = call[c].invoice
    BY <1>1, <1>3, <2>1, FlowAtWork DEF StageIsTrue
  <2>5. StageIsTrue(c)'
    BY <2>2, <2>3, <2>4 DEF StageIsTrue, Kept
  <2>6. RowIsTrue(r)'
    BY <1>1, <2>2, <2>4 DEF RowIsTrue, Kept, outside
  <2> QED
    BY <1>1, <2>2, <2>3, <2>4, <2>5, <2>6, FlowWrite DEF Kept
<1> QED
  BY <1>2, <1>3 DEF mark_payment_initiated

\* pay_invoice sends for a row that is kept from here on.
LEMMA PayFlow ==
    ASSUME IInv, Flow, SharedLoop, NEW c \in Calls, pay_invoice(c) PROVE Flow'
<1>1. call[c].pc = "pay" /\ MayRun(c) /\ UNCHANGED store
  BY DEF pay_invoice, At
<1>2. PICK r \in Reservations : r = call[c].id
  BY <1>1, FlowAtWork
<1>3. PICK h \in Hashes : h = call[c].invoice.hash
  BY <1>1, FlowAtWork, InvoiceFields
<1>4. /\ RowIsTrue(r) /\ resv[r].status \in Kept
      /\ resv[r].invoice = call[c].invoice
  BY <1>1, <1>2, FlowAtWork DEF StageIsTrue
<1>5. sent \in [Reservations -> Nat]
      /\ lightning \in [Hashes -> LightningType]
  BY Parts DEF Rest, LightningType
<1>6. \A q \in Reservations \ {r} : sent'[q] = sent[q]
  BY <1>2, <1>5 DEF pay_invoice
<1>7. LightningStays /\ RowsGo
  <2>1. CASE UNCHANGED lightning
    BY <1>1, <2>1 DEF LightningStays, RowsGo, store
  <2>2. CASE /\ lightning[h].state \in {"none", "failed"}
             /\ lightning' = [lightning EXCEPT ![h].state = "inflight"]
    BY <1>1, <1>5, <2>2 DEF LightningStays, RowsGo, store, LightningType
  <2> QED
    BY <1>3, <2>1, <2>2 DEF pay_invoice
<1>8. /\ OnlyMoves(c) /\ call'[c].pc \in {"check", "paying"} /\ call'[c].id = r
      /\ call'[c].invoice = call[c].invoice
  BY <1>2, GotoGoes DEF pay_invoice
<1>9. StageIsTrue(c)'
  BY <1>1, <1>4, <1>8 DEF StageIsTrue, store
<1>10. ASSUME NEW q \in Reservations PROVE RowIsTrue(q)'
  <2>1. CASE q # r
    BY <1>1, <1>6, <1>7, <2>1, RowStays DEF Flow, store
  <2>2. CASE q = r
    <3>1. resv[q].status \in {"paid", "finalized"} =>
            /\ resv[q].invoice \in Invoices
            /\ lightning'[resv[q].invoice.hash].state = "settled"
            /\ lightning'[resv[q].invoice.hash].fee = resv[q].fee
      BY <1>4, <1>7, <2>2, InvoiceFields DEF RowIsTrue, LightningStays, Proven
    <3> QED
      BY <1>1, <1>4, <2>2, <3>1 DEF RowIsTrue, Proven, store
  <2> QED
    BY <2>1, <2>2
<1> QED
  BY <1>1, <1>7, <1>8, <1>9, <1>10, FlowStep

\* An execution learns from the network that its payment settled, and at what fee.
LEMMA ProofFlow ==
    ASSUME IInv, Flow, SharedLoop, NEW c \in Calls, MayRun(c), UNCHANGED <<store, outside>>,
           call[c].pc \in {"paying", "lookup"}, NEW pc \in {"settle", "resettle"},
           NEW fee, Proven(call[c].invoice, fee),
           call' = [call EXCEPT ![c].pc = pc, ![c].fee = fee]
    PROVE  Flow'
<1>1. /\ OnlyMoves(c) /\ call'[c].pc = pc /\ call'[c].id = call[c].id
      /\ call'[c].invoice = call[c].invoice /\ call'[c].fee = fee
  BY CallFields DEF OnlyMoves, CallType
<1>2. StageIsTrue(c)
  BY FlowAtWork
<1>3. StageIsTrue(c)'
  BY <1>1, <1>2 DEF StageIsTrue, Proven, store, outside
<1> QED
  BY <1>1, <1>3, FlowMove

\* PaymentAnswer goes on with a settlement only.
LEMMA AnswerFlow ==
    ASSUME IInv, Flow, SharedLoop, NEW c \in Calls, PaymentAnswer(c) PROVE Flow'
<1>1. call[c].pc = "paying" /\ MayRun(c) /\ UNCHANGED <<store, outside>>
  BY DEF PaymentAnswer, At
<1>2. CASE Goto(c, "check")
  BY <1>1, <1>2, GotoGoes, NothingToTell, FlowMove
<1>3. CASE /\ lightning[call[c].invoice.hash].state = "settled"
           /\ call' = [call EXCEPT ![c].pc = "settle",
                                   ![c].fee = lightning[call[c].invoice.hash].fee]
  <2>1. PICK fee : fee = lightning[call[c].invoice.hash].fee
    OBVIOUS
  <2>2. Proven(call[c].invoice, fee)
    BY <1>3, <2>1 DEF Proven
  <2> QED
    BY <1>1, <1>3, <2>1, <2>2, ProofFlow
<1> QED
  BY <1>2, <1>3 DEF PaymentAnswer

\* lookup_payment as well.
LEMMA LookupFlow ==
    ASSUME IInv, Flow, SharedLoop, NEW c \in Calls, lookup_payment(c) PROVE Flow'
<1>1. call[c].pc = "lookup" /\ MayRun(c) /\ UNCHANGED <<store, outside>>
  BY DEF lookup_payment, LookupProves, LookupFails, At
<1>2. CASE Leave(c)
  BY <1>1, <1>2, LeaveGoes, NothingToTell, FlowMove
<1>3. CASE /\ lightning[call[c].invoice.hash].state = "settled"
           /\ call' = [call EXCEPT ![c].pc = "resettle",
                                   ![c].fee = lightning[call[c].invoice.hash].fee]
  <2>1. PICK fee : fee = lightning[call[c].invoice.hash].fee
    OBVIOUS
  <2>2. Proven(call[c].invoice, fee)
    BY <1>3, <2>1 DEF Proven
  <2> QED
    BY <1>1, <1>3, <2>1, <2>2, ProofFlow
<1> QED
  BY <1>2, <1>3 DEF lookup_payment, LookupProves, LookupFails

\* mark_paid writes the fee that was proven.
LEMMA MarkPaidFlow ==
    ASSUME IInv, Flow, SharedLoop, NEW c \in Calls, MayRun(c),
           call[c].pc \in {"settle", "resettle"}, NEW paid \in {"deliver", "finalize"},
           NEW refused \in {"check", "refused"}, mark_paid(c, paid, refused),
           UNCHANGED <<auth, receipt, outside>>
    PROVE  Flow'
<1>1. PICK r \in Reservations : r = call[c].id
  BY FlowAtWork
<1>2. /\ RowIsTrue(r) /\ resv[r].status \in Kept /\ resv[r].invoice = call[c].invoice
      /\ Proven(call[c].invoice, call[c].fee) /\ call[c].invoice \in Invoices
  BY <1>1, FlowAtWork DEF StageIsTrue
<1>3. CASE Goto(c, refused) /\ UNCHANGED resv
  BY <1>3, GotoGoes, NothingToTell, FlowMove DEF store
<1>4. CASE Goto(c, paid) /\ UNCHANGED resv
  <2>1. /\ OnlyMoves(c) /\ call'[c].pc = paid /\ call'[c].id = r
        /\ call'[c].invoice = call[c].invoice /\ call'[c].fee = call[c].fee
    BY <1>1, <1>4, GotoGoes
  <2>2. StageIsTrue(c)'
    BY <1>2, <1>4, <2>1 DEF StageIsTrue, Proven, outside
  <2> QED
    BY <1>4, <2>1, <2>2, FlowMove DEF store
<1>5. CASE /\ Settles(Row(c), call[c].fee)
           /\ SetRow(c, [Row(c) EXCEPT !.status = "paid", !.fee = call[c].fee])
           /\ Goto(c, paid)
  <2>1. /\ OnlyMoves(c) /\ call'[c].pc = paid /\ call'[c].id = r
        /\ call'[c].invoice = call[c].invoice /\ call'[c].fee = call[c].fee
    BY <1>1, <1>5, GotoGoes
  <2>2. /\ resv'[r].status = "paid" /\ resv'[r].invoice = resv[r].invoice
        /\ resv'[r].fee = call[c].fee
        /\ \A q \in Reservations \ {r} : resv'[q] = resv[q]
    BY <1>1, <1>5, FlowAtWork DEF SetRow, RowType
  <2>3. resv[r].status = "payment_initiated"
    BY <1>1, <1>5, FlowAtWork DEF Settles
  <2>4. StageIsTrue(c)'
    BY <1>2, <2>1, <2>2 DEF StageIsTrue, Proven, outside, Kept
  <2>5. RowIsTrue(r)'
    BY <1>2, <2>2, <2>3 DEF RowIsTrue, Kept, Proven, outside
  <2> QED
    BY <2>1, <2>2, <2>4, <2>5, FlowWrite DEF Kept
<1> QED
  BY <1>3, <1>4, <1>5 DEF mark_paid

\* The except branch releases only what no payment was sent for.
LEMMA CheckFlow ==
    ASSUME IInv, Flow, SharedLoop, NEW c \in Calls, CheckRelease(c) PROVE Flow'
<1>1. call[c].pc = "check" /\ MayRun(c) /\ UNCHANGED <<store, outside>>
  BY DEF CheckRelease, At
<1>2. CASE Leave(c)
  BY <1>1, <1>2, LeaveGoes, NothingToTell, FlowMove
<1>3. CASE /\ Row(c).status \notin {"paid", "finalized", "payment_initiated"}
           /\ Goto(c, "release")
  <2>1. OnlyMoves(c) /\ call'[c].pc = "release" /\ call'[c].id = call[c].id
    BY <1>3, GotoGoes
  <2>2. StageIsTrue(c)'
    BY <1>1, <1>3, <2>1, FlowAtWork DEF StageIsTrue, Kept, store
  <2> QED
    BY <1>1, <2>1, <2>2, FlowMove
<1> QED
  BY <1>2, <1>3 DEF CheckRelease

\* release finds the row as the check left it: nobody ran in between.
LEMMA ReleaseFlow ==
    ASSUME IInv, Flow, SharedLoop, NEW c \in Calls, release(c) PROVE Flow'
<1>1. call[c].pc = "release" /\ MayRun(c) /\ UNCHANGED <<receipt, outside>>
  BY DEF release, At
<1>2. OnlyMoves(c) /\ StageIsTrue(c)'
  BY LeaveGoes, NothingToTell DEF release
<1>3. PICK r \in Reservations : r = call[c].id
  BY <1>1, FlowAtWork
<1>4. RowIsTrue(r) /\ resv[r].status \notin Kept /\ resv \in [Reservations -> RowType]
  BY <1>1, <1>3, FlowAtWork DEF StageIsTrue
<1>5. CASE UNCHANGED <<resv, auth>>
  BY <1>1, <1>2, <1>5, FlowMove DEF store
<1>6. CASE SetRow(c, [Row(c) EXCEPT !.status = "released"])
  <2>1. /\ resv'[r].status = "released"
        /\ \A q \in Reservations \ {r} : resv'[q] = resv[q]
    BY <1>1, <1>3, <1>6, FlowAtWork DEF SetRow, RowType
  <2>2. RowIsTrue(r)'
    BY <1>1, <1>4, <2>1 DEF RowIsTrue, Kept, outside
  <2> QED
    BY <1>1, <1>2, <1>4, <2>1, <2>2, FlowWrite
<1> QED
  BY <1>5, <1>6 DEF release

\* Deliver changes nothing about the payment.
LEMMA DeliverFlow ==
    ASSUME IInv, Flow, SharedLoop, NEW c \in Calls, Deliver(c) PROVE Flow'
<1>1. call[c].pc = "deliver" /\ MayRun(c) /\ UNCHANGED <<store, outside>>
  BY DEF Deliver, At
<1>2. PICK d : call' = [call EXCEPT ![c].pc = "finalize", ![c].delivery = d]
  BY DEF Deliver
<1>3. StageIsTrue(c)
  BY <1>1, FlowAtWork
<1>4. StageIsTrue(c)'
  BY <1>1, <1>2, <1>3, DeliverGoes DEF StageIsTrue, Proven, store, outside
<1> QED
  BY <1>1, <1>2, <1>4, DeliverGoes, FlowMove

\* finalize_paid_call writes a receipt for what was proven.
LEMMA FinalizeFlow ==
    ASSUME IInv, Named, Flow, SharedLoop, NEW c \in Calls, finalize_paid_call(c) PROVE Flow'
<1>1. call[c].pc = "finalize" /\ MayRun(c) /\ UNCHANGED outside
  BY DEF finalize_paid_call, At
<1>2. OnlyMoves(c) /\ StageIsTrue(c)'
  BY LeaveGoes, NothingToTell DEF finalize_paid_call
<1>3. PICK r \in Reservations : r = call[c].id
  BY <1>1, FlowAtWork
<1>4. /\ RowIsTrue(r) /\ resv[r].invoice = call[c].invoice
      /\ Proven(call[c].invoice, call[c].fee)
  BY <1>1, <1>3, FlowAtWork DEF StageIsTrue
<1>5. CASE UNCHANGED <<receipt, auth, resv>>
  BY <1>1, <1>2, <1>5, FlowMove DEF store
<1>6. CASE /\ MayFinalize(c)
           /\ receipt' = [receipt EXCEPT ![call[c].id] =
                [debit |-> Debit(c), delivery |-> call[c].delivery]]
           /\ SetRow(c, [Row(c) EXCEPT !.status = "finalized"])
  <2>1. /\ resv'[r].status = "finalized" /\ resv'[r].invoice = resv[r].invoice
        /\ resv'[r].fee = resv[r].fee
        /\ \A q \in Reservations \ {r} : resv'[q] = resv[q]
    BY <1>1, <1>3, <1>6, FlowAtWork DEF SetRow, RowType
  <2>2. receipt \in [Reservations -> [debit : Nat, delivery : Deliveries]]
    BY Parts DEF Rest
  <2>3. /\ receipt'[r].debit = Debit(c) /\ receipt'[r].delivery = call[c].delivery
        /\ \A q \in Reservations \ {r} : receipt'[q] = receipt[q]
    BY <1>3, <1>6, <2>2
  <2>4. receipt'[r] # NoReceipt
    <3>1. receipt'[r].delivery # "none"
      BY <1>1, <2>3 DEF Named
    <3>2. NoReceipt.delivery = "none"
      BY DEF NoReceipt
    <3> QED
      BY ONLY <3>1, <3>2
  <2>5. /\ resv[r].status = "paid" /\ resv[r].fee = call[c].fee
        /\ resv[r].invoice \in Invoices /\ Proven(resv[r].invoice, resv[r].fee)
    BY <1>1, <1>3, <1>4, <1>6, FlowAtWork DEF MayFinalize, RowIsTrue, Proven
  <2>6. RowIsTrue(r)'
    BY <1>1, <1>4, <2>1, <2>3, <2>4, <2>5 DEF RowIsTrue, Kept, Proven, Debit, outside
  <2> QED
    BY <1>1, <1>2, <2>1, <2>3, <2>6, FlowWrite DEF Kept
<1> QED
  BY <1>5, <1>6 DEF finalize_paid_call

\* Every step of an execution at work keeps the flow of money.
LEMMA WorkFlow ==
    ASSUME IInv, Named, Flow, SharedLoop, NEW c \in Calls, Work(c) PROVE Flow'
<1>1. CASE Settle(c) \/ Resettle(c)
  BY <1>1, MarkPaidFlow DEF Settle, Resettle, At
<1>2. CASE Refused(c)
  BY <1>2, LeaveGoes, NothingToTell, FlowMove DEF Refused, At
<1> QED
  BY <1>1, <1>2, BindFlow, InitiateFlow, PayFlow, AnswerFlow, CheckFlow, ReleaseFlow,
     DeliverFlow, FinalizeFlow, LookupFlow DEF Work

\* The Lightning network settles what was not settled.
LEMMA LightningFlow ==
    ASSUME IInv, Flow, NEW h \in Hashes, Lightning(h) PROVE Flow'
<1>1. lightning \in [Hashes -> LightningType]
  BY Parts DEF Rest, LightningType
<1>2. \A g \in Hashes \ {h} : lightning'[g] = lightning[g]
  BY <1>1 DEF Lightning
<1>3. LightningStays
  BY <1>2 DEF LightningStays, Lightning
<1> QED
  BY <1>3, FlowQuiet DEF Lightning, store

\* Every step keeps the flow of money.
LEMMA FlowNext ==
    ASSUME IInv, Named, Flow, SharedLoop, [Next]_vars PROVE Flow'
<1>1. CASE UNCHANGED <<resv, receipt, outside, call>>
  BY <1>1, FlowQuiet DEF LightningStays, outside
<1>2. ASSUME NEW c \in Calls, execute(c) PROVE Flow'
  <2>1. PICK req \in Requests, invoice \in Invoices :
          \/ reserve(c, req, invoice)
          \/ resume(c, req, invoice)
          \/ NoEffect(c, req, invoice)
    BY <1>2 DEF execute
  <2> QED
    BY <1>1, <2>1, ReserveFlow, ResumeFlow DEF NoEffect, vars, outside
<1>3. ASSUME NEW c \in Calls, Die(c) PROVE Flow'
  <2>1. \A d \in Calls : call'[d] = call[d] \/ call'[d].pc = "idle"
    BY <1>3, LeaveGoes DEF Die, OnlyMoves
  <2> QED
    BY <1>3, <2>1, FlowQuiet DEF Die, LightningStays, store, outside
<1>4. CASE \/ UNCHANGED vars \/ \E a \in Auths : create(a) \/ revoke(a) \/ Expire(a)
  BY <1>1, <1>4 DEF vars, create, revoke, Expire, store, outside
<1> QED
  BY <1>2, <1>3, <1>4, ReconcileFlow, WorkFlow, LightningFlow DEF Next

\* Nothing is under way in the first state.
LEMMA FlowInit == Init => Flow
BY DEF Init, Flow, Alone, StageIsTrue, RowIsTrue, Idle, NoRow, NoReceipt, Awaiting, Kept

\* In one event loop, what executions, rows, receipts and the Lightning network
\* say of a payment agrees in every reachable state.
THEOREM FlowIsTrue == ASSUME SharedLoop PROVE Spec => []Flow
<1>1. IInv /\ Named /\ Flow /\ [Next]_vars => Flow'
  BY FlowNext
<1>2. Columns /\ Named => Named
  OBVIOUS
<1> QED
  BY <1>1, <1>2, FlowInit, Invariance, ColumnsAreTheRows, PTL DEF Spec

\* "An unproven payment remains reserved rather than being falsely released": in
\* one event loop no cut-off, retry, second invoice or reconcile request releases
\* money that is on its way (CheckRelease, release), and reserved_sats and
\* spent_sats account for it.
THEOREM MoneyStaysHeld == ASSUME SharedLoop PROVE Spec => []MoneyInFlightIsHeld
<1>1. Columns /\ Flow => MoneyInFlightIsHeld
  BY DEF Columns, Totals, Flow, RowIsTrue, Kept, MoneyInFlightIsHeld
<1> QED
  BY <1>1, FlowIsTrue, ColumnsAreTheRows, PTL

\* A receipt is written for a finalized row only, and debits what the Lightning
\* network settled, its amount and its fee (mark_paid, finalize_paid_call).
THEOREM ReceiptsAreProven == ASSUME SharedLoop PROVE Spec => []ReceiptIsProven
<1>1. Flow => ReceiptIsProven
  BY DEF Flow, RowIsTrue, Proven, ReceiptIsProven
<1> QED
  BY <1>1, FlowIsTrue, PTL

============================================================================
