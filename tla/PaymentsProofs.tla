--------------------------- MODULE PaymentsProofs ---------------------------
(***************************************************************************)
(* The safety of createPayment, for every set of organizations, keys,      *)
(* handlers and requests.                                                  *)
(***************************************************************************)
EXTENDS Payments, TLAPS

\* A handler past its first SELECT has the request it was called with.
HasRequest == \A h \in Handlers : ~At(h, "idle") => handler[h].req \in Requests

\* Where a working handler is tells how far the row of its key has come.
StageMatchesRow(h) ==
    /\ At(h, "charge") => calls[Key(h)] = 0
    /\ handler[h].pc \in {"charge", "failed", "succeeded"} =>
         payment[Key(h)].status = "PENDING"
    /\ handler[h].pc \in {"accounts", "create", "link", "enqueue"} =>
         payment[Key(h)].status = "SUCCEEDED" /\ payment[Key(h)].ledger = "null"
    /\ At(h, "succeeded") => processor[Key(h)] = "charged"
    /\ At(h, "link") => posted[Key(h)] = 1

\* What has happened under a key: nothing without a row, one charge and one
\* posting at most, and each effect only after the one it rests on.
KeySound(k) ==
    /\ payment[k].status = "NONE" => calls[k] = 0
    /\ calls[k] <= 1 /\ posted[k] <= 1
    /\ payment[k].status = "SUCCEEDED" => processor[k] = "charged"
    /\ posted[k] > 0 => payment[k].status = "SUCCEEDED"
    /\ payment[k].ledger = "set" => posted[k] = 1

IInv ==
    /\ TypeOK
    /\ HasRequest
    /\ SoleHandler
    /\ \A h \in Handlers : StageMatchesRow(h)
    /\ \A k \in Keys : KeySound(k)

-----------------------------------------------------------------------------
HandlerType == [pc : PCs, req : RequestType \cup {NoRequest},
                known : SUBSET Codes, reference : Nullable]

\* Handler h goes to pc with the request req; the others stay where they are.
Moves(h, pc, req) ==
    /\ handler' \in [Handlers -> HandlerType]
    /\ handler'[h].pc = pc
    /\ handler'[h].req = req
    /\ \A g \in Handlers \ {h} : handler'[g] = handler[g]

\* Nothing happens under other keys than k.
Elsewhere(k) ==
    \A j \in Keys \ {k} :
        /\ payment'[j] = payment[j] /\ calls'[j] = calls[j]
        /\ processor'[j] = processor[j] /\ posted'[j] = posted[j]

\* The fields of the requests callers send (Joi schema of POST /payments).
LEMMA RequestFields ==
    ASSUME NEW req \in Requests
    PROVE  /\ req \in RequestType
           /\ req.org \in Orgs /\ req.key \in Keys
           /\ req.amount \in Nat /\ req.feeAmount \in Nat
BY PaymentsAssumption DEF RequestType

\* What Goto does to the handlers.
LEMMA GotoMoves ==
    ASSUME handler \in [Handlers -> HandlerType], NEW h \in Handlers,
           NEW pc \in PCs, Goto(h, pc)
    PROVE  Moves(h, pc, handler[h].req)
BY DEF Goto, HandlerType, Moves

\* What Return does to the handlers and to the answers.
LEMMA ReturnMoves ==
    ASSUME handler \in [Handlers -> HandlerType], NEW h \in Handlers,
           NEW what, Return(h, what)
    PROVE  Moves(h, "idle", NoRequest)
<1>1. Idle \in HandlerType
  BY DEF Idle, HandlerType, PCs, Nullable
<1> QED
  BY <1>1 DEF Return, Moves, Idle

\* createPayment begins: the handler takes the request.
LEMMA TakeMoves ==
    ASSUME handler \in [Handlers -> HandlerType], NEW h \in Handlers,
           NEW req \in Requests,
           handler' = [handler EXCEPT ![h].pc = "insert", ![h].req = req]
    PROVE  Moves(h, "insert", req)
<1>1. req \in RequestType
  BY RequestFields
<1> QED
  BY <1>1 DEF HandlerType, PCs, Moves

\* The processor's answer moves the handler and says whether there is a reference.
LEMMA VerdictMoves ==
    ASSUME handler \in [Handlers -> HandlerType], NEW h \in Handlers,
           NEW pc \in PCs, NEW r \in Nullable,
           handler' = [handler EXCEPT ![h].pc = pc, ![h].reference = r]
    PROVE  Moves(h, pc, handler[h].req)
BY DEF HandlerType, Moves

\* The chart of accounts the handler has read or extended.
LEMMA ListMoves ==
    ASSUME handler \in [Handlers -> HandlerType], NEW h \in Handlers,
           NEW known \in SUBSET Codes,
           handler' = [handler EXCEPT ![h].pc = "create", ![h].known = known]
    PROVE  Moves(h, "create", handler[h].req)
BY DEF HandlerType, PCs, Moves

\* createAccount: the handler learns a code.
LEMMA LearnMoves ==
    ASSUME handler \in [Handlers -> HandlerType], NEW h \in Handlers,
           NEW code \in Codes,
           handler' = [handler EXCEPT ![h].known = @ \cup {code}]
    PROVE  Moves(h, handler[h].pc, handler[h].req)
BY DEF HandlerType, Moves

\* UPDATE payments SET status, processor_reference keeps the columns' types.
LEMMA StatusColumn ==
    ASSUME payment \in [Keys -> RowType], NEW k \in Keys,
           NEW status \in Statuses, NEW r \in Nullable,
           payment' = [payment EXCEPT ![k].status = status, ![k].reference = r]
    PROVE  payment' \in [Keys -> RowType]
BY DEF RowType

\* UPDATE payments SET ledger_transaction_id keeps the columns' types.
LEMMA LedgerColumn ==
    ASSUME payment \in [Keys -> RowType], NEW k \in Keys,
           payment' = [payment EXCEPT ![k].ledger = "set"]
    PROVE  payment' \in [Keys -> RowType]
BY DEF RowType, Nullable

-----------------------------------------------------------------------------
\* The columns of TypeOK that are not the handlers'.
ColumnsOK ==
    /\ payment \in [Keys -> RowType]
    /\ calls \in [Keys -> Nat]
    /\ processor \in [Keys -> {"none", "charged", "processing", "declined"}]
    /\ chart \in [Orgs -> SUBSET Codes]
    /\ posted \in [Keys -> Nat]
    /\ unposted \subseteq Keys
    /\ answer \in [Handlers -> Statuses \cup {"none", "error", "lost"}]
    /\ died \subseteq Keys

\* The type invariant is the columns and the handlers.
LEMMA TypeParts == TypeOK <=> ColumnsOK /\ handler \in [Handlers -> HandlerType]
BY DEF TypeOK, ColumnsOK, HandlerType

\* The initial states satisfy the invariant.
LEMMA InitIInv == Init => IInv
<1> SUFFICES ASSUME Init PROVE IInv
  OBVIOUS
<1>1. Idle \in HandlerType /\ NoRow \in RowType
  BY DEF Idle, HandlerType, PCs, Nullable, NoRow, RowType, Statuses
<1>2. TypeOK
  BY <1>1, TypeParts DEF Init, ColumnsOK, Statuses
<1>3. \A h \in Handlers : handler[h].pc = "idle"
  BY DEF Init, Idle
<1>4. \A k \in Keys : /\ payment[k].status = "NONE" /\ payment[k].ledger = "null"
                      /\ calls[k] = 0 /\ posted[k] = 0
  BY DEF Init, NoRow
<1> QED
  BY <1>2, <1>3, <1>4 DEF IInv, HasRequest, StageMatchesRow, KeySound,
     SoleHandler, Working, At

\* A working handler h that stays with its key, or ends, and touches nothing
\* else, keeps the invariant if it keeps its own stage and its own key sound.
LEMMA OwnKeyOnly ==
    ASSUME IInv, NEW h \in Handlers, Working(h), NEW k \in Keys, k = Key(h),
           NEW pc, Moves(h, pc, handler[h].req) \/ Moves(h, "idle", NoRequest),
           ColumnsOK', Elsewhere(k), StageMatchesRow(h)', KeySound(k)'
    PROVE  IInv'
<1>1. TypeOK'
  BY TypeParts DEF Moves, TypeOK, ColumnsOK, HandlerType
<1>2. HasRequest' /\ SoleHandler'
  BY DEF IInv, HasRequest, SoleHandler, Moves, Working, At, Key
<1>3. ASSUME NEW g \in Handlers PROVE StageMatchesRow(g)'
  <2>1. CASE g = h
    BY <2>1
  <2>2. CASE g # h /\ ~Working(g)
    BY <2>2 DEF StageMatchesRow, Working, Moves, At
  <2>3. CASE g # h /\ Working(g)
    <3>1. Key(g) # k /\ Key(g) \in Keys /\ StageMatchesRow(g)
      BY <2>3, RequestFields DEF IInv, SoleHandler, HasRequest, Working, At, Key
    <3> QED
      BY <2>3, <3>1 DEF StageMatchesRow, Moves, Elsewhere, At, Key
  <2> QED
    BY <2>1, <2>2, <2>3
<1>4. ASSUME NEW j \in Keys PROVE KeySound(j)'
  BY DEF IInv, KeySound, Elsewhere
<1> QED
  BY <1>1, <1>2, <1>3, <1>4 DEF IInv

\* Every step of createPayment, of a crash and of the processor keeps it.
LEMMA NextIInv == IInv /\ [Next]_vars => IInv'
<1> SUFFICES ASSUME IInv, [Next]_vars PROVE IInv'
  OBVIOUS
<1>0. ColumnsOK /\ handler \in [Handlers -> HandlerType]
  BY TypeParts DEF IInv
<1>1. ASSUME NEW h \in Handlers, NEW req \in Requests, createPayment(h, req)
      PROVE  IInv'
  <2>1. \/ Moves(h, "idle", NoRequest)
        \/ Moves(h, "insert", req)
    BY <1>0, <1>1, ReturnMoves, TakeMoves DEF createPayment
  <2>2. ColumnsOK'
    BY <1>0, <1>1, RequestFields DEF createPayment, ColumnsOK, Return, RowType
  <2>3. TypeOK'
    BY <2>1, <2>2, TypeParts DEF Moves, TypeOK, ColumnsOK, HandlerType
  <2>4. HasRequest' /\ SoleHandler'
    BY <1>1, <2>1 DEF createPayment, IInv, Moves, HasRequest, SoleHandler,
       Working, At, Key
  <2>5. \A g \in Handlers : StageMatchesRow(g)'
    BY <1>1, <2>1 DEF createPayment, IInv, Moves, StageMatchesRow, At, Key
  <2>6. \A k \in Keys : KeySound(k)'
    BY <1>1 DEF createPayment, IInv, KeySound
  <2> QED
    BY <2>3, <2>4, <2>5, <2>6 DEF IInv
<1>2. ASSUME NEW h \in Handlers, InsertPending(h) PROVE IInv'
  <2> DEFINE req == handler[h].req
  <2>0. req \in Requests
    BY <1>2 DEF IInv, HasRequest, InsertPending, At
  <2>1. CASE req.amount > 0 /\ payment[req.key].status = "NONE"
    <3>1. Moves(h, "charge", req)
      BY <1>0, <1>2, <2>1, GotoMoves DEF InsertPending, PCs
    <3>2. payment' = [payment EXCEPT ![req.key] =
            [org |-> req.org, status |-> "PENDING", amount |-> req.amount,
             feeAmount |-> req.feeAmount, reference |-> "null", ledger |-> "null"]]
      BY <1>2, <2>1 DEF InsertPending, NoRow
    <3>3. ColumnsOK'
      BY <1>0, <1>2, <2>0, <2>1, <3>2, RequestFields
         DEF InsertPending, ColumnsOK, RowType, Statuses, Nullable
    <3>4. TypeOK'
      BY <3>1, <3>3, TypeParts DEF Moves, TypeOK, ColumnsOK, HandlerType
    <3>5. /\ req.key \in Keys /\ calls[req.key] = 0 /\ posted[req.key] <= 0
          /\ payment'[req.key].status = "PENDING"
          /\ payment'[req.key].ledger = "null"
          /\ Elsewhere(req.key)
          /\ calls' = calls /\ posted' = posted /\ processor' = processor
      BY <1>0, <1>2, <2>0, <2>1, <3>2, RequestFields
         DEF InsertPending, IInv, ColumnsOK, KeySound, Elsewhere
    <3>6. \A g \in Handlers : Working(g) => Key(g) # req.key /\ Key(g) \in Keys
      <4> SUFFICES ASSUME NEW g \in Handlers, Working(g)
                   PROVE  Key(g) # req.key /\ Key(g) \in Keys
        OBVIOUS
      <4>1. Key(g) \in Keys
        BY RequestFields DEF IInv, HasRequest, Working, At, Key
      <4>2. g \in Handlers /\ handler[g].pc \in PCs /\ StageMatchesRow(g)
        BY <1>0 DEF IInv, HandlerType
      <4>3. payment[Key(g)].status # "NONE"
        BY <4>2 DEF StageMatchesRow, Working, PCs
      <4> QED
        BY <2>1, <4>1, <4>3
    <3>7. HasRequest' /\ SoleHandler'
      BY <2>0, <3>1, <3>6 DEF IInv, Moves, HasRequest, SoleHandler, Working, At, Key
    <3>8. ASSUME NEW g \in Handlers PROVE StageMatchesRow(g)'
      <4>1. CASE g = h
        BY <3>1, <3>5, <4>1 DEF Moves, StageMatchesRow, At, Key
      <4>2. CASE g # h /\ ~Working(g)
        BY <3>1, <4>2 DEF StageMatchesRow, Working, Moves, At
      <4>3. CASE g # h /\ Working(g)
        <5>1. StageMatchesRow(g) /\ handler'[g] = handler[g]
          BY <3>1, <4>3 DEF IInv, Moves
        <5> QED
          BY <3>5, <3>6, <4>3, <5>1 DEF StageMatchesRow, Elsewhere, At, Key
      <4> QED
        BY <4>1, <4>2, <4>3
    <3>9. ASSUME NEW k \in Keys PROVE KeySound(k)'
      BY <1>0, <3>5 DEF IInv, ColumnsOK, KeySound, Elsewhere
    <3> QED
      BY <3>4, <3>7, <3>8, <3>9 DEF IInv
  <2>2. CASE ~(req.amount > 0 /\ payment[req.key].status = "NONE")
    <3>1. Moves(h, "idle", NoRequest) /\ UNCHANGED payment
      BY <1>0, <1>2, <2>2, ReturnMoves DEF InsertPending
    <3>2. ColumnsOK'
      BY <1>0, <1>2, <2>0, <2>2, RequestFields
         DEF InsertPending, ColumnsOK, Return, RowType
    <3>3. TypeOK'
      BY <3>1, <3>2, TypeParts DEF Moves, TypeOK, ColumnsOK, HandlerType
    <3>4. HasRequest' /\ SoleHandler'
      BY <3>1 DEF IInv, Moves, HasRequest, SoleHandler, Working, At, Key
    <3>5. \A g \in Handlers : StageMatchesRow(g)'
      BY <1>2, <3>1 DEF InsertPending, IInv, Moves, StageMatchesRow, At, Key
    <3>6. \A k \in Keys : KeySound(k)'
      BY <1>2, <3>1 DEF InsertPending, IInv, KeySound
    <3> QED
      BY <3>3, <3>4, <3>5, <3>6 DEF IInv
  <2> QED
    BY <2>1, <2>2
<1>3. ASSUME NEW h \in Handlers, callProcessor(h) PROVE IInv'
  <2>0. PICK k \in Keys : k = Key(h)
    BY <1>3, RequestFields DEF IInv, HasRequest, callProcessor, At, Key
  <2>1. Working(h) /\ payment[k].status = "PENDING" /\ calls[k] = 0
    BY <1>3, <2>0 DEF IInv, StageMatchesRow, callProcessor, Working, At
  <2>2. PICK verdict \in {"none", "charged", "processing", "declined"},
             delivered \in BOOLEAN :
          /\ processor' = [processor EXCEPT ![k] = verdict]
          /\ calls' = [calls EXCEPT ![k] = @ + IF verdict = "none" THEN 0 ELSE 1]
          /\ handler' = [handler EXCEPT
               ![h].pc = IF verdict = "charged" /\ delivered
                         THEN "succeeded" ELSE "failed",
               ![h].reference = IF delivered THEN "set" ELSE "null"]
    BY <1>3, <2>0 DEF callProcessor
  <2>3. \/ Moves(h, "succeeded", handler[h].req) /\ verdict = "charged"
        \/ Moves(h, "failed", handler[h].req)
    BY <1>0, <2>2, VerdictMoves DEF PCs, Nullable
  <2>4. ColumnsOK'
    <3>1. UNCHANGED <<payment, chart, posted, unposted, answer, died>>
      BY <1>3 DEF callProcessor
    <3>2. processor' \in [Keys -> {"none", "charged", "processing", "declined"}]
      BY <1>0, <2>2 DEF ColumnsOK
    <3>3. calls' \in [Keys -> Nat]
      BY <1>0, <2>2 DEF ColumnsOK
    <3> QED
      BY <1>0, <3>1, <3>2, <3>3 DEF ColumnsOK
  <2>5. /\ Elsewhere(k) /\ UNCHANGED <<payment, posted>>
        /\ processor'[k] = verdict /\ calls'[k] <= 1
    BY <1>0, <1>3, <2>1, <2>2 DEF callProcessor, ColumnsOK, Elsewhere
  <2>6. StageMatchesRow(h)'
    BY <2>0, <2>1, <2>3, <2>5 DEF StageMatchesRow, Moves, At, Key
  <2>7. KeySound(k)'
    BY <2>1, <2>5 DEF IInv, KeySound
  <2> QED
    BY <2>0, <2>1, <2>3, <2>4, <2>5, <2>6, <2>7, OwnKeyOnly
<1>4. ASSUME NEW h \in Handlers, RecordFailure(h) PROVE IInv'
  <2>0. PICK k \in Keys : k = Key(h)
    BY <1>4, RequestFields DEF IInv, HasRequest, RecordFailure, At, Key
  <2>1. Working(h) /\ payment[k].status = "PENDING"
    BY <1>4, <2>0 DEF IInv, StageMatchesRow, RecordFailure, Working, At
  <2>2. Moves(h, "idle", NoRequest)
    BY <1>0, <1>4, ReturnMoves DEF RecordFailure
  <2>3. payment' = [payment EXCEPT ![k].status = "FAILED",
                                   ![k].reference = handler[h].reference]
    BY <1>4, <2>0 DEF RecordFailure
  <2>4. ColumnsOK'
    <3>1. handler[h].reference \in Nullable
      BY <1>0 DEF HandlerType
    <3>2. payment' \in [Keys -> RowType]
      BY <1>0, <2>3, <3>1, StatusColumn DEF ColumnsOK, Statuses
    <3> QED
      BY <1>0, <1>4, <3>2 DEF RecordFailure, ColumnsOK, Statuses, Return
  <2>5. /\ Elsewhere(k) /\ UNCHANGED <<calls, posted, processor>>
        /\ payment'[k].status = "FAILED" /\ payment'[k].ledger = payment[k].ledger
    BY <1>0, <1>4, <2>3 DEF RecordFailure, ColumnsOK, RowType, Elsewhere
  <2>6. StageMatchesRow(h)'
    BY <2>2 DEF StageMatchesRow, Moves, At
  <2>7. KeySound(k)'
    BY <2>1, <2>5 DEF IInv, KeySound
  <2> QED
    BY <2>0, <2>1, <2>2, <2>4, <2>5, <2>6, <2>7, OwnKeyOnly
<1>5. ASSUME NEW h \in Handlers, RecordSuccess(h) PROVE IInv'
  <2>0. PICK k \in Keys : k = Key(h)
    BY <1>5, RequestFields DEF IInv, HasRequest, RecordSuccess, At, Key
  <2>1. Working(h) /\ payment[k].status = "PENDING" /\ processor[k] = "charged"
    BY <1>5, <2>0 DEF IInv, StageMatchesRow, RecordSuccess, Working, At
  <2>2. Moves(h, "accounts", handler[h].req)
    BY <1>0, <1>5, GotoMoves DEF RecordSuccess, PCs
  <2>3. payment' = [payment EXCEPT ![k].status = "SUCCEEDED", ![k].reference = "set"]
    BY <1>5, <2>0 DEF RecordSuccess
  <2>4. ColumnsOK'
    <3>1. payment' \in [Keys -> RowType]
      BY <1>0, <2>3, StatusColumn DEF ColumnsOK, Statuses, Nullable
    <3> QED
      BY <1>0, <1>5, <3>1 DEF RecordSuccess, ColumnsOK
  <2>5. /\ Elsewhere(k) /\ UNCHANGED <<calls, posted, processor>>
        /\ payment'[k].status = "SUCCEEDED" /\ payment'[k].ledger = payment[k].ledger
    BY <1>0, <1>5, <2>3 DEF RecordSuccess, ColumnsOK, RowType, Elsewhere
  <2>6. payment[k].ledger = "null"
    <3>1. payment[k].ledger \in {"null", "set"} /\ posted[k] \in Nat /\ KeySound(k)
      BY <1>0 DEF ColumnsOK, RowType, Nullable, IInv
    <3> QED
      BY <2>1, <3>1 DEF KeySound
  <2>7. StageMatchesRow(h)'
    BY <2>0, <2>2, <2>5, <2>6 DEF StageMatchesRow, Moves, At, Key
  <2>8. KeySound(k)'
    BY <2>1, <2>5 DEF IInv, KeySound
  <2> QED
    BY <2>0, <2>1, <2>2, <2>4, <2>5, <2>7, <2>8, OwnKeyOnly
<1>6. ASSUME NEW h \in Handlers, listAccounts(h) PROVE IInv'
  <2>0. PICK k \in Keys : k = Key(h)
    BY <1>6, RequestFields DEF IInv, HasRequest, listAccounts, At, Key
  <2>1. Working(h) /\ payment[k].status = "SUCCEEDED" /\ payment[k].ledger = "null"
    BY <1>6, <2>0 DEF IInv, StageMatchesRow, listAccounts, Working, At
  <2>2. \/ Moves(h, "create", handler[h].req)
        \/ Moves(h, "enqueue", handler[h].req)
    <3>1. chart[Org(h)] \in SUBSET Codes
      BY <1>0, <1>6, RequestFields DEF IInv, HasRequest, ColumnsOK, listAccounts,
         At, Org
    <3> QED
      BY <1>0, <1>6, <3>1, GotoMoves, ListMoves DEF listAccounts, PCs
  <2>3. ColumnsOK'
    BY <1>0, <1>6 DEF listAccounts, ColumnsOK
  <2>4. Elsewhere(k) /\ UNCHANGED <<payment, calls, posted, processor>>
    BY <1>6 DEF listAccounts, Elsewhere
  <2>5. StageMatchesRow(h)'
    BY <2>0, <2>1, <2>2, <2>4 DEF StageMatchesRow, Moves, At, Key
  <2>6. KeySound(k)'
    BY <2>4 DEF IInv, KeySound
  <2> QED
    BY <2>0, <2>1, <2>2, <2>3, <2>4, <2>5, <2>6, OwnKeyOnly
<1>7. ASSUME NEW h \in Handlers, createAccount(h) PROVE IInv'
  <2>0. PICK k \in Keys : k = Key(h)
    BY <1>7, RequestFields DEF IInv, HasRequest, createAccount, At, Key
  <2>1. Working(h) /\ payment[k].status = "SUCCEEDED" /\ payment[k].ledger = "null"
    BY <1>7, <2>0 DEF IInv, StageMatchesRow, createAccount, Working, At
  <2>2. \/ Moves(h, "create", handler[h].req)
        \/ Moves(h, "enqueue", handler[h].req)
    <3>1. FirstMissing(handler[h].known) \in Codes
      BY DEF FirstMissing, Codes
    <3> QED
      BY <1>0, <1>7, <3>1, GotoMoves, LearnMoves DEF createAccount, PCs, At
  <2>3. ColumnsOK'
    <3>1. Org(h) \in Orgs
      BY <1>7, RequestFields DEF IInv, HasRequest, createAccount, At, Org
    <3>2. FirstMissing(handler[h].known) \in Codes
      BY DEF FirstMissing, Codes
    <3> QED
      BY <1>0, <1>7, <3>1, <3>2 DEF createAccount, ColumnsOK
  <2>4. Elsewhere(k) /\ UNCHANGED <<payment, calls, posted, processor>>
    BY <1>7 DEF createAccount, Elsewhere
  <2>5. StageMatchesRow(h)'
    BY <2>0, <2>1, <2>2, <2>4 DEF StageMatchesRow, Moves, At, Key
  <2>6. KeySound(k)'
    BY <2>4 DEF IInv, KeySound
  <2> QED
    BY <2>0, <2>1, <2>2, <2>3, <2>4, <2>5, <2>6, OwnKeyOnly
<1>8. ASSUME NEW h \in Handlers, postPaymentSucceeded(h) PROVE IInv'
  <2>0. PICK k \in Keys : k = Key(h)
    BY <1>8, RequestFields DEF IInv, HasRequest, postPaymentSucceeded, At, Key
  <2>1. Working(h) /\ payment[k].status = "SUCCEEDED" /\ payment[k].ledger = "null"
    BY <1>8, <2>0 DEF IInv, StageMatchesRow, postPaymentSucceeded, Working, At
  <2>2. \/ /\ posted' = [posted EXCEPT ![k] = IF @ = 0 THEN 1 ELSE @]
           /\ \/ Moves(h, "link", handler[h].req)
              \/ Moves(h, "enqueue", handler[h].req)
        \/ posted' = posted /\ Moves(h, "enqueue", handler[h].req)
    BY <1>0, <1>8, <2>0, GotoMoves DEF postPaymentSucceeded, PCs
  <2>3. ColumnsOK'
    BY <1>0, <1>8, <2>2 DEF postPaymentSucceeded, ColumnsOK
  <2>4. /\ Elsewhere(k) /\ UNCHANGED <<payment, calls, processor>>
        /\ posted'[k] \in {posted[k], 1}
        /\ Moves(h, "link", handler[h].req) => posted'[k] = 1
    <3>1. posted[k] \in {0, 1}
      BY <1>0 DEF IInv, ColumnsOK, KeySound
    <3>2. Moves(h, "link", handler[h].req) =>
            posted' = [posted EXCEPT ![k] = IF @ = 0 THEN 1 ELSE @]
      BY <2>2 DEF Moves
    <3> QED
      BY <1>0, <1>8, <2>2, <3>1, <3>2 DEF postPaymentSucceeded, ColumnsOK, Elsewhere
  <2>5. StageMatchesRow(h)'
    BY <2>0, <2>1, <2>2, <2>4 DEF StageMatchesRow, Moves, At, Key
  <2>6. KeySound(k)'
    <3>1. posted[k] \in Nat /\ KeySound(k)
      BY <1>0 DEF IInv, ColumnsOK
    <3> QED
      BY <2>1, <2>4, <3>1 DEF KeySound
  <2> QED
    BY <2>0, <2>1, <2>2, <2>3, <2>4, <2>5, <2>6, OwnKeyOnly
<1>9. ASSUME NEW h \in Handlers, LinkLedger(h) PROVE IInv'
  <2>0. PICK k \in Keys : k = Key(h)
    BY <1>9, RequestFields DEF IInv, HasRequest, LinkLedger, At, Key
  <2>1. Working(h) /\ posted[k] = 1 /\ payment[k].status = "SUCCEEDED" /\ payment[k].ledger = "null"
    BY <1>9, <2>0 DEF IInv, StageMatchesRow, LinkLedger, Working, At
  <2>2. CASE LinkLedger(h) /\ UNCHANGED <<payment, answer>> /\ Goto(h, "enqueue")
    <3>1. Moves(h, "enqueue", handler[h].req)
      BY <1>0, <2>2, GotoMoves DEF PCs
    <3>2. ColumnsOK' /\ Elsewhere(k) /\ UNCHANGED <<payment, calls, posted, processor>>
      BY <1>0, <2>2 DEF LinkLedger, ColumnsOK, Elsewhere
    <3>3. StageMatchesRow(h)'
      BY <2>0, <2>1, <3>1, <3>2 DEF StageMatchesRow, Moves, At, Key
    <3>4. KeySound(k)'
      BY <3>2 DEF IInv, KeySound
    <3> QED
      BY <2>0, <2>1, <3>1, <3>2, <3>3, <3>4, OwnKeyOnly
  <2>3. CASE /\ LinkLedger(h) /\ Return(h, "SUCCEEDED")
             /\ payment' = [payment EXCEPT ![k].ledger = "set"]
    <3>1. Moves(h, "idle", NoRequest)
      BY <1>0, <2>3, ReturnMoves
    <3>2. ColumnsOK'
      <4>1. payment' \in [Keys -> RowType]
        BY <1>0, <2>3, LedgerColumn DEF ColumnsOK
      <4> QED
        BY <1>0, <2>3, <4>1 DEF LinkLedger, ColumnsOK, Statuses, Return
    <3>3. /\ Elsewhere(k) /\ UNCHANGED <<calls, posted, processor>>
          /\ payment'[k].status = payment[k].status
      BY <1>0, <2>3 DEF LinkLedger, ColumnsOK, RowType, Elsewhere
    <3>4. StageMatchesRow(h)'
      BY <3>1 DEF StageMatchesRow, Moves, At
    <3>5. KeySound(k)'
      BY <2>1, <3>3 DEF IInv, KeySound
    <3> QED
      BY <2>0, <2>1, <3>1, <3>2, <3>3, <3>4, <3>5, OwnKeyOnly
  <2> QED
    BY <1>9, <2>0, <2>2, <2>3 DEF LinkLedger
<1>10. ASSUME NEW h \in Handlers, enqueueUnpostedPayment(h) PROVE IInv'
  <2>0. PICK k \in Keys : k = Key(h)
    BY <1>10, RequestFields DEF IInv, HasRequest, enqueueUnpostedPayment, At, Key
  <2>1. Working(h) /\ payment[k].status = "SUCCEEDED" /\ payment[k].ledger = "null"
    BY <1>10, <2>0 DEF IInv, StageMatchesRow, enqueueUnpostedPayment, Working, At
  <2>2. Moves(h, "idle", NoRequest)
    BY <1>0, <1>10, ReturnMoves DEF enqueueUnpostedPayment
  <2>3. ColumnsOK'
    BY <1>0, <1>10, <2>0 DEF enqueueUnpostedPayment, ColumnsOK, Statuses, Return
  <2>4. Elsewhere(k) /\ UNCHANGED <<payment, calls, posted, processor>>
    BY <1>10 DEF enqueueUnpostedPayment, Elsewhere
  <2>5. StageMatchesRow(h)'
    BY <2>0, <2>1, <2>2, <2>4 DEF StageMatchesRow, Moves, At, Key
  <2>6. KeySound(k)'
    BY <2>4 DEF IInv, KeySound
  <2> QED
    BY <2>0, <2>1, <2>2, <2>3, <2>4, <2>5, <2>6, OwnKeyOnly
<1>11. ASSUME NEW h \in Handlers, Die(h) PROVE IInv'
  <2>1. Moves(h, "idle", NoRequest)
    BY <1>0, <1>11, ReturnMoves DEF Die
  <2>2. Key(h) \in Keys
    BY <1>11, RequestFields DEF IInv, HasRequest, Die, Key
  <2>3. ColumnsOK'
    BY <1>0, <1>11, <2>2 DEF Die, ColumnsOK, Return
  <2>4. TypeOK'
    BY <2>1, <2>3, TypeParts DEF Moves, TypeOK, ColumnsOK, HandlerType
  <2>5. HasRequest' /\ SoleHandler'
    BY <2>1 DEF IInv, Moves, HasRequest, SoleHandler, Working, At, Key
  <2>6. \A g \in Handlers : StageMatchesRow(g)'
    BY <1>11, <2>1 DEF Die, IInv, Moves, StageMatchesRow, At, Key
  <2>7. \A k \in Keys : KeySound(k)'
    BY <1>11 DEF Die, IInv, KeySound
  <2> QED
    BY <2>4, <2>5, <2>6, <2>7 DEF IInv
<1>12. ASSUME NEW k \in Keys, Settle(k) PROVE IInv'
  <2>1. ColumnsOK' /\ TypeOK'
    BY <1>0, <1>12, TypeParts DEF Settle, ColumnsOK, TypeOK, HandlerType
  <2>2. HasRequest' /\ SoleHandler'
    BY <1>12 DEF Settle, IInv, HasRequest, SoleHandler, Working, At, Key
  <2>3. \A j \in Keys : processor[j] = "charged" => processor'[j] = "charged"
    BY <1>0, <1>12 DEF Settle, ColumnsOK
  <2>4. ASSUME NEW g \in Handlers PROVE StageMatchesRow(g)'
    <3>1. Working(g) => Key(g) \in Keys
      BY RequestFields DEF IInv, HasRequest, Working, At, Key
    <3> QED
      BY <1>12, <2>3, <3>1 DEF Settle, IInv, StageMatchesRow, Working, At, Key
  <2>5. \A j \in Keys : KeySound(j)'
    BY <1>12, <2>3 DEF Settle, IInv, KeySound
  <2> QED
    BY <2>1, <2>2, <2>4, <2>5 DEF IInv
<1>13. CASE UNCHANGED vars
  BY <1>13 DEF vars, IInv, TypeOK, HasRequest, StageMatchesRow, KeySound,
     SoleHandler, Working, At, Key
<1> QED
  BY <1>1, <1>2, <1>3, <1>4, <1>5, <1>6, <1>7, <1>8, <1>9, <1>10, <1>11,
     <1>12, <1>13 DEF Next, Work

-----------------------------------------------------------------------------
\* The invariant holds throughout.
LEMMA Invariant == Spec => []IInv
BY InitIInv, NextIInv, PTL DEF Spec

\* No statement of createPayment leaves a column or a handler without its type.
THEOREM TypeCorrect == Spec => []TypeOK
<1>1. IInv => TypeOK
  BY DEF IInv
<1> QED
  BY <1>1, Invariant, PTL

\* However requests race, are repeated, come from other tenants and crash, a key
\* is charged at most once and posted at most once.
THEOREM NoDoubleCharge == Spec => []ChargedAtMostOnce
<1>1. IInv => ChargedAtMostOnce
  BY DEF IInv, KeySound, ChargedAtMostOnce
<1> QED
  BY <1>1, Invariant, PTL

\* A payment is SUCCEEDED only on a charge, posted only when SUCCEEDED and
\* linked only when posted.
THEOREM EffectsInOrder == Spec => []BooksFollowTheMoney
<1>1. IInv => BooksFollowTheMoney
  BY DEF IInv, KeySound, BooksFollowTheMoney
<1> QED
  BY <1>1, Invariant, PTL

\* After its INSERT a handler is alone on its key.
THEOREM OneHandlerPerKey == Spec => []SoleHandler
<1>1. IInv => SoleHandler
  BY DEF IInv
<1> QED
  BY <1>1, Invariant, PTL

-----------------------------------------------------------------------------
(***************************************************************************)
(* Nothing succeeded is forgotten: its own induction, on top of IInv.      *)
(***************************************************************************)
Accounted(k) ==
    \/ k \in unposted \cup died
    \/ \E g \in Handlers : Working(g) /\ Key(g) = k

\* Handlers other than h go on accounting for their keys.
LEMMA OthersAccount ==
    ASSUME NEW h \in Handlers, NEW pc, NEW req, Moves(h, pc, req), NEW k \in Keys,
           unposted \subseteq unposted', died \subseteq died',
           Accounted(k), ~(Working(h) /\ Key(h) = k)
    PROVE  Accounted(k)'
BY DEF Accounted, Moves, Working, Key

\* A handler that works on accounts for its key and for what it did before.
LEMMA WorkerAccounts ==
    ASSUME NEW h \in Handlers, NEW pc, Moves(h, pc, handler[h].req),
           pc \notin {"idle", "insert"}, NEW k \in Keys,
           unposted \subseteq unposted', died \subseteq died',
           Accounted(k) \/ Key(h) = k
    PROVE  Accounted(k)'
BY DEF Accounted, Moves, Working, Key

\* Every step keeps a succeeded payment without a ledger id accounted for.
LEMMA NextUnposted == IInv /\ UnpostedIsQueued /\ [Next]_vars => UnpostedIsQueued'
<1> SUFFICES ASSUME IInv, UnpostedIsQueued, [Next]_vars,
                    NEW k \in Keys, payment'[k].status = "SUCCEEDED",
                    payment'[k].ledger = "null"
             PROVE  Accounted(k)'
  BY DEF UnpostedIsQueued, Accounted
<1>0. ColumnsOK /\ handler \in [Handlers -> HandlerType]
  BY TypeParts DEF IInv
<1>1. payment'[k] = payment[k] => Accounted(k)
  BY DEF UnpostedIsQueued, Accounted
<1>2. ASSUME NEW h \in Handlers, NEW req \in Requests, createPayment(h, req)
      PROVE  Accounted(k)'
  <2>1. Moves(h, "idle", NoRequest) \/ Moves(h, "insert", req)
    BY <1>0, <1>2, ReturnMoves, TakeMoves DEF createPayment
  <2> QED
    BY <1>1, <1>2, <2>1, OthersAccount DEF createPayment, Working, At
<1>3. ASSUME NEW h \in Handlers, InsertPending(h) PROVE Accounted(k)'
  <2>1. Moves(h, "charge", handler[h].req) \/ Moves(h, "idle", NoRequest)
    BY <1>0, <1>3, GotoMoves, ReturnMoves DEF InsertPending, PCs
  <2>2. payment'[k] = payment[k]
    <3>1. \/ UNCHANGED payment
          \/ /\ payment'[handler[h].req.key].status = "PENDING"
             /\ \A j \in Keys \ {handler[h].req.key} : payment'[j] = payment[j]
      <4>1. handler[h].req.key \in Keys
        BY <1>3, RequestFields DEF IInv, HasRequest, InsertPending, At
      <4>2. \/ UNCHANGED payment
            \/ payment' = [payment EXCEPT ![handler[h].req.key] =
                 [org |-> handler[h].req.org, status |-> "PENDING",
                  amount |-> handler[h].req.amount,
                  feeAmount |-> handler[h].req.feeAmount,
                  reference |-> "null", ledger |-> "null"]]
        BY <1>3 DEF InsertPending, NoRow
      <4> QED
        BY <1>0, <4>1, <4>2 DEF ColumnsOK
    <3> QED
      BY <3>1
  <2> QED
    BY <1>1, <1>3, <2>1, <2>2, OthersAccount DEF InsertPending, Working, At
<1>4. ASSUME NEW h \in Handlers, callProcessor(h) PROVE Accounted(k)'
  <2>1. \E pc \in {"succeeded", "failed"} : Moves(h, pc, handler[h].req)
    <3>1. PICK pc \in {"succeeded", "failed"}, r \in Nullable :
            handler' = [handler EXCEPT ![h].pc = pc, ![h].reference = r]
      BY <1>4 DEF callProcessor, Nullable
    <3> QED
      BY <1>0, <3>1, VerdictMoves DEF PCs
  <2>2. UNCHANGED <<payment, unposted, died>>
    BY <1>4 DEF callProcessor
  <2> QED
    BY <1>1, <2>1, <2>2, WorkerAccounts
<1>5. ASSUME NEW h \in Handlers, RecordFailure(h) PROVE Accounted(k)'
  <2>1. Moves(h, "idle", NoRequest)
    BY <1>0, <1>5, ReturnMoves DEF RecordFailure
  <2>2. Key(h) # k /\ payment'[k] = payment[k]
    BY <1>0, <1>5 DEF RecordFailure, ColumnsOK, RowType
  <2> QED
    BY <1>1, <1>5, <2>1, <2>2, OthersAccount DEF RecordFailure
<1>6. ASSUME NEW h \in Handlers, RecordSuccess(h) PROVE Accounted(k)'
  <2>1. Moves(h, "accounts", handler[h].req)
    BY <1>0, <1>6, GotoMoves DEF RecordSuccess, PCs
  <2>2. Key(h) = k \/ payment'[k] = payment[k]
    BY <1>0, <1>6 DEF RecordSuccess, ColumnsOK
  <2> QED
    BY <1>1, <1>6, <2>1, <2>2, WorkerAccounts DEF RecordSuccess
<1>7. ASSUME NEW h \in Handlers, listAccounts(h) PROVE Accounted(k)'
  <2>1. chart[Org(h)] \in SUBSET Codes
    BY <1>0, <1>7, RequestFields DEF IInv, HasRequest, ColumnsOK, listAccounts,
       At, Org
  <2>2. Moves(h, "create", handler[h].req) \/ Moves(h, "enqueue", handler[h].req)
    BY <1>0, <1>7, <2>1, GotoMoves, ListMoves DEF listAccounts, PCs
  <2>3. UNCHANGED <<payment, unposted, died>>
    BY <1>7 DEF listAccounts
  <2>4. \E pc \in {"create", "enqueue"} : Moves(h, pc, handler[h].req)
    BY <2>2
  <2> QED
    BY <1>1, <2>3, <2>4, WorkerAccounts
<1>8. ASSUME NEW h \in Handlers, createAccount(h) PROVE Accounted(k)'
  <2>1. FirstMissing(handler[h].known) \in Codes
    BY DEF FirstMissing, Codes
  <2>2. Moves(h, "create", handler[h].req) \/ Moves(h, "enqueue", handler[h].req)
    BY <1>0, <1>8, <2>1, GotoMoves, LearnMoves DEF createAccount, PCs, At
  <2>3. UNCHANGED <<payment, unposted, died>>
    BY <1>8 DEF createAccount
  <2>4. \E pc \in {"create", "enqueue"} : Moves(h, pc, handler[h].req)
    BY <2>2
  <2> QED
    BY <1>1, <2>3, <2>4, WorkerAccounts
<1>9. ASSUME NEW h \in Handlers, postPaymentSucceeded(h) PROVE Accounted(k)'
  <2>1. Moves(h, "link", handler[h].req) \/ Moves(h, "enqueue", handler[h].req)
    BY <1>0, <1>9, GotoMoves DEF postPaymentSucceeded, PCs
  <2>3. UNCHANGED <<payment, unposted, died>>
    BY <1>9 DEF postPaymentSucceeded
  <2> QED
    BY <1>1, <2>1, <2>3, WorkerAccounts
<1>10. ASSUME NEW h \in Handlers, LinkLedger(h) PROVE Accounted(k)'
  <2>1. CASE Goto(h, "enqueue") /\ UNCHANGED payment
    <3>1. Moves(h, "enqueue", handler[h].req)
      BY <1>0, <2>1, GotoMoves DEF PCs
    <3> QED
      BY <1>1, <1>10, <2>1, <3>1, WorkerAccounts DEF LinkLedger
  <2>2. CASE /\ payment' = [payment EXCEPT ![Key(h)].ledger = "set"]
             /\ Return(h, "SUCCEEDED")
    <3>1. Moves(h, "idle", NoRequest)
      BY <1>0, <2>2, ReturnMoves
    <3>2. Key(h) # k /\ payment'[k] = payment[k]
      BY <1>0, <2>2 DEF ColumnsOK, RowType
    <3> QED
      BY <1>1, <1>10, <3>1, <3>2, OthersAccount DEF LinkLedger
  <2> QED
    BY <1>10, <2>1, <2>2 DEF LinkLedger
<1>11. ASSUME NEW h \in Handlers, enqueueUnpostedPayment(h) PROVE Accounted(k)'
  <2>1. Moves(h, "idle", NoRequest)
    BY <1>0, <1>11, ReturnMoves DEF enqueueUnpostedPayment
  <2>2. CASE Key(h) = k
    BY <1>11, <2>2 DEF enqueueUnpostedPayment, Accounted
  <2>3. CASE Key(h) # k
    BY <1>1, <1>11, <2>1, <2>3, OthersAccount DEF enqueueUnpostedPayment
  <2> QED
    BY <2>2, <2>3
<1>12. ASSUME NEW h \in Handlers, Die(h) PROVE Accounted(k)'
  <2>1. Moves(h, "idle", NoRequest)
    BY <1>0, <1>12, ReturnMoves DEF Die
  <2>2. CASE Working(h) /\ Key(h) = k
    BY <1>12, <2>2 DEF Die, Accounted, Working, At
  <2>3. CASE ~(Working(h) /\ Key(h) = k)
    BY <1>1, <1>12, <2>1, <2>3, OthersAccount DEF Die
  <2> QED
    BY <2>2, <2>3
<1>13. ASSUME NEW j \in Keys, Settle(j) PROVE Accounted(k)'
  BY <1>1, <1>13 DEF Settle, Accounted, Working, Key
<1>14. CASE UNCHANGED vars
  BY <1>1, <1>14 DEF vars, Accounted, Working, Key
<1> QED
  BY <1>2, <1>3, <1>4, <1>5, <1>6, <1>7, <1>8, <1>9, <1>10, <1>11,
     <1>12, <1>13, <1>14 DEF Next, Work

\* A succeeded payment that is not linked to the ledger is queued, unless its
\* handler still works on it or died.
THEOREM NothingForgotten == Spec => []UnpostedIsQueued
<1>1. Init => UnpostedIsQueued
  BY DEF Init, UnpostedIsQueued, NoRow
<1> QED
  BY <1>1, Invariant, NextUnposted, PTL DEF Spec

-----------------------------------------------------------------------------
(***************************************************************************)
(* The service implements PaymentRecord.                                   *)
(***************************************************************************)
Rows == [k \in Keys |-> Row(k)]

\* Every step of the service accepts a request, decides it, links it, or is
\* invisible to callers.
LEMMA NextRecord == IInv /\ [Next]_vars => [Record!Next]_Rows
<1> SUFFICES ASSUME IInv, [Next]_vars PROVE Record!Next \/ UNCHANGED Rows
  OBVIOUS
<1>0. ColumnsOK /\ handler \in [Handlers -> HandlerType]
  BY TypeParts DEF IInv
<1>1. UNCHANGED payment => UNCHANGED Rows
  BY DEF Rows, Row
<1>2. ASSUME NEW h \in Handlers, InsertPending(h), ~UNCHANGED payment
      PROVE  Record!Next
  <2> DEFINE req == handler[h].req
  <2>1. req \in Requests /\ req.key \in Keys
    BY <1>2, RequestFields DEF IInv, HasRequest, InsertPending, At
  <2>2. /\ req.amount > 0 /\ payment[req.key].status = "NONE"
        /\ payment' = [payment EXCEPT ![req.key] =
             [org |-> req.org, status |-> "PENDING", amount |-> req.amount,
              feeAmount |-> req.feeAmount, reference |-> "null", ledger |-> "null"]]
    BY <1>2 DEF InsertPending, NoRow
  <2>3. Rows[req.key].status = "NONE"
    BY <2>1, <2>2 DEF Rows, Row
  <2>4. Rows' = [Rows EXCEPT ![req.key] =
          [org |-> req.org, amount |-> req.amount, feeAmount |-> req.feeAmount,
           status |-> "PENDING", ledger |-> "null"]]
    BY <1>0, <2>1, <2>2 DEF ColumnsOK, Rows, Row
  <2>5. Record!Accept(req)
    BY <2>2, <2>3, <2>4 DEF Record!Accept, Rows
  <2> QED
    BY <2>1, <2>5 DEF Record!Next
<1>3. ASSUME NEW k \in Keys, payment[k].status = "PENDING",
             NEW outcome \in {"SUCCEEDED", "FAILED"}, NEW r,
             payment' = [payment EXCEPT ![k].status = outcome, ![k].reference = r]
      PROVE  Record!Next
  <2>1. Rows[k].status = "PENDING"
    BY <1>3 DEF Rows, Row
  <2>2. Rows' = [Rows EXCEPT ![k].status = outcome]
    <3>1. ASSUME NEW j \in Keys
          PROVE  Row(j)' = IF j = k THEN [Row(k) EXCEPT !.status = outcome] ELSE Row(j)
      BY <1>0, <1>3 DEF ColumnsOK, RowType, Row
    <3> QED
      BY <3>1 DEF Rows
  <2>3. Record!Decide(k)
    BY <2>1, <2>2 DEF Record!Decide, Rows
  <2> QED
    BY <2>3 DEF Record!Next
<1>4. ASSUME NEW k \in Keys, payment[k].status = "SUCCEEDED",
             payment[k].ledger = "null",
             payment' = [payment EXCEPT ![k].ledger = "set"]
      PROVE  Record!Next
  <2>1. Rows[k].status = "SUCCEEDED" /\ Rows[k].ledger = "null"
    BY <1>4 DEF Rows, Row
  <2>2. Rows' = [Rows EXCEPT ![k].ledger = "set"]
    <3>1. ASSUME NEW j \in Keys
          PROVE  Row(j)' = IF j = k THEN [Row(k) EXCEPT !.ledger = "set"] ELSE Row(j)
      BY <1>0, <1>4 DEF ColumnsOK, RowType, Row
    <3> QED
      BY <3>1 DEF Rows
  <2>3. Record!Link(k)
    BY <2>1, <2>2 DEF Record!Link, Rows
  <2> QED
    BY <2>3 DEF Record!Next
<1>5. ASSUME NEW h \in Handlers, RecordFailure(h) PROVE Record!Next
  <2>1. Key(h) \in Keys /\ payment[Key(h)].status = "PENDING"
    BY <1>5, RequestFields DEF IInv, HasRequest, StageMatchesRow, RecordFailure, At, Key
  <2> QED
    BY <1>3, <1>5, <2>1 DEF RecordFailure
<1>6. ASSUME NEW h \in Handlers, RecordSuccess(h) PROVE Record!Next
  <2>1. Key(h) \in Keys /\ payment[Key(h)].status = "PENDING"
    BY <1>6, RequestFields DEF IInv, HasRequest, StageMatchesRow, RecordSuccess, At, Key
  <2> QED
    BY <1>3, <1>6, <2>1 DEF RecordSuccess
<1>7. ASSUME NEW h \in Handlers, LinkLedger(h), ~UNCHANGED payment PROVE Record!Next
  <2>1. /\ Key(h) \in Keys /\ payment[Key(h)].status = "SUCCEEDED"
        /\ payment[Key(h)].ledger = "null"
    BY <1>7, RequestFields DEF IInv, HasRequest, StageMatchesRow, LinkLedger, At, Key
  <2> QED
    BY <1>4, <1>7, <2>1 DEF LinkLedger
<1>8. \/ UNCHANGED payment
      \/ \E h \in Handlers : \/ InsertPending(h) \/ RecordFailure(h)
                            \/ RecordSuccess(h) \/ LinkLedger(h)
  BY DEF Next, Work, vars, createPayment, callProcessor, listAccounts, createAccount,
     postPaymentSucceeded, enqueueUnpostedPayment, Die, Settle
<1> QED
  BY <1>1, <1>2, <1>5, <1>6, <1>7, <1>8

\* createPayment implements the record callers rely on: one request per key, one
\* outcome, one link to the ledger.
THEOREM Refinement == Spec => ImplementsRecord
<1>1. Init => Record!Init
  BY DEF Init, Record!Init, Record!NoRow, Row, NoRow
<1>2. IInv /\ [Next]_vars => [Record!Next]_Rows
  BY NextRecord
<1> QED
  BY <1>1, <1>2, Invariant, PTL DEF Spec, ImplementsRecord, Record!Spec, Rows
=============================================================================
