---------------------------- MODULE RefundsProofs ----------------------------
(***************************************************************************)
(* The safety of refundPayment, for every set of payments, keys, handlers  *)
(* and requests.                                                           *)
(***************************************************************************)
EXTENDS Refunds, SumTheorems

ProcessorType == [said : {"none", "refunded", "pending", "failed"}, moved : BOOLEAN,
                  amount : Nat, payment : PaymentIds \cup {NoRequest}]
HandlerType == [pc : {"idle", "read", "sum", "attempt", "restart", "processor", "record",
                      "ledger", "insert", "finish", "status"},
                req : RequestType \cup {NoRequest}, already : Nat, ok : BOOLEAN]

\* Finitely many keys were ever sent to the processor.
FewKeys == IsFiniteSet({k \in Keys : processor[k].said # "none"})

\* The processor's record of a key is the request of a caller, and a refund it
\* accepted has moved the money.
ProcessorWasAsked ==
    \A k \in Keys :
        /\ processor[k].said = "refunded" => processor[k].moved
        /\ processor[k].said # "none" =>
             \E req \in Requests :
                 /\ req.key = k /\ req.amount > 0
                 /\ req.payment = processor[k].payment /\ req.amount = processor[k].amount

\* A refund row is what a caller asked for under its key, after the processor
\* accepted a refund under that key and the ledger reversed.
RowsWereAsked ==
    \A k \in Keys :
        /\ ~HasRow(k) => refund[k].payment = NoRequest
        /\ reversals[k] > 0 => processor[k].said = "refunded"
        /\ HasRow(k) =>
             /\ processor[k].said = "refunded" /\ reversals[k] > 0
             /\ \E req \in Requests :
                 /\ req.key = k /\ req.amount > 0
                 /\ req.payment = refund[k].payment /\ req.amount = refund[k].amount

\* The attempt of a key is not behind the processor, and not ahead of it.
AttemptFollows ==
    \A k \in Keys :
        /\ processor[k].said # "none" => attempt[k] # "NONE"
        /\ attempt[k] = "FAILED" => processor[k].said \in {"pending", "failed"}

\* What a handler may rely on at each await.
Knows(h) ==
    /\ ~At(h, "idle") => handler[h].req \in Requests
    /\ handler[h].pc \in {"restart", "processor", "record", "ledger", "insert", "finish",
                          "status"} => Amount(h) > 0 /\ attempt[Key(h)] # "NONE"
    /\ At(h, "record") =>
         IF handler[h].ok THEN processor[Key(h)].said = "refunded"
                          ELSE processor[Key(h)].said \in {"pending", "failed"}
    /\ handler[h].pc \in {"ledger", "insert", "finish", "status"} =>
         processor[Key(h)].said = "refunded"
    /\ At(h, "insert") => reversals[Key(h)] > 0
    /\ handler[h].pc \in {"finish", "status"} => HasRow(Key(h))

IInv ==
    /\ TypeOK
    /\ FewKeys
    /\ ProcessorWasAsked
    /\ RowsWereAsked
    /\ AttemptFollows
    /\ SplitStateIsKept
    /\ \A h \in Handlers : Knows(h)

-----------------------------------------------------------------------------
(* Types, sums and the facts a step leaves alone. *)

\* The columns, one by one.
LEMMA TypeParts ==
    TypeOK <=>
        /\ status \in [PaymentIds -> {"SUCCEEDED", "PARTIALLY_REFUNDED", "REFUNDED"}]
        /\ attempt \in [Keys -> AttemptStatuses \cup {"NONE"}]
        /\ refund \in [Keys -> RowType]
        /\ processor \in [Keys -> ProcessorType]
        /\ reversals \in [Keys -> Nat]
        /\ handler \in [Handlers -> HandlerType]
        /\ answer \in [Handlers -> {"none", "SUCCEEDED", "error", "lost"}]
        /\ overtaken \subseteq PaymentIds
BY DEF TypeOK, ProcessorType, HandlerType

\* A request names a payment, a key and an amount.
LEMMA RequestParts ==
    ASSUME NEW req \in Requests
    PROVE  req \in RequestType /\ req.payment \in PaymentIds /\ req.key \in Keys /\ req.amount \in Nat
BY RefundsAssumption DEF RequestType

\* A handler that is at work has a request.
LEMMA RequestOf ==
    ASSUME IInv, NEW h \in Handlers, ~At(h, "idle")
    PROVE  /\ handler[h].req \in Requests /\ Key(h) \in Keys /\ Pay(h) \in PaymentIds
           /\ Amount(h) \in Nat
<1>1. handler[h].req \in Requests
  BY DEF IInv, Knows
<1> QED
  BY <1>1, RequestParts DEF Key, Pay, Amount

\* Idle is a handler.
LEMMA IdleIsHandler == Idle \in HandlerType /\ Idle.pc = "idle"
BY DEF Idle, HandlerType

\* What a handler that returns leaves behind.
LEMMA ReturnWrites ==
    ASSUME TypeOK, NEW h \in Handlers, NEW what \in {"none", "SUCCEEDED", "error", "lost"},
           Return(h, what)
    PROVE  /\ handler' \in [Handlers -> HandlerType] /\ handler'[h].pc = "idle"
           /\ \A g \in Handlers : g # h => handler'[g] = handler[g]
           /\ answer' \in [Handlers -> {"none", "SUCCEEDED", "error", "lost"}]
BY TypeParts, IdleIsHandler DEF Return

\* What a handler that goes on leaves behind.
LEMMA GotoWrites ==
    ASSUME TypeOK, NEW h \in Handlers,
           NEW pc \in {"read", "sum", "attempt", "restart", "processor", "record",
                       "ledger", "insert", "finish", "status"},
           Goto(h, pc)
    PROVE  /\ handler' \in [Handlers -> HandlerType]
           /\ handler'[h].pc = pc /\ handler'[h].req = handler[h].req
           /\ handler'[h].already = handler[h].already /\ handler'[h].ok = handler[h].ok
           /\ \A g \in Handlers : g # h => handler'[g] = handler[g]
BY TypeParts DEF Goto, HandlerType

\* A row that is about a payment is one of finitely many, so SUM(amount) is a
\* number.
LEMMA RefundedIsNumber ==
    ASSUME IInv, NEW p \in PaymentIds
    PROVE  Refunded(p) \in Nat
<1> DEFINE rows == {k \in Keys : refund[k].payment = p}
           f == [k \in rows |-> refund[k].amount]
<1>1. rows \subseteq {k \in Keys : processor[k].said # "none"}
  BY RefundsAssumption DEF IInv, RowsWereAsked
<1>2. IsFiniteSet(rows)
  BY <1>1, FS_Subset DEF IInv, FewKeys
<1>3. \A k \in rows : f[k] \in Nat
  BY TypeParts DEF IInv, RowType
<1>4. SumFunctionOnSet(f, rows) \in Nat
  <2> HIDE DEF f, rows
  <2> QED
    BY <1>2, <1>3, SumNat
<1> QED
  BY <1>4 DEF Refunded, Total

\* What no step takes back.
Grows ==
    \A k \in Keys :
        /\ processor[k].said # "none" => processor'[k].said = processor[k].said
        /\ attempt[k] # "NONE" => attempt'[k] # "NONE"
        /\ reversals[k] > 0 => reversals'[k] > 0
        /\ refund[k].amount > 0 => refund'[k].amount > 0

\* A handler keeps what it knows while another one steps.
LEMMA OthersKnow ==
    ASSUME IInv, Grows, NEW g \in Handlers, handler'[g] = handler[g]
    PROVE  Knows(g)'
<1>1. CASE At(g, "idle")
  BY <1>1 DEF Knows, At
<1>2. CASE ~At(g, "idle")
  <2>1. Key(g) \in Keys /\ Knows(g)
    BY <1>2, RequestOf DEF IInv
  <2>2. /\ Key(g)' = Key(g) /\ Amount(g)' = Amount(g)
        /\ (At(g, "idle")' <=> At(g, "idle")) /\ (At(g, "record")' <=> At(g, "record"))
        /\ (At(g, "insert")' <=> At(g, "insert"))
    BY DEF Key, Amount, At
  <2>3. /\ processor[Key(g)].said # "none" => processor'[Key(g)].said = processor[Key(g)].said
        /\ attempt[Key(g)] # "NONE" => attempt'[Key(g)] # "NONE"
        /\ reversals[Key(g)] > 0 => reversals'[Key(g)] > 0
        /\ refund[Key(g)].amount > 0 => refund'[Key(g)].amount > 0
    BY <2>1 DEF Grows, HasRow
  <2>4. handler'[g].pc = handler[g].pc /\ handler'[g].ok = handler[g].ok
        /\ handler'[g].req = handler[g].req
    OBVIOUS
  <2>5. /\ ~At(g, "idle")' => handler'[g].req \in Requests
        /\ handler'[g].pc \in {"restart", "processor", "record", "ledger", "insert", "finish",
                               "status"} => Amount(g)' > 0 /\ attempt'[Key(g)'] # "NONE"
    BY <2>1, <2>2, <2>3, <2>4 DEF Knows
  <2>6. At(g, "record")' =>
         IF handler'[g].ok THEN processor'[Key(g)'].said = "refunded"
                           ELSE processor'[Key(g)'].said \in {"pending", "failed"}
    BY <2>1, <2>2, <2>3, <2>4 DEF Knows
  <2>7. /\ handler'[g].pc \in {"ledger", "insert", "finish", "status"} =>
             processor'[Key(g)'].said = "refunded"
        /\ At(g, "insert")' => reversals'[Key(g)'] > 0
    BY <2>1, <2>2, <2>3, <2>4 DEF Knows
  <2>8. handler'[g].pc \in {"finish", "status"} => HasRow(Key(g))'
    BY <2>1, <2>2, <2>3, <2>4 DEF Knows, HasRow
  <2> QED
    BY <2>5, <2>6, <2>7, <2>8 DEF Knows
<1> QED
  BY <1>1, <1>2

\* The tables stay right when they are not written.
LEMMA QuietStep ==
    ASSUME IInv, TypeOK', UNCHANGED <<overtaken, attempt, refund, processor, reversals>>,
           NEW h \in Handlers, \A g \in Handlers : g # h => handler'[g] = handler[g], Knows(h)'
    PROVE  IInv'
<1>1. Grows
  BY DEF Grows, HasRow
<1>2. FewKeys'
  BY DEF IInv, FewKeys
<1>3. ProcessorWasAsked' /\ AttemptFollows'
  BY DEF IInv, ProcessorWasAsked, AttemptFollows
<1>4. RowsWereAsked' /\ SplitStateIsKept'
  BY DEF IInv, RowsWereAsked, SplitStateIsKept, HasRow
<1>5. \A g \in Handlers : Knows(g)'
  BY <1>1, OthersKnow
<1> QED
  BY <1>2, <1>3, <1>4, <1>5 DEF IInv

\* A handler that ends knows nothing.
LEMMA IdleKnows ==
    ASSUME NEW h \in Handlers, handler'[h].pc = "idle"
    PROVE  Knows(h)'
BY DEF Knows, At

\* A step that only returns keeps the invariant.
LEMMA ReturnStep ==
    ASSUME IInv, NEW h \in Handlers, NEW what \in {"none", "SUCCEEDED", "error", "lost"},
           Return(h, what), UNCHANGED <<overtaken, status, attempt, refund, processor, reversals>>
    PROVE  IInv'
<1>1. TypeOK
  BY DEF IInv
<1>2. TypeOK'
  BY <1>1, ReturnWrites, TypeParts DEF TypeOK, HandlerType
<1> QED
  BY <1>1, <1>2, ReturnWrites, IdleKnows, QuietStep

\* What is about the processor alone stays when the processor does.
LEMMA ProcessorStays ==
    ASSUME IInv, processor' = processor
    PROVE  FewKeys' /\ ProcessorWasAsked'
BY DEF IInv, FewKeys, ProcessorWasAsked

\* The invariant from what one handler writes.
LEMMA HandlerStep ==
    ASSUME IInv, TypeOK', Grows, NEW h \in Handlers,
           \A g \in Handlers : g # h => handler'[g] = handler[g], Knows(h)',
           FewKeys', ProcessorWasAsked', RowsWereAsked',
           AttemptFollows', SplitStateIsKept'
    PROVE  IInv'
BY OthersKnow DEF IInv

-----------------------------------------------------------------------------
(* The steps of a handler. *)

\* The initial state.
LEMMA InitIInv == Init => IInv
<1> SUFFICES ASSUME Init PROVE IInv
  OBVIOUS
<1>1. TypeOK
  BY TypeParts, IdleIsHandler DEF Init, RowType, ProcessorType
<1>2. /\ \A k \in Keys : /\ processor[k].said = "none" /\ attempt[k] = "NONE"
                         /\ ~HasRow(k) /\ refund[k].payment = NoRequest /\ reversals[k] = 0
      /\ \A h \in Handlers : handler[h].pc = "idle"
  BY IdleIsHandler DEF Init, HasRow
<1>3. {k \in Keys : processor[k].said # "none"} = {}
  BY <1>2
<1>4. FewKeys
  BY <1>3, FS_EmptySet DEF FewKeys
<1>5. ProcessorWasAsked /\ RowsWereAsked /\ AttemptFollows /\ SplitStateIsKept
  BY <1>2 DEF ProcessorWasAsked, RowsWereAsked, AttemptFollows, SplitStateIsKept
<1>6. \A h \in Handlers : Knows(h)
  BY <1>2 DEF Knows, At
<1> QED
  BY <1>1, <1>4, <1>5, <1>6 DEF IInv

\* The request arrives.
LEMMA RefundPaymentKeeps ==
    ASSUME IInv, NEW h \in Handlers, NEW req \in Requests, refundPayment(h, req)
    PROVE  IInv'
<1>1. CASE HasRow(req.key)
  BY <1>1, ReturnStep DEF refundPayment
<1>2. CASE ~HasRow(req.key)
  <2>1. /\ handler' = [handler EXCEPT ![h].pc = "read", ![h].req = req]
        /\ answer' = [answer EXCEPT ![h] = "none"]
        /\ UNCHANGED <<overtaken, status, attempt, refund, processor, reversals>>
    BY <1>2 DEF refundPayment
  <2>2. req \in RequestType /\ TypeOK
    BY RequestParts DEF IInv
  <2>3. handler' \in [Handlers -> HandlerType]
    <3>1. handler \in [Handlers -> HandlerType]
      BY <2>2, TypeParts
    <3>2. handler[h] \in HandlerType
      BY <3>1
    <3>3. [handler[h] EXCEPT !.pc = "read", !.req = req] \in HandlerType
      BY <2>2, <3>2 DEF HandlerType
    <3>4. handler' = [handler EXCEPT ![h] = [handler[h] EXCEPT !.pc = "read", !.req = req]]
      BY <2>1
    <3> QED
      BY <3>1, <3>3, <3>4
  <2>4. TypeOK'
    <3>1. answer' \in [Handlers -> {"none", "SUCCEEDED", "error", "lost"}]
      BY <2>1, <2>2 DEF TypeOK
    <3> QED
      BY <2>1, <2>2, <2>3, <3>1 DEF TypeOK, HandlerType
  <2>5. /\ handler'[h].pc = "read" /\ handler'[h].req = req
        /\ \A g \in Handlers : g # h => handler'[g] = handler[g]
    BY <2>1, <2>2, TypeParts DEF HandlerType
  <2>6. Knows(h)'
    BY <2>5 DEF Knows, At
  <2> QED
    BY <2>1, <2>4, <2>5, <2>6, QuietStep
<1> QED
  BY <1>1, <1>2

\* The payment row is read.
LEMMA ReadPaymentKeeps ==
    ASSUME IInv, NEW h \in Handlers, ReadPayment(h)
    PROVE  IInv'
<1>1. CASE Return(h, "error")
  BY <1>1, ReturnStep DEF ReadPayment
<1>2. CASE Goto(h, "sum") /\ UNCHANGED answer
  <2>1. TypeOK /\ UNCHANGED <<overtaken, status, attempt, refund, processor, reversals>> /\ ~At(h, "idle")
    BY DEF IInv, ReadPayment, At
  <2>2. TypeOK'
    BY <1>2, <2>1, GotoWrites DEF TypeOK, HandlerType
  <2>3. Knows(h)'
    BY <1>2, <2>1, GotoWrites, RequestOf DEF Knows, At
  <2> QED
    BY <1>2, <2>1, <2>2, <2>3, GotoWrites, QuietStep
<1> QED
  BY <1>1, <1>2 DEF ReadPayment

\* The refunded sum is read and compared.
LEMMA CheckRemainingKeeps ==
    ASSUME IInv, NEW h \in Handlers, CheckRemaining(h)
    PROVE  IInv'
<1>1. CASE Return(h, "error")
  BY <1>1, ReturnStep DEF CheckRemaining
<1>2. CASE /\ handler' = [handler EXCEPT ![h].pc = "attempt", ![h].already = Refunded(Pay(h))]
           /\ UNCHANGED answer
  <2>1. TypeOK /\ UNCHANGED <<overtaken, status, attempt, refund, processor, reversals>> /\ ~At(h, "idle")
    BY DEF IInv, CheckRemaining, At
  <2>2. Refunded(Pay(h)) \in Nat /\ handler[h].req \in Requests
    BY <2>1, RequestOf, RefundedIsNumber
  <2>3. /\ handler' \in [Handlers -> HandlerType]
        /\ handler'[h].pc = "attempt" /\ handler'[h].req = handler[h].req
        /\ \A g \in Handlers : g # h => handler'[g] = handler[g]
    <3> DEFINE sum == Refunded(Pay(h))
               new == [handler[h] EXCEPT !.pc = "attempt", !.already = sum]
    <3>1. handler \in [Handlers -> HandlerType] /\ handler[h] \in HandlerType
      BY <2>1, TypeParts
    <3>2. handler' = [handler EXCEPT ![h] = new]
      BY <1>2
    <3>3. sum \in Nat
      BY <2>2
    <3> HIDE DEF sum
    <3>4. new \in HandlerType /\ new.pc = "attempt" /\ new.req = handler[h].req
      BY <3>1, <3>3 DEF HandlerType
    <3> HIDE DEF new
    <3> QED
      BY <3>1, <3>2, <3>4
  <2>4. TypeOK'
    BY <1>2, <2>1, <2>3 DEF TypeOK, HandlerType
  <2>5. Knows(h)'
    BY <2>2, <2>3 DEF Knows, At
  <2> QED
    BY <2>1, <2>3, <2>4, <2>5, QuietStep
<1> QED
  BY <1>1, <1>2 DEF CheckRemaining

\* A handler that goes to the processor, or on from an attempt that is there.
LEMMA GotoStep ==
    ASSUME IInv, NEW h \in Handlers, ~At(h, "idle"), NEW pc \in {"processor", "restart", "ledger"},
           Goto(h, pc), UNCHANGED <<overtaken, status, attempt, refund, processor, reversals, answer>>,
           Amount(h) > 0, attempt[Key(h)] # "NONE",
           pc = "ledger" => processor[Key(h)].said = "refunded"
    PROVE  IInv'
<1>1. TypeOK
  BY DEF IInv
<1>2. TypeOK'
  BY <1>1, GotoWrites DEF TypeOK, HandlerType
<1>3. /\ handler'[h].pc = pc /\ handler'[h].req = handler[h].req
      /\ \A g \in Handlers : g # h => handler'[g] = handler[g]
  BY <1>1, GotoWrites
<1>4. Knows(h)'
  <2>1. handler[h].req \in Requests /\ Key(h)' = Key(h) /\ Amount(h)' = Amount(h)
    BY <1>3, RequestOf DEF Key, Amount
  <2> QED
    BY <1>3, <2>1 DEF Knows, At
<1> QED
  BY <1>2, <1>3, <1>4, QuietStep

\* An attempt that starts is PROCESSING, and its handler goes to the processor.
LEMMA StartStep ==
    ASSUME IInv, NEW h \in Handlers, ~At(h, "idle"),
           attempt' = [attempt EXCEPT ![Key(h)] = "PROCESSING"], Goto(h, "processor"),
           UNCHANGED <<overtaken, status, refund, processor, reversals, answer>>, Amount(h) > 0
    PROVE  IInv'
<1>1. TypeOK /\ Key(h) \in Keys /\ handler[h].req \in Requests
  BY RequestOf DEF IInv
<1>2. attempt' \in [Keys -> AttemptStatuses \cup {"NONE"}]
  BY <1>1, TypeParts DEF AttemptStatuses
<1>3. TypeOK'
  BY <1>1, <1>2, GotoWrites DEF TypeOK, HandlerType
<1>4. /\ handler'[h].pc = "processor" /\ handler'[h].req = handler[h].req
      /\ \A g \in Handlers : g # h => handler'[g] = handler[g]
  BY <1>1, GotoWrites
<1>5. /\ attempt'[Key(h)] = "PROCESSING"
      /\ \A k \in Keys : k # Key(h) => attempt'[k] = attempt[k]
  BY <1>1, TypeParts
<1>6. Grows
  BY <1>5 DEF Grows
<1>7. Knows(h)'
  <2>1. Key(h)' = Key(h) /\ Amount(h)' = Amount(h)
    BY <1>4 DEF Key, Amount
  <2> QED
    BY <1>1, <1>4, <1>5, <2>1 DEF Knows, At
<1>8. AttemptFollows' /\ SplitStateIsKept'
  BY <1>5 DEF IInv, AttemptFollows, SplitStateIsKept, HasRow
<1>9. RowsWereAsked'
  BY DEF IInv, RowsWereAsked, HasRow
<1> QED
  BY <1>3, <1>4, <1>6, <1>7, <1>8, <1>9, ProcessorStays, HandlerStep

\* The attempt is claimed, or the existing one decides.
LEMMA ClaimAttemptKeeps ==
    ASSUME IInv, NEW h \in Handlers, ClaimAttempt(h)
    PROVE  IInv'
<1>1. ~At(h, "idle") /\ UNCHANGED <<overtaken, status, refund, processor, reversals>>
  BY DEF ClaimAttempt, At
<1>2. Key(h) \in Keys /\ Amount(h) \in Nat
  BY <1>1, RequestOf
<1>3. CASE Amount(h) = 0
  BY <1>1, <1>3, ReturnStep DEF ClaimAttempt
<1>4. CASE Amount(h) # 0
  <2>0. Amount(h) > 0 /\ attempt[Key(h)] \in AttemptStatuses \cup {"NONE"}
    BY <1>2, <1>4, TypeParts DEF IInv
  <2>1. CASE attempt[Key(h)] = "NONE"
    BY <1>1, <1>4, <2>0, <2>1, StartStep DEF ClaimAttempt
  <2>2. CASE attempt[Key(h)] = "PROCESSING"
    BY <1>1, <1>4, <2>2, ReturnStep DEF ClaimAttempt
  <2>3. CASE attempt[Key(h)] = "LEDGER_SUCCEEDED"
    <3>1. CASE HasRow(Key(h))
      BY <1>1, <1>4, <2>3, <3>1, ReturnStep DEF ClaimAttempt
    <3>2. CASE ~HasRow(Key(h))
      BY <1>1, <1>4, <2>0, <2>3, <3>2, GotoStep DEF ClaimAttempt
    <3> QED
      BY <3>1, <3>2
  <2>4. CASE attempt[Key(h)] = "FAILED"
    BY <1>1, <1>4, <2>0, <2>4, GotoStep DEF ClaimAttempt
  <2>5. CASE attempt[Key(h)] = "PROCESSOR_SUCCEEDED"
    <3>1. processor[Key(h)].said = "refunded"
      BY <1>2, <2>5 DEF IInv, SplitStateIsKept
    <3> QED
      BY <1>1, <1>4, <2>0, <2>5, <3>1, GotoStep DEF ClaimAttempt
  <2> QED
    BY <2>0, <2>1, <2>2, <2>3, <2>4, <2>5 DEF AttemptStatuses
<1> QED
  BY <1>3, <1>4

\* A FAILED attempt starts again.
LEMMA RestartAttemptKeeps ==
    ASSUME IInv, NEW h \in Handlers, RestartAttempt(h)
    PROVE  IInv'
<1>1. ~At(h, "idle") /\ Amount(h) > 0
  BY DEF IInv, RestartAttempt, At, Knows
<1> QED
  BY <1>1, StartStep DEF RestartAttempt

\* What the processor answers: its first answer again, or a new one.
LEMMA VerdictParts ==
    ASSUME IInv, NEW h \in Handlers, Key(h) \in Keys, NEW verdict \in Verdicts(h) \cup {"none"},
           verdict # "none"
    PROVE  /\ verdict \in {"refunded", "pending", "failed"}
           /\ processor[Key(h)].said # "none" => verdict = processor[Key(h)].said
<1>1. processor[Key(h)].said \in {"none", "refunded", "pending", "failed"}
  BY TypeParts DEF IInv, ProcessorType
<1> QED
  BY <1>1 DEF Verdicts

\* The tables after the processor's first answer under a key.
LEMMA FirstAnswer ==
    ASSUME IInv, NEW h \in Handlers, At(h, "processor"), processor[Key(h)].said = "none",
           NEW verdict \in Verdicts(h) \cup {"none"}, verdict # "none",
           processor' = [processor EXCEPT ![Key(h)] =
                           [said |-> verdict, moved |-> verdict = "refunded",
                            payment |-> Pay(h), amount |-> Amount(h)]],
           UNCHANGED <<overtaken, attempt, refund, reversals>>
    PROVE  /\ processor' \in [Keys -> ProcessorType] /\ Grows
           /\ processor'[Key(h)].said = verdict
           /\ FewKeys' /\ ProcessorWasAsked' /\ RowsWereAsked' /\ AttemptFollows'
           /\ SplitStateIsKept'
<1>1. /\ handler[h].req \in Requests /\ Key(h) \in Keys /\ Pay(h) \in PaymentIds
      /\ Amount(h) \in Nat
  BY RequestOf DEF At
<1>2. Amount(h) > 0 /\ attempt[Key(h)] # "NONE"
  BY DEF IInv, Knows, At
<1>3. verdict \in {"refunded", "pending", "failed"}
  BY <1>1, VerdictParts
<1>4. PICK k \in Keys : k = Key(h)
  BY <1>1
<1>5. /\ processor'[k].said = verdict /\ processor'[k].moved = (verdict = "refunded")
      /\ processor'[k].payment = Pay(h) /\ processor'[k].amount = Amount(h)
      /\ \A j \in Keys : j # k => processor'[j] = processor[j]
  BY <1>4, TypeParts DEF IInv
<1>6. processor' \in [Keys -> ProcessorType]
  BY <1>1, <1>3, TypeParts DEF IInv, ProcessorType
<1>7. /\ ~HasRow(k) /\ ~(reversals[k] > 0)
      /\ attempt[k] \notin {"NONE", "FAILED", "PROCESSOR_SUCCEEDED", "LEDGER_SUCCEEDED"}
  <2>1. processor[k].said = "none"
    BY <1>4
  <2>2. ~HasRow(k) /\ ~(reversals[k] > 0)
    BY <2>1 DEF IInv, RowsWereAsked
  <2>3. attempt[k] \notin {"FAILED", "PROCESSOR_SUCCEEDED", "LEDGER_SUCCEEDED"}
    BY <2>1 DEF IInv, AttemptFollows, SplitStateIsKept
  <2> QED
    BY <1>2, <1>4, <2>2, <2>3
<1>8. Grows
  BY <1>4, <1>5 DEF Grows
<1>9. FewKeys'
  <2>1. IsFiniteSet({j \in Keys : processor[j].said # "none"} \cup {k})
    BY FS_AddElement DEF IInv, FewKeys
  <2>2. {j \in Keys : processor'[j].said # "none"}
          \subseteq {j \in Keys : processor[j].said # "none"} \cup {k}
    BY <1>5
  <2>3. IsFiniteSet({j \in Keys : processor'[j].said # "none"})
    BY <2>1, <2>2, FS_Subset
  <2> QED
    BY <2>3 DEF FewKeys
<1>10. ProcessorWasAsked'
  <2> SUFFICES ASSUME NEW j \in Keys
               PROVE  /\ processor'[j].said = "refunded" => processor'[j].moved
                      /\ processor'[j].said # "none" =>
                           \E req \in Requests :
                               /\ req.key = j /\ req.amount > 0
                               /\ req.payment = processor'[j].payment
                               /\ req.amount = processor'[j].amount
    BY DEF ProcessorWasAsked
  <2>1. CASE j = k
    <3>1. /\ processor'[j].said = verdict /\ processor'[j].moved = (verdict = "refunded")
          /\ processor'[j].payment = Pay(h) /\ processor'[j].amount = Amount(h)
      BY <1>5, <2>1
    <3>2. handler[h].req.key = j /\ handler[h].req.amount > 0
      BY <1>2, <1>4, <2>1 DEF Key, Amount
    <3>3. handler[h].req.payment = Pay(h) /\ handler[h].req.amount = Amount(h)
      BY DEF Pay, Amount
    <3> QED
      BY <1>1, <3>1, <3>2, <3>3
  <2>2. CASE j # k
    BY <1>5, <2>2 DEF IInv, ProcessorWasAsked
  <2> QED
    BY <2>1, <2>2
<1>11. RowsWereAsked'
  <2> SUFFICES ASSUME NEW j \in Keys
               PROVE  /\ ~HasRow(j) => refund[j].payment = NoRequest
                      /\ reversals[j] > 0 => processor'[j].said = "refunded"
                      /\ HasRow(j) =>
                           /\ processor'[j].said = "refunded" /\ reversals[j] > 0
                           /\ \E req \in Requests :
                               /\ req.key = j /\ req.amount > 0
                               /\ req.payment = refund[j].payment /\ req.amount = refund[j].amount
    BY DEF RowsWereAsked, HasRow
  <2>1. CASE j = k
    BY <1>7, <2>1 DEF IInv, RowsWereAsked
  <2>2. CASE j # k
    BY <1>5, <2>2 DEF IInv, RowsWereAsked
  <2> QED
    BY <2>1, <2>2
<1>12. AttemptFollows'
  BY <1>5, <1>7 DEF IInv, AttemptFollows
<1>13. SplitStateIsKept'
  BY <1>5, <1>7 DEF IInv, SplitStateIsKept, HasRow
<1> QED
  BY <1>4, <1>5, <1>6, <1>8, <1>9, <1>10, <1>11, <1>12, <1>13

\* The processor is asked.
LEMMA ProcessorRefundKeeps ==
    ASSUME IInv, NEW h \in Handlers, processorRefund(h)
    PROVE  IInv'
<1>1. /\ At(h, "processor") /\ ~At(h, "idle") /\ TypeOK
      /\ UNCHANGED <<overtaken, status, attempt, refund, reversals>>
  BY DEF processorRefund, At, IInv
<1>2. Key(h) \in Keys /\ handler[h].req \in Requests
  BY <1>1, RequestOf
<1>3. Amount(h) > 0 /\ attempt[Key(h)] # "NONE"
  BY <1>1 DEF IInv, Knows, At
<1>4. PICK verdict \in Verdicts(h) \cup {"none"}, delivered \in BOOLEAN :
         /\ verdict = "none" => ~delivered
         /\ processor' =
              IF verdict = "none" \/ processor[Key(h)].said # "none" THEN processor
              ELSE [processor EXCEPT ![Key(h)] =
                      [said |-> verdict, moved |-> verdict = "refunded",
                       payment |-> Pay(h), amount |-> Amount(h)]]
         /\ IF delivered
            THEN /\ handler' = [handler EXCEPT ![h].pc = "record",
                                               ![h].ok = verdict = "refunded"]
                 /\ UNCHANGED answer
            ELSE Return(h, "error")
  BY DEF processorRefund
<1>5. /\ processor' \in [Keys -> ProcessorType] /\ Grows
      /\ verdict # "none" => /\ processor'[Key(h)].said = verdict
                             /\ verdict \in {"refunded", "pending", "failed"}
      /\ FewKeys' /\ ProcessorWasAsked' /\ RowsWereAsked' /\ AttemptFollows'
      /\ SplitStateIsKept'
  <2>1. CASE verdict = "none" \/ processor[Key(h)].said # "none"
    <3>1. processor' = processor
      BY <1>4, <2>1
    <3>2. verdict # "none" => /\ processor'[Key(h)].said = verdict
                              /\ verdict \in {"refunded", "pending", "failed"}
      BY <1>2, <1>4, <2>1, <3>1, VerdictParts
    <3>3. FewKeys' /\ ProcessorWasAsked'
      BY <3>1, ProcessorStays
    <3>4. RowsWereAsked' /\ AttemptFollows' /\ SplitStateIsKept' /\ Grows
      BY <1>1, <3>1 DEF IInv, RowsWereAsked, AttemptFollows, SplitStateIsKept, HasRow, Grows
    <3> QED
      BY <1>1, <3>1, <3>2, <3>3, <3>4, TypeParts
  <2>2. CASE verdict # "none" /\ processor[Key(h)].said = "none"
    <3>1. processor' = [processor EXCEPT ![Key(h)] =
                          [said |-> verdict, moved |-> verdict = "refunded",
                           payment |-> Pay(h), amount |-> Amount(h)]]
      BY <1>4, <2>2
    <3>2. verdict \in {"refunded", "pending", "failed"}
      BY <1>2, <2>2, VerdictParts
    <3> QED
      BY <1>1, <2>2, <3>1, <3>2, FirstAnswer
  <2> QED
    BY <2>1, <2>2
<1>6. CASE delivered
  <2>1. /\ handler' = [handler EXCEPT ![h].pc = "record", ![h].ok = verdict = "refunded"]
        /\ UNCHANGED answer /\ verdict # "none"
    BY <1>4, <1>6
  <2>2. handler \in [Handlers -> HandlerType]
    BY <1>1, TypeParts
  <2>3. /\ handler' \in [Handlers -> HandlerType]
        /\ handler'[h].pc = "record" /\ handler'[h].req = handler[h].req
        /\ handler'[h].ok = (verdict = "refunded")
        /\ \A g \in Handlers : g # h => handler'[g] = handler[g]
    <3> DEFINE ok == verdict = "refunded"
               new == [handler[h] EXCEPT !.pc = "record", !.ok = ok]
    <3>1. handler' = [handler EXCEPT ![h] = new] /\ ok \in BOOLEAN
      BY <2>1, <2>2
    <3> HIDE DEF ok
    <3>2. /\ new \in HandlerType /\ new.pc = "record" /\ new.req = handler[h].req
          /\ new.ok = ok
      BY <2>2, <3>1 DEF HandlerType
    <3> HIDE DEF new
    <3>3. /\ handler' \in [Handlers -> HandlerType] /\ handler'[h] = new
          /\ \A g \in Handlers : g # h => handler'[g] = handler[g]
      BY <2>2, <3>1, <3>2
    <3> QED
      BY <3>2, <3>3 DEF ok
  <2>4. TypeOK'
    BY <1>1, <1>5, <2>1, <2>3 DEF TypeOK, HandlerType, ProcessorType
  <2>5. Knows(h)'
    <3>1. Key(h)' = Key(h) /\ Amount(h)' = Amount(h)
      BY <2>3 DEF Key, Amount
    <3>2. processor'[Key(h)].said = verdict /\ verdict \in {"refunded", "pending", "failed"}
      BY <1>5, <2>1
    <3> QED
      BY <1>1, <1>2, <1>3, <2>3, <3>1, <3>2 DEF Knows, At
  <2> QED
    BY <1>5, <2>3, <2>4, <2>5, HandlerStep
<1>7. CASE ~delivered
  <2>1. Return(h, "error")
    BY <1>4, <1>7
  <2>2. /\ handler' \in [Handlers -> HandlerType] /\ handler'[h].pc = "idle"
        /\ \A g \in Handlers : g # h => handler'[g] = handler[g]
        /\ answer' \in [Handlers -> {"none", "SUCCEEDED", "error", "lost"}]
    BY <1>1, <2>1, ReturnWrites
  <2>3. TypeOK'
    BY <1>1, <1>5, <2>2 DEF TypeOK, HandlerType, ProcessorType
  <2> QED
    BY <1>5, <2>2, <2>3, IdleKnows, HandlerStep
<1> QED
  BY <1>6, <1>7

\* A pending refund goes through.
LEMMA SettleKeeps ==
    ASSUME IInv, NEW k \in Keys, Settle(k)
    PROVE  IInv'
<1>1. /\ processor[k].said = "pending" /\ processor' = [processor EXCEPT ![k].moved = TRUE]
      /\ UNCHANGED <<overtaken, status, attempt, refund, reversals, handler, answer>>
  BY DEF Settle
<1>2. processor \in [Keys -> ProcessorType] /\ TypeOK
  BY TypeParts DEF IInv
<1>3. /\ processor' \in [Keys -> ProcessorType]
      /\ \A j \in Keys : /\ processor'[j].said = processor[j].said
                         /\ processor'[j].payment = processor[j].payment
                         /\ processor'[j].amount = processor[j].amount
                         /\ processor[j].moved => processor'[j].moved
  BY <1>1, <1>2 DEF ProcessorType
<1>4. TypeOK'
  BY <1>1, <1>2, <1>3 DEF TypeOK, ProcessorType
<1>5. Grows
  BY <1>1, <1>3 DEF Grows
<1>6. FewKeys'
  <2>1. {j \in Keys : processor'[j].said # "none"} = {j \in Keys : processor[j].said # "none"}
    BY <1>3
  <2> QED
    BY <2>1 DEF IInv, FewKeys
<1>7. ProcessorWasAsked'
  BY <1>3 DEF IInv, ProcessorWasAsked
<1>8. RowsWereAsked'
  BY <1>1, <1>3 DEF IInv, RowsWereAsked, HasRow
<1>9. AttemptFollows' /\ SplitStateIsKept'
  BY <1>1, <1>3 DEF IInv, AttemptFollows, SplitStateIsKept, HasRow
<1>10. \A h \in Handlers : Knows(h)'
  BY <1>1, <1>5, OthersKnow
<1> QED
  BY <1>4, <1>6, <1>7, <1>8, <1>9, <1>10 DEF IInv

\* The processor's answer is recorded.
LEMMA RecordProcessorKeeps ==
    ASSUME IInv, NEW h \in Handlers, RecordProcessor(h)
    PROVE  IInv'
<1>1. /\ At(h, "record") /\ ~At(h, "idle") /\ TypeOK
      /\ UNCHANGED <<overtaken, status, refund, processor, reversals>>
  BY DEF RecordProcessor, At, IInv
<1>2. Key(h) \in Keys /\ handler[h].req \in Requests
  BY <1>1, RequestOf
<1>3. /\ Amount(h) > 0 /\ attempt[Key(h)] # "NONE"
      /\ IF handler[h].ok THEN processor[Key(h)].said = "refunded"
                          ELSE processor[Key(h)].said \in {"pending", "failed"}
  BY <1>1 DEF IInv, Knows, At
<1>4. PICK new \in {"PROCESSOR_SUCCEEDED", "FAILED"} :
        /\ attempt' = [attempt EXCEPT ![Key(h)] = new]
        /\ new = IF handler[h].ok THEN "PROCESSOR_SUCCEEDED" ELSE "FAILED"
  BY DEF RecordProcessor
<1>5. /\ attempt' \in [Keys -> AttemptStatuses \cup {"NONE"}]
      /\ attempt'[Key(h)] = new /\ \A k \in Keys : k # Key(h) => attempt'[k] = attempt[k]
  BY <1>1, <1>2, <1>4, TypeParts DEF AttemptStatuses
<1>6. Grows
  BY <1>1, <1>5 DEF Grows
<1>7. AttemptFollows'
  BY <1>1, <1>3, <1>4, <1>5 DEF IInv, AttemptFollows
<1>8. SplitStateIsKept'
  <2> SUFFICES ASSUME NEW k \in Keys
               PROVE  /\ processor[k].said = "refunded" => attempt'[k] \notin {"NONE", "FAILED"}
                      /\ attempt'[k] \in {"PROCESSOR_SUCCEEDED", "LEDGER_SUCCEEDED"} =>
                           processor[k].said = "refunded"
                      /\ attempt'[k] = "LEDGER_SUCCEEDED" => HasRow(k)
    BY <1>1 DEF SplitStateIsKept, HasRow
  <2>1. CASE k = Key(h)
    BY <1>3, <1>4, <1>5, <2>1
  <2>2. CASE k # Key(h)
    BY <1>5, <2>2 DEF IInv, SplitStateIsKept
  <2> QED
    BY <2>1, <2>2
<1>9. RowsWereAsked'
  BY <1>1 DEF IInv, RowsWereAsked, HasRow
<1>10. FewKeys' /\ ProcessorWasAsked'
  BY <1>1, ProcessorStays
<1>11. CASE handler[h].ok
  <2>1. Goto(h, "ledger") /\ UNCHANGED answer
    BY <1>11 DEF RecordProcessor
  <2>2. /\ handler' \in [Handlers -> HandlerType]
        /\ handler'[h].pc = "ledger" /\ handler'[h].req = handler[h].req
        /\ \A g \in Handlers : g # h => handler'[g] = handler[g]
    BY <1>1, <2>1, GotoWrites
  <2>3. TypeOK'
    BY <1>1, <1>5, <2>1, <2>2 DEF TypeOK, HandlerType
  <2>4. Knows(h)'
    <3>1. Key(h)' = Key(h) /\ Amount(h)' = Amount(h)
      BY <2>2 DEF Key, Amount
    <3>2. processor'[Key(h)].said = "refunded" /\ attempt'[Key(h)] # "NONE"
      BY <1>1, <1>3, <1>5, <1>11
    <3> QED
      BY <1>2, <1>3, <2>2, <3>1, <3>2 DEF Knows, At
  <2> QED
    BY <1>6, <1>7, <1>8, <1>9, <1>10, <2>2, <2>3, <2>4, HandlerStep
<1>12. CASE ~handler[h].ok
  <2>1. Return(h, "error")
    BY <1>12 DEF RecordProcessor
  <2>2. /\ handler' \in [Handlers -> HandlerType] /\ handler'[h].pc = "idle"
        /\ \A g \in Handlers : g # h => handler'[g] = handler[g]
        /\ answer' \in [Handlers -> {"none", "SUCCEEDED", "error", "lost"}]
    BY <1>1, <2>1, ReturnWrites
  <2>3. TypeOK'
    BY <1>1, <1>5, <2>2 DEF TypeOK, HandlerType
  <2> QED
    BY <1>6, <1>7, <1>8, <1>9, <1>10, <2>2, <2>3, IdleKnows, HandlerStep
<1> QED
  BY <1>11, <1>12

\* The ledger is asked to reverse.
LEMMA PostRefundKeeps ==
    ASSUME IInv, NEW h \in Handlers, postRefund(h)
    PROVE  IInv'
<1>1. /\ At(h, "ledger") /\ ~At(h, "idle") /\ TypeOK
      /\ UNCHANGED <<overtaken, status, attempt, refund, processor>>
  BY DEF postRefund, At, IInv
<1>2. CASE Return(h, "error") /\ UNCHANGED reversals
  BY <1>1, <1>2, ReturnStep
<1>3. CASE /\ reversals' = [reversals EXCEPT ![Key(h)] = @ + 1]
           /\ \/ Goto(h, "insert") /\ UNCHANGED answer
              \/ Return(h, "error")
  <2>1. Key(h) \in Keys /\ handler[h].req \in Requests
    BY <1>1, RequestOf
  <2>2. Amount(h) > 0 /\ attempt[Key(h)] # "NONE" /\ processor[Key(h)].said = "refunded"
    BY <1>1 DEF IInv, Knows, At
  <2>3. /\ reversals' \in [Keys -> Nat] /\ reversals'[Key(h)] > 0
        /\ \A k \in Keys : k # Key(h) => reversals'[k] = reversals[k]
    BY <1>1, <1>3, <2>1, TypeParts
  <2>4. Grows
    BY <1>1, <2>3 DEF Grows
  <2>5. AttemptFollows' /\ SplitStateIsKept'
    BY <1>1 DEF IInv, AttemptFollows, SplitStateIsKept, HasRow
  <2>6. RowsWereAsked'
    <3> SUFFICES ASSUME NEW k \in Keys
                 PROVE  /\ ~HasRow(k) => refund[k].payment = NoRequest
                        /\ reversals'[k] > 0 => processor[k].said = "refunded"
                        /\ HasRow(k) =>
                             /\ processor[k].said = "refunded" /\ reversals'[k] > 0
                             /\ \E req \in Requests :
                                 /\ req.key = k /\ req.amount > 0
                                 /\ req.payment = refund[k].payment /\ req.amount = refund[k].amount
      BY <1>1 DEF RowsWereAsked, HasRow
    <3>1. CASE k = Key(h)
      BY <2>2, <2>3, <3>1 DEF IInv, RowsWereAsked
    <3>2. CASE k # Key(h)
      BY <2>3, <3>2 DEF IInv, RowsWereAsked
    <3> QED
      BY <3>1, <3>2
  <2>7. FewKeys' /\ ProcessorWasAsked'
    BY <1>1, ProcessorStays
  <2>8. CASE Goto(h, "insert") /\ UNCHANGED answer
    <3>1. /\ handler' \in [Handlers -> HandlerType]
          /\ handler'[h].pc = "insert" /\ handler'[h].req = handler[h].req
          /\ \A g \in Handlers : g # h => handler'[g] = handler[g]
      BY <1>1, <2>8, GotoWrites
    <3>2. TypeOK'
      BY <1>1, <2>3, <2>8, <3>1 DEF TypeOK, HandlerType
    <3>3. Knows(h)'
      <4>1. Key(h)' = Key(h) /\ Amount(h)' = Amount(h)
        BY <3>1 DEF Key, Amount
      <4> QED
        BY <1>1, <2>1, <2>2, <2>3, <3>1, <4>1 DEF Knows, At
    <3> QED
      BY <2>4, <2>5, <2>6, <2>7, <3>1, <3>2, <3>3, HandlerStep
  <2>9. CASE Return(h, "error")
    <3>1. /\ handler' \in [Handlers -> HandlerType] /\ handler'[h].pc = "idle"
          /\ \A g \in Handlers : g # h => handler'[g] = handler[g]
          /\ answer' \in [Handlers -> {"none", "SUCCEEDED", "error", "lost"}]
      BY <1>1, <2>9, ReturnWrites
    <3>2. TypeOK'
      BY <1>1, <2>3, <3>1 DEF TypeOK, HandlerType
    <3> QED
      BY <2>4, <2>5, <2>6, <2>7, <3>1, <3>2, IdleKnows, HandlerStep
  <2> QED
    BY <1>3, <2>8, <2>9
<1> QED
  BY <1>2, <1>3 DEF postRefund

\* The refund row is inserted unless it is there.
LEMMA InsertRefundKeeps ==
    ASSUME IInv, NEW h \in Handlers, InsertRefund(h)
    PROVE  IInv'
<1>1. /\ At(h, "insert") /\ ~At(h, "idle") /\ TypeOK /\ Goto(h, "finish")
      /\ UNCHANGED <<status, attempt, processor, reversals, answer>>
      /\ refund' = IF HasRow(Key(h)) THEN refund
                   ELSE [refund EXCEPT ![Key(h)] = [payment |-> Pay(h), amount |-> Amount(h)]]
      /\ overtaken' = overtaken \/ overtaken' = overtaken \cup Overtakes(h)
  BY DEF InsertRefund, At, IInv
<1>2. /\ Key(h) \in Keys /\ handler[h].req \in Requests /\ Pay(h) \in PaymentIds
      /\ Amount(h) \in Nat
  BY <1>1, RequestOf
<1>3. /\ Amount(h) > 0 /\ attempt[Key(h)] # "NONE" /\ processor[Key(h)].said = "refunded"
      /\ reversals[Key(h)] > 0
  BY <1>1 DEF IInv, Knows, At
<1>4. /\ handler' \in [Handlers -> HandlerType]
      /\ handler'[h].pc = "finish" /\ handler'[h].req = handler[h].req
      /\ \A g \in Handlers : g # h => handler'[g] = handler[g]
  BY <1>1, GotoWrites
<1>5. PICK k \in Keys : k = Key(h)
  BY <1>2
<1>6. /\ refund' \in [Keys -> RowType] /\ refund'[k].amount > 0
      /\ \A j \in Keys : j # k => refund'[j] = refund[j]
      /\ \/ HasRow(k) /\ refund'[k] = refund[k]
         \/ refund'[k].payment = Pay(h) /\ refund'[k].amount = Amount(h)
  <2>1. CASE HasRow(Key(h))
    BY <1>1, <1>5, <2>1, TypeParts DEF HasRow
  <2>2. CASE ~HasRow(Key(h))
    BY <1>1, <1>2, <1>3, <1>5, <2>2, TypeParts DEF RowType
  <2> QED
    BY <2>1, <2>2
<1>7. Grows
  BY <1>1, <1>6 DEF Grows
<1>8. AttemptFollows' /\ SplitStateIsKept'
  BY <1>1, <1>5, <1>6 DEF IInv, AttemptFollows, SplitStateIsKept, HasRow
<1>9. RowsWereAsked'
  <2> SUFFICES ASSUME NEW j \in Keys
               PROVE  /\ ~(refund'[j].amount > 0) => refund'[j].payment = NoRequest
                      /\ reversals[j] > 0 => processor[j].said = "refunded"
                      /\ refund'[j].amount > 0 =>
                           /\ processor[j].said = "refunded" /\ reversals[j] > 0
                           /\ \E req \in Requests :
                               /\ req.key = j /\ req.amount > 0
                               /\ req.payment = refund'[j].payment
                               /\ req.amount = refund'[j].amount
    BY <1>1 DEF RowsWereAsked, HasRow
  <2>1. CASE j = k /\ HasRow(k) /\ refund'[k] = refund[k]
    BY <2>1 DEF IInv, RowsWereAsked, HasRow
  <2>2. CASE j = k /\ refund'[k].payment = Pay(h) /\ refund'[k].amount = Amount(h)
    BY <1>2, <1>3, <1>5, <2>2 DEF Key, Pay, Amount
  <2>3. CASE j # k
    BY <1>6, <2>3 DEF IInv, RowsWereAsked, HasRow
  <2> QED
    BY <1>6, <2>1, <2>2, <2>3
<1>10. FewKeys' /\ ProcessorWasAsked'
  BY <1>1, ProcessorStays
<1>11. TypeOK'
  <2>1. overtaken' \subseteq PaymentIds
    <3>1. ASSUME NEW g \in Handlers, ~At(g, "idle") PROVE Pay(g) \in PaymentIds
      BY <3>1, RequestOf
    <3>2. Overtakes(h) \subseteq PaymentIds
      BY <3>1 DEF Overtakes, SumRead, At
    <3> QED
      BY <1>1, <3>2 DEF TypeOK
  <2> QED
    BY <1>1, <1>4, <1>6, <2>1 DEF TypeOK, HandlerType
<1>12. Knows(h)'
  <2>1. Key(h)' = Key(h) /\ Amount(h)' = Amount(h)
    BY <1>4 DEF Key, Amount
  <2>2. refund'[Key(h)].amount > 0
    BY <1>5, <1>6
  <2> QED
    BY <1>1, <1>2, <1>3, <1>4, <2>1, <2>2 DEF Knows, At, HasRow
<1> QED
  BY <1>4, <1>7, <1>8, <1>9, <1>10, <1>11, <1>12, HandlerStep

\* The attempt is complete.
LEMMA FinishAttemptKeeps ==
    ASSUME IInv, NEW h \in Handlers, FinishAttempt(h)
    PROVE  IInv'
<1>1. /\ At(h, "finish") /\ ~At(h, "idle") /\ TypeOK /\ Goto(h, "status")
      /\ attempt' = [attempt EXCEPT ![Key(h)] = "LEDGER_SUCCEEDED"]
      /\ UNCHANGED <<overtaken, status, refund, processor, reversals, answer>>
  BY DEF FinishAttempt, At, IInv
<1>2. Key(h) \in Keys /\ handler[h].req \in Requests
  BY <1>1, RequestOf
<1>3. Amount(h) > 0 /\ processor[Key(h)].said = "refunded" /\ HasRow(Key(h))
  BY <1>1 DEF IInv, Knows, At
<1>4. /\ handler' \in [Handlers -> HandlerType]
      /\ handler'[h].pc = "status" /\ handler'[h].req = handler[h].req
      /\ \A g \in Handlers : g # h => handler'[g] = handler[g]
  BY <1>1, GotoWrites
<1>5. /\ attempt' \in [Keys -> AttemptStatuses \cup {"NONE"}]
      /\ attempt'[Key(h)] = "LEDGER_SUCCEEDED"
      /\ \A k \in Keys : k # Key(h) => attempt'[k] = attempt[k]
  BY <1>1, <1>2, TypeParts DEF AttemptStatuses
<1>6. Grows
  BY <1>1, <1>5 DEF Grows
<1>7. AttemptFollows' /\ SplitStateIsKept'
  BY <1>1, <1>3, <1>5 DEF IInv, AttemptFollows, SplitStateIsKept, HasRow
<1>8. RowsWereAsked'
  BY <1>1 DEF IInv, RowsWereAsked, HasRow
<1>9. TypeOK'
  BY <1>1, <1>4, <1>5 DEF TypeOK, HandlerType
<1>10. Knows(h)'
  <2>1. Key(h)' = Key(h) /\ Amount(h)' = Amount(h)
    BY <1>4 DEF Key, Amount
  <2> QED
    BY <1>1, <1>2, <1>3, <1>4, <1>5, <2>1 DEF Knows, At, HasRow
<1> QED
  BY <1>1, <1>4, <1>6, <1>7, <1>8, <1>9, <1>10, ProcessorStays, HandlerStep

\* The payment row is updated.
LEMMA UpdatePaymentKeeps ==
    ASSUME IInv, NEW h \in Handlers, UpdatePayment(h)
    PROVE  IInv'
<1>1. /\ ~At(h, "idle") /\ TypeOK /\ Return(h, "SUCCEEDED")
      /\ UNCHANGED <<overtaken, attempt, refund, processor, reversals>>
      /\ status' = [status EXCEPT ![Pay(h)] =
                      IF handler[h].already + Amount(h) = PaymentAmount[Pay(h)]
                      THEN "REFUNDED" ELSE "PARTIALLY_REFUNDED"]
  BY DEF UpdatePayment, At, IInv
<1>2. status' \in [PaymentIds -> {"SUCCEEDED", "PARTIALLY_REFUNDED", "REFUNDED"}]
  BY <1>1, TypeParts
<1>3. TypeOK'
  BY <1>1, <1>2, ReturnWrites DEF TypeOK, HandlerType
<1> QED
  BY <1>1, <1>3, ReturnWrites, IdleKnows, QuietStep

-----------------------------------------------------------------------------
(* The theorems. *)

\* Every step preserves the invariant.
LEMMA NextIInv == IInv /\ [Next]_vars => IInv'
<1> SUFFICES ASSUME IInv, [Next]_vars PROVE IInv'
  OBVIOUS
<1>1. CASE UNCHANGED vars
  <2>1. TypeOK' /\ FewKeys' /\ ProcessorWasAsked' /\ AttemptFollows' /\ Grows
    BY <1>1 DEF IInv, TypeOK, FewKeys, ProcessorWasAsked, AttemptFollows, Grows, vars
  <2>2. RowsWereAsked' /\ SplitStateIsKept'
    BY <1>1 DEF IInv, RowsWereAsked, SplitStateIsKept, HasRow, vars
  <2>3. \A h \in Handlers : Knows(h)'
    BY <1>1, <2>1, OthersKnow DEF vars
  <2> QED
    BY <2>1, <2>2, <2>3 DEF IInv
<1>2. ASSUME NEW h \in Handlers, Work(h) PROVE IInv'
  BY <1>2, ReadPaymentKeeps, CheckRemainingKeeps, ClaimAttemptKeeps, RestartAttemptKeeps,
     ProcessorRefundKeeps, RecordProcessorKeeps, PostRefundKeeps, InsertRefundKeeps,
     FinishAttemptKeeps, UpdatePaymentKeeps DEF Work
<1>3. ASSUME NEW h \in Handlers, Die(h) PROVE IInv'
  BY <1>3, ReturnStep DEF Die
<1> QED
  BY <1>1, <1>2, <1>3, RefundPaymentKeeps, SettleKeeps DEF Next

\* The inductive invariant of refundPayment.
THEOREM RefundsInvariant == Spec => []IInv
BY InitIInv, NextIInv, PTL DEF Spec

\* Every column and every handler has its type.
THEOREM RefundsTypeCorrect == Spec => []TypeOK
BY RefundsInvariant, PTL DEF IInv

\* A refund the processor accepted is never marked FAILED or forgotten, and is
\* complete only with its row, for every number of handlers, retries and
\* crashes (processor_refund_attempts).
THEOREM SplitStateStaysKept == Spec => []SplitStateIsKept
BY RefundsInvariant, PTL DEF IInv

\* A key that was sent for one refund has one request behind its row and behind
\* the processor's record.
LEMMA RowsArePromises ==
    ASSUME IInv, NEW k \in Keys, OneRequest(k), HasRow(k)
    PROVE  RowIsTheProcessors(k)
<1>1. /\ processor[k].said = "refunded"
      /\ \E req \in Requests : /\ req.key = k /\ req.amount > 0
                               /\ req.payment = refund[k].payment /\ req.amount = refund[k].amount
  BY DEF IInv, RowsWereAsked
<1>2. \E req \in Requests :
         /\ req.key = k /\ req.amount > 0
         /\ req.payment = processor[k].payment /\ req.amount = processor[k].amount
  BY <1>1 DEF IInv, ProcessorWasAsked
<1> QED
  BY <1>1, <1>2 DEF OneRequest, RowIsTheProcessors

\* The ledger is not reversed before the processor accepts, and a refund row
\* states money the processor gave back, in that amount where its key was sent
\* for one refund; nothing is assumed of the callers (refundPayment, postRefund).
THEOREM RowsRecordWhatWasReturned == Spec => []RefundRecordsWhatWasReturned
<1>1. IInv => RefundRecordsWhatWasReturned
  <2> SUFFICES ASSUME IInv, NEW k \in Keys
               PROVE  /\ reversals[k] > 0 => processor[k].said = "refunded"
                      /\ HasRow(k) => /\ processor[k].moved /\ reversals[k] > 0
                                      /\ OneRequest(k) => RowIsTheProcessors(k)
    BY DEF RefundRecordsWhatWasReturned
  <2>1. reversals[k] > 0 => processor[k].said = "refunded"
    BY DEF IInv, RowsWereAsked
  <2>2. HasRow(k) => processor[k].moved /\ reversals[k] > 0
    BY DEF IInv, RowsWereAsked, ProcessorWasAsked
  <2> QED
    BY <2>1, <2>2, RowsArePromises
<1> QED
  BY <1>1, RefundsInvariant, PTL

-----------------------------------------------------------------------------
(* The check of the remaining amount. *)

\* What the sum a handler has read is worth while nobody overtook it: it is the
\* sum of the rows until the handler inserts its own, and no row has its key.
SumHolds(h) ==
    Pay(h) \notin overtaken =>
        /\ handler[h].pc \in SumRead => /\ handler[h].already = Refunded(Pay(h))
                                        /\ handler[h].already + Amount(h) <= PaymentAmount[Pay(h)]
        /\ handler[h].pc \in SumRead \cup {"read", "sum"} => ~HasRow(Key(h))
        /\ /\ handler[h].pc \in {"finish", "status"}
           /\ handler[h].already + Amount(h) = PaymentAmount[Pay(h)]
           => Refunded(Pay(h)) = PaymentAmount[Pay(h)]

SumInv == RefundsWithinPayment /\ \A h \in Handlers : SumHolds(h)

\* Sums and handlers stay right when no row is inserted.
LEMMA SumsStay ==
    ASSUME IInv, SumInv, UNCHANGED <<refund, overtaken>>, NEW h \in Handlers,
           \A g \in Handlers : g # h => handler'[g] = handler[g],
           handler'[h].pc = "idle" \/ SumHolds(h)',
           \A p \in PaymentIds \ overtaken : status'[p] = "REFUNDED" =>
               status[p] = "REFUNDED" \/ Refunded(p) = PaymentAmount[p]
    PROVE  SumInv'
<1>1. \A p : Refunded(p)' = Refunded(p)
  BY DEF Refunded, Total
<1>2. \A k : HasRow(k)' <=> HasRow(k)
  BY DEF HasRow
<1>3. RefundsWithinPayment'
  BY <1>1 DEF SumInv, RefundsWithinPayment
<1>4. ASSUME NEW g \in Handlers, g # h PROVE SumHolds(g)'
  <2>1. Pay(g)' = Pay(g) /\ Amount(g)' = Amount(g) /\ Key(g)' = Key(g) /\ handler'[g] = handler[g]
    BY <1>4 DEF Pay, Amount, Key
  <2>2. SumHolds(g)
    BY DEF SumInv
  <2> QED
    BY <1>1, <1>2, <2>1, <2>2 DEF SumHolds
<1>5. SumHolds(h)'
  BY DEF SumHolds, SumRead
<1> QED
  BY <1>3, <1>4, <1>5 DEF SumInv

\* A handler that goes on with its sum, or that ends.
LEMMA SumGoesOn ==
    ASSUME IInv, SumInv, UNCHANGED <<refund, overtaken, status>>, NEW h \in Handlers,
           \A g \in Handlers : g # h => handler'[g] = handler[g],
           \/ handler'[h].pc = "idle"
           \/ /\ handler'[h].req = handler[h].req /\ handler'[h].already = handler[h].already
              /\ \/ handler[h].pc \in SumRead /\ handler'[h].pc \in SumRead
                 \/ handler[h].pc = "read" /\ handler'[h].pc = "sum"
                 \/ handler[h].pc = "finish" /\ handler'[h].pc = "status"
    PROVE  SumInv'
<1>1. \A p : Refunded(p)' = Refunded(p)
  BY DEF Refunded, Total
<1>2. \A k : HasRow(k)' <=> HasRow(k)
  BY DEF HasRow
<1>3. handler'[h].pc = "idle" \/ SumHolds(h)'
  <2> SUFFICES ASSUME handler'[h].pc # "idle" PROVE SumHolds(h)'
    OBVIOUS
  <2>1. Pay(h)' = Pay(h) /\ Amount(h)' = Amount(h) /\ Key(h)' = Key(h)
    BY DEF Pay, Amount, Key
  <2>2. SumHolds(h)
    BY DEF SumInv
  <2> QED
    BY <1>1, <1>2, <2>1, <2>2 DEF SumHolds, SumRead
<1> QED
  BY <1>3, SumsStay

\* The payments a row is inserted for are one, and its sum grows by the amount.
LEMMA RowAdds ==
    ASSUME IInv, NEW k \in Keys, ~HasRow(k), refund'[k].payment \in PaymentIds,
           refund'[k].amount \in Nat, NEW p \in PaymentIds,
           \A j \in Keys : j # k => refund'[j] = refund[j]
    PROVE  Refunded(p)' = IF refund'[k].payment = p THEN Refunded(p) + refund'[k].amount
                          ELSE Refunded(p)
<1> DEFINE rows == {j \in Keys : refund[j].payment = p}
           f == [j \in rows |-> refund[j].amount]
<1>1. PICK new : new = {j \in Keys : refund'[j].payment = p}
  OBVIOUS
<1>2. PICK g : g = [j \in new |-> refund'[j].amount]
  OBVIOUS
<1>3. Refunded(p) = SumFunctionOnSet(f, rows) /\ Refunded(p)' = SumFunctionOnSet(g, new)
  BY <1>1, <1>2 DEF Refunded, Total
<1>4. k \notin rows /\ rows \subseteq Keys
  BY RefundsAssumption DEF IInv, RowsWereAsked
<1>5. rows \subseteq {j \in Keys : processor[j].said # "none"}
  BY RefundsAssumption DEF IInv, RowsWereAsked
<1>6. /\ IsFiniteSet(rows) /\ \A j \in Keys : refund[j].amount \in Nat
      /\ Refunded(p) \in Nat
  BY <1>5, FS_Subset, TypeParts, RefundedIsNumber DEF IInv, FewKeys, RowType
<1>7. CASE refund'[k].payment = p
  <2>1. new = rows \cup {k}
    BY <1>1, <1>4, <1>7
  <2>2. /\ \A j \in rows : g[j] = f[j]
        /\ \A j \in rows \cup {k} : g[j] \in Int
        /\ g[k] = refund'[k].amount
    BY <1>2, <1>4, <1>6, <2>1
  <2> HIDE DEF f, rows
  <2>3. SumFunctionOnSet(g, rows \cup {k}) = g[k] + SumFunctionOnSet(g, rows)
    BY <1>4, <1>6, <2>2, SumAdd
  <2>4. SumFunctionOnSet(g, rows) = SumFunctionOnSet(f, rows)
    BY <1>6, <2>2, SumSame
  <2> QED
    BY <1>3, <1>6, <1>7, <2>1, <2>2, <2>3, <2>4
<1>8. CASE refund'[k].payment # p
  <2>1. new = rows
    BY <1>1, <1>4, <1>8
  <2>2. g = f
    BY <1>2, <1>4, <2>1
  <2> QED
    BY <1>3, <1>8, <2>1, <2>2
<1> QED
  BY <1>7, <1>8

\* The sum is read and compared: it is the sum of the rows.
LEMMA CheckRemainingSums ==
    ASSUME IInv, SumInv, NEW h \in Handlers, CheckRemaining(h)
    PROVE  SumInv'
<1>1. /\ UNCHANGED <<overtaken, status, refund>> /\ ~At(h, "idle") /\ TypeOK
      /\ handler[h].pc = "sum"
  BY DEF CheckRemaining, At, IInv
<1>2. CASE Return(h, "error")
  BY <1>1, <1>2, ReturnWrites, SumGoesOn
<1>3. CASE /\ Refunded(Pay(h)) + Amount(h) <= PaymentAmount[Pay(h)]
           /\ handler' = [handler EXCEPT ![h].pc = "attempt", ![h].already = Refunded(Pay(h))]
  <2>1. PICK sum : sum = Refunded(Pay(h))
    OBVIOUS
  <2>2. /\ handler'[h].pc = "attempt" /\ handler'[h].req = handler[h].req
        /\ handler'[h].already = sum
        /\ \A g \in Handlers : g # h => handler'[g] = handler[g]
    BY <1>1, <1>3, <2>1, TypeParts DEF HandlerType
  <2>3. Pay(h)' = Pay(h) /\ Amount(h)' = Amount(h) /\ Key(h)' = Key(h)
    BY <2>2 DEF Pay, Amount, Key
  <2>4. Refunded(Pay(h))' = Refunded(Pay(h)) /\ (HasRow(Key(h))' <=> HasRow(Key(h)))
    BY <1>1, <2>3 DEF Refunded, Total, HasRow
  <2>5. Pay(h) \notin overtaken => ~HasRow(Key(h))
    BY <1>1 DEF SumInv, SumHolds
  <2>6. SumHolds(h)'
    BY <1>1, <1>3, <2>1, <2>2, <2>3, <2>4, <2>5 DEF SumHolds, SumRead
  <2> QED
    BY <1>1, <2>2, <2>6, SumsStay
<1> QED
  BY <1>2, <1>3 DEF CheckRemaining

\* The payment row is updated from the sum that was read.
LEMMA UpdatePaymentSums ==
    ASSUME IInv, SumInv, NEW h \in Handlers, UpdatePayment(h)
    PROVE  SumInv'
<1>1. /\ UNCHANGED <<overtaken, refund>> /\ ~At(h, "idle") /\ TypeOK
      /\ handler[h].pc = "status" /\ Return(h, "SUCCEEDED")
      /\ status' = [status EXCEPT ![Pay(h)] =
                      IF handler[h].already + Amount(h) = PaymentAmount[Pay(h)]
                      THEN "REFUNDED" ELSE "PARTIALLY_REFUNDED"]
  BY DEF UpdatePayment, At, IInv
<1>2. SumHolds(h)
  BY DEF SumInv
<1>3. ASSUME NEW p \in PaymentIds \ overtaken, status'[p] = "REFUNDED"
      PROVE  status[p] = "REFUNDED" \/ Refunded(p) = PaymentAmount[p]
  <2>1. CASE p = Pay(h)
    <3>1. handler[h].already + Amount(h) = PaymentAmount[Pay(h)]
      BY <1>1, <1>3, <2>1, TypeParts
    <3> QED
      BY <1>1, <1>2, <2>1, <3>1 DEF SumHolds
  <2>2. CASE p # Pay(h)
    BY <1>1, <1>3, <2>2, TypeParts
  <2> QED
    BY <2>1, <2>2
<1> QED
  BY <1>1, <1>3, ReturnWrites, SumsStay

\* A row is inserted: the sums of the refunds it overtakes are given up, and the
\* others are not about its payment or have their own row.
LEMMA InsertRefundSums ==
    ASSUME IInv, SumInv, NEW h \in Handlers, InsertRefund(h)
    PROVE  SumInv'
<1>1. /\ At(h, "insert") /\ handler[h].pc = "insert" /\ ~At(h, "idle") /\ TypeOK
      /\ Goto(h, "finish") /\ UNCHANGED status
  BY DEF InsertRefund, At, IInv
<1>2. /\ handler'[h].pc = "finish" /\ handler'[h].req = handler[h].req
      /\ handler'[h].already = handler[h].already
      /\ \A g \in Handlers : g # h => handler'[g] = handler[g]
  BY <1>1, GotoWrites
<1>3. Pay(h)' = Pay(h) /\ Amount(h)' = Amount(h) /\ Key(h)' = Key(h)
  BY <1>2 DEF Pay, Amount, Key
<1>4. SumHolds(h) /\ Amount(h) > 0
  BY <1>1 DEF SumInv, IInv, Knows
<1>5. /\ Key(h) \in Keys /\ Pay(h) \in PaymentIds /\ Amount(h) \in Nat
      /\ handler[h].already \in Nat
  BY <1>1, RequestOf, TypeParts DEF HandlerType
<1>6. CASE HasRow(Key(h))
  <2>1. UNCHANGED <<refund, overtaken>>
    BY <1>6 DEF InsertRefund
  <2>2. Pay(h) \in overtaken
    BY <1>1, <1>4, <1>6 DEF SumHolds, SumRead
  <2>3. SumHolds(h)'
    BY <1>3, <2>1, <2>2 DEF SumHolds
  <2> QED
    BY <1>1, <1>2, <2>1, <2>3, SumsStay
<1>7. CASE ~HasRow(Key(h))
  <2>1. /\ refund' = [refund EXCEPT ![Key(h)] = [payment |-> Pay(h), amount |-> Amount(h)]]
        /\ overtaken' = overtaken \cup Overtakes(h)
    BY <1>7 DEF InsertRefund
  <2>2. /\ refund'[Key(h)].payment = Pay(h) /\ refund'[Key(h)].amount = Amount(h)
        /\ \A j \in Keys : j # Key(h) => refund'[j] = refund[j]
    BY <1>1, <1>5, <2>1, TypeParts
  <2>3. ASSUME NEW p \in PaymentIds
        PROVE  Refunded(p)' = IF Pay(h) = p THEN Refunded(p) + Amount(h) ELSE Refunded(p)
    <3>1. PICK k \in Keys : k = Key(h)
      BY <1>5
    <3> QED
      BY <1>5, <1>7, <2>2, <3>1, RowAdds
  <2>4. \A p \in PaymentIds : Refunded(p) \in Nat /\ PaymentAmount[p] \in Nat
    BY RefundedIsNumber, RefundsAssumption
  <2>5. RefundsWithinPayment'
    <3> SUFFICES ASSUME NEW p \in PaymentIds, p \notin overtaken'
                 PROVE  /\ Refunded(p)' <= PaymentAmount[p]
                        /\ status[p] = "REFUNDED" => Refunded(p)' = PaymentAmount[p]
      BY <1>1 DEF RefundsWithinPayment
    <3>1. p \notin overtaken /\ (status[p] = "REFUNDED" => Refunded(p) = PaymentAmount[p])
          /\ Refunded(p) <= PaymentAmount[p]
      BY <2>1 DEF SumInv, RefundsWithinPayment
    <3>2. CASE p = Pay(h)
      <4>1. /\ handler[h].already = Refunded(p)
            /\ handler[h].already + Amount(h) <= PaymentAmount[p]
        BY <1>1, <1>4, <3>1, <3>2 DEF SumHolds, SumRead
      <4>2. Refunded(p)' = Refunded(p) + Amount(h)
        BY <2>3, <3>2
      <4> QED
        BY <1>4, <1>5, <2>4, <3>1, <4>1, <4>2
    <3>3. CASE p # Pay(h)
      BY <2>3, <3>1, <3>3
    <3> QED
      BY <3>2, <3>3
  <2>6. SumHolds(h)'
    <3> SUFFICES ASSUME Pay(h) \notin overtaken',
                        handler[h].already + Amount(h) = PaymentAmount[Pay(h)]
                 PROVE  Refunded(Pay(h))' = PaymentAmount[Pay(h)]
      BY <1>2, <1>3 DEF SumHolds, SumRead
    <3>1. handler[h].already = Refunded(Pay(h))
      BY <1>1, <1>4, <2>1 DEF SumHolds, SumRead
    <3>2. PICK p \in PaymentIds : p = Pay(h)
      BY <1>5
    <3>3. Refunded(p)' = Refunded(p) + Amount(h)
      BY <2>3, <3>2
    <3> QED
      BY <1>3, <3>1, <3>2, <3>3
  <2>7. ASSUME NEW g \in Handlers, g # h PROVE SumHolds(g)'
    <3>1. Pay(g)' = Pay(g) /\ Amount(g)' = Amount(g) /\ Key(g)' = Key(g) /\ handler'[g] = handler[g]
      BY <1>2, <2>7 DEF Pay, Amount, Key
    <3> SUFFICES ASSUME Pay(g) \notin overtaken', ~At(g, "idle")
                 PROVE  SumHolds(g)'
      BY <3>1 DEF SumHolds, SumRead, At
    <3>2. Pay(g) \notin overtaken /\ SumHolds(g)
      BY <2>1 DEF SumInv
    <3>3. Key(g) # Key(h) /\ ~(handler[g].pc \in SumRead /\ Pay(g) = Pay(h))
      BY <2>1, <2>7 DEF Overtakes
    <3>4. Key(g) \in Keys /\ Pay(g) \in PaymentIds
      BY RequestOf
    <3>5. HasRow(Key(g))' <=> HasRow(Key(g))
      BY <2>2, <3>1, <3>3, <3>4 DEF HasRow
    <3>6. PICK p \in PaymentIds : p = Pay(g)
      BY <3>4
    <3>7. Refunded(Pay(g))' = Refunded(p)'
      BY <3>1, <3>6
    <3>8. CASE p = Pay(h)
      <4>1. handler[g].pc \notin SumRead
        BY <3>3, <3>6, <3>8
      <4>2. ~(handler[g].pc \in {"finish", "status"}
              /\ handler[g].already + Amount(g) = PaymentAmount[Pay(g)])
        <5>1. handler[h].already = Refunded(p) /\ handler[h].already + Amount(h) <= PaymentAmount[p]
          BY <1>1, <1>4, <3>2, <3>6, <3>8 DEF SumHolds, SumRead
        <5>2. Refunded(p) # PaymentAmount[p]
          BY <1>4, <1>5, <2>4, <5>1
        <5> QED
          BY <3>2, <3>6, <5>2 DEF SumHolds
      <4> QED
        BY <3>1, <3>2, <3>5, <4>1, <4>2 DEF SumHolds
    <3>9. CASE p # Pay(h)
      <4>1. Refunded(Pay(g))' = Refunded(Pay(g))
        BY <2>3, <3>6, <3>7, <3>9
      <4> QED
        BY <3>1, <3>2, <3>5, <4>1 DEF SumHolds
    <3> QED
      BY <3>8, <3>9
  <2> QED
    BY <2>5, <2>6, <2>7 DEF SumInv
<1> QED
  BY <1>6, <1>7

\* A request that starts found no row under its key.
LEMMA RefundPaymentSums ==
    ASSUME IInv, SumInv, NEW h \in Handlers, NEW req \in Requests, refundPayment(h, req)
    PROVE  SumInv'
<1>1. UNCHANGED <<overtaken, status, refund>> /\ TypeOK
  BY DEF refundPayment, IInv
<1>2. CASE HasRow(req.key)
  BY <1>1, <1>2, ReturnWrites, SumGoesOn DEF refundPayment
<1>3. CASE ~HasRow(req.key)
  <2>1. handler' = [handler EXCEPT ![h].pc = "read", ![h].req = req]
    BY <1>3 DEF refundPayment
  <2>2. /\ handler'[h].pc = "read" /\ handler'[h].req = req
        /\ \A g \in Handlers : g # h => handler'[g] = handler[g]
    BY <1>1, <2>1, TypeParts DEF HandlerType
  <2>3. ~HasRow(Key(h))'
    BY <1>1, <1>3, <2>2 DEF Key, HasRow
  <2>4. SumHolds(h)'
    BY <2>2, <2>3 DEF SumHolds, SumRead
  <2> QED
    BY <1>1, <2>2, <2>4, SumsStay
<1> QED
  BY <1>2, <1>3

\* The processor's answer leaves the sum alone.
LEMMA ProcessorRefundSums ==
    ASSUME IInv, SumInv, NEW h \in Handlers, processorRefund(h)
    PROVE  SumInv'
<1>1. UNCHANGED <<overtaken, status, refund>> /\ TypeOK /\ handler[h].pc = "processor"
  BY DEF processorRefund, At, IInv
<1>2. CASE Return(h, "error")
  BY <1>1, <1>2, ReturnWrites, SumGoesOn
<1>3. CASE \E verdict : handler' = [handler EXCEPT ![h].pc = "record",
                                                   ![h].ok = verdict = "refunded"]
  <2>1. /\ handler'[h].pc = "record" /\ handler'[h].req = handler[h].req
        /\ handler'[h].already = handler[h].already
        /\ \A g \in Handlers : g # h => handler'[g] = handler[g]
    BY <1>1, <1>3, TypeParts DEF HandlerType
  <2> QED
    BY <1>1, <2>1, SumGoesOn DEF SumRead
<1> QED
  BY <1>2, <1>3 DEF processorRefund

\* Every other step of a handler goes on with its sum, or ends.
LEMMA OtherSums ==
    ASSUME IInv, SumInv, NEW h \in Handlers,
           \/ ReadPayment(h) \/ ClaimAttempt(h) \/ RestartAttempt(h) \/ RecordProcessor(h)
           \/ postRefund(h) \/ FinishAttempt(h) \/ Die(h)
    PROVE  SumInv'
<1>1. UNCHANGED <<overtaken, status, refund>> /\ TypeOK
  BY DEF ReadPayment, ClaimAttempt, RestartAttempt, RecordProcessor, postRefund,
         FinishAttempt, Die, IInv
<1>2. CASE Return(h, "error") \/ Return(h, "lost") \/ Return(h, "SUCCEEDED")
  BY <1>1, <1>2, ReturnWrites, SumGoesOn
<1>3. CASE handler[h].pc \in SumRead /\ \E pc \in {"processor", "restart", "ledger", "insert"} : Goto(h, pc)
  BY <1>1, <1>3, GotoWrites, SumGoesOn DEF SumRead
<1>4. CASE handler[h].pc = "read" /\ Goto(h, "sum")
  BY <1>1, <1>4, GotoWrites, SumGoesOn
<1>5. CASE handler[h].pc = "finish" /\ Goto(h, "status")
  BY <1>1, <1>5, GotoWrites, SumGoesOn
<1>6. ASSUME ClaimAttempt(h)
      PROVE  \/ Return(h, "error") \/ Return(h, "SUCCEEDED")
             \/ handler[h].pc \in SumRead /\ \E pc \in {"processor", "restart", "ledger"} : Goto(h, pc)
  <2>1. At(h, "attempt") /\ ~At(h, "idle")
    BY <1>6 DEF ClaimAttempt, At
  <2>2. attempt[Key(h)] \in AttemptStatuses \cup {"NONE"}
    BY <1>1, <2>1, RequestOf, TypeParts
  <2> QED
    BY <1>6, <2>1, <2>2 DEF ClaimAttempt, At, SumRead, AttemptStatuses
<1>7. ASSUME RestartAttempt(h) \/ RecordProcessor(h) \/ postRefund(h)
      PROVE  \/ Return(h, "error")
             \/ handler[h].pc \in SumRead /\ \E pc \in {"processor", "ledger", "insert"} : Goto(h, pc)
  BY <1>7 DEF RestartAttempt, RecordProcessor, postRefund, At, SumRead
<1>8. ASSUME ReadPayment(h) \/ FinishAttempt(h) \/ Die(h)
      PROVE  \/ Return(h, "error") \/ Return(h, "lost")
             \/ handler[h].pc = "read" /\ Goto(h, "sum")
             \/ handler[h].pc = "finish" /\ Goto(h, "status")
  BY <1>8 DEF ReadPayment, FinishAttempt, Die, At
<1> QED
  BY <1>2, <1>3, <1>4, <1>5, <1>6, <1>7, <1>8

\* The check holds initially and every step keeps it.
LEMMA SumInductive ==
    /\ Init => SumInv
    /\ IInv /\ SumInv /\ [Next]_vars => SumInv'
<1>1. Init => SumInv
  <2> SUFFICES ASSUME Init PROVE SumInv
    OBVIOUS
  <2>1. \A h \in Handlers : handler[h].pc = "idle"
    BY DEF Init, Idle
  <2>2. ASSUME NEW p \in PaymentIds PROVE Refunded(p) = 0
    <3>1. {k \in Keys : refund[k].payment = p} = {}
      BY RefundsAssumption DEF Init
    <3> QED
      BY <3>1, SumEmpty DEF Refunded, Total
  <2>3. RefundsWithinPayment
    BY <2>2, RefundsAssumption DEF RefundsWithinPayment, Init
  <2> QED
    BY <2>1, <2>3 DEF SumInv, SumHolds, SumRead
<1>2. ASSUME IInv, SumInv, [Next]_vars PROVE SumInv'
  <2>1. CASE UNCHANGED vars
    <3>1. \A p : Refunded(p)' = Refunded(p)
      BY <2>1 DEF Refunded, Total, vars
    <3> QED
      BY <1>2, <2>1, <3>1 DEF SumInv, SumHolds, RefundsWithinPayment, Pay, Key, Amount, HasRow, vars
  <2>2. ASSUME NEW k \in Keys, Settle(k) PROVE SumInv'
    <3>1. UNCHANGED <<overtaken, status, refund, handler>>
      BY <2>2 DEF Settle
    <3>2. \A p : Refunded(p)' = Refunded(p)
      BY <3>1 DEF Refunded, Total
    <3> QED
      BY <1>2, <3>1, <3>2 DEF SumInv, SumHolds, RefundsWithinPayment, Pay, Key, Amount, HasRow
  <2>3. ASSUME NEW h \in Handlers, Work(h) \/ Die(h) PROVE SumInv'
    BY <1>2, <2>3, CheckRemainingSums, UpdatePaymentSums, InsertRefundSums,
       ProcessorRefundSums, OtherSums DEF Work
  <2> QED
    BY <1>2, <2>1, <2>2, <2>3, RefundPaymentSums DEF Next
<1> QED
  BY <1>1, <1>2

\* A payment is refunded for no more than it took, and marked REFUNDED only with
\* its rows, unless one of its refunds overtook another one between its sum and
\* its row: for every number of handlers and crashes, reused keys, and a
\* processor that gives back whatever it is asked (refundPayment).
THEOREM RefundsStayWithinPayment == Spec => []RefundsWithinPayment
<1>1. Spec => []SumInv
  BY SumInductive, RefundsInvariant, PTL DEF Spec
<1>2. SumInv => RefundsWithinPayment
  BY DEF SumInv
<1> QED
  BY <1>1, <1>2, PTL

==============================================================================
