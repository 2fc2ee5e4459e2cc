-------------------------- MODULE RoyaltyLoopProofs --------------------------
(***************************************************************************)
(* The safety of the royalty loop, for every set of events, keys, bodies   *)
(* and concurrent requests, and of the fraud service that decides on them  *)
(* and certifies their tracks.                                             *)
(***************************************************************************)
EXTENDS Royalty, Fraud, SumTheorems, SequenceTheorems

-----------------------------------------------------------------------------
(* The royalty loop: the inductive invariant. *)

\* What a receipt, or an answer, that says status leaves the obligation.
After(status) ==
    CASE status = "POSTED" -> {"POSTED", "REVERSED"}
      [] status = "HELD" -> {"HELD", "POSTED", "REVERSED"}
      [] status = "BLOCKED" -> {"BLOCKED"}
      [] status = "REVERSED" -> {"REVERSED"}

Statuses == {"POSTED", "HELD", "BLOCKED", "REVERSED"}
Ingesting == {"verify", "claim", "decide", "waiting", "save", "complete", "truth"}
               \cup DOMAIN FailCode
PastClaim == Ingesting \ {"verify", "claim"}

AllBodies == UNION {Bodies[r] : r \in Rows}
Paid(b) == distribute_splits(pool(b.amount), b.splits)

Obligation ==
    [row : Rows, status : Statuses, ledger : {"none", "create", "release"},
     outcome : Outcomes, payouts : {Paid(b) : b \in AllBodies \cup {NoBody}} \cup {<<>>}]

\* What the tables and the requests hold.
Delivery == [state : Settled \cup {"none", "pending", "sent"}, body : AllBodies \cup {NoBody}]
ClaimRow == [status : {"NONE", "PROCESSING", "COMPLETED", "FAILED"}, row : Rows \cup {NoRow},
             receipt : Receipt \cup {NoReceipt}]
Request == [pc : Ingesting \cup {"idle", "release", "reverse"}, row : Rows \cup {NoRow},
            outcome : Outcomes \cup {"none"}, status : Statuses \cup {"none"}]
Task == [pc : {"free", "lookup", "post", "insert"}, row : Rows \cup {NoRow},
         outcome : Outcomes \cup {"none"}, caller : Handlers \cup {NoHandler}]

Attempt == [row : Rows, handler : Handlers] \cup {Waiting}

RoyaltyShape ==
    /\ outbox \in [Rows -> Delivery]
    /\ sender \in [Tenants -> Attempt]
    /\ claim \in [Claims -> ClaimRow]
    /\ receipts \subseteq Receipt
    /\ handler \in [Handlers -> Request]
    /\ job \in [Slots -> Task]
    /\ obligation \in [Keys -> Obligation \cup {NoObligation}]
    /\ reversal \in [ReversalKeys -> Rows \cup {NoRow}]
    /\ posting \in [Keys -> {"none", "allow", "hold"}]
    /\ poster \in [Keys -> Rows \cup {NoRow}]
    /\ released \subseteq Keys
    /\ sent \in [Rows -> SUBSET {"allow", "hold", "block"}]

\* A row whose event exists, and one that its tenant claimed its key for.
Known(r) == r \in Rows /\ outbox[r].state # "none"
Owns(r) == r \in Rows /\ claim[ClaimOf(r)].row = r
Payable(r) == compute_royalty_ok(Body(r).amount, Body(r).splits)
Postable(r) == JournalAccepts(Body(r).amount, Body(r).splits)
Told(outcome) == IF outcome = "disowned" THEN "block" ELSE outcome

\* The ledger has a posting for r.
Posted(r) == posting[KeyOf[r]] # "none" /\ poster[KeyOf[r]] = r

\* The obligation of r is what an answer of status has told, or past it.
Stands(r, status) ==
    /\ r \in Rows /\ status \in Statuses
    /\ obligation[KeyOf[r]].row = r /\ obligation[KeyOf[r]].status \in After(status)

HasReceipt(r) == \E c \in receipts : c.row = r /\ c.op = "create"

ReceiptOf(v) == [op |-> "create", row |-> v.row, status |-> ReceiptStatus(v.status),
                 outcome |-> v.outcome]

HandlerRight(v) ==
    /\ v.pc \in Ingesting => Known(v.row)
    /\ v.pc \in PastClaim => Owns(v.row)
    /\ v.pc \in {"waiting", "save", "complete", "release", "reverse"} => v.outcome \in Outcomes
    /\ v.pc \in {"save", "complete", "release", "reverse"} => Stands(v.row, v.status)
    /\ v.pc = "complete" => ReceiptOf(v) \in receipts
    /\ v.pc = "truth" => HasReceipt(v.row)

JobRight(j) ==
    /\ j.pc = "free" => j = Free
    /\ j.pc # "free" =>
         /\ Known(j.row) /\ Owns(j.row) /\ Payable(j.row)
         /\ j.outcome \in Outcomes /\ Told(j.outcome) \in sent[j.row]
         /\ j.pc = "post" => j.outcome \in {"allow", "hold"}
         /\ j.pc = "insert" /\ j.outcome \in {"allow", "hold"} => Posted(j.row)

\* A job answers the handler that waits for it.
CallRight(s) ==
    LET j == job[s] IN j.caller # NoHandler =>
        /\ handler[j.caller].pc = "waiting" /\ handler[j.caller].row = j.row
        /\ \A t \in Slots : job[t].caller = j.caller => t = s

ClaimRight(c) ==
    /\ claim[c].status = "NONE" => claim[c].row = NoRow
    /\ claim[c].status = "COMPLETED" =>
         /\ claim[c].receipt \in receipts
         /\ claim[c].receipt.row = claim[c].row /\ claim[c].receipt.op = "create"

\* The posting under key k was made for event r.
MadeFor(k, r) ==
    /\ KeyOf[r] = k /\ Known(r) /\ Owns(r)
    /\ posting[k] \in sent[r]
    /\ posting[k] = "allow" => Postable(r)

PostingRight(k) ==
    /\ posting[k] = "none" => poster[k] = NoRow
    /\ posting[k] # "none" => MadeFor(k, poster[k])

StatusesOf(outcome) ==
    CASE outcome = "allow" -> {"POSTED", "REVERSED"}
      [] outcome = "hold" -> {"HELD", "POSTED", "REVERSED"}
      [] OTHER -> {"BLOCKED"}

\* Obligation o under key k.
ObligationRight(k, o) ==
    /\ o = NoObligation => k \notin released
    /\ o # NoObligation =>
         /\ KeyOf[o.row] = k /\ Known(o.row) /\ Owns(o.row) /\ Payable(o.row)
         /\ Told(o.outcome) \in sent[o.row] /\ o.status \in StatusesOf(o.outcome)
         /\ o.ledger = "none" <=> o.status = "BLOCKED"
         /\ o.status # "BLOCKED" => Posted(o.row)
         /\ o.payouts \in {<<>>, Paid(Body(o.row))}
         /\ o.outcome = "hold" /\ (o.status = "POSTED" \/ o.payouts # <<>>) => k \in released
         /\ o.status = "BLOCKED" => o.payouts = <<>>
         /\ k \in released => o.outcome = "hold" /\ Postable(o.row)
         /\ k \in released /\ o.status = "HELD" => k \in torn

OutboxRight(r) ==
    /\ Body(r) \in IF outbox[r].state = "none" THEN {NoBody} ELSE Bodies[r]
    /\ outbox[r].state = "receipted" => HasReceipt(r)

ReceiptRight(c) ==
    \E status \in Statuses : c.status = ReceiptStatus(status) /\ Stands(c.row, status)

RoyaltyIInv ==
    /\ RoyaltyShape
    /\ \A h \in Handlers : HandlerRight(handler[h])
    /\ \A s \in Slots : JobRight(job[s]) /\ CallRight(s)
    /\ \A c \in Claims : ClaimRight(c)
    /\ \A k \in Keys : PostingRight(k) /\ ObligationRight(k, obligation[k])
    /\ \A r \in Rows : OutboxRight(r)
    /\ \A c \in receipts : ReceiptRight(c)
    /\ \A t \in Tenants : sender[t] # Waiting => Known(sender[t].row)
    /\ \A x \in ReversalKeys : reversal[x] # NoRow => Stands(reversal[x], "REVERSED")

-----------------------------------------------------------------------------
(* The royalty loop: what only grows. *)

\* Events stay, claims keep their row, postings and obligations stay what they
\* are, an obligation only moves on.
Grows ==
    /\ \A r \in Rows : outbox[r].state # "none" =>
         outbox'[r].state # "none" /\ outbox'[r].body = outbox[r].body
    /\ \A r \in Rows : sent[r] \subseteq sent'[r]
    /\ \A c \in Claims : claim[c].row # NoRow => claim'[c].row = claim[c].row
    /\ \A k \in Keys :
         /\ posting[k] # "none" => posting'[k] = posting[k] /\ poster'[k] = poster[k]
         /\ obligation[k] # NoObligation =>
              /\ obligation'[k].row = obligation[k].row
              /\ obligation'[k].status \in After(obligation[k].status)
    /\ receipts \subseteq receipts'
    /\ torn \subseteq torn'

LEMMA ClaimOfType == ASSUME NEW r \in Rows PROVE ClaimOf(r) \in Claims /\ KeyOf[r] \in Keys
BY RoyaltyAssumption DEF ClaimOf, Claims

\* A tenant claims a key for one event.
LEMMA OneOwner ==
    ASSUME NEW q, NEW r, Owns(q), Owns(r), KeyOf[q] = KeyOf[r], TenantOf[q] = TenantOf[r]
    PROVE  q = r
BY DEF Owns, ClaimOf

LEMMA AfterIsTransitive ==
    ASSUME NEW a \in Statuses, NEW b \in After(a)
    PROVE  b \in Statuses /\ a \in After(a) /\ After(b) \subseteq After(a)
<1>1. CASE a = "POSTED"
  BY <1>1 DEF After, Statuses
<1>2. CASE a = "HELD"
  BY <1>2 DEF After, Statuses
<1>3. CASE a = "BLOCKED"
  BY <1>3 DEF After, Statuses
<1>4. CASE a = "REVERSED"
  BY <1>4 DEF After, Statuses
<1> QED
  BY <1>1, <1>2, <1>3, <1>4 DEF Statuses

LEMMA AfterItself == ASSUME NEW a \in Statuses PROVE a \in After(a)
BY DEF After, Statuses

LEMMA KnownGrows ==
    ASSUME Grows, NEW r, Known(r)
    PROVE  Known(r)' /\ Body(r)' = Body(r)
BY DEF Grows, Known, Body

LEMMA PayGrows ==
    ASSUME Grows, NEW r, Known(r)
    PROVE  (Payable(r)' <=> Payable(r)) /\ (Postable(r)' <=> Postable(r)) /\ Paid(Body(r))' = Paid(Body(r))
<1>1. outbox'[r].body = outbox[r].body
  BY DEF Grows, Known
<1> QED
  BY <1>1 DEF Payable, Postable, Body

LEMMA OwnsGrows ==
    ASSUME Grows, NEW r, Owns(r)
    PROVE  Owns(r)'
<1>1. r \in Rows /\ ClaimOf(r) \in Claims /\ claim[ClaimOf(r)].row # NoRow
  BY ClaimOfType, RoyaltyAssumption DEF Owns
<1> QED
  BY <1>1 DEF Grows, Owns

LEMMA PostedGrows ==
    ASSUME Grows, NEW r \in Rows, Posted(r)
    PROVE  Posted(r)'
BY ClaimOfType DEF Grows, Posted

LEMMA StandsGrows ==
    ASSUME RoyaltyShape, Grows, NEW r, NEW status, Stands(r, status)
    PROVE  Stands(r, status)'
<1>1. r \in Rows /\ KeyOf[r] \in Keys /\ status \in Statuses
  BY RoyaltyAssumption DEF Stands
<1>2. obligation[KeyOf[r]] # NoObligation
  BY <1>1, RoyaltyAssumption DEF Stands, NoObligation
<1>3. /\ obligation'[KeyOf[r]].row = r
      /\ obligation'[KeyOf[r]].status \in After(obligation[KeyOf[r]].status)
  BY <1>1, <1>2 DEF Grows, Stands
<1>4. obligation'[KeyOf[r]].status \in After(status)
  BY <1>1, <1>3, AfterIsTransitive DEF Stands
<1> QED
  BY <1>1, <1>3, <1>4 DEF Stands

LEMMA HandlerGrows ==
    ASSUME RoyaltyShape, Grows, NEW v, HandlerRight(v)
    PROVE  HandlerRight(v)'
<1>1. /\ Known(v.row) => Known(v.row)'
      /\ Owns(v.row) => Owns(v.row)'
      /\ Stands(v.row, v.status) => Stands(v.row, v.status)'
  BY KnownGrows, OwnsGrows, StandsGrows
<1>2. HasReceipt(v.row) => HasReceipt(v.row)'
  BY DEF Grows, HasReceipt
<1>3. ReceiptOf(v) \in receipts => ReceiptOf(v) \in receipts'
  BY DEF Grows
<1> QED
  BY <1>1, <1>2, <1>3 DEF HandlerRight

LEMMA JobGrows ==
    ASSUME RoyaltyShape, Grows, NEW j, JobRight(j)
    PROVE  JobRight(j)'
<1>1. Known(j.row) => Known(j.row)' /\ (Payable(j.row) => Payable(j.row)')
  BY KnownGrows, PayGrows
<1>2. Owns(j.row) => Owns(j.row)' /\ j.row \in Rows
  BY OwnsGrows DEF Owns
<1>3. Owns(j.row) /\ Posted(j.row) => Posted(j.row)'
  BY <1>2, PostedGrows
<1>4. Owns(j.row) => sent[j.row] \subseteq sent'[j.row]
  BY <1>2 DEF Grows
<1> QED
  BY <1>1, <1>2, <1>3, <1>4 DEF JobRight

LEMMA ReceiptGrows ==
    ASSUME RoyaltyShape, Grows, NEW c, ReceiptRight(c)
    PROVE  ReceiptRight(c)'
BY StandsGrows DEF ReceiptRight

LEMMA ClaimGrows ==
    ASSUME Grows, NEW c \in Claims, ClaimRight(c), claim'[c] = claim[c]
    PROVE  ClaimRight(c)'
BY DEF Grows, ClaimRight

LEMMA MadeForGrows ==
    ASSUME Grows, NEW k \in Keys, NEW r, MadeFor(k, r), posting'[k] = posting[k]
    PROVE  MadeFor(k, r)'
<1>1. KeyOf[r] = k /\ Known(r) /\ Owns(r) /\ posting[k] \in sent[r] /\ r \in Rows
  BY DEF MadeFor, Known
<1>2. Known(r)' /\ Owns(r)' /\ (Postable(r) => Postable(r)')
  BY <1>1, KnownGrows, OwnsGrows, PayGrows
<1>3. posting'[k] \in sent'[r]
  BY <1>1 DEF Grows
<1> QED
  BY <1>1, <1>2, <1>3 DEF MadeFor

LEMMA PostingGrows ==
    ASSUME Grows, NEW k \in Keys, PostingRight(k), posting'[k] = posting[k], poster'[k] = poster[k]
    PROVE  PostingRight(k)'
<1>1. CASE posting[k] = "none"
  BY <1>1 DEF PostingRight
<1>2. CASE posting[k] # "none"
  <2>1. PICK r : r = poster[k] /\ MadeFor(k, r)
    BY <1>2 DEF PostingRight
  <2>2. MadeFor(k, r)'
    BY <2>1, MadeForGrows
  <2>3. MadeFor(k, poster[k])'
    BY <2>1, <2>2 DEF MadeFor, Known, Owns, Postable, Body, ClaimOf
  <2> QED
    BY <1>2, <2>3 DEF PostingRight
<1> QED
  BY <1>1, <1>2

LEMMA ObligationGrows ==
    ASSUME Grows, NEW k \in Keys, NEW o \in Obligation \cup {NoObligation}, ObligationRight(k, o),
           k \in released' <=> k \in released
    PROVE  ObligationRight(k, o)'
<1>1. CASE o = NoObligation
  BY <1>1 DEF ObligationRight
<1>2. CASE o # NoObligation
  <2>1. /\ KeyOf[o.row] = k /\ Known(o.row) /\ Owns(o.row) /\ Payable(o.row)
        /\ Told(o.outcome) \in sent[o.row] /\ o.row \in Rows
        /\ o.status # "BLOCKED" => Posted(o.row)
    BY <1>2 DEF ObligationRight, Known
  <2>2. /\ Known(o.row)' /\ Payable(o.row)' /\ (Postable(o.row)' <=> Postable(o.row))
        /\ Paid(Body(o.row))' = Paid(Body(o.row))
    BY <2>1, KnownGrows, PayGrows
  <2>3. Owns(o.row)' /\ Told(o.outcome) \in sent'[o.row] /\ (k \in torn => k \in torn')
    BY <2>1, OwnsGrows DEF Grows
  <2>4. o.status # "BLOCKED" => Posted(o.row)'
    BY <2>1, PostedGrows
  <2> QED
    BY <1>2, <2>1, <2>2, <2>3, <2>4 DEF ObligationRight
<1> QED
  BY <1>1, <1>2

-----------------------------------------------------------------------------
(* The royalty loop: what a step has to show. *)

\* An event is recorded, or its state moves on; it is receipted with a receipt.
LyricaMoves ==
    /\ outbox' \in [Rows -> Delivery]
    /\ \A r \in Rows :
         \/ outbox'[r] = outbox[r]
         \/ outbox[r].state = "none" /\ outbox'[r].state = "pending" /\ outbox'[r].body \in Bodies[r]
         \/ /\ outbox[r].state # "none" /\ outbox'[r].state # "none"
            /\ outbox'[r].body = outbox[r].body
            /\ outbox'[r].state = "receipted" => HasReceipt(r)
    /\ sender' \in [Tenants -> Attempt]
    /\ \A t \in Tenants : \/ sender'[t] = sender[t] \/ sender'[t] = Waiting
                          \/ Known(sender'[t].row)

HandlersMove ==
    /\ handler' \in [Handlers -> Request]
    /\ \A h \in Handlers : handler'[h] = handler[h] \/ HandlerRight(handler[h])'

JobsMove ==
    /\ job' \in [Slots -> Task]
    /\ \A s \in Slots : (job'[s] = job[s] \/ JobRight(job[s])') /\ CallRight(s)'

ClaimsMove ==
    /\ claim' \in [Claims -> ClaimRow]
    /\ \A c \in Claims : claim'[c] = claim[c] \/ ClaimRight(c)'

ReceiptsMove ==
    /\ receipts' \subseteq Receipt
    /\ \A c \in receipts' : c \in receipts \/ ReceiptRight(c)'

BooksMove ==
    /\ obligation' \in [Keys -> Obligation \cup {NoObligation}]
    /\ reversal' \in [ReversalKeys -> Rows \cup {NoRow}]
    /\ posting' \in [Keys -> {"none", "allow", "hold"}]
    /\ poster' \in [Keys -> Rows \cup {NoRow}]
    /\ released' \subseteq Keys
    /\ sent' \in [Rows -> SUBSET {"allow", "hold", "block"}]
    /\ \A k \in Keys :
         /\ (posting'[k] = posting[k] /\ poster'[k] = poster[k]) \/ PostingRight(k)'
         /\ \/ obligation'[k] = obligation[k] /\ (k \in released' <=> k \in released)
            \/ ObligationRight(k, obligation[k])'
    /\ \A x \in ReversalKeys : reversal'[x] = reversal[x] \/ Stands(reversal[x], "REVERSED")'

LEMMA OutboxMoved ==
    ASSUME RoyaltyIInv, Grows, LyricaMoves, NEW r \in Rows
    PROVE  OutboxRight(r)'
<1>1. OutboxRight(r) /\ (HasReceipt(r) => HasReceipt(r)')
  BY DEF RoyaltyIInv, Grows, HasReceipt
<1>2. CASE outbox'[r] = outbox[r]
  BY <1>1, <1>2 DEF OutboxRight, Body
<1>3. CASE outbox[r].state = "none" /\ outbox'[r].state = "pending" /\ outbox'[r].body \in Bodies[r]
  BY <1>3 DEF OutboxRight, Body
<1>4. CASE /\ outbox[r].state # "none" /\ outbox'[r].state # "none"
           /\ outbox'[r].body = outbox[r].body
           /\ outbox'[r].state = "receipted" => HasReceipt(r)
  BY <1>1, <1>4 DEF OutboxRight, Body
<1> QED
  BY <1>2, <1>3, <1>4 DEF LyricaMoves

LEMMA RoyaltyStep ==
    ASSUME RoyaltyIInv, Grows, LyricaMoves, HandlersMove, JobsMove, ClaimsMove, ReceiptsMove,
           BooksMove
    PROVE  RoyaltyIInv'
<1>1. RoyaltyShape
  BY DEF RoyaltyIInv
<1>2. RoyaltyShape'
  BY <1>1 DEF RoyaltyShape, LyricaMoves, HandlersMove, JobsMove, ClaimsMove, ReceiptsMove, BooksMove
<1>3. ASSUME NEW h \in Handlers PROVE HandlerRight(handler[h])'
  <2>1. CASE handler'[h] = handler[h]
    <3>1. PICK v : v = handler[h] /\ HandlerRight(v)
      BY DEF RoyaltyIInv
    <3>2. HandlerRight(v)'
      BY <1>1, <3>1, HandlerGrows
    <3> QED
      BY <2>1, <3>1, <3>2 DEF HandlerRight, ReceiptOf
  <2> QED
    BY <2>1 DEF HandlersMove
<1>4. ASSUME NEW s \in Slots PROVE JobRight(job[s])' /\ CallRight(s)'
  <2>1. CASE job'[s] = job[s]
    <3>1. PICK j : j = job[s] /\ JobRight(j)
      BY DEF RoyaltyIInv
    <3>2. JobRight(j)'
      BY <1>1, <3>1, JobGrows
    <3> QED
      BY <2>1, <3>1, <3>2 DEF JobRight, JobsMove
  <2> QED
    BY <2>1 DEF JobsMove
<1>0. ASSUME NEW c \in Claims PROVE ClaimRight(c)'
  BY ClaimGrows DEF RoyaltyIInv, ClaimsMove
<1>5. ASSUME NEW k \in Keys
      PROVE  PostingRight(k)' /\ ObligationRight(k, obligation[k])'
  <2>2. PostingRight(k)'
    BY PostingGrows DEF RoyaltyIInv, BooksMove
  <2>3. CASE obligation'[k] = obligation[k] /\ (k \in released' <=> k \in released)
    <3>1. PICK o \in Obligation \cup {NoObligation} : o = obligation[k] /\ ObligationRight(k, o)
      BY <1>1 DEF RoyaltyIInv, RoyaltyShape
    <3>2. ObligationRight(k, o)'
      BY <2>3, <3>1, ObligationGrows
    <3>3. ObligationRight(k, obligation[k])'
      BY <2>3, <3>1, <3>2 DEF ObligationRight
    <3> QED
      BY <2>2, <3>3
  <2> QED
    BY <2>2, <2>3 DEF BooksMove
<1>6. \A r \in Rows : OutboxRight(r)'
  BY OutboxMoved
<1>7. ASSUME NEW c \in receipts' PROVE ReceiptRight(c)'
  BY <1>1, <1>7, ReceiptGrows DEF RoyaltyIInv, ReceiptsMove
<1>8. ASSUME NEW t \in Tenants, sender'[t] # Waiting PROVE Known(sender[t].row)'
  <2>1. Known(sender'[t].row)
    BY <1>8 DEF LyricaMoves, RoyaltyIInv
  <2>2. \A r : Known(r) => Known(r)'
    BY KnownGrows
  <2> QED
    BY <2>1, <2>2 DEF Known
<1>9. ASSUME NEW x \in ReversalKeys, reversal'[x] # NoRow PROVE Stands(reversal[x], "REVERSED")'
  <2>1. CASE reversal'[x] = reversal[x]
    <3>1. PICK r : r = reversal[x] /\ Stands(r, "REVERSED")
      BY <1>9, <2>1 DEF RoyaltyIInv
    <3>2. Stands(r, "REVERSED")'
      BY <1>1, <3>1, StandsGrows
    <3> QED
      BY <2>1, <3>1, <3>2 DEF Stands
  <2> QED
    BY <2>1 DEF BooksMove
<1>10. /\ \A h \in Handlers : HandlerRight(handler[h])'
       /\ \A s \in Slots : JobRight(job[s])' /\ CallRight(s)'
       /\ \A c \in Claims : ClaimRight(c)'
       /\ \A k \in Keys : PostingRight(k)' /\ ObligationRight(k, obligation[k])'
       /\ \A c \in receipts' : ReceiptRight(c)'
       /\ \A t \in Tenants : sender'[t] # Waiting => Known(sender[t].row)'
       /\ \A x \in ReversalKeys : reversal'[x] # NoRow => Stands(reversal[x], "REVERSED")'
  BY <1>0, <1>3, <1>4, <1>5, <1>7, <1>8, <1>9
<1> QED
  BY <1>2, <1>6, <1>10 DEF RoyaltyIInv

\* What a step leaves alone needs no argument.
LEMMA RoyaltyStays ==
    ASSUME RoyaltyIInv
    PROVE  /\ UNCHANGED <<outbox, sender>> => LyricaMoves
           /\ UNCHANGED handler => HandlersMove
           /\ UNCHANGED <<handler, job>> => JobsMove
           /\ UNCHANGED claim => ClaimsMove
           /\ UNCHANGED receipts => ReceiptsMove
           /\ UNCHANGED <<obligation, reversal, posting, poster, released, sent, torn>> => BooksMove
<1>1. UNCHANGED <<outbox, sender>> => LyricaMoves
  BY DEF RoyaltyIInv, RoyaltyShape, LyricaMoves
<1>2. UNCHANGED handler => HandlersMove
  BY DEF RoyaltyIInv, RoyaltyShape, HandlersMove
<1>3. UNCHANGED <<handler, job>> => JobsMove
  BY DEF RoyaltyIInv, RoyaltyShape, JobsMove, CallRight
<1>4. UNCHANGED claim => ClaimsMove
  BY DEF RoyaltyIInv, RoyaltyShape, ClaimsMove
<1>5. UNCHANGED receipts => ReceiptsMove
  BY DEF RoyaltyIInv, RoyaltyShape, ReceiptsMove
<1>6. UNCHANGED <<obligation, reversal, posting, poster, released, sent, torn>> => BooksMove
  BY DEF RoyaltyIInv, RoyaltyShape, BooksMove
<1> QED
  BY <1>1, <1>2, <1>3, <1>4, <1>5, <1>6

\* Handlers that wait for no answer may move.
LEMMA CallsStay ==
    ASSUME RoyaltyIInv, UNCHANGED job,
           \A h \in Handlers : handler[h].pc = "waiting" => handler'[h] = handler[h]
    PROVE  JobsMove
<1>1. job \in [Slots -> Task] /\ \A s \in Slots : CallRight(s)
  BY DEF RoyaltyIInv, RoyaltyShape
<1>2. ASSUME NEW s \in Slots PROVE CallRight(s)'
  <2>1. job[s].caller \in Handlers \cup {NoHandler}
    BY <1>1 DEF Task
  <2> QED
    BY <1>1, <2>1 DEF CallRight
<1> QED
  BY <1>1, <1>2 DEF JobsMove

LEMMA GrowsOf ==
    ASSUME RoyaltyIInv, LyricaMoves, receipts \subseteq receipts',
           UNCHANGED <<obligation, posting, poster, sent>>, torn \subseteq torn',
           \A c \in Claims : claim[c].row # NoRow => claim'[c].row = claim[c].row
    PROVE  Grows
<1>1. \A r \in Rows : outbox[r].state # "none" =>
        outbox'[r].state # "none" /\ outbox'[r].body = outbox[r].body
  BY DEF LyricaMoves
<1>2. \A k \in Keys : obligation[k] # NoObligation => obligation[k].status \in Statuses
  BY DEF RoyaltyIInv, RoyaltyShape, Obligation
<1> QED
  BY <1>1, <1>2, AfterItself DEF Grows

\* The answer to Lyrica.
LEMMA RespondMoves ==
    ASSUME RoyaltyIInv, NEW h \in Handlers, handler[h].pc \in Ingesting, NEW code,
           Respond(h, code), StateAfter(code) = "receipted" => HasReceipt(handler[h].row)
    PROVE  /\ LyricaMoves /\ HandlersMove
           /\ \A g \in Handlers : g # h => handler'[g] = handler[g]
<1>1. RoyaltyShape /\ Known(handler[h].row)
  BY DEF RoyaltyIInv, HandlerRight
<1>2. /\ outbox \in [Rows -> Delivery] /\ handler \in [Handlers -> Request]
      /\ sender \in [Tenants -> Attempt]
  BY <1>1 DEF RoyaltyShape
<1>3. StateAfter(code) \in {"receipted", "sent", "rejected"}
  BY DEF StateAfter
<1>4. LyricaMoves
  <2>1. CASE UNCHANGED <<outbox, sender>>
    BY <2>1, RoyaltyStays
  <2>2. CASE /\ outbox' = [outbox EXCEPT ![handler[h].row].state = StateAfter(code)]
             /\ sender' = [sender EXCEPT ![TenantOf[handler[h].row]] = Waiting]
    <3>0. /\ sender' \in [Tenants -> Attempt]
          /\ \A t \in Tenants : sender'[t] = sender[t] \/ sender'[t] = Waiting
      BY <1>2, <2>2 DEF Attempt
    <3>1. PICK r \in Rows : r = handler[h].row /\ outbox[r].state # "none"
      BY <1>1 DEF Known
    <3>2. PICK d \in Delivery : d = [outbox[r] EXCEPT !.state = StateAfter(code)]
      BY <1>2, <1>3 DEF Delivery, Settled
    <3>3. d.body = outbox[r].body /\ d.state = StateAfter(code)
      BY <1>2, <3>2 DEF Delivery
    <3>4. outbox' = [outbox EXCEPT ![r] = d]
      BY <2>2, <3>1, <3>2
    <3>5. outbox' \in [Rows -> Delivery] /\ outbox'[r] = d /\ \A q \in Rows : q # r => outbox'[q] = outbox[q]
      BY <1>2, <3>4
    <3> QED
      BY <1>3, <3>0, <3>1, <3>3, <3>5 DEF LyricaMoves
  <2> QED
    BY <2>1, <2>2 DEF Respond
<1>5. Idle \in Request
  BY DEF Idle, Request
<1>6. /\ handler' \in [Handlers -> Request] /\ handler'[h] = Idle
      /\ \A g \in Handlers : g # h => handler'[g] = handler[g]
  BY <1>2, <1>5 DEF Respond
<1>7. HandlerRight(handler[h])'
  BY <1>6 DEF HandlerRight, Idle, Ingesting, PastClaim, FailCode
<1> QED
  BY <1>4, <1>6, <1>7 DEF HandlersMove
-----------------------------------------------------------------------------
(* The royalty loop: the steps. *)

\* Steps outside the gateway and the transaction service.
LEMMA LyricaStep ==
    ASSUME RoyaltyIInv,
           \/ \E r \in Rows : \/ \E b \in Bodies[r] : enqueue(r, b)
                              \/ ConnectionRefused(r) \/ GrowStale(r)
           \/ (\E t \in Tenants : StopWaiting(t) \/ RegisterTenant(t))
           \/ (\E c \in Claims : Age(c)) \/ UNCHANGED vars
    PROVE  RoyaltyIInv'
<1>1. UNCHANGED <<claim, receipts, handler, job, obligation, reversal, posting, poster, released, sent, torn>>
  BY DEF enqueue, ConnectionRefused, GrowStale, StopWaiting, RegisterTenant, Age, vars, claims,
         service, ledger, past
<1>2. outbox \in [Rows -> Delivery] /\ sender \in [Tenants -> Attempt]
  BY DEF RoyaltyIInv, RoyaltyShape
<1>3. ASSUME NEW r \in Rows, mark_retry(r), outbox[r].state # "none"
      PROVE  /\ outbox' \in [Rows -> Delivery]
             /\ \A q \in Rows : q # r => outbox'[q] = outbox[q]
             /\ outbox'[r].state = "sent" /\ outbox'[r].body = outbox[r].body
  <2>1. PICK d \in Delivery : d = [outbox[r] EXCEPT !.state = "sent"]
    BY <1>2 DEF Delivery
  <2>2. d.body = outbox[r].body /\ d.state = "sent"
    BY <1>2, <2>1 DEF Delivery
  <2>3. outbox' = [outbox EXCEPT ![r] = d]
    BY <1>3, <2>1 DEF mark_retry
  <2> QED
    BY <1>2, <2>2, <2>3
<1>4. LyricaMoves
  <2>1. ASSUME NEW r \in Rows, NEW b \in Bodies[r], enqueue(r, b) PROVE LyricaMoves
    <3>1. PICK d \in Delivery : d = [state |-> "pending", body |-> b]
      BY DEF Delivery, AllBodies
    <3>2. outbox' = [outbox EXCEPT ![r] = d] /\ sender' = sender /\ outbox[r].state = "none"
      BY <2>1, <3>1 DEF enqueue
    <3> QED
      BY <1>2, <3>1, <3>2 DEF LyricaMoves
  <2>2. ASSUME NEW r \in Rows, ConnectionRefused(r) PROVE LyricaMoves
    <3>1. mark_retry(r) /\ outbox[r].state # "none" /\ sender' = sender
      BY <2>2 DEF ConnectionRefused, Due
    <3>2. /\ outbox' \in [Rows -> Delivery]
          /\ \A q \in Rows : q # r => outbox'[q] = outbox[q]
          /\ outbox'[r].state = "sent" /\ outbox'[r].body = outbox[r].body
      BY <1>3, <3>1
    <3> QED
      BY <1>2, <3>1, <3>2 DEF LyricaMoves
  <2>3. ASSUME NEW t \in Tenants, StopWaiting(t) PROVE LyricaMoves
    <3>1. /\ sender[t].row \in Rows /\ outbox[sender[t].row].state # "none"
          /\ sender' = [sender EXCEPT ![t] = Waiting]
          /\ mark_retry(sender[t].row) \/ UNCHANGED outbox
      BY <2>3 DEF StopWaiting, RoyaltyIInv, Known
    <3>2. PICK r \in Rows : r = sender[t].row
      BY <3>1
    <3>3. /\ sender' \in [Tenants -> Attempt]
          /\ \A u \in Tenants : sender'[u] = sender[u] \/ sender'[u] = Waiting
      BY <1>2, <3>1 DEF Attempt
    <3> QED
      BY <1>2, <1>3, <3>1, <3>2, <3>3 DEF LyricaMoves
  <2>4. ASSUME \/ (\E t \in Tenants : RegisterTenant(t)) \/ (\E c \in Claims : Age(c))
               \/ UNCHANGED vars
               \/ \E r \in Rows : GrowStale(r)
        PROVE  LyricaMoves
    <3>1. UNCHANGED <<outbox, sender>>
      BY <2>4 DEF RegisterTenant, Age, GrowStale, vars, lyrica
    <3> QED
      BY <3>1, RoyaltyStays
  <2> QED
    BY <2>1, <2>2, <2>3, <2>4
<1>5. Grows
  BY <1>1, <1>4, GrowsOf
<1> QED
  BY <1>1, <1>4, <1>5, RoyaltyStays, RoyaltyStep

\* One handler moves.
LEMMA OneMoves ==
    ASSUME RoyaltyIInv, NEW h \in Handlers, NEW v \in Request,
           handler' = [handler EXCEPT ![h] = v], HandlerRight(v)'
    PROVE  HandlersMove /\ handler'[h] = v /\ \A g \in Handlers : g # h => handler'[g] = handler[g]
<1>1. handler \in [Handlers -> Request]
  BY DEF RoyaltyIInv, RoyaltyShape
<1>2. /\ handler' \in [Handlers -> Request] /\ handler'[h] = v
      /\ \A g \in Handlers : g # h => handler'[g] = handler[g]
  BY <1>1
<1>3. HandlerRight(handler[h])'
  BY <1>2 DEF HandlerRight, ReceiptOf
<1> QED
  BY <1>2, <1>3 DEF HandlersMove

LEMMA GotoTells ==
    ASSUME RoyaltyIInv, NEW h \in Handlers, NEW pc \in Ingesting, Goto(h, pc)
    PROVE  \E v \in Request :
             /\ handler' = [handler EXCEPT ![h] = v]
             /\ v.pc = pc /\ v.row = handler[h].row /\ v.outcome = handler[h].outcome
             /\ v.status = handler[h].status
<1>1. handler \in [Handlers -> Request]
  BY DEF RoyaltyIInv, RoyaltyShape
<1>2. PICK v \in Request : v = [handler[h] EXCEPT !.pc = pc]
  BY <1>1 DEF Request
<1> QED
  BY <1>1, <1>2 DEF Goto, Request

LEMMA SendStep ==
    ASSUME RoyaltyIInv, NEW r \in Rows, NEW h \in Handlers, SendRow(r, h)
    PROVE  RoyaltyIInv'
<1>1. /\ UNCHANGED <<outbox, claim, receipts, job, obligation, reversal, posting, poster, released, sent, torn>>
      /\ handler[h].pc = "idle" /\ outbox[r].state # "none"
      /\ sender' = [sender EXCEPT ![TenantOf[r]] = [row |-> r, handler |-> h]]
  BY DEF SendRow, claims, service, ledger, past, At, Due
<1>2. PICK v \in Request : v = [Idle EXCEPT !.pc = "verify", !.row = r]
  BY DEF Idle, Request, Ingesting
<1>3. v.pc = "verify" /\ v.row = r /\ handler' = [handler EXCEPT ![h] = v]
  BY <1>2 DEF SendRow, Idle
<1>4. HandlerRight(v)'
  BY <1>1, <1>3 DEF HandlerRight, Known, PastClaim
<1>5. HandlersMove /\ \A g \in Handlers : g # h => handler'[g] = handler[g]
  BY <1>3, <1>4, OneMoves
<1>6. JobsMove
  BY <1>1, <1>5, CallsStay
<1>7. LyricaMoves
  <2>0. sender \in [Tenants -> Attempt] /\ Known(r)
    BY <1>1 DEF RoyaltyIInv, RoyaltyShape, Known
  <2>1. /\ sender' \in [Tenants -> Attempt]
        /\ \A t \in Tenants : sender'[t] = sender[t] \/ Known(sender'[t].row)
    BY <1>1, <2>0 DEF Attempt
  <2> QED
    BY <1>1, <2>1 DEF LyricaMoves, RoyaltyIInv, RoyaltyShape
<1>8. Grows
  BY <1>1, <1>7, GrowsOf
<1> QED
  BY <1>1, <1>5, <1>6, <1>7, <1>8, RoyaltyStays, RoyaltyStep

\* Steps of a handler that change neither the claim nor a book.
LEMMA VerifyStep ==
    ASSUME RoyaltyIInv, NEW h \in Handlers, verify_and_parse(h)
    PROVE  RoyaltyIInv'
<1>1. /\ UNCHANGED <<claim, receipts, job, obligation, reversal, posting, poster, released, sent, torn>>
      /\ handler[h].pc = "verify" /\ handler[h].pc \in Ingesting /\ Known(handler[h].row)
  BY DEF verify_and_parse, claims, service, ledger, past, At, RoyaltyIInv, HandlerRight, Ingesting
<1>2. ASSUME LyricaMoves, HandlersMove, \A g \in Handlers : g # h => handler'[g] = handler[g]
      PROVE  RoyaltyIInv'
  <2>1. JobsMove
    BY <1>1, <1>2, CallsStay
  <2>2. Grows
    BY <1>1, <1>2, GrowsOf
  <2> QED
    BY <1>1, <1>2, <2>1, <2>2, RoyaltyStays, RoyaltyStep
<1>3. CASE Respond(h, 403) \/ Respond(h, 422)
  <2>1. StateAfter(403) # "receipted" /\ StateAfter(422) # "receipted"
    BY DEF StateAfter
  <2> QED
    BY <1>1, <1>2, <1>3, <2>1, RespondMoves
<1>4. CASE Goto(h, "claim") /\ UNCHANGED lyrica
  <2>1. LyricaMoves
    BY <1>4, RoyaltyStays DEF lyrica
  <2>2. Grows
    BY <1>1, <2>1, GrowsOf
  <2>3. PICK v \in Request :
          handler' = [handler EXCEPT ![h] = v] /\ v.pc = "claim" /\ v.row = handler[h].row
    BY <1>4, GotoTells DEF Ingesting
  <2>4. Known(v.row)'
    BY <1>1, <2>2, <2>3, KnownGrows
  <2>5. HandlerRight(v)'
    BY <2>3, <2>4 DEF HandlerRight, PastClaim
  <2> QED
    BY <1>2, <2>1, <2>3, <2>5, OneMoves
<1> QED
  BY <1>3, <1>4 DEF verify_and_parse

LEMMA FailStep ==
    ASSUME RoyaltyIInv, NEW h \in Handlers, Preflight(h) \/ DecisionFails(h) \/ StoreFails(h)
    PROVE  RoyaltyIInv'
<1>1. /\ UNCHANGED <<outbox, sender, claim, receipts, job, obligation, reversal, posting,
                     poster, released, sent, torn>>
      /\ handler[h].pc \in {"decide", "save", "complete"}
  BY DEF Preflight, DecisionFails, StoreFails, lyrica, claims, service, ledger, past, At
<1>2. Known(handler[h].row) /\ Owns(handler[h].row)
  BY <1>1 DEF RoyaltyIInv, HandlerRight, Ingesting, PastClaim, FailCode
<1>3. PICK pc \in {"fail400", "fail500"} : Goto(h, pc)
  BY DEF Preflight, DecisionFails, StoreFails
<1>4. pc \in Ingesting
  BY <1>3 DEF Ingesting, FailCode
<1>5. LyricaMoves
  BY <1>1, RoyaltyStays
<1>6. Grows
  BY <1>1, <1>5, GrowsOf
<1>7. PICK v \in Request :
        handler' = [handler EXCEPT ![h] = v] /\ v.pc = pc /\ v.row = handler[h].row
  BY <1>3, <1>4, GotoTells
<1>8. Known(v.row)' /\ Owns(v.row)'
  BY <1>2, <1>6, <1>7, KnownGrows, OwnsGrows
<1>9. HandlerRight(v)'
  BY <1>3, <1>7, <1>8 DEF HandlerRight
<1>10. HandlersMove /\ \A g \in Handlers : g # h => handler'[g] = handler[g]
  BY <1>7, <1>9, OneMoves
<1>11. JobsMove
  BY <1>1, <1>10, CallsStay
<1> QED
  BY <1>1, <1>5, <1>6, <1>10, <1>11, RoyaltyStays, RoyaltyStep

LEMMA IngestStep ==
    ASSUME RoyaltyIInv, NEW h \in Handlers, ingest_royalty_event(h)
    PROVE  RoyaltyIInv'
<1>1. /\ UNCHANGED <<claim, receipts, job, obligation, reversal, posting, poster, released, sent, torn>>
      /\ handler[h].pc = "truth" /\ handler[h].pc \in Ingesting /\ HasReceipt(handler[h].row)
  BY DEF ingest_royalty_event, claims, service, ledger, past, At, RoyaltyIInv, HandlerRight, Ingesting
<1>2. \E code : Respond(h, code)
  BY DEF ingest_royalty_event
<1>3. LyricaMoves /\ HandlersMove /\ \A g \in Handlers : g # h => handler'[g] = handler[g]
  BY <1>1, <1>2, RespondMoves
<1>4. JobsMove
  BY <1>1, <1>3, CallsStay
<1>5. Grows
  BY <1>1, <1>3, GrowsOf
<1> QED
  BY <1>1, <1>3, <1>4, <1>5, RoyaltyStays, RoyaltyStep

\* A claim is taken by the payload it belongs to, or by the first.
LEMMA ClaimStep ==
    ASSUME RoyaltyIInv, NEW h \in Handlers, claim_idempotency(h)
    PROVE  RoyaltyIInv'
<1>1. /\ UNCHANGED <<receipts, job, obligation, reversal, posting, poster, released, sent, torn>>
      /\ handler[h].pc = "claim" /\ handler[h].pc \in Ingesting /\ Known(handler[h].row)
  BY DEF claim_idempotency, service, ledger, past, At, RoyaltyIInv, HandlerRight, Ingesting
<1>2. PICK r \in Rows, k \in Claims : r = handler[h].row /\ k = ClaimOf(r)
  BY <1>1, ClaimOfType DEF Known
<1>3. /\ handler \in [Handlers -> Request] /\ claim \in [Claims -> ClaimRow]
      /\ receipts \subseteq Receipt /\ ClaimRight(k)
  BY DEF RoyaltyIInv, RoyaltyShape
<1>4. ASSUME LyricaMoves, HandlersMove, \A g \in Handlers : g # h => handler'[g] = handler[g],
             ClaimsMove, Grows
      PROVE  RoyaltyIInv'
  <2>1. JobsMove
    BY <1>1, <1>4, CallsStay
  <2> QED
    BY <1>1, <1>4, <2>1, RoyaltyStays, RoyaltyStep
<1>5. ASSUME NEW pc \in {"decide", "truth"}, NEW v \in Request,
             handler' = [handler EXCEPT ![h] = v], v.pc = pc, v.row = r,
             pc = "truth" => HasReceipt(r), UNCHANGED <<outbox, sender>>, Owns(r)', Grows, ClaimsMove
      PROVE  RoyaltyIInv'
  <2>1. Known(r)' /\ (HasReceipt(r) => HasReceipt(r)')
    BY <1>1, <1>2, <1>5, KnownGrows DEF HasReceipt
  <2>2. HandlerRight(v)'
    BY <1>5, <2>1 DEF HandlerRight
  <2> QED
    BY <1>4, <1>5, <2>2, OneMoves, RoyaltyStays
<1>6. CASE Claimable(k, r) /\ Take(k, r) /\ Goto(h, "decide") /\ UNCHANGED lyrica
  <2>1. PICK c \in ClaimRow : c = [claim[k] EXCEPT !.status = "PROCESSING", !.row = r]
    BY <1>3 DEF ClaimRow
  <2>2. c.status = "PROCESSING" /\ c.row = r
    BY <1>3, <2>1 DEF ClaimRow
  <2>3. claim' = [claim EXCEPT ![k] = c]
    BY <1>3, <1>6, <2>1 DEF Take
  <2>4. /\ claim' \in [Claims -> ClaimRow] /\ claim'[k] = c
        /\ \A l \in Claims : l # k => claim'[l] = claim[l]
    BY <1>3, <2>3
  <2>5. claim[k].row # NoRow => claim[k].row = r
    BY <1>3, <1>6 DEF Claimable, ClaimRight
  <2>6. ClaimsMove
    BY <2>2, <2>4 DEF ClaimsMove, ClaimRight
  <2>7. Owns(r)'
    BY <1>2, <2>2, <2>4 DEF Owns
  <2>8. Grows
    <3>1. LyricaMoves
      BY <1>6, RoyaltyStays DEF lyrica
    <3> QED
      BY <1>1, <2>2, <2>4, <2>5, <3>1, GrowsOf
  <2>9. PICK v \in Request :
          handler' = [handler EXCEPT ![h] = v] /\ v.pc = "decide" /\ v.row = handler[h].row
    BY <1>6, GotoTells DEF Ingesting
  <2> QED
    BY <1>2, <1>5, <1>6, <2>6, <2>7, <2>8, <2>9 DEF lyrica
<1>7. ASSUME ~Claimable(k, r), claim[k].row = r, claim[k].status # "PROCESSING",
             claim[k].receipt \in receipts, UNCHANGED <<claims, lyrica>>,
             handler' = [handler EXCEPT ![h].pc = "truth",
                                        ![h].outcome = claim[k].receipt.outcome]
      PROVE  RoyaltyIInv'
  <2>1. claim[k].status = "COMPLETED"
    BY <1>3, <1>7 DEF Claimable, ClaimRow
  <2>2. HasReceipt(r)
    BY <1>3, <1>7, <2>1 DEF ClaimRight, HasReceipt
  <2>3. claim[k].receipt.outcome \in Outcomes
    BY <1>3, <1>7 DEF Receipt
  <2>4. PICK v \in Request :
          v = [handler[h] EXCEPT !.pc = "truth", !.outcome = claim[k].receipt.outcome]
    BY <1>3, <2>3 DEF Request, Ingesting
  <2>5. v.pc = "truth" /\ v.row = r /\ handler' = [handler EXCEPT ![h] = v]
    BY <1>2, <1>3, <1>7, <2>4 DEF Request
  <2>6. ClaimsMove /\ LyricaMoves /\ Owns(r)'
    BY <1>2, <1>7, RoyaltyStays DEF claims, lyrica, Owns
  <2>7. Grows
    BY <1>1, <1>7, <2>6, GrowsOf DEF claims
  <2> QED
    BY <1>5, <1>7, <2>2, <2>5, <2>6, <2>7 DEF lyrica
<1>8. ASSUME claim[k].row = r, UNCHANGED <<claims, lyrica>>, Goto(h, "decide")
      PROVE  RoyaltyIInv'
  <2>1. ClaimsMove /\ LyricaMoves /\ Owns(r)'
    BY <1>2, <1>8, RoyaltyStays DEF claims, lyrica, Owns
  <2>2. Grows
    BY <1>1, <1>8, <2>1, GrowsOf DEF claims
  <2>3. PICK v \in Request :
          handler' = [handler EXCEPT ![h] = v] /\ v.pc = "decide" /\ v.row = handler[h].row
    BY <1>8, GotoTells DEF Ingesting
  <2> QED
    BY <1>2, <1>5, <1>8, <2>1, <2>2, <2>3 DEF lyrica
<1>9. CASE Respond(h, 409) /\ UNCHANGED claims
  <2>1. StateAfter(409) # "receipted"
    BY DEF StateAfter
  <2>2. LyricaMoves /\ HandlersMove /\ \A g \in Handlers : g # h => handler'[g] = handler[g]
    BY <1>1, <1>9, <2>1, RespondMoves
  <2>3. ClaimsMove
    BY <1>9, RoyaltyStays DEF claims
  <2>4. Grows
    BY <1>1, <1>9, <2>2, GrowsOf DEF claims
  <2> QED
    BY <1>4, <2>2, <2>3, <2>4
<1> QED
  BY <1>2, <1>6, <1>7, <1>8, <1>9 DEF claim_idempotency

LEMMA CompleteStep ==
    ASSUME RoyaltyIInv, NEW h \in Handlers, complete_idempotency(h)
    PROVE  RoyaltyIInv'
<1>1. /\ UNCHANGED <<outbox, sender, receipts, job, obligation, reversal, posting, poster, released, sent, torn>>
      /\ handler[h].pc = "complete"
  BY DEF complete_idempotency, lyrica, service, ledger, past, At
<1>2. /\ Known(handler[h].row) /\ Owns(handler[h].row) /\ BuiltReceipt(h) \in receipts
  BY <1>1 DEF RoyaltyIInv, HandlerRight, Ingesting, PastClaim, FailCode, BuiltReceipt, ReceiptOf
<1>3. PICK r \in Rows, k \in Claims : r = handler[h].row /\ k = ClaimOf(r) /\ claim[k].row = r
  BY <1>2, ClaimOfType DEF Owns
<1>4. claim \in [Claims -> ClaimRow] /\ receipts \subseteq Receipt
  BY DEF RoyaltyIInv, RoyaltyShape
<1>5. PICK b \in receipts : b = BuiltReceipt(h) /\ b.row = r /\ b.op = "create" /\ b \in Receipt
  BY <1>2, <1>3, <1>4 DEF BuiltReceipt
<1>6. PICK c \in ClaimRow : c = [claim[k] EXCEPT !.status = "COMPLETED", !.receipt = b]
  BY <1>4, <1>5 DEF ClaimRow
<1>7. c.status = "COMPLETED" /\ c.receipt = b /\ c.row = r
  BY <1>3, <1>4, <1>6 DEF ClaimRow
<1>8. claim' = [claim EXCEPT ![k] = c]
  BY <1>3, <1>4, <1>5, <1>6 DEF complete_idempotency
<1>9. /\ claim' \in [Claims -> ClaimRow] /\ claim'[k] = c
      /\ \A l \in Claims : l # k => claim'[l] = claim[l]
  BY <1>4, <1>8
<1>10. ClaimsMove
  BY <1>1, <1>5, <1>7, <1>9 DEF ClaimsMove, ClaimRight
<1>11. LyricaMoves
  BY <1>1, RoyaltyStays
<1>12. Grows
  BY <1>1, <1>3, <1>7, <1>9, <1>11, GrowsOf
<1>13. PICK v \in Request :
         handler' = [handler EXCEPT ![h] = v] /\ v.pc = "truth" /\ v.row = handler[h].row
  BY GotoTells DEF complete_idempotency, Ingesting
<1>14. Known(v.row)' /\ Owns(v.row)' /\ HasReceipt(v.row)'
  BY <1>1, <1>2, <1>3, <1>5, <1>12, <1>13, KnownGrows, OwnsGrows DEF HasReceipt
<1>15. HandlerRight(v)'
  BY <1>13, <1>14 DEF HandlerRight
<1>16. HandlersMove /\ \A g \in Handlers : g # h => handler'[g] = handler[g]
  BY <1>13, <1>15, OneMoves
<1>17. JobsMove
  BY <1>1, <1>16, CallsStay
<1> QED
  BY <1>1, <1>10, <1>11, <1>12, <1>16, <1>17, RoyaltyStays, RoyaltyStep

LEMMA FailClaimStep ==
    ASSUME RoyaltyIInv, NEW h \in Handlers, FailClaim(h)
    PROVE  RoyaltyIInv'
<1>1. /\ UNCHANGED <<receipts, job, obligation, reversal, posting, poster, released, sent, torn>>
      /\ handler[h].pc \in DOMAIN FailCode /\ handler[h].pc \in Ingesting
      /\ handler[h].pc # "waiting"
  BY DEF FailClaim, fail_idempotency, service, ledger, past, Ingesting, FailCode
<1>2. Owns(handler[h].row)
  BY <1>1 DEF RoyaltyIInv, HandlerRight, PastClaim, FailCode
<1>3. PICK r \in Rows, k \in Claims : r = handler[h].row /\ k = ClaimOf(r)
  BY <1>2, ClaimOfType DEF Owns
<1>4. claim \in [Claims -> ClaimRow]
  BY DEF RoyaltyIInv, RoyaltyShape
<1>5. PICK c \in ClaimRow : c = [claim[k] EXCEPT !.status = "FAILED"]
  BY <1>4 DEF ClaimRow
<1>6. c.status = "FAILED" /\ c.row = claim[k].row
  BY <1>4, <1>5 DEF ClaimRow
<1>7. claim' = [claim EXCEPT ![k] = c]
  BY <1>3, <1>4, <1>5 DEF FailClaim, fail_idempotency
<1>8. /\ claim' \in [Claims -> ClaimRow] /\ claim'[k] = c
      /\ \A l \in Claims : l # k => claim'[l] = claim[l]
  BY <1>4, <1>7
<1>9. ClaimsMove
  BY <1>6, <1>8 DEF ClaimsMove, ClaimRight
<1>10. PICK code \in {400, 409, 500, 503} : Respond(h, code)
  BY <1>1 DEF FailClaim, fail_idempotency, FailCode
<1>11. StateAfter(code) # "receipted"
  BY <1>10 DEF StateAfter
<1>12. LyricaMoves /\ HandlersMove /\ \A g \in Handlers : g # h => handler'[g] = handler[g]
  BY <1>1, <1>10, <1>11, RespondMoves
<1>13. JobsMove
  BY <1>1, <1>12, CallsStay
<1>14. Grows
  BY <1>1, <1>6, <1>8, <1>12, GrowsOf
<1> QED
  BY <1>1, <1>9, <1>12, <1>13, <1>14, RoyaltyStays, RoyaltyStep

\* A receipt of an obligation.
LEMMA NewReceipt ==
    ASSUME NEW op \in {"create", "release", "reverse"}, NEW r, NEW status, NEW outcome \in Outcomes,
           Stands(r, status), NEW c,
           c = [op |-> op, row |-> r, status |-> ReceiptStatus(status), outcome |-> outcome]
    PROVE  c \in Receipt /\ ReceiptRight(c)
<1>1. r \in Rows /\ status \in Statuses
  BY DEF Stands
<1>2. ReceiptStatus(status) \in {"paid", "held", "blocked", "reversed"}
  BY <1>1 DEF ReceiptStatus, Statuses
<1>3. c \in Receipt
  BY <1>1, <1>2 DEF Receipt
<1>4. c.status = ReceiptStatus(status) /\ c.row = r
  OBVIOUS
<1> QED
  BY <1>1, <1>3, <1>4 DEF ReceiptRight

\* One receipt is stored.
LEMMA ReceiptsGrow ==
    ASSUME RoyaltyIInv, NEW c \in Receipt, ReceiptRight(c), receipts' = receipts \cup {c}, Grows
    PROVE  ReceiptsMove
<1>1. ReceiptRight(c)' /\ receipts \subseteq Receipt
  BY ReceiptGrows DEF RoyaltyIInv, RoyaltyShape
<1> QED
  BY <1>1 DEF ReceiptsMove

LEMMA SaveReceiptStep ==
    ASSUME RoyaltyIInv, NEW h \in Handlers, save_royalty_receipt(h)
    PROVE  RoyaltyIInv'
<1>1. /\ UNCHANGED <<outbox, sender, claim, job, obligation, reversal, posting, poster, released, sent, torn>>
      /\ handler[h].pc = "save"
  BY DEF save_royalty_receipt, lyrica, claims, service, ledger, past, At
<1>2. PICK r, status, outcome :
        r = handler[h].row /\ status = handler[h].status /\ outcome = handler[h].outcome
  OBVIOUS
<1>3. Known(r) /\ Owns(r) /\ Stands(r, status) /\ outcome \in Outcomes
  BY <1>1, <1>2 DEF RoyaltyIInv, HandlerRight, Ingesting, PastClaim, FailCode
<1>4. PICK c : c = [op |-> "create", row |-> r, status |-> ReceiptStatus(status), outcome |-> outcome]
  OBVIOUS
<1>5. c \in Receipt /\ ReceiptRight(c)
  BY <1>3, <1>4, NewReceipt
<1>6. receipts' = receipts \cup {c}
  BY <1>2, <1>4 DEF save_royalty_receipt, BuiltReceipt
<1>7. LyricaMoves
  BY <1>1, RoyaltyStays
<1>8. Grows
  BY <1>1, <1>6, <1>7, GrowsOf
<1>9. ReceiptsMove
  BY <1>5, <1>6, <1>8, ReceiptsGrow
<1>10. PICK v \in Request :
         /\ handler' = [handler EXCEPT ![h] = v]
         /\ v.pc = "complete" /\ v.row = r /\ v.outcome = outcome /\ v.status = status
  BY <1>2, GotoTells DEF save_royalty_receipt, Ingesting
<1>11. ReceiptOf(v) \in receipts'
  BY <1>4, <1>6, <1>10 DEF ReceiptOf
<1>12. Known(r)' /\ Owns(r)' /\ Stands(r, status)'
  BY <1>3, <1>8, KnownGrows, OwnsGrows, StandsGrows DEF RoyaltyIInv
<1>13. HandlerRight(v)'
  BY <1>3, <1>10, <1>11, <1>12 DEF HandlerRight
<1>14. HandlersMove /\ \A g \in Handlers : g # h => handler'[g] = handler[g]
  BY <1>10, <1>13, OneMoves
<1>15. JobsMove
  BY <1>1, <1>14, CallsStay
<1> QED
  BY <1>1, <1>7, <1>8, <1>9, <1>14, <1>15, RoyaltyStays, RoyaltyStep

LEMMA IdleRight == Idle \in Request /\ HandlerRight(Idle)'
BY DEF Idle, Request, HandlerRight, Ingesting, PastClaim, FailCode

LEMMA OperationReceiptStep ==
    ASSUME RoyaltyIInv, NEW h \in Handlers, SaveOperationReceipt(h)
    PROVE  RoyaltyIInv'
<1>1. /\ UNCHANGED <<outbox, sender, claim, job, obligation, reversal, posting, poster, released, sent, torn>>
      /\ handler[h].pc \in {"release", "reverse"} /\ handler' = [handler EXCEPT ![h] = Idle]
  BY DEF SaveOperationReceipt, lyrica, claims, service, ledger, past
<1>2. PICK op, r, status, outcome :
        /\ op = handler[h].pc /\ r = handler[h].row /\ status = handler[h].status
        /\ outcome = handler[h].outcome /\ op \in {"release", "reverse"}
  BY <1>1
<1>3. Stands(r, status) /\ outcome \in Outcomes
  BY <1>1, <1>2 DEF RoyaltyIInv, HandlerRight
<1>4. PICK c : c = [op |-> op, row |-> r, status |-> ReceiptStatus(status), outcome |-> outcome]
  OBVIOUS
<1>5. c \in Receipt /\ ReceiptRight(c)
  BY <1>2, <1>3, <1>4, NewReceipt
<1>6. receipts' = receipts \cup {c}
  BY <1>2, <1>4 DEF SaveOperationReceipt
<1>7. LyricaMoves
  BY <1>1, RoyaltyStays
<1>8. Grows
  BY <1>1, <1>6, <1>7, GrowsOf
<1>9. ReceiptsMove
  BY <1>5, <1>6, <1>8, ReceiptsGrow
<1>10. HandlersMove /\ \A g \in Handlers : g # h => handler'[g] = handler[g]
  BY <1>1, IdleRight, OneMoves
<1>11. JobsMove
  BY <1>1, <1>10, CallsStay
<1> QED
  BY <1>1, <1>7, <1>8, <1>9, <1>10, <1>11, RoyaltyStays, RoyaltyStep

\* Jobs keep their callers or lose them.
LEMMA CallsMove ==
    ASSUME RoyaltyIInv, job' \in [Slots -> Task],
           \A s \in Slots : job'[s].caller # NoHandler =>
             /\ job'[s].caller = job[s].caller /\ job'[s].row = job[s].row
             /\ handler'[job[s].caller].pc = handler[job[s].caller].pc
             /\ handler'[job[s].caller].row = handler[job[s].caller].row
    PROVE  \A s \in Slots : CallRight(s)'
BY DEF RoyaltyIInv, CallRight

LEMMA DecideStep ==
    ASSUME RoyaltyIInv, NEW h \in Handlers, NEW s \in Slots, NEW outcome \in Outcomes,
           evaluate_decision(h, s, outcome)
    PROVE  RoyaltyIInv'
<1>1. /\ UNCHANGED <<outbox, sender, claim, receipts, obligation, reversal, posting, poster, released, torn>>
      /\ handler[h].pc = "decide" /\ job[s] = Free
  BY DEF evaluate_decision, lyrica, claims, service, ledger, past, At
<1>2. /\ handler \in [Handlers -> Request] /\ job \in [Slots -> Task]
      /\ sent \in [Rows -> SUBSET {"allow", "hold", "block"}]
      /\ obligation \in [Keys -> Obligation \cup {NoObligation}]
      /\ posting \in [Keys -> {"none", "allow", "hold"}] /\ released \subseteq Keys
      /\ poster \in [Keys -> Rows \cup {NoRow}]
      /\ reversal \in [ReversalKeys -> Rows \cup {NoRow}]
  BY DEF RoyaltyIInv, RoyaltyShape
<1>3. Known(handler[h].row) /\ Owns(handler[h].row)
  BY <1>1 DEF RoyaltyIInv, HandlerRight, Ingesting, PastClaim, FailCode
<1>4. PICK r \in Rows : r = handler[h].row
  BY <1>3 DEF Known
<1>5. Told(outcome) \in {"allow", "hold", "block"}
  BY DEF Told, Outcomes
<1>6. /\ sent' = [sent EXCEPT ![r] = @ \cup {Told(outcome)}] /\ Payable(r)
  BY <1>4 DEF evaluate_decision, Told, Payable
<1>7. /\ sent' \in [Rows -> SUBSET {"allow", "hold", "block"}]
      /\ \A l \in Rows : sent[l] \subseteq sent'[l]
      /\ Told(outcome) \in sent'[r]
  BY <1>2, <1>5, <1>6
<1>8. BooksMove
  BY <1>1, <1>2, <1>7 DEF BooksMove
<1>9. LyricaMoves
  BY <1>1, RoyaltyStays
<1>10. Grows
  <2>1. \A l \in Keys : obligation[l] # NoObligation => obligation[l].status \in Statuses
    BY <1>2 DEF Obligation
  <2> QED
    BY <1>1, <1>7, <2>1, AfterItself DEF Grows
<1>11. Known(r)' /\ Owns(r)' /\ Payable(r)'
  BY <1>3, <1>4, <1>6, <1>10, KnownGrows, OwnsGrows, PayGrows
<1>12. PICK j \in Task : j = [pc |-> "lookup", row |-> r, outcome |-> outcome, caller |-> h]
  BY DEF Task
<1>13. /\ job' = [job EXCEPT ![s] = j]
       /\ j.pc = "lookup" /\ j.row = r /\ j.outcome = outcome /\ j.caller = h
  BY <1>4, <1>12 DEF evaluate_decision
<1>14. job' \in [Slots -> Task] /\ job'[s] = j /\ \A t \in Slots : t # s => job'[t] = job[t]
  BY <1>2, <1>13
<1>15. JobRight(j)'
  <2>1. j.pc # "free" /\ j.pc # "post" /\ j.pc # "insert" /\ Told(j.outcome) \in sent'[j.row]
    BY <1>4, <1>7, <1>13
  <2> QED
    BY <1>11, <1>13, <2>1 DEF JobRight
<1>16. PICK v \in Request : v = [handler[h] EXCEPT !.pc = "waiting", !.outcome = outcome]
  <2>1. "waiting" \in Ingesting
    BY DEF Ingesting
  <2>2. PICK g \in Request : g = handler[h]
    BY <1>2
  <2>3. [g EXCEPT !.pc = "waiting", !.outcome = outcome] \in Request
    BY <2>1 DEF Request
  <2> QED
    BY <2>2, <2>3
<1>17. v.pc = "waiting" /\ v.row = r /\ v.outcome = outcome /\ handler' = [handler EXCEPT ![h] = v]
  BY <1>2, <1>4, <1>16 DEF Request, evaluate_decision
<1>18. HandlerRight(v)'
  BY <1>11, <1>17 DEF HandlerRight
<1>19. HandlersMove /\ handler'[h] = v /\ \A g \in Handlers : g # h => handler'[g] = handler[g]
  BY <1>17, <1>18, OneMoves
<1>20. \A t \in Slots : CallRight(t) /\ job[t].caller \in Handlers \cup {NoHandler}
  BY <1>2 DEF RoyaltyIInv, Task
<1>21. h \in Handlers /\ h # NoHandler
  BY RoyaltyAssumption
<1>22. \A t \in Slots : job[t].caller # h
  BY <1>1, <1>20, <1>21 DEF CallRight
<1>23. ASSUME NEW t \in Slots PROVE CallRight(t)'
  <2>1. CASE t = s
    BY <1>13, <1>14, <1>17, <1>19, <1>22, <2>1 DEF CallRight
  <2>2. CASE t # s
    BY <1>13, <1>14, <1>19, <1>20, <1>22, <2>2 DEF CallRight
  <2> QED
    BY <2>1, <2>2
<1>24. JobRight(job[s])'
  BY <1>14, <1>15 DEF JobRight
<1>25. JobsMove
  BY <1>14, <1>23, <1>24 DEF JobsMove
<1> QED
  BY <1>1, <1>8, <1>9, <1>10, <1>19, <1>25, RoyaltyStays, RoyaltyStep

\* The steps that lose jobs or their callers.
LEMMA TimeOutStep ==
    ASSUME RoyaltyIInv, NEW h \in Handlers, NEW s \in Slots, GatewayTimesOut(h, s)
    PROVE  RoyaltyIInv'
<1>1. /\ UNCHANGED <<outbox, sender, claim, receipts, obligation, reversal, posting, poster, released, sent, torn>>
      /\ handler[h].pc = "waiting" /\ job[s].caller = h
  BY DEF GatewayTimesOut, lyrica, claims, service, ledger, past, At
<1>2. handler \in [Handlers -> Request] /\ job \in [Slots -> Task]
  BY DEF RoyaltyIInv, RoyaltyShape
<1>3. Known(handler[h].row) /\ Owns(handler[h].row)
  BY <1>1 DEF RoyaltyIInv, HandlerRight, Ingesting, PastClaim, FailCode
<1>4. LyricaMoves
  BY <1>1, RoyaltyStays
<1>5. Grows
  BY <1>1, <1>4, GrowsOf
<1>6. PICK v \in Request :
        handler' = [handler EXCEPT ![h] = v] /\ v.pc = "fail500" /\ v.row = handler[h].row
  BY GotoTells DEF GatewayTimesOut, Ingesting, FailCode
<1>7. Known(v.row)' /\ Owns(v.row)'
  BY <1>3, <1>5, <1>6, KnownGrows, OwnsGrows
<1>8. HandlerRight(v)'
  BY <1>6, <1>7 DEF HandlerRight
<1>9. HandlersMove /\ \A g \in Handlers : g # h => handler'[g] = handler[g]
  BY <1>6, <1>8, OneMoves
<1>10. PICK j \in Task : j = [job[s] EXCEPT !.caller = NoHandler]
  BY <1>2 DEF Task
<1>11. /\ j.pc = job[s].pc /\ j.row = job[s].row /\ j.outcome = job[s].outcome
       /\ j.caller = NoHandler /\ job' = [job EXCEPT ![s] = j]
  BY <1>2, <1>10 DEF Task, GatewayTimesOut
<1>12. job' \in [Slots -> Task] /\ job'[s] = j /\ \A t \in Slots : t # s => job'[t] = job[t]
  BY <1>2, <1>11
<1>13. JobRight(job[s])'
  <2>1. job[s].pc # "free"
    BY <1>1, RoyaltyAssumption DEF RoyaltyIInv, JobRight, Free
  <2>2. JobRight(j)
    BY <1>11, <2>1 DEF RoyaltyIInv, JobRight
  <2>3. JobRight(j)'
    BY <1>5, <2>2, JobGrows DEF RoyaltyIInv
  <2> QED
    BY <1>12, <2>3 DEF JobRight
<1>14. \A t \in Slots : CallRight(t) /\ job[t].caller \in Handlers \cup {NoHandler}
  BY <1>2 DEF RoyaltyIInv, Task
<1>15. \A t \in Slots : t # s => job[t].caller # h
  BY <1>1, <1>14, RoyaltyAssumption DEF CallRight
<1>16. \A t \in Slots : CallRight(t)'
  BY <1>9, <1>11, <1>12, <1>14, <1>15, CallsMove
<1>17. JobsMove
  BY <1>12, <1>13, <1>16 DEF JobsMove
<1> QED
  BY <1>1, <1>4, <1>5, <1>9, <1>17, RoyaltyStays, RoyaltyStep

LEMMA GatewayRestartStep ==
    ASSUME RoyaltyIInv, GatewayRestarts
    PROVE  RoyaltyIInv'
<1>1. /\ UNCHANGED <<claim, receipts, obligation, reversal, posting, poster, released, sent, torn>>
      /\ handler' = [h \in Handlers |-> Idle]
      /\ job' = [s \in Slots |-> [job[s] EXCEPT !.caller = NoHandler]]
  BY DEF GatewayRestarts, claims, service, ledger, past
<1>2. /\ handler \in [Handlers -> Request] /\ job \in [Slots -> Task]
      /\ outbox \in [Rows -> Delivery]
      /\ sender \in [Tenants -> Attempt]
  BY DEF RoyaltyIInv, RoyaltyShape
<1>3. LyricaMoves
  <2>1. \A t \in Tenants : sender'[t] = Waiting
    BY DEF GatewayRestarts
  <2>2. sender' \in [Tenants -> Attempt]
    BY DEF GatewayRestarts, Attempt
  <2>3. ASSUME NEW r \in Rows
        PROVE  /\ outbox'[r] \in Delivery
               /\ \/ outbox'[r] = outbox[r]
                  \/ /\ outbox[r].state # "none" /\ outbox'[r].state = "sent"
                     /\ outbox'[r].body = outbox[r].body
    <3>1. CASE sender[TenantOf[r]].row = r
      <4>1. TenantOf[r] \in Tenants /\ sender[TenantOf[r]] # Waiting
        BY <3>1, RoyaltyAssumption DEF Waiting
      <4>2. outbox[r].state # "none"
        BY <3>1, <4>1 DEF RoyaltyIInv, Known
      <4>3. PICK d \in Delivery : d = [outbox[r] EXCEPT !.state = "sent"]
        BY <1>2 DEF Delivery
      <4>4. d.body = outbox[r].body /\ d.state = "sent" /\ outbox'[r] = d
        BY <1>2, <3>1, <4>3 DEF Delivery, GatewayRestarts
      <4> QED
        BY <4>2, <4>4
    <3>2. CASE sender[TenantOf[r]].row # r
      BY <1>2, <3>2 DEF GatewayRestarts
    <3> QED
      BY <3>1, <3>2
  <2>4. outbox' \in [Rows -> Delivery]
    BY <2>3 DEF GatewayRestarts
  <2> QED
    BY <2>1, <2>2, <2>3, <2>4 DEF LyricaMoves
<1>4. Grows
  BY <1>1, <1>3, GrowsOf
<1>5. HandlersMove
  <2>1. \A h \in Handlers : handler'[h] = Idle
    BY <1>1
  <2>2. ASSUME NEW h \in Handlers PROVE HandlerRight(handler[h])'
    BY <2>1, IdleRight DEF HandlerRight, ReceiptOf
  <2> QED
    BY <1>1, <2>2, IdleRight DEF HandlersMove
<1>6. ASSUME NEW s \in Slots
      PROVE  /\ job'[s] \in Task /\ job'[s].caller = NoHandler /\ JobRight(job[s])'
  <2>1. PICK j \in Task : j = [job[s] EXCEPT !.caller = NoHandler]
    BY <1>2 DEF Task
  <2>2. /\ j.pc = job[s].pc /\ j.row = job[s].row /\ j.outcome = job[s].outcome
        /\ j.caller = NoHandler /\ job'[s] = j
    BY <1>1, <1>2, <2>1 DEF Task
  <2>3. j.pc = "free" => j = Free
    BY <1>2, <2>1, <2>2 DEF RoyaltyIInv, JobRight, Free
  <2>4. JobRight(j)
    BY <2>2, <2>3 DEF RoyaltyIInv, JobRight
  <2>5. JobRight(j)'
    BY <1>4, <2>4, JobGrows DEF RoyaltyIInv
  <2> QED
    BY <2>2, <2>5 DEF JobRight
<1>7. JobsMove
  <2>1. job' \in [Slots -> Task]
    BY <1>1, <1>6
  <2>2. \A s \in Slots : CallRight(s)'
    BY <1>6 DEF CallRight
  <2> QED
    BY <1>6, <2>1, <2>2 DEF JobsMove
<1> QED
  BY <1>1, <1>3, <1>4, <1>5, <1>7, RoyaltyStays, RoyaltyStep

LEMMA FreeRight == Free \in Task /\ JobRight(Free)' /\ Free.caller = NoHandler
BY DEF Free, Task, JobRight

LEMMA ServiceRestartStep ==
    ASSUME RoyaltyIInv, ServiceRestarts
    PROVE  RoyaltyIInv'
<1>1. /\ UNCHANGED <<outbox, sender, claim, receipts, obligation, reversal, posting, poster, released, sent, torn>>
      /\ handler' = [h \in Handlers |->
            IF handler[h].pc = "waiting" THEN [handler[h] EXCEPT !.pc = "fail500"] ELSE handler[h]]
      /\ job' = [s \in Slots |-> Free]
  BY DEF ServiceRestarts, lyrica, claims, service, ledger, past, At
<1>2. handler \in [Handlers -> Request]
  BY DEF RoyaltyIInv, RoyaltyShape
<1>3. LyricaMoves
  BY <1>1, RoyaltyStays
<1>4. Grows
  BY <1>1, <1>3, GrowsOf
<1>5. ASSUME NEW h \in Handlers
      PROVE  handler'[h] \in Request /\ (handler'[h] = handler[h] \/ HandlerRight(handler[h])')
  <2>1. CASE handler[h].pc # "waiting"
    BY <1>1, <1>2, <2>1
  <2>2. CASE handler[h].pc = "waiting"
    <3>0. "fail500" \in Ingesting
      BY DEF Ingesting, FailCode
    <3>1. PICK v \in Request : v = [handler[h] EXCEPT !.pc = "fail500"]
      BY <1>2, <3>0 DEF Request
    <3>2. v.pc = "fail500" /\ v.row = handler[h].row /\ handler'[h] = v
      BY <1>1, <1>2, <2>2, <3>1 DEF Request
    <3>3. Known(v.row) /\ Owns(v.row)
      BY <2>2, <3>2 DEF RoyaltyIInv, HandlerRight, Ingesting, PastClaim, FailCode
    <3>4. Known(v.row)' /\ Owns(v.row)'
      BY <1>4, <3>3, KnownGrows, OwnsGrows
    <3>5. HandlerRight(v)'
      BY <3>2, <3>4 DEF HandlerRight
    <3> QED
      BY <3>2, <3>5 DEF HandlerRight, ReceiptOf
  <2> QED
    BY <2>1, <2>2
<1>6. HandlersMove
  BY <1>1, <1>5 DEF HandlersMove
<1>7. JobsMove
  <2>1. \A s \in Slots : job'[s] = Free
    BY <1>1
  <2>2. ASSUME NEW s \in Slots PROVE JobRight(job[s])' /\ CallRight(s)'
    BY <2>1, FreeRight DEF JobRight, CallRight
  <2> QED
    BY <1>1, <2>2, FreeRight DEF JobsMove
<1> QED
  BY <1>1, <1>3, <1>4, <1>6, <1>7, RoyaltyStays, RoyaltyStep

\* A job ends and tells its caller, if there is one.
LEMMA AnswerMoves ==
    ASSUME RoyaltyIInv, NEW s \in Slots, job[s].pc # "free",
           NEW pc \in {"save"} \cup DOMAIN FailCode, NEW status \in Statuses \cup {"none"},
           Answer(s, pc, status), Grows,
           pc = "save" => \E r : r = job[s].row /\ Stands(r, status)'
    PROVE  JobsMove /\ HandlersMove
<1>1. /\ handler \in [Handlers -> Request] /\ job \in [Slots -> Task]
      /\ \A t \in Slots : CallRight(t) /\ JobRight(job[t])
  BY DEF RoyaltyIInv, RoyaltyShape
<1>2. PICK r \in Rows : r = job[s].row /\ Known(r) /\ Owns(r)
  BY <1>1 DEF JobRight, Known
<1>3. Known(r)' /\ Owns(r)'
  BY <1>2, KnownGrows, OwnsGrows
<1>4. /\ job' = [job EXCEPT ![s] = Free] /\ job' \in [Slots -> Task] /\ job'[s] = Free
      /\ \A t \in Slots : t # s => job'[t] = job[t]
  BY <1>1, FreeRight DEF Answer
<1>5. JobRight(job[s])'
  BY <1>4, FreeRight DEF JobRight
<1>6. PICK h \in Handlers \cup {NoHandler} : h = job[s].caller
  BY <1>1 DEF Task
<1>7. pc \in Ingesting
  BY DEF Ingesting
<1>8. CASE h = NoHandler
  <2>1. UNCHANGED handler
    BY <1>6, <1>8 DEF Answer
  <2>2. \A t \in Slots : CallRight(t)'
    BY <1>1, <1>4, <2>1, FreeRight, CallsMove
  <2> QED
    BY <1>4, <1>5, <2>1, <2>2, RoyaltyStays DEF JobsMove
<1>9. CASE h # NoHandler
  <2>1. h \in Handlers /\ handler[h].pc = "waiting" /\ handler[h].row = r
    BY <1>1, <1>2, <1>6, <1>9 DEF CallRight
  <2>2. handler[h].outcome \in Outcomes
    BY <2>1 DEF RoyaltyIInv, HandlerRight
  <2>3. PICK v \in Request : v = [handler[h] EXCEPT !.pc = pc, !.status = status]
    BY <1>1, <1>7, <2>1 DEF Request
  <2>4. v.pc = pc /\ v.row = r /\ v.status = status /\ v.outcome \in Outcomes
    BY <1>1, <2>1, <2>2, <2>3 DEF Request
  <2>5. handler' = [handler EXCEPT ![h] = v]
    BY <1>6, <1>9, <2>3 DEF Answer
  <2>6. pc # "complete" /\ pc # "truth" /\ pc # "release" /\ pc # "reverse" /\ pc # "waiting"
    BY DEF FailCode
  <2>7. HandlerRight(v)'
    BY <1>2, <1>3, <2>4, <2>6 DEF HandlerRight
  <2>8. HandlersMove /\ \A g \in Handlers : g # h => handler'[g] = handler[g]
    BY <2>1, <2>5, <2>7, OneMoves
  <2>9. \A t \in Slots : t # s => job[t].caller # h
    BY <1>1, <1>6, <1>9 DEF CallRight
  <2>10. \A t \in Slots : job[t].caller \in Handlers \cup {NoHandler}
    BY <1>1 DEF Task
  <2>11. \A t \in Slots : CallRight(t)'
    BY <1>1, <1>4, <2>8, <2>9, <2>10, FreeRight, CallsMove
  <2> QED
    BY <1>4, <1>5, <2>8, <2>11 DEF JobsMove
<1> QED
  BY <1>8, <1>9

\* A job goes on.
LEMMA JobGoesOn ==
    ASSUME RoyaltyIInv, NEW s \in Slots, NEW pc \in {"lookup", "post", "insert"},
           job' = [job EXCEPT ![s].pc = pc], UNCHANGED handler,
           \A j \in Task : /\ j.pc = pc /\ j.row = job[s].row /\ j.outcome = job[s].outcome
                           => JobRight(j)'
    PROVE  JobsMove
<1>1. /\ handler \in [Handlers -> Request] /\ job \in [Slots -> Task]
      /\ \A t \in Slots : CallRight(t)
  BY DEF RoyaltyIInv, RoyaltyShape
<1>2. PICK j \in Task : j = [job[s] EXCEPT !.pc = pc]
  BY <1>1 DEF Task
<1>3. /\ j.pc = pc /\ j.row = job[s].row /\ j.outcome = job[s].outcome /\ j.caller = job[s].caller
      /\ job' = [job EXCEPT ![s] = j]
  BY <1>1, <1>2 DEF Task
<1>4. job' \in [Slots -> Task] /\ job'[s] = j /\ \A t \in Slots : t # s => job'[t] = job[t]
  BY <1>1, <1>3
<1>5. JobRight(j)'
  BY <1>3
<1>6. JobRight(job[s])'
  BY <1>4, <1>5 DEF JobRight
<1>7. \A t \in Slots : CallRight(t)'
  BY <1>3, <1>4, CallsMove
<1> QED
  BY <1>4, <1>6, <1>7 DEF JobsMove

LEMMA LookUpStep ==
    ASSUME RoyaltyIInv, NEW s \in Slots, LookUp(s)
    PROVE  RoyaltyIInv'
<1>1. /\ UNCHANGED <<outbox, sender, claim, receipts, obligation, reversal, posting, poster, released, sent, torn>>
      /\ job[s].pc = "lookup"
  BY DEF LookUp, lyrica, claims, service, ledger, past
<1>2. LyricaMoves
  BY <1>1, RoyaltyStays
<1>3. Grows
  BY <1>1, <1>2, GrowsOf
<1>4. ASSUME HandlersMove, JobsMove PROVE RoyaltyIInv'
  BY <1>1, <1>2, <1>3, <1>4, RoyaltyStays, RoyaltyStep
<1>5. JobRight(job[s]) /\ obligation \in [Keys -> Obligation \cup {NoObligation}]
  BY DEF RoyaltyIInv, RoyaltyShape
<1>6. PICK r \in Rows, k \in Keys : r = job[s].row /\ k = KeyOf[r]
  BY <1>1, <1>5, RoyaltyAssumption DEF JobRight, Known
<1>0. CASE ~splitSchema(Body(r).splits)
  <2>1. "fail503" \in DOMAIN FailCode
    BY DEF FailCode
  <2>2. Answer(s, "fail503", "none")
    BY <1>0, <1>6 DEF LookUp
  <2> QED
    BY <1>1, <1>3, <1>4, <2>1, <2>2, AnswerMoves
<1>7. CASE splitSchema(Body(r).splits) /\ obligation[k] = NoObligation
  <2>1. PICK pc \in {"post", "insert"} :
          /\ job' = [job EXCEPT ![s].pc = pc] /\ UNCHANGED handler
          /\ pc = IF job[s].outcome \in {"allow", "hold"} THEN "post" ELSE "insert"
    BY <1>6, <1>7 DEF LookUp
  <2>2. ASSUME NEW j \in Task, j.pc = pc, j.row = job[s].row, j.outcome = job[s].outcome
        PROVE  JobRight(j)'
    <3>1. JobRight(j)
      BY <1>1, <1>5, <2>1, <2>2 DEF JobRight
    <3> QED
      BY <1>3, <3>1, JobGrows DEF RoyaltyIInv
  <2> QED
    BY <1>4, <2>1, <2>2, JobGoesOn, RoyaltyStays
<1>8. CASE splitSchema(Body(r).splits) /\ obligation[k] # NoObligation /\ obligation[k].row # r
  <2>1. "fail409" \in DOMAIN FailCode
    BY DEF FailCode
  <2>2. Answer(s, "fail409", "none")
    BY <1>6, <1>8 DEF LookUp, SamePayload
  <2> QED
    BY <1>1, <1>3, <1>4, <2>1, <2>2, AnswerMoves
<1>9. CASE splitSchema(Body(r).splits) /\ obligation[k] # NoObligation /\ obligation[k].row = r
  <2>1. PICK status \in Statuses : status = obligation[k].status
    BY <1>5, <1>9 DEF Obligation
  <2>2. Answer(s, "save", status)
    BY <1>6, <1>9, <2>1 DEF LookUp, SamePayload
  <2>3. Stands(r, status)
    BY <1>6, <1>9, <2>1, AfterItself DEF Stands
  <2>4. Stands(r, status)'
    BY <1>3, <2>3, StandsGrows DEF RoyaltyIInv
  <2> QED
    BY <1>1, <1>3, <1>4, <1>6, <2>2, <2>4, AnswerMoves
<1> QED
  BY <1>0, <1>7, <1>8, <1>9

\* A posting is made under a key that had none.
LEMMA PostingMade ==
    ASSUME RoyaltyIInv, NEW s \in Slots, job[s].pc = "post", NEW k \in Keys, NEW r \in Rows,
           r = job[s].row, k = KeyOf[r], posting[k] = "none",
           job[s].outcome = "hold" \/ Postable(r),
           posting' = [posting EXCEPT ![k] = job[s].outcome], poster' = [poster EXCEPT ![k] = r],
           UNCHANGED <<outbox, sender, claim, receipts, obligation, reversal, released, sent, torn>>
    PROVE  BooksMove /\ Grows /\ Posted(r)'
<1>1. /\ JobRight(job[s]) /\ posting \in [Keys -> {"none", "allow", "hold"}]
      /\ poster \in [Keys -> Rows \cup {NoRow}]
      /\ obligation \in [Keys -> Obligation \cup {NoObligation}]
  BY DEF RoyaltyIInv, RoyaltyShape
<1>2. Known(r) /\ Owns(r)
  BY <1>1 DEF JobRight
<1>3. PICK outcome \in {"allow", "hold"} : outcome = job[s].outcome /\ outcome \in sent[r]
  BY <1>1 DEF JobRight, Told
<1>4. /\ posting' \in [Keys -> {"none", "allow", "hold"}] /\ posting'[k] = outcome
      /\ poster' \in [Keys -> Rows \cup {NoRow}] /\ poster'[k] = r
      /\ \A l \in Keys : l # k => posting'[l] = posting[l] /\ poster'[l] = poster[l]
  BY <1>1, <1>3
<1>5. Grows
  <2>1. \A l \in Keys : obligation[l] # NoObligation => obligation[l].status \in Statuses
    BY <1>1 DEF Obligation
  <2> QED
    BY <1>4, <2>1, AfterItself DEF Grows
<1>6. Known(r)' /\ Owns(r)' /\ (outcome = "allow" => Postable(r)')
  BY <1>2, <1>3, <1>5, KnownGrows, OwnsGrows, PayGrows
<1>7. PostingRight(k)'
  <2>1. MadeFor(k, r)'
    BY <1>3, <1>4, <1>6 DEF MadeFor
  <2>2. MadeFor(k, poster[k])'
    BY <1>4, <2>1 DEF MadeFor, Known, Owns, Postable, Body, ClaimOf
  <2> QED
    BY <1>3, <1>4, <2>2 DEF PostingRight
<1>8. Posted(r)'
  BY <1>3, <1>4 DEF Posted
<1> QED
  BY <1>1, <1>4, <1>5, <1>7, <1>8 DEF BooksMove, RoyaltyIInv, RoyaltyShape

LEMMA PostStep ==
    ASSUME RoyaltyIInv, NEW s \in Slots, PostToLedger(s)
    PROVE  RoyaltyIInv'
<1>1. /\ UNCHANGED <<outbox, sender, claim, receipts, obligation, reversal, released, sent, torn>>
      /\ job[s].pc = "post"
  BY DEF PostToLedger, lyrica, claims, service, past
<1>2. JobRight(job[s]) /\ posting \in [Keys -> {"none", "allow", "hold"}]
  BY DEF RoyaltyIInv, RoyaltyShape
<1>3. PICK r \in Rows, k \in Keys : r = job[s].row /\ k = KeyOf[r]
  BY <1>1, <1>2, ClaimOfType DEF JobRight, Known
<1>4. PICK fresh \in BOOLEAN : fresh <=>
        /\ posting[k] = "none"
        /\ IF job[s].outcome = "hold" THEN Body(r).amount > 0 ELSE Postable(r)
  OBVIOUS
<1>5. /\ posting' = IF fresh THEN [posting EXCEPT ![k] = job[s].outcome] ELSE posting
      /\ poster' = IF fresh THEN [poster EXCEPT ![k] = r] ELSE poster
  BY <1>3, <1>4 DEF PostToLedger, Postable
<1>6. LyricaMoves
  BY <1>1, RoyaltyStays
<1>7. BooksMove /\ Grows /\ (fresh \/ PostedFor(k, r) => Posted(r)')
  <2>1. CASE fresh
    BY <1>1, <1>3, <1>4, <1>5, <2>1, PostingMade
  <2>2. CASE ~fresh
    <3>1. posting' = posting /\ poster' = poster
      BY <1>5, <2>2
    <3>2. BooksMove /\ Grows
      BY <1>1, <1>6, <3>1, RoyaltyStays, GrowsOf
    <3>3. ASSUME PostedFor(k, r) PROVE Posted(r)
      <4>1. PICK q : q = poster[k] /\ MadeFor(k, q) /\ TenantOf[q] = TenantOf[r]
        BY <3>3 DEF PostedFor, RoyaltyIInv, PostingRight
      <4>2. q = r
        BY <1>1, <1>2, <1>3, <4>1, OneOwner DEF MadeFor, JobRight
      <4> QED
        BY <1>3, <3>3, <4>1, <4>2 DEF Posted, PostedFor
    <3> QED
      BY <2>2, <3>2, <3>3, PostedGrows
  <2> QED
    BY <2>1, <2>2
<1>8. ASSUME HandlersMove, JobsMove PROVE RoyaltyIInv'
  BY <1>1, <1>6, <1>7, <1>8, RoyaltyStays, RoyaltyStep
<1>9. CASE (fresh \/ PostedFor(k, r)) /\ job' = [job EXCEPT ![s].pc = "insert"] /\ UNCHANGED handler
  <2>1. Posted(r)'
    BY <1>7, <1>9
  <2>2. ASSUME NEW j \in Task, j.pc = "insert", j.row = job[s].row, j.outcome = job[s].outcome
        PROVE  JobRight(j)'
    <3>1. /\ Known(r)' /\ Owns(r)' /\ Payable(r)' /\ j.outcome \in Outcomes
          /\ Told(j.outcome) \in sent'[r]
      BY <1>1, <1>2, <1>3, <1>7, <2>2, KnownGrows, OwnsGrows, PayGrows DEF JobRight
    <3> QED
      BY <1>3, <2>1, <2>2, <3>1 DEF JobRight
  <2> QED
    BY <1>8, <1>9, <2>2, JobGoesOn, RoyaltyStays
<1>10. CASE Answer(s, "fail503", "none")
  <2>1. "fail503" \in DOMAIN FailCode
    BY DEF FailCode
  <2> QED
    BY <1>1, <1>7, <1>8, <1>10, <2>1, AnswerMoves
<1> QED
  BY <1>3, <1>4, <1>9, <1>10 DEF PostToLedger, Postable

LEMMA InsertedFits ==
    ASSUME NEW outcome \in Outcomes
    PROVE  /\ InsertedStatus(outcome) \in Statuses /\ InsertedStatus(outcome) \in StatusesOf(outcome)
           /\ InsertedStatus(outcome) # "BLOCKED" <=> outcome \in {"allow", "hold"}
           /\ InsertedStatus(outcome) = "POSTED" <=> outcome = "allow"
<1>1. CASE outcome = "allow"
  BY <1>1 DEF InsertedStatus, StatusesOf, Statuses
<1>2. CASE outcome = "hold"
  BY <1>2 DEF InsertedStatus, StatusesOf, Statuses
<1>3. CASE outcome \in {"block", "disowned"}
  BY <1>3 DEF InsertedStatus, StatusesOf, Statuses
<1> QED
  BY <1>1, <1>2, <1>3 DEF Outcomes

LEMMA InsertStep ==
    ASSUME RoyaltyIInv, NEW s \in Slots, InsertObligation(s)
    PROVE  RoyaltyIInv'
<1>1. /\ UNCHANGED <<outbox, sender, claim, receipts, reversal, posting, poster, released, sent, torn>>
      /\ job[s].pc = "insert"
  BY DEF InsertObligation, lyrica, claims, ledger, past
<1>2. /\ JobRight(job[s]) /\ obligation \in [Keys -> Obligation \cup {NoObligation}]
      /\ outbox \in [Rows -> Delivery]
      /\ posting \in [Keys -> {"none", "allow", "hold"}] /\ released \subseteq Keys
      /\ poster \in [Keys -> Rows \cup {NoRow}]
      /\ reversal \in [ReversalKeys -> Rows \cup {NoRow}]
      /\ sent \in [Rows -> SUBSET {"allow", "hold", "block"}]
  BY DEF RoyaltyIInv, RoyaltyShape
<1>3. PICK r \in Rows, k \in Keys : r = job[s].row /\ k = KeyOf[r] /\ Known(r) /\ Owns(r) /\ Payable(r)
  BY <1>1, <1>2, RoyaltyAssumption DEF JobRight, Known
<1>4. PICK outcome \in Outcomes : outcome = job[s].outcome
  BY <1>1, <1>2 DEF JobRight
<1>5. LyricaMoves
  BY <1>1, RoyaltyStays
<1>6. CASE Answer(s, "fail503", "none") /\ UNCHANGED obligation
  <2>1. Answer(s, "fail503", "none") /\ UNCHANGED obligation
    BY <1>6
  <2>2. "fail503" \in DOMAIN FailCode
    BY DEF FailCode
  <2>3. Grows
    BY <1>1, <1>5, <2>1, GrowsOf
  <2>4. JobsMove /\ HandlersMove
    BY <1>1, <2>1, <2>2, <2>3, AnswerMoves
  <2> QED
    BY <1>1, <1>5, <2>1, <2>3, <2>4, RoyaltyStays, RoyaltyStep
<1>7. CASE /\ obligation[k] = NoObligation
           /\ ~(Answer(s, "fail503", "none") /\ UNCHANGED obligation)
  <2>1. PICK status \in Statuses : status = InsertedStatus(outcome)
    BY InsertedFits
  <2>2. PICK paid : paid = IF status = "POSTED" THEN Paid(Body(r)) ELSE <<>>
    OBVIOUS
  <2>3. PICK o : o = [row |-> r, status |-> status, outcome |-> outcome,
                      ledger |-> IF status = "BLOCKED" THEN "none" ELSE "create", payouts |-> paid]
    OBVIOUS
  <2>4. /\ o.row = r /\ o.status = status /\ o.outcome = outcome /\ o.payouts = paid
        /\ o.ledger = IF status = "BLOCKED" THEN "none" ELSE "create"
    BY <2>3
  <2>5. obligation' = [obligation EXCEPT ![k] = o]
    BY <1>3, <1>4, <1>7, <2>1, <2>2, <2>3 DEF InsertObligation, Paid
  <2>6. Answer(s, "save", status)
    BY <1>3, <1>4, <1>7, <2>1 DEF InsertObligation
  <2>7. o \in Obligation
    <3>1. Body(r) \in AllBodies \cup {NoBody}
      BY <1>2, <1>3 DEF Body, Delivery
    <3>2. paid \in {Paid(b) : b \in AllBodies \cup {NoBody}} \cup {<<>>}
      BY <2>2, <3>1
    <3> QED
      BY <1>3, <1>4, <2>1, <2>3, <3>2 DEF Obligation
  <2>8. o # NoObligation
    BY <2>4, RoyaltyAssumption DEF NoObligation
  <2>9. /\ obligation' \in [Keys -> Obligation \cup {NoObligation}] /\ obligation'[k] = o
        /\ \A l \in Keys : l # k => obligation'[l] = obligation[l]
    BY <1>2, <2>5, <2>7
  <2>10. Grows
    <3>1. \A l \in Keys : obligation[l] # NoObligation => obligation[l].status \in Statuses
      BY <1>2 DEF Obligation
    <3> QED
      BY <1>1, <1>7, <2>9, <3>1, AfterItself DEF Grows
  <2>11. Stands(r, status)'
    BY <1>3, <2>1, <2>4, <2>9, AfterItself DEF Stands
  <2>12. JobsMove /\ HandlersMove
    BY <1>1, <1>3, <2>6, <2>10, <2>11, AnswerMoves
  <2>13. Known(r)' /\ Payable(r)' /\ Owns(r)' /\ Paid(Body(r))' = Paid(Body(r))
    BY <1>1, <1>3, <2>10, KnownGrows, OwnsGrows, PayGrows
  <2>14. k \notin released'
    BY <1>1, <1>7 DEF RoyaltyIInv, ObligationRight
  <2>15. Told(outcome) \in sent'[r] /\ (outcome \in {"allow", "hold"} => Posted(r)')
    BY <1>1, <1>2, <1>3, <1>4, <2>10, PostedGrows DEF JobRight
  <2>16. paid \in {<<>>, Paid(Body(r))'} /\ (outcome # "allow" => paid = <<>>)
    BY <2>1, <2>2, <2>13, InsertedFits
  <2>17. ObligationRight(k, o)'
    BY <1>3, <2>1, <2>4, <2>8, <2>13, <2>14, <2>15, <2>16, InsertedFits DEF ObligationRight
  <2>18. ObligationRight(k, obligation[k])'
    BY <2>9, <2>17 DEF ObligationRight
  <2>19. BooksMove
    BY <1>1, <1>2, <2>9, <2>18 DEF BooksMove
  <2> QED
    BY <1>1, <1>5, <2>10, <2>12, <2>19, RoyaltyStays, RoyaltyStep
<1> QED
  BY <1>3, <1>6, <1>7 DEF InsertObligation

-----------------------------------------------------------------------------
(* The royalty loop: release and reversal. *)

LEMMA KeepMoves ==
    ASSUME RoyaltyIInv, NEW h \in Handlers, handler[h].pc = "idle", NEW op \in {"release", "reverse"},
           NEW r \in Rows, NEW status \in Statuses, NEW o \in Obligation, o = obligation[KeyOf[r]],
           Keep(h, op, r, status), UNCHANGED job, Stands(r, status)'
    PROVE  HandlersMove /\ JobsMove
<1>1. o.outcome \in Outcomes
  BY DEF Obligation
<1>2. PICK v : v = [pc |-> op, row |-> r, status |-> status, outcome |-> o.outcome]
  OBVIOUS
<1>3. v.pc = op /\ v.row = r /\ v.status = status /\ v.outcome = o.outcome
  BY <1>2
<1>4. v \in Request
  BY <1>1, <1>2 DEF Request
<1>5. handler' = [handler EXCEPT ![h] = v]
  BY <1>2 DEF Keep
<1>6. op \notin Ingesting /\ op \notin PastClaim
  BY DEF Ingesting, PastClaim, FailCode
<1>7. HandlerRight(v)'
  BY <1>1, <1>3, <1>6 DEF HandlerRight
<1>8. HandlersMove /\ \A g \in Handlers : g # h => handler'[g] = handler[g]
  BY <1>4, <1>5, <1>7, OneMoves
<1>9. JobsMove
  BY <1>8, CallsStay
<1> QED
  BY <1>8, <1>9

\* One obligation moves on.
LEMMA ObligationMoves ==
    ASSUME RoyaltyIInv, NEW k \in Keys, NEW o \in Obligation, NEW p \in Obligation,
           o = obligation[k], o # NoObligation, p.row = o.row, p.status \in After(o.status),
           obligation' = [obligation EXCEPT ![k] = p], torn \subseteq torn',
           UNCHANGED <<outbox, sender, claim, receipts, posting, poster, sent>>
    PROVE  /\ Grows /\ obligation' \in [Keys -> Obligation \cup {NoObligation}] /\ obligation'[k] = p
           /\ \A l \in Keys : l # k => obligation'[l] = obligation[l]
           /\ Stands(o.row, p.status)'
<1>1. obligation \in [Keys -> Obligation \cup {NoObligation}] /\ ObligationRight(k, o)
  BY DEF RoyaltyIInv, RoyaltyShape
<1>2. /\ obligation' \in [Keys -> Obligation \cup {NoObligation}] /\ obligation'[k] = p
      /\ \A l \in Keys : l # k => obligation'[l] = obligation[l]
  BY <1>1
<1>3. \A l \in Keys : obligation[l] # NoObligation => obligation[l].status \in Statuses
  BY <1>1 DEF Obligation
<1>4. Grows
  BY <1>2, <1>3, AfterItself DEF Grows
<1>5. p.status \in Statuses /\ o.row \in Rows /\ KeyOf[o.row] = k
  BY <1>1 DEF Obligation, ObligationRight
<1>6. Stands(o.row, p.status)'
  BY <1>2, <1>5, AfterItself DEF Stands
<1> QED
  BY <1>2, <1>4, <1>6

LEMMA ReleaseStep ==
    ASSUME RoyaltyIInv, NEW h \in Handlers, NEW r \in Rows, release_obligation(h, r)
    PROVE  RoyaltyIInv'
<1>1. PICK k \in Keys : k = KeyOf[r]
  BY RoyaltyAssumption
<1>2. /\ UNCHANGED <<outbox, sender, claim, receipts, job, reversal, posting, poster, sent>>
      /\ torn \subseteq torn'
      /\ handler[h].pc = "idle" /\ obligation[k].row = r
  BY <1>1 DEF release_obligation, lyrica, claims, At
<1>3. /\ obligation \in [Keys -> Obligation \cup {NoObligation}] /\ released \subseteq Keys
      /\ outbox \in [Rows -> Delivery]
      /\ posting \in [Keys -> {"none", "allow", "hold"}]
      /\ reversal \in [ReversalKeys -> Rows \cup {NoRow}]
      /\ poster \in [Keys -> Rows \cup {NoRow}]
      /\ sent \in [Rows -> SUBSET {"allow", "hold", "block"}]
  BY DEF RoyaltyIInv, RoyaltyShape
<1>4. PICK o \in Obligation : o = obligation[k] /\ o # NoObligation /\ ObligationRight(k, o) /\ o.row = r
  BY <1>2, <1>3, RoyaltyAssumption DEF NoObligation, RoyaltyIInv
<1>5. LyricaMoves
  BY <1>2, RoyaltyStays
<1>6. /\ KeyOf[r] = k /\ Known(r) /\ Owns(r) /\ Payable(r) /\ Told(o.outcome) \in sent[r]
      /\ o.status # "BLOCKED" => Posted(r)
      /\ o.payouts \in {<<>>, Paid(Body(r))} /\ (o.ledger = "none" <=> o.status = "BLOCKED")
  BY <1>4 DEF ObligationRight
<1>7. ASSUME o.status = "HELD", Postable(r), released' = released \cup {k}
      PROVE  o.outcome = "hold"
  <2>1. o.outcome \in Outcomes /\ o.status \in StatusesOf(o.outcome)
    BY <1>4 DEF Obligation, ObligationRight
  <2> QED
    BY <1>7, <2>1 DEF StatusesOf, Outcomes
<1>8. CASE /\ o.status = "HELD" /\ Postable(r) /\ released' = released \cup {k}
           /\ torn' = torn \cup {k} /\ UNCHANGED <<obligation, handler>>
  <2>1. Grows
    BY <1>2, <1>5, <1>8, GrowsOf
  <2>2. /\ Known(r)' /\ Owns(r)' /\ Payable(r)' /\ Postable(r)' /\ Paid(Body(r))' = Paid(Body(r))
        /\ Posted(r) => Posted(r)'
    BY <1>6, <1>8, <2>1, KnownGrows, OwnsGrows, PayGrows, PostedGrows
  <2>3. ObligationRight(k, o)'
    BY <1>2, <1>4, <1>6, <1>7, <1>8, <2>2 DEF ObligationRight
  <2>4. ObligationRight(k, obligation[k])'
    BY <1>4, <1>8, <2>3 DEF ObligationRight
  <2>5. BooksMove
    BY <1>2, <1>3, <1>8, <2>4 DEF BooksMove
  <2> QED
    BY <1>2, <1>5, <1>8, <2>1, <2>5, RoyaltyStays, RoyaltyStep
<1>9. CASE /\ o.status = "HELD" /\ Postable(r) /\ released' = released \cup {k}
           /\ obligation' = [obligation EXCEPT ![k].status = "POSTED", ![k].ledger = "release",
                                               ![k].payouts = Paid(Body(r))]
           /\ Keep(h, "release", r, "POSTED")
  <2>1. PICK paid : paid = Paid(Body(r))
    OBVIOUS
  <2>2. paid \in {Paid(b) : b \in AllBodies \cup {NoBody}} \cup {<<>>}
    <3>1. Body(r) \in AllBodies \cup {NoBody}
      BY <1>3 DEF Body, Delivery
    <3> QED
      BY <2>1, <3>1
  <2>3. PICK p : p = [o EXCEPT !.status = "POSTED", !.ledger = "release", !.payouts = paid]
    OBVIOUS
  <2>4. p \in Obligation
    BY <2>2, <2>3 DEF Obligation, Statuses
  <2>5. /\ p.row = r /\ p.status = "POSTED" /\ p.ledger = "release" /\ p.payouts = paid
        /\ p.outcome = o.outcome
    BY <1>4, <2>3 DEF Obligation
  <2>6. obligation' = [obligation EXCEPT ![k] = p]
    BY <1>3, <1>4, <1>9, <2>1, <2>3
  <2>7. p.status \in After(o.status)
    BY <1>9, <2>5 DEF After
  <2>8. /\ Grows /\ obligation' \in [Keys -> Obligation \cup {NoObligation}] /\ obligation'[k] = p
        /\ \A l \in Keys : l # k => obligation'[l] = obligation[l]
        /\ Stands(r, "POSTED")'
    <3>1. /\ Grows /\ obligation' \in [Keys -> Obligation \cup {NoObligation}] /\ obligation'[k] = p
          /\ \A l \in Keys : l # k => obligation'[l] = obligation[l]
          /\ Stands(o.row, p.status)'
      BY <1>2, <1>4, <2>4, <2>5, <2>6, <2>7, ObligationMoves
    <3>2. Stands(r, "POSTED")'
      BY <1>4, <2>5, <3>1 DEF Stands
    <3> QED
      BY <3>1, <3>2
  <2>9. /\ Known(r)' /\ Owns(r)' /\ Payable(r)' /\ Postable(r)' /\ paid = Paid(Body(r))'
        /\ Posted(r)'
    BY <1>6, <1>9, <2>1, <2>8, KnownGrows, OwnsGrows, PayGrows, PostedGrows
  <2>10. p # NoObligation /\ p.outcome = "hold" /\ "POSTED" \in StatusesOf("hold")
    BY <1>7, <1>9, <2>5, RoyaltyAssumption DEF NoObligation, StatusesOf
  <2>11. ObligationRight(k, p)'
    BY <1>2, <1>6, <1>7, <1>9, <2>5, <2>9, <2>10 DEF ObligationRight
  <2>12. ObligationRight(k, obligation[k])'
    BY <2>8, <2>11 DEF ObligationRight
  <2>13. BooksMove
    BY <1>2, <1>3, <1>9, <2>8, <2>12 DEF BooksMove
  <2>14. HandlersMove /\ JobsMove
    BY <1>1, <1>2, <1>4, <1>9, <2>8, KeepMoves DEF Statuses
  <2> QED
    BY <1>2, <1>5, <2>8, <2>13, <2>14, RoyaltyStays, RoyaltyStep
<1>10. CASE /\ o.status = "POSTED" /\ Keep(h, "release", r, "POSTED")
            /\ UNCHANGED <<obligation, released, torn>>
  <2>1. Grows
    BY <1>2, <1>5, <1>10, GrowsOf
  <2>2. Stands(r, "POSTED")
    BY <1>1, <1>4, <1>10 DEF Stands, After, Statuses
  <2>3. Stands(r, "POSTED")'
    BY <2>1, <2>2, StandsGrows DEF RoyaltyIInv
  <2>4. HandlersMove /\ JobsMove
    BY <1>1, <1>2, <1>4, <1>10, <2>3, KeepMoves DEF Statuses
  <2> QED
    BY <1>2, <1>5, <1>10, <2>1, <2>4, RoyaltyStays, RoyaltyStep
<1> QED
  BY <1>1, <1>4, <1>8, <1>9, <1>10 DEF release_obligation, Releasable, Postable, Paid

LEMMA ReverseStep ==
    ASSUME RoyaltyIInv, NEW h \in Handlers, NEW r \in Rows, NEW x \in ReversalKeys,
           reverse_obligation(h, r, x)
    PROVE  RoyaltyIInv'
<1>1. PICK k \in Keys : k = KeyOf[r]
  BY RoyaltyAssumption
<1>2. /\ UNCHANGED <<outbox, sender, claim, receipts, job, posting, poster, released, sent, torn>>
      /\ handler[h].pc = "idle"
  BY DEF reverse_obligation, lyrica, claims, past, At
<1>3. /\ obligation \in [Keys -> Obligation \cup {NoObligation}] /\ released \subseteq Keys
      /\ posting \in [Keys -> {"none", "allow", "hold"}]
      /\ reversal \in [ReversalKeys -> Rows \cup {NoRow}]
      /\ poster \in [Keys -> Rows \cup {NoRow}]
      /\ sent \in [Rows -> SUBSET {"allow", "hold", "block"}]
  BY DEF RoyaltyIInv, RoyaltyShape
<1>4. LyricaMoves
  BY <1>2, RoyaltyStays
<1>5. CASE /\ reversal[x] # NoRow
           /\ Keep(h, "reverse", reversal[x], obligation[KeyOf[reversal[x]]].status)
           /\ UNCHANGED <<obligation, reversal>>
  <2>1. PICK q \in Rows : q = reversal[x] /\ Stands(q, "REVERSED")
    BY <1>3, <1>5 DEF RoyaltyIInv, Stands
  <2>2. PICK l \in Keys : l = KeyOf[q]
    BY RoyaltyAssumption
  <2>3. obligation[l].status = "REVERSED" /\ obligation[l].row = q
    BY <2>1, <2>2 DEF Stands, After
  <2>4. PICK o \in Obligation : o = obligation[l]
    BY <1>3, <2>3, RoyaltyAssumption DEF NoObligation
  <2>5. Grows
    BY <1>2, <1>4, <1>5, GrowsOf
  <2>6. Stands(q, "REVERSED")'
    BY <2>1, <2>5, StandsGrows DEF RoyaltyIInv
  <2>7. Keep(h, "reverse", q, "REVERSED")
    BY <1>5, <2>1, <2>2, <2>3
  <2>8. HandlersMove /\ JobsMove
    BY <1>2, <2>2, <2>4, <2>6, <2>7, KeepMoves DEF Statuses
  <2> QED
    BY <1>2, <1>4, <1>5, <2>5, <2>8, RoyaltyStays, RoyaltyStep
<1>6. CASE UNCHANGED <<obligation, reversal, handler>>
  <2>1. Grows
    BY <1>2, <1>4, <1>6, GrowsOf
  <2> QED
    BY <1>2, <1>4, <1>6, <2>1, RoyaltyStays, RoyaltyStep
<1>7. CASE /\ obligation[k].row = r /\ obligation[k].status # "REVERSED" /\ obligation[k].ledger # "none"
           /\ obligation' = [obligation EXCEPT ![k].status = "REVERSED"]
           /\ reversal' = [reversal EXCEPT ![x] = r]
           /\ Keep(h, "reverse", r, "REVERSED")
  <2>1. PICK o \in Obligation : o = obligation[k] /\ o # NoObligation /\ ObligationRight(k, o) /\ o.row = r
    BY <1>3, <1>7, RoyaltyAssumption DEF NoObligation, RoyaltyIInv
  <2>2. /\ KeyOf[r] = k /\ Known(r) /\ Owns(r) /\ Payable(r) /\ Told(o.outcome) \in sent[r]
        /\ o.status # "BLOCKED" => Posted(r)
        /\ o.payouts \in {<<>>, Paid(Body(r))}
        /\ o.status \in StatusesOf(o.outcome) /\ o.outcome \in Outcomes
        /\ o.outcome = "hold" /\ o.payouts # <<>> => k \in released
        /\ k \in released => o.outcome = "hold" /\ Postable(r)
    BY <2>1 DEF ObligationRight, Obligation
  <2>3. PICK p : p = [o EXCEPT !.status = "REVERSED"]
    OBVIOUS
  <2>4. p \in Obligation
    BY <2>3 DEF Obligation, Statuses
  <2>5. /\ p.row = r /\ p.status = "REVERSED" /\ p.ledger = o.ledger /\ p.payouts = o.payouts
        /\ p.outcome = o.outcome
    BY <2>1, <2>3 DEF Obligation
  <2>6. obligation' = [obligation EXCEPT ![k] = p]
    BY <1>3, <1>7, <2>1, <2>3
  <2>7. o.status # "BLOCKED" /\ o.outcome \in {"allow", "hold"}
    <3>1. o.status # "BLOCKED"
      <4>1. o.status = "BLOCKED" => o.ledger = "none"
        BY <2>1 DEF ObligationRight
      <4> QED
        BY <1>7, <2>1, <4>1
    <3> QED
      BY <2>2, <3>1 DEF StatusesOf, Outcomes
  <2>8. p.status \in After(o.status) /\ p.status \in StatusesOf(p.outcome)
    BY <2>1, <2>5, <2>7 DEF After, StatusesOf, Obligation, Statuses
  <2>9. /\ Grows /\ obligation' \in [Keys -> Obligation \cup {NoObligation}] /\ obligation'[k] = p
        /\ \A l \in Keys : l # k => obligation'[l] = obligation[l]
        /\ Stands(r, "REVERSED")'
    <3>1. /\ Grows /\ obligation' \in [Keys -> Obligation \cup {NoObligation}] /\ obligation'[k] = p
          /\ \A l \in Keys : l # k => obligation'[l] = obligation[l]
          /\ Stands(o.row, p.status)'
      BY <1>2, <2>1, <2>4, <2>5, <2>6, <2>8, ObligationMoves
    <3>2. Stands(r, "REVERSED")'
      BY <2>1, <2>5, <3>1 DEF Stands
    <3> QED
      BY <3>1, <3>2
  <2>10. /\ Known(r)' /\ Owns(r)' /\ Payable(r)' /\ (Posted(r) => Posted(r)')
         /\ Postable(r) => Postable(r)'
         /\ Paid(Body(r))' = Paid(Body(r))
    BY <2>2, <2>9, KnownGrows, OwnsGrows, PayGrows, PostedGrows
  <2>11. p # NoObligation /\ p.ledger # "none"
    BY <1>7, <2>1, <2>5, RoyaltyAssumption DEF NoObligation
  <2>12. ObligationRight(k, p)'
    BY <1>2, <2>2, <2>5, <2>7, <2>8, <2>10, <2>11 DEF ObligationRight
  <2>13. ObligationRight(k, obligation[k])'
    BY <2>9, <2>12 DEF ObligationRight
  <2>14. /\ reversal' \in [ReversalKeys -> Rows \cup {NoRow}] /\ reversal'[x] = r
         /\ \A y \in ReversalKeys : y # x => reversal'[y] = reversal[y]
    BY <1>3, <1>7
  <2>15. Stands(reversal[x], "REVERSED")'
    BY <2>9, <2>14 DEF Stands
  <2>16. BooksMove
    BY <1>2, <1>3, <2>9, <2>13, <2>14, <2>15 DEF BooksMove
  <2>17. HandlersMove /\ JobsMove
    BY <1>1, <1>2, <1>7, <2>1, <2>9, KeepMoves DEF Statuses
  <2> QED
    BY <1>2, <1>4, <2>9, <2>16, <2>17, RoyaltyStays, RoyaltyStep
<1> QED
  BY <1>1, <1>5, <1>6, <1>7 DEF reverse_obligation

-----------------------------------------------------------------------------
(* The royalty loop: the theorems. *)

LEMMA RoyaltyInit ==
    ASSUME Init
    PROVE  RoyaltyIInv
<1>1. Idle \in Request /\ Free \in Task
  BY DEF Idle, Request, Free, Task
<1>2. [state |-> "none", body |-> NoBody] \in Delivery
  BY DEF Delivery
<1>3. [status |-> "NONE", row |-> NoRow, receipt |-> NoReceipt] \in ClaimRow
  BY DEF ClaimRow
<1>4. RoyaltyShape
  BY <1>1, <1>2, <1>3 DEF Init, RoyaltyShape, Attempt
<1>5. \A h \in Handlers : HandlerRight(handler[h])
  BY DEF Init, HandlerRight, Idle, Ingesting, PastClaim, FailCode
<1>6. \A s \in Slots : JobRight(job[s]) /\ CallRight(s)
  BY DEF Init, JobRight, CallRight, Free
<1>7. /\ \A c \in Claims : ClaimRight(c)
      /\ \A k \in Keys : PostingRight(k) /\ ObligationRight(k, obligation[k])
  BY DEF Init, ClaimRight, PostingRight, ObligationRight
<1>8. \A r \in Rows : OutboxRight(r)
  BY DEF Init, OutboxRight, Body
<1> QED
  BY <1>4, <1>5, <1>6, <1>7, <1>8 DEF Init, RoyaltyIInv

LEMMA RoyaltyNext ==
    ASSUME RoyaltyIInv, [Next]_vars
    PROVE  RoyaltyIInv'
<1>1. CASE \/ \E r \in Rows : \/ \E b \in Bodies[r] : enqueue(r, b)
                              \/ ConnectionRefused(r) \/ GrowStale(r)
           \/ (\E t \in Tenants : StopWaiting(t) \/ RegisterTenant(t))
           \/ (\E c \in Claims : Age(c)) \/ UNCHANGED vars
  BY <1>1, LyricaStep
<1>2. ASSUME NEW r \in Rows, NEW h \in Handlers, SendRow(r, h) \/ release_obligation(h, r)
      PROVE  RoyaltyIInv'
  BY <1>2, SendStep, ReleaseStep
<1>3. ASSUME NEW r \in Rows, NEW h \in Handlers, NEW x \in ReversalKeys, reverse_obligation(h, r, x)
      PROVE  RoyaltyIInv'
  BY <1>3, ReverseStep
<1>4. ASSUME NEW h \in Handlers, Work(h) \/ DecisionFails(h) \/ StoreFails(h)
      PROVE  RoyaltyIInv'
  BY <1>4, VerifyStep, ClaimStep, FailStep, DecideStep, SaveReceiptStep, CompleteStep, IngestStep,
     FailClaimStep, OperationReceiptStep DEF Work
<1>5. ASSUME NEW h \in Handlers, NEW s \in Slots, GatewayTimesOut(h, s)
      PROVE  RoyaltyIInv'
  BY <1>5, TimeOutStep
<1>6. ASSUME NEW s \in Slots, Serve(s)
      PROVE  RoyaltyIInv'
  BY <1>6, LookUpStep, PostStep, InsertStep DEF Serve
<1>7. CASE GatewayRestarts \/ ServiceRestarts
  BY <1>7, GatewayRestartStep, ServiceRestartStep
<1> QED
  BY <1>1, <1>2, <1>3, <1>4, <1>5, <1>6, <1>7 DEF Next

\* The royalty loop keeps its inductive invariant over every interleaving of
\* Lyrica, the gateway and the transaction service with timeouts and restarts.
THEOREM RoyaltyIsInductive == Spec => []RoyaltyIInv
<1>1. Init => RoyaltyIInv
  BY RoyaltyInit
<1>2. RoyaltyIInv /\ [Next]_vars => RoyaltyIInv'
  BY RoyaltyNext
<1> QED
  BY <1>1, <1>2, PTL DEF Spec

\* The tables of the gateway and the transaction service have their types.
THEOREM RoyaltyTypeCorrect == Spec => []TypeOK
<1>1. ASSUME RoyaltyIInv PROVE TypeOK
  <2>1. RoyaltyShape
    BY <1>1 DEF RoyaltyIInv
  <2>2. ASSUME NEW r \in Rows
        PROVE  outbox[r] \in [state : Settled \cup {"none", "pending", "sent"},
                              body : Bodies[r] \cup {NoBody}]
    <3>1. outbox[r].body \in Bodies[r] \cup {NoBody}
      BY <1>1 DEF RoyaltyIInv, OutboxRight, Body
    <3> QED
      BY <2>1, <3>1 DEF RoyaltyShape, Delivery
  <2>3. /\ \A c \in Claims :
             /\ claim[c].status \in {"NONE", "PROCESSING", "COMPLETED", "FAILED"}
             /\ claim[c].receipt \in Receipt \cup {NoReceipt}
        /\ \A k \in Keys :
             obligation[k].status \in {"none", "POSTED", "HELD", "BLOCKED", "REVERSED"}
    BY <2>1 DEF RoyaltyShape, ClaimRow, Obligation, NoObligation, Statuses
  <2>4. ASSUME NEW h \in Handlers
        PROVE  handler[h].pc \in {"idle", "verify", "claim", "decide", "waiting", "save", "complete",
                                  "truth", "release", "reverse"} \cup DOMAIN FailCode
    BY <2>1 DEF RoyaltyShape, Request, Ingesting
  <2>5. ASSUME NEW s \in Slots PROVE job[s].pc \in {"free", "lookup", "post", "insert"}
    BY <2>1 DEF RoyaltyShape, Task
  <2> QED
    BY <2>1, <2>2, <2>3, <2>4, <2>5 DEF TypeOK, RoyaltyShape, Attempt
<1> QED
  BY <1>1, RoyaltyIsInductive, PTL

\* One payload per key from end to end: a COMPLETED claim names a stored receipt
\* of its payload, the obligation is of a payload its tenant claimed the key for,
\* every receipt under a key is of the obligation's payload whoever else used the
\* key, and Lyrica's row is receipted only with a stored receipt
\* (claim_idempotency, createObligation, _attempt_one).
THEOREM RoyaltyOnePayloadPerKey == Spec => []OnePayloadPerKey
<1>1. ASSUME RoyaltyIInv PROVE OnePayloadPerKey
  <2>1. ASSUME NEW c \in Claims, claim[c].status = "COMPLETED"
        PROVE  claim[c].receipt \in receipts /\ claim[c].receipt.row = claim[c].row
    BY <1>1, <2>1 DEF RoyaltyIInv, ClaimRight
  <2>2. ASSUME NEW k \in Keys, obligation[k] # NoObligation
        PROVE  claim[ClaimOf(obligation[k].row)].row = obligation[k].row
    BY <1>1, <2>2 DEF RoyaltyIInv, ObligationRight, Owns
  <2>4. ASSUME NEW c \in receipts PROVE obligation[KeyOf[c.row]].row = c.row
    BY <1>1 DEF RoyaltyIInv, ReceiptRight, Stands
  <2>3. ASSUME NEW r \in Rows, outbox[r].state = "receipted"
        PROVE  \E c \in receipts : c.row = r /\ c.op = "create"
    BY <1>1, <2>3 DEF RoyaltyIInv, OutboxRight, HasReceipt
  <2> QED
    BY <2>1, <2>2, <2>3, <2>4 DEF OnePayloadPerKey
<1> QED
  BY <1>1, RoyaltyIsInductive, PTL

\* Two outcomes of an event that was decided one way are the same.
LEMMA AgreedIsOne ==
    ASSUME RoyaltyShape, NEW k \in Rows, AgreedOn(k), NEW a \in sent[k], NEW b \in sent[k]
    PROVE  a = b
<1> SUFFICES ASSUME a # b PROVE FALSE
  OBVIOUS
<1>1. PICK all : all = {"allow", "hold", "block"}
  OBVIOUS
<1>2. IsFiniteSet(all)
  <2>1. PICK one, two : one = {"allow"} /\ two = {"allow", "hold"}
    OBVIOUS
  <2>2. IsFiniteSet(one)
    BY <2>1, FS_Singleton
  <2>3. two = one \cup {"hold"} /\ all = two \cup {"block"}
    BY <1>1, <2>1
  <2>4. IsFiniteSet(two)
    BY <2>2, <2>3, FS_AddElement
  <2> QED
    BY <2>3, <2>4, FS_AddElement
<1>3. PICK T : T = sent[k] /\ T \subseteq all
  BY <1>1 DEF RoyaltyShape
<1>4. IsFiniteSet(T)
  BY <1>2, <1>3, FS_Subset
<1>5. PICK one, two : one = {a} /\ two = one \cup {b}
  OBVIOUS
<1>6. IsFiniteSet(one) /\ Cardinality(one) = 1 /\ b \notin one
  BY <1>5, FS_Singleton
<1>7. Cardinality(two) = 2
  <2>1. Cardinality(one \cup {b}) = Cardinality(one) + 1
    BY <1>6, FS_AddElement
  <2> QED
    BY <1>5, <1>6, <2>1
<1>8. Cardinality(two) <= Cardinality(T)
  BY <1>3, <1>4, <1>5, FS_Subset
<1>9. Cardinality(T) <= 1 /\ Cardinality(T) \in Nat
  BY <1>3, <1>4, FS_CardinalityType DEF AgreedOn
<1> QED
  BY <1>7, <1>8, <1>9

\* The books follow the obligations over takeovers, retries, crashes and tenants
\* that share a key: an obligation's posting is its own event's, and an event
\* that is decided one way credits its creators once when it is POSTED, never
\* when it is BLOCKED, and while it is HELD only by a release whose commit failed
\* (createObligation, releaseObligation, _build_receipt).
THEOREM RoyaltyBooksFollow == Spec => []BooksFollowObligations
<1>1. ASSUME RoyaltyIInv PROVE BooksFollowObligations
  <2>1. RoyaltyShape
    BY <1>1 DEF RoyaltyIInv
  <2>2. ASSUME NEW k \in Keys
        PROVE  IF obligation[k] = NoObligation THEN Credits(k) <= 1 ELSE BooksOf(k)
    <3>1. PICK o \in Obligation \cup {NoObligation} : o = obligation[k] /\ ObligationRight(k, o)
      BY <1>1, <2>1 DEF RoyaltyIInv, RoyaltyShape
    <3>2. posting[k] \in {"none", "allow", "hold"} /\ PostingRight(k)
      BY <1>1, <2>1 DEF RoyaltyIInv, RoyaltyShape
    <3>3. CASE o = NoObligation
      BY <3>1, <3>2, <3>3 DEF Credits, ObligationRight
    <3>4. CASE o # NoObligation
      <4>1. /\ Told(o.outcome) \in sent[o.row] /\ o.status \in StatusesOf(o.outcome)
            /\ o.status # "BLOCKED" => posting[k] # "none" /\ poster[k] = o.row
            /\ o.outcome = "hold" /\ o.status = "POSTED" => k \in released
            /\ k \in released => o.outcome = "hold"
            /\ k \in released /\ o.status = "HELD" => k \in torn
            /\ o.outcome \in Outcomes /\ o.row \in Rows /\ o.row # NoRow
        BY <3>1, <3>4, RoyaltyAssumption DEF ObligationRight, Obligation, Posted
      <4>2. ASSUME AgreedOn(o.row), poster[k] = o.row PROVE posting[k] = Told(o.outcome)
        <5>1. posting[k] \in sent[o.row]
          BY <3>2, <4>1, <4>2 DEF PostingRight, MadeFor
        <5> QED
          BY <2>1, <4>1, <4>2, <5>1, AgreedIsOne
      <4>3. CASE o.outcome = "allow"
        <5>1. o.status \in {"POSTED", "REVERSED"} /\ Told(o.outcome) = "allow"
          BY <4>1, <4>3 DEF StatusesOf, Told
        <5> QED
          BY <3>1, <3>2, <4>1, <4>2, <4>3, <5>1 DEF Credits, BooksOf
      <4>4. CASE o.outcome = "hold"
        <5>1. o.status \in {"HELD", "POSTED", "REVERSED"} /\ Told(o.outcome) = "hold"
          BY <4>1, <4>4 DEF StatusesOf, Told
        <5>2. posting[k] # "none" /\ poster[k] = o.row /\ o.status # "BLOCKED"
          BY <4>1, <5>1
        <5>3. AgreedOn(o.row) => posting[k] = "hold"
          BY <4>2, <5>1, <5>2
        <5>4. AgreedOn(o.row) => Credits(k) = IF k \in released THEN 1 ELSE 0
          BY <5>3 DEF Credits
        <5>5. AgreedOn(o.row) => Credits(k) <= 1 /\ (o.status = "POSTED" => Credits(k) = 1)
          BY <4>1, <4>4, <5>4
        <5> QED
          BY <3>1, <3>4, <4>1, <5>2, <5>3, <5>5 DEF BooksOf
      <4>5. CASE o.outcome \in {"block", "disowned"}
        <5>1. o.status = "BLOCKED" /\ Told(o.outcome) = "block"
          BY <4>1, <4>5 DEF StatusesOf, Told
        <5> QED
          BY <3>1, <3>2, <4>1, <4>2, <4>5, <5>1 DEF Credits, BooksOf
      <4> QED
        BY <3>1, <3>4, <4>1, <4>3, <4>4, <4>5 DEF Outcomes
    <3> QED
      BY <3>3, <3>4
  <2>3. ASSUME NEW k \in Keys, NEW c \in receipts, KeyOf[c.row] = k
        PROVE  obligation[k].status \in
                 CASE c.status = "paid" -> {"POSTED", "REVERSED"}
                   [] c.status = "held" -> {"HELD", "POSTED", "REVERSED"}
                   [] c.status = "blocked" -> {"BLOCKED"}
                   [] c.status = "reversed" -> {"REVERSED"}
    <3>1. PICK status \in Statuses : c.status = ReceiptStatus(status) /\ Stands(c.row, status)
      BY <1>1 DEF RoyaltyIInv, ReceiptRight
    <3>2. obligation[k].status \in After(status)
      BY <2>3, <3>1 DEF Stands
    <3>3. CASE status = "POSTED"
      BY <3>1, <3>2, <3>3 DEF After, ReceiptStatus
    <3>4. CASE status = "HELD"
      BY <3>1, <3>2, <3>4 DEF After, ReceiptStatus
    <3>5. CASE status = "BLOCKED"
      BY <3>1, <3>2, <3>5 DEF After, ReceiptStatus
    <3>6. CASE status = "REVERSED"
      BY <3>1, <3>2, <3>6 DEF After, ReceiptStatus
    <3> QED
      BY <3>3, <3>4, <3>5, <3>6 DEF Statuses
  <2> QED
    BY <2>2, <2>3 DEF BooksFollowObligations
<1> QED
  BY <1>1, RoyaltyIsInductive, PTL

-----------------------------------------------------------------------------
(* The royalty money: who gets the leftover cents. *)

\* The share of split i, its whole cents and what is left of it.
Exact(cents, splits, i) == cents * splits[i].bps
Whole(cents, splits, i) == Exact(cents, splits, i) \div BPS_DENOMINATOR
Part(cents, splits, i) == Exact(cents, splits, i) % BPS_DENOMINATOR

\* One split for each owner, and the shares are all of the amount.
FairSplits(cents, splits) ==
    /\ cents \in Nat /\ splits \in Seq(Split) /\ splits_sum_to_10000(splits)
    /\ Cardinality(Owners(splits)) = Len(splits)

Divides(x, w, r) == x = BPS_DENOMINATOR * w + r /\ r < BPS_DENOMINATOR
WithinACent(z) == z \in 1 - BPS_DENOMINATOR .. BPS_DENOMINATOR - 1

LEMMA Denominator == BPS_DENOMINATOR \in Nat /\ BPS_DENOMINATOR >= 1
BY DEF BPS_DENOMINATOR

LEMMA Divided ==
    ASSUME NEW x \in Nat
    PROVE  \E a, b \in Nat :
             /\ a = x \div BPS_DENOMINATOR /\ b = x % BPS_DENOMINATOR /\ Divides(x, a, b)
<1>1. x \div 10000 \in Nat /\ x % 10000 \in 0 .. 9999
  OBVIOUS
<1>2. PICK a, b \in Nat : a = x \div 10000 /\ b = x % 10000
  BY <1>1
<1>3. x = 10000 * a + b /\ b < 10000
  BY <1>2
<1> QED
  BY <1>2, <1>3 DEF Divides, BPS_DENOMINATOR

\* The arithmetic of the three arguments below.
LEMMA TooFewParts ==
    ASSUME NEW B \in Nat, B >= 1, NEW p \in Nat, NEW left \in Int, p < left
    PROVE  ~(B * left <= (B - 1) * p)
<1>1. PICK m \in Nat : left = p + 1 + m
  <2>1. left - p - 1 \in Nat /\ left = p + 1 + (left - p - 1)
    OBVIOUS
  <2> QED
    BY <2>1
<1>2. PICK n \in Nat : B = n + 1
  <2>1. B - 1 \in Nat /\ B = (B - 1) + 1
    OBVIOUS
  <2> QED
    BY <2>1
<1>3. PICK np, nm \in Nat : np = n * p /\ nm = n * m
  BY <1>1, <1>2
<1>4. (n + 1) * (p + 1 + m) = np + n + nm + p + 1 + m /\ (B - 1) * p = np
  BY <1>1, <1>2, <1>3
<1> QED
  BY <1>1, <1>2, <1>3, <1>4

LEMMA NeverShort ==
    ASSUME NEW B \in Nat, B >= 1, NEW left \in Int, B * left \in Nat
    PROVE  left \in Nat
<1> SUFFICES ASSUME left < 0 PROVE FALSE
  OBVIOUS
<1>1. PICK m \in Nat : left = 0 - (m + 1)
  <2>1. 0 - left - 1 \in Nat /\ left = 0 - ((0 - left - 1) + 1)
    OBVIOUS
  <2> QED
    BY <2>1
<1>2. PICK n \in Nat : n = B * m
  BY <1>1
<1>3. B * left = 0 - (n + B)
  BY <1>1, <1>2
<1> QED
  BY <1>2, <1>3

LEMMA OneCentMore ==
    ASSUME NEW w \in Nat, NEW r \in Nat, NEW x \in Nat, Divides(x, w, r)
    PROVE  WithinACent(w * BPS_DENOMINATOR - x) /\ (r > 0 => WithinACent((w + 1) * BPS_DENOMINATOR - x))
<1>1. PICK B \in Nat : B = BPS_DENOMINATOR /\ B >= 1
  BY Denominator
<1>2. PICK n \in Nat : n = B * w
  BY <1>1
<1>3. x = n + r /\ r < B
  BY <1>1, <1>2 DEF Divides
<1>4. w * B = n /\ (w + 1) * B = n + B
  BY <1>1, <1>2
<1>5. w * B - x \in 1 - B .. B - 1 /\ (r > 0 => (w + 1) * B - x \in 1 - B .. B - 1)
  BY <1>1, <1>2, <1>3, <1>4
<1> QED
  BY <1>1, <1>5 DEF WithinACent

LEMMA DividesInOrder ==
    ASSUME NEW x \in Nat, NEW w \in Nat, NEW r \in Nat, Divides(x, w, r),
           NEW y \in Nat, NEW v \in Nat, NEW q \in Nat, Divides(y, v, q), x >= y
    PROVE  w >= v /\ (w = v => r >= q)
<1>1. PICK B \in Nat : B = BPS_DENOMINATOR /\ B >= 1
  BY Denominator
<1>2. x = B * w + r /\ y = B * v + q /\ r < B /\ q < B
  BY <1>1 DEF Divides
<1>3. ASSUME w < v PROVE FALSE
  <2>1. PICK m \in Nat : v = w + 1 + m
    <3>1. v - w - 1 \in Nat /\ v = w + 1 + (v - w - 1)
      BY <1>3
    <3> QED
      BY <3>1
  <2>2. PICK bw, bm \in Nat : bw = B * w /\ bm = B * m
    BY <1>1, <2>1
  <2>3. B * (w + 1 + m) = bw + B + bm
    BY <1>1, <2>1, <2>2
  <2> QED
    BY <1>1, <1>2, <2>1, <2>2, <2>3
<1>4. ASSUME w = v PROVE r >= q
  <2>1. PICK n \in Nat : n = B * w
    BY <1>1
  <2>2. x = n + r /\ y = n + q
    BY <1>2, <1>4, <2>1
  <2> QED
    BY <2>1, <2>2
<1> QED
  BY <1>3, <1>4

LEMMA SplitTypes ==
    ASSUME NEW cents, NEW splits, FairSplits(cents, splits)
    PROVE  /\ cents \in Nat /\ IsFiniteSet(DOMAIN splits) /\ Cardinality(DOMAIN splits) = Len(splits)
           /\ \A i \in DOMAIN splits :
                i \in Nat /\ splits[i].owner \in Nat /\ splits[i].bps \in Nat
<1>1. DOMAIN splits = 1 .. Len(splits) /\ Len(splits) \in Nat
  BY DEF FairSplits
<1>2. PICK n \in Nat : n = Len(splits)
  BY <1>1, Zenon
<1>3. IsFiniteSet(1 .. n) /\ Cardinality(1 .. n) = n
  <2>1. 1 \in Int /\ n \in Int /\ 1 <= n + 1 /\ n - 1 + 1 = n
    OBVIOUS
  <2> QED
    BY <2>1, FS_Interval
<1>4. \A i \in DOMAIN splits : splits[i] \in Split
  BY DEF FairSplits
<1> QED
  BY <1>1, <1>2, <1>3, <1>4 DEF Split, FairSplits

LEMMA OwnersDiffer ==
    ASSUME NEW cents, NEW splits, FairSplits(cents, splits)
    PROVE  \A i, j \in DOMAIN splits : splits[i].owner = splits[j].owner => i = j
<1>1. PICK D, T, own : /\ D = DOMAIN splits /\ T = Owners(splits)
                       /\ own = [i \in D |-> splits[i].owner]
  OBVIOUS
<1>2. IsFiniteSet(D) /\ Cardinality(D) = Cardinality(T)
  BY <1>1, SplitTypes DEF FairSplits
<1>3. own \in Surjection(D, T)
  BY <1>1 DEF Surjection, Owners
<1>4. own \in Injection(D, T)
  BY <1>2, <1>3, FS_SurjSameCardinalityImpliesInj
<1>5. \A i, j \in D : own[i] = own[j] => i = j
  BY <1>4 DEF Injection, IsInjective
<1> QED
  BY <1>1, <1>5

\* With one split for each owner the dictionaries hold its own share.
LEMMA OwnShare ==
    ASSUME NEW cents, NEW splits, FairSplits(cents, splits), NEW i \in DOMAIN splits
    PROVE  /\ bps_by_owner(splits, splits[i].owner) = splits[i].bps
           /\ floored(cents, splits, splits[i].owner) = Whole(cents, splits, i)
           /\ remainder(cents, splits, splits[i].owner) = Part(cents, splits, i)
<1>1. {j \in DOMAIN splits : splits[j].owner = splits[i].owner} = {i}
  BY OwnersDiffer
<1>2. i \in Nat
  BY SplitTypes
<1>3. Max({i}) = i
  BY <1>2 DEF Max
<1>4. bps_by_owner(splits, splits[i].owner) = splits[i].bps
  BY <1>1, <1>3 DEF bps_by_owner
<1> QED
  BY <1>4 DEF floored, remainder, Whole, Part, Exact

LEMMA ShareTypes ==
    ASSUME NEW cents, NEW splits, FairSplits(cents, splits), NEW i \in DOMAIN splits
    PROVE  \E x, w, r \in Nat :
             /\ x = Exact(cents, splits, i) /\ w = Whole(cents, splits, i)
             /\ r = Part(cents, splits, i) /\ Divides(x, w, r) /\ x = cents * splits[i].bps
<1>1. splits[i].bps \in Nat /\ cents \in Nat
  BY SplitTypes
<1>2. PICK x \in Nat : x = cents * splits[i].bps
  BY <1>1
<1>3. PICK a, b \in Nat :
             /\ a = x \div BPS_DENOMINATOR /\ b = x % BPS_DENOMINATOR /\ Divides(x, a, b)
  BY Divided
<1> QED
  BY <1>2, <1>3 DEF Whole, Part, Exact

\* The cents that are left are the parts that are left.
LEMMA LeftoverIs ==
    ASSUME NEW cents, NEW splits, FairSplits(cents, splits),
           NEW P, P = {i \in DOMAIN splits : Part(cents, splits, i) > 0}
    PROVE  \E left \in Nat :
             /\ left = leftover_cents(cents, splits)
             /\ BPS_DENOMINATOR * left <= (BPS_DENOMINATOR - 1) * Cardinality(P)
             /\ cents = left + SumFunctionOnSet([i \in DOMAIN splits |-> Whole(cents, splits, i)],
                                               DOMAIN splits)
<1>1. PICK D : D = DOMAIN splits
  OBVIOUS
<1>2. IsFiniteSet(D) /\ cents \in Nat /\ BPS_DENOMINATOR \in Nat /\ BPS_DENOMINATOR - 1 \in Nat
  BY <1>1, SplitTypes, Denominator
<1> DEFINE own == [i \in D |-> splits[i].owner]
           bps == [i \in D |-> splits[i].bps]
           exact == [i \in D |-> Exact(cents, splits, i)]
           whole == [i \in D |-> Whole(cents, splits, i)]
           tens == [i \in D |-> BPS_DENOMINATOR * Whole(cents, splits, i)]
           part == [i \in D |-> Part(cents, splits, i)]
<1>4. ASSUME NEW i \in D
      PROVE  /\ bps[i] \in Int /\ exact[i] = cents * bps[i]
             /\ whole[i] \in Int /\ tens[i] = BPS_DENOMINATOR * whole[i] /\ tens[i] \in Int
             /\ part[i] \in Int /\ part[i] \in 0 .. BPS_DENOMINATOR - 1
             /\ exact[i] = tens[i] + part[i]
  <2>1. PICK x, w, r \in Nat :
          /\ x = Exact(cents, splits, i) /\ w = Whole(cents, splits, i) /\ r = Part(cents, splits, i)
          /\ Divides(x, w, r) /\ x = cents * splits[i].bps
    BY <1>1, ShareTypes
  <2>2. splits[i].bps \in Int
    BY <1>1, SplitTypes
  <2>3. /\ exact[i] = x /\ whole[i] = w /\ part[i] = r /\ bps[i] = splits[i].bps
        /\ tens[i] = BPS_DENOMINATOR * w
    BY <2>1
  <2> HIDE DEF bps, exact, whole, tens, part
  <2> QED
    BY <1>2, <2>1, <2>2, <2>3 DEF Divides
<1>5. {own[i] : i \in D} = Owners(splits) /\ \A i, j \in D : own[i] = own[j] => i = j
  BY <1>1, OwnersDiffer DEF Owners
<1>6. /\ \A i \in D : own[i] \in Owners(splits) /\ floored(cents, splits, own[i]) = whole[i]
  BY <1>1, OwnShare DEF Owners
<1>7. SumFunctionOnSet(bps, D) = BPS_DENOMINATOR
  BY <1>1 DEF FairSplits, splits_sum_to_10000, SumFunction
<1>8. /\ P = {i \in D : part[i] > 0}
      /\ whole = [i \in DOMAIN splits |-> Whole(cents, splits, i)]
  BY <1>1
<1> HIDE DEF own, bps, exact, whole, tens, part
<1>9. PICK w \in Int : w = SumFunctionOnSet(whole, D)
  BY <1>2, <1>4, SumInt
<1>10. PICK q \in Int : q = SumFunctionOnSet(part, D)
  BY <1>2, <1>4, SumInt
<1>11. SumFunctionOnSet(exact, D) = cents * BPS_DENOMINATOR
  <2>1. PICK c \in Int : c = cents
    BY <1>2
  <2>2. \A i \in D : bps[i] \in Int /\ exact[i] = c * bps[i]
    BY <1>4, <2>1
  <2>3. SumFunctionOnSet(exact, D) = c * SumFunctionOnSet(bps, D)
    BY <1>2, <2>2, SumScales
  <2> QED
    BY <1>7, <2>1, <2>3
<1>12. SumFunctionOnSet(tens, D) = BPS_DENOMINATOR * w
  BY <1>2, <1>4, <1>9, SumScales
<1>13. SumFunctionOnSet(exact, D) = BPS_DENOMINATOR * w + q
  <2>1. SumFunctionOnSet(exact, D) = SumFunctionOnSet(tens, D) + SumFunctionOnSet(part, D)
    BY <1>2, <1>4, SumPlus
  <2> QED
    BY <1>10, <1>12, <2>1
<1>14. leftover_cents(cents, splits) = cents - w
  <2>1. PICK I : I = Owners(splits)
    OBVIOUS
  <2>2. PICK f : f = [o \in I |-> floored(cents, splits, o)]
    OBVIOUS
  <2>3. \A i \in D : whole[i] \in Int /\ f[own[i]] = whole[i]
    BY <1>4, <1>6, <2>1, <2>2
  <2>4. SumFunctionOnSet(f, {own[i] : i \in D}) = w
    BY <1>2, <1>5, <1>9, <2>3, SumReindexed
  <2>5. DOMAIN f = I
    BY <2>2
  <2> QED
    BY <1>5, <2>1, <2>2, <2>4, <2>5 DEF leftover_cents, SumFunction
<1>15. q <= (BPS_DENOMINATOR - 1) * Cardinality(P)
  <2>1. PICK m \in Nat : m = BPS_DENOMINATOR - 1
    BY <1>2
  <2>2. SumFunctionOnSet(part, D) <= m * Cardinality({i \in D : part[i] > 0})
    BY <1>2, <1>4, <2>1, SumOfFew
  <2> QED
    BY <1>8, <1>10, <2>1, <2>2
<1>16. BPS_DENOMINATOR * (cents - w) = q /\ cents - w \in Int
  <2>1. PICK B, c \in Nat : B = BPS_DENOMINATOR /\ c = cents
    BY <1>2
  <2>2. B * (c - w) = B * c - B * w /\ c * B = B * c
    BY <1>9, <2>1
  <2>3. c * B = B * w + q
    BY <1>11, <1>13, <2>1
  <2>4. B * c \in Int /\ B * w \in Int
    BY <1>9, <2>1
  <2>5. B * (c - w) = q
    BY <1>10, <2>2, <2>3, <2>4
  <2> QED
    BY <1>9, <2>1, <2>5
<1>17. cents - w \in Nat
  <2>1. PICK B \in Nat : B = BPS_DENOMINATOR /\ B >= 1
    BY Denominator
  <2>2. q \in Nat
    <3>1. \A i \in D : part[i] \in Nat
      BY <1>2, <1>4
    <3> QED
      BY <1>2, <1>10, <3>1, SumNat
  <2>3. PICK left \in Int : left = cents - w
    BY <1>16
  <2> QED
    BY <1>16, <2>1, <2>2, <2>3, NeverShort
<1>18. cents = (cents - w) + SumFunctionOnSet(whole, D)
  BY <1>2, <1>9
<1> QED
  BY <1>1, <1>8, <1>14, <1>15, <1>16, <1>17, <1>18

\* The splits that are served before split i.
Ahead(cents, splits, i) ==
    {j \in DOMAIN splits :
        \/ GoesBefore(cents, splits, splits[j].owner, splits[i].owner)
        \/ splits[j].owner = splits[i].owner /\ j < i}

LEMMA PlaceTypes ==
    ASSUME NEW cents, NEW splits, FairSplits(cents, splits), NEW i \in DOMAIN splits
    PROVE  /\ IsFiniteSet(Ahead(cents, splits, i)) /\ Place(cents, splits, i) \in Nat
           /\ Place(cents, splits, i) = Cardinality(Ahead(cents, splits, i))
<1>1. Ahead(cents, splits, i) \subseteq DOMAIN splits
  BY DEF Ahead
<1>2. IsFiniteSet(Ahead(cents, splits, i))
  BY <1>1, SplitTypes, FS_Subset
<1>3. Place(cents, splits, i) = Cardinality(Ahead(cents, splits, i))
  BY DEF Place, Ahead
<1> QED
  BY <1>2, <1>3, FS_CardinalityType

\* Who is ahead has more left of the share, or as much and no smaller a share.
LEMMA AheadMeans ==
    ASSUME NEW cents, NEW splits, FairSplits(cents, splits), NEW i \in DOMAIN splits,
           NEW j \in DOMAIN splits
    PROVE  /\ j \in Ahead(cents, splits, i) =>
                \/ Part(cents, splits, j) > Part(cents, splits, i)
                \/ /\ Part(cents, splits, j) = Part(cents, splits, i)
                   /\ splits[j].bps >= splits[i].bps
           /\ \/ Part(cents, splits, j) > Part(cents, splits, i)
              \/ /\ Part(cents, splits, j) = Part(cents, splits, i)
                 /\ splits[j].bps > splits[i].bps
              => j \in Ahead(cents, splits, i)
<1>1. PICK a, b \in Nat : a = splits[i].bps /\ b = splits[j].bps
  BY SplitTypes
<1>2. PICK o, p \in Nat : o = splits[i].owner /\ p = splits[j].owner
  BY SplitTypes
<1>3. PICK q, r : q = Part(cents, splits, i) /\ r = Part(cents, splits, j)
  OBVIOUS
<1>4. /\ bps_by_owner(splits, o) = a /\ remainder(cents, splits, o) = q
      /\ bps_by_owner(splits, p) = b /\ remainder(cents, splits, p) = r
  BY <1>1, <1>2, <1>3, OwnShare
<1>5. GoesBefore(cents, splits, p, o) <=> (r > q \/ (r = q /\ (b > a \/ (b = a /\ p < o))))
  BY <1>4 DEF GoesBefore
<1>6. p = o => j = i
  BY <1>2, OwnersDiffer
<1>7. ~(i < i)
  BY SplitTypes
<1>8. j \in Ahead(cents, splits, i) <=> GoesBefore(cents, splits, p, o) \/ (p = o /\ j < i)
  BY <1>2 DEF Ahead
<1> QED
  BY <1>1, <1>3, <1>5, <1>6, <1>7, <1>8

\* A split whose share is whole gets no leftover cent.
LEMMA LeftoverNeedsPart ==
    ASSUME NEW cents, NEW splits, FairSplits(cents, splits), NEW i \in DOMAIN splits,
           Place(cents, splits, i) < leftover_cents(cents, splits)
    PROVE  Part(cents, splits, i) > 0
<1>1. PICK x, w, r \in Nat :
        /\ x = Exact(cents, splits, i) /\ w = Whole(cents, splits, i) /\ r = Part(cents, splits, i)
        /\ Divides(x, w, r) /\ x = cents * splits[i].bps
  BY ShareTypes
<1> SUFFICES ASSUME r = 0 PROVE FALSE
  BY <1>1
<1>2. PICK P : P = {j \in DOMAIN splits : Part(cents, splits, j) > 0}
  OBVIOUS
<1>3. PICK S : S = Ahead(cents, splits, i)
  OBVIOUS
<1>4. IsFiniteSet(S) /\ Cardinality(S) \in Nat /\ Place(cents, splits, i) = Cardinality(S)
  BY <1>3, PlaceTypes
<1>5. P \subseteq S
  BY <1>1, <1>2, <1>3, AheadMeans
<1>6. Cardinality(P) <= Cardinality(S) /\ IsFiniteSet(P)
  BY <1>4, <1>5, FS_Subset
<1>7. PICK p, s \in Nat : p = Cardinality(P) /\ s = Cardinality(S)
  BY <1>4, <1>6, FS_CardinalityType
<1>8. PICK left \in Nat :
        /\ left = leftover_cents(cents, splits)
        /\ BPS_DENOMINATOR * left <= (BPS_DENOMINATOR - 1) * Cardinality(P)
  BY <1>2, LeftoverIs
<1>9. s < left /\ p <= s
  BY <1>4, <1>6, <1>7, <1>8
<1>10. p < left /\ BPS_DENOMINATOR * left <= (BPS_DENOMINATOR - 1) * p
  BY <1>7, <1>8, <1>9
<1> QED
  BY <1>7, <1>8, <1>10, Denominator, TooFewParts

LEMMA PaidShare ==
    ASSUME NEW cents, NEW splits, FairSplits(cents, splits), NEW i \in DOMAIN splits
    PROVE  distribute_splits(cents, splits)[i] = Whole(cents, splits, i) +
             (IF Place(cents, splits, i) < leftover_cents(cents, splits) THEN 1 ELSE 0)
<1>1. PICK E : E = {j \in DOMAIN splits :
                     /\ splits[j].owner = splits[i].owner
                     /\ Place(cents, splits, j) < leftover_cents(cents, splits)}
  OBVIOUS
<1>2. distribute_splits(cents, splits)[i] = floored(cents, splits, splits[i].owner) + Cardinality(E)
  BY <1>1 DEF distribute_splits
<1>3. CASE Place(cents, splits, i) < leftover_cents(cents, splits)
  <2>1. E = {i}
    BY <1>1, <1>3, OwnersDiffer
  <2>2. Cardinality(E) = 1
    BY <2>1, FS_Singleton
  <2> QED
    BY <1>2, <1>3, <2>2, OwnShare
<1>4. CASE ~(Place(cents, splits, i) < leftover_cents(cents, splits))
  <2>1. E = {}
    BY <1>1, <1>4, OwnersDiffer
  <2>2. Cardinality(E) = 0
    BY <2>1, FS_EmptySet
  <2> QED
    BY <1>2, <1>4, <2>2, OwnShare
<1> QED
  BY <1>3, <1>4

\* Every owner is within a cent of the exact share.
LEMMA PaidWithinACent ==
    ASSUME NEW cents, NEW splits, FairSplits(cents, splits), NEW i \in DOMAIN splits
    PROVE  WithinACent(distribute_splits(cents, splits)[i] * BPS_DENOMINATOR - cents * splits[i].bps)
<1>1. PICK x, w, r \in Nat :
        /\ x = Exact(cents, splits, i) /\ w = Whole(cents, splits, i) /\ r = Part(cents, splits, i)
        /\ Divides(x, w, r) /\ x = cents * splits[i].bps
  BY ShareTypes
<1>2. PICK d : d = distribute_splits(cents, splits)[i]
  OBVIOUS
<1>3. d = w + (IF Place(cents, splits, i) < leftover_cents(cents, splits) THEN 1 ELSE 0)
  BY <1>1, <1>2, PaidShare
<1>4. CASE Place(cents, splits, i) < leftover_cents(cents, splits)
  <2>1. d = w + 1 /\ r > 0
    BY <1>1, <1>3, <1>4, LeftoverNeedsPart
  <2>2. WithinACent(d * BPS_DENOMINATOR - x)
    BY <1>1, <2>1, OneCentMore
  <2> QED
    BY <1>1, <1>2, <2>2
<1>5. CASE ~(Place(cents, splits, i) < leftover_cents(cents, splits))
  <2>1. d = w
    BY <1>3, <1>5
  <2>2. WithinACent(d * BPS_DENOMINATOR - x)
    BY <1>1, <2>1, OneCentMore
  <2> QED
    BY <1>1, <1>2, <2>2
<1> QED
  BY <1>4, <1>5

\* A larger share is never paid less.
LEMMA PaidInOrder ==
    ASSUME NEW cents, NEW splits, FairSplits(cents, splits), NEW i \in DOMAIN splits,
           NEW j \in DOMAIN splits, splits[i].bps > splits[j].bps
    PROVE  distribute_splits(cents, splits)[i] >= distribute_splits(cents, splits)[j]
<1>1. PICK x, w, r \in Nat :
        /\ x = Exact(cents, splits, i) /\ w = Whole(cents, splits, i) /\ r = Part(cents, splits, i)
        /\ Divides(x, w, r) /\ x = cents * splits[i].bps
  BY ShareTypes
<1>2. PICK y, v, q \in Nat :
        /\ y = Exact(cents, splits, j) /\ v = Whole(cents, splits, j) /\ q = Part(cents, splits, j)
        /\ Divides(y, v, q) /\ y = cents * splits[j].bps
  BY ShareTypes
<1>3. PICK c, a, b \in Nat : c = cents /\ a = splits[i].bps /\ b = splits[j].bps /\ a > b
  BY SplitTypes
<1>4. x >= y
  <2>1. PICK m \in Nat : a = b + m
    <3>1. a - b \in Nat /\ a = b + (a - b)
      BY <1>3
    <3> QED
      BY <3>1
  <2>2. c * m \in Nat /\ c * (b + m) = c * b + c * m /\ c * b \in Nat
    BY <1>3, <2>1
  <2> QED
    BY <1>1, <1>2, <1>3, <2>1, <2>2
<1>5. PICK d, e : d = distribute_splits(cents, splits)[i] /\ e = distribute_splits(cents, splits)[j]
  OBVIOUS
<1>6. /\ d = w + (IF Place(cents, splits, i) < leftover_cents(cents, splits) THEN 1 ELSE 0)
      /\ e = v + (IF Place(cents, splits, j) < leftover_cents(cents, splits) THEN 1 ELSE 0)
  BY <1>1, <1>2, <1>5, PaidShare
<1>7. d \in {w, w + 1} /\ e \in {v, v + 1}
  BY <1>1, <1>2, <1>6
<1>8. w >= v
  BY <1>1, <1>2, <1>4, DividesInOrder
<1>9. CASE w > v
  <2>1. d >= e
    BY <1>1, <1>2, <1>7, <1>9
  <2> QED
    BY <1>5, <2>1
<1>10. CASE w = v
  <2>1. r >= q
    BY <1>1, <1>2, <1>4, <1>10, DividesInOrder
  <2>2. ASSUME NEW k \in Ahead(cents, splits, i) PROVE k \in Ahead(cents, splits, j)
    <3>1. k \in DOMAIN splits
      BY DEF Ahead
    <3>2. PICK g, z \in Nat : g = splits[k].bps /\ z = Part(cents, splits, k)
      BY <3>1, SplitTypes, ShareTypes
    <3>3. z > r \/ (z = r /\ g >= a)
      BY <1>1, <1>3, <2>2, <3>1, <3>2, AheadMeans
    <3>4. z > q \/ (z = q /\ g > b)
      BY <1>1, <1>2, <1>3, <2>1, <3>2, <3>3
    <3> QED
      BY <1>2, <1>3, <3>1, <3>2, <3>4, AheadMeans
  <2>3. PICK S, T : S = Ahead(cents, splits, i) /\ T = Ahead(cents, splits, j)
    OBVIOUS
  <2>4. IsFiniteSet(T) /\ S \subseteq T
    BY <2>2, <2>3, PlaceTypes
  <2>5. Cardinality(S) <= Cardinality(T)
    BY <2>4, FS_Subset
  <2>6. PICK m, n \in Nat :
          m = Place(cents, splits, i) /\ n = Place(cents, splits, j) /\ m <= n
    BY <2>3, <2>5, PlaceTypes
  <2>7. PICK P : P = {l \in DOMAIN splits : Part(cents, splits, l) > 0}
    OBVIOUS
  <2>8. PICK left \in Nat : left = leftover_cents(cents, splits)
    BY <2>7, LeftoverIs
  <2>9. d = w + (IF m < left THEN 1 ELSE 0) /\ e = v + (IF n < left THEN 1 ELSE 0)
    BY <1>6, <2>6, <2>8
  <2>10. d >= e
    BY <1>1, <1>2, <1>10, <2>6, <2>8, <2>9
  <2> QED
    BY <1>5, <2>10
<1> QED
  BY <1>1, <1>2, <1>8, <1>9, <1>10

\* The order of the leftover cents is a strict total order of the splits.
LEMMA AheadIsAnOrder ==
    ASSUME NEW cents, NEW splits, FairSplits(cents, splits), NEW i \in DOMAIN splits,
           NEW j \in DOMAIN splits
    PROVE  /\ i \notin Ahead(cents, splits, i)
           /\ i # j => i \in Ahead(cents, splits, j) \/ j \in Ahead(cents, splits, i)
           /\ i \in Ahead(cents, splits, j) =>
                Ahead(cents, splits, i) \subseteq Ahead(cents, splits, j)
<1> DEFINE Before(k, l) ==
             \/ Part(cents, splits, k) > Part(cents, splits, l)
             \/ /\ Part(cents, splits, k) = Part(cents, splits, l)
                /\ \/ splits[k].bps > splits[l].bps
                   \/ splits[k].bps = splits[l].bps /\ splits[k].owner < splits[l].owner
<1>1. ASSUME NEW k \in DOMAIN splits, NEW l \in DOMAIN splits
      PROVE  k \in Ahead(cents, splits, l) <=> Before(k, l)
  <2>1. PICK o, p \in Nat : o = splits[l].owner /\ p = splits[k].owner
    BY SplitTypes
  <2>2. GoesBefore(cents, splits, p, o) <=> Before(k, l)
    BY <2>1, OwnShare DEF GoesBefore
  <2>3. p = o => k = l
    BY <2>1, OwnersDiffer
  <2>4. ~(l < l)
    BY SplitTypes
  <2> QED
    BY <2>1, <2>2, <2>3, <2>4 DEF Ahead
<1>2. ASSUME NEW k \in DOMAIN splits
      PROVE  /\ Part(cents, splits, k) \in Nat
             /\ splits[k].bps \in Nat /\ splits[k].owner \in Nat
  BY SplitTypes, ShareTypes
<1>3. i # j => splits[i].owner # splits[j].owner
  BY OwnersDiffer
<1>4. ~Before(i, i)
  BY <1>2
<1>5. i # j => Before(i, j) \/ Before(j, i)
  BY <1>2, <1>3
<1>6. ASSUME Before(i, j), NEW k \in DOMAIN splits, Before(k, i)
      PROVE  Before(k, j)
  BY <1>2, <1>6
<1>7. Ahead(cents, splits, i) \subseteq DOMAIN splits
  BY DEF Ahead
<1> HIDE DEF Before
<1> QED
  BY <1>1, <1>4, <1>5, <1>6, <1>7

\* The leftover cents are all given away: as many splits have a place among them
\* as there are.
LEMMA LeftoverIsServed ==
    ASSUME NEW cents, NEW splits, FairSplits(cents, splits),
           NEW left \in Nat, left <= Cardinality(DOMAIN splits)
    PROVE  Cardinality({i \in DOMAIN splits : Place(cents, splits, i) < left}) = left
<1>1. PICK S, ahead : S = DOMAIN splits /\ ahead = [i \in S |-> Ahead(cents, splits, i)]
  OBVIOUS
<1>2. IsFiniteSet(S)
  BY <1>1, SplitTypes
<1>3. \A i \in S : ahead[i] \subseteq S \ {i}
  BY <1>1, AheadIsAnOrder DEF Ahead
<1>4. /\ \A i, j \in S : i # j => i \in ahead[j] \/ j \in ahead[i]
      /\ \A i, j \in S : i \in ahead[j] => ahead[i] \subseteq ahead[j]
  BY <1>1, AheadIsAnOrder
<1>5. Cardinality({i \in S : Cardinality(ahead[i]) < left}) = left
  BY <1>1, <1>2, <1>3, <1>4, RanksAreCounted
<1>6. \A i \in S : Place(cents, splits, i) = Cardinality(ahead[i])
  BY <1>1, PlaceTypes
<1>7. {i \in S : Cardinality(ahead[i]) < left} = {i \in S : Place(cents, splits, i) < left}
  BY <1>6
<1> QED
  BY <1>1, <1>5, <1>7

\* The split pays out every cent.
LEMMA DistributeSplitsPaysEveryCent ==
    ASSUME NEW cents, NEW splits, FairSplits(cents, splits)
    PROVE  Total(distribute_splits(cents, splits)) = cents
<1>1. PICK D : D = DOMAIN splits
  OBVIOUS
<1>2. IsFiniteSet(D) /\ cents \in Nat
  BY <1>1, SplitTypes
<1>3. PICK P : P = {i \in D : Part(cents, splits, i) > 0}
  OBVIOUS
<1>4. PICK left \in Nat :
        /\ left = leftover_cents(cents, splits)
        /\ BPS_DENOMINATOR * left <= (BPS_DENOMINATOR - 1) * Cardinality(P)
        /\ cents = left + SumFunctionOnSet([i \in D |-> Whole(cents, splits, i)], D)
  BY <1>1, <1>3, LeftoverIs
<1>5. left <= Cardinality(D)
  <2>1. IsFiniteSet(P) /\ Cardinality(P) <= Cardinality(D)
    BY <1>2, <1>3, FS_Subset
  <2>2. PICK p, d \in Nat : p = Cardinality(P) /\ d = Cardinality(D)
    BY <1>2, <2>1, FS_CardinalityType
  <2>3. ~(p < left)
    BY <1>4, <2>2, Denominator, TooFewParts
  <2> QED
    BY <2>1, <2>2, <2>3
<1> DEFINE whole == [i \in D |-> Whole(cents, splits, i)]
           cent == [i \in D |-> IF Place(cents, splits, i) < left THEN 1 ELSE 0]
           paid == distribute_splits(cents, splits)
<1>6. ASSUME NEW i \in D
      PROVE  whole[i] \in Int /\ cent[i] \in {0, 1} /\ paid[i] = whole[i] + cent[i]
  BY <1>1, <1>4, <1>6, ShareTypes, PaidShare
<1>7. {i \in D : cent[i] = 1} = {i \in D : Place(cents, splits, i) < left}
  OBVIOUS
<1>8. DOMAIN paid = D
  BY <1>1 DEF distribute_splits
<1>9. cents = left + SumFunctionOnSet(whole, D)
  BY <1>4
<1> HIDE DEF whole, cent, paid
<1>10. SumFunctionOnSet(cent, D) = left
  <2>1. Cardinality({i \in D : cent[i] = 1}) = left
    BY <1>1, <1>5, <1>7, LeftoverIsServed
  <2> QED
    BY <1>2, <1>6, <2>1, SumOfMarks
<1>11. SumFunctionOnSet(paid, D) = SumFunctionOnSet(whole, D) + SumFunctionOnSet(cent, D)
  <2>1. \A i \in D : whole[i] \in Int /\ cent[i] \in Int /\ paid[i] = whole[i] + cent[i]
    BY <1>6
  <2> QED
    BY <1>2, <2>1, SumPlus
<1>12. SumFunctionOnSet(whole, D) \in Int
  BY <1>2, <1>6, SumInt
<1>13. Total(paid) = SumFunctionOnSet(paid, D)
  BY <1>8 DEF Total, SumFunction
<1> QED
  BY <1>9, <1>10, <1>11, <1>12, <1>13 DEF paid

LEMMA PoolType ==
    ASSUME NEW gross \in Nat
    PROVE  pool(gross) \in Nat
<1>1. gross \div 100 \in Nat
  OBVIOUS
<1> QED
  BY <1>1 DEF pool

\* The largest-remainder split pays out every cent of the pool, for any amount and
\* any shares of distinct owners that add up to 10000 basis points, so that the
\* balance check of compute_royalty never raises (distribute_splits).
THEOREM ComputeRoyaltyNeverRaises ==
    ASSUME NEW gross \in Nat, NEW splits \in Seq(Split), splits_sum_to_10000(splits),
           Cardinality(Owners(splits)) = Len(splits)
    PROVE  compute_royalty_ok(gross, splits)
<1>1. PICK cents \in Nat : cents = pool(gross)
  BY PoolType
<1>2. FairSplits(cents, splits)
  BY DEF FairSplits
<1>3. Total(distribute_splits(cents, splits)) = cents
  BY <1>2, DistributeSplitsPaysEveryCent
<1> QED
  BY <1>1, <1>3 DEF compute_royalty_ok

\* The payouts of an obligation are the whole pool, and all of the gross amount
\* if the event was never decided in two ways; every owner is within a cent of
\* the exact share and a larger share is never paid less (distribute_splits,
\* createObligation, releaseObligation).
THEOREM RoyaltyPayoutsExhaustThePool == Spec => []PayoutsExhaustThePool
<1>1. ASSUME RoyaltyIInv PROVE PayoutsExhaustThePool
  <2>1. ASSUME NEW k \in Keys, obligation[k].payouts # <<>>,
               NEW body, body = Body(obligation[k].row),
               NEW paid, paid = obligation[k].payouts
        PROVE  /\ Total(paid) = pool(body.amount)
               /\ AgreedOn(obligation[k].row) => Total(paid) * 100 = body.amount
               /\ Cardinality(Owners(body.splits)) = Len(body.splits) =>
                    \A i, j \in DOMAIN paid :
                       /\ paid[i] * BPS_DENOMINATOR - pool(body.amount) * body.splits[i].bps
                            \in 1 - BPS_DENOMINATOR .. BPS_DENOMINATOR - 1
                       /\ body.splits[i].bps > body.splits[j].bps => paid[i] >= paid[j]
    <3>1. RoyaltyShape
      BY <1>1 DEF RoyaltyIInv
    <3>2. PICK o \in Obligation : o = obligation[k] /\ o # NoObligation /\ ObligationRight(k, o)
      BY <1>1, <2>1, <3>1 DEF RoyaltyIInv, RoyaltyShape, NoObligation
    <3>3. PICK r \in Rows : r = o.row /\ Known(r) /\ Payable(r) /\ body = Body(r)
      BY <2>1, <3>2 DEF ObligationRight, Known
    <3>4. body \in Bodies[r]
      BY <1>1, <3>3 DEF RoyaltyIInv, OutboxRight, Known
    <3>5. body.amount \in Nat /\ body.splits \in Seq(Split) /\ splits_sum_to_10000(body.splits)
      BY <3>4, RoyaltyAssumption
    <3>6. PICK cents \in Nat, splits \in Seq(Split) : cents = pool(body.amount) /\ splits = body.splits
      BY <3>5, PoolType
    <3>7. paid = distribute_splits(cents, splits)
      BY <2>1, <3>2, <3>3, <3>6 DEF ObligationRight, Paid
    <3>8. Total(paid) = cents
      BY <3>3, <3>6, <3>7 DEF Payable, compute_royalty_ok
    <3>9. ASSUME AgreedOn(r) PROVE Total(paid) * 100 = body.amount
      <4>1. Postable(r)
        <5>1. /\ Told(o.outcome) \in sent[r] /\ o.status \in StatusesOf(o.outcome)
              /\ o.status # "BLOCKED" => posting[k] # "none" /\ poster[k] = r
              /\ o.outcome = "hold" /\ o.payouts # <<>> => k \in released
              /\ o.status = "BLOCKED" => o.payouts = <<>>
              /\ k \in released => Postable(r)
              /\ o.outcome \in Outcomes
          BY <3>2, <3>3 DEF ObligationRight, Obligation, Posted
        <5>2. o.outcome \in {"allow", "hold"}
          BY <2>1, <3>2, <5>1 DEF StatusesOf, Outcomes
        <5>3. CASE o.outcome = "allow"
          <6>1. posting[k] # "none" /\ posting[k] \in sent[r] /\ (posting[k] = "allow" => Postable(r))
            BY <1>1, <2>1, <3>2, <5>1 DEF RoyaltyIInv, PostingRight, MadeFor
          <6>2. "allow" \in sent[r]
            BY <5>1, <5>3 DEF Told
          <6> QED
            BY <3>1, <3>9, <6>1, <6>2, AgreedIsOne
        <5>4. CASE o.outcome = "hold"
          BY <2>1, <3>2, <5>1, <5>4
        <5> QED
          BY <5>2, <5>3, <5>4
      <4> QED
        BY <3>3, <3>6, <3>7, <4>1 DEF Postable, JournalAccepts
    <3>10. ASSUME Cardinality(Owners(splits)) = Len(splits),
                  NEW i \in DOMAIN paid, NEW j \in DOMAIN paid
           PROVE  /\ paid[i] * BPS_DENOMINATOR - cents * splits[i].bps
                       \in 1 - BPS_DENOMINATOR .. BPS_DENOMINATOR - 1
                  /\ splits[i].bps > splits[j].bps => paid[i] >= paid[j]
      <4>1. DOMAIN paid = DOMAIN splits
        BY <3>7 DEF distribute_splits
      <4>2. FairSplits(cents, splits)
        BY <3>5, <3>6, <3>10 DEF FairSplits
      <4>3. WithinACent(paid[i] * BPS_DENOMINATOR - cents * splits[i].bps)
        BY <3>7, <3>10, <4>1, <4>2, PaidWithinACent
      <4>4. splits[i].bps > splits[j].bps => paid[i] >= paid[j]
        BY <3>7, <3>10, <4>1, <4>2, PaidInOrder
      <4> QED
        BY <4>3, <4>4 DEF WithinACent
    <3> QED
      BY <3>2, <3>3, <3>6, <3>8, <3>9, <3>10
  <2> QED
    BY <2>1 DEF PayoutsExhaustThePool
<1> QED
  BY <1>1, RoyaltyIsInductive, PTL

-----------------------------------------------------------------------------
(* The fraud service: the inductive invariant. *)

Tracking(v) == v.pc \in {"certificate", "mint", "record"}
Asking(v) == v.pc \in {"score", "save", "store"}

\* What a request that records a track knows of it.
TrackRight(v) ==
    /\ v.track.signed
    /\ v.pc = "record" /\ Mints(v.track) => CertificateOf(v.track.tag) # {}

TracksHold ==
    /\ \A w \in Workers : Tracking(worker[w]) => TrackRight(worker[w])
    /\ \A s, t \in spine : s.id = t.id => s = t
    /\ CertificatesHold

\* A key that one request at a time was made with.
Lone(k) == k[3] # None /\ k \notin lapsed

EventKey(x) == <<x.merchant, x.type, x.key>>

\* A key has one request at work, or one record, or neither.
OneAtWork ==
    /\ \A w \in Workers : Asking(worker[w]) =>
         /\ worker[w].key = RecordKey(worker[w].type, worker[w].q)
         /\ worker[w].q.merchant \in merchants
         /\ worker[w].pc = "store" => worker[w].key[3] # None
    /\ \A u, w \in Workers :
         /\ Asking(worker[u]) /\ Asking(worker[w])
         /\ worker[u].key = worker[w].key /\ Lone(worker[u].key)
         => u = w
    /\ \A x, y \in records : x.key = y.key /\ Lone(x.key) => x = y
    /\ \A x \in records, w \in Workers :
         Asking(worker[w]) /\ Lone(x.key) => worker[w].key # x.key
    /\ \A a \in answers : a.key[3] # None => a \in records

\* Every decision is one of its endpoint.
DecidedRight ==
    /\ \A w \in Workers : worker[w].pc \in {"save", "store"} =>
         worker[w].response.decision \in DecisionsOf(worker[w].type)
    /\ \A x \in records \cup answers : x.response.decision \in DecisionsOf(x.key[2])

\* The event of a key is that of its record, or of the request about to store it.
Accounted(k) ==
    /\ \A w \in Workers : worker[w].pc \in {"score", "save"} => worker[w].key # k
    /\ \/ \E w \in Workers : worker[w].pc = "store" /\ worker[w].key = k
       \/ \E x \in records : x.key = k

OneEvent ==
    /\ \A i \in DOMAIN events :
         events[i].from >= 0 /\ Lone(EventKey(events[i])) => Accounted(EventKey(events[i]))
    /\ \A i, j \in DOMAIN events :
         /\ events[i].from >= 0 /\ events[j].from >= 0
         /\ EventKey(events[i]) = EventKey(events[j]) /\ Lone(EventKey(events[i]))
         => i = j

\* The reasons of a request with body b of merchant m, read between the rows
\* from and upto: its own signals, and the counts of the merchant's own events.
ReasonsRight(m, type, b, from, upto, t, reasons) ==
    /\ Signs(type, b) \subseteq reasons
    /\ reasons \subseteq Signs(type, b) \cup Velocity(type)
    /\ OwnVelocity(m, type, b, from, t) \subseteq reasons \cap Velocity(type)
    /\ reasons \cap Velocity(type) \subseteq OwnVelocity(m, type, b, upto, t)

ScoresAreTrue ==
    /\ \A w \in Workers : Asking(worker[w]) => worker[w].from <= Len(events)
    /\ \A w \in Workers : worker[w].pc \in {"save", "store"} =>
         LET v == worker[w]
         IN  /\ v.response = Response(v.type, v.response.reasons)
             /\ ReasonsRight(v.q.merchant, v.type, v.q.body, v.from, Len(events), v.at,
                             v.response.reasons)
    /\ \A i \in DOMAIN events : events[i].from >= 0 =>
         LET x == events[i]
         IN  /\ x.from < i
             /\ x.decision = Decision(x.type, RiskScore(x.type, x.reasons))
             /\ ReasonsRight(x.merchant, x.type, x.body, x.from, i - 1, x.scored, x.reasons)

FraudIInv ==
    FraudTypeOK /\ TracksHold /\ OneAtWork /\ DecidedRight /\ OneEvent /\ ScoresAreTrue

-----------------------------------------------------------------------------
(* The fraud service: types. *)

\* What a request holds at each of its steps.
LEMMA WorkerKinds ==
    ASSUME FraudTypeOK, NEW w \in Workers
    PROVE  /\ worker[w].pc = "idle" => worker[w] = NoWork
           /\ worker[w].pc = "score" => worker[w] \in Asked
           /\ worker[w].pc \in {"save", "store"} => worker[w] \in Scored
           /\ worker[w].pc \in {"certificate", "mint", "record"} => worker[w] \in Tracked
           /\ worker[w].pc \in {"idle", "score", "save", "store", "certificate", "mint", "record"}
<1>1. worker[w] \in {NoWork} \cup Asked \cup Scored \cup Tracked
  BY DEF FraudTypeOK
<1>2. CASE worker[w] = NoWork
  BY <1>2 DEF NoWork
<1>3. CASE worker[w] \in Asked
  BY <1>3 DEF Asked
<1>4. CASE worker[w] \in Scored
  BY <1>4 DEF Scored
<1>5. CASE worker[w] \in Tracked
  BY <1>5 DEF Tracked
<1> QED
  BY <1>1, <1>2, <1>3, <1>4, <1>5

\* A step of one request leaves those of the others alone.
LEMMA WorkerMoves ==
    ASSUME FraudTypeOK, NEW w \in Workers,
           NEW v \in {NoWork} \cup Asked \cup Scored \cup Tracked,
           worker' = [worker EXCEPT ![w] = v]
    PROVE  /\ worker' \in [Workers -> {NoWork} \cup Asked \cup Scored \cup Tracked]
           /\ worker'[w] = v
           /\ \A u \in Workers : u # w => worker'[u] = worker[u]
BY DEF FraudTypeOK

\* A set of up to four elements is finite.
LEMMA FewAreFinite == ASSUME NEW a, NEW b, NEW c, NEW d PROVE IsFiniteSet({a, b, c, d})
<1>1. IsFiniteSet({a}) /\ IsFiniteSet({b}) /\ IsFiniteSet({c}) /\ IsFiniteSet({d})
  BY FS_Singleton
<1>2. IsFiniteSet({a} \cup {b}) /\ IsFiniteSet({c} \cup {d})
  BY <1>1, FS_Union
<1>3. IsFiniteSet(({a} \cup {b}) \cup ({c} \cup {d}))
  BY <1>2, FS_Union
<1>4. ({a} \cup {b}) \cup ({c} \cup {d}) = {a, b, c, d}
  OBVIOUS
<1> QED
  BY <1>3, <1>4

\* The weights of the signals.
LEMMA WeightsAreNat ==
    ASSUME NEW type \in Endpoints
    PROVE  /\ DOMAIN Weights(type) \subseteq Reasons
           /\ \A r \in DOMAIN Weights(type) : Weights(type)[r] \in Nat
           /\ IsFiniteSet(DOMAIN Weights(type))
<1>1. IsFiniteSet(DOMAIN CheckoutWeight)
  <2> DEFINE S == {"same_device_many_failed_payments", "high_ip_velocity",
                   "same_email_multiple_failures", "issuer_pattern_multiple_failures"}
             T == {"checkout_session_reuse_abuse", "billing_card_country_mismatch",
                   "ip_billing_country_mismatch", "small_amount_testing_pattern"}
             U == {"payment_failed"}
  <2>1. DOMAIN CheckoutWeight = (S \cup T) \cup U
    BY DEF CheckoutWeight
  <2>2. IsFiniteSet(S) /\ IsFiniteSet(T) /\ IsFiniteSet(U)
    BY FewAreFinite, FS_Singleton
  <2> HIDE DEF S, T, U
  <2>3. IsFiniteSet(S \cup T)
    BY <2>2, FS_Union
  <2> QED
    BY <2>1, <2>2, <2>3, FS_Union
<1>2. IsFiniteSet(DOMAIN RoyaltyWeight)
  <2> DEFINE S == {"dna_not_verified", "soulprint_not_verified", "ledger_record_missing",
                   "new_creator_account"}
             T == {"new_payout_method", "payout_destination_changed_recently",
                   "duplicate_payout_destination", "sudden_usage_spike"}
             U == {"large_usage_on_new_creator_account", "high_creator_payout_request_velocity",
                   "payout_destination_velocity", "device_linked_to_prior_risky_events"}
             V == {"email_linked_to_prior_risky_events"}
  <2>1. DOMAIN RoyaltyWeight = (S \cup T) \cup (U \cup V)
    BY DEF RoyaltyWeight
  <2>2. IsFiniteSet(S) /\ IsFiniteSet(T) /\ IsFiniteSet(U) /\ IsFiniteSet(V)
    BY FewAreFinite, FS_Singleton
  <2> HIDE DEF S, T, U, V
  <2>3. IsFiniteSet(S \cup T) /\ IsFiniteSet(U \cup V)
    BY <2>2, FS_Union
  <2> QED
    BY <2>1, <2>3, FS_Union
<1>3. \A r \in DOMAIN CheckoutWeight : CheckoutWeight[r] \in Nat
  BY DEF CheckoutWeight
<1>4. \A r \in DOMAIN RoyaltyWeight : RoyaltyWeight[r] \in Nat
  BY DEF RoyaltyWeight
<1> QED
  BY <1>1, <1>2, <1>3, <1>4 DEF Weights, Reasons

\* A score is a number from 0 to 100 and a decision is one of its endpoint.
LEMMA ScoreIsCapped ==
    ASSUME NEW type \in Endpoints, NEW reasons \in SUBSET DOMAIN Weights(type)
    PROVE  /\ IsFiniteSet(reasons)
           /\ SumFunctionOnSet(Weights(type), reasons) \in Nat
           /\ RiskScore(type, reasons) = IF SumFunctionOnSet(Weights(type), reasons) <= 100
                                         THEN SumFunctionOnSet(Weights(type), reasons) ELSE 100
           /\ RiskScore(type, reasons) \in 0..100
<1>1. IsFiniteSet(reasons) /\ \A r \in reasons : Weights(type)[r] \in Nat
  BY WeightsAreNat, FS_Subset
<1>2. PICK n : n = SumFunctionOnSet(Weights(type), reasons)
  OBVIOUS
<1>3. n \in Nat
  BY <1>1, <1>2, SumNat
<1>4. Min({100, n}) = IF n <= 100 THEN n ELSE 100
  BY <1>3 DEF Min
<1> QED
  BY <1>1, <1>2, <1>3, <1>4 DEF RiskScore

LEMMA DecisionIsOfEndpoint ==
    ASSUME NEW type \in Endpoints, NEW score \in Nat
    PROVE  /\ Decision(type, score) \in DecisionsOf(type)
           /\ Decision("royalty", score) = "block_payout" <=> score >= 85
<1>1. CASE type = "checkout"
  BY <1>1 DEF Decision, DecisionsOf
<1>2. CASE type = "royalty"
  BY <1>2 DEF Decision, DecisionsOf
<1>3. Decision("royalty", score) = "block_payout" <=> score >= 85
  BY DEF Decision
<1> QED
  BY <1>1, <1>2, <1>3 DEF Endpoints

\* No signal is both carried by a request and counted from earlier events.
LEMMA SignsAreSignals ==
    ASSUME NEW type \in Endpoints, NEW body
    PROVE  /\ Signs(type, body) \subseteq DOMAIN Weights(type)
           /\ Velocity(type) \subseteq DOMAIN Weights(type)
           /\ Signs(type, body) \cap Velocity(type) = {}
<1>1. CASE type = "checkout"
  <2>1. ASSUME NEW r \in Velocity(type) PROVE r \notin CheckoutSigns(body)
    <3>1. r \in {"same_device_many_failed_payments", "high_ip_velocity",
                 "same_email_multiple_failures", "issuer_pattern_multiple_failures",
                 "checkout_session_reuse_abuse"}
      BY <1>1, <2>1 DEF Velocity, Weights, CheckoutWeight, Threshold
    <3> QED
      BY <3>1 DEF CheckoutSigns
  <2> QED
    BY <1>1, <2>1 DEF Signs, CheckoutSigns, Velocity, Weights
<1>2. CASE type = "royalty"
  <2>1. ASSUME NEW r \in Velocity(type) PROVE r \notin RoyaltySigns(body)
    <3>1. r \in {"high_creator_payout_request_velocity", "payout_destination_velocity",
                 "device_linked_to_prior_risky_events", "email_linked_to_prior_risky_events"}
      BY <1>2, <2>1 DEF Velocity, Weights, RoyaltyWeight, Threshold
    <3> QED
      BY <3>1 DEF RoyaltySigns
  <2> QED
    BY <1>2, <2>1 DEF Signs, RoyaltySigns, Velocity, Weights
<1> QED
  BY <1>1, <1>2 DEF Endpoints

\* What a request is answered with.
LEMMA ResponseIsDecided ==
    ASSUME NEW type \in Endpoints, NEW reasons \in SUBSET DOMAIN Weights(type)
    PROVE  /\ Response(type, reasons) \in Decided
           /\ Response(type, reasons).decision \in DecisionsOf(type)
           /\ Response(type, reasons).decision = Decision(type, RiskScore(type, reasons))
           /\ Response(type, reasons).reasons = reasons
<1>1. PICK score \in 0..100 : score = RiskScore(type, reasons)
  BY ScoreIsCapped
<1>2. Decision(type, score) \in DecisionsOf(type)
  BY DecisionIsOfEndpoint
<1>3. DecisionsOf(type) \subseteq DecisionsOf("checkout") \cup DecisionsOf("royalty")
  BY DEF DecisionsOf
<1>4. reasons \in SUBSET Reasons
  BY WeightsAreNat
<1>5. Response(type, reasons) =
        [score |-> score, decision |-> Decision(type, score), reasons |-> reasons]
  BY <1>1 DEF Response
<1> QED
  BY <1>1, <1>2, <1>3, <1>4, <1>5 DEF Decided

\* The greatest of a finite set of numbers.
LEMMA FiniteMax ==
    ASSUME NEW S, IsFiniteSet(S), S # {}, \A x \in S : x \in Int
    PROVE  Max(S) \in S /\ \A x \in S : x <= Max(S)
<1>1. PICK m \in S : \A x \in S : x <= m
  BY GreatestOfFinite
<1>2. \A x \in S : m >= x
  BY <1>1
<1>3. Max(S) \in S /\ \A x \in S : Max(S) >= x
  BY <1>1, <1>2 DEF Max
<1> QED
  BY <1>3

\* The state the service starts in.
LEMMA InitFraud == FraudInit => FraudIInv
<1> SUFFICES ASSUME FraudInit PROVE FraudIInv
  OBVIOUS
<1>1. /\ events \in Seq(Event)
      /\ \A i \in DOMAIN events : events[i].from < 0 /\ events[i].decision \in DecisionsOf(events[i].type)
  BY HistoryAssumption DEF FraudInit
<1>2. /\ \A i \in DOMAIN events : events[i] \in Event
      /\ DOMAIN events = 1..Len(events) /\ Len(events) \in Nat
  BY <1>1
<1>3. now \in Nat /\ \A i \in DOMAIN events : events[i].at <= now
  <2> DEFINE times == {events[i].at : i \in DOMAIN events}
  <2>1. IsFiniteSet(1..Len(events))
    BY <1>2, FS_Interval
  <2>2. IsFiniteSet(times)
    <3> DEFINE at == [i \in DOMAIN events |-> events[i].at]
    <3>1. times = {at[i] : i \in DOMAIN events}
      OBVIOUS
    <3> HIDE DEF at, times
    <3> QED
      BY <1>2, <2>1, <3>1, ImageIsFinite
  <2>3. IsFiniteSet(times \cup {0})
    BY <2>2, FS_AddElement
  <2>4. \A x \in times \cup {0} : x \in Nat
    BY <1>2 DEF Event
  <2>5. now = Max(times \cup {0})
    BY DEF FraudInit
  <2>6. \A i \in DOMAIN events : events[i].at \in times \cup {0}
    OBVIOUS
  <2> HIDE DEF times
  <2>7. Max(times \cup {0}) \in times \cup {0} /\ \A x \in times \cup {0} : x <= Max(times \cup {0})
    BY <2>3, <2>4, FiniteMax
  <2> QED
    BY <2>4, <2>5, <2>6, <2>7
<1>4. FraudTypeOK
  <2>1. merchants \subseteq Merchants /\ \A i \in DOMAIN events : events[i].merchant \in merchants
    BY <1>2 DEF FraudInit, Event
  <2>2. worker \in [Workers -> {NoWork}]
    BY DEF FraudInit
  <2> QED
    BY <1>1, <1>3, <2>1, <2>2 DEF FraudInit, FraudTypeOK
<1>5. \A w \in Workers : worker[w].pc = "idle"
  BY DEF FraudInit, NoWork
<1>6. TracksHold
  BY <1>5 DEF FraudInit, TracksHold, Tracking, CertificatesHold
<1>7. OneAtWork /\ DecidedRight
  BY <1>5 DEF FraudInit, OneAtWork, DecidedRight, Asking
<1>8. \A i \in DOMAIN events : ~(events[i].from >= 0)
  BY <1>1, <1>2 DEF Event
<1>9. OneEvent /\ ScoresAreTrue
  BY <1>5, <1>8 DEF OneEvent, ScoresAreTrue, Asking
<1> QED
  BY <1>4, <1>6, <1>7, <1>9 DEF FraudIInv

\* What a request is made with.
LEMMA AskFields ==
    ASSUME NEW type \in Endpoints, NEW q \in Asks
    PROVE  /\ q.merchant \in Merchants /\ q.key \in AskKeys /\ q.body \in AskBodies
           /\ RecordKey(type, q) \in RecordKeys
           /\ RecordKey(type, q)[1] = q.merchant /\ RecordKey(type, q)[2] = type
           /\ RecordKey(type, q)[3] = q.key
BY HistoryAssumption DEF AskKeys, AskBodies, RecordKey, RecordKeys

\* A request holds what its step needs.
LEMMA ScoredFields ==
    ASSUME FraudTypeOK, NEW w \in Workers, Asking(worker[w])
    PROVE  /\ worker[w].type \in Endpoints /\ worker[w].q \in Asks
           /\ worker[w].key \in RecordKeys /\ worker[w].from \in Nat /\ worker[w].at \in Nat
           /\ worker[w].pc # "score" => worker[w].response \in Decided
BY WorkerKinds DEF Asking, Asked, Scored

\* Steps that leave the tables alone.
LEMMA TypeStays ==
    ASSUME FraudTypeOK, UNCHANGED <<events, records>>,
           merchants \subseteq merchants', merchants' \subseteq Merchants,
           spine' \subseteq Tracks, answers' \subseteq Answered,
           worker' \in [Workers -> {NoWork} \cup Asked \cup Scored \cup Tracked],
           now' \in Nat, now <= now', requests' \in Nat, crashes' \in Nat
    PROVE  FraudTypeOK'
<1>1. \A i \in DOMAIN events : events[i] \in Event
  BY DEF FraudTypeOK
<1>2. \A i \in DOMAIN events : events[i].at <= now'
  BY <1>1 DEF FraudTypeOK, Event
<1> QED
  BY <1>2 DEF FraudTypeOK

LEMMA BeginType ==
    ASSUME FraudTypeOK, NEW w \in Workers, NEW type \in Endpoints, NEW q \in Asks,
           Begin(w, type, q)
    PROVE  FraudTypeOK'
<1>1. /\ UNCHANGED <<tables, now, crashes>> /\ requests' = requests + 1
      /\ now \in Nat /\ requests \in Nat /\ crashes \in Nat /\ records \subseteq Answered
      /\ merchants \subseteq Merchants /\ spine \subseteq Tracks /\ answers \subseteq Answered
  BY DEF Begin, Admit, FraudTypeOK
<1>2. CASE \E x \in check_idempotency(type, q) :
             /\ answers' = answers \cup {[key |-> RecordKey(type, q), response |-> x.response]}
             /\ UNCHANGED worker
  <2>1. answers' \subseteq Answered
    BY <1>1, <1>2, AskFields DEF check_idempotency, Answered
  <2> QED
    BY <1>1, <1>2, <2>1, TypeStays DEF FraudTypeOK, tables
<1>3. CASE /\ worker' = [worker EXCEPT ![w] =
                [pc |-> "score", type |-> type, q |-> q, key |-> RecordKey(type, q),
                 from |-> Len(events), at |-> now]]
           /\ UNCHANGED answers
  <2> DEFINE v == [pc |-> "score", type |-> type, q |-> q, key |-> RecordKey(type, q),
                   from |-> Len(events), at |-> now]
  <2>1. Len(events) \in Nat
    BY DEF FraudTypeOK
  <2>2. v \in Asked
    BY <1>1, <2>1, AskFields DEF Asked
  <2> HIDE DEF v
  <2>3. worker' \in [Workers -> {NoWork} \cup Asked \cup Scored \cup Tracked]
    BY <1>3, <2>2 DEF FraudTypeOK, v
  <2> QED
    BY <1>1, <1>3, <2>3, TypeStays DEF tables
<1> QED
  BY <1>2, <1>3 DEF Begin

\* The signals that the counts of one request raise.
Raised(v, seen) ==
    {r \in Velocity(v.type) :
        Counted(v.q.merchant, r, v.q.body, seen[r], v.at) >= Threshold[r]}

LEMMA CalculateTells ==
    ASSUME FraudTypeOK, NEW w \in Workers, Calculate(w)
    PROVE  \E seen \in [Velocity(worker[w].type) -> worker[w].from .. Len(events)],
              v \in Scored :
             /\ worker' = [worker EXCEPT ![w] = v]
             /\ v.pc = "save" /\ v.type = worker[w].type /\ v.q = worker[w].q
             /\ v.key = worker[w].key /\ v.from = worker[w].from /\ v.at = worker[w].at
             /\ v.response = Response(v.type, Signs(v.type, v.q.body) \cup Raised(v, seen))
             /\ Signs(v.type, v.q.body) \cup Raised(v, seen) \in SUBSET DOMAIN Weights(v.type)
             /\ worker[w].pc = "score"
<1> DEFINE m == worker[w]
           resp(seen) == Response(m.type, Signs(m.type, m.q.body) \cup Raised(m, seen))
           new(seen) == [pc |-> "save", type |-> m.type, q |-> m.q, key |-> m.key,
                         from |-> m.from, at |-> m.at, response |-> resp(seen)]
<1>1. PICK seen \in [Velocity(m.type) -> m.from .. Len(events)] :
        worker' = [worker EXCEPT ![w] = new(seen)]
  BY DEF Calculate, Raised
<1>2. m.pc = "score" /\ m \in Asked
  BY WorkerKinds DEF Calculate
<1>3. Signs(m.type, m.q.body) \cup Raised(m, seen) \in SUBSET DOMAIN Weights(m.type)
  BY <1>2, SignsAreSignals DEF Asked, Raised
<1>4. resp(seen) \in Decided
  BY <1>2, <1>3, ResponseIsDecided DEF Asked
<1>5. new(seen) \in Scored
  <2> HIDE DEF resp
  <2> QED
    BY <1>2, <1>4 DEF Asked, Scored
<1>6. /\ new(seen).pc = "save" /\ new(seen).type = m.type /\ new(seen).q = m.q
      /\ new(seen).key = m.key /\ new(seen).from = m.from /\ new(seen).at = m.at
      /\ new(seen).response = resp(seen)
  OBVIOUS
<1>7. Raised(new(seen), seen) = Raised(m, seen)
  BY <1>6 DEF Raised
<1> HIDE DEF new, m
<1> QED
  BY <1>1, <1>2, <1>3, <1>5, <1>6, <1>7 DEF m

LEMMA CalculateType ==
    ASSUME FraudTypeOK, NEW w \in Workers, Calculate(w) PROVE FraudTypeOK'
<1>1. PICK v \in Scored : worker' = [worker EXCEPT ![w] = v]
  BY CalculateTells
<1>2. worker' \in [Workers -> {NoWork} \cup Asked \cup Scored \cup Tracked]
  BY <1>1, WorkerMoves
<1> QED
  BY <1>2, TypeStays DEF Calculate, tables, history, FraudTypeOK

\* save_event appends one row.
LEMMA SaveTells ==
    ASSUME FraudTypeOK, OneAtWork, DecidedRight, NEW w \in Workers, save_event(w)
    PROVE  \E x \in Event :
             /\ events' = Append(events, x)
             /\ x.merchant = worker[w].q.merchant /\ x.type = worker[w].type
             /\ x.body = worker[w].q.body /\ x.key = worker[w].q.key
             /\ x.score = worker[w].response.score /\ x.decision = worker[w].response.decision
             /\ x.reasons = worker[w].response.reasons /\ x.at = now
             /\ x.from = worker[w].from /\ x.scored = worker[w].at
             /\ x.decision \in DecisionsOf(x.type) /\ x.merchant \in merchants
             /\ EventKey(x) = worker[w].key
             /\ worker[w].pc = "save"
<1> DEFINE v == worker[w]
           x == [merchant |-> v.q.merchant, type |-> v.type, body |-> v.q.body,
                 score |-> v.response.score, decision |-> v.response.decision,
                 reasons |-> v.response.reasons, at |-> now,
                 key |-> v.q.key, from |-> v.from, scored |-> v.at]
<1>1. v.pc = "save" /\ events' = Append(events, x)
  BY DEF save_event
<1>2. v \in Scored /\ now \in Nat
  BY <1>1, WorkerKinds DEF FraudTypeOK
<1>3. /\ v.q \in Asks /\ v.type \in Endpoints /\ v.response \in Decided /\ v.from \in Nat
      /\ v.at \in Nat
  BY <1>2 DEF Scored
<1>4. v.q.merchant \in Merchants /\ v.q.key \in AskKeys /\ v.q.body \in AskBodies
  BY <1>3, AskFields
<1>5. x \in Event
  <2> HIDE DEF v
  <2> QED
    BY <1>2, <1>3, <1>4 DEF Event, Decided
<1>6. v.response.decision \in DecisionsOf(v.type) /\ v.q.merchant \in merchants
  BY <1>1 DEF DecidedRight, OneAtWork, Asking
<1>7. EventKey(x) = v.key
  BY <1>1 DEF OneAtWork, Asking, EventKey, RecordKey
<1> HIDE DEF v
<1> QED
  BY <1>1, <1>5, <1>6, <1>7 DEF v

LEMMA SaveType ==
    ASSUME FraudTypeOK, OneAtWork, DecidedRight, NEW w \in Workers, save_event(w)
    PROVE  FraudTypeOK'
<1>1. PICK x \in Event :
        /\ events' = Append(events, x) /\ x.decision \in DecisionsOf(x.type)
        /\ x.merchant \in merchants /\ x.at = now /\ worker[w].pc = "save"
  BY SaveTells
<1>2. events \in Seq(Event) /\ now \in Nat
  BY DEF FraudTypeOK
<1>3. /\ events' \in Seq(Event) /\ Len(events') = Len(events) + 1
      /\ \A i \in DOMAIN events : events'[i] = events[i]
      /\ events'[Len(events) + 1] = x
      /\ \A i \in DOMAIN events' : i \in DOMAIN events \/ i = Len(events) + 1
  BY <1>1, <1>2
<1>4. ASSUME NEW i \in DOMAIN events'
      PROVE  /\ events'[i].merchant \in merchants
             /\ events'[i].decision \in DecisionsOf(events'[i].type)
             /\ events'[i].at <= now
  <2>1. CASE i \in DOMAIN events
    BY <1>3, <2>1 DEF FraudTypeOK
  <2>2. CASE i = Len(events) + 1
    BY <1>1, <1>2, <1>3, <2>2
  <2> QED
    BY <1>3, <2>1, <2>2
<1>5. worker[w] \in Scored
  BY <1>1, WorkerKinds
<1>6. worker' \in [Workers -> {NoWork} \cup Asked \cup Scored \cup Tracked]
  <2>1. CASE worker' = [worker EXCEPT ![w].pc = "store"]
    <3> DEFINE v == [worker[w] EXCEPT !.pc = "store"]
    <3>1. v \in Scored
      BY <1>5 DEF Scored
    <3>2. worker' = [worker EXCEPT ![w] = v]
      BY <2>1
    <3> HIDE DEF v
    <3> QED
      BY <3>1, <3>2, WorkerMoves
  <2>2. CASE worker' = [worker EXCEPT ![w] = NoWork]
    BY <2>2 DEF FraudTypeOK
  <2> QED
    BY <2>1, <2>2 DEF save_event
<1>7. answers' \subseteq Answered
  <2>1. [key |-> worker[w].key, response |-> worker[w].response] \in Answered
    BY <1>5 DEF Answered, Scored
  <2> QED
    BY <2>1 DEF save_event, FraudTypeOK
<1> QED
  BY <1>3, <1>4, <1>6, <1>7 DEF save_event, FraudTypeOK

LEMMA StoreType ==
    ASSUME FraudTypeOK, NEW w \in Workers, store_idempotency(w) PROVE FraudTypeOK'
<1>1. worker[w] \in Scored
  BY WorkerKinds DEF store_idempotency
<1>2. [key |-> worker[w].key, response |-> worker[w].response] \in Answered
  BY <1>1 DEF Answered, Scored
<1>3. worker' \in [Workers -> {NoWork} \cup Asked \cup Scored \cup Tracked]
  BY DEF store_idempotency, FraudTypeOK
<1>4. records' \subseteq Answered /\ answers' \subseteq Answered
  BY <1>2 DEF store_idempotency, FraudTypeOK
<1> QED
  BY <1>3, <1>4 DEF store_idempotency, FraudTypeOK

\* The steps of a request that records a track.
LEMMA TrackType ==
    ASSUME FraudTypeOK, NEW w \in Workers,
           LookUpCertificate(w) \/ CommitTrack(w) \/ \E t \in Tracks : receive_event(w, t)
    PROVE  FraudTypeOK'
<1>1. /\ now \in Nat /\ requests \in Nat /\ crashes \in Nat /\ answers \subseteq Answered
      /\ merchants \subseteq Merchants /\ spine \subseteq Tracks
      /\ worker \in [Workers -> {NoWork} \cup Asked \cup Scored \cup Tracked]
  BY DEF FraudTypeOK
<1>2. CASE LookUpCertificate(w)
  <2>1. worker[w] \in Tracked
    BY <1>2, WorkerKinds DEF LookUpCertificate
  <2>2. PICK v \in {NoWork} \cup Tracked : worker' = [worker EXCEPT ![w] = v]
    <3> DEFINE pc == IF Mints(worker[w].track) /\ CertificateOf(worker[w].track.tag) = {}
                     THEN "mint" ELSE "record"
               v == [pc |-> pc, track |-> worker[w].track]
    <3>1. v \in Tracked
      BY <2>1 DEF Tracked
    <3> HIDE DEF pc
    <3> QED
      BY <1>2, <3>1 DEF LookUpCertificate, pc
  <2>3. worker' \in [Workers -> {NoWork} \cup Asked \cup Scored \cup Tracked]
    BY <2>2, WorkerMoves
  <2> QED
    BY <1>1, <1>2, <2>3, TypeStays DEF LookUpCertificate, tables, history
<1>3. CASE CommitTrack(w)
  <2>1. worker[w] \in Tracked
    BY <1>3, WorkerKinds DEF CommitTrack
  <2>2. spine' \subseteq Tracks
    BY <1>1, <1>3, <2>1 DEF CommitTrack, Tracked
  <2>3. worker' \in [Workers -> {NoWork} \cup Asked \cup Scored \cup Tracked]
    BY <1>1, <1>3 DEF CommitTrack
  <2> QED
    BY <1>1, <1>3, <2>2, <2>3, TypeStays DEF CommitTrack
<1>4. ASSUME NEW t \in Tracks, receive_event(w, t) PROVE FraudTypeOK'
  <2>1. CASE UNCHANGED worker
    BY <1>1, <1>4, <2>1, TypeStays DEF receive_event, Admit, tables
  <2>2. CASE worker' = [worker EXCEPT ![w] = [pc |-> "certificate", track |-> t]]
    <3>1. [pc |-> "certificate", track |-> t] \in Tracked
      BY DEF Tracked
    <3>2. worker' \in [Workers -> {NoWork} \cup Asked \cup Scored \cup Tracked]
      BY <2>2, <3>1, WorkerMoves
    <3> QED
      BY <1>1, <1>4, <3>2, TypeStays DEF receive_event, Admit, tables
  <2> QED
    BY <1>4, <2>1, <2>2 DEF receive_event
<1> QED
  BY <1>2, <1>3, <1>4

\* The clock, a new merchant and a restart.
LEMMA OtherType ==
    ASSUME FraudTypeOK,
           Tick \/ Restart \/ (\E m \in Merchants : create_merchant(m)) \/ UNCHANGED fraudVars
    PROVE  FraudTypeOK'
<1>1. /\ now \in Nat /\ requests \in Nat /\ crashes \in Nat /\ answers \subseteq Answered
      /\ merchants \subseteq Merchants /\ spine \subseteq Tracks
      /\ worker \in [Workers -> {NoWork} \cup Asked \cup Scored \cup Tracked]
  BY DEF FraudTypeOK
<1>2. CASE Tick
  BY <1>1, <1>2, TypeStays DEF Tick, tables, history
<1>3. CASE Restart
  <2>1. worker' \in [Workers -> {NoWork} \cup Asked \cup Scored \cup Tracked]
    BY <1>3 DEF Restart
  <2> QED
    BY <1>1, <1>3, <2>1, TypeStays DEF Restart, tables
<1>4. CASE \E m \in Merchants : create_merchant(m)
  BY <1>1, <1>4, TypeStays DEF create_merchant, history
<1>5. CASE UNCHANGED fraudVars
  BY <1>1, <1>5, TypeStays DEF fraudVars, tables, history
<1> QED
  BY <1>2, <1>3, <1>4, <1>5

-----------------------------------------------------------------------------
(* The fraud service: birth certificates. *)

\* Steps of other requests.
LEMMA TracksStay ==
    ASSUME TracksHold, UNCHANGED <<spine, certificates, seals>>,
           \A u \in Workers : Tracking(worker'[u]) => worker'[u] = worker[u]
    PROVE  TracksHold'
<1>1. ASSUME NEW u \in Workers, Tracking(worker[u])' PROVE TrackRight(worker[u])'
  <2>1. worker'[u] = worker[u] /\ TrackRight(worker[u])
    BY <1>1 DEF TracksHold, Tracking
  <2> QED
    BY <2>1 DEF TrackRight, CertificateOf
<1>2. CertificatesHold'
  BY DEF TracksHold, CertificatesHold, verify_certificate, CertificateOf
<1> QED
  BY <1>1, <1>2 DEF TracksHold

\* An event that is known is answered with the certificate it minted.
LEMMA ReceiveTracks ==
    ASSUME FraudTypeOK, TracksHold, NEW w \in Workers, NEW t \in Tracks, receive_event(w, t)
    PROVE  TracksHold'
<1>1. CASE /\ worker' = [worker EXCEPT ![w] = [pc |-> "certificate", track |-> t]]
           /\ t.signed /\ UNCHANGED seals
  <2>1. [pc |-> "certificate", track |-> t] \in Tracked
    BY DEF Tracked
  <2>2. /\ worker'[w] = [pc |-> "certificate", track |-> t]
        /\ \A u \in Workers : u # w => worker'[u] = worker[u]
    BY <1>1, <2>1, WorkerMoves
  <2>3. UNCHANGED <<spine, certificates, seals>>
    BY <1>1 DEF receive_event, tables
  <2>4. ASSUME NEW u \in Workers, Tracking(worker[u])' PROVE TrackRight(worker[u])'
    <3>1. CASE u = w
      BY <1>1, <2>2, <3>1 DEF TrackRight
    <3>2. CASE u # w
      BY <2>2, <2>3, <2>4, <3>2 DEF TracksHold, TrackRight, Tracking, CertificateOf
    <3> QED
      BY <3>1, <3>2
  <2>5. CertificatesHold'
    BY <2>3 DEF TracksHold, CertificatesHold, verify_certificate, CertificateOf
  <2> QED
    BY <2>3, <2>4, <2>5 DEF TracksHold
<1>2. ASSUME NEW x \in spine, UNCHANGED worker,
             Seal(x, IF \E c \in certificates : c.event = x.id
                     THEN (CHOOSE c \in certificates : c.event = x.id).seal ELSE None)
      PROVE  TracksHold'
  <2>1. UNCHANGED <<spine, certificates>>
    BY DEF receive_event, tables
  <2>2. PICK seal :
          /\ seals' = seals \cup {[tag |-> x.tag, seal |-> seal]}
          /\ seal # None => \E c \in certificates : c.event = x.id /\ c.seal = seal
    BY <1>2 DEF Seal
  <2>3. seal # None => \E c \in CertificateOf(x.tag) : c.seal = seal
    <3> SUFFICES ASSUME seal # None PROVE \E c \in CertificateOf(x.tag) : c.seal = seal
      OBVIOUS
    <3>1. PICK c \in certificates : c.event = x.id /\ c.seal = seal
      BY <2>2
    <3>2. PICK y \in spine : y.id = c.event /\ c.seal = y /\ c.seal.tag = c.tag
      BY DEF TracksHold, CertificatesHold, verify_certificate
    <3>3. y = x
      BY <3>1, <3>2 DEF TracksHold
    <3> QED
      BY <3>1, <3>2, <3>3 DEF CertificateOf
  <2>4. \A a \in seals' : a.seal # None => \E c \in CertificateOf(a.tag) : c.seal = a.seal
    BY <2>2, <2>3 DEF TracksHold, CertificatesHold
  <2>5. CertificatesHold'
    BY <2>1, <2>4 DEF TracksHold, CertificatesHold, verify_certificate, CertificateOf
  <2> QED
    BY <1>2, <2>1, <2>5 DEF TracksHold, TrackRight, CertificateOf, Tracking
<1> QED
  BY <1>1, <1>2 DEF receive_event

\* A track that is recorded without a new certificate has one already.
LEMMA LookUpTracks ==
    ASSUME FraudTypeOK, TracksHold, NEW w \in Workers, LookUpCertificate(w)
    PROVE  TracksHold'
<1>1. worker[w].pc = "certificate" /\ worker[w] \in Tracked /\ worker[w].track.signed
  BY WorkerKinds DEF LookUpCertificate, TracksHold, Tracking, TrackRight
<1>2. UNCHANGED <<spine, certificates, seals>>
  BY DEF LookUpCertificate, tables, history
<1>3. \A u \in Workers : u # w => worker'[u] = worker[u]
  BY DEF LookUpCertificate, FraudTypeOK
<1>4. worker'[w] = IF Mints(worker[w].track) /\ worker[w].track.tag = None THEN NoWork
                   ELSE [pc |-> IF Mints(worker[w].track) /\ CertificateOf(worker[w].track.tag) = {}
                                THEN "mint" ELSE "record",
                         track |-> worker[w].track]
  BY DEF LookUpCertificate, FraudTypeOK
<1>5. ASSUME NEW u \in Workers, Tracking(worker[u])' PROVE TrackRight(worker[u])'
  <2>1. CASE u = w
    BY <1>1, <1>2, <1>4, <1>5, <2>1 DEF TrackRight, Tracking, NoWork, CertificateOf
  <2>2. CASE u # w
    BY <1>2, <1>3, <1>5, <2>2 DEF TracksHold, TrackRight, Tracking, CertificateOf
  <2> QED
    BY <2>1, <2>2
<1>6. CertificatesHold'
  BY <1>2 DEF TracksHold, CertificatesHold, verify_certificate, CertificateOf
<1> QED
  BY <1>2, <1>5, <1>6 DEF TracksHold

\* The record and the certificate are committed together, or not at all.
LEMMA CommitTracks ==
    ASSUME FraudTypeOK, TracksHold, NEW w \in Workers, CommitTrack(w)
    PROVE  TracksHold'
<1>0. PICK t, pc : t = worker[w].track /\ pc = worker[w].pc
  OBVIOUS
<1> DEFINE mint == pc = "mint"
           c == [tag |-> t.tag, event |-> t.id, seal |-> t]
<1>1. /\ pc \in {"mint", "record"} /\ worker[w] \in Tracked /\ t.signed
      /\ ~mint /\ Mints(t) => CertificateOf(t.tag) # {}
  BY <1>0, WorkerKinds DEF CommitTrack, TracksHold, Tracking, TrackRight
<1>2. worker'[w] = NoWork /\ \A u \in Workers : u # w => worker'[u] = worker[u]
  BY DEF CommitTrack, FraudTypeOK
<1>3. \A u \in Workers : Tracking(worker'[u]) => worker'[u] = worker[u]
  BY <1>2 DEF Tracking, NoWork
<1>4. CASE UNCHANGED <<spine, certificates, seals>>
  BY <1>3, <1>4, TracksStay
<1>5. ASSUME \A x \in spine : x.id # t.id, mint => CertificateOf(t.tag) = {},
             spine' = spine \cup {t},
             certificates' = IF mint THEN certificates \cup {c} ELSE certificates,
             Seal(t, IF mint THEN t
                     ELSE IF Mints(t) THEN (CHOOSE d \in CertificateOf(t.tag) : TRUE).seal
                     ELSE None)
      PROVE  TracksHold'
  <2>1. /\ spine \subseteq spine' /\ certificates \subseteq certificates' /\ t \in spine'
        /\ \A d \in certificates' : d \in certificates \/ (mint /\ d = c)
        /\ mint => c \in certificates'
    BY <1>5
  <2>2. \A tag : CertificateOf(tag) \subseteq CertificateOf(tag)'
    BY <2>1 DEF CertificateOf
  <2>3. CertificateOf(t.tag)' # {} \/ ~Mints(t)
    BY <1>1, <2>1, <2>2 DEF CertificateOf
  <2>4. ASSUME NEW d \in certificates' PROVE verify_certificate(d)' /\ d.seal.tag = d.tag
    <3>1. CASE d \in certificates
      BY <2>1, <3>1 DEF TracksHold, CertificatesHold, verify_certificate
    <3>2. CASE d = c
      BY <1>1, <2>1, <3>2 DEF verify_certificate
    <3> QED
      BY <2>1, <3>1, <3>2
  <2>5. \A d, e \in certificates' : d.tag = e.tag => d = e
    BY <1>5, <2>1 DEF TracksHold, CertificatesHold, CertificateOf
  <2>6. \A s \in spine' : Mints(s) => CertificateOf(s.tag)' # {}
    BY <1>5, <2>2, <2>3 DEF TracksHold, CertificatesHold
  <2>7. \A a \in seals' : a.seal # None => \E d \in CertificateOf(a.tag)' : d.seal = a.seal
    <3>1. PICK seal :
            /\ seals' = seals \cup {[tag |-> t.tag, seal |-> seal]}
            /\ seal # None => \E d \in CertificateOf(t.tag)' : d.seal = seal
      <4>1. CASE mint
        <5>1. c \in CertificateOf(t.tag)' /\ c.seal = t
          BY <2>1, <4>1 DEF CertificateOf
        <5> QED
          BY <1>5, <4>1, <5>1 DEF Seal
      <4>2. CASE ~mint /\ Mints(t)
        BY <1>1, <1>5, <2>2, <4>2 DEF Seal
      <4>3. CASE ~mint /\ ~Mints(t)
        BY <1>5, <4>3 DEF Seal
      <4> QED
        BY <4>1, <4>2, <4>3
    <3>2. \A a \in seals : a.seal # None => \E d \in CertificateOf(a.tag)' : d.seal = a.seal
      BY <2>2 DEF TracksHold, CertificatesHold
    <3> QED
      BY <3>1, <3>2
  <2>8. \A r, s \in spine' : r.id = s.id => r = s
    BY <1>5 DEF TracksHold
  <2>9. ASSUME NEW u \in Workers, Tracking(worker[u])' PROVE TrackRight(worker[u])'
    <3>1. worker'[u] = worker[u] /\ TrackRight(worker[u])
      BY <1>3, <2>9 DEF TracksHold, Tracking
    <3> QED
      BY <2>2, <3>1 DEF TrackRight
  <2>10. CertificatesHold'
    BY <2>4, <2>5, <2>6, <2>7 DEF CertificatesHold
  <2> QED
    BY <2>8, <2>9, <2>10 DEF TracksHold
<1> HIDE DEF mint, c
<1> QED
  BY <1>0, <1>4, <1>5 DEF CommitTrack, mint, c

\* No other step touches a track.
LEMMA OthersTracks ==
    ASSUME FraudTypeOK, TracksHold,
           \/ \E w \in Workers : Calculate(w) \/ save_event(w) \/ store_idempotency(w)
           \/ \E w \in Workers, type \in Endpoints, q \in Asks : Begin(w, type, q)
           \/ \E m \in Merchants : create_merchant(m)
           \/ Tick \/ Restart \/ UNCHANGED fraudVars
    PROVE  TracksHold'
<1>1. UNCHANGED <<spine, certificates, seals>>
  BY DEF Calculate, save_event, store_idempotency, Begin, create_merchant, Tick, Restart,
         fraudVars, tables, history
<1>2. ASSUME NEW w \in Workers, NEW u \in Workers,
             Calculate(w) \/ save_event(w) \/ store_idempotency(w)
      PROVE  Tracking(worker'[u]) => worker'[u] = worker[u]
  <2>1. CASE u # w
    BY <1>2, <2>1 DEF Calculate, save_event, store_idempotency, FraudTypeOK
  <2>2. CASE u = w
    <3>1. CASE Calculate(w)
      BY <2>2, <3>1 DEF Calculate, FraudTypeOK, Tracking
    <3>2. CASE save_event(w)
      <4>1. worker[w] \in Scored
        BY <3>2, WorkerKinds DEF save_event
      <4> QED
        BY <2>2, <3>2, <4>1 DEF save_event, FraudTypeOK, Tracking, NoWork, Scored
    <3>3. CASE store_idempotency(w)
      BY <2>2, <3>3 DEF store_idempotency, FraudTypeOK, Tracking, NoWork
    <3> QED
      BY <1>2, <3>1, <3>2, <3>3
  <2> QED
    BY <2>1, <2>2
<1>3. ASSUME NEW w \in Workers, NEW type \in Endpoints, NEW q \in Asks, NEW u \in Workers,
             Begin(w, type, q)
      PROVE  Tracking(worker'[u]) => worker'[u] = worker[u]
  BY <1>3 DEF Begin, FraudTypeOK, Tracking
<1>4. ASSUME Restart, NEW u \in Workers PROVE ~Tracking(worker'[u])
  BY <1>4 DEF Restart, NoWork, Tracking
<1>5. ASSUME (\E m \in Merchants : create_merchant(m)) \/ Tick \/ UNCHANGED fraudVars
      PROVE  worker' = worker
  BY <1>5 DEF create_merchant, Tick, fraudVars
<1>6. \A u \in Workers : Tracking(worker'[u]) => worker'[u] = worker[u]
  BY <1>2, <1>3, <1>4, <1>5
<1> QED
  BY <1>1, <1>6, TracksStay
-----------------------------------------------------------------------------
(* The fraud service: keys and answers. *)

KeysHold == OneAtWork /\ DecidedRight /\ OneEvent

\* Steps that touch neither a request for a decision nor its tables.
LEMMA KeysStay ==
    ASSUME KeysHold, UNCHANGED <<events, records, answers, lapsed>>,
           merchants \subseteq merchants',
           \A u \in Workers : Asking(worker[u]) \/ Asking(worker'[u]) => worker'[u] = worker[u]
    PROVE  KeysHold'
<1>1. OneAtWork'
  BY DEF KeysHold, OneAtWork, Asking, Lone
<1>2. DecidedRight'
  BY DEF KeysHold, DecidedRight, Asking
<1>3. \A k : Accounted(k) => Accounted(k)'
  BY DEF Accounted, Asking
<1>4. OneEvent'
  BY <1>3 DEF KeysHold, OneEvent, EventKey, Lone
<1> QED
  BY <1>1, <1>2, <1>4 DEF KeysHold

LEMMA OthersKeys ==
    ASSUME FraudTypeOK, KeysHold,
           \/ \E w \in Workers, t \in Tracks : receive_event(w, t)
           \/ \E w \in Workers : LookUpCertificate(w) \/ CommitTrack(w)
           \/ \E m \in Merchants : create_merchant(m)
           \/ Tick \/ UNCHANGED fraudVars
    PROVE  KeysHold'
<1>1. UNCHANGED <<events, records, answers, lapsed>> /\ merchants \subseteq merchants'
  BY DEF receive_event, LookUpCertificate, CommitTrack, create_merchant, Tick, fraudVars,
         tables, history
<1>2. ASSUME NEW w \in Workers, NEW t \in Tracks, NEW u \in Workers, receive_event(w, t),
             Asking(worker[u]) \/ Asking(worker'[u])
      PROVE  worker'[u] = worker[u]
  BY <1>2 DEF receive_event, Admit, FraudTypeOK, Asking, NoWork
<1>3. ASSUME NEW w \in Workers, NEW u \in Workers, LookUpCertificate(w) \/ CommitTrack(w),
             Asking(worker[u]) \/ Asking(worker'[u])
      PROVE  worker'[u] = worker[u]
  <2>1. worker[w].pc \in {"certificate", "mint", "record"}
    BY <1>3 DEF LookUpCertificate, CommitTrack
  <2>2. ~Asking(worker[w])
    BY <2>1 DEF Asking
  <2>3. ~Asking(worker'[w])
    <3>1. CASE LookUpCertificate(w)
      BY <3>1 DEF LookUpCertificate, FraudTypeOK, Asking, NoWork
    <3>2. CASE CommitTrack(w)
      BY <3>2 DEF CommitTrack, FraudTypeOK, Asking, NoWork
    <3> QED
      BY <1>3, <3>1, <3>2
  <2>4. \A v \in Workers : v # w => worker'[v] = worker[v]
    BY <1>3 DEF LookUpCertificate, CommitTrack, FraudTypeOK
  <2> QED
    BY <1>3, <2>2, <2>3, <2>4
<1>4. ASSUME (\E m \in Merchants : create_merchant(m)) \/ Tick \/ UNCHANGED fraudVars
      PROVE  worker' = worker
  BY <1>4 DEF create_merchant, Tick, fraudVars
<1>5. \A u \in Workers : Asking(worker[u]) \/ Asking(worker'[u]) => worker'[u] = worker[u]
  BY <1>2, <1>3, <1>4
<1> QED
  BY <1>1, <1>5, KeysStay

\* A request whose key has a record is answered with it; any other one starts
\* to work, and its key lapses if another request of the key is at work.
LEMMA BeginKeys ==
    ASSUME FraudTypeOK, KeysHold, NEW w \in Workers, NEW type \in Endpoints, NEW q \in Asks,
           Begin(w, type, q)
    PROVE  KeysHold'
<1>1. PICK k : k = RecordKey(type, q) /\ k[2] = type /\ k[3] = q.key /\ k \in RecordKeys
  BY AskFields
<1>2. UNCHANGED <<merchants, events, records>> /\ q.merchant \in merchants /\ worker[w] = NoWork
  BY DEF Begin, Admit, tables
<1>3. ASSUME NEW x \in records, x.key = k,
             answers' = answers \cup {[key |-> k, response |-> x.response]},
             UNCHANGED <<worker, lapsed>>
      PROVE  KeysHold'
  <2>1. x = [key |-> k, response |-> x.response]
    BY <1>3 DEF FraudTypeOK, Answered
  <2>2. answers' = answers \cup {x}
    BY <1>3, <2>1
  <2>3. OneAtWork'
    BY <1>2, <1>3, <2>2 DEF KeysHold, OneAtWork, Asking, Lone
  <2>4. DecidedRight'
    BY <1>2, <1>3, <2>2 DEF KeysHold, DecidedRight
  <2>5. OneEvent'
    BY <1>2, <1>3 DEF KeysHold, OneEvent, EventKey, Lone, Accounted
  <2> QED
    BY <2>3, <2>4, <2>5 DEF KeysHold
<1>4. ASSUME \A x \in records : x.key # k, UNCHANGED answers,
             worker' = [worker EXCEPT ![w] =
                [pc |-> "score", type |-> type, q |-> q, key |-> k,
                 from |-> Len(events), at |-> now]],
             lapsed' = IF q.key # None /\ InFlight(k) THEN lapsed \cup {k} ELSE lapsed
      PROVE  KeysHold'
  <2>1. /\ worker'[w].pc = "score" /\ worker'[w].type = type /\ worker'[w].q = q
        /\ worker'[w].key = k
        /\ \A u \in Workers : u # w => worker'[u] = worker[u]
    BY <1>4 DEF FraudTypeOK
  <2>2. /\ \A l : Lone(l)' => Lone(l)
        /\ Lone(k)' => ~InFlight(k)
    BY <1>1, <1>4 DEF Lone
  <2>3. OneAtWork'
    <3>1. \A u \in Workers : Asking(worker'[u]) =>
            /\ worker'[u].key = RecordKey(worker'[u].type, worker'[u].q)
            /\ worker'[u].q.merchant \in merchants
            /\ worker'[u].pc = "store" => worker'[u].key[3] # None
      BY <1>1, <1>2, <2>1 DEF KeysHold, OneAtWork
    <3>2. ASSUME NEW u \in Workers, NEW v \in Workers, Asking(worker'[u]), Asking(worker'[v]),
                 worker'[u].key = worker'[v].key, Lone(worker[u].key)', u # v
          PROVE  FALSE
      <4>1. CASE u # w /\ v # w
        BY <2>1, <2>2, <3>2, <4>1 DEF KeysHold, OneAtWork
      <4>2. CASE u = w
        BY <2>1, <2>2, <3>2, <4>2 DEF InFlight, Asking
      <4>3. CASE v = w
        BY <2>1, <2>2, <3>2, <4>3 DEF InFlight, Asking
      <4> QED
        BY <4>1, <4>2, <4>3
    <3>3. \A x, y \in records : x.key = y.key /\ Lone(x.key)' => x = y
      BY <2>2 DEF KeysHold, OneAtWork
    <3>4. \A x \in records, u \in Workers :
            Asking(worker'[u]) /\ Lone(x.key)' => worker'[u].key # x.key
      BY <1>4, <2>1, <2>2 DEF KeysHold, OneAtWork
    <3>5. \A a \in answers : a.key[3] # None => a \in records
      BY DEF KeysHold, OneAtWork
    <3> QED
      BY <1>2, <1>4, <3>1, <3>2, <3>3, <3>4, <3>5 DEF OneAtWork
  <2>4. DecidedRight'
    BY <1>2, <1>4, <2>1 DEF KeysHold, DecidedRight
  <2>5. ASSUME NEW l, Lone(l)', Accounted(l) PROVE Accounted(l)'
    <3>1. l # k
      BY <1>4, <2>2, <2>5 DEF Accounted, InFlight
    <3>2. \A u \in Workers : worker[u].pc = "store" => u # w
      BY <1>2 DEF NoWork
    <3> QED
      BY <1>2, <2>1, <2>5, <3>1, <3>2 DEF Accounted
  <2>6. OneEvent'
    <3>1. \A i \in DOMAIN events :
            events[i].from >= 0 /\ Lone(EventKey(events[i]))' => Accounted(EventKey(events[i]))'
      BY <1>2, <2>2, <2>5 DEF KeysHold, OneEvent, EventKey
    <3> QED
      BY <1>2, <2>2, <3>1 DEF KeysHold, OneEvent, EventKey
  <2> QED
    BY <2>3, <2>4, <2>6 DEF KeysHold
<1>5. (\E x \in check_idempotency(type, q) :
            /\ answers' = answers \cup {[key |-> k, response |-> x.response]}
            /\ UNCHANGED <<worker, lapsed>>)
      \/ (/\ check_idempotency(type, q) = {}
          /\ UNCHANGED answers
          /\ worker' = [worker EXCEPT ![w] =
                [pc |-> "score", type |-> type, q |-> q, key |-> k,
                 from |-> Len(events), at |-> now]]
          /\ lapsed' = IF q.key # None /\ InFlight(k) THEN lapsed \cup {k} ELSE lapsed)
  BY <1>1 DEF Begin
<1> QED
  BY <1>1, <1>3, <1>4, <1>5 DEF check_idempotency

\* Scoring keeps the key of the request.
LEMMA CalculateKeys ==
    ASSUME FraudTypeOK, KeysHold, NEW w \in Workers, Calculate(w)
    PROVE  KeysHold'
<1>1. PICK seen \in [Velocity(worker[w].type) -> worker[w].from .. Len(events)], v \in Scored :
        /\ worker' = [worker EXCEPT ![w] = v]
        /\ v.pc = "save" /\ v.type = worker[w].type /\ v.q = worker[w].q
        /\ v.key = worker[w].key /\ v.from = worker[w].from /\ v.at = worker[w].at
        /\ v.response = Response(v.type, Signs(v.type, v.q.body) \cup Raised(v, seen))
        /\ Signs(v.type, v.q.body) \cup Raised(v, seen) \in SUBSET DOMAIN Weights(v.type)
        /\ worker[w].pc = "score"
  BY CalculateTells
<1>2. worker'[w] = v /\ \A u \in Workers : u # w => worker'[u] = worker[u]
  BY <1>1, WorkerMoves
<1>3. v.response.decision \in DecisionsOf(v.type)
  BY <1>1, ResponseIsDecided DEF Scored
<1>4. UNCHANGED <<merchants, events, records, answers, lapsed>>
  BY DEF Calculate, tables, history
<1>5. \A u \in Workers :
        /\ Asking(worker'[u]) <=> Asking(worker[u])
        /\ Asking(worker[u]) =>
             /\ worker'[u].key = worker[u].key /\ worker'[u].type = worker[u].type
             /\ worker'[u].q = worker[u].q
        /\ worker'[u].pc \in {"score", "save"} <=> worker[u].pc \in {"score", "save"}
        /\ worker'[u].pc = "store" <=> worker[u].pc = "store"
  BY <1>1, <1>2 DEF Asking
<1>6. OneAtWork'
  BY <1>4, <1>5 DEF KeysHold, OneAtWork, Asking, Lone
<1>7. DecidedRight'
  BY <1>2, <1>3, <1>4 DEF KeysHold, DecidedRight
<1>8. \A k : Accounted(k) => Accounted(k)'
  BY <1>4, <1>5 DEF Accounted, Asking
<1>9. OneEvent'
  BY <1>4, <1>8 DEF KeysHold, OneEvent, EventKey, Lone
<1> QED
  BY <1>6, <1>7, <1>9 DEF KeysHold

\* The event of a key that one request was made with is its first.
LEMMA SaveKeys ==
    ASSUME FraudTypeOK, KeysHold, NEW w \in Workers, save_event(w)
    PROVE  KeysHold'
<1>1. PICK x \in Event : events' = Append(events, x) /\ EventKey(x) = worker[w].key
  BY SaveTells DEF KeysHold
<1>2. PICK k : k = worker[w].key
  OBVIOUS
<1>3. /\ worker[w].pc = "save" /\ Asking(worker[w]) /\ worker[w] \in Scored
      /\ UNCHANGED <<merchants, records, lapsed>>
  BY WorkerKinds DEF save_event, Asking
<1>4. k = RecordKey(worker[w].type, worker[w].q) /\ k[3] = worker[w].q.key /\ k[2] = worker[w].type
  BY <1>2, <1>3, AskFields DEF KeysHold, OneAtWork, Scored
<1>5. /\ Len(events') = Len(events) + 1 /\ Len(events) \in Nat
      /\ \A i \in DOMAIN events : events'[i] = events[i]
      /\ events'[Len(events) + 1] = x
      /\ \A i \in DOMAIN events' : i \in DOMAIN events \/ i = Len(events) + 1
  BY <1>1 DEF FraudTypeOK
<1>6. \A i \in DOMAIN events : events[i].from >= 0 /\ Lone(EventKey(events[i])) =>
        EventKey(events[i]) # k
  BY <1>2, <1>3 DEF KeysHold, OneEvent, Accounted
<1>7. /\ \A u \in Workers : u # w => worker'[u] = worker[u]
      /\ k[3] # None =>
           /\ worker'[w].pc = "store" /\ worker'[w].key = k /\ UNCHANGED answers
           /\ worker'[w].type = worker[w].type /\ worker'[w].q = worker[w].q
           /\ worker'[w].response = worker[w].response
      /\ k[3] = None =>
           /\ worker'[w] = NoWork
           /\ answers' = answers \cup {[key |-> k, response |-> worker[w].response]}
  BY <1>2, <1>3, <1>4 DEF save_event, FraudTypeOK, Scored
<1>8. \A l : Lone(l)' <=> Lone(l)
  BY <1>3 DEF Lone
<1>9. OneAtWork'
  <2>1. \A u \in Workers : Asking(worker'[u]) =>
          /\ Asking(worker[u]) /\ worker'[u].key = worker[u].key
          /\ worker'[u].type = worker[u].type /\ worker'[u].q = worker[u].q
    BY <1>2, <1>3, <1>7 DEF Asking, NoWork
  <2>2. \A u \in Workers : worker'[u].pc = "store" => worker'[u].key[3] # None
    BY <1>7 DEF KeysHold, OneAtWork, Asking, NoWork
  <2>3. \A a \in answers' : a.key[3] # None => a \in answers
    BY <1>7
  <2> QED
    BY <1>3, <1>8, <2>1, <2>2, <2>3 DEF KeysHold, OneAtWork
<1>10. DecidedRight'
  <2>1. worker[w].response.decision \in DecisionsOf(k[2])
    BY <1>3, <1>4 DEF KeysHold, DecidedRight
  <2>2. \A a \in answers' : a.response.decision \in DecisionsOf(a.key[2])
    BY <1>7, <2>1 DEF KeysHold, DecidedRight
  <2>3. ASSUME NEW u \in Workers, worker'[u].pc \in {"save", "store"}
        PROVE  worker'[u].response.decision \in DecisionsOf(worker'[u].type)
    BY <1>3, <1>7, <2>3 DEF KeysHold, DecidedRight, NoWork
  <2> QED
    BY <1>3, <2>2, <2>3 DEF KeysHold, DecidedRight
<1>11. OneEvent'
  <2>1. ASSUME NEW l, l # k, Accounted(l) PROVE Accounted(l)'
    <3>1. \A u \in Workers : worker'[u].pc \in {"score", "save"} => worker'[u] = worker[u]
      BY <1>7 DEF NoWork
    <3>2. \A u \in Workers : worker[u].pc = "store" => worker'[u] = worker[u]
      BY <1>3, <1>7
    <3> QED
      BY <1>3, <2>1, <3>1, <3>2 DEF Accounted
  <2>2. ASSUME Lone(k) PROVE Accounted(k)'
    <3>1. worker'[w].pc = "store" /\ worker'[w].key = k
      BY <1>7, <2>2 DEF Lone
    <3>2. ASSUME NEW u \in Workers, worker'[u].pc \in {"score", "save"}, worker'[u].key = k
          PROVE  FALSE
      <4>1. u # w /\ worker'[u] = worker[u]
        BY <1>7, <3>1, <3>2
      <4> QED
        BY <1>2, <1>3, <2>2, <3>2, <4>1 DEF KeysHold, OneAtWork, Asking
    <3> QED
      BY <3>1, <3>2 DEF Accounted
  <2>3. ASSUME NEW i \in DOMAIN events', events'[i].from >= 0, Lone(EventKey(events'[i]))
        PROVE  Accounted(EventKey(events[i]))'
    <3>1. CASE i \in DOMAIN events
      <4>1. EventKey(events'[i]) = EventKey(events[i]) /\ Accounted(EventKey(events[i]))
        BY <1>5, <2>3, <3>1 DEF KeysHold, OneEvent
      <4>2. EventKey(events'[i]) # k
        BY <1>5, <1>6, <2>3, <3>1
      <4>3. PICK l : l = EventKey(events'[i])
        OBVIOUS
      <4>4. Accounted(l)'
        BY <2>1, <4>1, <4>2, <4>3
      <4> QED
        BY <4>3, <4>4 DEF EventKey
    <3>2. CASE i = Len(events) + 1
      <4>1. EventKey(events'[i]) = k
        BY <1>1, <1>2, <1>5, <3>2
      <4> QED
        BY <2>2, <2>3, <4>1 DEF EventKey
    <3> QED
      BY <1>5, <3>1, <3>2
  <2>4. ASSUME NEW i \in DOMAIN events', NEW j \in DOMAIN events',
               events'[i].from >= 0, events'[j].from >= 0,
               EventKey(events'[i]) = EventKey(events'[j]), Lone(EventKey(events'[i]))
        PROVE  i = j
    BY <1>1, <1>2, <1>5, <1>6, <2>4 DEF KeysHold, OneEvent
  <2> QED
    BY <1>8, <2>3, <2>4 DEF OneEvent, EventKey
<1> QED
  BY <1>9, <1>10, <1>11 DEF KeysHold

\* The record takes the place of the request.
LEMMA StoreKeys ==
    ASSUME FraudTypeOK, KeysHold, NEW w \in Workers, store_idempotency(w)
    PROVE  KeysHold'
<1>1. PICK k, x : k = worker[w].key /\ x = [key |-> k, response |-> worker[w].response]
  OBVIOUS
<1>2. /\ worker[w].pc = "store" /\ Asking(worker[w]) /\ worker[w] \in Scored
      /\ UNCHANGED <<merchants, events, lapsed>>
      /\ records' = records \cup {x} /\ answers' = answers \cup {x}
  BY <1>1, WorkerKinds DEF store_idempotency, Asking
<1>3. worker'[w] = NoWork /\ \A u \in Workers : u # w => worker'[u] = worker[u]
  BY DEF store_idempotency, FraudTypeOK
<1>4. k[2] = worker[w].type /\ k[3] # None
  BY <1>1, <1>2, AskFields DEF KeysHold, OneAtWork, Scored
<1>5. \A u \in Workers : Asking(worker'[u]) => u # w /\ worker'[u] = worker[u]
  BY <1>3 DEF Asking, NoWork
<1>6. OneAtWork'
  <2>1. Lone(k) => \A y \in records : y.key # k
    BY <1>1, <1>2 DEF KeysHold, OneAtWork
  <2>2. Lone(k) => \A u \in Workers : Asking(worker'[u]) => worker'[u].key # k
    BY <1>1, <1>2, <1>5 DEF KeysHold, OneAtWork
  <2>3. \A u \in Workers : Asking(worker'[u]) =>
          /\ worker'[u].key = RecordKey(worker'[u].type, worker'[u].q)
          /\ worker'[u].q.merchant \in merchants
          /\ worker'[u].pc = "store" => worker'[u].key[3] # None
    BY <1>5 DEF KeysHold, OneAtWork
  <2>4. \A u, v \in Workers :
          /\ Asking(worker'[u]) /\ Asking(worker'[v])
          /\ worker'[u].key = worker'[v].key /\ Lone(worker'[u].key)
          => u = v
    BY <1>5 DEF KeysHold, OneAtWork
  <2>5. \A y, z \in records' : y.key = z.key /\ Lone(y.key) => y = z
    BY <1>1, <1>2, <2>1 DEF KeysHold, OneAtWork
  <2>6. \A y \in records', u \in Workers :
          Asking(worker'[u]) /\ Lone(y.key) => worker'[u].key # y.key
    BY <1>1, <1>2, <1>5, <2>2 DEF KeysHold, OneAtWork
  <2>7. \A a \in answers' : a.key[3] # None => a \in records'
    BY <1>2 DEF KeysHold, OneAtWork
  <2>8. \A l : Lone(l)' <=> Lone(l)
    BY <1>2 DEF Lone
  <2> QED
    BY <1>2, <2>3, <2>4, <2>5, <2>6, <2>7, <2>8 DEF OneAtWork
<1>7. DecidedRight'
  <2>1. x.response.decision \in DecisionsOf(x.key[2])
    BY <1>1, <1>2, <1>4 DEF KeysHold, DecidedRight
  <2>2. ASSUME NEW u \in Workers, worker'[u].pc \in {"save", "store"}
        PROVE  worker'[u].response.decision \in DecisionsOf(worker'[u].type)
    BY <1>5, <2>2 DEF KeysHold, DecidedRight, Asking
  <2> QED
    BY <1>2, <2>1, <2>2 DEF KeysHold, DecidedRight
<1>8. ASSUME NEW l, Accounted(l) PROVE Accounted(l)'
  <2>1. \A u \in Workers : worker'[u].pc \in {"score", "save"} => worker'[u].key # l
    BY <1>5, <1>8 DEF Accounted, Asking
  <2>2. CASE \E u \in Workers : worker[u].pc = "store" /\ worker[u].key = l
    BY <1>1, <1>2, <1>3, <2>1, <2>2 DEF Accounted
  <2>3. CASE \E y \in records : y.key = l
    BY <1>2, <2>1, <2>3 DEF Accounted
  <2> QED
    BY <1>8, <2>2, <2>3 DEF Accounted
<1>9. OneEvent'
  BY <1>2, <1>8 DEF KeysHold, OneEvent, EventKey, Lone
<1> QED
  BY <1>6, <1>7, <1>9 DEF KeysHold

\* A restart forgets the requests at work; the keys whose event is committed
\* and whose record is not have lapsed.
LEMMA RestartKeys ==
    ASSUME FraudTypeOK, KeysHold, Restart
    PROVE  KeysHold'
<1>1. /\ \A u \in Workers : worker'[u] = NoWork
      /\ UNCHANGED <<merchants, events, records, answers>>
      /\ \A u \in Workers : worker[u].pc = "store" => worker[u].key \in lapsed'
      /\ lapsed \subseteq lapsed'
  BY DEF Restart, tables
<1>2. \A l : Lone(l)' => Lone(l)
  BY <1>1 DEF Lone
<1>3. \A u \in Workers : ~Asking(worker'[u]) /\ worker'[u].pc = "idle"
  BY <1>1 DEF Asking, NoWork
<1>4. OneAtWork'
  BY <1>1, <1>2, <1>3 DEF KeysHold, OneAtWork
<1>5. DecidedRight'
  BY <1>1, <1>3 DEF KeysHold, DecidedRight
<1>6. ASSUME NEW l, Lone(l)', Accounted(l) PROVE Accounted(l)'
  BY <1>1, <1>3, <1>6 DEF Accounted, Lone
<1>7. \A i \in DOMAIN events :
        events[i].from >= 0 /\ Lone(EventKey(events[i]))' => Accounted(EventKey(events[i]))'
  BY <1>1, <1>2, <1>6 DEF KeysHold, OneEvent, EventKey
<1>8. OneEvent'
  BY <1>1, <1>2, <1>7 DEF KeysHold, OneEvent, EventKey
<1> QED
  BY <1>4, <1>5, <1>8 DEF KeysHold
-----------------------------------------------------------------------------
(* The fraud service: reasons. *)

LEMMA OwnIsCounted ==
    ASSUME NEW m, NEW type, NEW b, NEW n, NEW t
    PROVE  OwnVelocity(m, type, b, n, t) =
             {r \in Velocity(type) : Counted(m, r, b, n, t) >= Threshold[r]}
<1> DEFINE own == Restrict(events, {i \in 1..n : events[i].merchant = m})
<1>1. DOMAIN own = {i \in 1..n : events[i].merchant = m} /\ \A i \in DOMAIN own : own[i] = events[i]
  BY DEF Restrict
<1>2. OwnVelocity(m, type, b, n, t) =
        {r \in Velocity(type) :
            Cardinality({i \in DOMAIN own : Counts(r, b, own[i], t)}) >= Threshold[r]}
  BY DEF OwnVelocity
<1> HIDE DEF own
<1>3. ASSUME NEW r
      PROVE  {i \in DOMAIN own : Counts(r, b, own[i], t)} =
               {i \in 1..n : events[i].merchant = m /\ Counts(r, b, events[i], t)}
  BY <1>1
<1>4. \A r : Cardinality({i \in DOMAIN own : Counts(r, b, own[i], t)}) = Counted(m, r, b, n, t)
  BY <1>3 DEF Counted
<1> QED
  BY <1>2, <1>4

\* More rows count for more.
LEMMA CountedGrows ==
    ASSUME NEW m, NEW r, NEW b, NEW n \in Nat, NEW p \in Nat, n <= p, NEW t
    PROVE  /\ Counted(m, r, b, n, t) \in Nat /\ Counted(m, r, b, p, t) \in Nat
           /\ Counted(m, r, b, n, t) <= Counted(m, r, b, p, t)
<1> DEFINE S(k) == {i \in 1..k : events[i].merchant = m /\ Counts(r, b, events[i], t)}
<1>1. IsFiniteSet(1..p)
  BY FS_Interval
<1>2. S(n) \subseteq S(p) /\ S(p) \subseteq 1..p
  OBVIOUS
<1>3. Counted(m, r, b, n, t) = Cardinality(S(n)) /\ Counted(m, r, b, p, t) = Cardinality(S(p))
  BY DEF Counted
<1> HIDE DEF S
<1>4. IsFiniteSet(S(p))
  BY <1>1, <1>2, FS_Subset
<1>5. IsFiniteSet(S(n)) /\ Cardinality(S(n)) <= Cardinality(S(p))
  BY <1>2, <1>4, FS_Subset
<1> QED
  BY <1>3, <1>4, <1>5, FS_CardinalityType

LEMMA OwnGrows ==
    ASSUME NEW m, NEW type, NEW b, NEW n \in Nat, NEW p \in Nat, n <= p, NEW t
    PROVE  OwnVelocity(m, type, b, n, t) \subseteq OwnVelocity(m, type, b, p, t)
<1>1. ASSUME NEW r \in Velocity(type), Counted(m, r, b, n, t) >= Threshold[r]
      PROVE  Counted(m, r, b, p, t) >= Threshold[r]
  <2>1. Threshold[r] \in Nat
    BY DEF Velocity, Threshold
  <2> QED
    BY <1>1, <2>1, CountedGrows
<1> QED
  BY <1>1, OwnIsCounted

LEMMA OwnGrowsNext ==
    (\A m, type, b, t : \A n, p \in Nat :
        n <= p => OwnVelocity(m, type, b, n, t) \subseteq OwnVelocity(m, type, b, p, t))'
<1>1. \A m, type, b, t : \A n, p \in Nat :
        n <= p => OwnVelocity(m, type, b, n, t) \subseteq OwnVelocity(m, type, b, p, t)
  BY OwnGrows
<1> QED
  BY <1>1, PTL

\* A new row leaves the counts of the earlier ones alone.
LEMMA OwnKept ==
    ASSUME events \in Seq(Event), NEW x \in Event, events' = Append(events, x),
           NEW m, NEW type, NEW b, NEW n \in Nat, n <= Len(events), NEW t
    PROVE  OwnVelocity(m, type, b, n, t)' = OwnVelocity(m, type, b, n, t)
<1>1. \A i \in 1..n : events'[i] = events[i]
  OBVIOUS
<1>2. Restrict(events', {i \in 1..n : events'[i].merchant = m}) =
        Restrict(events, {i \in 1..n : events[i].merchant = m})
  BY <1>1 DEF Restrict
<1> QED
  BY <1>2 DEF OwnVelocity

LEMMA ReasonsKept ==
    ASSUME events \in Seq(Event), NEW x \in Event, events' = Append(events, x),
           NEW m, NEW type, NEW b, NEW from \in Nat, NEW upto \in Nat, NEW n \in Nat,
           from <= Len(events), upto <= Len(events), upto <= n,
           NEW t, NEW reasons, ReasonsRight(m, type, b, from, upto, t, reasons)
    PROVE  ReasonsRight(m, type, b, from, n, t, reasons)'
<1>1. /\ OwnVelocity(m, type, b, from, t)' = OwnVelocity(m, type, b, from, t)
      /\ OwnVelocity(m, type, b, upto, t)' = OwnVelocity(m, type, b, upto, t)
  BY OwnKept
<1>2. OwnVelocity(m, type, b, upto, t)' \subseteq OwnVelocity(m, type, b, n, t)'
  BY OwnGrowsNext
<1> QED
  BY <1>1, <1>2 DEF ReasonsRight

\* What a request finds lies between the rows it could see first and last.
LEMMA RaisedIsOwn ==
    ASSUME events \in Seq(Event), NEW v, v.type \in Endpoints, v.from \in Nat, v.from <= Len(events),
           NEW seen \in [Velocity(v.type) -> v.from .. Len(events)]
    PROVE  ReasonsRight(v.q.merchant, v.type, v.q.body, v.from, Len(events), v.at,
                        Signs(v.type, v.q.body) \cup Raised(v, seen))
<1> DEFINE m == v.q.merchant
           b == v.q.body
<1>1. Signs(v.type, b) \cap Velocity(v.type) = {} /\ Raised(v, seen) \subseteq Velocity(v.type)
  BY SignsAreSignals DEF Raised
<1>2. (Signs(v.type, b) \cup Raised(v, seen)) \cap Velocity(v.type) = Raised(v, seen)
  BY <1>1
<1>3. ASSUME NEW r \in Velocity(v.type)
      PROVE  /\ Counted(m, r, b, v.from, v.at) >= Threshold[r] =>
                  Counted(m, r, b, seen[r], v.at) >= Threshold[r]
             /\ Counted(m, r, b, seen[r], v.at) >= Threshold[r] =>
                  Counted(m, r, b, Len(events), v.at) >= Threshold[r]
  <2>1. Threshold[r] \in Nat
    BY DEF Velocity, Threshold
  <2>2. PICK n \in Nat : n = seen[r] /\ v.from <= n /\ n <= Len(events)
    OBVIOUS
  <2>3. Len(events) \in Nat
    OBVIOUS
  <2>4. /\ Counted(m, r, b, v.from, v.at) \in Nat /\ Counted(m, r, b, n, v.at) \in Nat
        /\ Counted(m, r, b, v.from, v.at) <= Counted(m, r, b, n, v.at)
    BY <2>2, CountedGrows
  <2>5. /\ Counted(m, r, b, Len(events), v.at) \in Nat
        /\ Counted(m, r, b, n, v.at) <= Counted(m, r, b, Len(events), v.at)
    BY <2>2, <2>3, CountedGrows
  <2> QED
    BY <2>1, <2>2, <2>4, <2>5
<1>4. OwnVelocity(m, v.type, b, v.from, v.at) \subseteq Raised(v, seen)
  BY <1>3, OwnIsCounted DEF Raised
<1>5. Raised(v, seen) \subseteq OwnVelocity(m, v.type, b, Len(events), v.at)
  BY <1>3, OwnIsCounted DEF Raised
<1> HIDE DEF m, b
<1>6. ReasonsRight(m, v.type, b, v.from, Len(events), v.at,
                   Signs(v.type, b) \cup Raised(v, seen))
  BY <1>1, <1>2, <1>4, <1>5 DEF ReasonsRight
<1> QED
  BY <1>6 DEF m, b

\* What a request that is scored holds, of it alone.
ScoreRight(v) ==
    /\ Asking(v) => v.from <= Len(events)
    /\ v.pc \in {"save", "store"} =>
         /\ v.response = Response(v.type, v.response.reasons)
         /\ ReasonsRight(v.q.merchant, v.type, v.q.body, v.from, Len(events), v.at,
                         v.response.reasons)

\* What a row that a request has saved holds.
RowRight(i, x) ==
    /\ x.from < i
    /\ x.decision = Decision(x.type, RiskScore(x.type, x.reasons))
    /\ ReasonsRight(x.merchant, x.type, x.body, x.from, i - 1, x.scored, x.reasons)

LEMMA ScoresSplit ==
    ScoresAreTrue <=>
      /\ \A w \in Workers : ScoreRight(worker[w])
      /\ \A i \in DOMAIN events : events[i].from >= 0 => RowRight(i, events[i])
BY DEF ScoresAreTrue, ScoreRight, RowRight

LEMMA ScoresSplitNext ==
    ScoresAreTrue' <=>
      /\ \A w \in Workers : ScoreRight(worker[w])'
      /\ \A i \in DOMAIN events' : events'[i].from >= 0 => RowRight(i, events[i])'
BY DEF ScoresAreTrue, ScoreRight, RowRight

\* Steps that leave the events alone.
LEMMA ScoresStay ==
    ASSUME ScoresAreTrue, UNCHANGED events,
           \A u \in Workers : Asking(worker'[u]) => worker'[u] = worker[u] \/ ScoreRight(worker'[u])
    PROVE  ScoresAreTrue'
<1>1. \A m, type, b, n, t : OwnVelocity(m, type, b, n, t)' = OwnVelocity(m, type, b, n, t)
  BY DEF OwnVelocity
<1>2. \A m, type, b, from, n, t, reasons :
        ReasonsRight(m, type, b, from, n, t, reasons)' <=>
          ReasonsRight(m, type, b, from, n, t, reasons)
  BY <1>1 DEF ReasonsRight
<1>3. ASSUME NEW u \in Workers PROVE ScoreRight(worker[u])'
  <2>1. PICK v : v = worker'[u]
    OBVIOUS
  <2>2. Asking(v) => ScoreRight(v)
    BY <2>1, ScoresSplit
  <2>3. ScoreRight(v)
    BY <2>2 DEF ScoreRight, Asking
  <2>4. ScoreRight(v)'
    BY <1>2, <2>3 DEF ScoreRight
  <2> QED
    BY <2>1, <2>4 DEF ScoreRight
<1>4. ASSUME NEW i \in DOMAIN events, events[i].from >= 0 PROVE RowRight(i, events[i])'
  <2>1. PICK x : x = events[i] /\ RowRight(i, x)
    BY <1>4, ScoresSplit
  <2>2. RowRight(i, x)'
    BY <1>2, <2>1 DEF RowRight
  <2> QED
    BY <2>1, <2>2 DEF RowRight
<1> QED
  BY <1>3, <1>4, ScoresSplitNext

LEMMA OthersScores ==
    ASSUME FraudTypeOK, ScoresAreTrue,
           \/ \E w \in Workers, t \in Tracks : receive_event(w, t)
           \/ \E w \in Workers : \/ LookUpCertificate(w) \/ CommitTrack(w)
                                 \/ store_idempotency(w)
           \/ \E m \in Merchants : create_merchant(m)
           \/ Tick \/ Restart \/ UNCHANGED fraudVars
    PROVE  ScoresAreTrue'
<1>1. UNCHANGED events
  BY DEF receive_event, LookUpCertificate, CommitTrack, store_idempotency, create_merchant,
         Tick, Restart, fraudVars, tables
<1>2. ASSUME NEW w \in Workers, NEW t \in Tracks, NEW u \in Workers, receive_event(w, t),
             Asking(worker'[u])
      PROVE  worker'[u] = worker[u]
  BY <1>2 DEF receive_event, FraudTypeOK, Asking
<1>3. ASSUME NEW w \in Workers, NEW u \in Workers,
             LookUpCertificate(w) \/ CommitTrack(w) \/ store_idempotency(w), Asking(worker'[u])
      PROVE  worker'[u] = worker[u]
  <2>1. CASE LookUpCertificate(w)
    BY <1>3, <2>1 DEF LookUpCertificate, FraudTypeOK, Asking, NoWork
  <2>2. CASE CommitTrack(w)
    BY <1>3, <2>2 DEF CommitTrack, FraudTypeOK, Asking, NoWork
  <2>3. CASE store_idempotency(w)
    BY <1>3, <2>3 DEF store_idempotency, FraudTypeOK, Asking, NoWork
  <2> QED
    BY <1>3, <2>1, <2>2, <2>3
<1>4. ASSUME Restart, NEW u \in Workers PROVE ~Asking(worker'[u])
  BY <1>4 DEF Restart, NoWork, Asking
<1>5. ASSUME (\E m \in Merchants : create_merchant(m)) \/ Tick \/ UNCHANGED fraudVars
      PROVE  worker' = worker
  BY <1>5 DEF create_merchant, Tick, fraudVars
<1>6. \A u \in Workers : Asking(worker'[u]) => worker'[u] = worker[u]
  BY <1>2, <1>3, <1>4, <1>5
<1> QED
  BY <1>1, <1>6, ScoresStay

LEMMA BeginScores ==
    ASSUME FraudTypeOK, ScoresAreTrue, NEW w \in Workers, NEW type \in Endpoints, NEW q \in Asks,
           Begin(w, type, q)
    PROVE  ScoresAreTrue'
<1>1. UNCHANGED events /\ Len(events) \in Nat
  BY DEF Begin, tables, FraudTypeOK
<1>2. ASSUME NEW u \in Workers PROVE worker'[u] = worker[u] \/ ScoreRight(worker'[u])
  BY <1>1 DEF Begin, FraudTypeOK, ScoreRight
<1> QED
  BY <1>1, <1>2, ScoresStay

LEMMA CalculateScores ==
    ASSUME FraudTypeOK, ScoresAreTrue, NEW w \in Workers, Calculate(w)
    PROVE  ScoresAreTrue'
<1>1. PICK seen \in [Velocity(worker[w].type) -> worker[w].from .. Len(events)], v \in Scored :
        /\ worker' = [worker EXCEPT ![w] = v]
        /\ v.pc = "save" /\ v.type = worker[w].type /\ v.q = worker[w].q
        /\ v.key = worker[w].key /\ v.from = worker[w].from /\ v.at = worker[w].at
        /\ v.response = Response(v.type, Signs(v.type, v.q.body) \cup Raised(v, seen))
        /\ Signs(v.type, v.q.body) \cup Raised(v, seen) \in SUBSET DOMAIN Weights(v.type)
        /\ worker[w].pc = "score"
  BY CalculateTells
<1>2. worker'[w] = v /\ \A u \in Workers : u # w => worker'[u] = worker[u]
  BY <1>1, WorkerMoves
<1>3. v.type \in Endpoints /\ v.from \in Nat /\ events \in Seq(Event)
  BY DEF Scored, FraudTypeOK
<1>4. v.from <= Len(events)
  BY <1>1 DEF ScoresAreTrue, Asking
<1>5. v.response.reasons = Signs(v.type, v.q.body) \cup Raised(v, seen)
  BY <1>1, <1>3, ResponseIsDecided
<1>6. ReasonsRight(v.q.merchant, v.type, v.q.body, v.from, Len(events), v.at, v.response.reasons)
  <2>1. seen \in [Velocity(v.type) -> v.from .. Len(events)]
    BY <1>1
  <2>2. ReasonsRight(v.q.merchant, v.type, v.q.body, v.from, Len(events), v.at,
                     Signs(v.type, v.q.body) \cup Raised(v, seen))
    BY <1>3, <1>4, <2>1, RaisedIsOwn
  <2> QED
    BY <1>5, <2>2
<1>7. ScoreRight(v)
  BY <1>1, <1>4, <1>5, <1>6 DEF ScoreRight
<1>8. UNCHANGED events
  BY DEF Calculate, tables
<1> QED
  BY <1>2, <1>7, <1>8, ScoresStay

LEMMA SaveScores ==
    ASSUME FraudTypeOK, KeysHold, ScoresAreTrue, NEW w \in Workers, save_event(w)
    PROVE  ScoresAreTrue'
<1>1. PICK x \in Event :
        /\ events' = Append(events, x)
        /\ x.merchant = worker[w].q.merchant /\ x.type = worker[w].type
        /\ x.body = worker[w].q.body /\ x.decision = worker[w].response.decision
        /\ x.reasons = worker[w].response.reasons
        /\ x.from = worker[w].from /\ x.scored = worker[w].at
        /\ worker[w].pc = "save"
  BY SaveTells DEF KeysHold
<1>2. events \in Seq(Event)
  BY DEF FraudTypeOK
<1>3. PICK len \in Nat : len = Len(events) /\ Len(events') = len + 1 /\ DOMAIN events = 1..len
  BY <1>1, <1>2
<1>4. /\ \A i \in DOMAIN events : events'[i] = events[i]
      /\ events'[len + 1] = x
      /\ \A i \in DOMAIN events' : i \in DOMAIN events \/ i = len + 1
  BY <1>1, <1>2, <1>3
<1>5. ASSUME NEW v, ScoreRight(v), Asking(v), v.from \in Nat PROVE ScoreRight(v)'
  <2>1. v.from <= len
    BY <1>3, <1>5 DEF ScoreRight
  <2>2. v.pc \in {"save", "store"} =>
          ReasonsRight(v.q.merchant, v.type, v.q.body, v.from, len + 1, v.at, v.response.reasons)'
    BY <1>1, <1>2, <1>3, <1>5, <2>1, ReasonsKept DEF ScoreRight
  <2>3. v.from <= len + 1
    BY <1>3, <1>5, <2>1
  <2> QED
    BY <1>3, <1>5, <2>2, <2>3 DEF ScoreRight
<1>6. worker[w] \in Scored
  BY <1>1, WorkerKinds
<1>7. ASSUME NEW u \in Workers PROVE ScoreRight(worker[u])'
  <2>1. PICK v : v = worker'[u]
    OBVIOUS
  <2>2. ASSUME Asking(v) PROVE ScoreRight(v) /\ v.from \in Nat
    <3>1. CASE u # w
      <4>1. worker'[u] = worker[u]
        BY <3>1 DEF save_event, FraudTypeOK
      <4> QED
        BY <2>1, <2>2, <4>1, ScoresSplit, ScoredFields
    <3>2. CASE u = w
      <4>1. worker' = [worker EXCEPT ![w].pc = "store"]
        BY <2>1, <2>2, <3>2 DEF save_event, FraudTypeOK, Asking, NoWork
      <4>2. /\ v.pc = "store" /\ v.type = worker[w].type /\ v.q = worker[w].q
            /\ v.from = worker[w].from /\ v.at = worker[w].at
            /\ v.response = worker[w].response /\ v.from \in Nat
        BY <1>6, <2>1, <3>2, <4>1 DEF FraudTypeOK, Scored
      <4> QED
        BY <1>1, <4>2, ScoresSplit DEF ScoreRight, Asking
    <3> QED
      BY <3>1, <3>2
  <2>3. ScoreRight(v)'
    <3>1. CASE Asking(v)
      BY <1>5, <2>2, <3>1
    <3>2. CASE ~Asking(v)
      BY <3>2 DEF ScoreRight, Asking
    <3> QED
      BY <3>1, <3>2
  <2> QED
    BY <2>1, <2>3 DEF ScoreRight
<1>8. ASSUME NEW i \in DOMAIN events', events'[i].from >= 0 PROVE RowRight(i, events[i])'
  <2>1. CASE i \in DOMAIN events
    <3>1. PICK y : y = events[i] /\ events'[i] = y /\ RowRight(i, y) /\ y \in Event
      BY <1>2, <1>4, <1>8, <2>1, ScoresSplit
    <3>2. i \in Nat /\ i - 1 \in Nat /\ i - 1 <= len /\ y.from \in Nat /\ y.from <= len
      BY <1>3, <1>8, <2>1, <3>1 DEF RowRight, Event
    <3>3. ReasonsRight(y.merchant, y.type, y.body, y.from, i - 1, y.scored, y.reasons)'
      BY <1>1, <1>2, <1>3, <3>1, <3>2, ReasonsKept DEF RowRight
    <3>4. RowRight(i, y)'
      BY <3>1, <3>3 DEF RowRight
    <3> QED
      BY <3>1, <3>4 DEF RowRight
  <2>2. CASE i = len + 1
    <3>1. ScoreRight(worker[w]) /\ worker[w].from \in Nat /\ worker[w].from <= len
      BY <1>1, <1>3, <1>6, ScoresSplit DEF ScoreRight, Asking, Scored
    <3>2. i - 1 = len /\ x.from < i /\ x.from \in Nat /\ x.from <= len
      BY <1>1, <1>3, <2>2, <3>1
    <3>3. ReasonsRight(x.merchant, x.type, x.body, x.from, len, x.scored, x.reasons)
      BY <1>1, <1>3, <3>1 DEF ScoreRight
    <3>4. ReasonsRight(x.merchant, x.type, x.body, x.from, len, x.scored, x.reasons)'
      BY <1>1, <1>2, <1>3, <3>2, <3>3, ReasonsKept
    <3>5. x.decision = Decision(x.type, RiskScore(x.type, x.reasons))
      BY <1>1, <3>1 DEF ScoreRight, Response
    <3>6. RowRight(i, x)'
      BY <3>2, <3>4, <3>5 DEF RowRight
    <3> QED
      BY <1>4, <2>2, <3>6 DEF RowRight
  <2> QED
    BY <1>4, <1>8, <2>1, <2>2
<1> QED
  BY <1>7, <1>8, ScoresSplitNext
-----------------------------------------------------------------------------
(* The fraud service: theorems. *)

LEMMA NextFraud == FraudIInv /\ [FraudNext]_fraudVars => FraudIInv'
<1> SUFFICES ASSUME FraudIInv, [FraudNext]_fraudVars PROVE FraudIInv'
  OBVIOUS
<1>1. FraudTypeOK /\ TracksHold /\ KeysHold /\ ScoresAreTrue
  BY DEF FraudIInv, KeysHold
<1>2. ASSUME FraudTypeOK', TracksHold', KeysHold', ScoresAreTrue' PROVE FraudIInv'
  BY <1>2 DEF FraudIInv, KeysHold
<1>3. ASSUME NEW w \in Workers, NEW type \in Endpoints, NEW q \in Asks, Begin(w, type, q)
      PROVE  FraudIInv'
  BY <1>1, <1>2, <1>3, BeginType, OthersTracks, BeginKeys, BeginScores
<1>4. ASSUME NEW w \in Workers, NEW t \in Tracks, receive_event(w, t) PROVE FraudIInv'
  BY <1>1, <1>2, <1>4, TrackType, ReceiveTracks, OthersKeys, OthersScores
<1>5. ASSUME NEW w \in Workers, Calculate(w) PROVE FraudIInv'
  BY <1>1, <1>2, <1>5, CalculateType, OthersTracks, CalculateKeys, CalculateScores
<1>6. ASSUME NEW w \in Workers, save_event(w) PROVE FraudIInv'
  <2>1. FraudTypeOK'
    BY <1>1, <1>6, SaveType DEF KeysHold
  <2> QED
    BY <1>1, <1>2, <1>6, <2>1, OthersTracks, SaveKeys, SaveScores
<1>7. ASSUME NEW w \in Workers, store_idempotency(w) PROVE FraudIInv'
  BY <1>1, <1>2, <1>7, StoreType, OthersTracks, StoreKeys, OthersScores
<1>8. ASSUME NEW w \in Workers, LookUpCertificate(w) PROVE FraudIInv'
  BY <1>1, <1>2, <1>8, TrackType, LookUpTracks, OthersKeys, OthersScores
<1>9. ASSUME NEW w \in Workers, CommitTrack(w) PROVE FraudIInv'
  BY <1>1, <1>2, <1>9, TrackType, CommitTracks, OthersKeys, OthersScores
<1>10. CASE Restart
  BY <1>1, <1>2, <1>10, OtherType, OthersTracks, RestartKeys, OthersScores
<1>11. CASE (\E m \in Merchants : create_merchant(m)) \/ Tick \/ UNCHANGED fraudVars
  BY <1>1, <1>2, <1>11, OtherType, OthersTracks, OthersKeys, OthersScores
<1>12. \A q \in Checkouts : q \in Asks
  BY DEF Asks
<1>13. \A q \in Payouts : q \in Asks
  BY DEF Asks
<1>14. "checkout" \in Endpoints /\ "royalty" \in Endpoints
  BY DEF Endpoints
<1> QED
  BY <1>3, <1>4, <1>5, <1>6, <1>7, <1>8, <1>9, <1>10, <1>11, <1>12, <1>13, <1>14 DEF FraudNext

\* The fraud service keeps its inductive invariant over every interleaving.
LEMMA FraudIsInductive == FraudSpec => []FraudIInv
BY InitFraud, NextFraud, PTL DEF FraudSpec

\* The tables of the fraud service and what its requests hold keep their types.
THEOREM FraudTypeCorrect == FraudSpec => []FraudTypeOK
<1>1. FraudIInv => FraudTypeOK
  BY DEF FraudIInv
<1> QED
  BY <1>1, FraudIsInductive, PTL

\* Every recorded track has its certificate, one per tag, and every seal
\* answered is that of a certificate: receive_event commits both together.
THEOREM FraudCertificatesHold == FraudSpec => []CertificatesHold
<1>1. FraudIInv => CertificatesHold
  BY DEF FraudIInv, TracksHold
<1> QED
  BY <1>1, FraudIsInductive, PTL

\* A key whose requests neither overlapped nor died between their two commits
\* is scored once and answered the same ever after.
THEOREM FraudStableAnswer == FraudSpec => []StableAnswer
<1>1. FraudIInv => StableAnswer
  <2> SUFFICES ASSUME FraudIInv PROVE StableAnswer
    OBVIOUS
  <2>1. \A a \in answers : a.response.decision \in DecisionsOf(a.key[2])
    BY DEF FraudIInv, DecidedRight
  <2>2. \A a, b \in answers :
          a.key = b.key /\ a.key[3] # None /\ a.key \notin lapsed => a = b
    BY DEF FraudIInv, OneAtWork, Lone
  <2>3. ASSUME NEW i \in DOMAIN events, NEW j \in DOMAIN events,
               events[i].from >= 0, events[j].from >= 0,
               events[i].key = events[j].key, events[i].key # None,
               events[i].merchant = events[j].merchant, events[i].type = events[j].type,
               <<events[i].merchant, events[i].type, events[i].key>> \notin lapsed
        PROVE  i = j
    <3>1. EventKey(events[i]) = EventKey(events[j]) /\ Lone(EventKey(events[i]))
      BY <2>3 DEF EventKey, Lone
    <3> QED
      BY <2>3, <3>1 DEF FraudIInv, OneEvent
  <2> QED
    BY <2>1, <2>2, <2>3 DEF StableAnswer
<1> QED
  BY <1>1, FraudIsInductive, PTL

\* A decision counts the events of the merchant that asked and no one else's.
THEOREM FraudVelocityIsTheMerchantsOwn == FraudSpec => []VelocityIsTheMerchantsOwn
<1>1. FraudIInv => VelocityIsTheMerchantsOwn
  BY DEF FraudIInv, ScoresAreTrue, ReasonsRight, VelocityIsTheMerchantsOwn
<1> QED
  BY <1>1, FraudIsInductive, PTL

\* Three members of a set contribute to its sum.
LEMMA SumTakeThree ==
    ASSUME NEW f, NEW S, IsFiniteSet(S), \A x \in S : f[x] \in Int,
           NEW a \in S, NEW b \in S, NEW c \in S, a # b, a # c, b # c
    PROVE  /\ SumFunctionOnSet(f, S) = f[a] + f[b] + f[c] + SumFunctionOnSet(f, S \ {a, b, c})
           /\ IsFiniteSet(S \ {a, b, c})
<1>1. IsFiniteSet(S \ {a}) /\ IsFiniteSet((S \ {a}) \ {b}) /\ IsFiniteSet(((S \ {a}) \ {b}) \ {c})
  BY FS_Subset
<1>2. SumFunctionOnSet(f, S) = f[a] + SumFunctionOnSet(f, S \ {a})
  BY SumRemove
<1>3. SumFunctionOnSet(f, S \ {a}) = f[b] + SumFunctionOnSet(f, (S \ {a}) \ {b})
  BY <1>1, SumRemove
<1>4. SumFunctionOnSet(f, (S \ {a}) \ {b}) = f[c] + SumFunctionOnSet(f, ((S \ {a}) \ {b}) \ {c})
  BY <1>1, SumRemove
<1>5. ((S \ {a}) \ {b}) \ {c} = S \ {a, b, c}
  OBVIOUS
<1>6. SumFunctionOnSet(f, S \ {a, b, c}) \in Int
  BY <1>1, <1>5, SumInt
<1> QED
  BY <1>1, <1>2, <1>3, <1>4, <1>5, <1>6

\* The score of a payout without its proofs, and of one that only velocity
\* speaks against.
LEMMA ProofsWeigh ==
    ASSUME NEW reasons \in SUBSET DOMAIN RoyaltyWeight
    PROVE  /\ {"dna_not_verified", "soulprint_not_verified", "ledger_record_missing"} \subseteq reasons
              => RiskScore("royalty", reasons) >= 85
           /\ reasons \subseteq Velocity("royalty") => RiskScore("royalty", reasons) < 85
<1> DEFINE counts == {"high_creator_payout_request_velocity", "payout_destination_velocity",
                      "device_linked_to_prior_risky_events", "email_linked_to_prior_risky_events"}
<1>1. "royalty" \in Endpoints /\ Weights("royalty") = RoyaltyWeight
  BY DEF Endpoints, Weights
<1>2. /\ IsFiniteSet(reasons) /\ SumFunctionOnSet(RoyaltyWeight, reasons) \in Nat
      /\ RiskScore("royalty", reasons) = IF SumFunctionOnSet(RoyaltyWeight, reasons) <= 100
                                         THEN SumFunctionOnSet(RoyaltyWeight, reasons) ELSE 100
  BY <1>1, ScoreIsCapped
<1>3. /\ \A r \in DOMAIN RoyaltyWeight : RoyaltyWeight[r] \in Nat
      /\ IsFiniteSet(DOMAIN RoyaltyWeight)
  BY <1>1, WeightsAreNat
<1>4. PICK a, b, c : /\ a = "dna_not_verified" /\ b = "soulprint_not_verified"
                     /\ c = "ledger_record_missing"
  OBVIOUS
<1>5. RoyaltyWeight[a] = 35 /\ RoyaltyWeight[b] = 30 /\ RoyaltyWeight[c] = 25
  BY <1>4 DEF RoyaltyWeight
<1>6. PICK i, j, k, l : /\ i = "high_creator_payout_request_velocity"
                        /\ j = "payout_destination_velocity"
                        /\ k = "device_linked_to_prior_risky_events"
                        /\ l = "email_linked_to_prior_risky_events"
  OBVIOUS
<1>7. /\ RoyaltyWeight[i] = 15 /\ RoyaltyWeight[j] = 15
      /\ RoyaltyWeight[k] = 20 /\ RoyaltyWeight[l] = 20
  BY <1>6 DEF RoyaltyWeight
<1>8. Velocity("royalty") = counts /\ counts \subseteq DOMAIN RoyaltyWeight
  BY DEF Velocity, Weights, RoyaltyWeight, Threshold
<1>9. counts \ {i, j, k} = {l} /\ i \in counts /\ j \in counts /\ k \in counts
  BY <1>6
<1>10. a # b /\ a # c /\ b # c /\ i # j /\ i # k /\ j # k
  BY <1>4, <1>6
<1> HIDE DEF counts
<1>11. ASSUME a \in reasons, b \in reasons, c \in reasons
       PROVE  RiskScore("royalty", reasons) >= 85
  <2>1. /\ SumFunctionOnSet(RoyaltyWeight, reasons) =
             RoyaltyWeight[a] + RoyaltyWeight[b] + RoyaltyWeight[c]
               + SumFunctionOnSet(RoyaltyWeight, reasons \ {a, b, c})
        /\ IsFiniteSet(reasons \ {a, b, c})
    BY <1>2, <1>3, <1>10, <1>11, SumTakeThree
  <2>2. SumFunctionOnSet(RoyaltyWeight, reasons \ {a, b, c}) \in Nat
    BY <1>3, <2>1, SumNat
  <2> QED
    BY <1>2, <1>5, <2>1, <2>2
<1>12. ASSUME reasons \subseteq Velocity("royalty") PROVE RiskScore("royalty", reasons) < 85
  <2>1. IsFiniteSet(counts) /\ \A r \in counts : RoyaltyWeight[r] \in Nat
    BY <1>3, <1>8, FS_Subset
  <2>2. SumFunctionOnSet(RoyaltyWeight, counts) =
          RoyaltyWeight[i] + RoyaltyWeight[j] + RoyaltyWeight[k]
            + SumFunctionOnSet(RoyaltyWeight, counts \ {i, j, k})
    BY <1>9, <1>10, <2>1, SumTakeThree
  <2>3. SumFunctionOnSet(RoyaltyWeight, {l}) = RoyaltyWeight[l]
    <3>1. PICK S : S = {l} /\ IsFiniteSet(S) /\ l \in S
      BY FS_Singleton
    <3>2. RoyaltyWeight[l] \in Int /\ \A r \in S \ {l} : RoyaltyWeight[r] = 0
      BY <1>7, <3>1
    <3> QED
      BY <3>1, <3>2, SumSingle
  <2>4. SumFunctionOnSet(RoyaltyWeight, reasons) <= SumFunctionOnSet(RoyaltyWeight, counts)
    BY <1>8, <1>12, <2>1, SumSubset
  <2> QED
    BY <1>2, <1>7, <1>9, <2>2, <2>3, <2>4
<1> QED
  BY <1>4, <1>11, <1>12

\* A payout without any of its three proofs is always blocked, and one with all
\* of them and nothing against its creator never by velocity alone.
THEOREM FraudProofsDecidePayouts == FraudSpec => []ProofsDecidePayouts
<1>1. FraudIInv => ProofsDecidePayouts
  <2> SUFFICES ASSUME FraudIInv, NEW i \in DOMAIN events, events[i].from >= 0,
                      events[i].type = "royalty"
               PROVE  /\ ~events[i].body.dna /\ ~events[i].body.soulprint /\ ~events[i].body.ledger
                           => events[i].decision = "block_payout"
                      /\ RoyaltySigns(events[i].body) = {} => events[i].decision # "block_payout"
    BY DEF ProofsDecidePayouts
  <2>1. PICK x, score : x = events[i] /\ score = RiskScore("royalty", x.reasons)
    OBVIOUS
  <2>2. /\ x.decision = Decision("royalty", score)
        /\ RoyaltySigns(x.body) \subseteq x.reasons
        /\ x.reasons \subseteq RoyaltySigns(x.body) \cup Velocity("royalty")
    BY <2>1 DEF FraudIInv, ScoresAreTrue, ReasonsRight, Signs
  <2>3. x.reasons \in SUBSET DOMAIN RoyaltyWeight
    BY <2>2 DEF RoyaltySigns, Velocity, Weights
  <2>4. score \in Nat
    <3>1. "royalty" \in Endpoints /\ Weights("royalty") = RoyaltyWeight
      BY DEF Endpoints, Weights
    <3>2. RiskScore("royalty", x.reasons) \in 0..100
      BY <2>3, <3>1, ScoreIsCapped
    <3> QED
      BY <2>1, <3>2
  <2>5. x.decision = "block_payout" <=> score >= 85
    BY <2>2, <2>4, DecisionIsOfEndpoint DEF Endpoints
  <2>6. ASSUME ~x.body.dna, ~x.body.soulprint, ~x.body.ledger PROVE score >= 85
    <3>1. "dna_not_verified" \in RoyaltySigns(x.body)
      BY <2>6 DEF RoyaltySigns, RoyaltyWeight
    <3>2. "soulprint_not_verified" \in RoyaltySigns(x.body)
      BY <2>6 DEF RoyaltySigns, RoyaltyWeight
    <3>3. "ledger_record_missing" \in RoyaltySigns(x.body)
      BY <2>6 DEF RoyaltySigns, RoyaltyWeight
    <3> QED
      BY <2>1, <2>2, <2>3, <3>1, <3>2, <3>3, ProofsWeigh
  <2>7. ASSUME RoyaltySigns(x.body) = {} PROVE score < 85
    BY <2>1, <2>2, <2>3, <2>7, ProofsWeigh
  <2> QED
    BY <2>1, <2>4, <2>5, <2>6, <2>7
<1> QED
  BY <1>1, FraudIsInductive, PTL
=============================================================================
