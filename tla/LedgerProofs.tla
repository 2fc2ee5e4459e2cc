---------------------------- MODULE LedgerProofs ----------------------------
(***************************************************************************)
(* The safety of the ledger service and that it implements LedgerBook, for *)
(* every set of organizations, accounts, keys, requests and sessions.      *)
(***************************************************************************)
EXTENDS Ledger, SumTheorems, SequenceTheorems

ReplyType == [kind : {"none", "ok", "error", "lost"}, txn : TxnIds \cup {NoTxn}]

\* A session that holds an uncommitted row of table transactions.
Writing(me) == me.pc \in {"entry", "trigger"}

\* Lines one to n are on accounts of the organization.
OwnLines(org, lines, n) ==
    \A i \in DOMAIN lines : i <= n => AccountOrg[lines[i].accountId] = org

\* What a session posts: a request, or the swapped lines of a committed
\* transaction.
Origin(me) ==
    IF me.reverses = NoTxn
    THEN [org |-> me.org, key |-> me.key, lines |-> me.lines] \in Requests
    ELSE /\ me.reverses \in Committed
         /\ me.key = NoKey
         /\ me.org = journal[me.reverses].org
         /\ me.lines = reversalEntries(journal[me.reverses].lines)

\* A session between two statements: its row has an id and a key that are not
\* in the journal, its lines balance and those inserted are its organization's.
Sound(me) ==
    /\ me.id # NoTxn <=> Writing(me)
    /\ me.pc # "idle" => Origin(me)
    /\ me.pc \in {"insert", "entry", "trigger"} => validateTransactionBalance(me.lines)
    /\ me.pc \in {"check", "insert"} => me.done = 0
    /\ Writing(me) => me.id \notin Committed /\ ~KeyTaken(me.key)
    /\ Writing(me) => OwnLines(me.org, me.lines, me.done)
    /\ me.pc = "trigger" => /\ me.done + 1 \in DOMAIN me.lines
                            /\ AccountOrg[me.lines[me.done + 1].accountId] = me.org

\* Two sessions hold neither the same id nor the index entry of one key.
Apart(me, you) ==
    Writing(me) /\ Writing(you) =>
        /\ me.id # you.id
        /\ me.key = you.key => me.key = NoKey

SessionsAreSound == \A s \in Sessions : Sound(session[s])
RowsAreApart == \A u, v \in Sessions : u # v => Apart(session[u], session[v])

\* What is committed balances, on the accounts of its organization, and
\* reverses only what is committed.
JournalIsSound ==
    \A t \in Committed :
        /\ validateTransactionBalance(journal[t].lines)
        /\ OwnLines(journal[t].org, journal[t].lines, Len(journal[t].lines))
        /\ journal[t].reverses \in Committed \cup {NoTxn}

IInv ==
    /\ TypeOK
    /\ SessionsAreSound
    /\ RowsAreApart
    /\ JournalIsSound
    /\ StoreAgreesWithJournal
    /\ ReversedIffReversal

-----------------------------------------------------------------------------
(* Types and sums. *)

\* The columns, one by one.
LEMMA TypeParts ==
    TypeOK <=>
        /\ accounts \subseteq Accounts
        /\ balance \in [Accounts -> Int]
        /\ lock \in [Accounts -> Sessions \cup {NoSession}]
        /\ pending \in [Accounts -> Int]
        /\ journal \in [TxnIds -> Book!Transaction \cup {Empty}]
        /\ store \in [Keys -> TxnIds \cup {NoTxn}]
        /\ fresh \subseteq Keys
        /\ session \in [Sessions -> SessionType]
        /\ reply \in [Sessions -> ReplyType]
BY DEF TypeOK, ReplyType

\* The same of the next state.
LEMMA TypePartsNext ==
    TypeOK' <=>
        /\ accounts' \subseteq Accounts
        /\ balance' \in [Accounts -> Int]
        /\ lock' \in [Accounts -> Sessions \cup {NoSession}]
        /\ pending' \in [Accounts -> Int]
        /\ journal' \in [TxnIds -> Book!Transaction \cup {Empty}]
        /\ store' \in [Keys -> TxnIds \cup {NoTxn}]
        /\ fresh' \subseteq Keys
        /\ session' \in [Sessions -> SessionType]
        /\ reply' \in [Sessions -> ReplyType]
BY DEF TypeOK, ReplyType, SessionType, Empty, Book!Empty, Book!Transaction, Book!Line, Line

\* A row with a status is a transaction, one without is empty.
LEMMA RowKinds ==
    ASSUME journal \in [TxnIds -> Book!Transaction \cup {Empty}]
    PROVE  /\ Committed \subseteq TxnIds
           /\ \A t \in Committed : journal[t] \in Book!Transaction
           /\ \A t \in TxnIds \ Committed : journal[t] = Empty
           /\ NoTxn \notin Committed
<1>1. \A x \in Book!Transaction : x.status # "NONE"
  BY DEF Book!Transaction
<1>2. Empty.status = "NONE"
  BY DEF Empty, Book!Empty
<1> QED
  BY <1>1, <1>2, LedgerAssumption DEF Committed, Book!Recorded

\* The same journal has the same committed rows.
LEMMA CommittedSame == journal' = journal => Committed' = Committed
BY DEF Committed, Book!Recorded

\* The fields of a line and the index set of a sequence of lines.
LEMMA LineFacts ==
    ASSUME NEW lines \in Seq(Line)
    PROVE  /\ IsFiniteSet(DOMAIN lines)
           /\ DOMAIN lines = 1 .. Len(lines) /\ Len(lines) \in Nat
           /\ \A i \in DOMAIN lines :
                /\ lines[i].accountId \in Accounts
                /\ lines[i].debitCredit \in {"DEBIT", "CREDIT"}
                /\ lines[i].amount \in Nat
                /\ Signed(lines[i]) \in Int
                /\ \A side : Book!OnSide(lines[i], side) \in Nat
                /\ Signed(lines[i]) =
                     Book!OnSide(lines[i], "DEBIT") - Book!OnSide(lines[i], "CREDIT")
<1>1. DOMAIN lines = 1 .. Len(lines) /\ Len(lines) \in Nat
  OBVIOUS
<1>2. IsFiniteSet(DOMAIN lines)
  BY <1>1, FS_Interval
<1>3. ASSUME NEW i \in DOMAIN lines
      PROVE  /\ lines[i].accountId \in Accounts
             /\ lines[i].debitCredit \in {"DEBIT", "CREDIT"}
             /\ lines[i].amount \in Nat
  <2>1. lines[i] \in Line
    OBVIOUS
  <2> QED
    BY <2>1 DEF Line, Book!Line
<1> QED
  BY <1>1, <1>2, <1>3 DEF Signed, Book!OnSide

\* What a transaction does to an account is a whole number.
LEMMA NetIsInt ==
    ASSUME NEW lines \in Seq(Line), NEW a PROVE NetOn(lines, a) \in Int
<1> DEFINE f == [i \in DOMAIN lines |-> IF lines[i].accountId = a THEN Signed(lines[i]) ELSE 0]
<1>1. \A i \in DOMAIN lines : f[i] \in Int
  BY LineFacts
<1>2. NetOn(lines, a) = SumFunctionOnSet(f, DOMAIN lines)
  BY DEF NetOn
<1> HIDE DEF f
<1> QED
  BY <1>1, <1>2, LineFacts, SumInt

\* A recomputed balance is a whole number.
LEMMA EntriesSumIsInt ==
    ASSUME TypeOK, NEW a PROVE EntriesSum(a) \in Int
<1> DEFINE f == [t \in Committed |-> NetOn(journal[t].lines, a)]
<1>1. IsFiniteSet(Committed)
  BY RowKinds, TypeParts, LedgerAssumption, FS_Subset
<1>2. ASSUME NEW t \in Committed PROVE f[t] \in Int
  <2>1. journal[t].lines \in Seq(Line)
    BY RowKinds, TypeParts DEF Book!Transaction, Line
  <2> QED
    BY <2>1, NetIsInt
<1>3. EntriesSum(a) = SumFunctionOnSet(f, Committed)
  BY DEF EntriesSum
<1> HIDE DEF f
<1> QED
  BY <1>1, <1>2, <1>3, SumInt

\* A balanced transaction sums to zero over its lines.
LEMMA BalancedSignsCancel ==
    ASSUME NEW lines \in Seq(Line), validateTransactionBalance(lines)
    PROVE  SumFunctionOnSet([i \in DOMAIN lines |-> Signed(lines[i])], DOMAIN lines) = 0
<1> DEFINE d == [i \in DOMAIN lines |-> Book!OnSide(lines[i], "DEBIT")]
           c == [i \in DOMAIN lines |-> Book!OnSide(lines[i], "CREDIT")]
           n == [i \in DOMAIN lines |-> Signed(lines[i])]
<1>1. \A i \in DOMAIN lines : d[i] \in Int /\ c[i] \in Int /\ n[i] = d[i] - c[i]
  BY LineFacts
<1>2. SumFunctionOnSet(d, DOMAIN lines) = SumFunctionOnSet(c, DOMAIN lines)
  BY DEF validateTransactionBalance, SideSum
<1>3. IsFiniteSet(DOMAIN lines)
  BY LineFacts
<1>6. SUFFICES SumFunctionOnSet(n, DOMAIN lines) = 0
  OBVIOUS
<1> HIDE DEF d, c, n
<1>4. SumFunctionOnSet(n, DOMAIN lines) =
        SumFunctionOnSet(d, DOMAIN lines) - SumFunctionOnSet(c, DOMAIN lines)
  BY <1>1, <1>3, SumMinus
<1>5. SumFunctionOnSet(d, DOMAIN lines) \in Int
  BY <1>1, <1>3, SumInt
<1> QED
  BY <1>2, <1>4, <1>5

\* The accounts of an organization take nothing net from a balanced transaction
\* whose lines are all on accounts of one organization.
LEMMA BalancedNetIsZero ==
    ASSUME NEW lines \in Seq(Line), validateTransactionBalance(lines),
           NEW owner, OwnLines(owner, lines, Len(lines)), NEW org
    PROVE  SumFunctionOnSet([a \in OrgAccounts(org) |-> NetOn(lines, a)], OrgAccounts(org)) = 0
<1> DEFINE D == DOMAIN lines
           O == OrgAccounts(org)
           part(i, a) == IF lines[i].accountId = a THEN Signed(lines[i]) ELSE 0
           col == [i \in D |-> [a \in O |-> part(i, a)]]
           row == [a \in O |-> [i \in D |-> part(i, a)]]
           rowSums == [a \in O |-> SumFunctionOnSet(row[a], D)]
           colSums == [i \in D |-> SumFunctionOnSet(col[i], O)]
           signs == [i \in D |-> Signed(lines[i])]
<1>1. IsFiniteSet(D)
  BY LineFacts
<1>2. IsFiniteSet(O)
  BY LedgerAssumption, FS_Subset DEF OrgAccounts
<1>3. \A a \in O, i \in D : row[a][i] \in Int /\ col[i][a] = row[a][i]
  BY LineFacts
<1>4. SumFunctionOnSet(rowSums, O) = SumFunctionOnSet(colSums, D)
  <2> HIDE DEF row, col, part, signs, D, O
  <2>1. rowSums = RowSums(row, O, D) /\ colSums = RowSums(col, D, O)
    BY DEF RowSums
  <2> HIDE DEF rowSums, colSums
  <2> QED
    BY <1>1, <1>2, <1>3, <2>1, SumExchange
<1>5. [a \in O |-> NetOn(lines, a)] = rowSums
  BY DEF NetOn
<1>6. \A i \in D : AccountOrg[lines[i].accountId] = owner
  BY LineFacts DEF OwnLines
<1>7. ASSUME NEW i \in D PROVE colSums[i] = IF owner = org THEN Signed(lines[i]) ELSE 0
  <2>1. colSums[i] = SumFunctionOnSet(col[i], O)
    OBVIOUS
  <2>2. CASE owner = org
    <3>1. lines[i].accountId \in O
      BY <1>6, <2>2, LineFacts DEF OrgAccounts
    <3>2. /\ col[i][lines[i].accountId] = Signed(lines[i])
          /\ Signed(lines[i]) \in Int
          /\ \A a \in O \ {lines[i].accountId} : col[i][a] = 0
      BY <3>1, LineFacts
    <3> HIDE DEF col, O, colSums
    <3>3. SumFunctionOnSet(col[i], O) = col[i][lines[i].accountId]
      BY <3>1, <3>2, <1>2, SumSingle
    <3> QED
      BY <2>1, <2>2, <3>2, <3>3
  <2>3. CASE owner # org
    <3>1. \A a \in O : col[i][a] = 0
      BY <1>6, <2>3 DEF OrgAccounts
    <3> HIDE DEF col, O, colSums
    <3>2. SumFunctionOnSet(col[i], O) = 0
      BY <3>1, <1>2, SumZero
    <3> QED
      BY <2>1, <2>3, <3>2
  <2> QED
    BY <2>2, <2>3
<1>8. SumFunctionOnSet(colSums, D) = 0
  <2>1. CASE owner = org
    <3>1. \A i \in D : colSums[i] = signs[i]
      BY <1>7, <2>1
    <3>2. SumFunctionOnSet(signs, D) = 0
      BY BalancedSignsCancel
    <3> HIDE DEF colSums, signs, D
    <3> QED
      BY <3>1, <3>2, <1>1, SumSame
  <2>2. CASE owner # org
    <3>1. \A i \in D : colSums[i] = 0
      BY <1>7, <2>2
    <3> HIDE DEF colSums, D
    <3> QED
      BY <3>1, <1>1, SumZero
  <2> QED
    BY <2>1, <2>2
<1> QED
  BY <1>4, <1>5, <1>8

\* So the trial balance of every organization is zero: the sums over accounts
\* and over transactions are exchanged.
LEMMA TrialBalanceIsZero ==
    ASSUME TypeOK, JournalIsSound, NEW org PROVE TrialBalance(org) = 0
<1> DEFINE O == OrgAccounts(org)
           C == Committed
           row == [a \in O |-> [t \in C |-> NetOn(journal[t].lines, a)]]
           col == [t \in C |-> [a \in O |-> NetOn(journal[t].lines, a)]]
           rowSums == [a \in O |-> SumFunctionOnSet(row[a], C)]
           colSums == [t \in C |-> SumFunctionOnSet(col[t], O)]
<1>1. IsFiniteSet(O) /\ IsFiniteSet(C)
  BY RowKinds, TypeParts, LedgerAssumption, FS_Subset DEF OrgAccounts
<1>2. ASSUME NEW t \in C PROVE journal[t].lines \in Seq(Line)
  BY RowKinds, TypeParts DEF Book!Transaction, Line
<1>3. \A a \in O, t \in C : row[a][t] \in Int /\ col[t][a] = row[a][t]
  BY <1>2, NetIsInt
<1>4. SumFunctionOnSet(rowSums, O) = SumFunctionOnSet(colSums, C)
  <2> HIDE DEF row, col, C, O
  <2>1. rowSums = RowSums(row, O, C) /\ colSums = RowSums(col, C, O)
    BY DEF RowSums
  <2> HIDE DEF rowSums, colSums
  <2> QED
    BY <1>1, <1>3, <2>1, SumExchange
<1>5. [a \in O |-> EntriesSum(a)] = rowSums
  BY DEF EntriesSum
<1>6. ASSUME NEW t \in C PROVE colSums[t] = 0
  <2>1. colSums[t] = SumFunctionOnSet([a \in O |-> NetOn(journal[t].lines, a)], O)
    OBVIOUS
  <2>2. /\ validateTransactionBalance(journal[t].lines)
        /\ OwnLines(journal[t].org, journal[t].lines, Len(journal[t].lines))
    BY DEF JournalIsSound
  <2> QED
    BY <1>2, <2>1, <2>2, BalancedNetIsZero
<1>7. SumFunctionOnSet(colSums, C) = 0
  <2> HIDE DEF colSums, C
  <2> QED
    BY <1>1, <1>6, SumZero
<1> QED
  BY <1>4, <1>5, <1>7 DEF TrialBalance

\* With no transaction out of balance, reconcile finds nothing.
LEMMA BooksFollow == ASSUME TypeOK, JournalIsSound PROVE BooksReconcile
BY TrialBalanceIsZero DEF BooksReconcile, Discrepancies, JournalIsSound, validateTransactionBalance

-----------------------------------------------------------------------------
(* Steps that leave the journal alone. *)

\* An idle session is sound and in nobody's way.
LEMMA IdleIsSound ==
    /\ Idle \in SessionType /\ Sound(Idle) /\ ~Writing(Idle)
    /\ Idle.pc = "idle" /\ Idle.id = NoTxn
<1>1. /\ Idle.pc = "idle" /\ Idle.org = NoTxn /\ Idle.key = NoKey /\ Idle.lines = <<>>
      /\ Idle.reverses = NoTxn /\ Idle.id = NoTxn /\ Idle.done = 0 /\ Idle.sum = 0
  BY DEF Idle
<1>2. Idle \in SessionType
  BY DEF Idle, SessionType
<1> QED
  BY <1>1, <1>2 DEF Sound, Writing

\* A session's soundness depends on the journal only.
LEMMA SoundSame ==
    ASSUME journal' = journal, NEW me PROVE Sound(me)' <=> Sound(me)
<1>1. Committed' = Committed
  BY CommittedSame
<1> QED
  BY <1>1 DEF Sound, Origin, KeyTaken, Writing, OwnLines

\* A step of one session that leaves journal and store alone keeps the
\* invariant when the session stays sound and apart from the others.
LEMMA SessionStep ==
    ASSUME IInv, TypeOK', journal' = journal, store' = store,
           NEW s \in Sessions, NEW m, session' = [session EXCEPT ![s] = m], Sound(m),
           \A v \in Sessions \ {s} : Apart(session[v], m) /\ Apart(m, session[v])
    PROVE  IInv'
<1>1. Committed' = Committed
  BY CommittedSame
<1>2. session \in [Sessions -> SessionType]
  BY TypeParts DEF IInv
<1>3. session'[s] = m /\ \A v \in Sessions \ {s} : session'[v] = session[v]
  BY <1>2
<1>4. SessionsAreSound'
  <2> SUFFICES ASSUME NEW v \in Sessions PROVE Sound(session[v])'
    BY DEF SessionsAreSound
  <2>1. Sound(session'[v])
    BY <1>3 DEF IInv, SessionsAreSound
  <2> QED
    BY <1>1, <2>1 DEF Sound, Origin, KeyTaken, Writing, OwnLines
<1>5. RowsAreApart'
  <2> SUFFICES ASSUME NEW u \in Sessions, NEW v \in Sessions, u # v
               PROVE  Apart(session'[u], session'[v])
    BY DEF RowsAreApart, Apart, Writing
  <2> QED
    BY <1>3 DEF IInv, RowsAreApart
<1>6. JournalIsSound' /\ StoreAgreesWithJournal' /\ ReversedIffReversal'
  BY <1>1 DEF IInv, JournalIsSound, StoreAgreesWithJournal, ReversedIffReversal
<1> QED
  BY <1>4, <1>5, <1>6 DEF IInv

\* Nobody but the caller, the clock or the accounts table moved.
LEMMA QuietStep ==
    ASSUME IInv, TypeOK', journal' = journal, store' = store, session' = session
    PROVE  IInv'
<1>1. Committed' = Committed
  BY CommittedSame
<1>2. SessionsAreSound'
  BY <1>1 DEF IInv, SessionsAreSound, Sound, Origin, KeyTaken, Writing, OwnLines
<1>3. RowsAreApart'
  BY DEF IInv, RowsAreApart, Apart, Writing
<1>6. JournalIsSound' /\ StoreAgreesWithJournal' /\ ReversedIffReversal'
  BY <1>1 DEF IInv, JournalIsSound, StoreAgreesWithJournal, ReversedIffReversal
<1> QED
  BY <1>2, <1>3, <1>6 DEF IInv

\* A session that is not writing is apart from every other.
LEMMA ReaderIsApart ==
    ASSUME NEW m, ~Writing(m), NEW you PROVE Apart(you, m) /\ Apart(m, you)
BY DEF Apart

\* Ending a session, with any answer, keeps the invariant.
LEMMA EndKeeps ==
    ASSUME IInv, NEW s \in Sessions, TypeOK', journal' = journal, store' = store,
           session' = [session EXCEPT ![s] = Idle]
    PROVE  IInv'
BY IdleIsSound, ReaderIsApart, SessionStep

\* Rollback releases the locks of the session; every answer is a reply.
LEMMA RollbackKeeps ==
    ASSUME IInv, NEW s \in Sessions, Rollback(s),
           NEW r \in ReplyType, reply' = [reply EXCEPT ![s] = r]
    PROVE  IInv'
<1>1. TypeOK'
  <2>1. /\ accounts' \subseteq Accounts /\ balance' \in [Accounts -> Int]
        /\ journal' \in [TxnIds -> Book!Transaction \cup {Empty}]
        /\ store' \in [Keys -> TxnIds \cup {NoTxn}] /\ fresh' \subseteq Keys
    BY TypeParts DEF IInv, Rollback
  <2>2. /\ lock' \in [Accounts -> Sessions \cup {NoSession}]
        /\ pending' \in [Accounts -> Int]
    BY TypeParts DEF IInv, Rollback
  <2>3. session' \in [Sessions -> SessionType]
    BY TypeParts, IdleIsSound DEF IInv, Rollback
  <2>4. reply' \in [Sessions -> ReplyType]
    BY TypeParts DEF IInv
  <2> QED
    BY <2>1, <2>2, <2>3, <2>4, TypePartsNext
<1> QED
  BY <1>1, EndKeeps DEF Rollback

\* Failing or losing a session keeps the invariant.
LEMMA FailKeeps == ASSUME IInv, NEW s \in Sessions, Fail(s) PROVE IInv'
<1>1. [kind |-> "error", txn |-> NoTxn] \in ReplyType
  BY DEF ReplyType
<1> QED
  BY <1>1, RollbackKeeps DEF Fail

\* The caller gives up.
LEMMA DisconnectKeeps == ASSUME IInv, NEW s \in Sessions, Disconnect(s) PROVE IInv'
<1>1. [kind |-> "lost", txn |-> NoTxn] \in ReplyType
  BY DEF ReplyType
<1> QED
  BY <1>1, RollbackKeeps DEF Disconnect

\* createAccount and the passing of a day touch no session.
LEMMA CreateAccountKeeps ==
    ASSUME IInv, NEW a \in Accounts, createAccount(a) PROVE IInv'
<1>1. TypeOK'
  BY TypeParts, TypePartsNext DEF IInv, createAccount
<1> QED
  BY <1>1, QuietStep DEF createAccount

\* A stored response expires.
LEMMA ExpireKeeps == ASSUME IInv, NEW k \in Keys, Expire(k) PROVE IInv'
<1>1. TypeOK'
  BY TypeParts, TypePartsNext DEF IInv, Expire
<1> QED
  BY <1>1, QuietStep DEF Expire

\* A session and perhaps its reply move, and nothing else.
LEMMA SessionMoves ==
    ASSUME IInv, UNCHANGED <<accounts, balance, lock, pending, journal, store, fresh>>,
           NEW s \in Sessions, NEW m \in SessionType, session' = [session EXCEPT ![s] = m],
           reply' \in [Sessions -> ReplyType],
           Sound(m), \A v \in Sessions \ {s} : Apart(session[v], m) /\ Apart(m, session[v])
    PROVE  IInv'
<1>1. session' \in [Sessions -> SessionType]
  BY TypeParts DEF IInv
<1>2. TypeOK'
  BY <1>1, TypeParts, TypePartsNext DEF IInv
<1> QED
  BY <1>2, SessionStep

\* A reply replaced by another is a reply.
LEMMA ReplyTyped ==
    ASSUME IInv, NEW s \in Sessions, NEW kind \in {"none", "ok", "error", "lost"},
           NEW t \in TxnIds \cup {NoTxn},
           reply' = [reply EXCEPT ![s] = [kind |-> kind, txn |-> t]]
    PROVE  reply' \in [Sessions -> ReplyType]
<1>1. [kind |-> kind, txn |-> t] \in ReplyType
  BY DEF ReplyType
<1>2. reply \in [Sessions -> ReplyType]
  BY TypeParts DEF IInv
<1> QED
  BY <1>1, <1>2

\* postTransaction starts with the caller's request.
LEMMA BeginPostKeeps ==
    ASSUME IInv, NEW s \in Sessions, NEW req \in Requests, BeginPost(s, req) PROVE IInv'
<1> DEFINE m == [Idle EXCEPT !.pc = "check", !.org = req.org,
                             !.key = req.key, !.lines = req.lines]
<1>1. /\ req.org \in Orgs /\ req.key \in Keys \cup {NoKey} /\ req.lines \in Seq(Line)
      /\ [org |-> req.org, key |-> req.key, lines |-> req.lines] = req
  BY LedgerAssumption
<1>2. /\ m.pc = "check" /\ m.org = req.org /\ m.key = req.key /\ m.lines = req.lines
      /\ m.reverses = NoTxn /\ m.id = NoTxn /\ m.done = 0
  BY DEF Idle
<1>3. m \in SessionType
  BY <1>1, IdleIsSound DEF SessionType
<1>4. session' = [session EXCEPT ![s] = m]
  BY DEF BeginPost
<1>5. reply' \in [Sessions -> ReplyType]
  BY ReplyTyped DEF BeginPost
<1>6. UNCHANGED <<accounts, balance, lock, pending, journal, store, fresh>>
  BY DEF BeginPost
<1> HIDE DEF m
<1>7. Sound(m) /\ ~Writing(m)
  BY <1>1, <1>2 DEF Sound, Origin, Writing
<1> QED
  BY <1>3, <1>4, <1>5, <1>6, <1>7, ReaderIsApart, SessionMoves

\* The lines of a reversal are lines.
LEMMA ReversalTyped ==
    ASSUME NEW lines \in Seq(Line) PROVE reversalEntries(lines) \in Seq(Line)
<1> DEFINE rl == reversalEntries(lines)
<1>1. /\ DOMAIN rl = 1 .. Len(lines) /\ Len(lines) \in Nat
      /\ rl = [i \in 1 .. Len(lines) |-> rl[i]]
  BY LineFacts DEF reversalEntries
<1>2. \A i \in 1 .. Len(lines) : rl[i] \in Line
  BY LineFacts DEF reversalEntries, Opposite, Line, Book!Line
<1> HIDE DEF rl
<1>3. rl \in Seq(Line)
  BY <1>1, <1>2
<1> QED
  BY <1>3 DEF rl

\* reverseTransaction starts with a committed original of the organization.
LEMMA BeginReverseKeeps ==
    ASSUME IInv, NEW s \in Sessions, NEW org \in Orgs, NEW original \in TxnIds,
           BeginReverse(s, org, original)
    PROVE  IInv'
<1>1. UNCHANGED <<accounts, balance, lock, pending, journal, store, fresh>>
  BY DEF BeginReverse
<1>2. CASE original \in Committed /\ journal[original].org = org
  <2> DEFINE m == [Idle EXCEPT !.pc = "check", !.org = org,
                               !.lines = reversalEntries(journal[original].lines),
                               !.reverses = original]
  <2>1. journal[original].lines \in Seq(Line)
    BY <1>2, RowKinds, TypeParts DEF IInv, Book!Transaction, Line
  <2>2. reversalEntries(journal[original].lines) \in Seq(Line)
    BY <2>1, ReversalTyped
  <2>3. /\ m.pc = "check" /\ m.org = org /\ m.key = NoKey /\ m.reverses = original
        /\ m.lines = reversalEntries(journal[original].lines) /\ m.id = NoTxn /\ m.done = 0
    BY DEF Idle
  <2>4. m \in SessionType
    BY <2>2, IdleIsSound DEF SessionType
  <2>5. session' = [session EXCEPT ![s] = m]
    BY <1>2 DEF BeginReverse
  <2>6. reply' \in [Sessions -> ReplyType]
    BY <1>2, ReplyTyped DEF BeginReverse
  <2> HIDE DEF m
  <2>7. Sound(m) /\ ~Writing(m)
    BY <1>2, <2>3, LedgerAssumption DEF Sound, Origin, Writing
  <2> QED
    BY <1>1, <2>4, <2>5, <2>6, <2>7, ReaderIsApart, SessionMoves
<1>3. CASE ~(original \in Committed /\ journal[original].org = org)
  <2>1. reply' \in [Sessions -> ReplyType]
    BY <1>3, ReplyTyped DEF BeginReverse
  <2>2. session' = session
    BY <1>3 DEF BeginReverse
  <2>3. TypeOK'
    BY <1>1, <2>1, <2>2, TypeParts, TypePartsNext DEF IInv
  <2> QED
    BY <1>1, <2>2, <2>3, QuietStep
<1> QED
  BY <1>2, <1>3

\* The stored answer is returned and the session ends.
LEMMA ReturnStoredKeeps ==
    ASSUME IInv, NEW s \in Sessions, ReturnStored(s) PROVE IInv'
<1>1. checkIdempotency(s) \in TxnIds \cup {NoTxn}
  <2>1. session[s].key \in Keys \cup {NoKey} /\ store \in [Keys -> TxnIds \cup {NoTxn}]
    BY TypeParts DEF IInv, SessionType
  <2> QED
    BY <2>1 DEF checkIdempotency
<1>2. reply' \in [Sessions -> ReplyType]
  BY <1>1, ReplyTyped DEF ReturnStored
<1> QED
  BY <1>2, IdleIsSound, ReaderIsApart, SessionMoves DEF ReturnStored

\* The lines balance, or the session ends.
LEMMA ValidateKeeps == ASSUME IInv, NEW s \in Sessions, Validate(s) PROVE IInv'
<1>1. CASE validateTransactionBalance(session[s].lines)
  <2> DEFINE m == [session[s] EXCEPT !.pc = "insert"]
  <2>0. session[s] \in SessionType /\ Sound(session[s]) /\ session[s].pc = "check"
    BY TypeParts DEF IInv, SessionsAreSound, Validate
  <2>1. /\ m \in SessionType /\ m.pc = "insert"
        /\ m.org = session[s].org /\ m.key = session[s].key /\ m.lines = session[s].lines
        /\ m.reverses = session[s].reverses /\ m.id = session[s].id
        /\ m.done = session[s].done
    BY <2>0 DEF SessionType
  <2>2. /\ session' = [session EXCEPT ![s] = m]
        /\ UNCHANGED <<accounts, balance, lock, pending, journal, store, fresh, reply>>
    BY <1>1 DEF Validate, Goto
  <2> HIDE DEF m
  <2>3. Sound(m) /\ ~Writing(m)
    BY <1>1, <2>0, <2>1 DEF Sound, Origin, Writing
  <2>4. reply' \in [Sessions -> ReplyType]
    BY <2>2, TypeParts DEF IInv
  <2> QED
    BY <2>1, <2>2, <2>3, <2>4, ReaderIsApart, SessionMoves
<1>2. CASE ~validateTransactionBalance(session[s].lines)
  BY <1>2, FailKeeps DEF Validate
<1> QED
  BY <1>1, <1>2

\* A writing session that keeps its id and its key stays apart from the others.
LEMMA StillApart ==
    ASSUME IInv, NEW s \in Sessions, Writing(session[s]), NEW m,
           m.id = session[s].id, m.key = session[s].key, NEW v \in Sessions \ {s}
    PROVE  Apart(session[v], m) /\ Apart(m, session[v])
BY DEF IInv, RowsAreApart, Apart

\* The new row takes an id and a key that nobody has.
LEMMA InsertTransactionKeeps ==
    ASSUME IInv, NEW s \in Sessions, InsertTransaction(s) PROVE IInv'
<1>1. CASE ~KeyTaken(session[s].key)
  <2>1. PICK new : new \in FreeIds /\ new = CHOOSE t \in FreeIds : TRUE
    BY <1>1 DEF InsertTransaction
  <2> DEFINE m == [session[s] EXCEPT !.pc = "entry", !.id = new]
  <2>2. session[s] \in SessionType /\ Sound(session[s]) /\ session[s].pc = "insert"
    BY TypeParts DEF IInv, SessionsAreSound, InsertTransaction
  <2>3. new \in TxnIds /\ new \notin Committed /\ \A v \in Sessions : session[v].id # new
    BY <2>1 DEF FreeIds
  <2>4. /\ m \in SessionType /\ m.pc = "entry" /\ m.id = new
        /\ m.org = session[s].org /\ m.key = session[s].key /\ m.lines = session[s].lines
        /\ m.reverses = session[s].reverses /\ m.done = session[s].done
    BY <2>2, <2>3 DEF SessionType
  <2>5. /\ session' = [session EXCEPT ![s] = m]
        /\ UNCHANGED <<accounts, balance, lock, pending, journal, store, fresh, reply>>
    BY <1>1, <2>1 DEF InsertTransaction
  <2> HIDE DEF m
  <2>6. OwnLines(m.org, m.lines, m.done)
    <3>1. m.done = 0 /\ m.lines \in Seq(Line)
      BY <2>2, <2>4 DEF Sound, SessionType
    <3> QED
      BY <3>1, LineFacts DEF OwnLines
  <2>7. Sound(m)
    BY <1>1, <2>2, <2>3, <2>4, <2>6, LedgerAssumption DEF Sound, Origin, Writing
  <2>8. ASSUME NEW v \in Sessions \ {s} PROVE Apart(session[v], m) /\ Apart(m, session[v])
    <3>1. Writing(session[v]) => session[v].id # NoTxn
      BY DEF IInv, SessionsAreSound, Sound
    <3>2. session[v].id # NoTxn /\ session[s].key # NoKey => session[v].key # session[s].key
      BY DEF InsertTransaction, KeyHeldBy
    <3> QED
      BY <2>3, <2>4, <3>1, <3>2 DEF Apart
  <2>9. reply' \in [Sessions -> ReplyType]
    BY <2>5, TypeParts DEF IInv
  <2> QED
    BY <2>4, <2>5, <2>7, <2>8, <2>9, SessionMoves
<1>2. CASE KeyTaken(session[s].key)
  BY <1>2, FailKeeps DEF InsertTransaction
<1> QED
  BY <1>1, <1>2

\* The entry is on an account of the organization, or the session ends.
LEMMA InsertEntryKeeps ==
    ASSUME IInv, NEW s \in Sessions, InsertEntry(s) PROVE IInv'
<1>1. CASE Insertable(s)
  <2>1. session[s] \in SessionType /\ Sound(session[s]) /\ session[s].pc = "entry"
    BY TypeParts DEF IInv, SessionsAreSound, InsertEntry
  <2>2. /\ session[s].lines \in Seq(Line) /\ session[s].done \in Nat
        /\ session[s].done < Len(session[s].lines)
    BY <2>1 DEF SessionType, InsertEntry
  <2>3. session[s].done + 1 \in DOMAIN session[s].lines
    BY <2>2, LineFacts
  <2>4. TriggerSum(s) \in Int
    <3>1. \A i \in 1 .. session[s].done + 1 : session[s].lines[i] \in Line
      BY <2>2
    <3>2. SubSeq(session[s].lines, 1, session[s].done + 1) \in Seq(Line)
      <4> HIDE DEF Line
      <4>1. PICK n \in Int : n = session[s].done + 1
        BY <2>2
      <4>2. \A i \in 1 .. n : session[s].lines[i] \in Line
        BY <3>1, <4>1
      <4>3. SubSeq(session[s].lines, 1, n) \in Seq(Line)
        BY <4>2, SubSeqProperties
      <4> QED
        BY <4>1, <4>3
    <3>3. \A a : NetOn(SubSeq(session[s].lines, 1, session[s].done + 1), a) \in Int
                 /\ EntriesSum(a) \in Int
      BY <3>2, NetIsInt, EntriesSumIsInt DEF IInv
    <3> QED
      BY <3>2, <3>3 DEF TriggerSum
  <2> DEFINE m == [session[s] EXCEPT !.pc = "trigger", !.sum = TriggerSum(s)]
  <2>5. /\ m \in SessionType /\ m.pc = "trigger" /\ m.id = session[s].id
        /\ m.org = session[s].org /\ m.key = session[s].key /\ m.lines = session[s].lines
        /\ m.reverses = session[s].reverses /\ m.done = session[s].done
    BY <2>1, <2>4 DEF SessionType
  <2>6. /\ session' = [session EXCEPT ![s] = m]
        /\ UNCHANGED <<accounts, balance, lock, pending, journal, store, fresh, reply>>
    BY <1>1 DEF InsertEntry
  <2> HIDE DEF m
  <2>7. Sound(m)
    BY <1>1, <2>1, <2>3, <2>5 DEF Sound, Origin, Writing, Insertable, NextLine
  <2>8. \A v \in Sessions \ {s} : Apart(session[v], m) /\ Apart(m, session[v])
    BY <2>1, <2>5, StillApart DEF Writing
  <2>9. reply' \in [Sessions -> ReplyType]
    BY <2>6, TypeParts DEF IInv
  <2> QED
    BY <2>5, <2>6, <2>7, <2>8, <2>9, SessionMoves
<1>2. CASE ~Insertable(s)
  BY <1>2, FailKeeps DEF InsertEntry
<1> QED
  BY <1>1, <1>2

\* The trigger writes the balance; one more line is in.
LEMMA UpdateBalanceKeeps ==
    ASSUME IInv, NEW s \in Sessions, UpdateBalance(s) PROVE IInv'
<1>1. session[s] \in SessionType /\ Sound(session[s]) /\ session[s].pc = "trigger"
  BY TypeParts DEF IInv, SessionsAreSound, UpdateBalance
<1>2. /\ session[s].lines \in Seq(Line) /\ session[s].done \in Nat /\ session[s].sum \in Int
  BY <1>1 DEF SessionType
<1>10. PICK d \in Nat : d = session[s].done + 1
  BY <1>2
<1> DEFINE m == [session[s] EXCEPT !.pc = "entry", !.done = d, !.sum = 0]
<1>3. /\ m \in SessionType /\ m.pc = "entry" /\ m.id = session[s].id
      /\ m.org = session[s].org /\ m.key = session[s].key /\ m.lines = session[s].lines
      /\ m.reverses = session[s].reverses /\ m.done = d
  <2>1. PICK n \in SessionType : n = [session[s] EXCEPT !.pc = "entry", !.done = d]
    BY <1>1 DEF SessionType
  <2>2. m = [n EXCEPT !.sum = 0]
    BY <1>1, <2>1 DEF SessionType
  <2> HIDE DEF m
  <2>3. m \in SessionType
    BY <2>2 DEF SessionType
  <2>4. /\ n.pc = "entry" /\ n.id = session[s].id
        /\ n.org = session[s].org /\ n.key = session[s].key /\ n.lines = session[s].lines
        /\ n.reverses = session[s].reverses /\ n.done = d
    BY <1>1, <2>1 DEF SessionType
  <2> QED
    BY <2>2, <2>3, <2>4 DEF SessionType
<1>4. session' = [session EXCEPT ![s] = m]
  <2>1. session \in [Sessions -> SessionType]
    BY TypeParts DEF IInv
  <2>2. session' = [session EXCEPT ![s].pc = "entry", ![s].done = d, ![s].sum = 0]
    BY <1>1, <1>10, <2>1 DEF UpdateBalance, SessionType
  <2> QED
    BY <2>2
<1> HIDE DEF m
<1>5. TypeOK'
  <2>1. session' \in [Sessions -> SessionType]
    BY <1>3, <1>4, TypeParts DEF IInv
  <2>2. /\ lock' \in [Accounts -> Sessions \cup {NoSession}]
        /\ pending' \in [Accounts -> Int]
    BY <1>2, TypeParts DEF IInv, UpdateBalance
  <2> QED
    BY <2>1, <2>2, TypeParts, TypePartsNext DEF IInv, UpdateBalance
<1>6. OwnLines(m.org, m.lines, m.done)
  <2> SUFFICES ASSUME NEW i \in DOMAIN session[s].lines, i <= session[s].done + 1
               PROVE  AccountOrg[session[s].lines[i].accountId] = session[s].org
    BY <1>3, <1>10 DEF OwnLines
  <2>1. i \in Nat
    BY <1>2, LineFacts
  <2>2. CASE i <= session[s].done
    BY <1>1, <2>2 DEF Sound, Writing, OwnLines
  <2>3. CASE i = session[s].done + 1
    BY <1>1, <2>3 DEF Sound
  <2> QED
    BY <1>2, <2>1, <2>2, <2>3
<1>7. Sound(m)
  BY <1>1, <1>3, <1>6 DEF Sound, Origin, Writing
<1>8. \A v \in Sessions \ {s} : Apart(session[v], m) /\ Apart(m, session[v])
  BY <1>1, <1>3, StillApart DEF Writing
<1>9. journal' = journal /\ store' = store
  BY DEF UpdateBalance
<1> QED
  BY <1>4, <1>5, <1>7, <1>8, <1>9, SessionStep

-----------------------------------------------------------------------------
(* The commit. *)

\* What a commit does to the journal and to the store.
CommitWrites(s) ==
    LET me == session[s] IN
    /\ me.pc = "entry" /\ me.done = Len(me.lines)
    /\ journal' = [t \in TxnIds |->
         IF t = me.id
         THEN [org |-> me.org, key |-> me.key, lines |-> me.lines,
               reverses |-> me.reverses, status |-> "POSTED"]
         ELSE IF t = me.reverses
         THEN [journal[t] EXCEPT !.status = "REVERSED"]
         ELSE journal[t]]
    /\ store' = storeIdempotencyResponse(s)
    /\ session' = [session EXCEPT ![s] = Idle]

\* The transaction is new, typed, balanced, and its organization's own.
LEMMA CommitFacts ==
    ASSUME IInv, NEW s \in Sessions, CommitWrites(s)
    PROVE  /\ session[s] \in SessionType /\ Sound(session[s]) /\ session[s].pc = "entry"
           /\ session[s].id \in TxnIds \ Committed
           /\ session[s].org \in Orgs
           /\ session[s].lines \in Seq(Line)
           /\ validateTransactionBalance(session[s].lines)
           /\ OwnLines(session[s].org, session[s].lines, Len(session[s].lines))
           /\ ~KeyTaken(session[s].key)
           /\ Origin(session[s])
<1>1. session[s] \in SessionType /\ Sound(session[s]) /\ session[s].pc = "entry"
  BY TypeParts DEF IInv, SessionsAreSound, CommitWrites
<1>2. /\ session[s].id \in TxnIds \ Committed /\ session[s].lines \in Seq(Line)
      /\ validateTransactionBalance(session[s].lines) /\ ~KeyTaken(session[s].key)
      /\ Origin(session[s])
  BY <1>1 DEF Sound, Writing, SessionType
<1>3. OwnLines(session[s].org, session[s].lines, Len(session[s].lines))
  BY <1>1 DEF Sound, Writing, CommitWrites
<1>4. session[s].org \in Orgs
  <2>1. CASE session[s].reverses = NoTxn
    BY <1>2, <2>1, LedgerAssumption DEF Origin
  <2>2. CASE session[s].reverses # NoTxn
    BY <1>2, <2>2, RowKinds, TypeParts DEF Origin, IInv, Book!Transaction
  <2> QED
    BY <2>1, <2>2
<1> QED
  BY <1>1, <1>2, <1>3, <1>4

\* The journal gains one row; the others keep all but their status.
LEMMA JournalGrows ==
    ASSUME IInv, NEW s \in Sessions, CommitWrites(s)
    PROVE  /\ journal' \in [TxnIds -> Book!Transaction \cup {Empty}]
           /\ Committed' = Committed \cup {session[s].id}
           /\ journal'[session[s].id].org = session[s].org
           /\ journal'[session[s].id].key = session[s].key
           /\ journal'[session[s].id].lines = session[s].lines
           /\ journal'[session[s].id].reverses = session[s].reverses
           /\ journal'[session[s].id].status = "POSTED"
           /\ \A t \in Committed :
                /\ journal'[t].org = journal[t].org /\ journal'[t].key = journal[t].key
                /\ journal'[t].lines = journal[t].lines
                /\ journal'[t].reverses = journal[t].reverses
                /\ t = session[s].reverses => journal'[t].status = "REVERSED"
                /\ t # session[s].reverses => journal'[t].status = journal[t].status
<1> DEFINE me == session[s]
           row == [org |-> me.org, key |-> me.key, lines |-> me.lines,
                   reverses |-> me.reverses, status |-> "POSTED"]
<1>0. journal \in [TxnIds -> Book!Transaction \cup {Empty}]
  BY TypeParts DEF IInv
<1>1. /\ me \in SessionType /\ me.id \in TxnIds \ Committed /\ me.org \in Orgs
      /\ Origin(me)
  BY CommitFacts
<1>2. row \in Book!Transaction /\ row.status = "POSTED"
  BY <1>1 DEF SessionType, Book!Transaction, Line
<1>3. me.reverses # NoTxn => me.reverses \in Committed
  BY <1>1 DEF Origin
<1>4. journal' = [t \in TxnIds |->
                    IF t = me.id THEN row
                    ELSE IF t = me.reverses THEN [journal[t] EXCEPT !.status = "REVERSED"]
                    ELSE journal[t]]
  BY DEF CommitWrites
<1>5. \A t \in Committed : t \in TxnIds /\ journal[t] \in Book!Transaction /\ t # me.id
  BY <1>0, <1>1, RowKinds
<1>6. ASSUME NEW t \in Committed
      PROVE  /\ journal'[t] \in Book!Transaction
             /\ journal'[t].org = journal[t].org /\ journal'[t].key = journal[t].key
             /\ journal'[t].lines = journal[t].lines
             /\ journal'[t].reverses = journal[t].reverses
             /\ t = me.reverses => journal'[t].status = "REVERSED"
             /\ t # me.reverses => journal'[t].status = journal[t].status
  <2>1. journal[t] \in Book!Transaction /\ t \in TxnIds /\ t # me.id
    BY <1>5
  <2>2. CASE t = me.reverses
    <3>1. journal'[t] = [journal[t] EXCEPT !.status = "REVERSED"]
      BY <1>4, <2>1, <2>2
    <3> QED
      BY <2>1, <2>2, <3>1 DEF Book!Transaction
  <2>3. CASE t # me.reverses
    BY <1>4, <2>1, <2>3
  <2> QED
    BY <2>2, <2>3
<1>7. journal'[me.id] = row
  BY <1>1, <1>4
<1>8. ASSUME NEW t \in TxnIds \ Committed, t # me.id
      PROVE  journal'[t] = Empty
  <2>1. journal[t] = Empty /\ t # NoTxn
    BY <1>0, RowKinds, LedgerAssumption
  <2> QED
    BY <1>3, <1>4, <1>8, <2>1
<1>9. /\ Empty.status = "NONE"
      /\ \A x \in Book!Transaction : x.status # "NONE"
  BY DEF Empty, Book!Empty, Book!Transaction
<1> HIDE DEF row
<1>10. journal' \in [TxnIds -> Book!Transaction \cup {Empty}]
  <2>1. \A t \in TxnIds : journal'[t] \in Book!Transaction \cup {Empty}
    BY <1>2, <1>6, <1>7, <1>8
  <2>2. journal' = [t \in TxnIds |-> journal'[t]]
    BY <1>4
  <2> QED
    BY <2>1, <2>2
<1>11. Committed' = Committed \cup {me.id}
  <2>1. Committed' = {t \in TxnIds : journal'[t].status # "NONE"}
    BY DEF Committed, Book!Recorded
  <2>2. \A t \in TxnIds : journal'[t].status # "NONE" <=> t \in Committed \cup {me.id}
    BY <1>2, <1>6, <1>7, <1>8, <1>9
  <2> QED
    BY <1>1, <1>5, <2>1, <2>2
<1> QED
  BY <1>6, <1>7, <1>10, <1>11 DEF row

\* The other sessions hold other ids and other keys, so they stay sound.
LEMMA CommitKeepsSessions ==
    ASSUME IInv, NEW s \in Sessions, CommitWrites(s) PROVE SessionsAreSound' /\ RowsAreApart'
<1>0. session \in [Sessions -> SessionType] /\ session' = [session EXCEPT ![s] = Idle]
  BY TypeParts DEF IInv, CommitWrites
<1>1. session'[s] = Idle /\ \A v \in Sessions \ {s} : session'[v] = session[v]
  BY <1>0
<1>2. ASSUME NEW v \in Sessions PROVE Sound(session[v])'
  <2>1. CASE v = s
    <3>1. session'[v] = Idle
      BY <1>1, <2>1
    <3> QED
      BY <3>1, IdleIsSound DEF Sound, Writing
  <2>2. CASE v # s
    <3> DEFINE you == session[v]
    <3>1. Sound(you) /\ Apart(you, session[s]) /\ session'[v] = you
      BY <1>1, <2>2 DEF IInv, SessionsAreSound, RowsAreApart
    <3>2. you.pc # "idle" => Origin(session[v])'
      <4> SUFFICES ASSUME you.pc # "idle" PROVE Origin(session[v])'
        OBVIOUS
      <4>1. Origin(you)
        BY <3>1 DEF Sound
      <4> QED
        BY <3>1, <4>1, JournalGrows DEF Origin
    <3>3. Writing(you) => you.id \notin Committed' /\ ~KeyTaken(session[v].key)'
      <4> SUFFICES ASSUME Writing(you)
                   PROVE  you.id \notin Committed' /\ ~KeyTaken(session[v].key)'
        OBVIOUS
      <4>1. /\ you.id \notin Committed /\ ~KeyTaken(you.key) /\ you.id # session[s].id
            /\ you.key = session[s].key => you.key = NoKey
        BY <3>1, CommitFacts DEF Sound, Apart, Writing
      <4>2. you.id \notin Committed'
        BY <4>1, JournalGrows
      <4>3. you.key # NoKey => \A t \in Committed' : journal'[t].key # you.key
        BY <4>1, JournalGrows DEF KeyTaken
      <4> QED
        BY <3>1, <4>2, <4>3 DEF KeyTaken
    <3> QED
      BY <3>1, <3>2, <3>3 DEF Sound, Writing, OwnLines
  <2> QED
    BY <2>1, <2>2
<1>3. ASSUME NEW u \in Sessions, NEW v \in Sessions, u # v
      PROVE  Apart(session[u], session[v])'
  <2>1. Apart(session'[u], session'[v])
    BY <1>1, <1>3, IdleIsSound DEF IInv, RowsAreApart, Apart
  <2> QED
    BY <2>1 DEF Apart, Writing
<1>4. SessionsAreSound'
  BY <1>2 DEF SessionsAreSound
<1>5. RowsAreApart'
  BY <1>3 DEF RowsAreApart
<1> QED
  BY <1>4, <1>5

\* The book stays balanced, and the reversal and its original agree.
LEMMA CommitKeepsJournal ==
    ASSUME IInv, NEW s \in Sessions, CommitWrites(s)
    PROVE  JournalIsSound' /\ ReversedIffReversal'
<1> DEFINE me == session[s]
<1>0. /\ me.id \in TxnIds \ Committed /\ Origin(me)
      /\ validateTransactionBalance(me.lines)
      /\ OwnLines(me.org, me.lines, Len(me.lines))
  BY CommitFacts
<1>1. /\ Committed' = Committed \cup {me.id}
      /\ journal'[me.id].org = me.org /\ journal'[me.id].lines = me.lines
      /\ journal'[me.id].reverses = me.reverses /\ journal'[me.id].status = "POSTED"
      /\ \A t \in Committed :
                /\ journal'[t].org = journal[t].org
                /\ journal'[t].lines = journal[t].lines
                /\ journal'[t].reverses = journal[t].reverses
                /\ t = me.reverses => journal'[t].status = "REVERSED"
                /\ t # me.reverses => journal'[t].status = journal[t].status
  BY JournalGrows
<1>2. me.reverses \in Committed \cup {NoTxn} /\ me.reverses # me.id
  BY <1>0, LedgerAssumption DEF Origin
<1>3. \A t \in Committed : journal[t].reverses \in Committed \cup {NoTxn}
  BY DEF IInv, JournalIsSound
<1>4. JournalIsSound'
  <2> SUFFICES ASSUME NEW t \in Committed'
               PROVE  /\ validateTransactionBalance(journal'[t].lines)
                      /\ OwnLines(journal'[t].org, journal'[t].lines, Len(journal'[t].lines))
                      /\ journal'[t].reverses \in Committed' \cup {NoTxn}
    BY DEF JournalIsSound, validateTransactionBalance, SideSum, OwnLines, Book!OnSide
  <2>1. CASE t = me.id
    BY <1>0, <1>1, <1>2, <2>1
  <2>2. CASE t \in Committed
    BY <1>1, <2>2 DEF IInv, JournalIsSound
  <2> QED
    BY <1>1, <2>1, <2>2
<1>5. ReversedIffReversal'
  <2> SUFFICES ASSUME NEW t \in Committed'
               PROVE  journal'[t].status = "REVERSED" <=>
                        \E u \in Committed' : journal'[u].reverses = t
    BY DEF ReversedIffReversal
  <2>1. CASE t = me.id
    <3>1. \A u \in Committed' : journal'[u].reverses # t
      BY <1>0, <1>1, <1>2, <1>3, <2>1, LedgerAssumption
    <3> QED
      BY <1>1, <2>1, <3>1
  <2>2. CASE t \in Committed /\ t = me.reverses
    BY <1>1, <2>2
  <2>3. CASE t \in Committed /\ t # me.reverses
    <3>1. journal[t].status = "REVERSED" <=> \E u \in Committed : journal[u].reverses = t
      BY <2>3 DEF IInv, ReversedIffReversal
    <3> QED
      BY <1>1, <2>3, <3>1
  <2> QED
    BY <1>1, <2>1, <2>2, <2>3
<1> QED
  BY <1>4, <1>5

\* The answer is stored under the key of the row that was inserted with it.
LEMMA CommitKeepsStore ==
    ASSUME IInv, NEW s \in Sessions, CommitWrites(s)
    PROVE  /\ StoreAgreesWithJournal'
           /\ store' \in [Keys -> TxnIds \cup {NoTxn}]
<1> DEFINE me == session[s]
<1>0. /\ me.id \in TxnIds \ Committed /\ me.key \in Keys \cup {NoKey}
      /\ ~KeyTaken(me.key)
  BY CommitFacts DEF SessionType
<1>1. /\ Committed' = Committed \cup {me.id}
      /\ journal'[me.id].key = me.key
      /\ \A t \in Committed : journal'[t].key = journal[t].key
  BY JournalGrows
<1>2. store \in [Keys -> TxnIds \cup {NoTxn}] /\ me.id # NoTxn
  BY <1>0, TypeParts, LedgerAssumption DEF IInv
<1>3. store' = IF me.key = NoKey THEN store ELSE [store EXCEPT ![me.key] = me.id]
  BY DEF CommitWrites, storeIdempotencyResponse
<1>4. /\ \A k \in Keys : store[k] # NoTxn => store[k] \in Committed /\ journal[store[k]].key = k
      /\ \A t \in Committed : journal[t].key # NoKey => store[journal[t].key] = t
  BY DEF IInv, StoreAgreesWithJournal
<1>5. me.key # NoKey => \A t \in Committed : journal[t].key # me.key
  BY <1>0 DEF KeyTaken
<1>6. store' \in [Keys -> TxnIds \cup {NoTxn}]
  BY <1>0, <1>2, <1>3
<1>7. ASSUME NEW k \in Keys, store'[k] # NoTxn
      PROVE  store'[k] \in Committed' /\ journal'[store'[k]].key = k
  BY <1>0, <1>1, <1>2, <1>3, <1>4, <1>7
<1>8. \A t \in Committed : journal[t].key \in Keys \cup {NoKey}
  BY RowKinds, TypeParts DEF IInv, Book!Transaction
<1>9. ASSUME NEW t \in Committed', journal'[t].key # NoKey
      PROVE  store'[journal'[t].key] = t
  <2>1. CASE t = me.id
    BY <1>0, <1>1, <1>2, <1>3, <1>9, <2>1
  <2>2. CASE t \in Committed
    BY <1>1, <1>2, <1>3, <1>4, <1>5, <1>8, <1>9, <2>2
  <2> QED
    BY <1>1, <2>1, <2>2
<1>10. StoreAgreesWithJournal'
  BY <1>7, <1>9 DEF StoreAgreesWithJournal
<1> QED
  BY <1>6, <1>10

\* Steps 5 to 7 and COMMIT.
LEMMA CommitKeeps == ASSUME IInv, NEW s \in Sessions, Commit(s) PROVE IInv'
<1>1. CASE validateTransactionBalance(session[s].lines)
  <2>1. CommitWrites(s)
    BY <1>1 DEF Commit, CommitWrites
  <2>2. /\ session[s].id \in TxnIds /\ session[s].key \in Keys \cup {NoKey}
    BY <2>1, CommitFacts DEF SessionType
  <2>3. TypeOK'
    <3>1. reply' \in [Sessions -> ReplyType]
      BY <1>1, <2>2, ReplyTyped DEF Commit
    <3>2. session' \in [Sessions -> SessionType]
      BY <2>1, IdleIsSound, TypeParts DEF IInv, CommitWrites
    <3>3. /\ journal' \in [TxnIds -> Book!Transaction \cup {Empty}]
          /\ store' \in [Keys -> TxnIds \cup {NoTxn}]
      BY <2>1, JournalGrows, CommitKeepsStore
    <3>4. /\ accounts' = accounts
          /\ fresh' = IF session[s].key = NoKey THEN fresh ELSE fresh \cup {session[s].key}
          /\ balance' = [a \in Accounts |-> IF lock[a] = s THEN pending[a] ELSE balance[a]]
          /\ pending' = [a \in Accounts |-> IF lock[a] = s THEN 0 ELSE pending[a]]
          /\ lock' = [a \in Accounts |-> IF lock[a] = s THEN NoSession ELSE lock[a]]
      BY <1>1 DEF Commit
    <3>5. /\ accounts' \subseteq Accounts /\ fresh' \subseteq Keys
          /\ balance' \in [Accounts -> Int] /\ pending' \in [Accounts -> Int]
          /\ lock' \in [Accounts -> Sessions \cup {NoSession}]
      BY <2>2, <3>4, TypeParts DEF IInv
    <3> QED
      BY <3>1, <3>2, <3>3, <3>5, TypePartsNext
  <2> QED
    BY <2>1, <2>3, CommitKeepsSessions, CommitKeepsJournal, CommitKeepsStore DEF IInv
<1>2. CASE ~validateTransactionBalance(session[s].lines)
  BY <1>2, FailKeeps DEF Commit
<1> QED
  BY <1>1, <1>2

-----------------------------------------------------------------------------
(* The invariant and what follows. *)

\* The empty ledger satisfies the invariant.
LEMMA InitIInv == Init => IInv
<1> SUFFICES ASSUME Init PROVE IInv
  OBVIOUS
<1>1. journal = [t \in TxnIds |-> Empty]
  BY DEF Init
<1>2. Committed = {}
  BY <1>1 DEF Committed, Book!Recorded, Empty, Book!Empty
<1>3. \A s \in Sessions : session[s] = Idle
  BY DEF Init
<1>4. TypeOK
  <2>1. [kind |-> "none", txn |-> NoTxn] \in ReplyType
    BY DEF ReplyType
  <2> QED
    BY <1>1, <2>1, IdleIsSound, TypeParts DEF Init
<1>5. SessionsAreSound /\ RowsAreApart
  BY <1>3, IdleIsSound DEF SessionsAreSound, RowsAreApart, Apart
<1>6. JournalIsSound /\ StoreAgreesWithJournal /\ ReversedIffReversal
  BY <1>2 DEF JournalIsSound, StoreAgreesWithJournal, ReversedIffReversal, Init
<1> QED
  BY <1>4, <1>5, <1>6 DEF IInv

\* Every step keeps the invariant.
LEMMA NextIInv == IInv /\ [Next]_vars => IInv'
<1> SUFFICES ASSUME IInv, [Next]_vars PROVE IInv'
  OBVIOUS
<1>1. CASE UNCHANGED vars
  <2>1. TypeOK'
    BY <1>1, TypeParts, TypePartsNext DEF IInv, vars
  <2> QED
    BY <1>1, <2>1, QuietStep DEF vars
<1>2. ASSUME NEW a \in Accounts, createAccount(a) PROVE IInv'
  BY <1>2, CreateAccountKeeps
<1>3. ASSUME NEW s \in Sessions, NEW req \in Requests, BeginPost(s, req) PROVE IInv'
  BY <1>3, BeginPostKeeps
<1>4. ASSUME NEW s \in Sessions, NEW org \in Orgs, NEW original \in TxnIds,
             BeginReverse(s, org, original)
      PROVE  IInv'
  BY <1>4, BeginReverseKeeps
<1>5. ASSUME NEW s \in Sessions, Step(s) PROVE IInv'
  <2>1. CASE ReturnStored(s)
    BY <2>1, ReturnStoredKeeps
  <2>2. CASE Validate(s)
    BY <2>2, ValidateKeeps
  <2>3. CASE InsertTransaction(s)
    BY <2>3, InsertTransactionKeeps
  <2>4. CASE InsertEntry(s)
    BY <2>4, InsertEntryKeeps
  <2>5. CASE UpdateBalance(s)
    BY <2>5, UpdateBalanceKeeps
  <2>6. CASE DeadlockAbort(s)
    BY <2>6, FailKeeps DEF DeadlockAbort
  <2>7. CASE Commit(s)
    BY <2>7, CommitKeeps
  <2> QED
    BY <1>5, <2>1, <2>2, <2>3, <2>4, <2>5, <2>6, <2>7 DEF Step
<1>6. ASSUME NEW s \in Sessions, Disconnect(s) PROVE IInv'
  BY <1>6, DisconnectKeeps
<1>7. ASSUME NEW k \in Keys, Expire(k) PROVE IInv'
  BY <1>7, ExpireKeeps
<1> QED
  BY <1>1, <1>2, <1>3, <1>4, <1>5, <1>6, <1>7 DEF Next

\* The inductive invariant of the ledger service.
THEOREM LedgerInvariant == Spec => []IInv
BY InitIInv, NextIInv, PTL DEF Spec

\* Every column has its type.
THEOREM LedgerTypeCorrect == Spec => []TypeOK
BY LedgerInvariant, PTL DEF IInv

\* The stored responses and the journal agree at every moment: a key answers
\* with the one committed transaction posted under it (storeIdempotencyResponse
\* commits with the row that holds the unique index entry).
THEOREM StoreKeepsAgreeing == Spec => []StoreAgreesWithJournal
BY LedgerInvariant, PTL DEF IInv

\* A transaction is REVERSED exactly when a reversal of it is committed
\* (reverseTransaction).
THEOREM ReversalsStayPaired == Spec => []ReversedIffReversal
BY LedgerInvariant, PTL DEF IInv

\* The trial balance of every organization is zero and reconcile finds nothing,
\* for any number of lines, accounts and transactions.
THEOREM BooksAlwaysReconcile == Spec => []BooksReconcile
<1>1. IInv => BooksReconcile
  BY BooksFollow DEF IInv
<1> QED
  BY <1>1, LedgerInvariant, PTL

-----------------------------------------------------------------------------
(* The refinement. *)

\* The book sums as the service does.
LEMMA SameSums == \A f, S : Book!SumFunctionOnSet(f, S) = SumFunctionOnSet(f, S)
BY DEF SumFunctionOnSet, FoldFunctionOnSet, MapThenFoldSet,
   Book!SumFunctionOnSet, Book!FoldFunctionOnSet, Book!MapThenFoldSet

\* A commit posts one request, or reverses one recorded transaction.
LEMMA CommitImplements ==
    ASSUME IInv, NEW s \in Sessions, Commit(s) PROVE [Book!Next]_journal
<1>1. CASE validateTransactionBalance(session[s].lines)
  <2> DEFINE me == session[s]
  <2>1. CommitWrites(s)
    BY <1>1 DEF Commit, CommitWrites
  <2>2. /\ me.id \in TxnIds \ Committed /\ ~KeyTaken(me.key) /\ Origin(me)
        /\ OwnLines(me.org, me.lines, Len(me.lines)) /\ me.lines \in Seq(Line)
    BY <2>1, CommitFacts
  <2>3. journal \in [TxnIds -> Book!Transaction \cup {Empty}]
    BY TypeParts DEF IInv
  <2>4. CASE me.reverses = NoTxn
    <3> DEFINE req == [org |-> me.org, key |-> me.key, lines |-> me.lines]
    <3>1. req \in Requests
      BY <2>2, <2>4 DEF Origin
    <3>2. ~Book!KeyUsed(req.key)
      BY <2>2 DEF KeyTaken, Book!KeyUsed, Committed
    <3>3. Book!Balances(req.lines)
      <4>1. Book!Balances(me.lines)
        BY <1>1, SameSums DEF validateTransactionBalance, SideSum, Book!Balances, Book!SideSum
      <4> QED
        BY <4>1
    <3>4. Book!OwnAccounts(req.org, req.lines)
      BY <2>2, LineFacts DEF OwnLines, Book!OwnAccounts
    <3>5. journal' = [journal EXCEPT ![me.id] =
                        [org |-> req.org, key |-> req.key, lines |-> req.lines,
                         reverses |-> NoTxn, status |-> "POSTED"]]
      BY <2>1, <2>2, <2>3, <2>4, LedgerAssumption DEF CommitWrites
    <3>6. Book!Post(me.id, req)
      BY <2>2, <3>2, <3>3, <3>4, <3>5 DEF Book!Post, Committed
    <3> QED
      BY <2>2, <3>1, <3>6 DEF Book!Next
  <2>5. CASE me.reverses # NoTxn
    <3> DEFINE o == me.reverses
    <3>1. /\ o \in Committed /\ o \in TxnIds /\ me.key = NoKey /\ me.org = journal[o].org
          /\ me.lines = reversalEntries(journal[o].lines) /\ o # me.id
      BY <2>2, <2>3, <2>5, RowKinds DEF Origin
    <3>2. me.lines = Book!Swapped(journal[o].lines)
      BY <3>1 DEF reversalEntries, Opposite, Book!Swapped, Book!Opposite
    <3>3. journal' = [journal EXCEPT
                        ![me.id] = [org |-> journal[o].org, key |-> NoKey,
                                    lines |-> Book!Swapped(journal[o].lines),
                                    reverses |-> o, status |-> "POSTED"],
                        ![o].status = "REVERSED"]
      BY <2>1, <2>2, <2>3, <3>1, <3>2 DEF CommitWrites
    <3>4. Book!Reverse(me.id, o)
      BY <2>2, <3>1, <3>3 DEF Book!Reverse, Committed
    <3> QED
      BY <2>2, <3>1, <3>4 DEF Book!Next
  <2> QED
    BY <2>4, <2>5
<1>2. CASE ~validateTransactionBalance(session[s].lines)
  BY <1>2 DEF Commit, Fail, Rollback
<1> QED
  BY <1>1, <1>2

\* Every other step leaves the book alone.
LEMMA OthersStutter ==
    ASSUME IInv, [Next]_vars, \A s \in Sessions : ~Commit(s) PROVE journal' = journal
BY DEF Next, vars, createAccount, BeginPost, BeginReverse, Step, ReturnStored, Validate,
   InsertTransaction, InsertEntry, UpdateBalance, DeadlockAbort, Disconnect, Expire, Fail,
   Rollback

\* The ledger service implements the book: each step is one Post, one Reverse or
\* a step that the book does not see (postTransaction, reverseTransaction).
THEOREM LedgerImplementsBook == Spec => ImplementsBook
<1>1. Init => Book!Init
  BY DEF Init, Book!Init, Empty
<1>2. IInv /\ [Next]_vars => [Book!Next]_journal
  BY CommitImplements, OthersStutter
<1> QED
  BY <1>1, <1>2, LedgerInvariant, PTL DEF Spec, ImplementsBook, Book!Spec
=============================================================================
