------------------------------- MODULE Ledger -------------------------------
(***************************************************************************)
(* The ledger service (services/ledger/ledger-service-core.ts) over its    *)
(* PostgreSQL schema (migrations/002_ledger_schema.sql).  Every request    *)
(* runs in a database session of its own, at READ COMMITTED; a step is one *)
(* statement (or a run of statements that touch only the session's own     *)
(* rows).  A session that loses its connection, or whose statement fails,  *)
(* rolls back.                                                             *)
(***************************************************************************)
EXTENDS Integers, Sequences, FiniteSets, Functions

CONSTANTS
    Orgs, Accounts, AccountOrg, Keys, NoKey, TxnIds, NoTxn, Requests,
    Sessions,   \* database sessions of concurrent requests
    NoSession   \* nobody holds the row lock

VARIABLES
    accounts,   \* rows of table accounts
    balance,    \* committed accounts.balance, the denormalised column
    lock,       \* who holds the row lock of an account
    pending,    \* the uncommitted balance written by the lock holder
    journal,    \* committed transactions with their journal_entries
    store,      \* idempotency_store: the transaction answered for a key
    fresh,      \* keys whose stored response has not passed expires_at
    session,    \* what each session is doing
    reply       \* the last answer each session gave its caller

vars == <<accounts, balance, lock, pending, journal, store, fresh, session, reply>>

Book == INSTANCE LedgerBook WITH book <- journal

Line == Book!Line
Empty == Book!Empty
Committed == Book!Recorded

ASSUME LedgerAssumption ==
    /\ IsFiniteSet(TxnIds) /\ IsFiniteSet(Accounts)
    /\ AccountOrg \in [Accounts -> Orgs]
    /\ NoKey \notin Keys
    /\ NoTxn \notin TxnIds \cup Orgs
    /\ NoSession \notin Sessions
    /\ Requests \subseteq [org : Orgs, key : Keys \cup {NoKey}, lines : Seq(Line)]

-----------------------------------------------------------------------------
(***************************************************************************)
(* Pure helpers of the service and of the schema's functions.              *)
(***************************************************************************)
Opposite(side) == IF side = "DEBIT" THEN "CREDIT" ELSE "DEBIT"

\* Fault: a reversal that forgets to swap.
reversalEntriesUnswapped(lines) == lines

\* reverseTransaction: the same lines on the other side.
reversalEntries(lines) ==
    [i \in DOMAIN lines |->
        [accountId   |-> lines[i].accountId,
         debitCredit |-> Opposite(lines[i].debitCredit),
         amount      |-> lines[i].amount]]

SideSum(lines, side) ==
    SumFunctionOnSet([i \in DOMAIN lines |-> Book!OnSide(lines[i], side)], DOMAIN lines)

\* Fault: only one side is looked at.
validateDebitsOnly(lines) == SideSum(lines, "DEBIT") > 0

validateTransactionBalance(lines) ==
    /\ SideSum(lines, "DEBIT") = SideSum(lines, "CREDIT")
    /\ SideSum(lines, "DEBIT") > 0

Signed(line) == IF line.debitCredit = "DEBIT" THEN line.amount ELSE -line.amount

\* SUM over the lines of one transaction that touch account a.
NetOn(lines, a) ==
    SumFunctionOnSet([i \in DOMAIN lines |->
                         IF lines[i].accountId = a THEN Signed(lines[i]) ELSE 0],
                     DOMAIN lines)

\* SUM over journal_entries as committed at this moment.
EntriesSum(a) ==
    SumFunctionOnSet([t \in Committed |-> NetOn(journal[t].lines, a)], Committed)

-----------------------------------------------------------------------------
Idle == [pc |-> "idle", org |-> NoTxn, key |-> NoKey, lines |-> <<>>,
         reverses |-> NoTxn, id |-> NoTxn, done |-> 0, sum |-> 0]

Init ==
    /\ accounts = {}
    /\ balance = [a \in Accounts |-> 0]
    /\ lock = [a \in Accounts |-> NoSession]
    /\ pending = [a \in Accounts |-> 0]
    /\ journal = [t \in TxnIds |-> Empty]
    /\ store = [k \in Keys |-> NoTxn]
    /\ fresh = {}
    /\ session = [s \in Sessions |-> Idle]
    /\ reply = [s \in Sessions |-> [kind |-> "none", txn |-> NoTxn]]

\* Fault: the locks outlive the session.
RollbackKeepingLocks(s) ==
    /\ session' = [session EXCEPT ![s] = Idle]
    /\ UNCHANGED <<accounts, balance, lock, pending, journal, store, fresh>>

\* ROLLBACK (or the loss of the connection): the session's rows and locks go.
Rollback(s) ==
    /\ session' = [session EXCEPT ![s] = Idle]
    /\ lock' = [a \in Accounts |-> IF lock[a] = s THEN NoSession ELSE lock[a]]
    /\ pending' = [a \in Accounts |-> IF lock[a] = s THEN 0 ELSE pending[a]]
    /\ UNCHANGED <<accounts, balance, journal, store, fresh>>

Fail(s) ==
    /\ Rollback(s)
    /\ reply' = [reply EXCEPT ![s] = [kind |-> "error", txn |-> NoTxn]]

Goto(s, pc) == session' = [session EXCEPT ![s].pc = pc]

-----------------------------------------------------------------------------
\* createAccount: a committed insert; UNIQUE (organization_id, code).
createAccount(a) ==
    /\ a \notin accounts
    /\ accounts' = accounts \cup {a}
    /\ UNCHANGED <<balance, lock, pending, journal, store, fresh, session, reply>>

\* Bound of the model: a request starts only while an unused id is left for it.
RoomForOneMore ==
    Cardinality(Committed) + Cardinality({u \in Sessions : session[u].pc # "idle"})
        < Cardinality(TxnIds)

\* postTransaction: open a session and BEGIN.
BeginPost(s, req) ==
    /\ session[s].pc = "idle"
    /\ RoomForOneMore
    /\ session' = [session EXCEPT ![s] =
                     [Idle EXCEPT !.pc = "check", !.org = req.org,
                                  !.key = req.key, !.lines = req.lines]]
    /\ reply' = [reply EXCEPT ![s] = [kind |-> "none", txn |-> NoTxn]]
    /\ UNCHANGED <<accounts, balance, lock, pending, journal, store, fresh>>

\* Fault: the original is marked before its reversal is posted, and committed.
BeginReverseMarkingFirst(s, org, original) ==
    /\ session[s].pc = "idle"
    /\ original \in Committed /\ journal[original].org = org
    /\ RoomForOneMore
    /\ session' = [session EXCEPT ![s] =
         [Idle EXCEPT !.pc = "check", !.org = org,
                      !.lines = reversalEntries(journal[original].lines),
                      !.reverses = original]]
    /\ journal' = [journal EXCEPT ![original].status = "REVERSED"]
    /\ UNCHANGED <<accounts, balance, lock, pending, store, fresh, reply>>

\* reverseTransaction: read the committed original and its entries, then post
\* the swapped entries without an idempotency key.  The status of the original
\* is not looked at; one the organization does not have is "not found".
BeginReverse(s, org, original) ==
    /\ session[s].pc = "idle"
    /\ IF original \in Committed /\ journal[original].org = org
       THEN /\ RoomForOneMore
            /\ session' = [session EXCEPT ![s] =
                 [Idle EXCEPT !.pc = "check", !.org = org,
                              !.lines = reversalEntries(journal[original].lines),
                              !.reverses = original]]
            /\ reply' = [reply EXCEPT ![s] = [kind |-> "none", txn |-> NoTxn]]
       ELSE /\ session' = session
            /\ reply' = [reply EXCEPT ![s] = [kind |-> "error", txn |-> NoTxn]]
    /\ UNCHANGED <<accounts, balance, lock, pending, journal, store, fresh>>

\* The stored response a session can see: row-level security hides the rows of
\* other organizations, and expires_at > NOW().
checkIdempotency(s) ==
    LET k == session[s].key IN
    IF k # NoKey /\ k \in fresh /\ journal[store[k]].org = session[s].org
    THEN store[k] ELSE NoTxn

\* Step 1: the stored answer, and COMMIT of a transaction that wrote nothing.
ReturnStored(s) ==
    /\ session[s].pc = "check"
    /\ checkIdempotency(s) # NoTxn
    /\ reply' = [reply EXCEPT ![s] = [kind |-> "ok", txn |-> checkIdempotency(s)]]
    /\ session' = [session EXCEPT ![s] = Idle]
    /\ UNCHANGED <<accounts, balance, lock, pending, journal, store, fresh>>

\* Steps 1 and 2: nothing stored; the request must balance.
Validate(s) ==
    /\ session[s].pc = "check"
    /\ checkIdempotency(s) = NoTxn
    /\ IF validateTransactionBalance(session[s].lines)
       THEN /\ Goto(s, "insert")
            /\ UNCHANGED <<accounts, balance, lock, pending, journal, store,
                           fresh, reply>>
       ELSE Fail(s)

\* A session whose uncommitted row holds the unique index entry of the key.
KeyHeldBy(key) ==
    {u \in Sessions : session[u].id # NoTxn /\ key # NoKey /\ session[u].key = key}

FreeIds ==
    TxnIds \ (Committed \cup {session[u].id : u \in Sessions})

KeyTaken(key) == key # NoKey /\ \E t \in Committed : journal[t].key = key

\* Step 3: INSERT INTO transactions.  The UNIQUE index on idempotency_key, which
\* row-level security does not filter, blocks while another session holds an
\* uncommitted row with this key and refuses a committed one (23505).
InsertTransaction(s) ==
    /\ session[s].pc = "insert"
    /\ KeyHeldBy(session[s].key) = {}
    /\ IF KeyTaken(session[s].key)
       THEN Fail(s)
       ELSE /\ FreeIds # {}
            /\ session' = [session EXCEPT ![s].pc = "entry",
                                          ![s].id = CHOOSE t \in FreeIds : TRUE]
            /\ UNCHANGED <<accounts, balance, lock, pending, journal, store,
                           fresh, reply>>

NextLine(s) == session[s].lines[session[s].done + 1]

\* What INSERT INTO journal_entries accepts: an account of the organization
\* that exists, and CHECK (amount > 0).
Insertable(s) ==
    /\ NextLine(s).accountId \in accounts
    /\ AccountOrg[NextLine(s).accountId] = session[s].org
    /\ NextLine(s).amount > 0

\* update_account_balance's sub-select: the committed entries of the account
\* and the session's own, the new one included.
TriggerSum(s) ==
    LET a == NextLine(s).accountId
    IN  EntriesSum(a) + NetOn(SubSeq(session[s].lines, 1, session[s].done + 1), a)

\* Step 4: account check and INSERT of one entry.  The AFTER INSERT trigger
\* starts its UPDATE: its sub-select reads what is there at this moment.
InsertEntry(s) ==
    /\ session[s].pc = "entry"
    /\ session[s].done < Len(session[s].lines)
    /\ IF Insertable(s)
       THEN /\ session' = [session EXCEPT ![s].pc = "trigger",
                                          ![s].sum = TriggerSum(s)]
            /\ UNCHANGED <<accounts, balance, lock, pending, journal, store,
                           fresh, reply>>
       ELSE Fail(s)

\* update_account_balance writes the row once the lock is free; the sum is the
\* one its statement snapshot gave.
UpdateBalance(s) ==
    LET a == NextLine(s).accountId IN
    /\ session[s].pc = "trigger"
    /\ lock[a] \in {s, NoSession}
    /\ lock' = [lock EXCEPT ![a] = s]
    /\ pending' = [pending EXCEPT ![a] = session[s].sum]
    /\ session' = [session EXCEPT ![s].pc = "entry", ![s].done = @ + 1,
                                  ![s].sum = 0]
    /\ UNCHANGED <<accounts, balance, journal, store, fresh, reply>>

\* s waits for a row lock that u holds.
WaitsFor(s, u) ==
    /\ session[s].pc = "trigger"
    /\ u # s
    /\ lock[NextLine(s).accountId] = u

\* PostgreSQL aborts one session of a cycle of lock waits.
DeadlockAbort(s) ==
    /\ \E S \in SUBSET Sessions :
         /\ s \in S
         /\ \A u \in S : /\ \E v \in S : WaitsFor(u, v)
                         /\ \E v \in S : WaitsFor(v, u)
    /\ Fail(s)

\* Fault: step 6 is left out.
storeNothing(s) == store

\* Step 6: the answer for the key, written in the transaction of the posting.
storeIdempotencyResponse(s) ==
    IF session[s].key = NoKey THEN store
    ELSE [store EXCEPT ![session[s].key] = session[s].id]

\* Steps 5 to 7, for a reversal the status of the original, and COMMIT.
Commit(s) ==
    LET me == session[s] IN
    /\ me.pc = "entry"
    /\ me.done = Len(me.lines)
    /\ IF validateTransactionBalance(me.lines)
       THEN /\ journal' = [t \in TxnIds |->
                 IF t = me.id
                 THEN [org |-> me.org, key |-> me.key, lines |-> me.lines,
                       reverses |-> me.reverses, status |-> "POSTED"]
                 ELSE IF t = me.reverses
                 THEN [journal[t] EXCEPT !.status = "REVERSED"]
                 ELSE journal[t]]
            /\ store' = storeIdempotencyResponse(s)
            /\ fresh' = IF me.key = NoKey THEN fresh ELSE fresh \cup {me.key}
            /\ balance' = [a \in Accounts |->
                 IF lock[a] = s THEN pending[a] ELSE balance[a]]
            /\ pending' = [a \in Accounts |->
                 IF lock[a] = s THEN 0 ELSE pending[a]]
            /\ lock' = [a \in Accounts |->
                 IF lock[a] = s THEN NoSession ELSE lock[a]]
            /\ session' = [session EXCEPT ![s] = Idle]
            /\ reply' = [reply EXCEPT ![s] = [kind |-> "ok", txn |-> me.id]]
            /\ UNCHANGED accounts
       ELSE Fail(s)

\* The caller gives up, the process dies or the connection breaks.
Disconnect(s) ==
    /\ session[s].pc # "idle"
    /\ Rollback(s)
    /\ reply' = [reply EXCEPT ![s] = [kind |-> "lost", txn |-> NoTxn]]

\* Twenty-four hours pass: the stored response of key is no longer returned.
Expire(key) ==
    /\ key \in fresh
    /\ fresh' = fresh \ {key}
    /\ UNCHANGED <<accounts, balance, lock, pending, journal, store, session, reply>>

-----------------------------------------------------------------------------
Step(s) ==
    \/ ReturnStored(s)
    \/ Validate(s)
    \/ InsertTransaction(s)
    \/ InsertEntry(s)
    \/ UpdateBalance(s)
    \/ DeadlockAbort(s)
    \/ Commit(s)

Next ==
    \/ \E a \in Accounts : createAccount(a)
    \/ \E s \in Sessions :
         \/ \E req \in Requests : BeginPost(s, req)
         \/ \E org \in Orgs, original \in TxnIds : BeginReverse(s, org, original)
         \/ Step(s)
         \/ Disconnect(s)
    \/ \E key \in Keys : Expire(key)

Spec == Init /\ [][Next]_vars

\* The database keeps running statements that can run, and it queues waiters: a
\* row lock or a unique-index entry that becomes free again and again is given
\* to the session that waits for it.
FairSpec ==
    /\ Spec
    /\ \A s \in Sessions : /\ WF_vars(Step(s))
                           /\ SF_vars(UpdateBalance(s))
                           /\ SF_vars(InsertTransaction(s))

-----------------------------------------------------------------------------
(***************************************************************************)
(* Properties.                                                             *)
(***************************************************************************)
SessionType ==
    [pc : {"idle", "check", "insert", "entry", "trigger"},
     org : Orgs \cup {NoTxn}, key : Keys \cup {NoKey}, lines : Seq(Line),
     reverses : TxnIds \cup {NoTxn}, id : TxnIds \cup {NoTxn},
     done : Nat, sum : Int]

\* Every column has its type.
TypeOK ==
    /\ accounts \subseteq Accounts
    /\ balance \in [Accounts -> Int]
    /\ lock \in [Accounts -> Sessions \cup {NoSession}]
    /\ pending \in [Accounts -> Int]
    /\ journal \in [TxnIds -> Book!Transaction \cup {Empty}]
    /\ store \in [Keys -> TxnIds \cup {NoTxn}]
    /\ fresh \subseteq Keys
    /\ session \in [Sessions -> SessionType]
    /\ reply \in [Sessions -> [kind : {"none", "ok", "error", "lost"},
                               txn : TxnIds \cup {NoTxn}]]

\* The store and the journal agree, however posts race, retry and expire: a
\* stored response is the committed transaction posted under that key, and
\* every committed key has just that one, so a key is used once and a retry is
\* never answered with a posting that rolled back (step 6 commits or rolls back
\* with step 3).
StoreAgreesWithJournal ==
    /\ \A k \in Keys : store[k] # NoTxn =>
          store[k] \in Committed /\ journal[store[k]].key = k
    /\ \A t \in Committed : journal[t].key # NoKey => store[journal[t].key] = t

\* A transaction is REVERSED exactly when a reversal of it is committed, also
\* when a session dies between the two writes (reverseTransaction).
ReversedIffReversal ==
    \A t \in Committed :
        journal[t].status = "REVERSED" <=>
            \E u \in Committed : journal[u].reverses = t

\* The rows of the trial_balance view for an organization, their total, and what
\* reconcile reports.
OrgAccounts(org) == {a \in Accounts : AccountOrg[a] = org}

TrialBalance(org) ==
    SumFunctionOnSet([a \in OrgAccounts(org) |-> EntriesSum(a)], OrgAccounts(org))

Discrepancies(org) ==
    {t \in Committed : /\ journal[t].org = org
                       /\ journal[t].status = "POSTED"
                       /\ SideSum(journal[t].lines, "DEBIT")
                            # SideSum(journal[t].lines, "CREDIT")}

\* The trial balance of every organization sums to zero and reconcile finds no
\* discrepancy, whatever sessions committed, failed or died (getTrialBalance,
\* reconcile; class comment, item 1).
BooksReconcile ==
    \A org \in Orgs : TrialBalance(org) = 0 /\ Discrepancies(org) = {}

\* Every request comes to an end: lock waits, unique-index waits and deadlocks
\* resolve.
EveryRequestEnds ==
    \A s \in Sessions : session[s].pc # "idle" ~> session[s].pc = "idle"

\* The service implements the book: a step commits one posting or one
\* reversal, or leaves the book alone.
ImplementsBook == Book!Spec
=============================================================================
