----------------------------- MODULE LedgerBook -----------------------------
(***************************************************************************)
(* What the ledger service promises to its callers: an append-only book of *)
(* balanced double-entry transactions, at most one per idempotency key,    *)
(* where a reversal is one more transaction and the status of the original *)
(* changes in the same step.  No sessions, no locks, no store: the module  *)
(* Ledger is shown to implement this one.                                  *)
(***************************************************************************)
EXTENDS Integers, Sequences, FiniteSets, Functions

CONSTANTS
    Orgs,       \* organizations (tenants)
    Accounts,   \* ledger accounts that may be created
    AccountOrg, \* the organization each account belongs to
    Keys,       \* idempotency keys
    NoKey,      \* the request carries no idempotency key
    TxnIds,     \* transaction ids (uuids)
    NoTxn,      \* no such transaction
    Requests    \* the postings callers may ask for

VARIABLE book

(***************************************************************************)
(* Journal lines.  Amounts are whole minor units.                          *)
(***************************************************************************)
Line == [accountId : Accounts, debitCredit : {"DEBIT", "CREDIT"}, amount : Nat]

Opposite(side) == IF side = "DEBIT" THEN "CREDIT" ELSE "DEBIT"

Swapped(lines) ==
    [i \in DOMAIN lines |->
        [accountId   |-> lines[i].accountId,
         debitCredit |-> Opposite(lines[i].debitCredit),
         amount      |-> lines[i].amount]]

\* The part of a line that counts on one side of the book.
OnSide(line, side) == IF line.debitCredit = side THEN line.amount ELSE 0

SideSum(lines, side) ==
    SumFunctionOnSet([i \in DOMAIN lines |-> OnSide(lines[i], side)], DOMAIN lines)

\* Debits equal credits and the transaction moves something.
Balances(lines) ==
    /\ SideSum(lines, "DEBIT") = SideSum(lines, "CREDIT")
    /\ SideSum(lines, "DEBIT") > 0

Transaction ==
    [org : Orgs, key : Keys \cup {NoKey}, lines : Seq(Line),
     reverses : TxnIds \cup {NoTxn}, status : {"POSTED", "REVERSED"}]

Empty == [org |-> NoTxn, key |-> NoKey, lines |-> <<>>,
          reverses |-> NoTxn, status |-> "NONE"]

Recorded == {t \in TxnIds : book[t].status # "NONE"}

KeyUsed(key) == key # NoKey /\ \E t \in Recorded : book[t].key = key

OwnAccounts(org, lines) ==
    \A i \in DOMAIN lines : AccountOrg[lines[i].accountId] = org

-----------------------------------------------------------------------------
Init == book = [t \in TxnIds |-> Empty]

Post(t, req) ==
    /\ t \notin Recorded
    /\ ~KeyUsed(req.key)
    /\ Balances(req.lines)
    /\ OwnAccounts(req.org, req.lines)
    /\ book' = [book EXCEPT ![t] =
                  [org |-> req.org, key |-> req.key, lines |-> req.lines,
                   reverses |-> NoTxn, status |-> "POSTED"]]

Reverse(t, original) ==
    /\ t \notin Recorded
    /\ original \in Recorded
    /\ book' = [book EXCEPT
                  ![t] = [org |-> book[original].org, key |-> NoKey,
                          lines |-> Swapped(book[original].lines),
                          reverses |-> original, status |-> "POSTED"],
                  ![original].status = "REVERSED"]

Next ==
    \E t \in TxnIds :
        \/ \E req \in Requests : Post(t, req)
        \/ \E original \in TxnIds : Reverse(t, original)

Spec == Init /\ [][Next]_book
=============================================================================
