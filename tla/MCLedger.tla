------------------------------ MODULE MCLedger ------------------------------
(* Small instances of the ledger service for TLC. *)
EXTENDS Ledger

CONSTANTS a1, a2, b1, o1, o2, k1, k2

MCOrgs == {o1, o2}
MCAccounts == {a1, a2, b1}
MCAccountOrg == [a \in MCAccounts |-> IF a = b1 THEN o2 ELSE o1]
MCKeys == {k1, k2}

Entry(a, side, n) == [accountId |-> a, debitCredit |-> side, amount |-> n]

\* A sale, and a posting that touches the same accounts in the other order.
Sale == [org |-> o1, key |-> k1,
         lines |-> <<Entry(a1, "DEBIT", 1), Entry(a2, "CREDIT", 1)>>]
Payout == [org |-> o1, key |-> NoKey,
           lines |-> <<Entry(a2, "DEBIT", 2), Entry(a1, "CREDIT", 2)>>]
\* The same key from another organization, on an account that is not its own.
Foreign == [org |-> o2, key |-> k1,
            lines |-> <<Entry(b1, "DEBIT", 1), Entry(a1, "CREDIT", 1)>>]
\* Refused by validateTransactionBalance, and by CHECK (amount > 0).
Lopsided == [org |-> o1, key |-> k1,
             lines |-> <<Entry(a1, "DEBIT", 1), Entry(a2, "CREDIT", 2)>>]
ZeroLine == [org |-> o1, key |-> NoKey,
             lines |-> <<Entry(a1, "DEBIT", 1), Entry(a2, "CREDIT", 1),
                         Entry(a2, "CREDIT", 0)>>]

AllRequests == {Sale, Payout, Foreign, Lopsided, ZeroLine}
=============================================================================
