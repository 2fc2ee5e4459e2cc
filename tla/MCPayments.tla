----------------------------- MODULE MCPayments -----------------------------
(* Small instances of createPayment for TLC. *)
EXTENDS Payments

CONSTANTS o1, o2, k1, k2

Ask(o, k, amount, fee) == [org |-> o, key |-> k, amount |-> amount, feeAmount |-> fee]

\* A payment, the same key with another amount, the same key from another
\* organization, a second payment of the first organization whose fee eats the
\* amount, and an amount of zero.
MCRequests ==
    {Ask(o1, k1, 2, 1), Ask(o1, k1, 3, 0), Ask(o2, k1, 2, 1),
     Ask(o1, k2, 1, 1), Ask(o1, k2, 0, 0)}

OneRequest == {Ask(o1, k1, 2, 1)}
=============================================================================
