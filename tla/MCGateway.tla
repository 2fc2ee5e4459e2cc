----------------------------- MODULE MCGateway -----------------------------
(* Small instances of the production gateway for TLC. *)
EXTENDS Gateway, TLC

CONSTANTS o1, o2, k1

Ask(o, k, amount) == [org |-> o, key |-> k, amount |-> amount, feeAmount |-> 0]

\* One key: a request and the same key with another amount.
OneMerchant == {Ask(o1, k1, 1), Ask(o1, k1, 2)}

\* Handlers are interchangeable.
HandlerSymmetry == Permutations(Handlers)
=============================================================================
