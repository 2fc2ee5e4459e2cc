------------------------------ MODULE MCRefunds ------------------------------
(* Small instances of refundPayment for TLC. *)
EXTENDS Refunds, TLC

CONSTANTS p1, k1, k2, k3

Ask(k, amount) == [payment |-> p1, key |-> k, amount |-> amount]

MCAmount == [p \in {p1} |-> 2]

\* The whole amount, one half, and a key that is sent for either and for nothing.
SharedKey == {Ask(k1, 2), Ask(k2, 1), Ask(k3, 0), Ask(k3, 1), Ask(k3, 2)}

\* The handlers are alike.
HandlerSymmetry == Permutations(Handlers)
==============================================================================
