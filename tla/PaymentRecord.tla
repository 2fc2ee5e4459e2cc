---------------------------- MODULE PaymentRecord ----------------------------
(***************************************************************************)
(* What the transaction service promises about a payment: under one        *)
(* idempotency key one request is accepted, its outcome is decided once,   *)
(* and it is linked to the ledger at most once, after it succeeded.        *)
(* Payments is shown to implement this module; Gateway uses it for the     *)
(* service it calls.                                                       *)
(***************************************************************************)
EXTENDS Integers

CONSTANTS Keys, NoOrg, Requests

VARIABLE row    \* the payment under each idempotency key

NoRow == [org |-> NoOrg, amount |-> 0, feeAmount |-> 0,
          status |-> "NONE", ledger |-> "null"]

Init == row = [k \in Keys |-> NoRow]

Accept(req) ==
    /\ row[req.key].status = "NONE"
    /\ req.amount > 0
    /\ row' = [row EXCEPT ![req.key] =
                 [org |-> req.org, amount |-> req.amount,
                  feeAmount |-> req.feeAmount,
                  status |-> "PENDING", ledger |-> "null"]]

Decide(k) ==
    /\ row[k].status = "PENDING"
    /\ \E outcome \in {"SUCCEEDED", "FAILED"} :
         row' = [row EXCEPT ![k].status = outcome]

Link(k) ==
    /\ row[k].status = "SUCCEEDED"
    /\ row[k].ledger = "null"
    /\ row' = [row EXCEPT ![k].ledger = "set"]

Next ==
    \/ \E req \in Requests : Accept(req)
    \/ \E k \in Keys : Decide(k) \/ Link(k)

Spec == Init /\ [][Next]_row
==============================================================================
