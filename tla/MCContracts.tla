---------------------------- MODULE MCContracts ----------------------------
(* Small instances of the service contracts. *)
EXTENDS Contracts, TLC

CONSTANTS w1, w2, c1, c2, k1, k2

Form(validator, self, quality, expires) ==
    [tenant |-> "tenant", agent |-> "agent", endpoint |-> "endpoint", price |-> 2,
     settlement |-> "prepaid_l402", deadline |-> 1, size |-> 1, quality |-> quality,
     validatorRequired |-> validator, selfVerify |-> self, refund |-> validator,
     expires |-> expires]

\* With an independent validator; and one the provider may validate itself.
MCTerms == [c \in {c1, c2} |->
              IF c = c1 THEN Form(TRUE, FALSE, 7, TRUE) ELSE Form(FALSE, TRUE, 5, FALSE)]

Call(c, key, endpoint, price) ==
    [contract |-> c, auth |-> "auth", agent |-> "agent", endpoint |-> endpoint, price |-> price,
     key |-> key, execution |-> "run", query |-> "query"]

\* One execution: paid under a contract, by a second key at another price, by
\* the route without a contract at another endpoint, and under a second contract.
MCCalls == {Call(c1, k1, "endpoint", 2), Call(c1, k2, "endpoint", 1),
            Call(NoContract, k1, "elsewhere", 2), Call(c2, k1, "endpoint", 2)}

Outcome(c, key, validator, success, quality) ==
    [contract |-> c, key |-> key, validator |-> validator, success |-> success,
     quality |-> quality, latency |-> quality - 5, evidence |-> "evidence"]

MCOutcomes == {Outcome(c1, k1, "validator", TRUE, 8), Outcome(c1, k1, "second", FALSE, 6),
               Outcome(c2, k1, "agent", TRUE, 9), Outcome(c1, k1, "agent", TRUE, 9),
               Outcome(NoContract, k1, "agent", TRUE, 9), Outcome(c1, k2, "validator", TRUE, 8)}

Body(json, complete) == [json |-> json, complete |-> complete, size |-> 1]

\* A complete answer in time, and an incomplete one that is late.
MCDeliveries == {[status |-> "delivered", latency |-> 1, body |-> Body("object", TRUE)],
                 [status |-> "delivered", latency |-> 2, body |-> Body("object", FALSE)]}

MCRouteFee == [a \in {"auth"} |-> 1]

MCTenant == [a \in {"auth"} |-> "tenant"]

Symmetry == Permutations({w1, w2})
==============================================================================
