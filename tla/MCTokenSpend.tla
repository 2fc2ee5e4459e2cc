---------------------------- MODULE MCTokenSpend ----------------------------
(* Small instances of the token spend controls. *)
EXTENDS TokenSpend, TLC

CONSTANTS p1, k1, k2, k3, q1, q2, c1, c2

Big == [provider |-> "a", model |-> "big"]
Small == [provider |-> "a", model |-> "small"]

T(input, output, cached, reasoning) ==
    [kind \in Kinds |-> CASE kind = "input" -> input [] kind = "output" -> output
                          [] kind = "cached" -> cached [] kind = "reasoning" -> reasoning]

Form(budget, calls, start, end) ==
    [budget |-> budget, perCall |-> 4, maxInput |-> 3, maxOutput |-> 2, calls |-> calls,
     multiplier |-> [num |-> 3, den |-> 2], start |-> start, end |-> end,
     allowed |-> {Big, Small}, fallback |-> <<Small>>]

\* Two calls a minute; and a budget that one call exhausts before its period ends.
MCForms == {Form(8, 2, 0, 3), Form(3, 3, 1, 2)}
MCRoutes == {Big, Small}
Card(route, price, text) == [route |-> route, price |-> price, text |-> text]
\* The price of the large model changes when the clock passes the text of its
\* effective time, here at time 1.
MCCards == {Card(Big, T(500000, 1500000, 0, 500000), 0),
            Card(Big, T(1000000, 1500000, 500000, 0), 1),
            Card(Small, T(500000, 500000, 500000, 500000), 0)}
\* Half a micro dollar that a coarse double loses.
MCDropped == {<<1500000, 1000000>>}
MCEstimates == {T(2, 1, 0, 1)}
MCUsages == {T(1, 0, 1, 0), T(4, 2, 0, 0)}

Symmetry == Permutations({k1, k2, k3}) \cup Permutations({q1, q2}) \cup Permutations({c1, c2})
==============================================================================
