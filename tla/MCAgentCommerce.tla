-------------------------- MODULE MCAgentCommerce --------------------------
(* Small instances of paid agent calls for TLC. *)
EXTENDS AgentCommerce, TLC

CONSTANTS a1, k1, k2, k3, g1, g2

Ask(k, agent, quoted) == [auth |-> a1, key |-> k, agent |-> agent, quoted |-> quoted]
Invoice(hash, sats) == [hash |-> hash, sats |-> sats]

\* Room for two calls of one sat, or one of ten with its binary rounding; the
\* other agent is out of scope.
MCBudget == [a \in {a1} |-> [total |-> 12, perCall |-> 11, fee |-> 1, calls |-> 2]]
\* Room for two calls of one sat, to the last one.
TightBudget == [a \in {a1} |-> [total |-> 6, perCall |-> 3, fee |-> 1, calls |-> 2]]
MCAllowed == [a \in {a1} |-> {g1}]

MCRequests == {Ask(k1, g1, 1), Ask(k2, g1, 1), Ask(k2, g1, 10),
               Ask(k2, g2, 1), Ask(k3, g1, 1)}
\* Two payment hashes; one of them is offered with two amounts.
TwoInvoices == {Invoice(1, 2), Invoice(2, 1)}
ThreeInvoices == TwoInvoices \cup {Invoice(2, 2)}

TwoCalls == {Ask(k1, g1, 1), Ask(k2, g1, 1)}

\* Executions are interchangeable, and so are the keys of two equal requests.
CallSymmetry == Permutations(Calls) \cup Permutations({k1, k3})
============================================================================
