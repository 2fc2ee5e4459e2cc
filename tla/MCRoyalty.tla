------------------------------ MODULE MCRoyalty ------------------------------
(* Small instances of the royalty loop. *)
EXTENDS Royalty, TLC

CONSTANTS e1, e2, k1, h1, h2, s1, s2, t1, t2

OneKey == [r \in Rows |-> k1]
OneTenant == [r \in Rows |-> t1]
TwoTenants == [r \in Rows |-> IF r = e1 THEN t1 ELSE t2]

S(o, b) == [owner |-> o, bps |-> b]

\* 1.25 in thirds: the leftover cent follows the remainders, not the list.
Thirds == [amount |-> 12500, splits |-> <<S(1, 3333), S(2, 3333), S(3, 3334)>>]
\* Half a cent: no posting of payouts balances.
SubCent == [amount |-> 12550, splits |-> <<S(1, 6000), S(2, 4000)>>]
\* One owner twice: the payouts are not the pool.
Twice == [amount |-> 10000, splits |-> <<S(1, 5000), S(1, 5000)>>]
\* One cent in two shares: it can be held, not paid.
Penny == [amount |-> 100, splits |-> <<S(1, 6000), S(2, 4000)>>]
\* A share of nothing, which the transaction service refuses.
NoShare == [amount |-> 10000, splits |-> <<S(1, 10000), S(2, 0)>>]

LoopBodies == [r \in Rows |-> IF r = e1 THEN {Thirds, SubCent, Penny} ELSE {Twice}]
TenantBodies == [r \in Rows |-> {Thirds}]
SettleBodies == [r \in Rows |-> {Thirds, SubCent, NoShare}]
Symmetry == Permutations({h1, h2}) \cup Permutations({s1, s2})
\* Two tenants with events alike.
TenantSymmetry ==
    Permutations({h1, h2}) \cup {e1 :> e2 @@ e2 :> e1 @@ t1 :> t2 @@ t2 :> t1}
==============================================================================
