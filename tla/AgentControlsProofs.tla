------------------------- MODULE AgentControlsProofs -------------------------
(***************************************************************************)
(* Proofs about the controls of the agent commerce service: the token      *)
(* spend controls, for every set of policies, keys, routes, cards, token   *)
(* counts and charges; and service contracts with their receipts and       *)
(* reputation, for every set of workers, contracts, requests, outcomes and *)
(* deliveries.                                                             *)
(***************************************************************************)
EXTENDS TokenSpend, Contracts, SumTheorems

(***************************************************************************)
(* Token spend controls.                                                   *)
(***************************************************************************)

PolicyType == [form : Forms \cup {NoPolicy}, status : {"none", "active", "paused"},
               reserved : Nat, spent : Nat]
Row == [status : {"reserved", "finalized"}, route : Routes, card : Cards, tokens : Estimates,
        reserved : Nat, actual : Nat, request : ProviderRequests \cup {NoRequest},
        reconciliation : {"pending", "confirmed", "disputed"}, at : Nat]

\* The types the proofs need: every table's rows.
SpendTablesOK ==
    /\ cards \subseteq Cards
    /\ policy \in [Policies -> PolicyType]
    /\ reservation \in [Policies -> [SpendKeys -> Row \cup {NoReservation}]]
    /\ \A x \in receipts :
         /\ x.policy \in Policies /\ x.key \in SpendKeys /\ x.usage \in Usages /\ x.cost \in Nat
    /\ \A c \in charges : c.status \in {"orphaned", "confirmed", "disputed"} /\ c.cost \in Nat
    /\ now \in 0..MaxTime

\* The alerts a policy is paused with.
AlertKinds == {"emergency_stop", "runaway_or_over_budget_usage",
               "provider_reconciliation_mismatch"}

\* Before a policy is created nothing is about it, and what was written since is
\* finitely much.
NothingBefore ==
    \A p \in Policies :
        /\ IsFiniteSet({k \in SpendKeys : reservation[p][k].status # "none"})
        /\ policy[p].status # "none" => policy[p].form \in Forms
        /\ policy[p].status = "none" =>
             /\ \A k \in SpendKeys : reservation[p][k].status = "none"
             /\ \A x \in receipts : x.policy # p
             /\ \A kind \in AlertKinds : <<p, kind>> \notin alerts

\* A reservation is not reconciled before its usage is finalized; then it has a
\* request id of its own, and a charge that found a call found one that is there.
RequestsAreKnown ==
    /\ \A p \in Policies : \A k \in Reserved(p) : reservation[p][k].reconciliation = "pending"
    /\ \A p, q \in Policies : \A j \in FinalizedKeys(p), k \in FinalizedKeys(q) :
         /\ reservation[p][j].route.provider = reservation[q][k].route.provider
         /\ reservation[p][j].request = reservation[q][k].request
         => p = q /\ j = k
    /\ \A c \in charges : c.status # "orphaned" => Charged(c.provider, c.request) # {}

SpendIInv ==
    /\ SpendTablesOK
    /\ NothingBefore
    /\ RequestsAreKnown
    /\ ColumnsAreTheReservations
    /\ FailClosed
    /\ ChargedAsReserved
    /\ ChargesAreMatched

-----------------------------------------------------------------------------
(* The operators. *)

\* There are four kinds of tokens.
LEMMA KindsFinite == IsFiniteSet(Kinds)
<1>1. IsFiniteSet({"input"})
  BY FS_Singleton
<1>2. IsFiniteSet({"input"} \cup {"output"})
  BY <1>1, FS_AddElement
<1>3. IsFiniteSet({"input"} \cup {"output"} \cup {"cached"})
  BY <1>2, FS_AddElement
<1>4. IsFiniteSet({"input"} \cup {"output"} \cup {"cached"} \cup {"reasoning"})
  BY <1>3, FS_AddElement
<1>5. Kinds = {"input"} \cup {"output"} \cup {"cached"} \cup {"reasoning"}
  BY DEF Kinds
<1> QED
  BY <1>4, <1>5

\* Rounding up to millionths.
LEMMA CeilingOfMillion ==
    ASSUME NEW n \in Nat
    PROVE  /\ CeilDiv(n, 1000000) \in Nat
           /\ n <= CeilDiv(n, 1000000) * 1000000
           /\ CeilDiv(n, 1000000) * 1000000 < n + 1000000
<1> DEFINE m == n + 1000000 - 1
           q == m \div 1000000
<1>1. m \in Nat /\ m = n + 999999
  BY SMT
<1> HIDE DEF m
<1>2. q \in Nat
  BY <1>1, SMT
<1>3. q * 1000000 <= m
  BY <1>1, SMT
<1>4. m - q * 1000000 <= 999999
  BY <1>1, SMT
<1> HIDE DEF q
<1>5. n <= q * 1000000 /\ q * 1000000 < n + 1000000
  BY <1>1, <1>2, <1>3, <1>4, SMT
<1> QED
  BY <1>2, <1>5, SMT DEF m, q, CeilDiv

\* Rounding to millionths in doubles: up, unless the fraction is lost before.
LEMMA CeilingInDoubles ==
    ASSUME NEW n \in Nat
    PROVE  /\ MathCeil(n, 1000000) \in Nat
           /\ n < (MathCeil(n, 1000000) + 1) * 1000000
           /\ MathCeil(n, 1000000) * 1000000 < n + 1000000
           /\ n < ExactBelow => n <= MathCeil(n, 1000000) * 1000000
<1>1. CASE <<n, 1000000>> \in Dropped
  <2>1. MathCeil(n, 1000000) = n \div 1000000
    BY <1>1 DEF MathCeil
  <2>2. ExactBelow <= n /\ ExactBelow \in Nat
    BY <1>1, TokenSpendAssumption
  <2>3. PICK q : q = n \div 1000000
    OBVIOUS
  <2>4. q \in Nat /\ q * 1000000 <= n /\ n - q * 1000000 <= 999999
    BY <2>3, SMT
  <2>5. n < (q + 1) * 1000000 /\ q * 1000000 < n + 1000000 /\ ~(n < ExactBelow)
    BY <2>2, <2>4, SMT
  <2> QED
    BY <2>1, <2>3, <2>4, <2>5
<1>2. CASE <<n, 1000000>> \notin Dropped
  <2>1. PICK q : q = CeilDiv(n, 1000000)
    OBVIOUS
  <2>2. q \in Nat /\ n <= q * 1000000 /\ q * 1000000 < n + 1000000
    BY <2>1, CeilingOfMillion
  <2>3. n < (q + 1) * 1000000
    BY <2>2, SMT
  <2>4. MathCeil(n, 1000000) = q
    BY <1>2, <2>1 DEF MathCeil
  <2> QED
    BY <2>2, <2>3, <2>4
<1> QED
  BY <1>1, <1>2

\* What a charge is to the tokens it is for.
Rounded(cost, usage, price) ==
    LET exact == SumFunctionOnSet([kind \in Kinds |-> usage[kind] * price[kind]], Kinds)
    IN  /\ exact < (cost + 1) * 1000000 /\ cost * 1000000 < exact + 1000000
        /\ exact < ExactBelow => exact <= cost * 1000000

\* calculate_cost is less than one micro dollar off the exact amount, and never
\* too little as long as whole numbers are exact doubles.
LEMMA CostIsRounded ==
    ASSUME NEW price \in Tokens, NEW tokens \in Tokens
    PROVE  /\ calculate_cost(price, tokens) \in Nat
           /\ Rounded(calculate_cost(price, tokens), tokens, price)
<1> DEFINE f == [kind \in Kinds |-> tokens[kind] * price[kind]]
           exact == SumFunctionOnSet(f, Kinds)
<1>1. ASSUME NEW a \in Nat, NEW b \in Nat PROVE a * b \in Nat
  OBVIOUS
<1>2. \A kind \in Kinds : f[kind] \in Nat
  BY <1>1 DEF Tokens
<1>3. exact \in Nat
  <2> HIDE DEF f
  <2> QED
    BY <1>2, KindsFinite, SumNat
<1>4. calculate_cost(price, tokens) = MathCeil(exact, 1000000)
  BY SMT DEF calculate_cost
<1> HIDE DEF exact
<1>5. /\ MathCeil(exact, 1000000) \in Nat
      /\ exact < (MathCeil(exact, 1000000) + 1) * 1000000
      /\ MathCeil(exact, 1000000) * 1000000 < exact + 1000000
      /\ exact < ExactBelow => exact <= MathCeil(exact, 1000000) * 1000000
  BY <1>3, CeilingInDoubles
<1>6. Rounded(MathCeil(exact, 1000000), tokens, price)
  BY <1>5, SMT DEF exact, Rounded
<1> QED
  BY <1>4, <1>5, <1>6, SMT

\* MAX of two numbers.
LEMMA MaxOfTwo ==
    ASSUME NEW a \in Int, NEW b \in Int
    PROVE  /\ Max({a, b}) \in {a, b} /\ Max({a, b}) >= a /\ Max({a, b}) >= b
<1>1. \E x \in {a, b} : \A y \in {a, b} : x >= y
  <2>1. CASE a >= b
    BY <2>1
  <2>2. CASE ~(a >= b)
    BY <2>2
  <2> QED
    BY <2>1, <2>2
<1> QED
  BY <1>1 DEF Max

\* MAX(0, ...).
LEMMA MaxWithZero ==
    ASSUME NEW b \in Int
    PROVE  Max({0, b}) \in Nat /\ Max({0, b}) \in {0, b} /\ Max({0, b}) >= b
BY MaxOfTwo

\* The newest card in force is one of the cards in force.
LEMMA NewestIsInForce ==
    ASSUME SpendTablesOK, NEW route, InForce(route, now) # {}
    PROVE  LatestCard(InForce(route, now)) \in InForce(route, now)
<1> DEFINE found == InForce(route, now)
           times == {c.text : c \in found}
<1>1. now \in Nat
  BY TokenSpendAssumption DEF SpendTablesOK
<1>2. \A c \in found : c.text \in Nat /\ c.text <= now
  BY TokenSpendAssumption DEF SpendTablesOK, InForce
<1>3. times \in SUBSET Nat /\ times # {} /\ \A t \in times : t <= now
  BY <1>2
<1>4. PICK t \in times : \A u \in times : u <= t
  <2> HIDE DEF times
  <2> QED
    BY <1>1, <1>3, GreatestNatural
<1>5. \E c \in found : \A d \in found : d.text <= c.text
  BY <1>4
<1> QED
  BY <1>5 DEF LatestCard

\* The first candidate that fits is one that fits.
LEMMA FirstIsOne ==
    ASSUME NEW S \in SUBSET Nat, S # {}
    PROVE  Min(S) \in S
<1>1. \E x \in S : \A y \in S : x <= y
  BY LeastNatural
<1> QED
  BY <1>1 DEF Min

-----------------------------------------------------------------------------
(* The sums over the reservations of a policy. *)

Over(r) == Max({0, r.actual - r.reserved})
HeldSum(p) == SumFunctionOnSet([k \in Reserved(p) |-> reservation[p][k].reserved], Reserved(p))
SpentSum(p) == SumFunctionOnSet([k \in FinalizedKeys(p) |-> reservation[p][k].actual], FinalizedKeys(p))
OverSum(p) == SumFunctionOnSet([k \in FinalizedKeys(p) |-> Over(reservation[p][k])], FinalizedKeys(p))

\* The columns of a policy are its sums.
LEMMA ColumnsAreSums ==
    ColumnsAreTheReservations <=>
        \A p \in Policies : policy[p].reserved = HeldSum(p) /\ policy[p].spent = SpentSum(p)
BY DEF ColumnsAreTheReservations, HeldSum, SpentSum

\* The reservations a sum is over are finitely many, and have numbers.
LEMMA SumsAreOverNumbers ==
    ASSUME SpendTablesOK, NothingBefore, NEW p \in Policies
    PROVE  /\ IsFiniteSet(Reserved(p)) /\ IsFiniteSet(FinalizedKeys(p))
           /\ \A k \in Reserved(p) \cup FinalizedKeys(p) :
                /\ reservation[p][k] \in Row
                /\ reservation[p][k].reserved \in Nat /\ reservation[p][k].actual \in Nat
                /\ Over(reservation[p][k]) \in Nat
<1> DEFINE rows == {k \in SpendKeys : reservation[p][k].status # "none"}
<1>1. IsFiniteSet(rows) /\ Reserved(p) \subseteq rows /\ FinalizedKeys(p) \subseteq rows
  BY DEF NothingBefore, Reserved, FinalizedKeys
<1>2. IsFiniteSet(Reserved(p)) /\ IsFiniteSet(FinalizedKeys(p))
  <2> HIDE DEF rows
  <2> QED
    BY <1>1, FS_Subset
<1>3. ASSUME NEW k \in Reserved(p) \cup FinalizedKeys(p)
      PROVE  /\ reservation[p][k] \in Row
             /\ reservation[p][k].reserved \in Nat /\ reservation[p][k].actual \in Nat
  <2>1. reservation[p][k] \in Row
    BY DEF SpendTablesOK, NoReservation, Reserved, FinalizedKeys
  <2> QED
    BY <2>1 DEF Row
<1>4. ASSUME NEW k \in Reserved(p) \cup FinalizedKeys(p) PROVE Over(reservation[p][k]) \in Nat
  <2> DEFINE d == reservation[p][k].actual - reservation[p][k].reserved
  <2>1. d \in Int
    BY <1>3
  <2>2. Max({0, d}) \in Nat
    <3> HIDE DEF d
    <3> QED
      BY <2>1, MaxWithZero
  <2> QED
    BY <2>2 DEF Over
<1> QED
  BY <1>2, <1>3, <1>4

\* A policy whose reservations keep their status and amounts keeps its sums.
LEMMA SumsStay ==
    ASSUME SpendTablesOK, NothingBefore, NEW p \in Policies,
           \A k \in SpendKeys : /\ reservation'[p][k].status = reservation[p][k].status
                                /\ reservation[p][k].status # "none" =>
                                     /\ reservation'[p][k].reserved = reservation[p][k].reserved
                                     /\ reservation'[p][k].actual = reservation[p][k].actual
    PROVE  HeldSum(p)' = HeldSum(p) /\ SpentSum(p)' = SpentSum(p) /\ OverSum(p)' = OverSum(p)
<1>1. Reserved(p)' = Reserved(p) /\ FinalizedKeys(p)' = FinalizedKeys(p)
  BY DEF Reserved, FinalizedKeys
<1>2. /\ [k \in Reserved(p)' |-> reservation'[p][k].reserved]
           = [k \in Reserved(p) |-> reservation[p][k].reserved]
      /\ [k \in FinalizedKeys(p)' |-> reservation'[p][k].actual]
           = [k \in FinalizedKeys(p) |-> reservation[p][k].actual]
  BY <1>1 DEF Reserved, FinalizedKeys
<1>3. \A k \in FinalizedKeys(p) : Over(reservation[p][k])' = Over(reservation[p][k])
  BY DEF Over, FinalizedKeys
<1>4. [k \in FinalizedKeys(p)' |-> Over(reservation[p][k])']
        = [k \in FinalizedKeys(p) |-> Over(reservation[p][k])]
  BY <1>1, <1>3
<1> QED
  BY <1>1, <1>2, <1>4 DEF HeldSum, SpentSum, OverSum

\* The sums are numbers, and what one call holds is part of what is held.
LEMMA SumsAreNumbers ==
    ASSUME SpendTablesOK, NothingBefore, NEW p \in Policies
    PROVE  /\ HeldSum(p) \in Nat /\ SpentSum(p) \in Nat /\ OverSum(p) \in Nat
           /\ \A k \in Reserved(p) : reservation[p][k].reserved <= HeldSum(p)
<1> DEFINE f == [k \in Reserved(p) |-> reservation[p][k].reserved]
           g == [k \in FinalizedKeys(p) |-> reservation[p][k].actual]
           h == [k \in FinalizedKeys(p) |-> Over(reservation[p][k])]
<1>1. /\ \A k \in Reserved(p) : f[k] \in Nat /\ f[k] = reservation[p][k].reserved
      /\ \A k \in FinalizedKeys(p) : g[k] \in Nat /\ h[k] \in Nat
  BY SumsAreOverNumbers
<1>2. IsFiniteSet(Reserved(p)) /\ IsFiniteSet(FinalizedKeys(p))
  BY SumsAreOverNumbers
<1>3. /\ SumFunctionOnSet(f, Reserved(p)) \in Nat
      /\ \A k \in Reserved(p) : f[k] <= SumFunctionOnSet(f, Reserved(p))
  <2> HIDE DEF f
  <2> QED
    BY <1>1, <1>2, SumNat
<1>4. SumFunctionOnSet(g, FinalizedKeys(p)) \in Nat /\ SumFunctionOnSet(h, FinalizedKeys(p)) \in Nat
  <2> HIDE DEF g, h
  <2> QED
    BY <1>1, <1>2, SumNat
<1> QED
  BY <1>1, <1>3, <1>4 DEF HeldSum, SpentSum, OverSum

\* A reservation adds what it holds.
LEMMA SumsReserve ==
    ASSUME SpendTablesOK, NothingBefore, NEW p \in Policies, NEW k \in SpendKeys,
           reservation[p][k].status = "none", reservation'[p][k].status = "reserved",
           reservation'[p][k].reserved \in Nat,
           \A j \in SpendKeys \ {k} : reservation'[p][j] = reservation[p][j]
    PROVE  /\ HeldSum(p)' = HeldSum(p) + reservation'[p][k].reserved
           /\ SpentSum(p)' = SpentSum(p) /\ OverSum(p)' = OverSum(p)
<1> DEFINE f == [j \in Reserved(p) |-> reservation[p][j].reserved]
<1>1. PICK g : g = [j \in Reserved(p)' |-> reservation'[p][j].reserved]
  OBVIOUS
<1>2. /\ Reserved(p)' = Reserved(p) \cup {k} /\ k \notin Reserved(p)
      /\ FinalizedKeys(p)' = FinalizedKeys(p) /\ k \notin FinalizedKeys(p)
  BY DEF Reserved, FinalizedKeys
<1>3. /\ IsFiniteSet(Reserved(p))
      /\ \A j \in Reserved(p) : reservation[p][j].reserved \in Nat
  BY SumsAreOverNumbers
<1>4. /\ g[k] = reservation'[p][k].reserved
      /\ \A j \in Reserved(p) : g[j] = f[j] /\ f[j] \in Nat
  BY <1>1, <1>2, <1>3 DEF Reserved
<1>5. \A j \in Reserved(p) \cup {k} : g[j] \in Int
  BY <1>4
<1>6. SumFunctionOnSet(g, Reserved(p) \cup {k}) = g[k] + SumFunctionOnSet(g, Reserved(p))
  BY <1>2, <1>3, <1>5, SumAdd
<1>7. SumFunctionOnSet(g, Reserved(p)) = SumFunctionOnSet(f, Reserved(p))
  <2> HIDE DEF f
  <2> QED
    BY <1>3, <1>4, SumSame
<1>8. HeldSum(p)' = SumFunctionOnSet(g, Reserved(p) \cup {k})
  BY <1>1, <1>2 DEF HeldSum
<1>9. HeldSum(p)' = HeldSum(p) + reservation'[p][k].reserved
  <2>1. HeldSum(p) \in Nat /\ HeldSum(p) = SumFunctionOnSet(f, Reserved(p))
    BY SumsAreNumbers DEF HeldSum
  <2> HIDE DEF f
  <2> QED
    BY <2>1, <1>4, <1>6, <1>7, <1>8
<1>10. \A j \in FinalizedKeys(p) : reservation'[p][j] = reservation[p][j]
  BY <1>2 DEF FinalizedKeys
<1>11. [j \in FinalizedKeys(p)' |-> reservation'[p][j].actual]
         = [j \in FinalizedKeys(p) |-> reservation[p][j].actual]
  BY <1>2, <1>10
<1>12. \A j \in FinalizedKeys(p) : Over(reservation[p][j])' = Over(reservation[p][j])
  BY <1>10 DEF Over
<1>13. [j \in FinalizedKeys(p)' |-> Over(reservation[p][j])']
         = [j \in FinalizedKeys(p) |-> Over(reservation[p][j])]
  BY <1>2, <1>12
<1> QED
  BY <1>2, <1>9, <1>11, <1>13 DEF SpentSum, OverSum

\* Metered usage moves a call from the held ones to the spent ones.
LEMMA SumsFinalize ==
    ASSUME SpendTablesOK, NothingBefore, NEW p \in Policies, NEW k \in SpendKeys,
           reservation[p][k].status = "reserved", reservation'[p][k].status = "finalized",
           reservation'[p][k].actual \in Nat,
           reservation'[p][k].reserved = reservation[p][k].reserved,
           \A j \in SpendKeys \ {k} : reservation'[p][j] = reservation[p][j]
    PROVE  /\ HeldSum(p) = reservation[p][k].reserved + HeldSum(p)' /\ HeldSum(p)' \in Nat
           /\ SpentSum(p)' = SpentSum(p) + reservation'[p][k].actual
           /\ OverSum(p)' = OverSum(p) + Over(reservation[p][k])'
           /\ Over(reservation[p][k])' \in Nat
           /\ Over(reservation[p][k])' >= reservation'[p][k].actual - reservation[p][k].reserved
<1> DEFINE f == [j \in Reserved(p) |-> reservation[p][j].reserved]
           a == [j \in FinalizedKeys(p) |-> reservation[p][j].actual]
           o == [j \in FinalizedKeys(p) |-> Over(reservation[p][j])]
           S == Reserved(p) \ {k}
<1>1. PICK g : g = [j \in Reserved(p)' |-> reservation'[p][j].reserved]
  OBVIOUS
<1>2. PICK b : b = [j \in FinalizedKeys(p)' |-> reservation'[p][j].actual]
  OBVIOUS
<1>3. PICK q : q = [j \in FinalizedKeys(p)' |-> Over(reservation[p][j])']
  OBVIOUS
<1>4. /\ Reserved(p)' = S /\ k \in Reserved(p)
      /\ FinalizedKeys(p)' = FinalizedKeys(p) \cup {k} /\ k \notin FinalizedKeys(p)
  BY DEF Reserved, FinalizedKeys
<1>5. /\ IsFiniteSet(Reserved(p)) /\ IsFiniteSet(FinalizedKeys(p))
      /\ \A j \in Reserved(p) \cup FinalizedKeys(p) :
           /\ reservation[p][j].reserved \in Nat /\ reservation[p][j].actual \in Nat
           /\ Over(reservation[p][j]) \in Nat
  BY SumsAreOverNumbers
<1>6. IsFiniteSet(S)
  BY <1>5, FS_Subset
<1>7. /\ \A j \in FinalizedKeys(p) : reservation'[p][j] = reservation[p][j]
      /\ \A j \in S : reservation'[p][j] = reservation[p][j]
  BY <1>4 DEF Reserved, FinalizedKeys
<1>8. \A j \in FinalizedKeys(p) : Over(reservation[p][j])' = Over(reservation[p][j])
  BY <1>7 DEF Over
<1>9. /\ Over(reservation[p][k])' \in Nat
      /\ Over(reservation[p][k])' >= reservation'[p][k].actual - reservation[p][k].reserved
  <2>1. PICK d : d = reservation'[p][k].actual - reservation'[p][k].reserved
    OBVIOUS
  <2>2. d \in Int
    BY <2>1, <1>4, <1>5
  <2>3. Over(reservation[p][k])' = Max({0, d})
    BY <2>1 DEF Over
  <2> QED
    BY <2>1, <2>2, <2>3, MaxWithZero
<1>10. /\ \A j \in S : g[j] = f[j] /\ g[j] \in Nat
       /\ \A j \in Reserved(p) : f[j] \in Int /\ f[k] = reservation[p][k].reserved
       /\ \A j \in FinalizedKeys(p) : b[j] = a[j] /\ q[j] = o[j]
       /\ \A j \in FinalizedKeys(p) \cup {k} : b[j] \in Int /\ q[j] \in Int
       /\ b[k] = reservation'[p][k].actual /\ q[k] = Over(reservation[p][k])'
  BY <1>1, <1>2, <1>3, <1>4, <1>5, <1>7, <1>8, <1>9
<1>11. /\ HeldSum(p) = SumFunctionOnSet(f, Reserved(p))
       /\ SpentSum(p) = SumFunctionOnSet(a, FinalizedKeys(p))
       /\ OverSum(p) = SumFunctionOnSet(o, FinalizedKeys(p))
       /\ HeldSum(p)' = SumFunctionOnSet(g, S)
       /\ SpentSum(p)' = SumFunctionOnSet(b, FinalizedKeys(p) \cup {k})
       /\ OverSum(p)' = SumFunctionOnSet(q, FinalizedKeys(p) \cup {k})
  BY <1>1, <1>2, <1>3, <1>4 DEF HeldSum, SpentSum, OverSum
<1>12. HeldSum(p) \in Nat /\ SpentSum(p) \in Nat /\ OverSum(p) \in Nat
  BY SumsAreNumbers
<1> HIDE DEF f, a, o
<1>13. SumFunctionOnSet(f, Reserved(p)) = f[k] + SumFunctionOnSet(f, S)
  BY <1>4, <1>5, <1>10, SumRemove
<1> HIDE DEF S
<1>14. SumFunctionOnSet(g, S) = SumFunctionOnSet(f, S) /\ SumFunctionOnSet(g, S) \in Nat
  BY <1>6, <1>10, SumSame, SumNat
<1>15. /\ SumFunctionOnSet(b, FinalizedKeys(p) \cup {k}) = b[k] + SumFunctionOnSet(b, FinalizedKeys(p))
       /\ SumFunctionOnSet(q, FinalizedKeys(p) \cup {k}) = q[k] + SumFunctionOnSet(q, FinalizedKeys(p))
  BY <1>4, <1>5, <1>10, SumAdd
<1>16. /\ SumFunctionOnSet(b, FinalizedKeys(p)) = SumFunctionOnSet(a, FinalizedKeys(p))
       /\ SumFunctionOnSet(q, FinalizedKeys(p)) = SumFunctionOnSet(o, FinalizedKeys(p))
  BY <1>5, <1>10, SumSame
<1>17. f[k] = reservation[p][k].reserved /\ f[k] \in Nat
  BY <1>4, <1>5, <1>10
<1>18. HeldSum(p) = reservation[p][k].reserved + HeldSum(p)' /\ HeldSum(p)' \in Nat
  BY <1>11, <1>13, <1>14, <1>17
<1>19. SpentSum(p)' = SpentSum(p) + reservation'[p][k].actual
  BY <1>10, <1>11, <1>12, <1>15, <1>16
<1>20. OverSum(p)' = OverSum(p) + Over(reservation[p][k])'
  BY <1>9, <1>10, <1>11, <1>12, <1>15, <1>16
<1> QED
  BY <1>9, <1>18, <1>19, <1>20

-----------------------------------------------------------------------------
(* The invariants, policy by policy, call by call. *)

ClosedFor(p) ==
    /\ policy[p].spent <= policy[p].form.budget
    /\ \A x \in receipts : x.policy = p =>
         ~Anomalous(policy[p].form, reservation[p][x.key], x.usage, x.cost)
    /\ \A k \in FinalizedKeys(p) : reservation[p][k].reconciliation # "disputed"
    /\ \A kind \in AlertKinds : <<p, kind>> \notin alerts
    /\ policy[p].spent + policy[p].reserved <= policy[p].form.budget + OverSum(p)

CallRight(p, k) ==
    /\ reservation[p][k].route \in policy[p].form.allowed
    /\ reservation[p][k].card.route = reservation[p][k].route
    /\ reservation[p][k].card.text <= reservation[p][k].at
    /\ reservation[p][k].reserved <= policy[p].form.perCall

ReceiptRight(x) ==
    /\ reservation[x.policy][x.key].status = "finalized"
    /\ reservation[x.policy][x.key].actual = x.cost
    /\ Rounded(x.cost, x.usage, reservation[x.policy][x.key].card.price)

Mine(r) == {c \in charges : c.provider = r.route.provider /\ c.request = r.request
                            /\ c.status # "orphaned"}

Within(c, r) ==
    /\ c.cost - r.actual <= Tolerance + CeilDiv(r.actual, 100)
    /\ r.actual - c.cost <= Tolerance + CeilDiv(r.actual, 100)

Matched(r) ==
    /\ (r.reconciliation = "pending") <=> (Mine(r) = {})
    /\ Mine(r) # {} => \E c \in Mine(r) : c.status = r.reconciliation
    /\ \A c \in Mine(r) : c.status = "confirmed" => Within(c, r)

\* FailClosed, policy by policy.
LEMMA FailClosedParts ==
    FailClosed <=> \A p \in Policies : policy[p].status = "active" => ClosedFor(p)
BY DEF FailClosed, ClosedFor, OverSum, Over, AlertKinds

\* ChargedAsReserved, call by call and receipt by receipt.
LEMMA ChargedParts ==
    ChargedAsReserved <=>
        /\ \A p \in Policies, k \in SpendKeys : reservation[p][k].status # "none" => CallRight(p, k)
        /\ \A x \in receipts : ReceiptRight(x)
BY SMT DEF ChargedAsReserved, CallRight, ReceiptRight, Rounded

\* ChargesAreMatched, call by call.
LEMMA MatchedParts ==
    ChargesAreMatched <=>
        \A p \in Policies : \A k \in FinalizedKeys(p) : Matched(reservation[p][k])
BY DEF ChargesAreMatched, Matched, Mine, Within

\* The reports of a provider name one reservation each.
LEMMA OneRequest ==
    ASSUME RequestsAreKnown, NEW p \in Policies, NEW q \in Policies,
           NEW j \in FinalizedKeys(p), NEW k \in FinalizedKeys(q),
           reservation[p][j].route.provider = reservation[q][k].route.provider,
           reservation[p][j].request = reservation[q][k].request
    PROVE  p = q /\ j = k
BY DEF RequestsAreKnown

\* The same in the next state.
LEMMA NextParts ==
    /\ FailClosed' <=> \A p \in Policies : policy'[p].status = "active" => ClosedFor(p)'
    /\ ChargedAsReserved' <=>
        /\ \A p \in Policies, k \in SpendKeys : reservation'[p][k].status # "none" => CallRight(p, k)'
        /\ \A x \in receipts' : ReceiptRight(x)'
    /\ ChargesAreMatched' <=>
        \A p \in Policies : \A k \in FinalizedKeys(p)' : Matched(reservation[p][k])'
    /\ ColumnsAreTheReservations' <=>
        \A p \in Policies : policy'[p].reserved = HeldSum(p)' /\ policy'[p].spent = SpentSum(p)'
<1>1. FailClosed' <=> (\A p \in Policies : policy[p].status = "active" => ClosedFor(p))'
  BY FailClosedParts, PTL
<1>2. ChargedAsReserved' <=>
        (/\ \A p \in Policies, k \in SpendKeys : reservation[p][k].status # "none" => CallRight(p, k)
         /\ \A x \in receipts : ReceiptRight(x))'
  BY ChargedParts, PTL
<1>3. ChargesAreMatched' <=>
        (\A p \in Policies : \A k \in FinalizedKeys(p) : Matched(reservation[p][k]))'
  BY MatchedParts, PTL
<1>4. ColumnsAreTheReservations' <=>
        (\A p \in Policies : policy[p].reserved = HeldSum(p) /\ policy[p].spent = SpentSum(p))'
  BY ColumnsAreSums, PTL
<1> QED
  BY <1>1, <1>2, <1>3, <1>4

\* The halves of them that the steps use.
LEMMA NextCharged ==
    ASSUME \A p \in Policies, k \in SpendKeys :
             reservation'[p][k].status # "none" => CallRight(p, k)',
           \A x \in receipts' : ReceiptRight(x)'
    PROVE  ChargedAsReserved'
BY NextParts

LEMMA NextMatched ==
    ASSUME \A p \in Policies : \A k \in FinalizedKeys(p)' : Matched(reservation[p][k])'
    PROVE  ChargesAreMatched'
BY NextParts

\* An active policy that a step leaves alone keeps its limits.
LEMMA ClosedStays ==
    ASSUME SpendTablesOK, NothingBefore, NEW p \in Policies, ClosedFor(p),
           policy'[p].form = policy[p].form,
           policy'[p].spent = policy[p].spent, policy'[p].reserved = policy[p].reserved,
           \A k \in SpendKeys : /\ reservation'[p][k].status = reservation[p][k].status
                                /\ reservation[p][k].status # "none" =>
                                     /\ reservation'[p][k].reserved = reservation[p][k].reserved
                                     /\ reservation'[p][k].actual = reservation[p][k].actual
                                     /\ reservation'[p][k].tokens = reservation[p][k].tokens
                                     /\ reservation'[p][k].reconciliation
                                          \in {reservation[p][k].reconciliation, "confirmed"},
           ChargedAsReserved,
           \A x \in receipts' : x.policy = p => x \in receipts,
           \A kind \in AlertKinds : <<p, kind>> \in alerts' => <<p, kind>> \in alerts
    PROVE  ClosedFor(p)'
<1>1. OverSum(p)' = OverSum(p)
  BY SumsStay
<1>2. ASSUME NEW x \in receipts', x.policy = p
      PROVE  ~Anomalous(policy[p].form, reservation[p][x.key], x.usage, x.cost)'
  <2>1. x \in receipts /\ ReceiptRight(x) /\ x.key \in SpendKeys
    BY <1>2, ChargedParts DEF SpendTablesOK
  <2>2. reservation[p][x.key].status = "finalized"
    BY <1>2, <2>1 DEF ReceiptRight
  <2> QED
    BY <1>2, <2>1, <2>2 DEF Anomalous, ClosedFor
<1>3. \A k \in FinalizedKeys(p)' : reservation'[p][k].reconciliation # "disputed"
  BY DEF FinalizedKeys, ClosedFor
<1> QED
  BY <1>1, <1>2, <1>3 DEF ClosedFor

\* A receipt whose call keeps its status, cost and card stays right.
LEMMA UsageReceiptStays ==
    ASSUME NEW x, ReceiptRight(x),
           reservation'[x.policy][x.key].status = reservation[x.policy][x.key].status,
           reservation'[x.policy][x.key].actual = reservation[x.policy][x.key].actual,
           reservation'[x.policy][x.key].card = reservation[x.policy][x.key].card
    PROVE  ReceiptRight(x)'
BY DEF ReceiptRight

\* A call that keeps its request, cost and reconciliation stays matched when
\* its charges are the same.
LEMMA MatchedStays ==
    ASSUME NEW p, NEW k, Matched(reservation[p][k]),
           reservation'[p][k].route = reservation[p][k].route,
           reservation'[p][k].request = reservation[p][k].request,
           reservation'[p][k].actual = reservation[p][k].actual,
           reservation'[p][k].reconciliation = reservation[p][k].reconciliation,
           Mine(reservation[p][k])' = Mine(reservation[p][k])
    PROVE  Matched(reservation[p][k])'
BY DEF Matched, Within

-----------------------------------------------------------------------------
(* The initial state and the steps that write no reservation. *)

\* The invariant holds of the empty tables.
LEMMA SpendInitIInv == SpendInit => SpendIInv
<1> SUFFICES ASSUME SpendInit PROVE SpendIInv
  OBVIOUS
<1>1. \A p \in Policies, k \in SpendKeys : reservation[p][k].status = "none"
  BY DEF SpendInit, NoReservation
<1>2. \A p \in Policies : /\ {k \in SpendKeys : reservation[p][k].status # "none"} = {}
                          /\ Reserved(p) = {} /\ FinalizedKeys(p) = {}
  BY <1>1 DEF Reserved, FinalizedKeys
<1>3. SpendTablesOK
  BY TokenSpendAssumption DEF SpendInit, SpendTablesOK, PolicyType
<1>4. NothingBefore
  BY <1>1, <1>2, FS_EmptySet DEF SpendInit, NothingBefore
<1>5. RequestsAreKnown
  BY <1>2 DEF SpendInit, RequestsAreKnown
<1>6. ASSUME NEW p \in Policies PROVE HeldSum(p) = 0 /\ SpentSum(p) = 0
  BY <1>2, SumEmpty DEF HeldSum, SpentSum
<1>7. ColumnsAreTheReservations
  BY <1>6, ColumnsAreSums DEF SpendInit
<1>8. FailClosed
  BY FailClosedParts DEF SpendInit
<1>9. ChargedAsReserved
  BY <1>1, ChargedParts DEF SpendInit
<1>10. ChargesAreMatched
  BY <1>2, MatchedParts
<1> QED
  BY <1>3, <1>4, <1>5, <1>7, <1>8, <1>9, <1>10 DEF SpendIInv

\* A policy that does not exist is left alone.
LEMMA NothingNext ==
    ASSUME NothingBefore,
           \A p \in Policies : IsFiniteSet({k \in SpendKeys : reservation'[p][k].status # "none"}),
           \A p \in Policies : policy'[p].status # "none" => policy'[p].form \in Forms,
           \A p \in Policies : policy'[p].status = "none" =>
               /\ policy[p].status = "none"
               /\ \A k \in SpendKeys : reservation'[p][k].status = reservation[p][k].status
               /\ \A x \in receipts' : x.policy = p => x \in receipts
               /\ \A kind \in AlertKinds : <<p, kind>> \in alerts' => <<p, kind>> \in alerts
    PROVE  NothingBefore'
<1>1. ASSUME NEW p \in Policies, policy'[p].status = "none"
      PROVE  /\ \A k \in SpendKeys : reservation'[p][k].status = "none"
             /\ \A x \in receipts' : x.policy # p
             /\ \A kind \in AlertKinds : <<p, kind>> \notin alerts'
  <2>1. policy[p].status = "none"
    BY <1>1
  <2>2. /\ \A k \in SpendKeys : reservation[p][k].status = "none"
        /\ \A x \in receipts : x.policy # p
        /\ \A kind \in AlertKinds : <<p, kind>> \notin alerts
    BY <2>1 DEF NothingBefore
  <2> QED
    BY <1>1, <2>2
<1> SUFFICES ASSUME NEW p \in Policies
             PROVE  /\ IsFiniteSet({k \in SpendKeys : reservation'[p][k].status # "none"})
                    /\ policy'[p].status # "none" => policy'[p].form \in Forms
                    /\ policy'[p].status = "none" =>
                         /\ \A k \in SpendKeys : reservation'[p][k].status = "none"
                         /\ \A x \in receipts' : x.policy # p
                         /\ \A kind \in AlertKinds : <<p, kind>> \notin alerts'
  BY DEF NothingBefore
<1> QED
  BY <1>1

\* What stays when no reservation, receipt and charge is written and the
\* policies keep their limits and their columns.
LEMMA PolicyStep ==
    ASSUME SpendIInv, reservation' = reservation, receipts' = receipts, charges' = charges,
           SpendTablesOK',
           \A p \in Policies :
               \/ /\ policy'[p].form = policy[p].form
                  /\ policy'[p].reserved = policy[p].reserved
                  /\ policy'[p].spent = policy[p].spent
                  /\ policy'[p].status # "none" => policy[p].status # "none"
                  /\ policy'[p].status = "none" => policy[p].status = "none"
                  /\ policy'[p].status = "active" => policy[p].status = "active"
                  /\ policy'[p].status \in {"active", "none"} => \A kind \in AlertKinds :
                       <<p, kind>> \in alerts' => <<p, kind>> \in alerts
               \/ /\ policy[p].status = "none" /\ policy'[p].status = "active"
                  /\ policy'[p].form \in Forms /\ alerts' = alerts
                  /\ policy'[p].reserved = 0 /\ policy'[p].spent = 0
    PROVE  SpendIInv'
<1> USE DEF SpendIInv
<1>1. NothingBefore'
  <2>1. ASSUME NEW p \in Policies
        PROVE  IsFiniteSet({k \in SpendKeys : reservation'[p][k].status # "none"})
    <3>1. {k \in SpendKeys : reservation'[p][k].status # "none"}
            = {k \in SpendKeys : reservation[p][k].status # "none"}
      OBVIOUS
    <3> QED
      BY <3>1 DEF NothingBefore
  <2>2. \A p \in Policies : policy'[p].status # "none" => policy'[p].form \in Forms
    BY DEF NothingBefore
  <2> QED
    BY <2>1, <2>2, NothingNext
<1>2. RequestsAreKnown'
  BY DEF RequestsAreKnown, Reserved, FinalizedKeys, Charged
<1>3. \A p \in Policies : policy[p].status = "none" =>
         Reserved(p) = {} /\ FinalizedKeys(p) = {} /\ \A x \in receipts : x.policy # p
  BY DEF NothingBefore, Reserved, FinalizedKeys
<1>4. ASSUME NEW p \in Policies
      PROVE /\ HeldSum(p)' = HeldSum(p) /\ SpentSum(p)' = SpentSum(p) /\ OverSum(p)' = OverSum(p)
            /\ policy[p].status = "none" => HeldSum(p) = 0 /\ SpentSum(p) = 0 /\ OverSum(p) = 0
  <2>1. HeldSum(p)' = HeldSum(p) /\ SpentSum(p)' = SpentSum(p) /\ OverSum(p)' = OverSum(p)
    BY SumsStay
  <2>2. ASSUME policy[p].status = "none"
        PROVE  HeldSum(p) = 0 /\ SpentSum(p) = 0 /\ OverSum(p) = 0
    BY <1>3, <2>2, SumEmpty DEF HeldSum, SpentSum, OverSum
  <2> QED
    BY <2>1, <2>2
<1>5. ColumnsAreTheReservations'
  BY <1>4, ColumnsAreSums, NextParts
<1>6. ASSUME NEW p \in Policies, policy'[p].status = "active" PROVE ClosedFor(p)'
  <2>1. CASE policy[p].status = "none"
    <3>1. policy'[p].form \in Forms /\ policy'[p].reserved = 0 /\ policy'[p].spent = 0
          /\ alerts' = alerts
      BY <1>6, <2>1
    <3>2. policy'[p].form.budget \in Nat /\ OverSum(p)' = 0
      BY <2>1, <3>1, <1>4, TokenSpendAssumption
    <3>3. \A kind \in AlertKinds : <<p, kind>> \notin alerts
      BY <2>1 DEF NothingBefore
    <3>4. FinalizedKeys(p)' = {} /\ \A x \in receipts' : x.policy # p
      BY <2>1, <1>3 DEF FinalizedKeys
    <3> QED
      BY <3>1, <3>2, <3>3, <3>4 DEF ClosedFor
  <2>2. CASE policy[p].status # "none"
    <3>1. ClosedFor(p) /\ policy'[p].form = policy[p].form
      BY <1>6, <2>2, FailClosedParts
    <3> QED
      BY <1>6, <2>2, <3>1, ClosedStays
  <2> QED
    BY <2>1, <2>2
<1>7. FailClosed'
  BY <1>6, NextParts
<1>8. ASSUME NEW p \in Policies, NEW k \in SpendKeys, reservation'[p][k].status # "none"
      PROVE  CallRight(p, k)'
  <2>1. policy'[p].form = policy[p].form
    BY <1>8 DEF NothingBefore
  <2> QED
    BY <1>8, <2>1, ChargedParts DEF CallRight
<1>9. \A x \in receipts' : ReceiptRight(x)'
  BY ChargedParts, UsageReceiptStays
<1>10. ChargedAsReserved'
  BY <1>8, <1>9, NextParts
<1>11. ChargesAreMatched'
  <2>1. ASSUME NEW p \in Policies, NEW k \in FinalizedKeys(p)' PROVE Matched(reservation[p][k])'
    <3>1. k \in FinalizedKeys(p) /\ Matched(reservation[p][k])
      BY MatchedParts DEF FinalizedKeys
    <3>2. Mine(reservation[p][k])' = Mine(reservation[p][k])
      BY DEF Mine
    <3> QED
      BY <3>1, <3>2, MatchedStays
  <2> QED
    BY <2>1, NextParts
<1> QED
  BY <1>1, <1>2, <1>5, <1>7, <1>10, <1>11

\* put_rate_card preserves the invariant.
LEMMA PutRateCardKeeps ==
    ASSUME SpendIInv, NEW card \in Cards, put_rate_card(card)
    PROVE  SpendIInv'
<1>1. SpendTablesOK'
  BY DEF SpendIInv, SpendTablesOK, put_rate_card
<1> QED
  BY <1>1, PolicyStep DEF put_rate_card

\* So does the clock.
LEMMA TickKeeps ==
    ASSUME SpendIInv, Tick
    PROVE  SpendIInv'
<1>1. SpendTablesOK'
  BY TokenSpendAssumption DEF SpendIInv, SpendTablesOK, Tick
<1> QED
  BY <1>1, PolicyStep DEF Tick

\* create_policy preserves the invariant.
LEMMA CreatePolicyKeeps ==
    ASSUME SpendIInv, NEW p \in Policies, NEW form \in Forms, create_policy(p, form)
    PROVE  SpendIInv'
<1>1. SpendTablesOK'
  BY DEF SpendIInv, SpendTablesOK, create_policy, PolicyType
<1>2. ASSUME NEW q \in Policies, q # p PROVE policy'[q] = policy[q]
  BY <1>2 DEF SpendIInv, SpendTablesOK, create_policy
<1>3. /\ policy'[p].status = "active" /\ policy'[p].form = form
      /\ policy'[p].reserved = 0 /\ policy'[p].spent = 0
  BY DEF SpendIInv, SpendTablesOK, create_policy
<1>4. policy[p].status = "none" /\ UNCHANGED <<reservation, receipts, charges, alerts>>
  BY DEF create_policy
<1> QED
  BY <1>1, <1>2, <1>3, <1>4, PolicyStep

\* What a pause writes.
LEMMA PauseWrites ==
    ASSUME SpendTablesOK, NEW p \in Policies, policy' = Paused(p)
    PROVE  /\ policy' \in [Policies -> PolicyType]
           /\ \A q \in Policies : q # p => policy'[q] = policy[q]
           /\ policy'[p].status = "paused" /\ policy'[p].form = policy[p].form
           /\ policy'[p].reserved = policy[p].reserved /\ policy'[p].spent = policy[p].spent
BY DEF SpendTablesOK, Paused, PolicyType

\* emergency_stop preserves the invariant.
LEMMA EmergencyStopKeeps ==
    ASSUME SpendIInv, NEW p \in Policies, emergency_stop(p)
    PROVE  SpendIInv'
<1> SpendTablesOK
  BY DEF SpendIInv
<1>1. /\ policy' = Paused(p) /\ alerts' = alerts \cup {<<p, "emergency_stop">>}
      /\ policy[p].status # "none"
      /\ UNCHANGED <<cards, reservation, receipts, charges, now>>
  BY DEF emergency_stop
<1>2. SpendTablesOK'
  BY <1>1, PauseWrites DEF SpendTablesOK
<1>3. ASSUME NEW q \in Policies, q # p
      PROVE  policy'[q] = policy[q] /\ \A kind : <<q, kind>> \in alerts' => <<q, kind>> \in alerts
  BY <1>1, <1>3, PauseWrites
<1> QED
  BY <1>1, <1>2, <1>3, PauseWrites, PolicyStep

-----------------------------------------------------------------------------
(* preflight *)

\* What preflight reserves: a call on an allowed route at a card in force, that
\* the limit per call and the rest of the budget allow.
LEMMA PreflightReserves ==
    ASSUME SpendIInv, NEW p \in Policies, NEW k \in SpendKeys, NEW route \in Routes,
           NEW tokens \in Estimates, preflight(p, k, route, tokens)
    PROVE  \E row \in Row :
             /\ row.status = "reserved" /\ row.reconciliation = "pending"
             /\ row.route \in policy[p].form.allowed /\ row.card.route = row.route
             /\ row.card.text <= row.at
             /\ row.reserved <= policy[p].form.perCall /\ row.reserved <= Available(p)
             /\ reservation' = [reservation EXCEPT ![p][k] = row]
             /\ policy' = [policy EXCEPT ![p].reserved = @ + row.reserved]
<1> DEFINE routes == Candidates(policy[p].form, route)
           fitting == {i \in DOMAIN routes : Fits(p, routes[i], tokens)}
           selected == routes[Min(fitting)]
           card == LatestCard(InForce(selected, now))
           cost == calculate_cost(card.price, tokens)
           row == [status |-> "reserved", route |-> selected, card |-> card,
                   tokens |-> tokens, reserved |-> cost, actual |-> 0,
                   request |-> NoRequest, reconciliation |-> "pending", at |-> now]
<1>1. /\ fitting # {} /\ reservation' = [reservation EXCEPT ![p][k] = row]
      /\ policy' = [policy EXCEPT ![p].reserved = @ + cost]
  BY DEF preflight
<1>2. fitting \in SUBSET Nat
  <2>1. ASSUME NEW rest PROVE DOMAIN (<<route>> \o rest) \subseteq Nat
    BY SMT
  <2>2. DOMAIN routes \subseteq Nat
    BY <2>1, Zenon DEF Candidates
  <2> QED
    BY <2>2
<1>3. Min(fitting) \in fitting
  <2> HIDE DEF fitting
  <2> QED
    BY <1>1, <1>2, FirstIsOne
<1>4. Fits(p, selected, tokens)
  BY <1>3
<1> HIDE DEF routes, fitting, selected
<1>5. /\ selected \in policy[p].form.allowed /\ InForce(selected, now) # {}
      /\ cost <= policy[p].form.perCall /\ cost <= Available(p)
  BY <1>4 DEF Fits
<1>6. SpendTablesOK /\ policy[p].form \in Forms
  BY DEF SpendIInv, preflight, Open, NothingBefore
<1>7. card \in InForce(selected, now)
  BY <1>5, <1>6, NewestIsInForce
<1> HIDE DEF card
<1>8. card \in Cards /\ card.route = selected /\ card.text <= now /\ now \in Nat
  BY <1>6, <1>7, TokenSpendAssumption DEF SpendTablesOK, InForce
<1>9. selected \in Routes
  BY <1>5, <1>6, TokenSpendAssumption
<1>10. cost \in Nat
  <2>1. card.price \in Tokens /\ tokens \in Tokens
    BY <1>8, TokenSpendAssumption
  <2> QED
    BY <2>1, CostIsRounded
<1> HIDE DEF cost
<1>11. row \in Row
  BY <1>8, <1>9, <1>10 DEF Row
<1> QED
  BY <1>1, <1>5, <1>8, <1>11

\* preflight preserves the invariant.
LEMMA PreflightKeeps ==
    ASSUME SpendIInv, NEW p \in Policies, NEW k \in SpendKeys, NEW route \in Routes,
           NEW tokens \in Estimates, preflight(p, k, route, tokens)
    PROVE  SpendIInv'
<1> USE DEF SpendIInv
<1>1. PICK row \in Row :
             /\ row.status = "reserved" /\ row.reconciliation = "pending"
             /\ row.route \in policy[p].form.allowed /\ row.card.route = row.route
             /\ row.card.text <= row.at
             /\ row.reserved <= policy[p].form.perCall /\ row.reserved <= Available(p)
             /\ reservation' = [reservation EXCEPT ![p][k] = row]
             /\ policy' = [policy EXCEPT ![p].reserved = @ + row.reserved]
  BY PreflightReserves
<1>2. /\ reservation[p][k].status = "none" /\ policy[p].status = "active"
      /\ UNCHANGED <<cards, receipts, charges, alerts, now>>
  BY DEF preflight, Open
<1>3. /\ reservation'[p][k] = row
      /\ \A j \in SpendKeys : j # k => reservation'[p][j] = reservation[p][j]
      /\ \A q \in Policies : q # p => reservation'[q] = reservation[q]
  BY <1>1 DEF SpendTablesOK
<1>4. /\ policy'[p].form = policy[p].form /\ policy'[p].status = policy[p].status
      /\ policy'[p].spent = policy[p].spent
      /\ policy'[p].reserved = policy[p].reserved + row.reserved
      /\ \A q \in Policies : q # p => policy'[q] = policy[q]
  BY <1>1 DEF SpendTablesOK
<1>5. row.reserved \in Nat /\ policy[p].form \in Forms
  BY <1>2 DEF Row, NothingBefore
<1>6. SpendTablesOK'
  <2>1. reservation' \in [Policies -> [SpendKeys -> Row \cup {NoReservation}]]
    BY <1>1 DEF SpendTablesOK
  <2>2. policy' \in [Policies -> PolicyType]
    <3> DEFINE sum == policy[p].reserved + row.reserved
               new == [policy[p] EXCEPT !.reserved = sum]
    <3>1. policy \in [Policies -> PolicyType] /\ policy[p] \in PolicyType
      BY DEF SpendTablesOK
    <3>2. policy' = [policy EXCEPT ![p] = new]
      BY <1>1, <3>1
    <3>3. sum \in Nat
      BY <1>5, <3>1 DEF PolicyType
    <3> HIDE DEF sum
    <3>4. new \in PolicyType
      BY <3>1, <3>3 DEF PolicyType
    <3> HIDE DEF new
    <3> QED
      BY <3>1, <3>2, <3>4
  <2> QED
    BY <1>2, <2>1, <2>2 DEF SpendTablesOK
<1>7. \A q \in Policies, j \in SpendKeys :
         /\ reservation[q][j].status # "none" => reservation'[q][j] = reservation[q][j]
         /\ reservation'[q][j].status # "none" => q = p \/ reservation[q][j].status # "none"
         /\ reservation'[q][j].status = "finalized" <=> reservation[q][j].status = "finalized"
  BY <1>1, <1>2, <1>3
<1>8. \A q \in Policies : FinalizedKeys(q)' = FinalizedKeys(q)
  BY <1>7 DEF FinalizedKeys
<1>9. \A q \in Policies : \A j \in FinalizedKeys(q) : reservation'[q][j] = reservation[q][j]
  BY <1>7 DEF FinalizedKeys
<1>10. NothingBefore'
  <2>1. ASSUME NEW q \in Policies
        PROVE  IsFiniteSet({j \in SpendKeys : reservation'[q][j].status # "none"})
    <3>1. IsFiniteSet({j \in SpendKeys : reservation[q][j].status # "none"} \cup {k})
      BY FS_AddElement DEF NothingBefore
    <3>2. {j \in SpendKeys : reservation'[q][j].status # "none"}
            \subseteq {j \in SpendKeys : reservation[q][j].status # "none"} \cup {k}
      BY <1>3
    <3> QED
      BY <3>1, <3>2, FS_Subset
  <2>2. ASSUME NEW q \in Policies, policy'[q].status = "none"
        PROVE  q # p /\ policy[q].status = "none" /\ reservation'[q] = reservation[q]
    BY <1>2, <1>3, <1>4, <2>2
  <2>3. \A q \in Policies : policy'[q].status # "none" => policy'[q].form \in Forms
    BY <1>4 DEF NothingBefore
  <2> QED
    BY <1>2, <2>1, <2>2, <2>3, NothingNext
<1>11. RequestsAreKnown'
  <2>1. \A q \in Policies : \A j \in Reserved(q)' : reservation'[q][j].reconciliation = "pending"
    BY <1>1, <1>3 DEF RequestsAreKnown, Reserved
  <2>2. \A provider, request : Charged(provider, request)' = Charged(provider, request)
    BY <1>7 DEF Charged
  <2> QED
    BY <1>2, <1>8, <1>9, <2>1, <2>2 DEF RequestsAreKnown
<1>12. ASSUME NEW q \in Policies, q # p
       PROVE  HeldSum(q)' = HeldSum(q) /\ SpentSum(q)' = SpentSum(q)
  BY <1>3, <1>12, SumsStay
<1>13. /\ HeldSum(p)' = HeldSum(p) + row.reserved
       /\ SpentSum(p)' = SpentSum(p) /\ OverSum(p)' = OverSum(p)
  BY <1>1, <1>2, <1>3, <1>5, SumsReserve
<1>14. ColumnsAreTheReservations'
  BY <1>4, <1>12, <1>13, ColumnsAreSums, NextParts
<1>15. FailClosed'
  <2>1. ASSUME NEW q \in Policies, policy'[q].status = "active", q # p PROVE ClosedFor(q)'
    BY <1>2, <1>3, <1>4, <2>1, ClosedStays, FailClosedParts
  <2>2. ClosedFor(p)'
    <3>1. ClosedFor(p)
      BY <1>2, FailClosedParts
    <3>2. policy'[p].spent + policy'[p].reserved <= policy'[p].form.budget + OverSum(p)'
      <4>1. /\ policy[p].spent \in Nat /\ policy[p].reserved \in Nat /\ OverSum(p) \in Nat
            /\ policy[p].form.budget \in Nat
        BY <1>5, SumsAreNumbers, TokenSpendAssumption DEF SpendTablesOK, PolicyType
      <4>2. row.reserved <= policy[p].form.budget - policy[p].spent - policy[p].reserved
        BY <1>1 DEF Available
      <4> QED
        BY <1>4, <1>5, <1>13, <4>1, <4>2
    <3>3. ASSUME NEW x \in receipts', x.policy = p
          PROVE  ~Anomalous(policy[p].form, reservation[p][x.key], x.usage, x.cost)'
      <4>1. ReceiptRight(x) /\ x.key \in SpendKeys
        BY <1>2, <3>3, ChargedParts DEF SpendTablesOK
      <4>2. reservation'[p][x.key] = reservation[p][x.key]
        BY <1>7, <3>3, <4>1 DEF ReceiptRight
      <4> QED
        BY <1>2, <1>4, <3>1, <3>3, <4>2 DEF ClosedFor, Anomalous
    <3> QED
      BY <1>2, <1>4, <1>8, <1>9, <3>1, <3>2, <3>3 DEF ClosedFor
  <2> QED
    BY <2>1, <2>2, NextParts
<1>16. ASSUME NEW q \in Policies, NEW j \in SpendKeys, reservation'[q][j].status # "none"
       PROVE  CallRight(q, j)'
  <2>1. CASE q = p /\ j = k
    BY <1>1, <1>3, <1>4, <2>1 DEF CallRight
  <2>2. CASE ~(q = p /\ j = k)
    <3>1. reservation'[q][j] = reservation[q][j] /\ policy'[q].form = policy[q].form
      BY <1>3, <1>4, <2>2
    <3> QED
      BY <1>16, <3>1, ChargedParts DEF CallRight
  <2> QED
    BY <2>1, <2>2
<1>17. ASSUME NEW x \in receipts' PROVE ReceiptRight(x)'
  <2>1. ReceiptRight(x) /\ x.key \in SpendKeys /\ x.policy \in Policies
    BY <1>2, ChargedParts DEF SpendTablesOK
  <2>2. reservation'[x.policy][x.key] = reservation[x.policy][x.key]
    BY <1>7, <2>1 DEF ReceiptRight
  <2> QED
    BY <2>1, <2>2, UsageReceiptStays
<1>18. ChargedAsReserved'
  BY <1>16, <1>17, NextParts
<1>19. ChargesAreMatched'
  <2>1. ASSUME NEW q \in Policies, NEW j \in FinalizedKeys(q)' PROVE Matched(reservation[q][j])'
    <3>1. j \in FinalizedKeys(q) /\ reservation'[q][j] = reservation[q][j]
      BY <1>8, <1>9
    <3>2. Mine(reservation[q][j])' = Mine(reservation[q][j])
      BY <1>2, <3>1 DEF Mine
    <3> QED
      BY <3>1, <3>2, MatchedParts, MatchedStays
  <2> QED
    BY <2>1, NextParts
<1> QED
  BY <1>6, <1>10, <1>11, <1>14, <1>15, <1>18, <1>19

-----------------------------------------------------------------------------
(* finalize_usage *)

FinalizedRow(p, k, cost, request) ==
    /\ reservation'[p][k] \in Row
    /\ reservation'[p][k].status = "finalized" /\ reservation'[p][k].actual = cost
    /\ reservation'[p][k].request = request
    /\ reservation'[p][k].route = reservation[p][k].route
    /\ reservation'[p][k].card = reservation[p][k].card
    /\ reservation'[p][k].tokens = reservation[p][k].tokens
    /\ reservation'[p][k].reserved = reservation[p][k].reserved
    /\ reservation'[p][k].reconciliation = reservation[p][k].reconciliation
    /\ reservation'[p][k].at = reservation[p][k].at
    /\ \A j \in SpendKeys : j # k => reservation'[p][j] = reservation[p][j]
    /\ \A q \in Policies : q # p => reservation'[q] = reservation[q]
    /\ reservation' \in [Policies -> [SpendKeys -> Row \cup {NoReservation}]]

FinalizedPolicy(p, k, cost, usage) ==
    /\ policy' \in [Policies -> PolicyType]
    /\ policy'[p].form = policy[p].form
    /\ policy'[p].reserved = policy[p].reserved - reservation[p][k].reserved
    /\ policy'[p].spent = policy[p].spent + cost
    /\ policy'[p].status = IF Stops(p, reservation[p][k], usage, cost)
                           THEN "paused" ELSE policy[p].status
    /\ \A q \in Policies : q # p => policy'[q] = policy[q]

\* What finalize_usage writes; in particular MAX(0, ...) takes off exactly what
\* the call held.
LEMMA FinalizeWrites ==
    ASSUME SpendIInv, NEW p \in Policies, NEW k \in SpendKeys, NEW usage \in Usages,
           NEW request \in ProviderRequests, finalize_usage(p, k, usage, request)
    PROVE  \E cost \in Nat :
             /\ Rounded(cost, usage, reservation[p][k].card.price)
             /\ FinalizedRow(p, k, cost, request)
             /\ FinalizedPolicy(p, k, cost, usage)
             /\ receipts' = receipts \cup {[policy |-> p, key |-> k, cost |-> cost,
                                            usage |-> usage]}
             /\ alerts' = IF Stops(p, reservation[p][k], usage, cost)
                          THEN alerts \cup {<<p, "runaway_or_over_budget_usage">>} ELSE alerts
<1> USE DEF SpendIInv
<1> DEFINE r == reservation[p][k]
           cost == calculate_cost(r.card.price, usage)
<1>1. /\ r.status = "reserved"
      /\ receipts' = receipts \cup {[policy |-> p, key |-> k, cost |-> cost, usage |-> usage]}
      /\ reservation' = [reservation EXCEPT ![p][k].status = "finalized",
                           ![p][k].actual = cost, ![p][k].request = request]
      /\ policy' = [policy EXCEPT ![p].reserved = Unreserved(p, r, cost),
                      ![p].spent = @ + cost,
                      ![p].status = IF Stops(p, r, usage, cost) THEN "paused" ELSE @]
      /\ alerts' = IF Stops(p, r, usage, cost)
                   THEN alerts \cup {<<p, "runaway_or_over_budget_usage">>} ELSE alerts
  BY DEF finalize_usage, Priced
<1>2. r \in Row /\ k \in Reserved(p)
  BY <1>1 DEF SpendTablesOK, NoReservation, Reserved
<1>3. r.card \in Cards
  BY <1>2 DEF Row
<1>4. cost \in Nat /\ Rounded(cost, usage, r.card.price)
  <2>1. r.card.price \in Tokens /\ usage \in Tokens
    BY <1>3, TokenSpendAssumption
  <2> QED
    BY <2>1, CostIsRounded
<1> HIDE DEF cost
<1>5. FinalizedRow(p, k, cost, request)
  <2>1. reservation'[p][k] = [r EXCEPT !.status = "finalized", !.actual = cost,
                                       !.request = request]
    BY <1>1 DEF SpendTablesOK
  <2>2. reservation'[p][k] \in Row
    BY <1>2, <1>4, <2>1 DEF Row
  <2>3. /\ \A j \in SpendKeys : j # k => reservation'[p][j] = reservation[p][j]
        /\ \A q \in Policies : q # p => reservation'[q] = reservation[q]
    BY <1>1 DEF SpendTablesOK
  <2>4. reservation' \in [Policies -> [SpendKeys -> Row \cup {NoReservation}]]
    <3>1. reservation \in [Policies -> [SpendKeys -> Row \cup {NoReservation}]]
      BY DEF SpendTablesOK
    <3>2. reservation' = [reservation EXCEPT ![p] = [reservation[p] EXCEPT ![k] =
                            [r EXCEPT !.status = "finalized", !.actual = cost,
                                      !.request = request]]]
      BY <1>1, <3>1
    <3> QED
      BY <2>1, <2>2, <3>1, <3>2
  <2> QED
    BY <1>2, <2>1, <2>2, <2>3, <2>4 DEF FinalizedRow, Row
<1>6. Unreserved(p, r, cost) = policy[p].reserved - r.reserved /\ Unreserved(p, r, cost) \in Nat
  <2>1. r.reserved \in Nat /\ policy[p].reserved \in Nat /\ r.reserved <= policy[p].reserved
    BY <1>2, SumsAreNumbers, ColumnsAreSums DEF Row, SpendTablesOK, PolicyType
  <2>2. PICK d \in Nat : d = policy[p].reserved - r.reserved
    BY <2>1
  <2>3. Max({0, d}) = d
    BY <2>2, MaxWithZero
  <2> QED
    BY <2>2, <2>3 DEF Unreserved
<1>7. FinalizedPolicy(p, k, cost, usage)
  <2>1. policy' \in [Policies -> PolicyType]
    <3>1. policy[p] \in PolicyType /\ policy \in [Policies -> PolicyType]
      BY DEF SpendTablesOK
    <3>2. PICK st : st = IF Stops(p, r, usage, cost) THEN "paused" ELSE policy[p].status
      OBVIOUS
    <3>3. PICK u : u = Unreserved(p, r, cost)
      OBVIOUS
    <3>4. PICK n : n = policy[p].spent + cost
      OBVIOUS
    <3>5. st \in {"none", "active", "paused"} /\ u \in Nat /\ n \in Nat
      BY <1>4, <1>6, <3>1, <3>2, <3>3, <3>4 DEF PolicyType
    <3>6. policy' = [policy EXCEPT ![p].reserved = u, ![p].spent = n, ![p].status = st]
      BY <1>1, <3>1, <3>2, <3>3, <3>4
    <3> QED
      BY <3>1, <3>5, <3>6 DEF PolicyType
  <2> QED
    BY <1>1, <1>6, <2>1 DEF SpendTablesOK, PolicyType, FinalizedPolicy
<1> QED
  BY <1>1, <1>4, <1>5, <1>7

\* finalize_usage preserves the invariant.
LEMMA FinalizeKeeps ==
    ASSUME SpendIInv, NEW p \in Policies, NEW k \in SpendKeys, NEW usage \in Usages,
           NEW request \in ProviderRequests, finalize_usage(p, k, usage, request)
    PROVE  SpendIInv'
<1> USE DEF SpendIInv
<1> DEFINE r == reservation[p][k]
<1>1. PICK cost \in Nat :
             /\ Rounded(cost, usage, reservation[p][k].card.price)
             /\ FinalizedRow(p, k, cost, request)
             /\ FinalizedPolicy(p, k, cost, usage)
             /\ receipts' = receipts \cup {[policy |-> p, key |-> k, cost |-> cost,
                                            usage |-> usage]}
             /\ alerts' = IF Stops(p, reservation[p][k], usage, cost)
                          THEN alerts \cup {<<p, "runaway_or_over_budget_usage">>} ELSE alerts
  BY FinalizeWrites
<1>2. /\ r.status = "reserved" /\ UNCHANGED <<cards, charges, now>>
      /\ \A q \in Policies, j \in SpendKeys :
           ~(/\ reservation[q][j].status = "finalized" /\ reservation[q][j].request = request
             /\ reservation[q][j].route.provider = r.route.provider)
  BY DEF finalize_usage
<1>3. FinalizedRow(p, k, cost, request)
  BY <1>1
<1>4. FinalizedPolicy(p, k, cost, usage)
  BY <1>1
<1>5. r \in Row /\ k \in Reserved(p) /\ policy[p].status # "none" /\ policy[p].form \in Forms
  <2>1. r \in Row /\ k \in Reserved(p)
    BY <1>2 DEF SpendTablesOK, NoReservation, Reserved
  <2>2. policy[p].status # "none" /\ policy[p].form \in Forms
    BY <1>2 DEF NothingBefore
  <2> QED
    BY <2>1, <2>2
<1>6. SpendTablesOK'
  <2>1. \A x \in receipts' : /\ x.policy \in Policies /\ x.key \in SpendKeys /\ x.usage \in Usages
                             /\ x.cost \in Nat
    BY <1>1 DEF SpendTablesOK
  <2> QED
    BY <1>2, <1>3, <1>4, <2>1 DEF SpendTablesOK, FinalizedRow, FinalizedPolicy
<1>7. \A q \in Policies, j \in SpendKeys : ~(q = p /\ j = k) => reservation'[q][j] = reservation[q][j]
  BY <1>3 DEF FinalizedRow
<1>8. /\ \A q \in Policies : q # p => FinalizedKeys(q)' = FinalizedKeys(q)
      /\ FinalizedKeys(p)' = FinalizedKeys(p) \cup {k} /\ k \notin FinalizedKeys(p)
      /\ \A q \in Policies : \A j \in FinalizedKeys(q) : reservation'[q][j] = reservation[q][j]
      /\ \A q \in Policies : Reserved(q)' \subseteq Reserved(q)
  BY <1>2, <1>3 DEF FinalizedRow, FinalizedKeys, Reserved
<1>9. NothingBefore'
  <2>1. ASSUME NEW q \in Policies
        PROVE  IsFiniteSet({j \in SpendKeys : reservation'[q][j].status # "none"})
    <3>1. IsFiniteSet({j \in SpendKeys : reservation[q][j].status # "none"})
      BY DEF NothingBefore
    <3>2. {j \in SpendKeys : reservation'[q][j].status # "none"}
            = {j \in SpendKeys : reservation[q][j].status # "none"}
      BY <1>2, <1>3 DEF FinalizedRow
    <3> QED
      BY <3>1, <3>2
  <2>2. \A q \in Policies : policy'[q].status # "none" => policy'[q].form \in Forms
    BY <1>4, <1>5 DEF NothingBefore, FinalizedPolicy
  <2>3. ASSUME NEW q \in Policies, policy'[q].status = "none"
        PROVE  q # p /\ policy[q].status = "none" /\ reservation'[q] = reservation[q]
    BY <1>3, <1>4, <1>5, <2>3 DEF FinalizedPolicy, FinalizedRow
  <2>4. ASSUME NEW q \in Policies, policy'[q].status = "none"
        PROVE  /\ \A x \in receipts' : x.policy = q => x \in receipts
               /\ \A kind \in AlertKinds : <<q, kind>> \in alerts' => <<q, kind>> \in alerts
    BY <1>1, <2>3, <2>4
  <2> QED
    BY <2>1, <2>2, <2>3, <2>4, NothingNext
<1>10. RequestsAreKnown'
  <2>1. \A q \in Policies : \A j \in Reserved(q)' : reservation'[q][j].reconciliation = "pending"
    <3> SUFFICES ASSUME NEW q \in Policies, NEW j \in Reserved(q)'
                 PROVE  reservation'[q][j].reconciliation = "pending"
      OBVIOUS
    <3>1. j \in Reserved(q) /\ ~(q = p /\ j = k) /\ j \in SpendKeys
      BY <1>3, <1>8 DEF FinalizedRow, Reserved
    <3> QED
      BY <1>7, <3>1 DEF RequestsAreKnown
  <2>2. ASSUME NEW q \in Policies, NEW j \in FinalizedKeys(q)', ~(q = p /\ j = k)
        PROVE  /\ j \in FinalizedKeys(q) /\ reservation'[q][j] = reservation[q][j]
               /\ ~(/\ reservation[q][j].request = request
                    /\ reservation[q][j].route.provider = r.route.provider)
    <3>1. j \in FinalizedKeys(q)
      BY <1>8, <2>2
    <3> QED
      BY <1>2, <1>8, <3>1 DEF FinalizedKeys
  <2>3. \A q, s \in Policies : \A i \in FinalizedKeys(q)', j \in FinalizedKeys(s)' :
          /\ reservation'[q][i].route.provider = reservation'[s][j].route.provider
          /\ reservation'[q][i].request = reservation'[s][j].request
          => q = s /\ i = j
    <3> SUFFICES ASSUME NEW q \in Policies, NEW s \in Policies, NEW i \in FinalizedKeys(q)',
                        NEW j \in FinalizedKeys(s)',
                        reservation'[q][i].route.provider = reservation'[s][j].route.provider,
                        reservation'[q][i].request = reservation'[s][j].request
                 PROVE  q = s /\ i = j
      OBVIOUS
    <3>1. reservation'[p][k].request = request /\ reservation'[p][k].route = r.route
      BY <1>3 DEF FinalizedRow
    <3>2. CASE q = p /\ i = k
      BY <2>2, <3>1, <3>2
    <3>3. CASE s = p /\ j = k
      BY <2>2, <3>1, <3>3
    <3>4. CASE ~(q = p /\ i = k) /\ ~(s = p /\ j = k)
      BY <2>2, <3>4 DEF RequestsAreKnown
    <3> QED
      BY <3>2, <3>3, <3>4
  <2>4. ASSUME NEW c \in charges', c.status # "orphaned"
        PROVE  Charged(c.provider, c.request)' # {}
    <3>1. PICK pk \in Charged(c.provider, c.request) : TRUE
      BY <1>2, <2>4 DEF RequestsAreKnown
    <3>2. /\ pk \in Policies \X SpendKeys /\ pk[1] \in Policies /\ pk[2] \in FinalizedKeys(pk[1])
          /\ reservation[pk[1]][pk[2]].route.provider = c.provider
          /\ reservation[pk[1]][pk[2]].request = c.request
      BY <3>1 DEF Charged, FinalizedKeys
    <3>3. /\ reservation'[pk[1]][pk[2]] = reservation[pk[1]][pk[2]]
          /\ reservation[pk[1]][pk[2]].status = "finalized"
      BY <1>8, <3>2 DEF FinalizedKeys
    <3> QED
      BY <3>2, <3>3 DEF Charged
  <2> QED
    BY <2>1, <2>3, <2>4 DEF RequestsAreKnown
<1>11. ASSUME NEW q \in Policies, q # p
       PROVE  HeldSum(q)' = HeldSum(q) /\ SpentSum(q)' = SpentSum(q)
  BY <1>3, <1>11, SumsStay DEF FinalizedRow
<1>12. /\ HeldSum(p) = r.reserved + HeldSum(p)' /\ HeldSum(p)' \in Nat
       /\ SpentSum(p)' = SpentSum(p) + cost
       /\ OverSum(p)' = OverSum(p) + Over(reservation[p][k])'
       /\ Over(reservation[p][k])' \in Nat
       /\ Over(reservation[p][k])' >= cost - r.reserved
  BY <1>2, <1>3, SumsFinalize DEF FinalizedRow
<1>13. ColumnsAreTheReservations'
  <2>1. policy'[p].reserved = HeldSum(p)' /\ policy'[p].spent = SpentSum(p)'
    <3>1. policy[p].reserved = HeldSum(p) /\ policy[p].spent = SpentSum(p) /\ r.reserved \in Nat
      BY <1>5, ColumnsAreSums DEF Row
    <3> QED
      BY <1>4, <1>12, <3>1 DEF FinalizedPolicy
  <2> QED
    BY <1>4, <1>11, <2>1, ColumnsAreSums, NextParts DEF FinalizedPolicy
<1>14. ASSUME NEW q \in Policies, policy'[q].status = "active", q # p PROVE ClosedFor(q)'
  <2>1. policy'[q] = policy[q] /\ reservation'[q] = reservation[q]
    BY <1>3, <1>4, <1>14 DEF FinalizedPolicy, FinalizedRow
  <2>2. ClosedFor(q)
    BY <1>14, <2>1, FailClosedParts
  <2>3. /\ \A x \in receipts' : x.policy = q => x \in receipts
        /\ \A kind \in AlertKinds : <<q, kind>> \in alerts' => <<q, kind>> \in alerts
    BY <1>1, <1>14
  <2> QED
    BY <2>1, <2>2, <2>3, ClosedStays
<1>15. ASSUME policy'[p].status = "active" PROVE ClosedFor(p)'
  <2>1. ~Stops(p, r, usage, cost) /\ policy[p].status = "active" /\ alerts' = alerts
    BY <1>1, <1>4, <1>15 DEF FinalizedPolicy
  <2>2. ClosedFor(p)
    BY <2>1, FailClosedParts
  <2>3. /\ ~Anomalous(policy[p].form, r, usage, cost)
        /\ ~(policy[p].spent + cost > policy[p].form.budget)
    BY <2>1 DEF Stops
  <2>4. /\ policy[p].spent \in Nat /\ policy[p].reserved \in Nat /\ OverSum(p) \in Nat
        /\ policy[p].form.budget \in Nat /\ r.reserved \in Nat
    BY <1>5, SumsAreNumbers, TokenSpendAssumption DEF SpendTablesOK, PolicyType, Row
  <2>5. policy'[p].spent <= policy'[p].form.budget
    BY <1>4, <2>3, <2>4 DEF FinalizedPolicy
  <2>6. policy'[p].spent + policy'[p].reserved <= policy'[p].form.budget + OverSum(p)'
    <3>1. policy[p].spent + policy[p].reserved <= policy[p].form.budget + OverSum(p)
      BY <2>2 DEF ClosedFor
    <3>2. PICK over \in Nat : over = Over(reservation[p][k])'
      BY <1>12
    <3>3. OverSum(p)' = OverSum(p) + over /\ over >= cost - r.reserved
      BY <1>12, <3>2
    <3> QED
      BY <1>4, <2>4, <3>1, <3>3 DEF FinalizedPolicy
  <2>7. ASSUME NEW x \in receipts', x.policy = p
        PROVE  ~Anomalous(policy[p].form, reservation[p][x.key], x.usage, x.cost)'
    <3>1. CASE x \in receipts
      <4>1. ReceiptRight(x) /\ x.key \in SpendKeys
        BY <3>1, ChargedParts DEF SpendTablesOK
      <4>2. reservation'[p][x.key] = reservation[p][x.key]
        BY <1>2, <1>7, <2>7, <4>1 DEF ReceiptRight
      <4>3. ~Anomalous(policy[p].form, reservation[p][x.key], x.usage, x.cost)
        BY <2>2, <2>7, <3>1 DEF ClosedFor
      <4>4. policy'[p].form = policy[p].form
        BY <1>4 DEF FinalizedPolicy
      <4> QED
        BY <4>2, <4>3, <4>4 DEF Anomalous
    <3>2. CASE x = [policy |-> p, key |-> k, cost |-> cost, usage |-> usage]
      <4>1. x.key = k /\ x.usage = usage /\ x.cost = cost
        BY <3>2
      <4> QED
        BY <1>3, <1>4, <2>3, <4>1 DEF Anomalous, FinalizedRow, FinalizedPolicy
    <3> QED
      BY <1>1, <3>1, <3>2
  <2>8. \A j \in FinalizedKeys(p)' : reservation'[p][j].reconciliation # "disputed"
    <3>1. reservation'[p][k].reconciliation = "pending"
      BY <1>3, <1>5 DEF RequestsAreKnown, FinalizedRow
    <3> QED
      BY <1>8, <2>2, <3>1 DEF ClosedFor
  <2> QED
    BY <2>1, <2>2, <2>5, <2>6, <2>7, <2>8 DEF ClosedFor
<1>16. FailClosed'
  BY <1>14, <1>15, NextParts
<1>17. ASSUME NEW q \in Policies, NEW j \in SpendKeys, reservation'[q][j].status # "none"
       PROVE  CallRight(q, j)'
  <2>1. policy'[q].form = policy[q].form /\ reservation[q][j].status # "none"
    BY <1>2, <1>4, <1>7, <1>17 DEF FinalizedPolicy
  <2>2. /\ reservation'[q][j].route = reservation[q][j].route
        /\ reservation'[q][j].card = reservation[q][j].card
        /\ reservation'[q][j].at = reservation[q][j].at
        /\ reservation'[q][j].reserved = reservation[q][j].reserved
    BY <1>3, <1>7 DEF FinalizedRow
  <2> QED
    BY <2>1, <2>2, ChargedParts DEF CallRight
<1>18. ASSUME NEW x \in receipts' PROVE ReceiptRight(x)'
  <2>1. CASE x \in receipts
    <3>1. ReceiptRight(x) /\ x.key \in SpendKeys /\ x.policy \in Policies
      BY <2>1, ChargedParts DEF SpendTablesOK
    <3>2. reservation'[x.policy][x.key] = reservation[x.policy][x.key]
      BY <1>2, <1>7, <3>1 DEF ReceiptRight
    <3> QED
      BY <3>1, <3>2, UsageReceiptStays
  <2>2. CASE x = [policy |-> p, key |-> k, cost |-> cost, usage |-> usage]
    <3>1. x.policy = p /\ x.key = k /\ x.usage = usage /\ x.cost = cost
      BY <2>2
    <3>2. /\ reservation'[p][k].status = "finalized" /\ reservation'[p][k].actual = cost
          /\ reservation'[p][k].card = r.card
      BY <1>3 DEF FinalizedRow
    <3>3. Rounded(cost, usage, r.card.price)
      BY <1>1
    <3> QED
      BY <3>1, <3>2, <3>3 DEF ReceiptRight
  <2> QED
    BY <1>1, <2>1, <2>2
<1>19. ChargedAsReserved'
  BY <1>17, <1>18, NextParts
<1>20. ASSUME NEW q \in Policies, NEW j \in FinalizedKeys(q)' PROVE Matched(reservation[q][j])'
  <2>1. CASE q = p /\ j = k
    <3>1. PICK s : s = reservation'[p][k]
      OBVIOUS
    <3>2. s.reconciliation = "pending" /\ s.request = request /\ s.route = r.route
      BY <1>3, <1>5, <3>1 DEF RequestsAreKnown, FinalizedRow
    <3>3. ASSUME NEW c \in charges, c.provider = r.route.provider, c.request = request,
                 c.status # "orphaned"
          PROVE  FALSE
      <4>1. PICK pk \in Charged(r.route.provider, request) : TRUE
        BY <3>3 DEF RequestsAreKnown
      <4> QED
        BY <1>2, <4>1 DEF Charged
    <3>4. Mine(reservation[p][k])' = {}
      BY <1>2, <3>1, <3>2, <3>3 DEF Mine
    <3> QED
      BY <2>1, <3>1, <3>2, <3>4 DEF Matched
  <2>2. CASE ~(q = p /\ j = k)
    <3>1. j \in FinalizedKeys(q) /\ reservation'[q][j] = reservation[q][j]
      BY <1>8, <2>2
    <3>2. Mine(reservation[q][j])' = Mine(reservation[q][j])
      BY <1>2, <3>1 DEF Mine
    <3> QED
      BY <3>1, <3>2, MatchedParts, MatchedStays
  <2> QED
    BY <2>1, <2>2
<1>21. ChargesAreMatched'
  BY <1>20, NextParts
<1> QED
  BY <1>6, <1>9, <1>10, <1>13, <1>16, <1>19, <1>21

-----------------------------------------------------------------------------
(* reconcile_provider_event *)

\* A confirmed amount is within the tolerance of the metered cost.
LEMMA VerdictTells ==
    ASSUME NEW actual \in Nat, NEW cost \in Nat
    PROVE  /\ Verdict(actual, cost) \in {"confirmed", "disputed"}
           /\ Verdict(actual, cost) = "confirmed" =>
                /\ cost - actual <= Tolerance + CeilDiv(actual, 100)
                /\ actual - cost <= Tolerance + CeilDiv(actual, 100)
<1>1. PICK n : n = MathCeil(actual, 100)
  OBVIOUS
<1>2. /\ n \in Nat /\ Tolerance \in Nat
      /\ n <= CeilDiv(actual, 100) /\ CeilDiv(actual, 100) \in Nat
  <2>1. /\ CeilDiv(actual, 100) \in Nat /\ actual \div 100 \in Nat
        /\ actual \div 100 <= CeilDiv(actual, 100)
    BY SMT DEF CeilDiv
  <2> QED
    BY <1>1, <2>1, TokenSpendAssumption DEF MathCeil
<1>3. Max({Tolerance, n}) \in {Tolerance, n}
  BY <1>2, MaxOfTwo
<1>4. Max({Tolerance, n}) <= Tolerance + n /\ Max({Tolerance, n}) \in Nat
  BY <1>2, <1>3
<1>5. Verdict(actual, cost) = "confirmed" => Apart(cost, actual) <= Tolerance + n
  <2> SUFFICES ASSUME Apart(cost, actual) <= Max({Tolerance, n})
               PROVE  Apart(cost, actual) <= Tolerance + n
    BY <1>1 DEF Verdict
  <2>1. Apart(cost, actual) \in Nat
    BY DEF Apart
  <2> QED
    BY <1>2, <1>4, <2>1
<1>6. Apart(cost, actual) <= Tolerance + n => cost - actual <= Tolerance + n
                                              /\ actual - cost <= Tolerance + n
  BY <1>2 DEF Apart
<1>7. Tolerance + n <= Tolerance + CeilDiv(actual, 100)
  BY <1>2
<1>8. Verdict(actual, cost) \in {"confirmed", "disputed"}
  BY DEF Verdict
<1> QED
  BY <1>2, <1>5, <1>6, <1>7, <1>8

\* A charge that finds no call changes nothing but the alerts of nobody.
LEMMA OrphanKeeps ==
    ASSUME SpendIInv, NEW c, c.status = "orphaned", c.cost \in Nat,
           charges' = charges \cup {c},
           alerts' = alerts \cup {<<"none", "orphaned_provider_charge">>},
           UNCHANGED <<cards, policy, reservation, receipts, now>>
    PROVE  SpendIInv'
<1> USE DEF SpendIInv
<1>1. SpendTablesOK'
  BY DEF SpendTablesOK
<1>2. \A p \in Policies : \A kind \in AlertKinds : <<p, kind>> \in alerts' => <<p, kind>> \in alerts
  BY DEF AlertKinds
<1>3. NothingBefore'
  <2>1. ASSUME NEW p \in Policies
        PROVE  IsFiniteSet({k \in SpendKeys : reservation'[p][k].status # "none"})
    <3>1. {k \in SpendKeys : reservation'[p][k].status # "none"}
            = {k \in SpendKeys : reservation[p][k].status # "none"}
      OBVIOUS
    <3> QED
      BY <3>1 DEF NothingBefore
  <2>2. \A p \in Policies : policy'[p].status # "none" => policy'[p].form \in Forms
    BY DEF NothingBefore
  <2> QED
    BY <1>2, <2>1, <2>2, NothingNext
<1>4. RequestsAreKnown'
  BY DEF RequestsAreKnown, Reserved, FinalizedKeys, Charged
<1>5. ASSUME NEW p \in Policies PROVE HeldSum(p)' = HeldSum(p) /\ SpentSum(p)' = SpentSum(p)
  BY SumsStay
<1>6. ColumnsAreTheReservations'
  BY <1>5, ColumnsAreSums, NextParts
<1>7. ASSUME NEW p \in Policies, policy'[p].status = "active" PROVE ClosedFor(p)'
  <2>1. ClosedFor(p)
    BY <1>7, FailClosedParts
  <2> QED
    BY <1>2, <2>1, ClosedStays
<1>8. FailClosed'
  BY <1>7, NextParts
<1>9. ChargedAsReserved'
  <2>1. \A x \in receipts' : ReceiptRight(x)'
    BY ChargedParts, UsageReceiptStays
  <2>2. \A p \in Policies, k \in SpendKeys : reservation'[p][k].status # "none" => CallRight(p, k)'
    BY ChargedParts DEF CallRight
  <2> QED
    BY <2>1, <2>2, NextParts
<1>10. ASSUME NEW p \in Policies, NEW k \in FinalizedKeys(p)' PROVE Matched(reservation[p][k])'
  <2>1. k \in FinalizedKeys(p) /\ Matched(reservation[p][k])
    BY MatchedParts DEF FinalizedKeys
  <2>2. Mine(reservation[p][k])' = Mine(reservation[p][k])
    BY DEF Mine
  <2> QED
    BY <2>1, <2>2, MatchedStays
<1>11. ChargesAreMatched'
  BY <1>10, NextParts
<1> QED
  BY <1>1, <1>3, <1>4, <1>6, <1>8, <1>9, <1>11

\* A charge that finds a call settles that call alone, and pauses its policy
\* when it disputes it.
LEMMA ChargeKeeps ==
    ASSUME SpendIInv, NEW p \in Policies, NEW k \in FinalizedKeys(p), NEW c, NEW verdict,
           c.status = verdict, c.cost \in Nat,
           verdict = Verdict(reservation[p][k].actual, c.cost),
           c.provider = reservation[p][k].route.provider, c.request = reservation[p][k].request,
           charges' = charges \cup {c},
           reservation' = [reservation EXCEPT ![p][k].reconciliation = verdict],
           IF verdict = "disputed"
           THEN /\ policy' = Paused(p)
                /\ alerts' = alerts \cup {<<p, "provider_reconciliation_mismatch">>}
           ELSE UNCHANGED <<policy, alerts>>,
           UNCHANGED <<cards, receipts, now>>
    PROVE  SpendIInv'
<1> USE DEF SpendIInv
<1>1. /\ k \in SpendKeys /\ reservation[p][k].status = "finalized" /\ reservation[p][k] \in Row
      /\ reservation[p][k].actual \in Nat
  BY DEF FinalizedKeys, SpendTablesOK, NoReservation, Row
<1>2. /\ verdict \in {"confirmed", "disputed"}
      /\ verdict = "confirmed" => Within(c, reservation[p][k])
  BY <1>1, VerdictTells DEF Within
<1>3. /\ reservation'[p][k] = [reservation[p][k] EXCEPT !.reconciliation = verdict]
      /\ \A j \in SpendKeys : j # k => reservation'[p][j] = reservation[p][j]
      /\ \A q \in Policies : q # p => reservation'[q] = reservation[q]
  BY <1>1 DEF SpendTablesOK
<1>4. /\ reservation'[p][k] \in Row
      /\ reservation' \in [Policies -> [SpendKeys -> Row \cup {NoReservation}]]
  <2>1. reservation'[p][k] \in Row
    BY <1>1, <1>2, <1>3 DEF Row
  <2>2. reservation' = [reservation EXCEPT ![p] = [reservation[p] EXCEPT ![k] =
                          [reservation[p][k] EXCEPT !.reconciliation = verdict]]]
    BY DEF SpendTablesOK
  <2> QED
    BY <1>1, <1>3, <2>1, <2>2 DEF SpendTablesOK
<1>5. /\ reservation'[p][k].reconciliation = verdict
      /\ \A q \in Policies, j \in SpendKeys :
           /\ reservation'[q][j].status = reservation[q][j].status
           /\ reservation[q][j].status # "none" =>
                /\ reservation'[q][j].reserved = reservation[q][j].reserved
                /\ reservation'[q][j].actual = reservation[q][j].actual
                /\ reservation'[q][j].tokens = reservation[q][j].tokens
                /\ reservation'[q][j].route = reservation[q][j].route
                /\ reservation'[q][j].card = reservation[q][j].card
                /\ reservation'[q][j].request = reservation[q][j].request
                /\ reservation'[q][j].at = reservation[q][j].at
           /\ ~(q = p /\ j = k) =>
                reservation'[q][j].reconciliation = reservation[q][j].reconciliation
  BY <1>1, <1>3 DEF Row
<1>6. \A q \in Policies : FinalizedKeys(q)' = FinalizedKeys(q) /\ Reserved(q)' = Reserved(q)
  BY <1>5 DEF FinalizedKeys, Reserved
<1>7. /\ policy' \in [Policies -> PolicyType]
      /\ \A q \in Policies : q # p => policy'[q] = policy[q]
      /\ policy'[p].form = policy[p].form
      /\ policy'[p].reserved = policy[p].reserved /\ policy'[p].spent = policy[p].spent
      /\ policy'[p].status = IF verdict = "disputed" THEN "paused" ELSE policy[p].status
  <2>1. CASE verdict = "disputed"
    BY <2>1, PauseWrites
  <2>2. CASE verdict # "disputed"
    BY <2>2 DEF SpendTablesOK
  <2> QED
    BY <2>1, <2>2
<1>8. /\ \A q \in Policies : q # p => \A kind : <<q, kind>> \in alerts' => <<q, kind>> \in alerts
      /\ verdict # "disputed" => alerts' = alerts
  OBVIOUS
<1>9. policy[p].status # "none" /\ policy[p].form \in Forms
  BY <1>1 DEF NothingBefore
<1>10. SpendTablesOK'
  BY <1>2, <1>4, <1>7 DEF SpendTablesOK
<1>11. NothingBefore'
  <2>1. ASSUME NEW q \in Policies
        PROVE  IsFiniteSet({j \in SpendKeys : reservation'[q][j].status # "none"})
    <3>1. {j \in SpendKeys : reservation'[q][j].status # "none"}
            = {j \in SpendKeys : reservation[q][j].status # "none"}
      BY <1>5
    <3>2. IsFiniteSet({j \in SpendKeys : reservation[q][j].status # "none"})
      BY DEF NothingBefore
    <3> QED
      BY <3>1, <3>2
  <2>2. \A q \in Policies : policy'[q].status # "none" => policy'[q].form \in Forms
    BY <1>7, <1>9 DEF NothingBefore
  <2>3. \A q \in Policies : policy'[q].status = "none" => q # p /\ policy[q].status = "none"
    BY <1>7, <1>9
  <2> QED
    BY <1>5, <1>8, <2>1, <2>2, <2>3, NothingNext
<1>12. \A q \in Policies : \A j \in FinalizedKeys(q) :
          /\ reservation'[q][j].route = reservation[q][j].route
          /\ reservation'[q][j].request = reservation[q][j].request
          /\ reservation'[q][j].actual = reservation[q][j].actual
  BY <1>5 DEF FinalizedKeys
<1>13. RequestsAreKnown'
  <2>1. \A q \in Policies : \A j \in Reserved(q)' : reservation'[q][j].reconciliation = "pending"
    <3> SUFFICES ASSUME NEW q \in Policies, NEW j \in Reserved(q)
                 PROVE  reservation'[q][j].reconciliation = "pending"
      BY <1>6
    <3>1. ~(q = p /\ j = k) /\ j \in SpendKeys
      BY <1>1 DEF Reserved
    <3>2. reservation[q][j].reconciliation = "pending"
      BY DEF RequestsAreKnown
    <3> QED
      BY ONLY <1>5, <3>1, <3>2
  <2>2. \A q, s \in Policies : \A i \in FinalizedKeys(q)', j \in FinalizedKeys(s)' :
          /\ reservation'[q][i].route.provider = reservation'[s][j].route.provider
          /\ reservation'[q][i].request = reservation'[s][j].request
          => q = s /\ i = j
    <3>0. SUFFICES ASSUME NEW q \in Policies, NEW s \in Policies,
                          NEW i \in FinalizedKeys(q), NEW j \in FinalizedKeys(s),
                          reservation'[q][i].route.provider = reservation'[s][j].route.provider,
                          reservation'[q][i].request = reservation'[s][j].request
                   PROVE  q = s /\ i = j
      BY <1>6
    <3>1. /\ reservation'[q][i].route = reservation[q][i].route
          /\ reservation'[q][i].request = reservation[q][i].request
          /\ reservation'[s][j].route = reservation[s][j].route
          /\ reservation'[s][j].request = reservation[s][j].request
      BY <1>12
    <3>2. reservation[q][i].route.provider = reservation[s][j].route.provider
      BY ONLY <3>0, <3>1
    <3>3. reservation[q][i].request = reservation[s][j].request
      BY ONLY <3>0, <3>1
    <3> QED
      BY <3>2, <3>3, OneRequest
  <2>3. ASSUME NEW provider, NEW request
        PROVE  Charged(provider, request)' = Charged(provider, request)
    BY ONLY <1>5 DEF Charged
  <2>4. <<p, k>> \in Charged(c.provider, c.request)
    BY <1>1 DEF Charged
  <2>5. ASSUME NEW d \in charges', d.status # "orphaned"
        PROVE  Charged(d.provider, d.request)' # {}
    BY <2>3, <2>4, <2>5 DEF RequestsAreKnown
  <2> QED
    BY <2>1, <2>2, <2>5 DEF RequestsAreKnown
<1>14. ASSUME NEW q \in Policies PROVE HeldSum(q)' = HeldSum(q) /\ SpentSum(q)' = SpentSum(q)
  BY <1>5, SumsStay
<1>15. ColumnsAreTheReservations'
  <2>1. ASSUME NEW q \in Policies
        PROVE  policy'[q].reserved = HeldSum(q)' /\ policy'[q].spent = SpentSum(q)'
    <3>1. policy'[q].reserved = policy[q].reserved /\ policy'[q].spent = policy[q].spent
      BY <1>7
    <3>2. policy[q].reserved = HeldSum(q) /\ policy[q].spent = SpentSum(q)
      BY ColumnsAreSums
    <3> QED
      BY ONLY <1>14, <3>1, <3>2
  <2> QED
    BY <2>1, NextParts
<1>16. ASSUME NEW q \in Policies, policy'[q].status = "active" PROVE ClosedFor(q)'
  <2>1. /\ policy[q].status = "active" /\ (q = p => verdict = "confirmed")
        /\ policy'[q].form = policy[q].form /\ policy'[q].reserved = policy[q].reserved
        /\ policy'[q].spent = policy[q].spent
    BY <1>2, <1>7, <1>16
  <2>2. ClosedFor(q)
    BY <2>1, FailClosedParts
  <2>3. \A kind \in AlertKinds : <<q, kind>> \in alerts' => <<q, kind>> \in alerts
    BY <1>8, <2>1
  <2>4. \A j \in SpendKeys : reservation[q][j].status # "none" =>
          reservation'[q][j].reconciliation \in {reservation[q][j].reconciliation, "confirmed"}
    BY <1>5, <2>1
  <2> QED
    BY <1>5, <2>1, <2>2, <2>3, <2>4, ClosedStays
<1>17. FailClosed'
  BY <1>16, NextParts
<1>18. ChargedAsReserved'
  <2>1. ASSUME NEW x \in receipts' PROVE ReceiptRight(x)'
    <3>1. ReceiptRight(x) /\ x.key \in SpendKeys /\ x.policy \in Policies
      BY ChargedParts DEF SpendTablesOK
    <3>2. reservation[x.policy][x.key].status # "none"
      BY <3>1 DEF ReceiptRight
    <3>3. /\ reservation'[x.policy][x.key].status = reservation[x.policy][x.key].status
          /\ reservation'[x.policy][x.key].actual = reservation[x.policy][x.key].actual
          /\ reservation'[x.policy][x.key].card = reservation[x.policy][x.key].card
      BY ONLY <1>5, <3>1, <3>2
    <3> QED
      BY ONLY <3>1, <3>3, UsageReceiptStays
  <2>2. ASSUME NEW q \in Policies, NEW j \in SpendKeys, reservation'[q][j].status # "none"
        PROVE  CallRight(q, j)'
    <3>1. policy'[q].form = policy[q].form /\ reservation[q][j].status # "none"
      BY <1>5, <1>7, <2>2
    <3>2. CallRight(q, j)
      BY <3>1, ChargedParts
    <3> QED
      BY ONLY <1>5, <2>2, <3>1, <3>2 DEF CallRight
  <2> QED
    BY ONLY <2>1, <2>2, NextCharged
<1>19. ASSUME NEW q \in Policies, NEW j \in FinalizedKeys(q)' PROVE Matched(reservation[q][j])'
  <2>1. j \in FinalizedKeys(q) /\ Matched(reservation[q][j]) /\ j \in SpendKeys
    BY <1>6, MatchedParts DEF FinalizedKeys
  <2>2. CASE q = p /\ j = k
    <3>1. PICK s : s = reservation'[p][k]
      OBVIOUS
    <3>2. /\ s.reconciliation = verdict /\ s.actual = reservation[p][k].actual
          /\ s.route = reservation[p][k].route /\ s.request = reservation[p][k].request
      BY <1>5, <1>12, <3>1
    <3>3. PICK M : M = Mine(reservation[p][k])'
      OBVIOUS
    <3>4. M = Mine(reservation[p][k]) \cup {c}
      BY <1>2, <3>1, <3>2, <3>3 DEF Mine
    <3>5. c \in M /\ c.status = s.reconciliation /\ s.reconciliation # "pending"
      BY <1>2, <3>2, <3>4
    <3>6. ASSUME NEW d \in M, d.status = "confirmed" PROVE Within(d, s)
      <4>1. CASE d = c
        BY <1>2, <3>2, <3>6, <4>1 DEF Within
      <4>2. CASE d # c
        BY <2>1, <2>2, <3>2, <3>4, <3>6, <4>2 DEF Matched, Within
      <4> QED
        BY <4>1, <4>2
    <3> QED
      BY <2>2, <3>1, <3>3, <3>5, <3>6 DEF Matched, Within
  <2>3. CASE ~(q = p /\ j = k)
    <3>1. ~(/\ reservation[q][j].route.provider = c.provider
            /\ reservation[q][j].request = c.request)
      BY <2>1, <2>3 DEF RequestsAreKnown
    <3>2. Mine(reservation[q][j])' = Mine(reservation[q][j])
      BY <1>12, <2>1, <3>1 DEF Mine
    <3>3. reservation'[q][j].reconciliation = reservation[q][j].reconciliation
      BY <1>5, <2>1, <2>3
    <3> QED
      BY <1>12, <2>1, <3>2, <3>3, MatchedStays
  <2> QED
    BY <2>2, <2>3
<1>20. ChargesAreMatched'
  BY ONLY <1>19, NextMatched
<1> QED
  BY <1>10, <1>11, <1>13, <1>15, <1>17, <1>18, <1>20

\* reconcile_provider_event preserves the invariant.
LEMMA ReconcileKeeps ==
    ASSUME SpendIInv, NEW provider, NEW id, NEW request, NEW cost \in Charges,
           reconcile_provider_event(provider, id, request, cost)
    PROVE  SpendIInv'
<1> DEFINE found == Charged(provider, request)
           charge(status) == [provider |-> provider, id |-> id, request |-> request,
                              cost |-> cost, status |-> status]
<1>1. cost \in Nat
  BY TokenSpendAssumption
<1>2. UNCHANGED <<cards, receipts, now>>
  BY DEF reconcile_provider_event
<1>3. CASE /\ found = {}
           /\ charges' = charges \cup {charge("orphaned")}
           /\ alerts' = alerts \cup {<<"none", "orphaned_provider_charge">>}
           /\ UNCHANGED <<policy, reservation>>
  <2>1. charge("orphaned").status = "orphaned" /\ charge("orphaned").cost \in Nat
    BY <1>1
  <2> HIDE DEF charge
  <2> QED
    BY <1>2, <1>3, <2>1, OrphanKeeps
<1>4. ASSUME NEW pk \in found,
             LET p == pk[1]
                 k == pk[2]
                 verdict == Verdict(reservation[p][k].actual, cost)
             IN  /\ charges' = charges \cup {charge(verdict)}
                 /\ reservation' = [reservation EXCEPT ![p][k].reconciliation = verdict]
                 /\ IF verdict = "disputed"
                    THEN /\ policy' = Paused(p)
                         /\ alerts' = alerts \cup {<<p, "provider_reconciliation_mismatch">>}
                    ELSE UNCHANGED <<policy, alerts>>
      PROVE  SpendIInv'
  <2>1. PICK p \in Policies, k \in SpendKeys : pk = <<p, k>>
    BY <1>4 DEF Charged
  <2>2. pk[1] = p /\ pk[2] = k
    BY <2>1
  <2>3. PICK verdict : verdict = Verdict(reservation[p][k].actual, cost)
    OBVIOUS
  <2>4. PICK c : c = charge(verdict)
    OBVIOUS
  <2>5. /\ c.status = verdict /\ c.cost = cost /\ c.provider = provider /\ c.request = request
    BY <2>4
  <2>6. /\ k \in FinalizedKeys(p) /\ reservation[p][k].route.provider = provider
        /\ reservation[p][k].request = request
    BY <1>4, <2>2 DEF Charged, FinalizedKeys
  <2>7. /\ charges' = charges \cup {c}
        /\ reservation' = [reservation EXCEPT ![p][k].reconciliation = verdict]
        /\ IF verdict = "disputed"
           THEN /\ policy' = Paused(p)
                /\ alerts' = alerts \cup {<<p, "provider_reconciliation_mismatch">>}
           ELSE UNCHANGED <<policy, alerts>>
    BY <1>4, <2>2, <2>3, <2>4
  <2> QED
    BY <1>1, <1>2, <2>3, <2>5, <2>6, <2>7, ChargeKeeps
<1> QED
  BY <1>3, <1>4 DEF reconcile_provider_event

-----------------------------------------------------------------------------
(* The theorems. *)

\* Every step preserves the invariant.
LEMMA SpendNextIInv == SpendIInv /\ [SpendNext]_spendVars => SpendIInv'
<1> SUFFICES ASSUME SpendIInv, [SpendNext]_spendVars PROVE SpendIInv'
  OBVIOUS
<1>1. CASE UNCHANGED spendVars
  <2>1. SpendTablesOK'
    BY <1>1 DEF SpendIInv, SpendTablesOK, spendVars
  <2> QED
    BY <1>1, <2>1, PolicyStep DEF spendVars
<1>2. CASE SpendNext
  BY <1>2, PutRateCardKeeps, CreatePolicyKeeps, EmergencyStopKeeps, PreflightKeeps,
     FinalizeKeeps, ReconcileKeeps, TickKeeps DEF SpendNext
<1> QED
  BY <1>1, <1>2

\* The tables hold rows of their types, each finalized call has a request id of
\* its own, and the four statements below hold together: the inductive invariant
\* of the token spend controls.
THEOREM TokenSpendInvariant == SpendSpec => []SpendIInv
BY SpendInitIInv, SpendNextIInv, PTL DEF SpendSpec

\* The columns and statuses of every table are of their types.
THEOREM TokenSpendTypeCorrect == SpendSpec => []SpendTypeOK
<1>1. SpendIInv => SpendTypeOK
  BY DEF SpendIInv, SpendTablesOK, SpendTypeOK, PolicyType, Row, NoReservation
<1> QED
  BY <1>1, TokenSpendInvariant, PTL

\* The budget columns are the sums over the reservations, for every history of
\* preflight, finalize_usage and reconciliation: MAX(0, ...) never hides a
\* difference.
THEOREM ColumnsStayTheReservations == SpendSpec => []ColumnsAreTheReservations
BY TokenSpendInvariant, PTL DEF SpendIInv

\* A policy with anything against it is not active (finalize_usage,
\* reconcile_provider_event, emergency_stop), and what it holds stays within its
\* budget up to the metered overrun.
THEOREM SpendingFailsClosed == SpendSpec => []FailClosed
BY TokenSpendInvariant, PTL DEF SpendIInv

\* Every receipt charges the metered tokens at the card the call was reserved
\* with, whose text was reached by then: less than one micro dollar off, and
\* never too little below 2^53 millionths of one (preflight, calculate_cost).
THEOREM CallsAreChargedAsReserved == SpendSpec => []ChargedAsReserved
BY TokenSpendInvariant, PTL DEF SpendIInv

\* The reconciliation of a call is the verdict of one of its charges, and a
\* confirmed charge is within the tolerance (reconcile_provider_event).
THEOREM ChargesStayMatched == SpendSpec => []ChargesAreMatched
BY TokenSpendInvariant, PTL DEF SpendIInv

-----------------------------------------------------------------------------
(***************************************************************************)
(* Service contracts, their receipts and reputation.                       *)
(***************************************************************************)

Slots == Types \X Ids \X Executions

\* The steps of the handlers.
Steps == {"idle", "receipt", "execute", "deliver", "judge", "score", "final", "insert"}

\* What a payment receipt may say.
PaymentType ==
    [status : {"paid", "finalized"}, auth : DOMAIN Tenant, agent : Agents, price : Nat,
     debit : Nat, execution : Executions,
     endpoint : {q.endpoint : q \in Calls} \cup {"unknown", "recovery"},
     delivery : [status : {d.status : d \in Deliveries} \cup {"none", "delivery_unknown"},
                 latency : Nat]]

\* The tables of contracts and payments.
TablesOK ==
    /\ contract \in [Ids -> {Terms[c] : c \in Ids} \cup {NoForm}]
    /\ \A c \in Ids : contract[c] # NoForm => contract[c] = Terms[c]
    /\ payment \in [Keys -> PaymentType \cup {NoPayment}]
    /\ \A q \in Calls : payment[q.key] # NoPayment => payment[q.key].auth = q.auth
    /\ \A k \in Keys : payment[k] # NoPayment =>
         payment[k].debit <= DebitCeiling(payment[k].price, payment[k].auth)
    /\ expired \subseteq Ids /\ revoked \subseteq DOMAIN Tenant

\* The outcomes that are recorded were asked for, and are of finalized payments.
OutcomesOK ==
    /\ outcome \in [Keys -> {Told(o) : o \in Outcomes} \cup {NoOutcome}]
    /\ \A k \in Keys : outcome[k] # NoOutcome => payment[k].status = "finalized"

\* A receipt is stored under its own type, contract and execution.
SlotsHold ==
    /\ fable \in [Slots -> Seq(Receipts)]
    /\ \A s \in Slots : \A i \in DOMAIN fable[s] : Slot(fable[s][i]) = s

\* A call may be paid under its contract.
Permitted(q) ==
    /\ q.contract \in Ids /\ contract[q.contract] # NoForm
    /\ q.price <= contract[q.contract].price
    /\ \E a \in OfType("execution_authorization") :
         /\ a.contract = q.contract /\ a.execution = q.execution /\ a.auth = q.auth
         /\ a.body.agent = q.agent /\ a.body.price = q.price

\* A call is paid, by this or another execution of it.
Settled(q) ==
    /\ payment[q.key] # NoPayment
    /\ SameCall(q)

\* An outcome was found to be about this contract, and evaluated with a delivery
\* verdict that is on record.
Judged(o, result) ==
    /\ o \in Outcomes /\ o.contract \in Ids /\ contract[o.contract] # NoForm
    /\ payment[o.key].status = "finalized"
    /\ Tenant[payment[o.key].auth] = contract[o.contract].tenant
    /\ payment[o.key].agent = contract[o.contract].agent
    /\ payment[o.key].endpoint = contract[o.contract].endpoint
    /\ contract[o.contract].selfVerify \/ o.validator # contract[o.contract].agent
    /\ \E d \in OfType("delivery_verdict") :
         /\ d.contract = o.contract /\ d.key = o.key
         /\ result = evaluate_validator_outcome(contract[o.contract], o, d.body)

\* What a worker knows at its step.
JobIsTrue(w) ==
    LET v == job[w] IN
    /\ v.at \in Steps
    /\ v.at = "idle" => v = Idle
    /\ v.at = "receipt" => v.contract \in Ids
    /\ v.at \in {"execute", "deliver", "judge"} =>
         /\ v.call \in Calls
         /\ v.call.contract # NoContract => Permitted(v.call)
    /\ v.at \in {"deliver", "judge"} => Settled(v.call)
    /\ v.at = "judge" =>
         v.call.contract # NoContract /\ payment[v.call.key].status = "finalized"
    /\ v.at \in {"score", "final", "insert"} => Judged(v.outcome, v.result)
    /\ v.at \in {"final", "insert"} => outcome[v.outcome.key] = Told(v.outcome)

\* A delivery verdict is about a finalized payment, made under an authority, and
\* blocks what was not delivered or late.
DeliveryIsTrue(r) ==
    /\ r.contract \in Ids /\ contract[r.contract] # NoForm /\ r.key \in Keys
    /\ payment[r.key].status = "finalized"
    /\ payment[r.key].execution = r.execution /\ payment[r.key].auth = r.auth
    /\ payment[r.key].price <= contract[r.contract].price
    /\ \E a \in OfType("execution_authorization") :
         /\ a.contract = r.contract /\ a.execution = r.execution /\ a.auth = r.auth
         /\ a.body.agent = payment[r.key].agent /\ a.body.price = payment[r.key].price
    /\ r.body.status \in Verdicts
    /\ payment[r.key].delivery.status # "delivered" => "undelivered" \in r.body.blockers
    /\ payment[r.key].delivery.latency > contract[r.contract].deadline =>
         "late" \in r.body.blockers

\* A final verdict is the evaluation of the outcome that is recorded.
FinalIsTrue(r) ==
    \E o \in Outcomes :
        /\ Judged(o, r.body)
        /\ r = FinalVerdict(o, r.body)
        /\ outcome[o.key] = Told(o)

ReceiptIsTrue(r) ==
    /\ r.type = "delivery_verdict" => DeliveryIsTrue(r)
    /\ r.type = "final_sla_verdict" => FinalIsTrue(r)

\* An agent has finitely many payments with an outcome, and counters of numbers.
CountersOK ==
    /\ reputation \in [Agents -> [verified : Nat, successful : Nat, failed : Nat,
                                  paid : Nat, latency : Nat, quality : Nat]]
    /\ \A a \in Agents : IsFiniteSet(Validated(a))

IInv ==
    /\ TablesOK /\ OutcomesOK /\ SlotsHold
    /\ job \in [Workers -> {job[w] : w \in Workers}]
    /\ \A w \in Workers : JobIsTrue(w)
    /\ \A r \in Receipts : ReceiptIsTrue(r)
    /\ OneStoryPerExecution
    /\ CountersOK /\ ReputationIsTheOutcomes

-----------------------------------------------------------------------------
(* The table of receipts as a set. *)

\* A receipt is in the table when it is in one of the slots.
LEMMA InTheTable ==
    ASSUME SlotsHold
    PROVE  /\ \A s \in Slots : \A i \in DOMAIN fable[s] : fable[s][i] \in Receipts
           /\ \A r \in Receipts : Slot(r) \in Slots
           /\ \A r \in Receipts : \E i \in DOMAIN fable[Slot(r)] : fable[Slot(r)][i] = r
<1>1. DOMAIN fable = Slots
  BY DEF SlotsHold
<1>2. \A r : r \in Receipts <=> \E s \in Slots : \E i \in DOMAIN fable[s] : r = fable[s][i]
  BY <1>1 DEF Receipts
<1> QED
  BY <1>2 DEF SlotsHold

\* What issue finds: nothing, and then there is no receipt of the execution, or
\* the oldest one.
LEMMA LookedUp ==
    ASSUME SlotsHold, NEW r, Slot(r) \in Slots
    PROVE  /\ Lookup(r) = <<>> => \A x \in Receipts : Slot(x) # Slot(r)
           /\ Lookup(r) # <<>> =>
                Head(Lookup(r)) \in Receipts /\ Slot(Head(Lookup(r))) = Slot(r)
<1>1. Lookup(r) = fable[Slot(r)] /\ fable[Slot(r)] \in Seq(Receipts)
  BY DEF Lookup, SlotsHold
<1>2. ASSUME Lookup(r) = <<>>, NEW x \in Receipts, Slot(x) = Slot(r) PROVE FALSE
  <2>1. PICK i \in DOMAIN fable[Slot(x)] : fable[Slot(x)][i] = x
    BY <1>2, InTheTable
  <2>2. i \in DOMAIN fable[Slot(r)] /\ fable[Slot(r)] = <<>>
    BY <1>1, <1>2, <2>1
  <2> QED
    BY <2>2
<1>3. ASSUME Lookup(r) # <<>>
      PROVE  Head(Lookup(r)) \in Receipts /\ Slot(Head(Lookup(r))) = Slot(r)
  <2>1. 1 \in DOMAIN fable[Slot(r)] /\ Head(Lookup(r)) = fable[Slot(r)][1]
    BY <1>1, <1>3
  <2> QED
    BY <2>1, InTheTable DEF SlotsHold
<1> QED
  BY <1>2, <1>3

\* An INSERT adds one receipt.
LEMMA Inserted ==
    ASSUME SlotsHold, NEW r, Slot(r) \in Slots,
           fable' = [fable EXCEPT ![Slot(r)] = Append(fable[Slot(r)], r)]
    PROVE  SlotsHold' /\ Receipts' = Receipts \cup {r}
<1>1. PICK t \in Slots : t = Slot(r)
  OBVIOUS
<1>2. DEFINE old == fable[t]
             new == Append(fable[t], r)
<1>3. fable \in [Slots -> Seq(Receipts)] /\ old \in Seq(Receipts)
  BY <1>1 DEF SlotsHold
<1>4. fable' \in [Slots -> Seq(Receipts \cup {r})]
  <2>1. new \in Seq(Receipts \cup {r})
    <3>1. old \in Seq(Receipts \cup {r})
      BY <1>3
    <3> QED
      BY <3>1
  <2>2. \A s \in Slots : fable[s] \in Seq(Receipts \cup {r})
    BY <1>3
  <2> QED
    BY <1>1, <1>3, <2>1, <2>2
<1>5. /\ fable'[t] = new
      /\ \A s \in Slots \ {t} : fable'[s] = fable[s]
  BY <1>1, <1>3
<1>6. /\ DOMAIN new = DOMAIN old \cup {Len(old) + 1} /\ Len(old) + 1 \notin DOMAIN old
      /\ new[Len(old) + 1] = r /\ \A i \in DOMAIN old : new[i] = old[i]
  BY <1>3
<1> HIDE DEF new
<1>7. ASSUME NEW s \in Slots, NEW i \in DOMAIN fable'[s]
      PROVE  Slot(fable'[s][i]) = s /\ fable'[s][i] \in Receipts \cup {r}
  <2>1. CASE s # t
    BY <1>5, <1>7, <2>1, InTheTable DEF SlotsHold
  <2>2. CASE s = t
    BY <1>1, <1>5, <1>6, <1>7, <2>2, InTheTable DEF SlotsHold
  <2> QED
    BY <2>1, <2>2
<1>8. ASSUME NEW x \in Receipts \cup {r}
      PROVE  \E s \in Slots : \E i \in DOMAIN fable'[s] : x = fable'[s][i]
  <2>1. CASE x = r
    BY <1>5, <1>6, <2>1
  <2>2. CASE x \in Receipts
    <3>1. PICK i \in DOMAIN fable[Slot(x)] : fable[Slot(x)][i] = x
      BY <2>2, InTheTable
    <3>2. PICK s \in Slots : s = Slot(x)
      BY <2>2, InTheTable
    <3> QED
      BY <1>5, <1>6, <3>1, <3>2
  <2> QED
    BY <1>8, <2>1, <2>2
<1>9. DOMAIN fable' = Slots
  BY <1>4
<1>10. Receipts' = Receipts \cup {r}
  <2>1. \A x : x \in Receipts' <=> \E s \in Slots : \E i \in DOMAIN fable'[s] : x = fable'[s][i]
    BY <1>9 DEF Receipts
  <2> QED
    BY <1>7, <1>8, <2>1
<1> QED
  BY <1>4, <1>7, <1>10 DEF SlotsHold

\* issue leaves the table alone, or adds a receipt where there was none.
LEMMA Issued ==
    ASSUME SlotsHold, NEW r, Slot(r) \in Slots, issue(r)
    PROVE  /\ SlotsHold'
           /\ \/ /\ Receipts' = Receipts /\ fable' = fable
                 /\ Lookup(r) # <<>>
              \/ /\ Receipts' = Receipts \cup {r}
                 /\ \A x \in Receipts : Slot(x) # Slot(r)
<1>1. CASE Lookup(r) # <<>>
  <2>1. fable' = fable
    BY <1>1 DEF issue
  <2>2. Receipts' = Receipts /\ SlotsHold'
    BY <2>1 DEF Receipts, SlotsHold
  <2> QED
    BY <1>1, <2>1, <2>2
<1>2. CASE Lookup(r) = <<>>
  <2>1. fable[Slot(r)] = <<>> /\ Append(<<>>, r) = <<r>>
    BY <1>2 DEF Lookup
  <2>2. fable' = [fable EXCEPT ![Slot(r)] = Append(fable[Slot(r)], r)]
    BY <1>2, <2>1 DEF issue
  <2> QED
    BY <1>2, <2>2, Inserted, LookedUp
<1> QED
  BY <1>1, <1>2

-----------------------------------------------------------------------------
(* What is on record stays on record. *)

\* Contracts are not changed, receipts not removed, outcomes not replaced, and a
\* payment keeps who made it, to whom and for how much; a finalized one is final.
Grows ==
    /\ \A c \in Ids : contract[c] # NoForm => contract'[c] = contract[c]
    /\ Receipts \subseteq Receipts'
    /\ \A k \in Keys : payment[k] # NoPayment =>
         /\ payment'[k] # NoPayment
         /\ payment'[k].auth = payment[k].auth /\ payment'[k].agent = payment[k].agent
         /\ payment'[k].price = payment[k].price /\ payment'[k].debit = payment[k].debit
         /\ payment'[k].execution = payment[k].execution
         /\ payment[k].status = "finalized" => payment'[k] = payment[k]
    /\ \A k \in Keys : outcome[k] # NoOutcome => outcome'[k] = outcome[k]

\* The requests name keys, contracts and authorizations that exist.
LEMMA CallNames ==
    ASSUME NEW q \in Calls
    PROVE  /\ q.key \in Keys /\ q.agent \in Agents /\ q.execution \in Executions
           /\ q.auth \in DOMAIN Tenant /\ q.contract \in Ids \cup {NoContract}
           /\ q.price \in Nat
BY ContractsAssumption DEF Keys, Agents, Executions

\* The outcomes as well.
LEMMA OutcomeNames ==
    ASSUME NEW o \in Outcomes
    PROVE  /\ o.key \in Keys /\ o.contract \in Ids \cup {NoContract}
           /\ o.quality \in Nat /\ o.latency \in Nat /\ Told(o) # NoOutcome
<1>1. /\ DOMAIN Told(o) = {"validator", "success", "quality", "latency", "evidence"}
      /\ DOMAIN NoOutcome = {"validator"}
  BY DEF Told, NoOutcome
<1>2. "success" \in DOMAIN Told(o) /\ "success" \notin DOMAIN NoOutcome
  BY <1>1
<1> QED
  BY <1>2, ContractsAssumption

\* A finalized payment is a payment, and stays as it is.
LEMMA FinalizedStays ==
    ASSUME Grows, NEW k \in Keys, payment[k].status = "finalized"
    PROVE  payment[k] # NoPayment /\ payment'[k] = payment[k]
BY DEF Grows, NoPayment

\* A permission stays.
LEMMA PermittedStays ==
    ASSUME Grows, NEW q \in Calls, Permitted(q) PROVE Permitted(q)'
<1>1. PICK a \in OfType("execution_authorization") :
        /\ a.contract = q.contract /\ a.execution = q.execution /\ a.auth = q.auth
        /\ a.body.agent = q.agent /\ a.body.price = q.price
  BY DEF Permitted
<1>2. a \in OfType("execution_authorization")'
  BY DEF OfType, Grows
<1>3. contract'[q.contract] = contract[q.contract]
  BY DEF Permitted, Grows
<1> QED
  BY <1>1, <1>2, <1>3 DEF Permitted

\* A payment stays that of the call.
LEMMA SettledStays ==
    ASSUME Grows, NEW q \in Calls, Settled(q) PROVE Settled(q)'
BY CallNames DEF Grows, Settled, SameCall

\* The evaluation of an outcome stays right.
LEMMA JudgedStays ==
    ASSUME Grows, NEW o, NEW result, Judged(o, result) PROVE Judged(o, result)'
<1>1. PICK d \in OfType("delivery_verdict") :
        /\ d.contract = o.contract /\ d.key = o.key
        /\ result = evaluate_validator_outcome(contract[o.contract], o, d.body)
  BY DEF Judged
<1>2. d \in OfType("delivery_verdict")'
  BY DEF OfType, Grows
<1>3. contract'[o.contract] = contract[o.contract]
  BY DEF Judged, Grows
<1>4. payment'[o.key] = payment[o.key]
  BY OutcomeNames, FinalizedStays DEF Judged
<1> QED
  BY <1>1, <1>2, <1>3, <1>4 DEF Judged

\* A delivery verdict stays right.
LEMMA DeliveryStays ==
    ASSUME Grows, NEW r, DeliveryIsTrue(r) PROVE DeliveryIsTrue(r)'
<1>1. PICK a \in OfType("execution_authorization") :
        /\ a.contract = r.contract /\ a.execution = r.execution /\ a.auth = r.auth
        /\ a.body.agent = payment[r.key].agent /\ a.body.price = payment[r.key].price
  BY DEF DeliveryIsTrue
<1>2. a \in OfType("execution_authorization")'
  BY DEF OfType, Grows
<1>3. contract'[r.contract] = contract[r.contract]
  BY DEF DeliveryIsTrue, Grows
<1>4. payment'[r.key] = payment[r.key]
  BY FinalizedStays DEF DeliveryIsTrue
<1> QED
  BY <1>1, <1>2, <1>3, <1>4 DEF DeliveryIsTrue

\* A final verdict stays right.
LEMMA FinalStays ==
    ASSUME Grows, NEW r, FinalIsTrue(r) PROVE FinalIsTrue(r)'
<1>1. PICK o \in Outcomes : /\ Judged(o, r.body) /\ r = FinalVerdict(o, r.body)
                            /\ outcome[o.key] = Told(o)
  BY DEF FinalIsTrue
<1>2. Judged(o, r.body)'
  BY <1>1, JudgedStays
<1>3. payment'[o.key] = payment[o.key]
  BY <1>1, OutcomeNames, FinalizedStays DEF Judged
<1>4. outcome'[o.key] = outcome[o.key]
  BY <1>1, OutcomeNames DEF Grows
<1>5. FinalVerdict(o, r.body)' = FinalVerdict(o, r.body)
  BY <1>3 DEF FinalVerdict, Receipt
<1> QED
  BY <1>1, <1>2, <1>4, <1>5 DEF FinalIsTrue

\* A receipt stays right.
LEMMA ReceiptStays ==
    ASSUME Grows, NEW r, ReceiptIsTrue(r) PROVE ReceiptIsTrue(r)'
BY DeliveryStays, FinalStays DEF ReceiptIsTrue

\* What a worker knows stays right while it waits.
LEMMA JobStays ==
    ASSUME Grows, NEW w \in Workers, JobIsTrue(w), job'[w] = job[w] PROVE JobIsTrue(w)'
<1>1. PICK v : v = job[w]
  OBVIOUS
<1>2. v.at \in {"execute", "deliver", "judge"} /\ v.call.contract # NoContract =>
        Permitted(v.call)'
  BY <1>1, PermittedStays DEF JobIsTrue
<1>3. v.at \in {"deliver", "judge"} => Settled(v.call)'
  BY <1>1, SettledStays DEF JobIsTrue
<1>4. v.at = "judge" => payment'[v.call.key].status = "finalized"
  BY <1>1, CallNames, FinalizedStays DEF JobIsTrue
<1>5. v.at \in {"score", "final", "insert"} => Judged(v.outcome, v.result)'
  BY <1>1, JudgedStays DEF JobIsTrue
<1>6. v.at \in {"final", "insert"} => outcome'[v.outcome.key] = Told(v.outcome)
  BY <1>1, OutcomeNames DEF JobIsTrue, Judged, Grows
<1> QED
  BY <1>1, <1>2, <1>3, <1>4, <1>5, <1>6 DEF JobIsTrue

\* The invariant after a step: what the step must show.
LEMMA Keeps ==
    ASSUME IInv, Grows, TablesOK', OutcomesOK', SlotsHold', CountersOK',
           ReputationIsTheOutcomes', OneStoryPerExecution',
           job' \in [Workers -> {job'[x] : x \in Workers}],
           \A x \in Workers : job'[x] = job[x] \/ JobIsTrue(x)',
           \A r \in Receipts' : r \in Receipts \/ ReceiptIsTrue(r)'
    PROVE  IInv'
<1>1. \A x \in Workers : JobIsTrue(x)'
  BY JobStays DEF IInv
<1>2. \A r \in Receipts' : ReceiptIsTrue(r)'
  BY ReceiptStays DEF IInv
<1> QED
  BY <1>1, <1>2 DEF IInv

\* Go moves one worker.
LEMMA Going ==
    ASSUME IInv, NEW w \in Workers, NEW v, Go(w, v)
    PROVE  /\ job' \in [Workers -> {job'[x] : x \in Workers}]
           /\ job'[w] = v /\ \A x \in Workers \ {w} : job'[x] = job[x]
<1>1. job \in [Workers -> {job[x] : x \in Workers}]
  BY DEF IInv
<1>2. job' = [x \in Workers |-> IF x = w THEN v ELSE job[x]]
  BY <1>1 DEF Go
<1> QED
  BY <1>2

\* A step that records no outcome leaves the reputations right.
LEMMA ReputationStays ==
    ASSUME IInv, Grows, UNCHANGED <<outcome, reputation>>
    PROVE  OutcomesOK' /\ CountersOK' /\ ReputationIsTheOutcomes'
<1>1. OutcomesOK /\ CountersOK /\ ReputationIsTheOutcomes
  BY DEF IInv
<1>2. \A k \in Keys : outcome[k] # NoOutcome => payment'[k] = payment[k]
  BY <1>1, FinalizedStays DEF OutcomesOK
<1>3. OutcomesOK'
  BY <1>1, <1>2 DEF OutcomesOK
<1>4. ASSUME NEW a \in Agents
      PROVE  /\ Validated(a)' = Validated(a) /\ Won(a)' = Won(a) /\ Lost(a)' = Lost(a)
             /\ [k \in Validated(a)' |-> payment'[k].debit] =
                  [k \in Validated(a) |-> payment[k].debit]
             /\ [k \in Validated(a)' |-> outcome'[k].latency] =
                  [k \in Validated(a) |-> outcome[k].latency]
             /\ [k \in Validated(a)' |-> outcome'[k].quality] =
                  [k \in Validated(a) |-> outcome[k].quality]
  <2>1. Validated(a)' = Validated(a)
    BY <1>2 DEF Validated
  <2>2. Won(a)' = Won(a)
    BY <2>1 DEF Won
  <2>3. \A k \in Validated(a) : payment'[k] = payment[k]
    BY <1>2 DEF Validated
  <2> QED
    BY <2>1, <2>2, <2>3 DEF Lost
<1>5. CountersOK'
  BY <1>1, <1>4 DEF CountersOK
<1>6. ReputationIsTheOutcomes'
  BY <1>1, <1>4 DEF ReputationIsTheOutcomes
<1> QED
  BY <1>3, <1>5, <1>6

\* One receipt more, and no other story.
LEMMA OneMore ==
    ASSUME IInv, NEW r, Receipts' = Receipts \cup {r},
           \A x \in Receipts : Slot(x) = Slot(r) => x = r
    PROVE  OneStoryPerExecution'
BY DEF IInv, OneStoryPerExecution

\* A step that leaves the receipts alone.
LEMMA SameReceipts ==
    ASSUME IInv, fable' = fable
    PROVE  Receipts' = Receipts /\ SlotsHold' /\ OneStoryPerExecution'
<1>1. Receipts' = Receipts
  BY DEF Receipts
<1> QED
  BY <1>1 DEF IInv, SlotsHold, OneStoryPerExecution

\* A step that leaves contracts and payments alone.
LEMMA SameTables ==
    ASSUME IInv, UNCHANGED <<contract, expired, revoked, payment>> PROVE TablesOK'
BY DEF IInv, TablesOK

\* A step of a worker that writes nothing.
LEMMA OnlyGoes ==
    ASSUME IInv, NEW w \in Workers, NEW v, Go(w, v), JobIsTrue(w)',
           UNCHANGED <<contract, expired, revoked, payment, fable, outcome, reputation>>
    PROVE  IInv'
<1>1. Receipts' = Receipts /\ SlotsHold' /\ OneStoryPerExecution' /\ TablesOK'
  BY SameReceipts, SameTables
<1>2. Grows
  BY <1>1 DEF Grows
<1> QED
  BY <1>1, <1>2, Going, ReputationStays, Keeps

\* A worker has nothing to do.
LEMMA IdleIsTrue ==
    ASSUME NEW w \in Workers, job'[w] = Idle PROVE JobIsTrue(w)'
BY DEF JobIsTrue, Idle, Steps

\* A step of a worker that adds at most one receipt.
LEMMA GoesAndIssues ==
    ASSUME IInv, NEW w \in Workers, NEW v, Go(w, v), NEW r, Slot(r) \in Slots, issue(r),
           UNCHANGED <<contract, expired, revoked, payment, outcome, reputation>>,
           Grows => JobIsTrue(w)', Grows => ReceiptIsTrue(r)'
    PROVE  IInv'
<1>1. SlotsHold
  BY DEF IInv
<1>2. /\ SlotsHold'
      /\ \/ Receipts' = Receipts /\ fable' = fable
         \/ /\ Receipts' = Receipts \cup {r}
            /\ \A x \in Receipts : Slot(x) # Slot(r)
  BY <1>1, Issued
<1>3. OneStoryPerExecution'
  BY <1>2, SameReceipts, OneMore
<1>4. Grows
  BY <1>2 DEF Grows
<1>5. \A x \in Receipts' : x \in Receipts \/ ReceiptIsTrue(x)'
  BY <1>2, <1>4
<1>6. TablesOK'
  BY SameTables
<1> QED
  BY <1>2, <1>3, <1>4, <1>5, <1>6, Going, ReputationStays, Keeps

-----------------------------------------------------------------------------
(* The steps. *)

\* create writes a contract that was not there.
LEMMA CreateStep ==
    ASSUME IInv, NEW w \in Workers, NEW c \in Ids, create(w, c) PROVE IInv'
<1>1. TablesOK
  BY DEF IInv
<1>2. contract' = [contract EXCEPT ![c] = Terms[c]] /\ contract[c] = NoForm
  BY DEF create
<1>3. TablesOK'
  BY <1>1, <1>2 DEF create, TablesOK
<1>4. fable' = fable /\ UNCHANGED <<payment, outcome, reputation>>
  BY DEF create
<1>5. Receipts' = Receipts /\ SlotsHold' /\ OneStoryPerExecution'
  BY <1>4, SameReceipts
<1>6. Grows
  BY <1>1, <1>2, <1>4, <1>5 DEF Grows, TablesOK
<1>7. PICK v : v = [at |-> "receipt", contract |-> c]
  OBVIOUS
<1>8. Go(w, v)
  BY <1>7 DEF create
<1>9. JobIsTrue(w)'
  BY <1>7, <1>8, Going DEF JobIsTrue, Steps
<1> QED
  BY <1>3, <1>4, <1>5, <1>6, <1>8, <1>9, Going, ReputationStays, Keeps

\* The receipt of a contract.
LEMMA ContractReceiptStep ==
    ASSUME IInv, NEW w \in Workers, issue_contract_receipt(w) PROVE IInv'
<1>1. JobIsTrue(w)
  BY DEF IInv
<1>2. PICK c \in Ids : c = job[w].contract
  BY <1>1 DEF issue_contract_receipt, JobIsTrue
<1>3. PICK r : r = ContractReceipt(c)
  OBVIOUS
<1>4. r.type = "service_contract" /\ Slot(r) = <<"service_contract", c, "contract">>
  BY <1>3 DEF ContractReceipt, Receipt, Slot
<1>5. Slot(r) \in Slots
  BY <1>4 DEF Slots, Types, Executions
<1>6. ReceiptIsTrue(r)'
  BY <1>4 DEF ReceiptIsTrue
<1>7. JobIsTrue(w)'
  BY Going, IdleIsTrue DEF issue_contract_receipt, Done
<1> QED
  BY <1>2, <1>3, <1>5, <1>6, <1>7, GoesAndIssues DEF issue_contract_receipt, Done

\* Expire and Revoke only watch the clock and the authorizations.
LEMMA ClockStep ==
    ASSUME IInv, (\E c \in Ids : Expire(c)) \/ (\E a \in DOMAIN Tenant : Revoke(a))
    PROVE  IInv'
<1>1. UNCHANGED <<contract, payment, fable, outcome, reputation, job>>
  BY DEF Expire, Revoke
<1>2. TablesOK'
  BY DEF IInv, TablesOK, Expire, Revoke
<1>3. Receipts' = Receipts /\ SlotsHold' /\ OneStoryPerExecution'
  BY <1>1, SameReceipts
<1>4. Grows
  BY <1>1, <1>3 DEF Grows
<1>5. job' \in [Workers -> {job'[x] : x \in Workers}]
  BY <1>1 DEF IInv
<1> QED
  BY <1>1, <1>2, <1>3, <1>4, <1>5, ReputationStays, Keeps

\* A crash ends every handler.
LEMMA CrashStep == ASSUME IInv, Crash PROVE IInv'
<1>1. UNCHANGED <<contract, expired, revoked, payment, fable, outcome, reputation>>
  BY DEF Crash
<1>2. Receipts' = Receipts /\ SlotsHold' /\ OneStoryPerExecution' /\ TablesOK'
  BY <1>1, SameReceipts, SameTables
<1>3. Grows
  BY <1>1, <1>2 DEF Grows
<1>4. job' = [x \in Workers |-> Idle]
  BY DEF Crash
<1>5. /\ job' \in [Workers -> {job'[x] : x \in Workers}]
      /\ \A x \in Workers : JobIsTrue(x)'
  BY <1>4, IdleIsTrue
<1> QED
  BY <1>1, <1>2, <1>3, <1>5, ReputationStays, Keeps

\* The authority receipt is on record when the paid call begins.
LEMMA AuthorizeStep ==
    ASSUME IInv, NEW w \in Workers, NEW q \in Calls, Authorize(w, q) PROVE IInv'
<1>1. PICK r : r = AuthorityReceipt(q)
  OBVIOUS
<1>2. /\ r.type = "execution_authorization" /\ r.contract = q.contract
      /\ r.execution = q.execution /\ r.auth = q.auth
      /\ r.body.agent = q.agent /\ r.body.price = q.price
  BY <1>1 DEF AuthorityReceipt, Receipt
<1>3. q.contract \in Ids /\ q.execution \in Executions
  BY CallNames DEF Authorize
<1>4. Slot(r) \in Slots
  BY <1>2, <1>3 DEF Slot, Slots, Types
<1>5. issue(r) /\ ~Conflict(r)
  BY <1>1 DEF Authorize
<1>6. r \in Receipts'
  <2>1. SlotsHold
    BY DEF IInv
  <2> QED
    BY <1>4, <1>5, <2>1, Issued, LookedUp DEF Conflict
<1>7. Permitted(q)'
  <2>1. r \in OfType("execution_authorization")'
    BY <1>2, <1>6 DEF OfType
  <2>2. contract' = contract /\ contract[q.contract] # NoForm
        /\ q.price <= contract[q.contract].price
    BY DEF Authorize, validate_paid_call
  <2> QED
    BY <1>2, <1>3, <2>1, <2>2 DEF Permitted
<1>8. PICK v : v = [at |-> "execute", call |-> q]
  OBVIOUS
<1>9. Go(w, v)
  BY <1>8 DEF Authorize
<1>10. JobIsTrue(w)'
  BY <1>7, <1>8, <1>9, Going DEF JobIsTrue, Steps
<1>11. ReceiptIsTrue(r)'
  BY <1>2 DEF ReceiptIsTrue
<1> QED
  BY <1>4, <1>5, <1>9, <1>10, <1>11, GoesAndIssues DEF Authorize

\* A call without a contract begins.
LEMMA AgentCallStep ==
    ASSUME IInv, NEW w \in Workers, NEW q \in Calls, AgentCall(w, q) PROVE IInv'
<1>1. PICK v : v = [at |-> "execute", call |-> q]
  OBVIOUS
<1>2. Go(w, v)
  BY <1>1 DEF AgentCall
<1>3. JobIsTrue(w)'
  BY <1>1, <1>2, Going DEF JobIsTrue, Steps, AgentCall
<1> QED
  BY <1>2, <1>3, OnlyGoes DEF AgentCall

\* A worker gives up.
LEMMA RefuseStep ==
    ASSUME IInv, NEW w \in Workers, Refuse(w) PROVE IInv'
BY OnlyGoes, Going, IdleIsTrue DEF Refuse, Done

\* What a paid call knows when it begins.
LEMMA CallAtWork ==
    ASSUME IInv, NEW w \in Workers, job[w].at \in {"execute", "deliver", "judge"}
    PROVE  /\ job[w].call \in Calls
           /\ job[w].call.contract # NoContract => Permitted(job[w].call)
           /\ job[w].at \in {"deliver", "judge"} => Settled(job[w].call)
           /\ job[w].at = "judge" => /\ job[w].call.contract # NoContract
                                     /\ payment[job[w].call.key].status = "finalized"
BY DEF IInv, JobIsTrue

\* A payment is made once for a key.
LEMMA PayStep ==
    ASSUME IInv, NEW w \in Workers, NEW debit \in Debits, Pay(w, debit) PROVE IInv'
<1>1. PICK q \in Calls : q = job[w].call
  BY CallAtWork DEF Pay
<1>2. PICK p : p = [status |-> "paid", auth |-> q.auth, agent |-> q.agent, price |-> q.price,
                    debit |-> debit, execution |-> q.execution, endpoint |-> "unknown",
                    delivery |-> [status |-> "none", latency |-> 0]]
  OBVIOUS
<1>3. payment[q.key] = NoPayment /\ payment' = [payment EXCEPT ![q.key] = p]
  BY <1>1, <1>2 DEF Pay
<1>4. TablesOK
  BY DEF IInv
<1>5. p \in PaymentType /\ p # NoPayment
  BY <1>2, CallNames, ContractsAssumption DEF PaymentType, NoPayment
<1>6. payment' \in [Keys -> PaymentType \cup {NoPayment}]
      /\ payment'[q.key] = p /\ \A k \in Keys \ {q.key} : payment'[k] = payment[k]
  BY <1>3, <1>4, <1>5, CallNames DEF TablesOK
<1>7. \A x \in Calls : payment'[x.key] # NoPayment => payment'[x.key].auth = x.auth
  BY <1>2, <1>4, <1>6, CallNames, ContractsAssumption DEF TablesOK
<1>8. TablesOK'
  <2>1. p.debit <= DebitCeiling(p.price, p.auth)
    BY <1>1, <1>2 DEF Pay
  <2> QED
    BY <1>4, <1>6, <1>7, <2>1 DEF TablesOK, Pay
<1>9. Receipts' = Receipts /\ SlotsHold' /\ OneStoryPerExecution'
  BY SameReceipts DEF Pay
<1>10. Grows
  BY <1>3, <1>6, <1>9 DEF Grows, Pay
<1>11. PICK v : v = [at |-> "deliver", call |-> q]
  OBVIOUS
<1>12. Go(w, v)
  BY <1>1, <1>11 DEF Pay
<1>13. q.contract # NoContract => Permitted(q)'
  BY <1>1, <1>10, CallAtWork, PermittedStays DEF Pay
<1>14. Settled(q)'
  BY <1>2, <1>5, <1>6 DEF Settled, SameCall
<1>15. JobIsTrue(w)'
  BY <1>11, <1>12, <1>13, <1>14, Going DEF JobIsTrue, Steps
<1>16. UNCHANGED <<outcome, reputation>>
  BY DEF Pay
<1> QED
  BY <1>8, <1>9, <1>10, <1>12, <1>15, <1>16, Going, ReputationStays, Keeps

\* After the payment a contracted call is judged.
LEMMA AfterExecuteGoes ==
    ASSUME IInv, Grows, NEW w \in Workers, job[w].at \in {"execute", "deliver"}, NEW body,
           AfterExecute(w, body), Settled(job[w].call),
           payment'[job[w].call.key].status = "finalized"
    PROVE  (\E v : Go(w, v)) /\ JobIsTrue(w)'
<1>1. PICK q \in Calls : q = job[w].call
  BY CallAtWork
<1>2. CASE q.contract = NoContract
  <2>1. Go(w, Idle)
    BY <1>1, <1>2 DEF AfterExecute, Done
  <2> QED
    BY <2>1, Going, IdleIsTrue
<1>3. CASE q.contract # NoContract
  <2>1. PICK v : v = [at |-> "judge", call |-> q, body |-> body]
    OBVIOUS
  <2>2. Go(w, v)
    BY <1>1, <1>3, <2>1 DEF AfterExecute
  <2>3. Permitted(q)' /\ Settled(q)'
    BY <1>1, <1>3, CallAtWork, PermittedStays, SettledStays
  <2>4. JobIsTrue(w)'
    BY <1>1, <1>3, <2>1, <2>2, <2>3, Going DEF JobIsTrue, Steps
  <2> QED
    BY <2>2, <2>4
<1> QED
  BY <1>2, <1>3

\* A replay writes nothing.
LEMMA ReplayStep ==
    ASSUME IInv, NEW w \in Workers, Replay(w) PROVE IInv'
<1>1. Grows
  BY SameReceipts DEF Grows, Replay
<1>2. Settled(job[w].call) /\ payment'[job[w].call.key].status = "finalized"
  BY DEF Replay, Settled, NoPayment
<1>3. PICK body : AfterExecute(w, body)
  BY DEF Replay
<1>4. (\E v : Go(w, v)) /\ JobIsTrue(w)'
  BY <1>1, <1>2, <1>3, AfterExecuteGoes DEF Replay
<1> QED
  BY <1>4, OnlyGoes DEF Replay

\* A payment that is not final yet gets its delivery.
LEMMA FinalizedOnce ==
    ASSUME IInv, NEW key \in Keys, payment[key].status = "paid", fable' = fable,
           UNCHANGED <<contract, expired, revoked, outcome>>,
           NEW endpoint \in {q.endpoint : q \in Calls} \cup {"unknown", "recovery"},
           NEW delivery \in
             [status : {d.status : d \in Deliveries} \cup {"none", "delivery_unknown"},
              latency : Nat],
           payment' = Finalized(key, endpoint, delivery)
    PROVE  Grows /\ TablesOK' /\ payment'[key].status = "finalized"
<1>1. TablesOK /\ payment[key] # NoPayment
  BY DEF IInv, NoPayment
<1>2. payment \in [Keys -> PaymentType \cup {NoPayment}] /\ payment[key] \in PaymentType
  BY <1>1 DEF TablesOK
<1>3. PICK p : p = [payment[key] EXCEPT !.status = "finalized", !.endpoint = endpoint,
                                        !.delivery = delivery]
  OBVIOUS
<1>4. payment' = [payment EXCEPT ![key] = p]
  BY <1>2, <1>3 DEF Finalized
<1>5. /\ p \in PaymentType /\ p.status = "finalized"
      /\ p.auth = payment[key].auth /\ p.agent = payment[key].agent
      /\ p.price = payment[key].price /\ p.debit = payment[key].debit
      /\ p.execution = payment[key].execution
  BY <1>2, <1>3 DEF PaymentType
<1>6. /\ payment' \in [Keys -> PaymentType \cup {NoPayment}]
      /\ payment'[key] = p /\ \A k \in Keys \ {key} : payment'[k] = payment[k]
  BY <1>2, <1>4, <1>5
<1>7. Receipts' = Receipts
  BY SameReceipts
<1>8. p # NoPayment
  BY <1>5 DEF NoPayment
<1>9. Grows
  BY <1>5, <1>6, <1>7, <1>8 DEF Grows
<1>10. \A q \in Calls : payment'[q.key] # NoPayment => payment'[q.key].auth = q.auth
  BY <1>1, <1>5, <1>6, CallNames DEF TablesOK
<1>11. TablesOK'
  BY <1>1, <1>5, <1>6, <1>10 DEF TablesOK
<1> QED
  BY <1>5, <1>6, <1>9, <1>11

\* Deliver finalizes the payment, unless a reconciliation was faster.
LEMMA DeliverStep ==
    ASSUME IInv, NEW w \in Workers, NEW d \in Deliveries, Deliver(w, d) PROVE IInv'
<1>1. PICK q \in Calls : q = job[w].call
  BY CallAtWork DEF Deliver
<1>2. Settled(q) /\ q.key \in Keys
  BY <1>1, CallAtWork, CallNames DEF Deliver
<1>3. UNCHANGED <<contract, expired, revoked, fable, outcome, reputation>>
  BY DEF Deliver
<1>4. Grows /\ TablesOK' /\ payment'[q.key].status = "finalized"
  <2>1. CASE payment[q.key].status = "finalized"
    <3>1. payment' = payment
      BY <1>1, <2>1 DEF Deliver
    <3> QED
      BY <1>3, <2>1, <3>1, SameTables, SameReceipts DEF Grows
  <2>2. CASE payment[q.key].status # "finalized"
    <3>1. payment[q.key].status = "paid"
      BY <1>2, <2>2 DEF IInv, TablesOK, Settled, PaymentType
    <3>2. PICK delivery : delivery = [status |-> d.status, latency |-> d.latency]
      OBVIOUS
    <3>3. payment' = Finalized(q.key, q.endpoint, delivery)
      BY <1>1, <2>2, <3>2 DEF Deliver
    <3>4. delivery \in [status : {x.status : x \in Deliveries} \cup {"none", "delivery_unknown"},
                        latency : Nat]
      BY <3>2, ContractsAssumption
    <3> QED
      BY <1>2, <1>3, <3>1, <3>3, <3>4, FinalizedOnce
  <2> QED
    BY <2>1, <2>2
<1>5. PICK body : AfterExecute(w, body)
  BY DEF Deliver
<1>6. (\E v : Go(w, v)) /\ JobIsTrue(w)'
  BY <1>1, <1>2, <1>4, <1>5, AfterExecuteGoes DEF Deliver
<1> QED
  BY <1>3, <1>4, <1>6, Going, SameReceipts, ReputationStays, Keeps

\* A reconciliation finalizes without a delivery.
LEMMA ReconcileStep ==
    ASSUME IInv, NEW key \in Keys, Reconcile(key) PROVE IInv'
<1>1. PICK delivery : delivery = [status |-> "delivery_unknown", latency |-> 0]
  OBVIOUS
<1>2. delivery \in [status : {x.status : x \in Deliveries} \cup {"none", "delivery_unknown"},
                    latency : Nat]
  BY <1>1
<1>3. Grows /\ TablesOK'
  BY <1>1, <1>2, FinalizedOnce DEF Reconcile
<1>4. job' \in [Workers -> {job'[x] : x \in Workers}]
  BY DEF Reconcile, IInv
<1>5. UNCHANGED <<fable, outcome, reputation, job>>
  BY DEF Reconcile
<1> QED
  BY <1>3, <1>4, <1>5, SameReceipts, ReputationStays, Keeps

\* The delivery verdict is about the payment as it is, and under the authority
\* the call was paid with.
LEMMA JudgeStep ==
    ASSUME IInv, NEW w \in Workers, Judge(w) PROVE IInv'
<1>1. PICK q \in Calls : q = job[w].call
  BY CallAtWork DEF Judge
<1>2. /\ Permitted(q) /\ Settled(q) /\ payment[q.key].status = "finalized"
      /\ payment[q.key].auth = q.auth
  BY <1>1, CallAtWork DEF Judge, Settled, IInv, TablesOK
<1>3. PICK form, p, body : form = contract[q.contract] /\ p = payment[q.key] /\ body = job[w].body
  OBVIOUS
<1>4. PICK verdict : verdict = evaluate_delivery(form, p.delivery, body)
  OBVIOUS
<1>5. /\ verdict.status \in Verdicts
      /\ verdict.blockers = DeliveryBlockers(form, p.delivery, body)
  BY <1>4 DEF evaluate_delivery, Verdicts
<1>6. /\ p.delivery.status # "delivered" => "undelivered" \in verdict.blockers
      /\ p.delivery.latency > form.deadline => "late" \in verdict.blockers
  BY <1>5 DEF DeliveryBlockers
<1>7. PICK r : r = DeliveryVerdict(q, q.key, verdict)
  OBVIOUS
<1>8. /\ r.type = "delivery_verdict" /\ r.contract = q.contract /\ r.auth = q.auth
      /\ r.execution = q.execution /\ r.key = q.key /\ r.body = verdict
  BY <1>7 DEF DeliveryVerdict, Receipt
<1>9. q.contract \in Ids /\ q.key \in Keys /\ Slot(r) \in Slots
  BY <1>2, <1>8, CallNames DEF Permitted, Slot, Slots, Types
<1>10. Go(w, Idle) /\ JobIsTrue(w)'
  BY Going, IdleIsTrue DEF Judge, Done
<1>11. UNCHANGED <<contract, expired, revoked, payment, outcome, reputation>>
  BY DEF Judge
<1>12. CASE UNCHANGED fable
  BY <1>10, <1>11, <1>12, OnlyGoes
<1>13. CASE issue(r)
  <2>1. DeliveryIsTrue(r)
    BY <1>2, <1>3, <1>5, <1>6, <1>8, <1>9 DEF DeliveryIsTrue, Permitted, Settled, SameCall
  <2>2. Grows => ReceiptIsTrue(r)'
    BY <1>8, <2>1, DeliveryStays DEF ReceiptIsTrue
  <2> QED
    BY <1>9, <1>10, <1>11, <1>13, <2>2, GoesAndIssues
<1> QED
  BY <1>1, <1>3, <1>4, <1>7, <1>12, <1>13 DEF Judge

\* The newest delivery verdict of a payment is one that is on record.
LEMMA NewestIsOnRecord ==
    ASSUME IInv, NEW c \in Ids, NEW key \in Keys, payment[key].status = "finalized",
           find_delivery_verdict(c, key) # {}
    PROVE  /\ Newest(c, key) \in OfType("delivery_verdict")
           /\ Newest(c, key).contract = c /\ Newest(c, key).key = key
<1>1. PICK s : s = <<"delivery_verdict", c, payment[key].execution>>
  OBVIOUS
<1>2. payment[key].execution \in Executions
  BY DEF IInv, TablesOK, PaymentType, NoPayment
<1>3. s \in Slots
  BY <1>1, <1>2 DEF Slots, Types
<1>4. SlotsHold /\ fable[s] \in Seq(Receipts)
  BY <1>3 DEF IInv, SlotsHold
<1>5. PICK n \in Nat : n = Len(fable[s]) /\ DOMAIN fable[s] = 1..n
  BY <1>4
<1>6. PICK found : found = find_delivery_verdict(c, key)
  OBVIOUS
<1>7. found = {i \in DOMAIN fable[s] : fable[s][i].key = key}
  BY <1>1, <1>6 DEF find_delivery_verdict, VerdictSlot
<1>8. Max(found) \in found
  <2>1. found \in SUBSET Nat /\ found # {} /\ \A y \in found : y <= n
    BY <1>5, <1>6, <1>7
  <2>2. PICK x \in found : \A y \in found : y <= x
    BY <2>1, GreatestNatural
  <2>3. \A y \in found : x >= y
    BY <2>1, <2>2
  <2> QED
    BY <2>2 DEF Max
<1>9. PICK i \in DOMAIN fable[s] : i = Max(found) /\ fable[s][i].key = key
  BY <1>7, <1>8
<1>10. Newest(c, key) = fable[s][i]
  BY <1>1, <1>6, <1>9 DEF Newest, VerdictSlot
<1>11. fable[s][i] \in Receipts /\ Slot(fable[s][i]) = s
  BY <1>3, <1>4, InTheTable DEF SlotsHold
<1> QED
  BY <1>1, <1>9, <1>10, <1>11 DEF Slot, OfType

\* An outcome is evaluated with what is on record.
LEMMA EvaluateStep ==
    ASSUME IInv, NEW w \in Workers, NEW o \in Outcomes, Evaluate(w, o) PROVE IInv'
<1>1. /\ o.contract \in Ids /\ o.key \in Keys /\ payment[o.key].status = "finalized"
      /\ find_delivery_verdict(o.contract, o.key) # {}
  BY OutcomeNames DEF Evaluate, Bound
<1>2. PICK d : d = Newest(o.contract, o.key)
  OBVIOUS
<1>3. d \in OfType("delivery_verdict") /\ d.contract = o.contract /\ d.key = o.key
  BY <1>1, <1>2, NewestIsOnRecord
<1>4. PICK result : result = evaluate_validator_outcome(contract[o.contract], o, d.body)
  OBVIOUS
<1>5. Judged(o, result)
  BY <1>1, <1>3, <1>4 DEF Judged, Evaluate, Bound
<1>6. PICK v : v = [at |-> "score", outcome |-> o, result |-> result]
  OBVIOUS
<1>7. Go(w, v)
  BY <1>2, <1>4, <1>6 DEF Evaluate
<1>8. Grows
  BY SameReceipts DEF Grows, Evaluate
<1>9. Judged(o, result)'
  BY <1>5, <1>8, JudgedStays
<1>10. JobIsTrue(w)'
  BY <1>6, <1>7, <1>9, Going DEF JobIsTrue, Steps
<1> QED
  BY <1>7, <1>10, OnlyGoes DEF Evaluate

\* The counters when an agent's payment gets its first outcome.
LEMMA CountersGrow ==
    ASSUME IInv, NEW o \in Outcomes, payment[o.key].status = "finalized", Scored(o),
           record_verified_outcome(o), payment' = payment
    PROVE  CountersOK' /\ ReputationIsTheOutcomes'
<1>1. PICK key \in Keys : key = o.key
  BY OutcomeNames
<1>2. PICK agent \in Agents : agent = payment[key].agent
  BY <1>1 DEF IInv, TablesOK, PaymentType, NoPayment
<1>3. payment[key].debit \in Nat
  BY <1>1 DEF IInv, TablesOK, PaymentType, NoPayment
<1>4. OutcomesOK /\ CountersOK /\ ReputationIsTheOutcomes
  BY DEF IInv
<1>5. /\ outcome[key] = NoOutcome /\ outcome'[key] = Told(o)
      /\ \A k \in Keys \ {key} : outcome'[k] = outcome[k]
  BY <1>1, <1>4 DEF Scored, record_verified_outcome, OutcomesOK
<1>6. reputation' = [reputation EXCEPT ![agent] = WithOutcome(reputation[agent], o)]
  BY <1>1, <1>2 DEF record_verified_outcome
<1>7. ASSUME NEW a \in Agents, NEW k \in Validated(a)
      PROVE  /\ payment[k].debit \in Nat /\ outcome[k].quality \in Nat
             /\ outcome[k].latency \in Nat /\ k \in Keys /\ k # key /\ outcome'[k] = outcome[k]
  <2>1. k \in Keys /\ outcome[k] # NoOutcome
    BY <1>7 DEF Validated
  <2>2. PICK x \in Outcomes : outcome[k] = Told(x)
    BY <1>4, <2>1 DEF OutcomesOK
  <2>3. payment[k].status = "finalized"
    BY <1>4, <2>1 DEF OutcomesOK
  <2>4. payment[k].debit \in Nat
    BY <2>1, <2>3 DEF IInv, TablesOK, PaymentType, NoPayment
  <2> QED
    BY <1>5, <2>1, <2>2, <2>4, OutcomeNames DEF Told
<1>8. /\ Told(o) # NoOutcome /\ Told(o).success = o.success
      /\ Told(o).quality = o.quality /\ o.quality \in Nat
      /\ Told(o).latency = o.latency /\ o.latency \in Nat
  BY OutcomeNames DEF Told
<1>9. ASSUME NEW a \in Agents \ {agent}
      PROVE  /\ reputation'[a] = reputation[a]
             /\ Validated(a)' = Validated(a) /\ Won(a)' = Won(a) /\ Lost(a)' = Lost(a)
             /\ [k \in Validated(a) |-> outcome'[k].quality] =
                  [k \in Validated(a) |-> outcome[k].quality]
             /\ [k \in Validated(a) |-> outcome'[k].latency] =
                  [k \in Validated(a) |-> outcome[k].latency]
  <2>1. Validated(a)' = Validated(a)
    BY <1>2, <1>5 DEF Validated
  <2>2. Won(a)' = Won(a)
    BY <1>7, <2>1 DEF Won
  <2>3. reputation'[a] = reputation[a]
    BY <1>4, <1>6 DEF CountersOK
  <2> QED
    BY <1>7, <2>1, <2>2, <2>3 DEF Lost
<1>10. PICK S, W, F : S = Validated(agent) /\ W = Won(agent) /\ F = Lost(agent)
  OBVIOUS
<1>11. /\ IsFiniteSet(S) /\ IsFiniteSet(W) /\ IsFiniteSet(F) /\ W \subseteq S
       /\ key \notin S /\ key \notin W /\ key \notin F
  <2>1. IsFiniteSet(S) /\ W \subseteq S /\ F \subseteq S
    BY <1>4, <1>10 DEF CountersOK, Won, Lost
  <2>2. key \notin S
    BY <1>5, <1>10 DEF Validated
  <2> QED
    BY <2>1, <2>2, FS_Subset
<1>12. Validated(agent)' = S \cup {key}
  BY <1>2, <1>5, <1>8, <1>10 DEF Validated
<1>13. /\ o.success => Won(agent)' = W \cup {key}
       /\ ~o.success => Won(agent)' = W
  <2>1. \A k \in S : outcome'[k] = outcome[k]
    BY <1>7, <1>10
  <2> QED
    BY <1>5, <1>8, <1>10, <1>12, <2>1 DEF Won
<1>14. /\ o.success => Lost(agent)' = F
       /\ ~o.success => Lost(agent)' = F \cup {key}
  BY <1>10, <1>11, <1>12, <1>13 DEF Lost
<1>15. /\ Cardinality(S) \in Nat /\ Cardinality(W) \in Nat /\ Cardinality(F) \in Nat
       /\ Cardinality(S \cup {key}) = Cardinality(S) + 1
       /\ Cardinality(W \cup {key}) = Cardinality(W) + 1
       /\ Cardinality(F \cup {key}) = Cardinality(F) + 1
       /\ IsFiniteSet(S \cup {key})
  BY <1>11, FS_AddElement, FS_CardinalityType
<1>16. PICK paid, quality, time, paid2, quality2, time2 :
         /\ paid = [k \in S |-> payment[k].debit]
         /\ quality = [k \in S |-> outcome[k].quality]
         /\ paid2 = [k \in S \cup {key} |-> payment'[k].debit]
         /\ quality2 = [k \in S \cup {key} |-> outcome'[k].quality]
         /\ time = [k \in S |-> outcome[k].latency]
         /\ time2 = [k \in S \cup {key} |-> outcome'[k].latency]
  OBVIOUS
<1>17. /\ \A k \in S : paid[k] \in Int /\ paid2[k] = paid[k]
       /\ \A k \in S : quality[k] \in Int /\ quality2[k] = quality[k]
       /\ \A k \in S : time[k] \in Int /\ time2[k] = time[k]
       /\ paid2[key] = payment[key].debit /\ quality2[key] = o.quality
       /\ time2[key] = o.latency
  BY <1>5, <1>7, <1>8, <1>10, <1>16
<1>18. SumFunctionOnSet(paid2, S \cup {key}) = SumFunctionOnSet(paid, S) + payment[key].debit
  BY <1>3, <1>11, <1>17, SumGrown
<1>19. /\ SumFunctionOnSet(quality2, S \cup {key}) = SumFunctionOnSet(quality, S) + o.quality
       /\ SumFunctionOnSet(time2, S \cup {key}) = SumFunctionOnSet(time, S) + o.latency
  BY <1>8, <1>11, <1>17, SumGrown
<1>20. PICK old : old = reputation[agent]
  OBVIOUS
<1>21. /\ old \in [verified : Nat, successful : Nat, failed : Nat, paid : Nat, latency : Nat,
               quality : Nat]
       /\ old.verified = Cardinality(S) /\ old.successful = Cardinality(W)
       /\ old.failed = Cardinality(F)
       /\ old.paid = SumFunctionOnSet(paid, S) /\ old.quality = SumFunctionOnSet(quality, S)
       /\ old.latency = SumFunctionOnSet(time, S)
  BY <1>4, <1>10, <1>16, <1>20 DEF CountersOK, ReputationIsTheOutcomes
<1>22. PICK new : new = WithOutcome(old, o)
  OBVIOUS
<1>23. /\ reputation'[agent] = new
       /\ reputation' \in [Agents -> {new} \cup [verified : Nat, successful : Nat, failed : Nat,
                                                 paid : Nat, latency : Nat, quality : Nat]]
  BY <1>4, <1>6, <1>20, <1>22 DEF CountersOK
<1>24. /\ new.verified = old.verified + 1 /\ new.paid = old.paid + payment[key].debit
       /\ new.quality = old.quality + o.quality /\ new.latency = old.latency + o.latency
       /\ o.success => new.successful = old.successful + 1 /\ new.failed = old.failed + 0
       /\ ~o.success => new.successful = old.successful + 0 /\ new.failed = old.failed + 1
  BY <1>1, <1>22 DEF WithOutcome
<1>25. new \in [verified : Nat, successful : Nat, failed : Nat, paid : Nat, latency : Nat,
               quality : Nat]
  BY <1>1, <1>3, <1>8, <1>21, <1>22 DEF WithOutcome
<1>26. CountersOK'
  <2>1. \A a \in Agents : IsFiniteSet(Validated(a)')
    BY <1>4, <1>9, <1>12, <1>15 DEF CountersOK
  <2> QED
    BY <1>23, <1>25, <2>1 DEF CountersOK
<1>27. /\ new.verified = Cardinality(Validated(agent)')
       /\ new.successful = Cardinality(Won(agent)')
       /\ new.failed = Cardinality(Lost(agent)')
  <2>1. CASE o.success
    <3>1. /\ new.failed = old.failed + 0 /\ new.successful = old.successful + 1
          /\ new.verified = old.verified + 1
      BY <1>24, <2>1
    <3>2. Won(agent)' = W \cup {key} /\ Lost(agent)' = F
      BY <1>13, <1>14, <2>1
    <3> QED
      BY <1>12, <1>15, <1>21, <3>1, <3>2
  <2>2. CASE ~o.success
    <3>1. /\ new.failed = old.failed + 1 /\ new.successful = old.successful + 0
          /\ new.verified = old.verified + 1
      BY <1>24, <2>2
    <3>2. Won(agent)' = W /\ Lost(agent)' = F \cup {key}
      BY <1>13, <1>14, <2>2
    <3> QED
      BY <1>12, <1>15, <1>21, <3>1, <3>2
  <2> QED
    BY <2>1, <2>2
<1>28. /\ new.paid = SumFunctionOnSet([k \in Validated(agent)' |-> payment'[k].debit],
                                      Validated(agent)')
       /\ new.quality = SumFunctionOnSet([k \in Validated(agent)' |-> outcome'[k].quality],
                                         Validated(agent)')
       /\ new.latency = SumFunctionOnSet([k \in Validated(agent)' |-> outcome'[k].latency],
                                         Validated(agent)')
  BY <1>12, <1>16, <1>18, <1>19, <1>21, <1>24
<1>29. ReputationIsTheOutcomes'
  <2>1. ASSUME NEW a \in Agents \ {agent}
        PROVE  /\ reputation'[a].verified = Cardinality(Validated(a)')
               /\ reputation'[a].successful = Cardinality(Won(a)')
               /\ reputation'[a].failed = Cardinality(Lost(a)')
               /\ reputation'[a].paid =
                    SumFunctionOnSet([k \in Validated(a)' |-> payment'[k].debit], Validated(a)')
               /\ reputation'[a].latency =
                    SumFunctionOnSet([k \in Validated(a)' |-> outcome'[k].latency], Validated(a)')
               /\ reputation'[a].quality =
                    SumFunctionOnSet([k \in Validated(a)' |-> outcome'[k].quality], Validated(a)')
    <3>1. /\ reputation[a].verified = Cardinality(Validated(a))
          /\ reputation[a].successful = Cardinality(Won(a))
          /\ reputation[a].failed = Cardinality(Lost(a))
          /\ reputation[a].paid =
               SumFunctionOnSet([k \in Validated(a) |-> payment[k].debit], Validated(a))
          /\ reputation[a].latency =
               SumFunctionOnSet([k \in Validated(a) |-> outcome[k].latency], Validated(a))
          /\ reputation[a].quality =
               SumFunctionOnSet([k \in Validated(a) |-> outcome[k].quality], Validated(a))
      BY <1>4, <2>1 DEF ReputationIsTheOutcomes
    <3> QED
      BY <1>9, <3>1
  <2>2. /\ reputation'[agent].verified = Cardinality(Validated(agent)')
        /\ reputation'[agent].successful = Cardinality(Won(agent)')
        /\ reputation'[agent].failed = Cardinality(Lost(agent)')
        /\ reputation'[agent].paid =
             SumFunctionOnSet([k \in Validated(agent)' |-> payment'[k].debit], Validated(agent)')
        /\ reputation'[agent].latency =
             SumFunctionOnSet([k \in Validated(agent)' |-> outcome'[k].latency], Validated(agent)')
        /\ reputation'[agent].quality =
             SumFunctionOnSet([k \in Validated(agent)' |-> outcome'[k].quality], Validated(agent)')
    BY <1>23, <1>27, <1>28
  <2>3. \A a \in Agents : a = agent \/ a \in Agents \ {agent}
    OBVIOUS
  <2> QED
    BY <2>1, <2>2, <2>3, Zenon DEF ReputationIsTheOutcomes
<1> QED
  BY <1>26, <1>29

\* record_verified_outcome writes the first outcome of a payment, and no other.
LEMMA Recorded ==
    ASSUME IInv, NEW o \in Outcomes, payment[o.key].status = "finalized",
           record_verified_outcome(o),
           UNCHANGED <<contract, expired, revoked, payment, fable>>
    PROVE  /\ Grows /\ TablesOK' /\ OutcomesOK' /\ SlotsHold' /\ OneStoryPerExecution'
           /\ CountersOK' /\ ReputationIsTheOutcomes' /\ Receipts' = Receipts
           /\ Agrees(o) => outcome'[o.key] = Told(o)
<1>1. Receipts' = Receipts /\ SlotsHold' /\ OneStoryPerExecution' /\ TablesOK'
  BY SameReceipts, SameTables
<1>2. PICK key \in Keys : key = o.key
  BY OutcomeNames
<1>3. OutcomesOK
  BY DEF IInv
<1>4. CASE Scored(o)
  <2>1. outcome' = [outcome EXCEPT ![key] = Told(o)] /\ outcome[key] = NoOutcome
    BY <1>2, <1>4 DEF record_verified_outcome, Scored
  <2>2. outcome'[key] = Told(o) /\ \A k \in Keys \ {key} : outcome'[k] = outcome[k]
    BY <1>3, <2>1 DEF OutcomesOK
  <2>3. OutcomesOK'
    BY <1>2, <1>3, <2>1 DEF OutcomesOK
  <2>4. Grows
    BY <1>1, <2>1, <2>2 DEF Grows
  <2> QED
    BY <1>1, <1>2, <1>4, <2>2, <2>3, <2>4, CountersGrow
<1>5. CASE ~Scored(o)
  <2>1. UNCHANGED <<outcome, reputation>>
    BY <1>5 DEF record_verified_outcome
  <2>2. Grows
    BY <1>1, <2>1 DEF Grows
  <2> QED
    BY <1>1, <1>5, <2>1, <2>2, ReputationStays DEF Scored, Agrees
<1> QED
  BY <1>4, <1>5

\* What the handler of an outcome knows.
LEMMA OutcomeAtWork ==
    ASSUME IInv, NEW w \in Workers, job[w].at \in {"score", "final", "insert"}
    PROVE  /\ Judged(job[w].outcome, job[w].result) /\ job[w].outcome \in Outcomes
           /\ payment[job[w].outcome.key].status = "finalized"
           /\ job[w].at \in {"final", "insert"} =>
                outcome[job[w].outcome.key] = Told(job[w].outcome)
BY DEF IInv, JobIsTrue, Judged

\* The handler of an outcome goes on only with its own outcome on record.
LEMMA OnwardGoes ==
    ASSUME IInv, Grows, NEW w \in Workers, job[w].at \in {"score", "final", "insert"},
           NEW at \in {"final", "insert"}, Onward(w, at),
           outcome'[job[w].outcome.key] = Told(job[w].outcome)
    PROVE  (\E v : Go(w, v)) /\ JobIsTrue(w)'
<1>1. PICK o, result : o = job[w].outcome /\ result = job[w].result
  OBVIOUS
<1>2. PICK v : v = [at |-> at, outcome |-> o, result |-> result]
  OBVIOUS
<1>3. Go(w, v)
  BY <1>1, <1>2 DEF Onward
<1>4. Judged(o, result)'
  BY <1>1, OutcomeAtWork, JudgedStays
<1>5. JobIsTrue(w)'
  BY <1>1, <1>2, <1>3, <1>4, Going DEF JobIsTrue, Steps
<1> QED
  BY <1>3, <1>5

\* The reputation changes, and the handler goes on or ends.
LEMMA ScoreStep ==
    ASSUME IInv, NEW w \in Workers, Score(w) PROVE IInv'
<1>1. PICK o \in Outcomes : o = job[w].outcome /\ payment[o.key].status = "finalized"
  BY OutcomeAtWork DEF Score
<1>2. /\ Grows /\ TablesOK' /\ OutcomesOK' /\ SlotsHold' /\ OneStoryPerExecution'
      /\ CountersOK' /\ ReputationIsTheOutcomes' /\ Receipts' = Receipts
      /\ Agrees(o) => outcome'[o.key] = Told(o)
  BY <1>1, Recorded DEF Score
<1>3. (\E v : Go(w, v)) /\ JobIsTrue(w)'
  <2>1. CASE Agrees(o)
    BY <1>1, <1>2, <2>1, OnwardGoes DEF Score
  <2>2. CASE ~Agrees(o)
    <3>1. Go(w, Idle)
      BY <1>1, <2>2 DEF Score, Done
    <3> QED
      BY <3>1, Going, IdleIsTrue
  <2> QED
    BY <2>1, <2>2
<1> QED
  BY <1>2, <1>3, Going, Keeps

\* The reputation changes without a contract.
LEMMA ScoreOnlyStep ==
    ASSUME IInv, NEW w \in Workers, NEW o \in Outcomes, ScoreOnly(w, o) PROVE IInv'
<1>1. /\ Grows /\ TablesOK' /\ OutcomesOK' /\ SlotsHold' /\ OneStoryPerExecution'
      /\ CountersOK' /\ ReputationIsTheOutcomes' /\ Receipts' = Receipts
  BY Recorded DEF ScoreOnly
<1>2. job' = job /\ job' \in [Workers -> {job'[x] : x \in Workers}]
  BY DEF IInv, ScoreOnly
<1> QED
  BY <1>1, <1>2, Keeps

\* The handler looks for a final verdict.
LEMMA FinalLookupStep ==
    ASSUME IInv, NEW w \in Workers, FinalLookup(w) PROVE IInv'
<1>1. Grows
  BY SameReceipts DEF Grows, FinalLookup
<1>2. (\E v : Go(w, v)) /\ JobIsTrue(w)'
  <2>1. CASE Onward(w, "insert")
    BY <1>1, <2>1, OutcomeAtWork, OnwardGoes DEF FinalLookup
  <2>2. CASE Done(w)
    BY <2>2, Going, IdleIsTrue DEF Done
  <2> QED
    BY <2>1, <2>2 DEF FinalLookup
<1> QED
  BY <1>2, OnlyGoes DEF FinalLookup

\* Two final verdicts of one execution of a contract are about one delivery
\* verdict, and so about one payment, whose outcome decides both.
LEMMA FinalsAgree ==
    ASSUME IInv, NEW r, NEW s, FinalIsTrue(r), FinalIsTrue(s), Slot(r) = Slot(s)
    PROVE  r = s
<1>1. PICK o \in Outcomes : /\ Judged(o, r.body) /\ r = FinalVerdict(o, r.body)
                            /\ outcome[o.key] = Told(o)
  BY DEF FinalIsTrue
<1>2. PICK x \in Outcomes : /\ Judged(x, s.body) /\ s = FinalVerdict(x, s.body)
                            /\ outcome[x.key] = Told(x)
  BY DEF FinalIsTrue
<1>3. PICK d \in OfType("delivery_verdict") :
        /\ d.contract = o.contract /\ d.key = o.key
        /\ r.body = evaluate_validator_outcome(contract[o.contract], o, d.body)
  BY <1>1 DEF Judged
<1>4. PICK e \in OfType("delivery_verdict") :
        /\ e.contract = x.contract /\ e.key = x.key
        /\ s.body = evaluate_validator_outcome(contract[x.contract], x, e.body)
  BY <1>2 DEF Judged
<1>5. /\ r.contract = o.contract /\ r.execution = payment[o.key].execution
      /\ s.contract = x.contract /\ s.execution = payment[x.key].execution
  BY <1>1, <1>2 DEF FinalVerdict, Receipt
<1>6. o.contract = x.contract /\ payment[o.key].execution = payment[x.key].execution
  BY <1>5 DEF Slot
<1>7. /\ d \in Receipts /\ d.type = "delivery_verdict" /\ DeliveryIsTrue(d)
      /\ e \in Receipts /\ e.type = "delivery_verdict" /\ DeliveryIsTrue(e)
  BY DEF OfType, IInv, ReceiptIsTrue
<1>8. d.execution = payment[o.key].execution /\ e.execution = payment[x.key].execution
  BY <1>3, <1>4, <1>7 DEF DeliveryIsTrue
<1>9. d = e
  BY <1>3, <1>4, <1>6, <1>7, <1>8 DEF IInv, OneStoryPerExecution, Slot
<1>10. o.key = x.key
  BY <1>3, <1>4, <1>9
<1>11. /\ o.validator = x.validator /\ o.success = x.success /\ o.quality = x.quality
       /\ o.evidence = x.evidence
  <2>1. Told(o) = Told(x)
    BY <1>1, <1>2, <1>10
  <2>2. Told(o).validator = Told(x).validator /\ Told(o).success = Told(x).success
        /\ Told(o).quality = Told(x).quality /\ Told(o).evidence = Told(x).evidence
    BY <2>1
  <2> QED
    BY <2>2 DEF Told
<1>12. r.body = s.body
  BY <1>3, <1>4, <1>6, <1>9, <1>11 DEF evaluate_validator_outcome
<1>13. FinalVerdict(o, r.body) = FinalVerdict(x, s.body)
  BY <1>6, <1>10, <1>12 DEF FinalVerdict, Receipt
<1> QED
  BY <1>1, <1>2, <1>13

\* Two threads may insert a final verdict: the same one.
LEMMA FinalInsertStep ==
    ASSUME IInv, NEW w \in Workers, FinalInsert(w) PROVE IInv'
<1>1. PICK o \in Outcomes : o = job[w].outcome
  BY OutcomeAtWork DEF FinalInsert
<1>2. PICK result : result = job[w].result
  OBVIOUS
<1>3. Judged(o, result) /\ outcome[o.key] = Told(o)
  BY <1>1, <1>2, OutcomeAtWork DEF FinalInsert
<1>4. PICK r : r = FinalVerdict(o, result)
  OBVIOUS
<1>5. /\ r.type = "final_sla_verdict" /\ r.contract = o.contract /\ r.body = result
      /\ r.execution = payment[o.key].execution
  BY <1>4 DEF FinalVerdict, Receipt
<1>6. Slot(r) \in Slots
  <2>1. payment[o.key].execution \in Executions /\ o.contract \in Ids
    BY <1>3, OutcomeNames DEF Judged, IInv, TablesOK, PaymentType, NoPayment
  <2> QED
    BY <1>5, <2>1 DEF Slot, Slots, Types
<1>7. FinalIsTrue(r)
  BY <1>3, <1>4, <1>5 DEF FinalIsTrue
<1>8. SlotsHold' /\ Receipts' = Receipts \cup {r}
  <2>1. fable' = [fable EXCEPT ![Slot(r)] = Append(fable[Slot(r)], r)]
    BY <1>1, <1>2, <1>4 DEF FinalInsert
  <2>2. SlotsHold
    BY DEF IInv
  <2> QED
    BY <1>6, <2>1, <2>2, Inserted
<1>9. ASSUME NEW x \in Receipts, Slot(x) = Slot(r) PROVE x = r
  <2>1. x.type = "final_sla_verdict"
    BY <1>5, <1>9 DEF Slot
  <2>2. FinalIsTrue(x)
    BY <2>1 DEF IInv, ReceiptIsTrue
  <2> QED
    BY <1>7, <1>9, <2>2, FinalsAgree
<1>10. OneStoryPerExecution'
  BY <1>8, <1>9, OneMore
<1>11. Grows
  BY <1>8 DEF Grows, FinalInsert
<1>12. ReceiptIsTrue(r)'
  BY <1>5, <1>7, <1>11, FinalStays DEF ReceiptIsTrue
<1>13. Go(w, Idle) /\ JobIsTrue(w)' /\ UNCHANGED <<outcome, reputation>>
  BY Going, IdleIsTrue DEF FinalInsert, Done
<1>14. TablesOK'
  BY SameTables DEF FinalInsert
<1> QED
  BY <1>8, <1>10, <1>11, <1>12, <1>13, <1>14, Going, ReputationStays, Keeps

\* Every step keeps the invariant.
LEMMA NextIInv == IInv /\ [Next]_vars => IInv'
<1> SUFFICES ASSUME IInv, [Next]_vars PROVE IInv'
  OBVIOUS
<1>1. CASE UNCHANGED vars
  <2>1. UNCHANGED <<contract, expired, revoked, payment, fable, outcome, reputation, job>>
    BY <1>1 DEF vars
  <2>2. Receipts' = Receipts /\ SlotsHold' /\ OneStoryPerExecution' /\ TablesOK'
    BY <2>1, SameReceipts, SameTables
  <2>3. Grows
    BY <2>1, <2>2 DEF Grows
  <2>4. job' \in [Workers -> {job'[x] : x \in Workers}]
    BY <2>1 DEF IInv
  <2> QED
    BY <2>1, <2>2, <2>3, <2>4, ReputationStays, Keeps
<1>2. ASSUME NEW w \in Workers,
             \/ \E c \in Ids : create(w, c)
             \/ issue_contract_receipt(w)
             \/ \E q \in Calls : Authorize(w, q) \/ AgentCall(w, q)
             \/ \E debit \in Debits : Pay(w, debit)
             \/ Replay(w)
             \/ Refuse(w)
             \/ \E d \in Deliveries : Deliver(w, d)
             \/ Judge(w)
             \/ \E o \in Outcomes : Evaluate(w, o) \/ ScoreOnly(w, o)
             \/ Score(w)
             \/ FinalLookup(w)
             \/ FinalInsert(w)
      PROVE  IInv'
  BY <1>2, CreateStep, ContractReceiptStep, AuthorizeStep, AgentCallStep, PayStep, ReplayStep,
     RefuseStep, DeliverStep, JudgeStep, EvaluateStep, ScoreOnlyStep, ScoreStep,
     FinalLookupStep, FinalInsertStep
<1>3. CASE \/ \E c \in Ids : Expire(c)
           \/ \E a \in DOMAIN Tenant : Revoke(a)
           \/ \E k \in Keys : Reconcile(k)
           \/ Crash
  BY <1>3, ClockStep, ReconcileStep, CrashStep
<1> QED
  BY <1>1, <1>2, <1>3 DEF Next

\* The invariant of the first state.
LEMMA InitIInv == Init => IInv
<1> SUFFICES ASSUME Init PROVE IInv
  OBVIOUS
<1>1. fable = [s \in Slots |-> <<>>]
  BY DEF Init, Slots
<1>2. Receipts = {}
  BY <1>1 DEF Receipts
<1>3. SlotsHold /\ OneStoryPerExecution
  BY <1>1, <1>2 DEF SlotsHold, OneStoryPerExecution
<1>4. TablesOK /\ OutcomesOK
  <2>1. \A q \in Calls : payment[q.key] = NoPayment
    BY CallNames DEF Init
  <2>2. TablesOK
    BY <2>1 DEF Init, TablesOK
  <2> QED
    BY <2>2 DEF Init, OutcomesOK
<1>5. job = [w \in Workers |-> Idle]
  BY DEF Init
<1>6. \A w \in Workers : JobIsTrue(w)
  BY <1>5 DEF JobIsTrue, Idle, Steps
<1>7. job \in [Workers -> {job[w] : w \in Workers}]
  BY <1>5
<1>8. ASSUME NEW a \in Agents PROVE /\ Validated(a) = {} /\ Won(a) = {} /\ Lost(a) = {}
                                    /\ reputation[a] = NoJobs
  BY DEF Init, Validated, Won, Lost
<1>9. CountersOK
  BY <1>8, FS_EmptySet DEF CountersOK, Init, NoJobs
<1>10. ReputationIsTheOutcomes
  BY <1>8, FS_EmptySet, SumEmpty DEF ReputationIsTheOutcomes, NoJobs
<1> QED
  BY <1>2, <1>3, <1>4, <1>6, <1>7, <1>9, <1>10 DEF IInv

\* Everything on record and everything a handler relies on agrees in every
\* reachable state.
THEOREM ContractsInvariant == Spec => []IInv
BY InitIInv, NextIInv, PTL DEF Spec

\* Every table and every handler has its type.
THEOREM ContractsTypeCorrect == Spec => []TypeOK
<1>1. IInv => TypeOK
  <2> SUFFICES ASSUME IInv PROVE TypeOK
    OBVIOUS
  <2>1. \A w \in Workers : job[w].at \in Steps
    BY DEF IInv, JobIsTrue
  <2>2. ASSUME NEW r \in Receipts, r.type \in {"delivery_verdict", "final_sla_verdict"}
        PROVE  r.body.status \in Verdicts
    <3>1. CASE r.type = "delivery_verdict"
      BY <3>1 DEF IInv, ReceiptIsTrue, DeliveryIsTrue
    <3>2. CASE r.type = "final_sla_verdict"
      <4>1. PICK o \in Outcomes : Judged(o, r.body)
        BY <3>2 DEF IInv, ReceiptIsTrue, FinalIsTrue
      <4>2. PICK d : r.body = evaluate_validator_outcome(contract[o.contract], o, d.body)
        BY <4>1 DEF Judged
      <4> QED
        BY <4>2 DEF evaluate_validator_outcome, Verdicts
    <3> QED
      BY <2>2, <3>1, <3>2
  <2> QED
    BY <2>1, <2>2 DEF IInv, TypeOK, TablesOK, OutcomesOK, PaymentType, Steps
<1> QED
  BY <1>1, ContractsInvariant, PTL

\* A delivery is judged under the authority it was paid with, whichever call of
\* the key made the payment, and the payment took no more than that authority
\* allowed for its quote, which may be more than the contract's price
\* (execute_contracted_agent_call).
THEOREM VerdictsStayAuthorized == Spec => []VerdictsAreAuthorized
<1>1. ASSUME IInv, NEW r \in OfType("delivery_verdict")
      PROVE  LET p == payment[r.key] IN
               /\ p.status = "finalized" /\ p.execution = r.execution /\ p.auth = r.auth
               /\ p.price <= contract[r.contract].price
               /\ \E a \in OfType("execution_authorization") :
                    /\ a.contract = r.contract /\ a.execution = r.execution /\ a.auth = r.auth
                    /\ a.body.agent = p.agent /\ a.body.price = p.price
                    /\ p.debit <= DebitCeiling(a.body.price, a.auth)
  <2>1. DeliveryIsTrue(r)
    BY <1>1 DEF IInv, ReceiptIsTrue, OfType
  <2>2. payment[r.key] # NoPayment /\ r.key \in Keys
    BY <2>1 DEF DeliveryIsTrue, NoPayment
  <2>3. payment[r.key].debit <= DebitCeiling(payment[r.key].price, payment[r.key].auth)
    BY <1>1, <2>2 DEF IInv, TablesOK
  <2> QED
    BY <2>1, <2>3 DEF DeliveryIsTrue
<1>2. IInv => VerdictsAreAuthorized
  BY <1>1 DEF VerdictsAreAuthorized
<1> QED
  BY <1>2, ContractsInvariant, PTL

\* A final verdict rests on the payment, the delivery verdict and the outcome on
\* record (record_outcome).
THEOREM VerdictsStayEvident == Spec => []VerdictsFollowEvidence
<1>1. ASSUME IInv, NEW r \in OfType("final_sla_verdict")
      PROVE  LET p == payment[r.key]  form == contract[r.contract] IN
               /\ p.status = "finalized" /\ Tenant[p.auth] = form.tenant
               /\ p.agent = form.agent /\ p.endpoint = form.endpoint
               /\ \E d \in OfType("delivery_verdict") :
                    /\ d.contract = r.contract /\ d.key = r.key
                    /\ d.body.blockers \subseteq r.body.blockers
               /\ outcome[r.key].validator = r.body.validator
               /\ outcome[r.key].quality = r.body.quality
               /\ r.body.status = "accepted" =>
                    /\ p.delivery.status = "delivered" /\ p.delivery.latency <= form.deadline
                    /\ outcome[r.key].success /\ outcome[r.key].quality >= form.quality
               /\ form.selfVerify \/ outcome[r.key].validator # form.agent
  <2>1. PICK o \in Outcomes : /\ Judged(o, r.body) /\ r = FinalVerdict(o, r.body)
                              /\ outcome[o.key] = Told(o)
    BY <1>1 DEF OfType, IInv, ReceiptIsTrue, FinalIsTrue
  <2>2. r.contract = o.contract /\ r.key = o.key
    BY <2>1 DEF FinalVerdict, Receipt
  <2>3. PICK form, p : form = contract[o.contract] /\ p = payment[o.key]
    OBVIOUS
  <2>4. PICK d \in OfType("delivery_verdict") :
          /\ d.contract = o.contract /\ d.key = o.key
          /\ r.body = evaluate_validator_outcome(form, o, d.body)
    BY <2>1, <2>3 DEF Judged
  <2>5. /\ d.body.blockers \subseteq r.body.blockers
        /\ r.body.validator = o.validator /\ r.body.quality = o.quality
        /\ r.body.status = "accepted" =>
             d.body.blockers = {} /\ o.success /\ o.quality >= form.quality
    BY <2>4 DEF evaluate_validator_outcome
  <2>6. DeliveryIsTrue(d)
    BY <1>1 DEF OfType, IInv, ReceiptIsTrue
  <2>7. o.contract \in Ids /\ o.key \in Keys /\ form # NoForm /\ p.status = "finalized"
    BY <2>1, <2>3, OutcomeNames DEF Judged
  <2>8. p.delivery.latency \in Nat /\ form.deadline \in Nat
    <3>1. TablesOK
      BY <1>1 DEF IInv
    <3>2. p \in PaymentType
      BY <2>3, <2>7, <3>1 DEF TablesOK, NoPayment
    <3>3. form = Terms[o.contract]
      BY <2>3, <2>7, <3>1 DEF TablesOK
    <3> QED
      BY <2>7, <3>2, <3>3, ContractsAssumption DEF PaymentType
  <2>9. r.body.status = "accepted" =>
          p.delivery.status = "delivered" /\ p.delivery.latency <= form.deadline
    BY <2>3, <2>4, <2>5, <2>6, <2>8 DEF DeliveryIsTrue
  <2>10. /\ outcome[r.key].validator = o.validator /\ outcome[r.key].quality = o.quality
         /\ outcome[r.key].success = o.success
    BY <2>1, <2>2 DEF Told
  <2> QED
    BY <2>1, <2>2, <2>3, <2>4, <2>5, <2>9, <2>10 DEF Judged
<1>2. IInv => VerdictsFollowEvidence
  BY <1>1 DEF VerdictsFollowEvidence
<1> QED
  BY <1>2, ContractsInvariant, PTL

\* Receipts of one kind for one execution of a contract are one receipt, although
\* two threads may insert it and no index forbids it (issue).
THEOREM OneStoryIsTold == Spec => []OneStoryPerExecution
<1>1. IInv => OneStoryPerExecution
  BY DEF IInv
<1> QED
  BY <1>1, ContractsInvariant, PTL

\* An agent's counters are the sums over the outcomes of its payments, each
\* payment once (record_verified_outcome).
THEOREM ReputationStaysTheOutcomes == Spec => []ReputationIsTheOutcomes
<1>1. IInv => ReputationIsTheOutcomes
  BY DEF IInv
<1> QED
  BY <1>1, ContractsInvariant, PTL

==============================================================================
