----------------------------- MODULE TokenSpend -----------------------------
(***************************************************************************)
(* AI token spend controls of the agent commerce service                   *)
(* (services/agent-commerce/agent_commerce/token_*.py): rate cards, spend  *)
(* policies, reservations before a model call, metered usage after it and  *)
(* reconciliation with the provider's charges.                             *)
(*                                                                         *)
(* Every operation is one BEGIN IMMEDIATE transaction, so an action is a   *)
(* whole operation; an exception rolls all of it back.  Amounts are in     *)
(* micro dollars, below 2^53 of them; a route is a provider and a model.   *)
(***************************************************************************)
EXTENDS Integers, Sequences, FiniteSetsExt, Functions

CONSTANTS
    Policies,       \* ids of spend policies
    Forms,          \* limits a policy may be created with
    SpendKeys,      \* idempotency keys
    Routes,         \* records with provider and model
    Cards,          \* rate cards that may be put: route, prices and the text of
                    \* their effective time
    Estimates,      \* token counts estimated before a call
    Usages,         \* token counts metered after it
    ProviderRequests, ChargeIds, Charges, \* the provider's ids and amounts
    Tolerance,      \* tolerance_microusd
    ExactBelow,     \* 2^53: whole numbers below it are doubles, all of them
    Dropped,        \* pairs n, d: the double nearest to n / d is the whole number
                    \* below it
    MaxTime,        \* bound on the clock, in minutes
    NoPolicy, NoRequest

VARIABLES
    cards,          \* ai_rate_cards
    policy,         \* ai_spend_policies
    reservation,    \* ai_spend_reservations, by policy and key
    receipts,       \* ai_usage_receipts
    charges,        \* ai_provider_usage_events
    alerts,         \* ai_spend_alerts: what they are about
    now

spendVars == <<cards, policy, reservation, receipts, charges, alerts, now>>

Kinds == {"input", "output", "cached", "reasoning"}
Tokens == [Kinds -> Nat]

ASSUME TokenSpendAssumption ==
    /\ \A c \in Cards :
         /\ c.route \in Routes /\ c.price \in Tokens
         /\ c.text \in Nat
    /\ Estimates \subseteq Tokens /\ Usages \subseteq Tokens
    /\ Charges \subseteq Nat /\ Tolerance \in Nat /\ MaxTime \in Nat
    /\ \A f \in Forms :
         /\ f.budget \in Nat \ {0} /\ f.perCall \in Nat \ {0} /\ f.calls \in Nat \ {0}
         /\ f.multiplier \in [num : Nat, den : Nat \ {0}]
         /\ f.multiplier.num >= f.multiplier.den
         /\ f.start \in Nat /\ f.end \in Nat
         /\ f.allowed \subseteq Routes /\ f.fallback \in Seq(f.allowed)
    /\ ExactBelow \in Nat
    /\ Dropped \subseteq (Nat \X (Nat \ {0}))
    /\ \A x \in Dropped : ExactBelow <= x[1]
    /\ NoPolicy \notin Forms /\ NoRequest \notin ProviderRequests

NoReservation == [status |-> "none"]

SpendInit ==
    /\ cards = {}
    /\ policy = [p \in Policies |-> [form |-> NoPolicy, status |-> "none", reserved |-> 0,
                                     spent |-> 0]]
    /\ reservation = [p \in Policies |-> [k \in SpendKeys |-> NoReservation]]
    /\ receipts = {}
    /\ charges = {}
    /\ alerts = {}
    /\ now = 0

-----------------------------------------------------------------------------
CeilDiv(a, b) == (a + b - 1) \div b

\* math.ceil of the double nearest to n / d: a fraction that is less than half
\* the distance of two doubles is gone before it is rounded up.
MathCeil(n, d) == IF <<n, d>> \in Dropped THEN n \div d ELSE CeilDiv(n, d)

calculate_cost(price, tokens) ==
    MathCeil(SumFunctionOnSet([kind \in Kinds |-> tokens[kind] * price[kind]], Kinds), 1000000)

\* The cards of a route in force at time t, and the newest of them.  SQLite
\* compares effective_at as text, with the offset its writer gave it: "text" is
\* the time of the clock, which is written in UTC, whose text it is first not
\* greater than.
InForce(route, t) == {c \in cards : c.route = route /\ c.text <= t}
LatestCard(found) == CHOOSE c \in found : \A d \in found : d.text <= c.text

\* A card's prices are per million tokens; it may be put ahead of its time.
put_rate_card(card) ==
    /\ ~ \E c \in cards : c.route = card.route /\ c.text = card.text
    /\ cards' = cards \cup {card}
    /\ UNCHANGED <<policy, reservation, receipts, charges, alerts, now>>

create_policy(p, form) ==
    /\ policy[p].status = "none"
    /\ policy' = [policy EXCEPT ![p] = [form |-> form, status |-> "active", reserved |-> 0,
                                        spent |-> 0]]
    /\ UNCHANGED <<cards, reservation, receipts, charges, alerts, now>>

\* _pause_policy; emergency_stop writes the same columns.
Paused(p) == [policy EXCEPT ![p].status = "paused"]

emergency_stop(p) ==
    /\ policy[p].status # "none"
    /\ policy' = Paused(p)
    /\ alerts' = alerts \cup {<<p, "emergency_stop">>}
    /\ UNCHANGED <<cards, reservation, receipts, charges, now>>

-----------------------------------------------------------------------------
(* preflight *)

\* _validate_policy_for_preflight
Open(p) ==
    /\ policy[p].status = "active"
    /\ policy[p].form.start <= now /\ now < policy[p].form.end
    /\ policy[p].spent < policy[p].form.budget

Recent(p) ==
    Cardinality({k \in SpendKeys : /\ reservation[p][k].status # "none"
                                  /\ reservation[p][k].at >= now - 1})

Available(p) == policy[p].form.budget - policy[p].spent - policy[p].reserved

Candidates(form, route) == <<route>> \o SelectSeq(form.fallback, LAMBDA r : r # route)

Fits(p, route, tokens) ==
    /\ route \in policy[p].form.allowed
    /\ InForce(route, now) # {}
    /\ LET cost == calculate_cost(LatestCard(InForce(route, now)).price, tokens)
       IN  cost <= policy[p].form.perCall /\ cost <= Available(p)

\* A key that is known is answered with its reservation, or refused if the
\* request differs: no change.  The pause of a policy whose call rate is
\* exceeded is rolled back by the exception that reports it.
preflight(p, k, route, tokens) ==
    /\ reservation[p][k].status = "none"
    /\ Open(p)
    /\ tokens["input"] <= policy[p].form.maxInput
    /\ tokens["output"] <= policy[p].form.maxOutput
    /\ Recent(p) < policy[p].form.calls
    /\ LET routes == Candidates(policy[p].form, route)
           fitting == {i \in DOMAIN routes : Fits(p, routes[i], tokens)}
           selected == routes[Min(fitting)]
           card == LatestCard(InForce(selected, now))
           cost == calculate_cost(card.price, tokens)
       IN  /\ fitting # {}
           /\ reservation' = [reservation EXCEPT ![p][k] =
                [status |-> "reserved", route |-> selected, card |-> card,
                 tokens |-> tokens, reserved |-> cost, actual |-> 0,
                 request |-> NoRequest, reconciliation |-> "pending", at |-> now]]
           /\ policy' = [policy EXCEPT ![p].reserved = @ + cost]
    /\ UNCHANGED <<cards, receipts, charges, alerts, now>>

-----------------------------------------------------------------------------
(* finalize_usage *)

Sum(tokens) == SumFunctionOnSet(tokens, Kinds)

\* anomaly_multiplier is a double, a whole number over a power of two.
Multiple(form, n) == MathCeil(n * form.multiplier.num, form.multiplier.den)

Anomalous(form, r, usage, cost) ==
    \/ cost > Multiple(form, r.reserved)
    \/ Sum(usage) > Multiple(form, Max({1, Sum(r.tokens)}))
    \/ usage["input"] > form.maxInput
    \/ usage["output"] > form.maxOutput

\* Fault: the call is charged at the card of the day.
PricedNow(r) == LatestCard(InForce(r.route, now))

Priced(r) == r.card

\* Fault: an anomaly is recorded without a pause.
StopsOnBudget(p, r, usage, cost) == policy[p].spent + cost > policy[p].form.budget

Stops(p, r, usage, cost) ==
    \/ Anomalous(policy[p].form, r, usage, cost)
    \/ policy[p].spent + cost > policy[p].form.budget

\* Fault: the metered cost is taken off instead of the reserved one.
UnreservedActual(p, r, cost) == Max({0, policy[p].reserved - cost})

\* MAX(0, reserved_microusd - ?)
Unreserved(p, r, cost) == Max({0, policy[p].reserved - r.reserved})

\* A finalized reservation is answered with its receipt: no change.  Of two
\* reservations of a provider one has a given provider request id.
finalize_usage(p, k, usage, request) ==
    LET r == reservation[p][k]
        cost == calculate_cost(Priced(r).price, usage)
    IN  /\ r.status = "reserved"
        /\ \A p2 \in Policies, k2 \in SpendKeys :
             LET o == reservation[p2][k2]
             IN  ~(o.status = "finalized" /\ o.request = request
                   /\ o.route.provider = r.route.provider)
        /\ receipts' = receipts \cup {[policy |-> p, key |-> k, cost |-> cost, usage |-> usage]}
        /\ reservation' = [reservation EXCEPT ![p][k].status = "finalized",
                             ![p][k].actual = cost, ![p][k].request = request]
        /\ policy' = [policy EXCEPT ![p].reserved = Unreserved(p, r, cost),
                        ![p].spent = @ + cost,
                        ![p].status = IF Stops(p, r, usage, cost) THEN "paused" ELSE @]
        /\ alerts' = IF Stops(p, r, usage, cost)
                     THEN alerts \cup {<<p, "runaway_or_over_budget_usage">>} ELSE alerts
        /\ UNCHANGED <<cards, charges, now>>

-----------------------------------------------------------------------------
(* reconcile_provider_event *)

\* The reservations of a provider's request: at most one.
Charged(provider, request) ==
    {pk \in Policies \X SpendKeys :
        LET r == reservation[pk[1]][pk[2]]
        IN  /\ r.status = "finalized"
            /\ r.route.provider = provider /\ r.request = request}

Apart(a, b) == IF a > b THEN a - b ELSE b - a

\* Fault: any amount confirms.
VerdictConfirmed(actual, cost) == "confirmed"

Verdict(actual, cost) ==
    IF Apart(cost, actual) <= Max({Tolerance, MathCeil(actual, 100)})
    THEN "confirmed" ELSE "disputed"

\* A charge id that is known is answered with its row, or refused if the data
\* differ: no change.  The request id is only known once the usage is
\* finalized, so a charge that comes first is an orphan and stays one.
reconcile_provider_event(provider, id, request, cost) ==
    LET found == Charged(provider, request)
        charge(status) == [provider |-> provider, id |-> id, request |-> request,
                           cost |-> cost, status |-> status]
    IN  /\ ~ \E c \in charges : c.provider = provider /\ c.id = id
        /\ \/ /\ found = {}
              /\ charges' = charges \cup {charge("orphaned")}
              /\ alerts' = alerts \cup {<<"none", "orphaned_provider_charge">>}
              /\ UNCHANGED <<policy, reservation>>
           \/ \E pk \in found :
                LET p == pk[1]
                    k == pk[2]
                    verdict == Verdict(reservation[p][k].actual, cost)
                IN  /\ charges' = charges \cup {charge(verdict)}
                    /\ reservation' = [reservation EXCEPT ![p][k].reconciliation = verdict]
                    /\ IF verdict = "disputed"
                       THEN /\ policy' = Paused(p)
                            /\ alerts' = alerts \cup {<<p, "provider_reconciliation_mismatch">>}
                       ELSE UNCHANGED <<policy, alerts>>
        /\ UNCHANGED <<cards, receipts, now>>

-----------------------------------------------------------------------------
Tick ==
    /\ now < MaxTime
    /\ now' = now + 1
    /\ UNCHANGED <<cards, policy, reservation, receipts, charges, alerts>>

SpendNext ==
    \/ \E card \in Cards : put_rate_card(card)
    \/ \E p \in Policies :
         \/ \E form \in Forms : create_policy(p, form)
         \/ emergency_stop(p)
         \/ \E k \in SpendKeys :
              \/ \E route \in Routes, tokens \in Estimates : preflight(p, k, route, tokens)
              \/ \E usage \in Usages, q \in ProviderRequests : finalize_usage(p, k, usage, q)
    \/ \E route \in Routes, id \in ChargeIds, q \in ProviderRequests, cost \in Charges :
         reconcile_provider_event(route.provider, id, q, cost)
    \/ Tick

SpendSpec == SpendInit /\ [][SpendNext]_spendVars

-----------------------------------------------------------------------------
(* Properties. *)

Reserved(p) == {k \in SpendKeys : reservation[p][k].status = "reserved"}
FinalizedKeys(p) == {k \in SpendKeys : reservation[p][k].status = "finalized"}

\* The rows of the five tables.
SpendTypeOK ==
    /\ cards \subseteq Cards
    /\ \A p \in Policies :
         /\ policy[p].status \in {"none", "active", "paused"}
         /\ policy[p].form \in Forms \cup {NoPolicy}
         /\ policy[p].reserved \in Nat /\ policy[p].spent \in Nat
         /\ \A k \in SpendKeys :
              reservation[p][k].status \in {"none", "reserved", "finalized"}
    /\ \A c \in charges : c.status \in {"orphaned", "confirmed", "disputed"}
    /\ now \in 0..MaxTime

\* The budget columns of a policy are the sums over its reservations, whatever
\* the order of calls, retries, usage reports and stops (preflight,
\* finalize_usage): nothing reserved is forgotten or released twice, and
\* MAX(0, ...) never hides a difference.
ColumnsAreTheReservations ==
    \A p \in Policies :
        /\ policy[p].reserved =
             SumFunctionOnSet([k \in Reserved(p) |-> reservation[p][k].reserved], Reserved(p))
        /\ policy[p].spent =
             SumFunctionOnSet([k \in FinalizedKeys(p) |-> reservation[p][k].actual], FinalizedKeys(p))

\* An active policy has nothing against it: it has not spent more than its
\* budget, none of its calls used more than its limits and the multiple of its
\* estimate, no provider charge disputes a call, and there is no alert for it;
\* what it holds for calls to come exceeds its budget by no more than metered
\* usage went beyond the estimates (finalize_usage, reconcile_provider_event).
FailClosed ==
    \A p \in Policies : policy[p].status = "active" =>
        /\ policy[p].spent <= policy[p].form.budget
        /\ \A x \in receipts : x.policy = p =>
             ~Anomalous(policy[p].form, reservation[p][x.key], x.usage, x.cost)
        /\ \A k \in FinalizedKeys(p) : reservation[p][k].reconciliation # "disputed"
        /\ ~ \E kind \in {"emergency_stop", "runaway_or_over_budget_usage",
                          "provider_reconciliation_mismatch"} : <<p, kind>> \in alerts
        /\ policy[p].spent + policy[p].reserved <= policy[p].form.budget
             + SumFunctionOnSet([k \in FinalizedKeys(p) |->
                   Max({0, reservation[p][k].actual - reservation[p][k].reserved})], FinalizedKeys(p))

\* A call is paid at the price it was promised: its route is one the policy
\* allows, the text of its card was reached when it was reserved, whatever
\* cards were put since, and its receipt charges the metered tokens at that
\* card, less than one micro dollar off and never too little as long as whole
\* numbers are exact doubles (preflight, finalize_usage, calculate_cost).
ChargedAsReserved ==
    /\ \A p \in Policies, k \in SpendKeys : reservation[p][k].status # "none" =>
         LET r == reservation[p][k]
         IN  /\ r.route \in policy[p].form.allowed
             /\ r.card.route = r.route /\ r.card.text <= r.at
             /\ r.reserved <= policy[p].form.perCall
    /\ \A x \in receipts :
         LET r == reservation[x.policy][x.key]
             exact == SumFunctionOnSet([kind \in Kinds |-> x.usage[kind] * r.card.price[kind]],
                                       Kinds)
         IN  /\ r.status = "finalized" /\ r.actual = x.cost
             /\ exact < (x.cost + 1) * 1000000 /\ x.cost * 1000000 < exact + 1000000
             /\ exact < ExactBelow => exact <= x.cost * 1000000

\* The reconciliation of a call is the verdict of one of its charges: a
\* confirmed charge is within the tolerance of the metered cost, a call no
\* charge disputes and one confirms is confirmed, and a call is pending only
\* while every charge for it is an orphan (reconcile_provider_event).
ChargesAreMatched ==
    \A p \in Policies : \A k \in FinalizedKeys(p) :
        LET r == reservation[p][k]
            mine == {c \in charges : c.provider = r.route.provider /\ c.request = r.request
                                     /\ c.status # "orphaned"}
        IN  /\ (r.reconciliation = "pending") <=> (mine = {})
            /\ mine # {} => \E c \in mine : c.status = r.reconciliation
            /\ \A c \in mine : c.status = "confirmed" =>
                 /\ c.cost - r.actual <= Tolerance + CeilDiv(r.actual, 100)
                 /\ r.actual - c.cost <= Tolerance + CeilDiv(r.actual, 100)

=============================================================================
