---------------------------- MODULE RoyaltyMoney ----------------------------
(***************************************************************************)
(* The money math of the royalty loop                                      *)
(* (services/gateway/royalty_money_math.py and its twin in the transaction *)
(* service, royalty-money-math.ts).  Amounts are in ledger units, 1/10000  *)
(* of a dollar, payouts in cents; owners are numbered in the order of      *)
(* their names.                                                            *)
(***************************************************************************)
EXTENDS Integers, Sequences, FiniteSetsExt, Functions

BPS_DENOMINATOR == 10000

Split == [owner : Nat, bps : Nat]

\* gross.quantize(CENT): to the nearest cent, halves to the even one.
pool(gross) ==
    LET cents == gross \div 100
        part == gross % 100
    IN  IF part > 50 \/ (part = 50 /\ cents % 2 = 1) THEN cents + 1 ELSE cents

\* What RoyaltyObligationCreated and distribute_splits ask of the splits.
splits_sum_to_10000(splits) ==
    SumFunction([i \in DOMAIN splits |-> splits[i].bps]) = BPS_DENOMINATOR

Owners(splits) == {splits[i].owner : i \in DOMAIN splits}

\* The dictionaries are keyed by owner: a later split of an owner replaces an
\* earlier one.
bps_by_owner(splits, o) ==
    splits[Max({i \in DOMAIN splits : splits[i].owner = o})].bps

floored(cents, splits, o) == (cents * bps_by_owner(splits, o)) \div BPS_DENOMINATOR
remainder(cents, splits, o) == (cents * bps_by_owner(splits, o)) % BPS_DENOMINATOR

leftover_cents(cents, splits) ==
    cents - SumFunction([o \in Owners(splits) |-> floored(cents, splits, o)])

\* Largest remainder first, then the larger share, then the smaller name.
GoesBefore(cents, splits, p, o) ==
    LET rp == remainder(cents, splits, p)
        ro == remainder(cents, splits, o)
        bp == bps_by_owner(splits, p)
        bo == bps_by_owner(splits, o)
    IN  rp > ro \/ (rp = ro /\ (bp > bo \/ (bp = bo /\ p < o)))

\* The place of a split in the sorted ordering, from zero.
Place(cents, splits, i) ==
    Cardinality({j \in DOMAIN splits :
        \/ GoesBefore(cents, splits, splits[j].owner, splits[i].owner)
        \/ splits[j].owner = splits[i].owner /\ j < i})

\* Fault: the leftover cents go to the first owners of the list.
distribute_splits_in_order(cents, splits) ==
    [i \in DOMAIN splits |->
        floored(cents, splits, splits[i].owner)
          + (IF i <= leftover_cents(cents, splits) THEN 1 ELSE 0)]

\* Every split gets the floored share of its owner and one cent for each place
\* its owner has among the leftover cents.
distribute_splits(cents, splits) ==
    [i \in DOMAIN splits |->
        floored(cents, splits, splits[i].owner)
          + Cardinality({j \in DOMAIN splits :
                /\ splits[j].owner = splits[i].owner
                /\ Place(cents, splits, j) < leftover_cents(cents, splits)})]

Total(payouts) == SumFunction(payouts)

\* compute_royalty raises unless the payouts are the pool.
compute_royalty_ok(gross, splits) ==
    Total(distribute_splits(pool(gross), splits)) = pool(gross)

\* What the ledger asks of the posting: it balances against the gross amount
\* and has no empty line.  decimal.js rounds the pool's halves up, not to the
\* even cent: that is another pool only where a fraction of a cent is left, and
\* there neither pool balances.
JournalAccepts(gross, splits) ==
    LET payouts == distribute_splits(pool(gross), splits)
    IN  /\ Total(payouts) * 100 = gross
        /\ \A i \in DOMAIN payouts : payouts[i] > 0
=============================================================================
