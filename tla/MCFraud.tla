------------------------------- MODULE MCFraud -------------------------------
(* Small instances of the fraud service. *)
EXTENDS Fraud, TLC

CONSTANTS m1, m2, w1, w2

\* A body without signals.
Plain ==
    [event_type |-> "checkout_attempt", device |-> None, email |-> None, ip |-> None, session |-> None, bin |-> None,
     creator |-> None, destination |-> None, country |-> None, billing |-> None,
     card |-> None, amount |-> 100, failed |-> FALSE, dna |-> TRUE, soulprint |-> TRUE,
     ledger |-> TRUE, accountAge |-> 30, methodAge |-> 30, changed |-> FALSE,
     duplicate |-> FALSE, spike |-> FALSE, usage |-> 0]

Failed == [Plain EXCEPT !.device = "d", !.email = "e", !.ip = "i", !.session = "s",
                        !.bin = "b", !.failed = TRUE]
Abroad == [Failed EXCEPT !.country = "US", !.billing = "DE", !.card = "FR", !.amount = 5]
Proven == [Plain EXCEPT !.event_type = "royalty_payout_request", !.device = "d", !.email = "e", !.creator = "c", !.destination = "p"]
Renamed == [Proven EXCEPT !.event_type = "payout"]
Unproven == [Proven EXCEPT !.dna = FALSE, !.soulprint = FALSE, !.ledger = FALSE]

Ask(m, k, b) == [merchant |-> m, key |-> k, body |-> b]
Old(m, type, b, score, decision, at) ==
    [merchant |-> m, type |-> type, body |-> b, score |-> score, decision |-> decision,
     reasons |-> {}, at |-> at, key |-> None, from |-> -1, scored |-> at]

\* One event short of the limits: failures, and risky payouts.
Failures == [i \in 1..2 |-> Old(m1, "checkout", Failed, 10, "approve", i - 1)]
Risky == [i \in 1..4 |-> Old(m1, "royalty", [Proven EXCEPT !.spike = TRUE, !.changed = TRUE,
                                                            !.duplicate = TRUE],
                             75, "hold_payout_review", 1)]
MCHistories == {Failures, Risky}

MCCheckouts == {Ask(m1, "k", Failed), Ask(m2, None, Abroad)}
MCPayouts == {Ask(m1, "k", Proven), Ask(m1, None, Unproven),
              Ask(m1, None, Renamed)}

Track(id, type, tag, signed) == [id |-> id, type |-> type, tag |-> tag, signed |-> signed]
MCTracks == {Track(1, "track.generated", "t", TRUE), Track(2, "track.generated", "t", TRUE),
             Track(3, "track.generated", None, TRUE), Track(4, "other", "t", TRUE)}

Symmetry == Permutations({w1, w2})
==============================================================================
