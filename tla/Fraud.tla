-------------------------------- MODULE Fraud --------------------------------
(***************************************************************************)
(* The fraud service: risk decisions for checkouts and royalty payouts     *)
(* (services/fraud/archisynapse_fraud_mvp.py) and the spine receiver that  *)
(* mints birth certificates in the same process and database               *)
(* (services/fraud/spine_receiver.py).                                     *)
(*                                                                         *)
(* A request reads, scores, commits its event and commits its idempotency  *)
(* record in steps of their own.  Hashes of identifiers are the            *)
(* identifiers; None is an absent one.  Events are never deleted, so a     *)
(* SELECT sees a prefix of the table.                                      *)
(***************************************************************************)
EXTENDS Integers, Sequences, FiniteSetsExt, Functions

CONSTANTS
    Merchants,
    Workers,        \* concurrent requests
    Checkouts,      \* POST /risk/checkout requests: merchant, key, body
    Payouts,        \* POST /risk/royalty requests: merchant, key, body
    Tracks,         \* POST /api/v1/events requests: id, type, tag, signed
    Histories,      \* fraud_events tables the service may start with
    Short, Medium, Day, \* ten minutes, one hour and one day in ticks of the clock
    MaxRequests, MaxTime, MaxCrashes,
    None

VARIABLES
    merchants,      \* merchants with an API key
    events,         \* fraud_events
    records,        \* idempotency_records
    spine,          \* spine_events
    certificates,   \* birth_certificates
    worker,         \* requests at work
    now,
    requests,       \* requests so far (bounded)
    crashes,        \* restarts so far (bounded)
    answers,        \* decisions answered (history)
    seals,          \* seals answered (history)
    lapsed          \* keys whose requests overlapped or died (history)

tables == <<merchants, events, records, spine, certificates>>
history == <<answers, seals, lapsed>>
fraudVars == <<tables, worker, now, requests, crashes, history>>

ASSUME FraudAssumption ==
    /\ Short \in Nat /\ Medium \in Nat /\ Day \in Nat
    /\ Short <= Medium /\ Medium <= Day
    /\ MaxRequests \in Nat /\ MaxTime \in Nat /\ MaxCrashes \in Nat

NoWork == [pc |-> "idle"]

FraudInit ==
    /\ events \in Histories
    /\ merchants = {events[i].merchant : i \in DOMAIN events}
    /\ records = {}
    /\ spine = {}
    /\ certificates = {}
    /\ worker = [w \in Workers |-> NoWork]
    /\ now = Max({events[i].at : i \in DOMAIN events} \cup {0})
    /\ requests = 0
    /\ crashes = 0
    /\ answers = {}
    /\ seals = {}
    /\ lapsed = {}

-----------------------------------------------------------------------------
(* Risk engines. *)

CheckoutWeight ==
    [same_device_many_failed_payments |-> 35, high_ip_velocity |-> 25,
     same_email_multiple_failures |-> 20, issuer_pattern_multiple_failures |-> 25,
     checkout_session_reuse_abuse |-> 20, billing_card_country_mismatch |-> 15,
     ip_billing_country_mismatch |-> 15, small_amount_testing_pattern |-> 10,
     payment_failed |-> 10]

\* Fault: one proof weighs less.
RoyaltyWeightLighter ==
    [dna_not_verified |-> 25, soulprint_not_verified |-> 30, ledger_record_missing |-> 25,
     new_creator_account |-> 20, new_payout_method |-> 25,
     payout_destination_changed_recently |-> 25, duplicate_payout_destination |-> 25,
     sudden_usage_spike |-> 25, large_usage_on_new_creator_account |-> 20,
     high_creator_payout_request_velocity |-> 15, payout_destination_velocity |-> 15,
     device_linked_to_prior_risky_events |-> 20, email_linked_to_prior_risky_events |-> 20]

RoyaltyWeight ==
    [dna_not_verified |-> 35, soulprint_not_verified |-> 30, ledger_record_missing |-> 25,
     new_creator_account |-> 20, new_payout_method |-> 25,
     payout_destination_changed_recently |-> 25, duplicate_payout_destination |-> 25,
     sudden_usage_spike |-> 25, large_usage_on_new_creator_account |-> 20,
     high_creator_payout_request_velocity |-> 15, payout_destination_velocity |-> 15,
     device_linked_to_prior_risky_events |-> 20, email_linked_to_prior_risky_events |-> 20]

\* The signals that count earlier events, with their thresholds.
Threshold ==
    [same_device_many_failed_payments |-> 3, high_ip_velocity |-> 10,
     same_email_multiple_failures |-> 3, issuer_pattern_multiple_failures |-> 5,
     checkout_session_reuse_abuse |-> 6, high_creator_payout_request_velocity |-> 5,
     payout_destination_velocity |-> 5, device_linked_to_prior_risky_events |-> 3,
     email_linked_to_prior_risky_events |-> 3]

Same(a, b) == a # None /\ a = b

\* The event_type column is what the caller called the event, whichever endpoint
\* it asked; it says "royalty_payout_request" only if the caller does.
PayoutRow(x) == x.body.event_type = "royalty_payout_request"

\* Row x counts for signal r of a request with body b that is scored at time t.
Counts(r, b, x, t) ==
    CASE r = "same_device_many_failed_payments" ->
            Same(b.device, x.body.device) /\ x.body.failed /\ x.at >= t - Short
      [] r = "high_ip_velocity" -> Same(b.ip, x.body.ip) /\ x.at >= t - Short
      [] r = "same_email_multiple_failures" ->
            Same(b.email, x.body.email) /\ x.body.failed /\ x.at >= t - Medium
      [] r = "issuer_pattern_multiple_failures" ->
            Same(b.bin, x.body.bin) /\ x.body.failed /\ x.at >= t - Short
      [] r = "checkout_session_reuse_abuse" ->
            Same(b.session, x.body.session) /\ x.at >= t - Short
      [] r = "high_creator_payout_request_velocity" ->
            Same(b.creator, x.body.creator) /\ PayoutRow(x) /\ x.at >= t - Day
      [] r = "payout_destination_velocity" ->
            Same(b.destination, x.body.destination) /\ PayoutRow(x) /\ x.at >= t - Day
      [] r = "device_linked_to_prior_risky_events" ->
            Same(b.device, x.body.device) /\ x.score >= 60 /\ x.at >= t - Day
      [] r = "email_linked_to_prior_risky_events" ->
            Same(b.email, x.body.email) /\ x.score >= 60 /\ x.at >= t - Day

\* Fault: the events of every merchant are counted.
CountedOfAll(m, r, b, n, t) ==
    Cardinality({i \in 1..n : Counts(r, b, events[i], t)})

\* The events of merchant m that signal r counts among the first n rows.
Counted(m, r, b, n, t) ==
    Cardinality({i \in 1..n : events[i].merchant = m /\ Counts(r, b, events[i], t)})

Differ(a, b) == a # None /\ b # None /\ a # b

\* The signals a checkout carries itself.
CheckoutSigns(b) ==
    {r \in DOMAIN CheckoutWeight :
        CASE r = "billing_card_country_mismatch" -> Differ(b.billing, b.card)
          [] r = "ip_billing_country_mismatch" -> Differ(b.country, b.billing)
          [] r = "small_amount_testing_pattern" -> 0 < b.amount /\ b.amount <= 5
          [] r = "payment_failed" -> b.failed
          [] OTHER -> FALSE}

\* The signals a payout request carries itself.
RoyaltySigns(b) ==
    {r \in DOMAIN RoyaltyWeight :
        CASE r = "dna_not_verified" -> ~b.dna
          [] r = "soulprint_not_verified" -> ~b.soulprint
          [] r = "ledger_record_missing" -> ~b.ledger
          [] r = "new_creator_account" -> b.accountAge < 7
          [] r = "new_payout_method" -> b.methodAge < 3
          [] r = "payout_destination_changed_recently" -> b.changed
          [] r = "duplicate_payout_destination" -> b.duplicate
          [] r = "sudden_usage_spike" -> b.spike
          [] r = "large_usage_on_new_creator_account" ->
                b.usage >= 10000 /\ b.accountAge < 14
          [] OTHER -> FALSE}

Weights(type) == IF type = "checkout" THEN CheckoutWeight ELSE RoyaltyWeight
Signs(type, b) == IF type = "checkout" THEN CheckoutSigns(b) ELSE RoyaltySigns(b)
Velocity(type) == DOMAIN Weights(type) \cap DOMAIN Threshold

RiskScore(type, reasons) ==
    Min({100, SumFunctionOnSet(Weights(type), reasons)})

Decision(type, score) ==
    IF type = "checkout"
    THEN CASE score >= 80 -> "block"
           [] score >= 60 /\ score < 80 -> "manual_review"
           [] score >= 35 /\ score < 60 -> "step_up_verification"
           [] OTHER -> "approve"
    ELSE CASE score >= 85 -> "block_payout"
           [] score >= 65 /\ score < 85 -> "hold_payout_review"
           [] score >= 40 /\ score < 65 -> "delay_payout_72h"
           [] OTHER -> "release_payout"

Response(type, reasons) ==
    LET score == RiskScore(type, reasons)
    IN  [score |-> score, decision |-> Decision(type, score), reasons |-> reasons]

-----------------------------------------------------------------------------
(* POST /risk/checkout and POST /risk/royalty. *)

RecordKey(type, q) == <<q.merchant, type, q.key>>

create_merchant(m) ==
    /\ m \notin merchants
    /\ merchants' = merchants \cup {m}
    /\ UNCHANGED <<events, records, spine, certificates, worker, now, requests,
                   crashes, history>>

\* Fault: the endpoint is not part of the look-up.
check_idempotency_any(type, q) ==
    {x \in records : x.key[1] = q.merchant /\ x.key[3] = q.key}

check_idempotency(type, q) == {x \in records : x.key = RecordKey(type, q)}

Admit(w) == worker[w] = NoWork /\ requests < MaxRequests /\ requests' = requests + 1

InFlight(key) ==
    \E w \in Workers : worker[w].pc \in {"score", "save", "store"} /\ worker[w].key = key

\* The API key is checked and the idempotency record looked up.
Begin(w, type, q) ==
    LET found == check_idempotency(type, q) IN
    /\ Admit(w)
    /\ q.merchant \in merchants
    /\ \/ /\ \E x \in found :
               answers' = answers \cup {[key |-> RecordKey(type, q), response |-> x.response]}
          /\ UNCHANGED <<worker, lapsed>>
       \/ /\ found = {}
          /\ worker' = [worker EXCEPT ![w] =
                [pc |-> "score", type |-> type, q |-> q, key |-> RecordKey(type, q),
                 from |-> Len(events), at |-> now]]
          /\ lapsed' = IF q.key # None /\ InFlight(RecordKey(type, q))
                       THEN lapsed \cup {RecordKey(type, q)} ELSE lapsed
          /\ UNCHANGED answers
    /\ UNCHANGED <<tables, now, crashes, seals>>

\* calculate_checkout_risk and calculate_royalty_risk: every count is a SELECT
\* of its own, on the rows that are committed by then.
Calculate(w) ==
    LET q == worker[w].q
        type == worker[w].type
    IN  /\ worker[w].pc = "score"
        /\ \E seen \in [Velocity(type) -> worker[w].from .. Len(events)] :
             LET counted == {r \in Velocity(type) :
                               Counted(q.merchant, r, q.body, seen[r], worker[w].at) >= Threshold[r]}
             IN  worker' = [worker EXCEPT ![w] =
                   [pc |-> "save", type |-> type, q |-> q, key |-> @.key,
                    from |-> @.from, at |-> @.at,
                    response |-> Response(type, Signs(type, q.body) \cup counted)]]
        /\ UNCHANGED <<tables, now, requests, crashes, history>>

\* One commit; without an idempotency key the answer follows.  The body is
\* stored as the caller sent it; the endpoint shows in the decision alone.
save_event(w) ==
    LET q == worker[w].q
        response == worker[w].response
    IN  /\ worker[w].pc = "save"
        /\ events' = Append(events,
             [merchant |-> q.merchant, type |-> worker[w].type, body |-> q.body,
              score |-> response.score, decision |-> response.decision,
              reasons |-> response.reasons, at |-> now,
              key |-> q.key, from |-> worker[w].from, scored |-> worker[w].at])
        /\ IF q.key # None
           THEN worker' = [worker EXCEPT ![w].pc = "store"] /\ UNCHANGED answers
           ELSE /\ worker' = [worker EXCEPT ![w] = NoWork]
                /\ answers' = answers \cup {[key |-> worker[w].key, response |-> response]}
        /\ UNCHANGED <<merchants, records, spine, certificates, now, requests, crashes,
                       seals, lapsed>>

\* Another commit; no constraint keeps a second record of a key out.
store_idempotency(w) ==
    LET x == [key |-> worker[w].key, response |-> worker[w].response] IN
    /\ worker[w].pc = "store"
    /\ records' = records \cup {x}
    /\ answers' = answers \cup {x}
    /\ worker' = [worker EXCEPT ![w] = NoWork]
    /\ UNCHANGED <<merchants, events, spine, certificates, now, requests, crashes, seals, lapsed>>

-----------------------------------------------------------------------------
(* POST /api/v1/events: the spine receiver. *)

Mints(t) == t.type = "track.generated"

CertificateOf(tag) == {c \in certificates : c.tag = tag}

Seal(t, seal) == seals' = seals \cup {[tag |-> t.tag, seal |-> seal]}

\* A known event is answered with the certificate it minted, if any; a new one
\* has to be signed.
receive_event(w, t) ==
    LET known == {x \in spine : x.id = t.id} IN
    /\ Admit(w)
    /\ \/ /\ \E x \in known :
               Seal(x, IF \E c \in certificates : c.event = x.id
                       THEN (CHOOSE c \in certificates : c.event = x.id).seal ELSE None)
          /\ UNCHANGED worker
       \/ /\ known = {}
          /\ t.signed
          /\ worker' = [worker EXCEPT ![w] = [pc |-> "certificate", track |-> t]]
          /\ UNCHANGED seals
    /\ UNCHANGED <<tables, now, crashes, answers, lapsed>>

\* A track without tag is refused and leaves nothing; a track that has its
\* certificate is recorded without another one.
LookUpCertificate(w) ==
    LET t == worker[w].track IN
    /\ worker[w].pc = "certificate"
    /\ worker' = [worker EXCEPT ![w] =
         IF Mints(t) /\ t.tag = None THEN NoWork
         ELSE [pc |-> IF Mints(t) /\ CertificateOf(t.tag) = {} THEN "mint" ELSE "record",
               track |-> t]]
    /\ UNCHANGED <<tables, now, requests, crashes, history>>

\* Fault: the event is committed before its certificate.
CommitTrackFirst(w) ==
    LET t == worker[w].track IN
    /\ worker[w].pc \in {"mint", "record"}
    /\ spine' = spine \cup {t}
    /\ worker' = [worker EXCEPT ![w] = NoWork]
    /\ UNCHANGED <<merchants, events, records, certificates, now, requests, crashes, history>>

\* Record and certificate in one commit; event ids and tags are UNIQUE, so the
\* slower of two writers is rolled back (HTTP 500).
CommitTrack(w) ==
    LET t == worker[w].track
        mint == worker[w].pc = "mint"
    IN  /\ worker[w].pc \in {"mint", "record"}
        /\ worker' = [worker EXCEPT ![w] = NoWork]
        /\ IF (\E x \in spine : x.id = t.id) \/ (mint /\ CertificateOf(t.tag) # {})
           THEN UNCHANGED <<spine, certificates, seals>>
           ELSE /\ spine' = spine \cup {t}
                /\ certificates' = IF mint
                     THEN certificates \cup {[tag |-> t.tag, event |-> t.id, seal |-> t]}
                     ELSE certificates
                /\ Seal(t, IF mint THEN t
                           ELSE IF Mints(t) THEN (CHOOSE c \in CertificateOf(t.tag) : TRUE).seal
                           ELSE None)
        /\ UNCHANGED <<merchants, events, records, now, requests, crashes, answers, lapsed>>

\* verify_certificate recomputes the seal from the recorded event.
verify_certificate(c) == \E x \in spine : x.id = c.event /\ x.signed /\ c.seal = x

-----------------------------------------------------------------------------
Tick ==
    /\ now < MaxTime
    /\ now' = now + 1
    /\ UNCHANGED <<tables, worker, requests, crashes, history>>

\* The process dies between two commits; its clients never hear of it.
Restart ==
    /\ crashes < MaxCrashes
    /\ \E w \in Workers : worker[w] # NoWork
    /\ crashes' = crashes + 1
    /\ worker' = [w \in Workers |-> NoWork]
    /\ lapsed' = lapsed \cup {worker[w].key : w \in {v \in Workers : worker[v].pc = "store"}}
    /\ UNCHANGED <<tables, now, requests, answers, seals>>

FraudNext ==
    \/ \E m \in Merchants : create_merchant(m)
    \/ \E w \in Workers :
         \/ \E q \in Checkouts : Begin(w, "checkout", q)
         \/ \E q \in Payouts : Begin(w, "royalty", q)
         \/ \E t \in Tracks : receive_event(w, t)
         \/ Calculate(w) \/ save_event(w) \/ store_idempotency(w)
         \/ LookUpCertificate(w) \/ CommitTrack(w)
    \/ Tick
    \/ Restart

FraudSpec == FraudInit /\ [][FraudNext]_fraudVars

-----------------------------------------------------------------------------
(* Properties. *)

DecisionsOf(type) ==
    IF type = "checkout"
    THEN {"approve", "step_up_verification", "manual_review", "block"}
    ELSE {"release_payout", "delay_payout_72h", "hold_payout_review", "block_payout"}

\* The rows of the tables.
Endpoints == {"checkout", "royalty"}
Asks == Checkouts \cup Payouts
AskKeys == {q.key : q \in Asks} \cup {None}
AskBodies == {q.body : q \in Asks} \cup UNION {{h[i].body : i \in DOMAIN h} : h \in Histories}
Reasons == DOMAIN CheckoutWeight \cup DOMAIN RoyaltyWeight
Decided == [score : 0..100, decision : DecisionsOf("checkout") \cup DecisionsOf("royalty"),
            reasons : SUBSET Reasons]
Event == [merchant : Merchants, type : Endpoints, body : AskBodies, score : 0..100,
          decision : DecisionsOf("checkout") \cup DecisionsOf("royalty"),
          reasons : SUBSET Reasons, at : Nat, key : AskKeys, from : Int, scored : Nat]
RecordKeys == Merchants \X Endpoints \X AskKeys
Answered == [key : RecordKeys, response : Decided]

\* What a request holds: before it is scored, after, and when it records a track.
Asked == [pc : {"score"}, type : Endpoints, q : Asks, key : RecordKeys, from : Nat, at : Nat]
Scored == [pc : {"save", "store"}, type : Endpoints, q : Asks, key : RecordKeys, from : Nat,
           at : Nat, response : Decided]
Tracked == [pc : {"certificate", "mint", "record"}, track : Tracks]

\* The service starts with rows that no request under way can have written.
ASSUME HistoryAssumption ==
    /\ \A q \in Asks : q.merchant \in Merchants
    /\ \A h \in Histories :
         /\ h \in Seq(Event)
         /\ \A i \in DOMAIN h : h[i].from < 0 /\ h[i].decision \in DecisionsOf(h[i].type)

\* The tables and what the requests hold.
FraudTypeOK ==
    /\ merchants \subseteq Merchants
    /\ events \in Seq(Event)
    /\ \A i \in DOMAIN events :
         /\ events[i].merchant \in merchants
         /\ events[i].decision \in DecisionsOf(events[i].type)
         /\ events[i].at <= now
    /\ records \subseteq Answered
    /\ spine \subseteq Tracks
    /\ worker \in [Workers -> {NoWork} \cup Asked \cup Scored \cup Tracked]
    /\ now \in Nat /\ requests \in Nat /\ crashes \in Nat
    /\ answers \subseteq Answered

\* The velocity signals of an event of type, on the merchant's own rows alone.
OwnVelocity(m, type, body, n, t) ==
    LET own == Restrict(events, {i \in 1..n : events[i].merchant = m})
    IN  {r \in Velocity(type) :
            Cardinality({i \in DOMAIN own : Counts(r, body, own[i], t)}) >= Threshold[r]}

\* A decision counts the merchant's own events and no one else's: every signal
\* that the merchant's rows justified when the request came in is in the stored
\* reasons, and no signal is that they do not justify when the event is saved,
\* however the requests of all merchants interleave.  The two payout signals
\* count the rows that were called payout requests by their callers, so a payout
\* asked for under another event_type raises neither for those after it
\* (calculate_checkout_risk, calculate_royalty_risk, save_event).
VelocityIsTheMerchantsOwn ==
    \A i \in DOMAIN events : events[i].from >= 0 =>
        LET x == events[i]
            found == x.reasons \cap Velocity(x.type)
        IN  /\ OwnVelocity(x.merchant, x.type, x.body, x.from, x.scored) \subseteq found
            /\ found \subseteq OwnVelocity(x.merchant, x.type, x.body, i - 1, x.scored)

\* A payout without any of its three proofs is always blocked; one with all of
\* them and nothing against its creator is never blocked by the velocity of
\* earlier requests alone, only held (calculate_royalty_risk's weights and
\* limits).
ProofsDecidePayouts ==
    \A i \in DOMAIN events : events[i].from >= 0 /\ events[i].type = "royalty" =>
        LET x == events[i]
        IN  /\ ~x.body.dna /\ ~x.body.soulprint /\ ~x.body.ledger => x.decision = "block_payout"
            /\ RoyaltySigns(x.body) = {} => x.decision # "block_payout"

\* A key whose requests never overlapped and never died after the commit of
\* their event is scored once and answered the same ever after; every answer is
\* a decision of the endpoint that was asked, for the merchant that asked
\* (check_idempotency, store_idempotency).
StableAnswer ==
    /\ \A a \in answers : a.response.decision \in DecisionsOf(a.key[2])
    /\ \A a, b \in answers :
         a.key = b.key /\ a.key[3] # None /\ a.key \notin lapsed => a = b
    /\ \A i, j \in DOMAIN events :
         /\ events[i].from >= 0 /\ events[j].from >= 0
         /\ events[i].key = events[j].key /\ events[i].key # None
         /\ events[i].merchant = events[j].merchant /\ events[i].type = events[j].type
         /\ <<events[i].merchant, events[i].type, events[i].key>> \notin lapsed
         => i = j

\* Every recorded track has a certificate, one per tag, minted by a recorded
\* and signed event whose seal still verifies, and no other seal is ever
\* answered, whatever the order of two events of one track (receive_event).
CertificatesHold ==
    /\ \A c \in certificates : verify_certificate(c) /\ c.seal.tag = c.tag
    /\ \A c, d \in certificates : c.tag = d.tag => c = d
    /\ \A t \in spine : Mints(t) => CertificateOf(t.tag) # {}
    /\ \A a \in seals : a.seal # None => \E c \in CertificateOf(a.tag) : c.seal = a.seal
=============================================================================
