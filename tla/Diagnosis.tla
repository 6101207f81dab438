----------------------------- MODULE Diagnosis -----------------------------
(***************************************************************************)
(* The diagnosis of a failed payment: features of the case, independent    *)
(* rules, one primary label by precedence, confidence and priority.        *)
(* Weights, confidences and rates are in ten-thousandths, priorities in    *)
(* hundredths, amounts in paise.                                           *)
(***************************************************************************)
EXTENDS Calendar, Sequences

Methods == {"UPI", "CARD", "NETBANKING", "WALLET", "EMI", "MANDATE"}
Rails == {"UPI", "CARD", "NETBANKING"}
Reasons ==
    {"INSUFFICIENT_FUNDS", "BANK_TIMEOUT", "UPI_FAILURE", "CARD_EXPIRED", "MANDATE_REVOKED",
     "CUSTOMER_CANCELLED", "DISPUTE", "ALREADY_PAID", "UNKNOWN"}
Segments == {"NEW", "ACTIVE", "LOYAL", "AT_RISK", "HIGH_VALUE", "CHURN_RISK"}
Tiers == {"Premium", "Elite", "Pro", "Starter"}

\* the failed payment, the customer and the subscription of one recovery case
Failure ==
    [at : Nat, amount : Nat, method : Methods, reason : Reasons, attempt : Nat,
     segment : Segments, tier : Tiers, subscribed : BOOLEAN, agedays : Nat,
     mandate : {"ACTIVE", "EXPIRED", "REVOKED"}, cancelled : BOOLEAN,
     consent : {"GRANTED", "PENDING", "WITHDRAWN"}]

\* another payment of the customer: created and settled when, successful or not,
\* and what it has in common with the failed one
Payment ==
    [at : Nat, paid : Nat, success : BOOLEAN, common : SUBSET {"subscription", "amount", "due", "key"}]

Promise == [status : {"OPEN", "FULFILLED", "BROKEN"}, day : Nat \ {0}]

Outage == [rail : Rails, from : Nat, to : Nat]

Strategies ==
    {"WAIT_FOR_PAYDAY", "RETRY_PAYMENT", "RETRY_SILENTLY", "SEND_PAYMENT_LINK",
     "SWITCH_PAYMENT_METHOD", "REQUEST_NEW_MANDATE", "HONOUR_PROMISE_TO_PAY",
     "ESCALATE_TO_HUMAN", "STOP_RECOVERY"}

\* a row of recovery_actions: what it was planned as, and its event_time; RAN
\* stands for the statuses of a row that was dispatched
ActionRow ==
    [strategy : Strategies, planned : Nat, status : {"SCHEDULED", "RAN", "CANCELLED"}, at : Nat]

\* what _load_case reads; ahead: the merchant's timezone
Case ==
    [failure : Failure, payments : SUBSET Payment, promises : SUBSET Promise,
     outages : SUBSET Outage, actions : Seq(ActionRow), ahead : Zones]

-----------------------------------------------------------------------------
(* Features                                                                *)

UpiMethod(method) == method \in {"UPI", "MANDATE"}
CardMethod(method) == method \in {"CARD", "EMI"}

RailOf(method) ==
    IF UpiMethod(method) THEN "UPI" ELSE IF CardMethod(method) THEN "CARD" ELSE method

\* matching_outage
OutageRail(c) ==
    IF \E o \in c.outages : o.rail = RailOf(c.failure.method)
                            /\ o.from <= c.failure.at /\ c.failure.at < o.to
    THEN RailOf(c.failure.method) ELSE "none"

SameSubscription(c, p) == c.failure.subscribed /\ "subscription" \in p.common

AlreadyPaid(c) ==
    \E p \in c.payments :
        /\ p.success /\ p.paid > c.failure.at
        /\ (SameSubscription(c, p) \/ "amount" \in p.common)

DuplicateWindow == 48 * Hour

Apart(s, t) == IF s >= t THEN s - t ELSE t - s

DuplicateCaptured(c) ==
    \E p \in c.payments :
        /\ p.success /\ Apart(p.at, c.failure.at) <= DuplicateWindow
        /\ \/ "key" \in p.common
           \/ "amount" \in p.common /\ {"due", "subscription"} \cap p.common # {}

Prior(c) == {p \in c.payments : p.at < c.failure.at}
PriorSuccesses(c) == {p \in Prior(c) : p.success}

SuccessRate(c) ==
    IF Prior(c) = {} THEN 0
    ELSE (10000 * Cardinality(PriorSuccesses(c))) \div Cardinality(Prior(c))

RetryCount(c) == Max({0, c.failure.attempt - 1}) + Len(c.actions)

Salaried(c) == c.failure.segment \in {"AT_RISK", "CHURN_RISK"}

OpenPromises(c) == {p \in c.promises : p.status = "OPEN"}

DaysOverdue(c, now) == Max({0, DayOf(now) - DayOf(c.failure.at)})

-----------------------------------------------------------------------------
(* Rules: a label is in Fired with the weight of its evidence              *)

Hit(label, weight) == [label |-> label, weight |-> weight]

Expired(c) == c.failure.subscribed /\ c.failure.mandate = "EXPIRED"
Revoked(c) == c.failure.subscribed /\ c.failure.mandate = "REVOKED"
Cancelled(c) == c.failure.subscribed /\ c.failure.cancelled

BankTimeoutHit(c) ==
    LET rail == OutageRail(c)
        recorded == c.failure.reason = "BANK_TIMEOUT"
    IN  IF rail \in {"CARD", "NETBANKING"} \/ (recorded /\ rail # "none")
        THEN {Hit("BANK_TIMEOUT", 8200)}
        ELSE IF recorded /\ ~UpiMethod(c.failure.method) THEN {Hit("BANK_TIMEOUT", 5500)} ELSE {}

UpiTimeoutHit(c) ==
    IF OutageRail(c) = "UPI" THEN {Hit("UPI_TIMEOUT", 8300)}
    ELSE IF /\ c.failure.reason = "UPI_FAILURE" /\ Weekend(DayOf(c.failure.at))
            /\ UpiMethod(c.failure.method)
    THEN {Hit("UPI_TIMEOUT", 4800)} ELSE {}

\* (mutant of Authentication: retries of every method count)
AuthenticationOfAnyMethod(c) ==
    /\ OutageRail(c) = "none"
    /\ c.failure.reason = "UPI_FAILURE" \/ RetryCount(c) >= 2

Authentication(c) ==
    /\ OutageRail(c) = "none"
    /\ \/ c.failure.reason = "UPI_FAILURE"
       \/ UpiMethod(c.failure.method) /\ RetryCount(c) >= 2

SalarySqueeze(c) == Salaried(c) /\ PrePayday(DayOf(c.failure.at))

\* the weight is shared out among evidence items, which add up to it
FundsHit(c) ==
    IF SalarySqueeze(c) THEN {Hit("INSUFFICIENT_FUNDS", 7800)}
    ELSE IF c.failure.reason = "INSUFFICIENT_FUNDS" THEN {Hit("INSUFFICIENT_FUNDS", 6000)} ELSE {}

When(condition, label, weight) == IF condition THEN {Hit(label, weight)} ELSE {}

Fired(c) ==
    UNION {
        When(AlreadyPaid(c), "ALREADY_PAID", 9000),
        When(DuplicateCaptured(c), "DUPLICATE_PAYMENT", 8500),
        When(c.failure.reason = "DISPUTE", "CHARGEBACK_ACTIVE", 8800),
        When(Cancelled(c) \/ c.failure.reason = "CUSTOMER_CANCELLED", "CUSTOMER_CANCELLED", 8600),
        When(\/ Revoked(c) \/ c.failure.reason = "MANDATE_REVOKED"
             \/ Expired(c) /\ ~CardMethod(c.failure.method), "MANDATE_REVOKED", 8700),
        When(\/ c.failure.reason = "CARD_EXPIRED"
             \/ Expired(c) /\ CardMethod(c.failure.method), "CARD_EXPIRED", 8400),
        BankTimeoutHit(c), UpiTimeoutHit(c),
        When(Authentication(c), "AUTHENTICATION_FAILED", 6200),
        FundsHit(c)}

Precedence ==
    <<"ALREADY_PAID", "DUPLICATE_PAYMENT", "CHARGEBACK_ACTIVE", "CUSTOMER_CANCELLED",
      "MANDATE_REVOKED", "CARD_EXPIRED", "BANK_TIMEOUT", "UPI_TIMEOUT",
      "AUTHENTICATION_FAILED", "INSUFFICIENT_FUNDS", "UNKNOWN">>

Labels == {Precedence[i] : i \in DOMAIN Precedence}

\* _pick_primary
Primary(c) ==
    LET fired == {hit.label : hit \in Fired(c)} \cup {"UNKNOWN"}
    IN  Precedence[Min({i \in DOMAIN Precedence : Precedence[i] \in fired})]

-----------------------------------------------------------------------------
(* Scores                                                                  *)

Clamp(value, low, high) == Max({low, Min({high, value})})

Timeouts == {"BANK_TIMEOUT", "UPI_TIMEOUT"}

ReasonLabel(reason) ==
    CASE reason = "UPI_FAILURE" -> "UPI_TIMEOUT"
      [] reason = "DISPUTE" -> "CHARGEBACK_ACTIVE"
      [] OTHER -> reason

ReasonMatches(c, label) ==
    \/ ReasonLabel(c.failure.reason) = label
    \/ c.failure.reason = "UPI_FAILURE" /\ label = "AUTHENTICATION_FAILED"

Points(condition, points) == IF condition THEN points ELSE 0

Evidence(c, label) == {hit.weight : hit \in {h \in Fired(c) : h.label = label}}

\* score_confidence: the base, the evidence of the primary rule, and what else
\* speaks for the label
Support(c, label) ==
    2000 + (35 * Max(Evidence(c, label) \cup {0})) \div 100
    + Points(ReasonMatches(c, label), 2800)
    + Points(OutageRail(c) # "none" /\ label \in Timeouts, 2200)
    + Points(SuccessRate(c) >= 5000 /\ label = "INSUFFICIENT_FUNDS", 1200)
    + Points(RetryCount(c) > 0 /\ label \in Timeouts \cup {"AUTHENTICATION_FAILED"}, 800)
    + Points((Expired(c) \/ Revoked(c)) /\ label \in {"MANDATE_REVOKED", "CARD_EXPIRED"}, 1000)
    + Points(Salaried(c) /\ label = "INSUFFICIENT_FUNDS", 1000)

Confidence(c, label) == Clamp(Support(c, label), 500, 9900)

SegmentPoints(segment) ==
    CASE segment = "HIGH_VALUE" -> 2500 [] segment = "LOYAL" -> 1800 [] segment = "AT_RISK" -> 1600
      [] segment = "ACTIVE" -> 1200 [] segment = "CHURN_RISK" -> 1000 [] segment = "NEW" -> 800
TierPoints == [Premium |-> 1000, Elite |-> 800, Pro |-> 500, Starter |-> 200]

\* score_priority
Priority(c, now) ==
    Clamp(Min({3000, c.failure.amount \div 100})
          + SegmentPoints(c.failure.segment)
          + Min({2000, 200 * DaysOverdue(c, now)})
          + Min({1000, 300 * RetryCount(c)})
          + TierPoints[c.failure.tier]
          + Points(OpenPromises(c) # {}, 800)
          + Points(SuccessRate(c) >= 4000, 500), 0, 10000)

\* diagnose
Diagnose(c, now) ==
    LET label == Primary(c)
    IN  [label |-> label, confidence |-> Confidence(c, label), priority |-> Priority(c, now)]
=============================================================================
