------------------------------ MODULE Planner ------------------------------
(***************************************************************************)
(* The planner: diagnosis and policy mapped to one strategy and fallback,  *)
(* a moment, channels, and the estimates that go with them.  Without the   *)
(* simulator's behaviour file, and with estimates rounded down.            *)
(***************************************************************************)
EXTENDS Policy

Fallback ==
    [WAIT_FOR_PAYDAY |-> "SEND_PAYMENT_LINK", RETRY_SILENTLY |-> "SWITCH_PAYMENT_METHOD",
     REQUEST_NEW_MANDATE |-> "ESCALATE_TO_HUMAN", SWITCH_PAYMENT_METHOD |-> "SEND_PAYMENT_LINK",
     SEND_PAYMENT_LINK |-> "ESCALATE_TO_HUMAN", RETRY_PAYMENT |-> "SEND_PAYMENT_LINK",
     HONOUR_PROMISE_TO_PAY |-> "SEND_PAYMENT_LINK", ESCALATE_TO_HUMAN |-> "STOP_RECOVERY",
     STOP_RECOVERY |-> "STOP_RECOVERY"]

\* the first row of the table whose condition holds
FirstWhere(table) == table[Min({i \in DOMAIN table : table[i][1]})][2]

StrategyOnWait(d, p) ==
    FirstWhere(<<
        <<"PROMISE_ACTIVE" \in p.codes \/ p.rule = "promise_to_pay", "HONOUR_PROMISE_TO_PAY">>,
        <<d.label \in Timeouts, "RETRY_SILENTLY">>,
        <<d.label = "INSUFFICIENT_FUNDS", "WAIT_FOR_PAYDAY">>,
        <<p.silent, "RETRY_SILENTLY">>,
        <<TRUE, "RETRY_PAYMENT">> >>)

StrategyOnAllow(d, p) ==
    FirstWhere(<<
        <<d.label = "CARD_EXPIRED", "REQUEST_NEW_MANDATE">>,
        <<d.label = "AUTHENTICATION_FAILED", "SWITCH_PAYMENT_METHOD">>,
        <<"MANDATE_EXPIRED" \in p.codes \/ d.label = "MANDATE_REVOKED", "REQUEST_NEW_MANDATE">>,
        <<"PROMISE_BROKEN" \in p.codes, "ESCALATE_TO_HUMAN">>,
        <<d.label = "INSUFFICIENT_FUNDS", "SEND_PAYMENT_LINK">>,
        <<d.label \in Timeouts, "RETRY_PAYMENT">>,
        <<d.label \in {"ALREADY_PAID", "DUPLICATE_PAYMENT"}, "STOP_RECOVERY">>,
        <<d.label = "CHARGEBACK_ACTIVE", "ESCALATE_TO_HUMAN">>,
        <<TRUE, "SEND_PAYMENT_LINK">> >>)

\* select_strategy
Strategy(d, p) ==
    CASE p.decision \in {"STOP", "DENY"} -> "STOP_RECOVERY"
      [] p.decision = "ESCALATE" -> "ESCALATE_TO_HUMAN"
      [] p.decision = "WAIT" -> StrategyOnWait(d, p)
      [] p.decision = "ALLOW" -> StrategyOnAllow(d, p)

-----------------------------------------------------------------------------
(* Timing                                                                  *)

PlanTtl == Week
OutageDelay == Hour
OutageWindow == Hour + 2

Timing == [at : Nat, from : Nat \cup {None}, to : Nat \cup {None}, expires : Nat \cup {None}]

Timed(at, from, to, expires) == [at |-> at, from |-> from, to |-> to, expires |-> expires]

\* (mutant of PromiseTiming: the date is kept, the cooldown is not)
PromiseTimingUncooled(day, until, ahead) ==
    LET Local(time) == FromLocal(At(day, time), ahead)
    IN  Timed(Local(Morning), Local(Opens), Local(Closes), Local(Closes))

\* the date is kept whatever the day, and the cooldown is kept too
PromiseTiming(day, until, ahead) ==
    LET Local(time) == FromLocal(At(day, time), ahead)
    IN  Timed(Later(Local(Morning), until), Local(Opens), Local(Closes), Local(Closes))

PaydayTiming(now, until, ahead) ==
    LET slot == PaydaySlot(ToLocal(Later(now, until), ahead))
        Local(time) == FromLocal(At(DayOf(slot), time), ahead)
        at == FromLocal(slot, ahead)
    IN  Timed(at, Local(PaydayOpens), Local(PaydayCloses), at + PlanTtl)

\* the business window by the merchant's clock
BusinessSlot(t, ahead) == FromLocal(BusinessWindow(ToLocal(t, ahead)), ahead)

\* (mutant of SilentTiming: the business window first, then the cooldown)
SilentTimingSwapped(now, until, ahead) ==
    LET slot == Later(BusinessSlot(now + OutageDelay, ahead), until)
    IN  Timed(slot, slot, slot + OutageWindow, slot + PlanTtl)

\* the service never knows when an outage ended: the delay counts from now
SilentTiming(now, until, ahead) ==
    LET slot == BusinessSlot(Later(now + OutageDelay, until), ahead)
    IN  Timed(slot, slot, slot + OutageWindow, slot + PlanTtl)

ContactTiming(now, until, ahead) ==
    LET slot == BusinessSlot(Later(now, until), ahead)
    IN  Timed(slot, slot, slot + 4 * Hour, slot + PlanTtl)

\* schedule
ScheduleOf(strategy, c, p, now) ==
    CASE strategy = "STOP_RECOVERY" -> Timed(now, None, None, None)
      [] strategy = "ESCALATE_TO_HUMAN" ->
            LET slot == BusinessSlot(Later(now, p.until), c.ahead)
            IN  Timed(slot, None, None, slot + PlanTtl)
      [] strategy = "HONOUR_PROMISE_TO_PAY" -> PromiseTiming(PromisedDay(c), p.until, c.ahead)
      [] strategy = "WAIT_FOR_PAYDAY" -> PaydayTiming(now, p.until, c.ahead)
      [] strategy = "RETRY_SILENTLY" -> SilentTiming(now, p.until, c.ahead)
      [] OTHER -> ContactTiming(now, p.until, c.ahead)

-----------------------------------------------------------------------------
(* Channels                                                                *)

Links == {"UPI_PAYMENT_LINK", "CARD_UPDATE_LINK"}
Dashboard == "DASHBOARD_NOTIFICATION"

Preferred ==
    [WAIT_FOR_PAYDAY |-> <<"SMS", "WhatsApp", "UPI_PAYMENT_LINK", "Email", Dashboard>>,
     RETRY_PAYMENT |-> <<"SMS", "UPI_PAYMENT_LINK", "WhatsApp", "Email", Dashboard>>,
     RETRY_SILENTLY |-> <<Dashboard>>,
     SEND_PAYMENT_LINK |-> <<"WhatsApp", "UPI_PAYMENT_LINK", "SMS", "Email", Dashboard>>,
     SWITCH_PAYMENT_METHOD |-> <<"WhatsApp", "CARD_UPDATE_LINK", "SMS", "Email", Dashboard>>,
     REQUEST_NEW_MANDATE |-> <<"WhatsApp", "CARD_UPDATE_LINK", "Email", "SMS", Dashboard>>,
     HONOUR_PROMISE_TO_PAY |-> <<"WhatsApp", "SMS", "Email", Dashboard>>,
     ESCALATE_TO_HUMAN |-> <<"Voice", Dashboard, "Email">>,
     STOP_RECOVERY |-> <<Dashboard>>]

\* _blocked, _allowed
Granted(p) ==
    LET contact == IF p.silent THEN {} ELSE p.allowed
    IN  contact \cup {Dashboard} \cup (IF contact \ {"Voice"} = {} THEN {} ELSE Links)

\* effectiveness less a tenth of the cost, the dashboard last
Ranking == <<"UPI_PAYMENT_LINK", "CARD_UPDATE_LINK", "WhatsApp", "SMS", "Email", "Voice", Dashboard>>

UnitCost(channel) ==
    CASE channel = "SMS" -> 15 [] channel = "WhatsApp" -> 80 [] channel = "Voice" -> 250 [] OTHER -> 0

MaxChannels == 3

Outranks(channel, other) ==
    \E i, j \in DOMAIN Ranking : i < j /\ Ranking[i] = channel /\ Ranking[j] = other

\* the first three of the preferred that are granted
Picked(preferred, granted) ==
    LET wanted == {i \in DOMAIN preferred : preferred[i] \in granted}
    IN  {preferred[i] : i \in {j \in wanted : Cardinality({k \in wanted : k < j}) < MaxChannels}}

Ranked(picked) ==
    [i \in 1 .. Cardinality(picked) |->
        CHOOSE channel \in picked : Cardinality({other \in picked : Outranks(other, channel)}) = i - 1]

\* plan_channels
ChannelsFor(strategy, p) == Ranked(Picked(Preferred[strategy], Granted(p)))

\* the other channels are free
CostOf(channels) ==
    LET costs(channel) ==
            IF \E i \in DOMAIN channels : channels[i] = channel THEN UnitCost(channel) ELSE 0
    IN  costs("SMS") + costs("WhatsApp") + costs("Voice")

-----------------------------------------------------------------------------
(* Estimates                                                               *)

SegmentProbability(segment) ==
    CASE segment = "HIGH_VALUE" -> 1200 [] segment = "LOYAL" -> 1000 [] segment = "ACTIVE" -> 600
      [] segment = "AT_RISK" -> 400 [] segment = "NEW" -> 200 [] segment = "CHURN_RISK" -> 0

\* every RETRY_PAYMENT row counts, whatever its status
PlannedRetries(c) == Cardinality(RetryRows(c))

\* estimate_probability
Probability(strategy, c, d) ==
    IF strategy = "STOP_RECOVERY" THEN 0
    ELSE Clamp((IF strategy = "ESCALATE_TO_HUMAN" THEN 2200 ELSE 1800)
               + (4 * d.confidence) \div 10 + (16 * SuccessRate(c)) \div 100
               + Points(Salaried(c) /\ strategy = "WAIT_FOR_PAYDAY", 1000)
               + SegmentProbability(c.failure.segment)
               - (800 * Min({PlannedRetries(c), 3})) \div 3
               + Points(c.failure.subscribed /\ c.failure.agedays >= 90, 500), 500, 9500)

DecisionStrength == [STOP |-> 9500, ESCALATE |-> 8800, DENY |-> 8500, WAIT |-> 8000, ALLOW |-> 7400]

\* _timing_certainty
Certainty(strategy, c, p, timing) ==
    CASE strategy = "STOP_RECOVERY" -> 9800
      [] strategy = "HONOUR_PROMISE_TO_PAY" -> 9200
      [] strategy = "WAIT_FOR_PAYDAY" -> IF Salaried(c) THEN 8800 ELSE 7000
      [] strategy = "RETRY_SILENTLY" -> 5800
      [] OTHER -> IF p.until # None THEN 8000 ELSE IF timing.from # None THEN 7200 ELSE 6400

\* estimate_strategy_confidence
StrategyConfidence(strategy, c, d, p, timing) ==
    Clamp((35 * d.confidence
           + 30 * (DecisionStrength[p.decision] + Points(p.decision = "WAIT" /\ p.until # None, 500))
           + 20 * SuccessRate(c) + 15 * Certainty(strategy, c, p, timing)) \div 100, 500, 9900)

-----------------------------------------------------------------------------
(* plan                                                                    *)

Assembled(strategy, timing, channels, probability, confidence, amount) ==
    [strategy |-> strategy,
     fallback |-> Fallback[strategy],
     at |-> timing.at, from |-> timing.from, to |-> timing.to, expires |-> timing.expires,
     channels |-> channels,
     cost |-> CostOf(channels),
     probability |-> probability,
     confidence |-> confidence,
     value |-> (amount * probability) \div 10000]

Plan(c, d, p, now) ==
    LET strategy == Strategy(d, p)
        timing == ScheduleOf(strategy, c, p, now)
    IN  Assembled(strategy, timing, ChannelsFor(strategy, p), Probability(strategy, c, d),
                  StrategyConfidence(strategy, c, d, p, timing), c.failure.amount)

\* plan_case: diagnose, evaluate, plan at one clock
PlanCase(c, now) ==
    LET d == Diagnose(c, now) IN Plan(c, d, Evaluate(c, d, now), now)
=============================================================================
