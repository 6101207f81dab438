------------------------- MODULE RecoveryDecisions -------------------------
(***************************************************************************)
(* One recovery case over time: its facts change, requests and ticks of    *)
(* the scheduler decide afresh (diagnose, evaluate, plan) and write rows   *)
(* of actions that the next decision reads, and explanations of the        *)
(* decision are served from a cache.                                       *)
(***************************************************************************)
EXTENDS Planner

CONSTANTS
    InitialCases,       \* the cases as first decided on
    Instants,           \* the moments at which something may happen
    Kinds,              \* kinds of explanation asked for
    PromiseDays,        \* the days that are promised
    Timezones,          \* the timezones a merchant may move to
    MaxRows,            \* bound: rows of actions that are added
    MaxFacts            \* bound: facts that change

ASSUME DecisionConstants ==
    /\ InitialCases \subseteq Case
    /\ \A c \in InitialCases : IsFiniteSet(c.payments) /\ IsFiniteSet(c.promises)
    /\ Instants \subseteq {t \in Nat : t >= Day} /\ Instants # {}
    /\ PromiseDays \subseteq Nat \ {0} /\ Timezones \subseteq Zones
    /\ MaxRows \in Nat /\ MaxFacts \in Nat

VARIABLES
    now,
    case,               \* the rows of the database
    cache,              \* kind of explanation -> entry, process-local
    finalSince          \* history: when recovery had to end

vars == <<now, case, cache, finalSince>>

CacheTtl == Day

\* the part of an explanation the engines decide, the rupees a customer is asked
\* for, and when it was made; the prose is Gemini's or the template's
Explanation == [strategy : Strategies, asks : Nat, made : Nat]

TypeOK ==
    /\ now \in Instants
    /\ case \in Case
    /\ DOMAIN cache \subseteq Kinds /\ \A kind \in DOMAIN cache : cache[kind] \in Explanation
    /\ finalSince \in Nat \cup {None}

-----------------------------------------------------------------------------
(* Deciding                                                                *)

Diagnosed(c, t) == Diagnose(c, t)
Decision(c, t) == Evaluate(c, Diagnosed(c, t), t)
Planned(c, t) == PlanCase(c, t)

WaitStrategies == {"WAIT_FOR_PAYDAY", "HONOUR_PROMISE_TO_PAY"}
Blocked == {"STOP", "DENY"}

\* evaluate_gates: when the plan may be acted on
ActAt(strategy, at, p, t) ==
    IF p.until > t THEN Later(at, p.until)
    ELSE IF p.decision = "WAIT" \/ strategy \in WaitStrategies THEN Later(at, t)
    ELSE t

RowsOf(c, strategy, planned) ==
    {i \in DOMAIN c.actions : c.actions[i].strategy = strategy /\ c.actions[i].planned = planned}

Put(c, row) ==
    LET same == RowsOf(c, row.strategy, row.planned)
    IN  IF same = {} THEN [c EXCEPT !.actions = Append(@, row)]
        ELSE [c EXCEPT !.actions = [i \in DOMAIN @ |-> IF i \in same THEN row ELSE @[i]]]

Refused(p, strategy) ==
    \/ p.decision \in Blocked
    \/ p.decision = "ESCALATE" /\ strategy # "ESCALATE_TO_HUMAN"

\* (mutant of StatusOf: a replay skips the gates altogether)
StatusOfReplay(p, strategy, actAt, replay) ==
    IF replay THEN "RAN"
    ELSE IF Refused(p, strategy) THEN "CANCELLED"
    ELSE IF actAt > now THEN "SCHEDULED" ELSE "RAN"

\* what the policy refuses is cancelled; a plan for later is scheduled, unless it is
\* replayed
StatusOf(p, strategy, actAt, replay) ==
    IF Refused(p, strategy) THEN "CANCELLED"
    ELSE IF actAt > now /\ ~replay THEN "SCHEDULED" ELSE "RAN"

\* a row of the same plan that is not waiting is left as it is
Written(c, strategy, at, actAt, status) ==
    IF \E i \in RowsOf(c, strategy, at) : c.actions[i].status # "SCHEDULED" THEN c
    ELSE Put(c, [strategy |-> strategy, planned |-> at, status |-> status,
                 at |-> CASE status = "RAN" -> now [] status = "SCHEDULED" -> actAt [] OTHER -> at])

\* run
Run(c, strategy, at, replay) ==
    LET p == Decision(c, now)
        actAt == ActAt(strategy, at, p, now)
    IN  Written(c, strategy, at, actAt, StatusOf(p, strategy, actAt, replay))

\* (mutant of AfterWait: the label of the page is stored as the status)
AfterWaitShown(c, i) == [c EXCEPT !.actions[i].status = "SUCCESS", !.actions[i].at = now]

\* a wait that is over is followed by the fallback of today's plan
AfterWait(c, i) ==
    LET ran == [c EXCEPT !.actions[i].status = "RAN", !.actions[i].at = now]
        fallback == Planned(c, now).fallback
    IN  IF fallback \in WaitStrategies THEN ran ELSE Run(ran, fallback, now, FALSE)

Due(i) == case.actions[i].status = "SCHEDULED" /\ case.actions[i].at <= now

-----------------------------------------------------------------------------
(* Explaining                                                              *)

\* (mutant of Fresh: entries never expire)
AlwaysFresh(entry) == entry.made <= now

Fresh(entry) == now < entry.made + CacheTtl

\* customers are asked for what is expected to be recovered
AskedRupees(plan) == plan.value \div 100

EntryOf(plan) == [strategy |-> plan.strategy, asks |-> AskedRupees(plan), made |-> now]

\* what is served for a kind: the entry, or a new one for the strategy in force
Served(kind) ==
    IF kind \in DOMAIN cache /\ Fresh(cache[kind]) THEN cache[kind]
    ELSE EntryOf(Planned(case, now))

-----------------------------------------------------------------------------
(* Facts that end recovery                                                 *)

Final(c) ==
    \/ AlreadyPaid(c)
    \/ c.failure.consent = "WITHDRAWN"
    \/ Revoked(c) \/ Cancelled(c)
    \/ \E p \in c.promises : p.status = "FULFILLED"

SinceOf(c) == IF finalSince = None /\ Final(c) THEN now ELSE finalSince

-----------------------------------------------------------------------------
Init ==
    /\ now = Min(Instants)
    /\ case \in InitialCases
    /\ cache = <<>>
    /\ finalSince = IF Final(case) THEN Min(Instants) ELSE None

RoomForRows ==
    Cardinality({i \in DOMAIN case.actions : case.actions[i].planned >= Min(Instants)}) < MaxRows

\* POST execute
Execute ==
    /\ RoomForRows
    /\ LET plan == Planned(case, now) IN case' = Run(case, plan.strategy, plan.at, FALSE)
    /\ UNCHANGED <<now, cache, finalSince>>

\* tick_due, for a row of a wait
TickWait(i) ==
    /\ Due(i) /\ case.actions[i].strategy \in WaitStrategies
    /\ RoomForRows
    /\ case' = AfterWait(case, i)
    /\ UNCHANGED <<now, cache, finalSince>>

\* tick_due, for any other row: today's plan runs, whatever the row was for
TickRetry(i) ==
    /\ Due(i) /\ case.actions[i].strategy \notin WaitStrategies
    /\ RoomForRows
    /\ LET plan == Planned(case, now) IN case' = Run(case, plan.strategy, plan.at, TRUE)
    /\ UNCHANGED <<now, cache, finalSince>>

Tick == \E i \in DOMAIN case.actions : TickWait(i) \/ TickRetry(i)

\* explain_*: what Gemini wrote is kept like the template used without it
Explain(kind) ==
    /\ cache' = [k \in DOMAIN cache \cup {kind} |-> IF k = kind THEN Served(kind) ELSE cache[k]]
    /\ UNCHANGED <<now, case, finalSince>>

\* what has happened to the case
Facts(c) ==
    Cardinality(c.payments) + Cardinality(c.promises)
    + Cardinality({p \in c.promises : p.status # "OPEN"})
    + Points(c.failure.consent = "WITHDRAWN", 1) + Points(c.failure.cancelled, 1)
    + Points(c.failure.mandate = "REVOKED", 1) + Points(c.ahead # 0, 1)

Changes(c) ==
    /\ Facts(c) <= MaxFacts
    /\ case' = c
    /\ finalSince' = SinceOf(c)
    /\ UNCHANGED <<now, cache>>

\* the customer pays the same amount some other way
PayOtherwise ==
    /\ case.payments = {}
    /\ Changes([case EXCEPT !.payments =
           {[at |-> now, paid |-> now, success |-> TRUE, common |-> {"amount", "subscription"}]}])

MakePromise(day) ==
    /\ case.promises = {} /\ day >= DayOf(now)
    /\ Changes([case EXCEPT !.promises = {[status |-> "OPEN", day |-> day]}])

SettlePromise(status) ==
    /\ OpenPromises(case) # {}
    /\ Changes([case EXCEPT !.promises = 
           {IF p.status = "OPEN" THEN [p EXCEPT !.status = status] ELSE p : p \in @}])

WithdrawConsent ==
    /\ case.failure.consent # "WITHDRAWN"
    /\ Changes([case EXCEPT !.failure.consent = "WITHDRAWN"])

CancelSubscription ==
    /\ case.failure.subscribed /\ ~case.failure.cancelled
    /\ Changes([case EXCEPT !.failure.cancelled = TRUE])

RevokeMandate ==
    /\ case.failure.subscribed /\ case.failure.mandate # "REVOKED"
    /\ Changes([case EXCEPT !.failure.mandate = "REVOKED"])

\* the settings page: the plans made before keep their moments
SetTimezone(ahead) ==
    /\ ahead # case.ahead
    /\ Changes([case EXCEPT !.ahead = ahead])

Fact ==
    \/ PayOtherwise \/ WithdrawConsent \/ CancelSubscription \/ RevokeMandate
    \/ \E ahead \in Timezones : SetTimezone(ahead)
    \/ \E day \in PromiseDays : MakePromise(day)
    \/ \E status \in {"FULFILLED", "BROKEN"} : SettlePromise(status)

Advance ==
    /\ \E t \in Instants : t > now
    /\ now' = Min({t \in Instants : t > now})
    /\ UNCHANGED <<case, cache, finalSince>>

Next ==
    \/ Execute \/ Tick \/ Fact \/ Advance
    \/ \E kind \in Kinds : Explain(kind)

Spec == Init /\ [][Next]_vars

-----------------------------------------------------------------------------
(* Properties                                                              *)

RetriesWithinWeek == Cardinality(RecentRetries(case, now)) <= MaxRetries

\* A plan is worth waiting for: it is not before now nor before the end of the
\* policy's cooldown, and by the merchant's clock a customer may be contacted at its
\* moment.  If nothing changes until then the policy no longer waits for a promise or a
\* retry, only for the end of the night by its own clock, where that is not the
\* merchant's; except for an outage (which has no end) and beyond three retries in a
\* week (cap_until counts from the oldest).
\* (scheduler.py schedule against rules.py and cooldown.py, two timezones)
PlanIsDue ==
    LET plan == Planned(case, now)
        then == Decision(case, plan.at)
    IN  plan.strategy \notin {"STOP_RECOVERY", "HONOUR_PROMISE_TO_PAY"} =>
            /\ plan.at >= now /\ plan.at >= Decision(case, now).until
            /\ InContactWindow(ToLocal(plan.at, case.ahead))
            /\ Primary(case) \notin Timeouts /\ RetriesWithinWeek /\ then.decision = "WAIT" =>
                  ~InContactWindow(plan.at) /\ then.until = NextContactWindow(plan.at)

\* what policy and planner hand to the orchestrator
Orchestrator == INSTANCE PlanOffers

HandedOver ==
    LET plan == Planned(case, now)
        p == Decision(case, now)
    IN  [strategy |-> plan.strategy, slot |-> plan.at, decision |-> p.decision,
         cooldown |-> IF p.until = None THEN Orchestrator!NoCooldown ELSE p.until]

\* Whatever has happened to the case, policy and planner agree: the strategy, the
\* moment and the cooldown of a plan are ones that the orchestrator expects of that
\* decision, so what is shown of the orchestrator holds of these plans.
\* (strategies.py select_strategy and scheduler.py schedule against evaluator.py
\* fold_decision, as gates.py evaluate_gates reads them)
PlanIsOffered == Orchestrator!Offered(HandedOver, now)

\* A retry that is planned would be at most the third within seven days of its moment,
\* and a day or more after the one before. (cooldown.py retry_cooldown_until)
RetryBudgetKept ==
    LET plan == Planned(case, now)
    IN  RetriesWithinWeek /\ plan.strategy \in {"RETRY_SILENTLY", "RETRY_PAYMENT"} =>
            /\ Cardinality({i \in Retries(case) : case.actions[i].at > plan.at - Week}) < MaxRetries
            /\ \A i \in Retries(case) : plan.at >= case.actions[i].at + Day

\* A wait for payday ends in the morning of one of the first five days of a month by
\* the merchant's clock, whatever weekends, festivals and cooldowns did to it on the
\* way.
\* (timing.py next_payday_slot, apply_business_window)
PaydayIsPayday ==
    LET plan == Planned(case, now)
    IN  plan.strategy = "WAIT_FOR_PAYDAY" => InPaydayWindow(ToLocal(plan.at, case.ahead))

Timeout(c) == Primary(c) \in Timeouts

Quiet ==
    \/ case.failure.consent # "GRANTED" \/ Timeout(case) \/ ~InContactWindow(now)
    \/ \E p \in OpenPromises(case) : DayOf(now) <= p.day

\* Nobody is contacted, nor sent a link, while consent is missing, a rail is down, a
\* promise runs or the hour is quiet: the plan has the dashboard only, free of
\* charge. (rules.py blocked channels, evaluator.py _merge_channels, channels.py)
QuietCustomer ==
    LET plan == Planned(case, now)
    IN  Quiet => plan.channels = <<Dashboard>> /\ plan.cost = 0

Ran(i) == i \in DOMAIN case.actions /\ case.actions[i].status = "RAN"

\* Once recovery had to end (paid, consent withdrawn, mandate revoked, subscription
\* cancelled, promise kept), nothing but the end of a wait is run any more, not even
\* rows scheduled before, whatever else the policy waits for at the time.
\* (evaluator.py pick_winner, strategies.py, orchestrator run_due)
FinalIsLeftAlone ==
    [][Final(case) => \A i \in DOMAIN case'.actions :
           case'.actions[i].status = "RAN" /\ ~Ran(i)
               => i \in DOMAIN case.actions /\ case.actions[i].strategy \in WaitStrategies]_vars

\* What the system does itself does not change what went wrong: its rows only turn
\* a diagnosis into an authentication failure, and only for UPI payments.
\* (features.py retry_count, rules.py rule_authentication_failed)
OwnActionsDrift ==
    [][case'.actions # case.actions =>
           \/ Primary(case') = Primary(case)
           \/ Primary(case') = "AUTHENTICATION_FAILED" /\ UpiMethod(case.failure.method)]_vars

\* The one channel by which an explanation can be out of date is the cache, and
\* that for less than a day: a day after recovery had to end every explanation
\* says so, and no message asks for money. (explanation_service.py, gemini/cache.py)
StaleAtMostADay ==
    finalSince # None /\ now >= finalSince + CacheTtl =>
        \A kind \in Kinds : LET entry == Served(kind)
                           IN  entry.strategy = "STOP_RECOVERY" /\ entry.asks = 0
=============================================================================
