------------------------------- MODULE Policy -------------------------------
(***************************************************************************)
(* The policy gate: independent rules over the diagnosis and the case,     *)
(* folded into one decision with its cooldown and its channels.            *)
(***************************************************************************)
EXTENDS Diagnosis

Channels == {"WhatsApp", "SMS", "Voice", "Email"}
Verdicts == {"PASS", "FAIL", "WAIT", "STOP", "ESCALATE"}

None == -1              \* no cooldown

Verdict ==
    [rule : STRING, verdict : Verdicts, until : Nat \cup {None}, silences : BOOLEAN,
     silent : BOOLEAN, codes : SUBSET STRING, boost : Nat, review : BOOLEAN]

\* a rule that does not block
Passes(rule) ==
    [rule |-> rule, verdict |-> "PASS", until |-> None, silences |-> FALSE, silent |-> FALSE,
     codes |-> {}, boost |-> 0, review |-> FALSE]

\* a rule that blocks every channel
Blocks(rule, verdict, code) ==
    [Passes(rule) EXCEPT !.verdict = verdict, !.silences = TRUE, !.codes = {code}]

Waits(rule, until, code) ==
    [Passes(rule) EXCEPT !.verdict = "WAIT", !.until = until, !.codes = {code}]

-----------------------------------------------------------------------------
(* Rules                                                                   *)

RuleAlreadyPaid(c, d) ==
    IF d.label = "ALREADY_PAID" THEN Blocks("already_paid", "STOP", "ALREADY_PAID")
    ELSE Passes("already_paid")

RuleChargeback(c, d) ==
    IF d.label = "CHARGEBACK_ACTIVE"
    THEN [Blocks("chargeback", "ESCALATE", "CHARGEBACK_ACTIVE") EXCEPT !.review = TRUE]
    ELSE Passes("chargeback")

\* the flags of the channels follow the consent of the customer
RuleConsent(c) ==
    CASE c.failure.consent = "WITHDRAWN" -> Blocks("consent", "STOP", "CONSENT_REVOKED")
      [] c.failure.consent = "PENDING" -> Blocks("consent", "FAIL", "CONSENT_PENDING")
      [] OTHER -> Passes("consent")

RuleMandate(c, d) ==
    IF d.label = "MANDATE_REVOKED" \/ Revoked(c) THEN Blocks("mandate", "STOP", "MANDATE_REVOKED")
    ELSE [Passes("mandate") EXCEPT !.codes = IF Expired(c) THEN {"MANDATE_EXPIRED"} ELSE {}]

\* the latest date that is still promised
PromisedDay(c) == Max({p.day : p \in OpenPromises(c)})

BrokenPromise ==
    [Passes("promise_to_pay") EXCEPT !.codes = {"PROMISE_BROKEN"}, !.boost = 1000, !.review = TRUE]

RulePromise(c, now) ==
    IF \E p \in c.promises : p.status = "FULFILLED"
    THEN Blocks("promise_to_pay", "STOP", "PROMISE_FULFILLED")
    ELSE IF OpenPromises(c) # {} /\ DayOf(now) <= PromisedDay(c)
    THEN [Blocks("promise_to_pay", "WAIT", "PROMISE_ACTIVE")
          EXCEPT !.until = At(PromisedDay(c) + 1, Opens)]
    ELSE IF c.promises # {} THEN BrokenPromise
    ELSE Passes("promise_to_pay")

MaxRetries == 3

\* rows of the action type RETRY_PAYMENT
RetryRows(c) == {i \in DOMAIN c.actions : c.actions[i].strategy \in {"RETRY_PAYMENT", "RETRY_SILENTLY"}}

Retries(c) == {i \in RetryRows(c) : c.actions[i].status # "CANCELLED"}

RecentRetries(c, now) == {i \in Retries(c) : c.actions[i].at > now - Week}

GapUntil(c) ==
    IF Retries(c) = {} THEN None ELSE Max({c.actions[i].at : i \in Retries(c)}) + Day

\* (mutant of CapUntil: one retry more)
CapOffByOne(c, now) ==
    IF Cardinality(RecentRetries(c, now)) <= MaxRetries THEN None
    ELSE Min({c.actions[i].at : i \in RecentRetries(c, now)}) + Week

CapUntil(c, now) ==
    IF Cardinality(RecentRetries(c, now)) < MaxRetries THEN None
    ELSE Min({c.actions[i].at : i \in RecentRetries(c, now)}) + Week

RuleRetryCooldown(c, now) ==
    LET until == Max({GapUntil(c), CapUntil(c, now)})
    IN  IF now < until
        THEN [Waits("retry_cooldown", until,
                    IF CapUntil(c, now) > GapUntil(c) THEN "RETRY_CAP" ELSE "RETRY_COOLDOWN")
              EXCEPT !.silent = TRUE]
        ELSE Passes("retry_cooldown")

RuleOutage(c, d) ==
    IF d.label \in Timeouts
    THEN [Blocks("outage", "WAIT", "OUTAGE_TIMEOUT") EXCEPT !.silent = TRUE]
    ELSE Passes("outage")

RuleDnd(now) ==
    IF InContactWindow(now) THEN Passes("dnd_contact")
    ELSE [Blocks("dnd_contact", "WAIT", "DND_CONTACT_WINDOW")
          EXCEPT !.silent = TRUE, !.until = NextContactWindow(now)]

\* the service never sets the hardship flag
RuleChurn(c, d) ==
    IF d.label = "CUSTOMER_CANCELLED" \/ Cancelled(c)
    THEN Blocks("churn_protection", "STOP", "CUSTOMER_CANCELLED")
    ELSE Passes("churn_protection")

HighValueAmount == 149900

RuleHighValue(c) ==
    IF c.failure.segment = "HIGH_VALUE" /\ c.failure.amount >= HighValueAmount
    THEN [Passes("high_value") EXCEPT
             !.codes = {"HIGH_VALUE_CUSTOMER"}, !.boost = 1500, !.review = TRUE]
    ELSE Passes("high_value")

\* in the order of the registry
Results(c, d, now) ==
    <<RuleAlreadyPaid(c, d), RuleChargeback(c, d), RuleConsent(c), RuleMandate(c, d),
      RulePromise(c, now), RuleRetryCooldown(c, now), RuleOutage(c, d), RuleDnd(now),
      RuleChurn(c, d), RuleHighValue(c)>>

-----------------------------------------------------------------------------
(* Folding                                                                 *)

Severity(verdict) ==
    CASE verdict = "STOP" -> 4 [] verdict = "ESCALATE" -> 3 [] verdict = "FAIL" -> 2
      [] verdict = "WAIT" -> 1 [] OTHER -> 0

DecisionOf(verdict) ==
    CASE verdict = "FAIL" -> "DENY" [] verdict = "PASS" -> "ALLOW" [] OTHER -> verdict

\* pick_winner: the first of the most severe
Winner(results) ==
    LET worst == Max({Severity(results[i].verdict) : i \in DOMAIN results})
    IN  results[Min({i \in DOMAIN results : Severity(results[i].verdict) = worst})]

\* the rule an ALLOW is put down to: high value before any other remark
Lead(results) ==
    LET notable == {i \in DOMAIN results : results[i].codes # {}}
    IN  IF notable = {} THEN Passes("default_allow")
        ELSE IF results[Len(results)].boost > 0 THEN results[Len(results)]
        ELSE results[Min(notable)]

\* (mutant of Allowed: only the decision counts)
AllowedByDecision(results, decision) ==
    IF decision \in {"STOP", "DENY", "ESCALATE"} THEN {} ELSE Channels

\* the lists of the rules only take channels away, and a block by the decision all
Allowed(results, decision) ==
    IF decision \in {"STOP", "DENY", "ESCALATE"} \/ \E i \in DOMAIN results : results[i].silences
    THEN {} ELSE Channels

BoostOf(results) == MapThenSumSet(LAMBDA i : results[i].boost, DOMAIN results)

\* fold_decision
Fold(results, d) ==
    LET blocking == {i \in DOMAIN results : results[i].verdict # "PASS"}
        winner == IF blocking = {} THEN Lead(results) ELSE Winner(results)
        decision == DecisionOf(winner.verdict)
        waits == {i \in DOMAIN results : results[i].verdict = "WAIT"}
    IN  [rule |-> winner.rule,
         decision |-> decision,
         until |-> IF decision # "WAIT" THEN None ELSE Max({results[i].until : i \in waits}),
         silent |-> decision = "WAIT" /\ \E i \in waits : results[i].silent,
         codes |-> winner.codes \cup UNION {results[i].codes : i \in blocking},
         allowed |-> Allowed(results, decision),
         review |-> \E i \in DOMAIN results : results[i].review,
         priority |-> Clamp(d.priority + BoostOf(results), 0, 10000)]

\* evaluate
Evaluate(c, d, now) == Fold(Results(c, d, now), d)
=============================================================================
