------------------------------ MODULE Executor ------------------------------
(***************************************************************************)
(* The simulated executor: plans that are run on a ledger, one at a time   *)
(* or in batches, without a provider.                                      *)
(*                                                                         *)
(* The ledger keeps the first result of each idempotency key and the ids   *)
(* of the events it has simulated.  An id tells the case, the slot and the *)
(* event, but not the strategy: two strategies of one slot share events.   *)
(***************************************************************************)
EXTENDS Naturals, FiniteSets

CONSTANTS
    Plans,              \* [case, strategy, slot, probability, diagnosis]
    Naive,              \* a slot without a time zone: comparing it raises
    LinkTtl, CardTtl,
    MaxTime,            \* bound: the clock
    MaxPlans            \* bound: plans that are run

VARIABLES
    now,
    gone,               \* cases that are deleted from the database
    ledger,             \* results by key
    hooks,              \* ids of events that were simulated
    audits,             \* audit events in the ledger
    batch,              \* the batch that is being run, with its summary
    ran,
    earned              \* observed: what results and summaries have reported

vars == <<now, gone, ledger, hooks, audits, batch, ran, earned>>

-----------------------------------------------------------------------------
ExecutionOf ==
    [RETRY_PAYMENT |-> "EXECUTE_RETRY", RETRY_SILENTLY |-> "EXECUTE_RETRY",
     SEND_PAYMENT_LINK |-> "GENERATE_PAYMENT_LINK",
     SWITCH_PAYMENT_METHOD |-> "SWITCH_TO_UPI",
     REQUEST_NEW_MANDATE |-> "REQUEST_CARD_UPDATE",
     WAIT_FOR_PAYDAY |-> "WAIT_UNTIL_TIME", HONOUR_PROMISE_TO_PAY |-> "WAIT_UNTIL_TIME",
     ESCALATE_TO_HUMAN |-> "ESCALATE_CASE", STOP_RECOVERY |-> "STOP_EXECUTION"]

ExecutionType == {ExecutionOf[s] : s \in DOMAIN ExecutionOf}
ExecutionStatus == {"SUCCEEDED", "FAILED", "SCHEDULED", "GENERATED", "DUPLICATE_SKIPPED",
                    "EXPIRED", "WEBHOOK_REPLAY", "TIMEOUT", "UNKNOWN_STRATEGY"}
RetryOutcome == {"SUCCESS", "FAILED", "BANK_TIMEOUT", "NSF", "AUTH_FAILURE"}

RetryWebhook ==
    [o \in RetryOutcome |->
        IF o = "SUCCESS" THEN {"payment.authorized", "payment.captured", "subscription.charged"}
        ELSE {"payment.failed"}]

\* recovered: whether the amount of the payment is
ExecutionResult == [type : ExecutionType, status : ExecutionStatus, success : BOOLEAN,
                    recovered : BOOLEAN, link : BOOLEAN]

ASSUME ExecutorBounds ==
    /\ \A p \in Plans : p.probability \in 0 .. 100 /\ p.slot \in Nat \cup {Naive}
    /\ Naive \notin Nat
    /\ {LinkTtl, CardTtl, MaxTime, MaxPlans} \subseteq Nat

Key(plan) == <<plan.case, plan.strategy, plan.slot>>
Keys == {Key(p) : p \in Plans}

\* (mutant of HookId: an id of each strategy)
HookIdOfStrategy(plan, event) == <<plan.case, plan.strategy, plan.slot, event>>

HookId(plan, event) == <<plan.case, plan.slot, event>>

\* an event of an execution
Hooks(plan, events) == {HookId(plan, e) : e \in events}

\* process_webhooks has seen every event before
Replay(ids) == ids # {} /\ ids \subseteq hooks

-----------------------------------------------------------------------------
(* What the simulation of one plan comes to: a result and its events       *)

Outcome(type, status, success) ==
    [type |-> type, status |-> status, success |-> success, recovered |-> FALSE, link |-> FALSE]

\* the table of the simulator, bent by the probability and the diagnosis of the plan
SimulateRetry(plan, hashed) ==
    CASE plan.probability >= 85 -> "SUCCESS"
      [] plan.probability <= 12 -> IF hashed = "SUCCESS" THEN "FAILED" ELSE hashed
      [] plan.probability \in 13 .. 49 /\ plan.diagnosis = "INSUFFICIENT_FUNDS"
            /\ hashed = "SUCCESS" -> "NSF"
      [] plan.probability \in 13 .. 84 /\ plan.diagnosis \in {"BANK_TIMEOUT", "UPI_TIMEOUT"}
            /\ hashed = "FAILED" -> "BANK_TIMEOUT"
      [] OTHER -> hashed

RunRetry(plan) ==
    {LET outcome == SimulateRetry(plan, hashed)
         ids == Hooks(plan, RetryWebhook[outcome])
         result == IF Replay(ids) THEN Outcome("EXECUTE_RETRY", "WEBHOOK_REPLAY", FALSE)
                   ELSE IF outcome = "SUCCESS"
                   THEN [Outcome("EXECUTE_RETRY", "SUCCEEDED", TRUE) EXCEPT !.recovered = TRUE]
                   ELSE Outcome("EXECUTE_RETRY",
                            IF outcome = "BANK_TIMEOUT" THEN "TIMEOUT" ELSE "FAILED", FALSE)
     IN  <<result, ids>> : hashed \in RetryOutcome}

Expired(plan, ttl) == now >= plan.slot + ttl

RunPaymentLink(plan, type) ==
    LET ids == IF plan.probability >= 85 THEN Hooks(plan, {"payment_link.paid"}) ELSE {}
    IN  IF Expired(plan, LinkTtl)
        THEN {<<[Outcome(type, "EXPIRED", FALSE) EXCEPT !.link = TRUE], {}>>}
        ELSE IF Replay(ids)
        THEN {<<[Outcome(type, "WEBHOOK_REPLAY", FALSE) EXCEPT !.link = TRUE], ids>>}
        ELSE {<<[Outcome(type, "GENERATED", TRUE) EXCEPT !.link = TRUE, !.recovered = ids # {}],
                ids>>}

RunCardUpdate(plan) ==
    IF Expired(plan, CardTtl) THEN {<<Outcome("REQUEST_CARD_UPDATE", "EXPIRED", FALSE), {}>>}
    ELSE {<<Outcome("REQUEST_CARD_UPDATE", "GENERATED", TRUE),
            Hooks(plan, {"subscription.pending"})>>}

\* a wait is recorded once, and so stays SCHEDULED if it is run before its slot
RunWait(plan) ==
    IF now >= plan.slot THEN {<<Outcome("WAIT_UNTIL_TIME", "SUCCEEDED", TRUE), {}>>}
    ELSE {<<Outcome("WAIT_UNTIL_TIME", "SCHEDULED", FALSE), {}>>}

RunTerminal(plan, type) ==
    {<<Outcome(type, "SUCCEEDED", TRUE),
       IF type = "STOP_EXECUTION" THEN Hooks(plan, {"subscription.halted"}) ELSE {}>>}

\* what the catch-all of execute makes of an exception
Caught == {<<Outcome("STOP_EXECUTION", "FAILED", FALSE), {}>>}

Unknown == {<<Outcome("STOP_EXECUTION", "UNKNOWN_STRATEGY", FALSE), {}>>}

\* by the type of the strategy
Simulated(plan) ==
    LET type == ExecutionOf[plan.strategy]
    IN  IF plan.strategy \notin DOMAIN ExecutionOf THEN Unknown
        ELSE IF type = "EXECUTE_RETRY" THEN RunRetry(plan)
        ELSE IF type \in {"ESCALATE_CASE", "STOP_EXECUTION"} THEN RunTerminal(plan, type)
        ELSE IF plan.slot = Naive THEN Caught
        ELSE IF type = "REQUEST_CARD_UPDATE" THEN RunCardUpdate(plan)
        ELSE IF type = "WAIT_UNTIL_TIME" THEN RunWait(plan)
        ELSE RunPaymentLink(plan, type)

\* (mutant of DuplicateResult: it still claims the success of the first)
DuplicateSucceeds(prior) ==
    [prior EXCEPT !.status = "DUPLICATE_SKIPPED", !.recovered = FALSE]

\* the prior result, told again as a duplicate that recovers nothing
DuplicateResult(prior) ==
    [prior EXCEPT !.status = "DUPLICATE_SKIPPED", !.success = FALSE, !.recovered = FALSE]

-----------------------------------------------------------------------------
(* The ledger and the summary of a batch                                   *)

\* (mutant of Put: the newest result wins)
PutAlways(key, result) ==
    /\ ledger' = [k \in DOMAIN ledger \cup {key} |-> IF k = key THEN result ELSE ledger[k]]
    /\ audits' = audits + 1

\* a result, and its audit, are kept only if they are the first of the key
Put(key, result) ==
    IF key \in DOMAIN ledger THEN UNCHANGED <<ledger, audits>>
    ELSE /\ ledger' = [k \in DOMAIN ledger \cup {key} |-> IF k = key THEN result ELSE ledger[k]]
         /\ audits' = audits + 1

Failures == {"FAILED", "TIMEOUT", "EXPIRED", "UNKNOWN_STRATEGY", "WEBHOOK_REPLAY"}

NoSummary == [executed |-> 0, successes |-> 0, failures |-> 0, duplicates |-> 0,
              links |-> 0, retries |-> 0, value |-> 0]

One(condition) == IF condition THEN 1 ELSE 0

\* summarize_executions, one result at a time
Summarize(summary, r) ==
    LET duplicate == r.status = "DUPLICATE_SKIPPED"
    IN  [executed |-> summary.executed + One(~duplicate),
         successes |-> summary.successes + One(r.success),
         failures |-> summary.failures + One(r.status \in Failures),
         duplicates |-> summary.duplicates + One(duplicate),
         links |-> summary.links + One(r.link /\ r.status = "GENERATED"),
         retries |-> summary.retries + One(r.type = "EXECUTE_RETRY" /\ ~duplicate),
         value |-> summary.value + One(r.recovered)]

\* a plan whose key is known is a duplicate, and is not simulated
Results(plan) ==
    IF Key(plan) \in DOMAIN ledger THEN {<<DuplicateResult(ledger[Key(plan)]), {}>>}
    ELSE Simulated(plan)

\* one plan on the ledger; a duplicate adds its audit only
Execute(plan, out) ==
    /\ hooks' = hooks \cup out[2]
    /\ IF Key(plan) \in DOMAIN ledger THEN audits' = audits + 1 /\ UNCHANGED ledger
       ELSE Put(Key(plan), out[1])

\* a plan whose case is gone is put down as failed, unless its key is known
CaseNotFound == Outcome("STOP_EXECUTION", "FAILED", FALSE)

Unavailable(plan) == Put(Key(plan), CaseNotFound) /\ UNCHANGED hooks

-----------------------------------------------------------------------------
Closed == [phase |-> "closed", summary |-> NoSummary]

Runs == ran < MaxPlans /\ ran' = ran + 1 /\ UNCHANGED <<now, gone>>

\* execute_plan and execute_case: with the database, a case may be missing
ExecutePlan(plan) ==
    /\ batch.phase = "closed" /\ Runs
    /\ \/ \E out \in Results(plan) :
             Execute(plan, out) /\ earned' = earned + One(out[1].recovered)
       \/ plan.case \in gone /\ Unavailable(plan) /\ UNCHANGED earned
    /\ UNCHANGED batch

\* the summary of the batch counts the result
Counted(phase, result) ==
    batch' = [batch EXCEPT !.phase = phase, !.summary = Summarize(@, result)]

\* a batch has one clock, and loads all its cases before it runs a plan; without a
\* database, or when the load raises, a plan runs on what it says itself
OpenBatch ==
    /\ batch.phase = "closed" /\ ran < MaxPlans
    /\ batch' = [Closed EXCEPT !.phase = "loading"]
    /\ UNCHANGED <<now, gone, ledger, hooks, audits, ran, earned>>

LoadMissing(plan) ==
    /\ batch.phase = "loading" /\ plan.case \in gone /\ Runs
    /\ Unavailable(plan) /\ Counted("loading", CaseNotFound)
    /\ UNCHANGED earned

RunInBatch(plan) ==
    /\ batch.phase # "closed" /\ Runs
    /\ \E out \in Results(plan) : Execute(plan, out) /\ Counted("running", out[1])
    /\ UNCHANGED earned

CloseBatch ==
    /\ batch.phase # "closed"
    /\ batch' = Closed
    /\ earned' = earned + batch.summary.value
    /\ UNCHANGED <<now, gone, ledger, hooks, audits, ran>>

DeleteCase(c) ==
    /\ c \notin gone
    /\ gone' = gone \cup {c}
    /\ UNCHANGED <<now, ledger, hooks, audits, batch, ran, earned>>

Clock ==
    /\ batch.phase = "closed" /\ now < MaxTime
    /\ now' = now + 1
    /\ UNCHANGED <<gone, ledger, hooks, audits, batch, ran, earned>>

Init ==
    /\ now = 0 /\ gone = {} /\ ledger = <<>> /\ hooks = {} /\ audits = 0
    /\ batch = Closed /\ ran = 0 /\ earned = 0

Next ==
    \/ OpenBatch \/ CloseBatch \/ Clock
    \/ \E plan \in Plans :
          ExecutePlan(plan) \/ LoadMissing(plan) \/ RunInBatch(plan) \/ DeleteCase(plan.case)

Spec == Init /\ [][Next]_vars

-----------------------------------------------------------------------------
(* Properties                                                              *)

\* Ledger, events and summary have their types.
TypeOK ==
    /\ now \in 0 .. MaxTime /\ ran \in 0 .. MaxPlans
    /\ audits \in 0 .. MaxPlans /\ earned \in 0 .. MaxPlans
    /\ DOMAIN ledger \subseteq Keys
    /\ \A k \in DOMAIN ledger :
          ledger[k] \in ExecutionResult /\ ledger[k].status # "DUPLICATE_SKIPPED"
    /\ batch.summary \in [DOMAIN NoSummary -> 0 .. MaxPlans]
    /\ batch.summary.successes + batch.summary.failures <= batch.summary.executed

Recovered(types) ==
    {k \in DOMAIN ledger : ledger[k].recovered /\ ledger[k].type \in types}

\* What results and summaries have reported as recovered, over all batches and single
\* plans, is what the ledger has recovered: nothing is counted again.  And two
\* strategies of one case and slot never both recover by a charge, nor both by a link.
RecoveredOnce ==
    /\ earned + batch.summary.value = Cardinality(Recovered(ExecutionType))
    /\ \A types \in {{"EXECUTE_RETRY"}, {"GENERATE_PAYMENT_LINK", "SWITCH_TO_UPI"}} :
          \A j, k \in Recovered(types) : j[1] = k[1] /\ j[3] = k[3] => j = k

\* The first result of a key is final, whatever happens to its case, and no event is
\* simulated but by a plan whose key is new.
LedgerIsFinal ==
    [][/\ \A k \in DOMAIN ledger : k \in DOMAIN ledger' /\ ledger'[k] = ledger[k]
       /\ DOMAIN ledger' = DOMAIN ledger => hooks' = hooks]_vars
=============================================================================
