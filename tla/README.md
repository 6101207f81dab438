# RecoveryPilot: a TLA+ verification development

RecoveryPilot recovers failed payments: it diagnoses a failed payment, lets a
policy engine decide what may be done, plans an action, and carries the action
out through the payment provider (Razorpay, in its sandbox) and the customer's
channels.  This directory holds TLA+ models of the parts of it that keep state
and can meet each other in an order nobody wrote down, the TLC configurations
that check them on small instances, and proofs that hold for every instance.

Paths below are relative to the repository; `S/` stands for
`services/src/services/`, `B/` for `apps/backend/app/`.

Contents: 1 inventory, 2 plan, 3 the modules and how they correspond to the
code, 4 runs, bounds and fairness, 5 proofs, 6 where code and documents differ,
7 what is not modelled, 8 how to run it.

---

## 1. Inventory

### 1.1 Components

| Component | State it keeps | Operations that change it | What makes it correct |
|---|---|---|---|
| **Action orchestrator** `S/action_orchestrator/` | `recovery_actions`, `audit_logs` (through `SqlAlchemyActionStore`) | `run`, `replay`, `run_due`, `apply_provider_webhook`; inside them the gates, the dispatch, backoff or dead letter, finalize | an idempotency key is served once; a display is true of the provider; the row and its job agree; retries stay within the cap; nothing passes the policy gate; every display has its audit event |
| **Action service** `S/action_orchestrator_service.py`, `B/services/action_service.py`, `B/api/v1/actions.py` | none: it owns the transactions | `execute_case`, `schedule_case`, `replay_execution`, `tick_due`; commit, or roll back and fail | either everything of a request is durable or nothing is; a tick survives the failure of one row |
| **Scheduler jobs** `S/scheduler/` | `scheduler_jobs` | `schedule` (upsert), `claim_due`, `release`, `complete`, the backoff table | a waiting row has a live job, a settled row has none |
| **Scheduler worker** `B/core/scheduler_worker.py` | a daemon thread and its stop event | one tick per interval, in one transaction | due work is eventually done |
| **Razorpay actions, sandbox client** `S/razorpay_actions/`, `integrations/.../razorpay/` | none here; the provider's own | one call per strategy | which answers are transient, which permanent |
| **Communications** `S/communications/` | token buckets per merchant and channel, in a limiter built with each router: per request, and per tick | `deliver`, `RateLimiter.allow` | nobody is contacted against consent or quiet hours; a failed delivery is known to the orchestrator |
| **Policy engine** `S/policy/`, `S/policy_service.py` | none | pure: context to decision and cooldown | the first blocking rule wins; STOP over WAIT over ALLOW |
| **Planner** `S/planner/`, `S/planner_service.py` | none | pure: decision and diagnosis to strategy, slot, channel, fallback | slots lie ahead, within the contact window, beyond the cooldown |
| **Razorpay webhooks** `S/razorpay_webhooks/`, `B/api/v1/webhooks.py` | `webhook_events`; the status of the case and the payment | `ingest`, `_replay`, `apply_recovery_status` | an event is applied once however often it is delivered; the end state does not depend on the order of deliveries where the docs promise that |
| **Simulated executor** `S/executor/` | an in-memory execution log, seen webhook ids, audits | `execute`, `execute_many`, `process_webhooks` | one execution per key; a webhook is processed once |
| **Diagnosis engine** `S/diagnosis/` | none | pure: features to ranked causes | one cause for every case, the most severe that fired; what the system does itself does not change it |
| **Authentication, onboarding** `S/auth/` | users, refresh sessions, merchants and their settings | `signup`, `login`, `refresh_tokens`, `logout`, `logout_all`, `change_password`, the onboarding steps | a refresh token is used once; a revoked session never comes back |
| **Explanations and Gemini** `S/explanations/`, `integrations/.../gemini/` | a cache with expiry | `explain_*`: cache, model, fallback | a text is always produced, and says what is true now or was true within a day |
| **Recovery queue, audit explorer, merchant dashboards** | none | reads only | |
| **Database schema and seed** `database/` | the tables | migrations, seeding | `recovery_actions` and `scheduler_jobs` are unique by idempotency key |
| **HTTP application** `B/core/`, ops and health services | metrics | | |
| **Dataset simulator** `simulator/` | none, off line | | |
| **Web frontend** `apps/frontend/` | pages | | |

### 1.2 How they interact

```
 HTTP execute / schedule / replay            worker thread, every interval
        |  one session each                        |  one session for all rows
        v                                          v
  action service ---- context: policy + planner, computed anew each time
        |                                          |
        v                                          v
  orchestrator.run / replay               collect due rows, claim due jobs,
        |                                 orchestrator.run_due for each
        +--------------------+---------------------+
                             |
        recovery_actions, scheduler_jobs, audit_logs      (same session)
                             |
        Razorpay (outside the transaction), then the customer's channel

 HTTP webhook -> inbox -> orchestrator.apply_provider_webhook (newest action of
                          the case) -> status of the case and the payment
```

The parts share two things: the tables, through sessions that commit on their
own, and the idempotency key `exec:{case}:{strategy}:{scheduled_at}`, which
names the row, the job and the call to the provider.  Nothing else ties a job to
its row: every path of the orchestrator writes both tables by hand.

### 1.3 What is hard here

* **Two tables kept in step by hand.** `run`, `run_due`, `_dispatch`,
  `_backoff_or_dead_letter` and `_finalize` each write the row and then the job.
* **Calls outside the transaction.** The provider is called before anything is
  durable.  A request that fails afterwards, or a tick that dies before its
  commit, rolls the tables back and leaves the call.
* **Plans that change under a row.** Policy and planner run again each time the
  case is touched.  A row scheduled under one plan is woken under another, with
  another key.
* **A tick that swallows failures.** An exception of one row releases its job and
  the tick goes on in the same session with whatever was already saved.
* **Deferrals that some paths skip.** `replay=True` is both "the user asked" and
  "the row is due", and skips the cooldown for both.
* **Two sessions at once.** A tick keeps its transaction open while requests
  commit; two back-end processes have a worker each.
* **Deliveries** of webhooks that are repeated, reordered, or failed half-way.

* **Column-wise flushes.** Sessions are READ COMMITTED with an ORM identity map: a
  row is read once, a flush writes only the columns that differ from what was
  read.  Two sessions that overlap leave a row with columns of both.
* **Locks taken in two orders.** A tick locks jobs first, an execution its row
  first; a webhook writes the case, then the payment, then a row.
* **Decisions that feed on themselves.** The rows the system writes are facts of
  its next diagnosis, policy and plan; calendars push a slot several times.
* **Check, then insert** in sign-up, onboarding and the inbox; tokens that rotate.

`PROJECT.json` lists these as hazards, each at the line where it bites, with the
properties that cover it.

---

## 2. Plan

The order puts first what moves money: who calls the provider, and how often.

| | Module | State |
|---|---|---|
| 1 | `PlanOffers`, `OnceCalls`, `ActionOrchestrator`, `MCActionOrchestrator` | checked, with the refinement; proved in `ActionOrchestratorProofs` |
| 2 | `OnceInbox`, `RazorpayWebhooks`, `MCRazorpayWebhooks` | checked, with the refinement; proved in `RazorpayWebhooksProofs` |
| 3 | `Calendar`, `Diagnosis`, `Policy`, `Planner`, composed by `RecoveryDecisions`, `MCRecoveryDecisions` | checked; engines and their composition proved about in `EnginesProofs`, `RecoveryDecisionsProofs` |
| 4 | `Accounts`, `MCAccounts` | checked; proved in `AccountsProofs` |
| 5 | `ActionSessions`, `MCActionSessions` | checked; proved in `ActionSessionsProofs` |
| 6 | `Executor`, `MCExecutor` | checked; proved in `ExecutorProofs` |

No module of 1 to 6 declares a RECURSIVE operator, so that each can be proved
about.  Every invariant and action property that a passing run checks is the
statement of a theorem; what stays with TLC is in section 5.7.

Left for a larger model: more than one case in `ActionSessions` (two ticks lock
rows of several cases in no fixed order), and the refill of a token bucket while
a tick runs.

---

## 3. Modules and code

### 3.1 `PlanOffers`, `OnceCalls`, `ActionOrchestrator`

| In the model | In the code |
|---|---|
| `session.rows` | `recovery_actions` as the open SQLAlchemy session sees it: `display_status`, `scheduled_at`, the retry count and `dead_lettered` of its metadata |
| `session.jobs` | `scheduler_jobs`: status, `run_at`, `attempt`, under the same key |
| `session.audits` | `audit_logs`: which events each key has |
| `session.calls` | not in the program: what the provider has received, per key, and how many of those calls were answered *and* delivered to the customer.  It is never rolled back |
| `session.last` | not in the program: the decision, caller and cooldown of the last run that called the provider |
| `committed` | the durable tables |
| `ticking`, `due` | a tick's open transaction; the due records it has still to handle |
| `clock` | now, in scheduler intervals |
| `Plans(c)` | whatever policy and planner can return for the case at this moment: every strategy, slot, decision and cooldown that `PlanOffers` lets go together, within the bounds of the run |

Actions:

| Action | Code |
|---|---|
| `Execute`, `ScheduleCase`, `Replay` | `execute_case`, `schedule_case`, `replay_execution` with their endpoint's commit: one committed step |
| `RequestFails` | the same up to the call, then an error before the commit: the endpoint rolls back; the provider keeps the call |
| `WorkerWakes` | the interval is over; `tick_due` collects due rows and claims due jobs |
| `TickRecord(d)` | one turn of `tick_due`'s loop: plan the case anew, `run_due` |
| `TickRecordFails(d)` | its `except Exception`: the case could not be loaded or planned, or the call raised what nobody maps; the job is released, what was saved stays |
| `TickCommit`, `TickAbort` | the commit of `_tick_once`, or its roll-back, or a crash |

`Run`, `RunDue`, `Gated`, `DispatchNow`, `DispatchWait`, `BackoffOrDeadLetter`,
`Finalize` and the table operations follow the methods of the same name, with
every early return.  A handler is one operator from tables to tables, so an
action is the whole handler, trailing saves included.  Operators whose name says
what they get wrong (`FinalizeKeepsJob`, `BackoffOffByOne`, ...) are the mutants:
each is a small plausible bug, used only to show that a property notices it.

`PlanOffers` is the interface between the two halves of the project.  The
orchestrator takes any plan that `Offered` admits, whatever the case;
`RecoveryDecisions`, which computes plans, makes no other (`PlanIsOffered`, checked
and proved).  So what is proved of the orchestrator is proved of the plans that the
engines make, and not of an environment somebody thought of.

`OnceCalls` is the abstract specification of the calls: a key is called only until
it is settled, one key and one call per step, is served again only after a loss,
and what is settled is true of the calls.  `CallsOnce` is the refinement, with
`settled` the durable rows that are final, `paid` the keys of those that show
SUCCESS, `calls` what the provider has received, and `lost` the faults; a step of a
tick before its commit is a call without a settlement, or a stutter.

What is abstracted: a time is a number of intervals and the jitter of a backoff a
choice among delays; a link, a message and a payload are nothing; the provider's
answer is one of `ok`, `undelivered` (the call succeeded, telling the customer
did not), `transient`, `permanent`, and the exception nobody maps.  Idempotency
is by the whole key, as in the code.

Atomicity: in this module a request runs only between ticks.  This restricts the
environment: the code does let a request commit while a tick is open, and
`ActionSessions` (3.6) is about that.  The crash, the roll-back and the failed row
of a tick are all here, interleaved with requests.

`run_due` uses the record it read when the tick began, where `RunDue` reads the
session: no other row of the same tick writes a wait row that is due, because a
wait row that is written gets a slot ahead of the clock.

### 3.2 `MCActionOrchestrator`

Which of the planner's strategies each run lets the environment choose.  A
narrower choice keeps the runs small; the union of the runs covers a wait, the
paying strategies with and without a message, escalation and stop.

### 3.3 `OnceInbox`, `RazorpayWebhooks`

`RazorpayWebhooks` follows a delivery through `ingest` in one session of one of
several processes: `Deliver` (the endpoint, the signature, `inbox.get`), `Insert`
(the unique index: wait for another session, then go on or become a replay),
`Match` (the case, the newest action and the status as they are now),
`ReadPayment`, `Flush` (the columns that differ), `CommitApplied`; or
`CommitIgnored`, `CommitReplay`, `DispatchFails` (what was flushed before stays,
`processed_at` stays null), `Abort` (everything rolls back).  The provider
redelivers what was not answered with 200, and may redeliver anything.

| In the model | In the code |
|---|---|
| `inbox` | `webhook_events`: `processed_at` set or not, and of the stored `_rp_ingest` envelope `failed` and `replay_count` |
| `Marked`, `FlushedIngest` | what a flush writes of an envelope that was changed in place: nothing, see below |
| `case`, `payment`, `actions` | `recovery_status` and `recovery_completed_at`; `payment_status`; the displays of the case's actions |
| `audits` | the audit events of applications and of replays, per event id |
| `landed`, `overlap` | not in the program: transactions and effects per id; whether two dispatches overlapped |

`mark_replay`, `mark_processed` and `mark_failed` copy the payload and change the
`_rp_ingest` dictionary inside, which the loaded payload still holds.  The column is
JSONB without change tracking: the flush compares what is assigned with what was
loaded, finds them equal, and writes nothing.  `Marked` says so.  Only
`processed_at` and the audit trail tell what has happened to an event; the
properties are about these, and section 6 says what follows for the summary.

An event without an id gets one per delivery (`KeyOf`).  `OnceInbox` is the
abstract specification: an id lands once, and takes effect with it or never.
`InboxOnce` is the refinement, with `seen <- DOMAIN inbox` and the effects counted
per id; sessions, replays and roll-backs are stutters.

### 3.4 `Calendar`, `Diagnosis`, `Policy`, `Planner`, `RecoveryDecisions`

The engines are pure; each is a module of operators that follows the functions
one by one, and `RecoveryDecisions` lets one case live over time.

* `Calendar`: quarters of an hour since a Monday, by the clock of the default
  timezone, to which policy and diagnosis keep whoever the merchant is
  (`S/policy_service.py:59`, `S/diagnosis_service.py:158`).  The planner keeps to
  `merchant.timezone` (`S/planner_service.py:124`): `ToLocal` and `FromLocal` go to the
  merchant's clock and back, which is `ahead` by -70 to 34 quarters (`Zones`, UTC-12 to
  UTC+14).  A timezone has no summer time here.  The days of the month and the
  festivals are constants; the months repeat after `Cycle` days (146,097 in the
  Gregorian calendar, 101 in the run).  `CalendarShape` says that a payday is never
  forty days away, so the search of `next_payday_slot` always ends with one: `NextBusinessMorning`, `BusinessWindow`,
  `NextPaydaySlot`, `PaydaySlot`, `Later`.
* `Diagnosis`: a `Case` is the failed payment, other payments, promises, outages,
  rows of actions and the merchant's timezone, as the services load them; `Fired` holds the rules that
  fire, `Primary` the winner by precedence, `Confidence` and `Priority` the scores
  in hundredths.
* `Policy`: the ten rules in the order of the registry (`Results`), each with
  its verdict, its `until`, the channels it blocks and its boost; `Winner`,
  `Allowed` and `Fold` follow the evaluator.
* `Planner`: strategy, timing by the merchant's clock, channels with cost,
  probability, fallback, value.
* `RecoveryDecisions`: `Execute`, `Tick` (for a wait, its fallback; for any other
  row, a fresh plan as a replay), `Explain` with the cache, and the environment: a
  payment made otherwise, a promise made and settled, consent withdrawn, the
  subscription cancelled, the mandate revoked, the merchant's timezone changed in the
  settings, the time.

Abstracted: calls succeed (module 3.1 has the failures), texts, summer time, the
name of a timezone (one that is not known is refused by `ZoneInfo`, and nothing is
planned), scores finer than a hundredth.

### 3.5 `Accounts`

Requests of several workers, each with a beginning, where it reads, for some a
flush, where a unique column is met, and a commit.  `Differing` is the ORM's
UPDATE.  A request that the code refuses changes nothing and is no step, but a
request that is refused *at its flush* is (`FlushSignup`, `FlushMerchant`), and any
may be rolled back (`Abort`).  Passwords and tokens are names; an access token is
the time it expires; `alone` and `lockout` are observed and not in the program.

### 3.6 `ActionSessions`

The orchestrator's reads, flushes, calls and commits as steps, for two servers that
share the tables: two requests, a request beside a worker, two workers, or a
webhook beside any of them.

| In the model | In the code |
|---|---|
| `rows`, `jobs` | the committed `recovery_actions` and `scheduler_jobs` |
| `session[s].seen` | the identity map: a row once loaded is not read again, for the case that is loaded keeps it |
| `session[s].seenJobs` | what was read of a job before its next write; no object keeps a job, so each use selects it again |
| `session[s].rows`, `.jobs` | what the session has flushed; it holds the locks of these |
| `session[s].called` | keys for which the provider was called |
| `Blockers`, `DeadlockFails` | PostgreSQL: a write waits for the holder; one session of a circle fails |
| `met`, `settled` | not in the program |

`BeginTick` looks at due rows and due jobs; for each job `Claim` selects it again,
as `mark_running` does, and passes over one that is not pending any more (its row is
handled all the same); `Mark` flushes the new status, once no other session holds
the job: a job that was read as pending may be overwritten there.  `Claimed` loads
the other rows; `NextItem` takes a row; `Run`, `Save`, `Flush`, `Call` or `EndWait`,
`SelectJob`, `WriteJob` follow a run; `CommitSession` ends it.  `CallBreaks` is an exception no error of the client
stands for: a request rolls back, a tick goes on after `Release`, which selects the
job of the row and makes it pending if it is running, whoever claimed it.  A failed
flush ends a tick as a whole: `release` needs the session that has just broken.
A plan is one of three: a wait, a slot, or "now", whose key is new each time; the
gates' refusals and the retry cap are in 3.1, not here.

### 3.7 `Executor`

The simulated executor: `ledger` (`ExecutionLogStore._executions`), `hooks`
(`_webhooks`), `audits` (their number), and the summary of the batch that runs.
`Simulated(plan)` is the set of results, with the events each simulates: one
function per execution type, the bend of the outcome table, and the catch-all.
`ExecutePlan` and the steps of a batch (`OpenBatch`, `LoadMissing`, `RunInBatch`,
`CloseBatch`) put them on the ledger.  A hash of the key that chooses an outcome
is a choice; amounts are "recovered or not"; traces are left out.

### 3.8 The modules of proofs

`ActionOrchestratorProofs`, `RazorpayWebhooksProofs`, `AccountsProofs`,
`ExecutorProofs`, `ActionSessionsProofs`, `RecoveryDecisionsProofs`, and
`EnginesProofs` with the lemmas about the engines: see section 5.

---

## 4. Runs

### 4.1 What each run checks

| Run | Properties | What it shows |
|---|---|---|
| `orchestrator_safety` | `TypeOK`, `JobsFollowRows`, `RetryAccounting`, `DisplayExplained`, `AuditTrail`, `CallsOnce` | under two requests, ticks, failing calls, a dead letter and one fault, in every order, the tables agree with each other, with the audit trail and with the provider, and the orchestrator refines `OnceCalls` |
| `orchestrator_liveness` | `PolicyGateHolds`, `WaitsEnd` | with cooldowns and silent retries, nothing gets around the policy; every scheduled wait ends although a tick may crash |
| `payday_fallback`, `cooldown_calls`, `due_work`, `dead_letter_calls` | one each | a sentence of a document or a test that the code does not keep: section 6 |
| `webhooks` | `TypeOK`, `InboxTellsTruth`, `DeliveriesAudited`, `CaseExplained`, `LedgerAgrees`, `InboxOnce`, `EventsLand` | however deliveries of two events overlap, repeat, fail and roll back, the inbox refines `OnceInbox`, says what happened, and an event that was delivered lands |
| `failed_webhook` | `FailedIsRetried` | a sentence of a document that the code does not keep: section 6 |
| `decisions` | `TypeOK`, `PlanIsOffered`, `PlanIsDue`, `RetryBudgetKept`, `PaydayIsPayday`, `QuietCustomer`, `StaleAtMostADay`, `FinalIsLeftAlone`, `OwnActionsDrift` | diagnosis, policy and planner agree at every moment, with what the orchestrator expects of a plan, and with what was scheduled and explained before |
| `accounts` | `TypeOK`, `OneAccountPerEmail`, `TokenRotates`, `RevokeAllLocksOut`, `OneTenantPerOperator`, `WorkspaceHasKeys`, `SavedStaysSaved` | what overlapping requests of an operator may do to accounts, sessions, tenants and settings |
| `sessions` | `TypeOK`, `CallsTakeTurns`, `SettledOnce`, `NothingForgotten`, `RequestsDoNotDeadlock`, `SessionsEnd` | which of the promises of the orchestrator survive when its sessions overlap |
| `executor` | `TypeOK`, `RecoveredOnce`, `LedgerIsFinal` | a result is final and an amount counted once, over plans and batches |

* `TypeOK` includes that the tables are keyed by idempotency key and that a tick
  only handles rows of its session.
* `JobsFollowRows`: a waiting row has a live job at the row's time with the row's
  retry count; a settled or failed row has none; a dead row's job says so.
* `RetryAccounting`: retries counted never exceed calls made; within the cap a row
  retries, beyond it a row is dead.
* `DisplayExplained`: SUCCESS, FAILED, SENT and RETRYING are true of the calls.
* `AuditTrail`: what a row shows has its event, in the same transaction.
* `CallsOnce`: the refinement of `OnceCalls`.  No step calls twice; only keys of
  paying strategies are called; a key that is durably settled is never called again
  and its row never changes (`SettledIsFinal`); a key is served to the end (answered,
  and the customer told) at most once, plus once for each fault (`ChargedOnce`); and a
  key that is settled and not paid, such as one cancelled, was served at most by calls
  whose transaction was lost.  The two properties named are proved by themselves, too;
  the run checks the refinement, which implies them.  The faults are a real limit of
  the code, not slack: a call whose transaction is lost is repeated.  A call whose
  message could not be delivered is repeated by design, and `ok` does not count it.
* `PolicyGateHolds`: no call for a blocked decision, from the schedule endpoint,
  or from `execute` while cooling down, including through the fallback of a wait.
* `WaitsEnd`: a scheduled payday or promise wait becomes SUCCESS.

* `InboxTellsTruth`: a row has `processed_at` exactly when what was to be applied
  was, with its audit event; one without it may have changed the case, and has no
  audit event.  `DeliveriesAudited`: what was answered with 200 is in the inbox, and
  of the deliveries of an id that landed all but one, whichever came first, are
  audited as replays, however they overlap.
* `CaseExplained`: case and payment show what some event that took effect says,
  and the case is completed exactly if one of them completes it, in any order.
* `LedgerAgrees`: case and payment tell one story while no two dispatches overlap;
  when two do, the column-wise flushes can leave a recovered case with a failed
  payment: the property is stated with the exception the code needs.
* `PlanIsOffered`: what policy and planner hand over is a plan that `PlanOffers`
  admits: a STOP or DENY stops now, an ESCALATE escalates, a WAIT is a wait or a
  retry not before its cooldown (or, in an outage, a silent retry ahead).
* `PlanIsDue`: a plan lies ahead, beyond the cooldown, in contact hours by the
  merchant's clock, and at its moment the policy waits for no promise and no retry:
  at most for the end of the night by *its* clock, which for a merchant in the default
  timezone cannot be.  `RetryBudgetKept`: not more than three retries in a
  week, a day apart.  `PaydayIsPayday`: a payday slot stays a payday slot, by the
  merchant's clock, through weekends, festivals and cooldowns.
* `QuietCustomer`: without consent, in an outage, under a promise or at night,
  only the dashboard is told.  `FinalIsLeftAlone`: once recovery had to end, old
  rows run nothing but the end of a wait.  `OwnActionsDrift`: the system's rows
  change a diagnosis in one way only.  `StaleAtMostADay`: an explanation is wrong
  for less than a day.
* `TokenRotates`, `RevokeAllLocksOut`: with the exceptions the code needs (requests
  that overlap), which section 6 lists.
* `CallsTakeTurns`: no two open sessions have both called under one key: the row is
  flushed, and so held, before the call.  `SettledOnce`: executions, replays and
  ticks settle a key once, *unless* two open sessions looked at its row, or at its
  due job, or a webhook showed it as failed or authorized after all: the second
  then waits for the first and calls again.  `NothingForgotten`: a waiting row that
  is committed is found by `list_due`, or, where two sessions have met over it, by
  a job that is not done.  Both say more exceptions than they once did: the proof
  did not go through without, and TLC then found why with three sessions (a
  webhook, a request and a tick).
  `RequestsDoNotDeadlock`: every deadlock has a tick in it.  `SessionsEnd`: every
  session ends, by a commit or a roll-back.
* `RecoveredOnce`: what was reported as recovered, over all batches and plans, is
  what the ledger has, and two strategies of one slot never both charge, nor both
  link.  `LedgerIsFinal`: a result is never replaced, and no event is simulated
  but under a new key.

For each property of a passing run a mutant in `PROJECT.json` breaks it: a
definition with a small plausible bug, kept next to the definition it would
replace.

### 4.2 Bounds, and why they are enough

| Constant | Value | Why |
|---|---|---|
| `Cases` | one | rows of two cases share only the tick's transaction, and two rows of one case share that too |
| `MaxRetryAttempts` | 1 (4 in the code) | a retry, the last retry and a dead letter all happen |
| `MaxDelay`, `MaxLead` | 1 | now and later; a later slot may or may not be due at the next tick |
| `MaxTime` | 2 | two ticks: one can leave behind what the other meets |
| `MaxRequests` | 2; 3 for `dead_letter_calls` | one schedules or fails, another meets its row; a dead letter takes two and is met by the third |
| `MaxFailures` | 3; 1 for liveness | failures of one row: more than the cap |
| `MaxFaults` | 1; 0 where a violation must not need one | one crash, roll-back or unmapped exception at any point |

Every value bounds the environment (time, requests, failures), and is in a guard
of the model; the proofs are for all values of all of them.  Rows of one key
reach every display, the wait, its fallback, the backoff, the dead letter, a
second run under the same key, and a call that was lost in a crash.
The safety run has about 530 thousand distinct states, the liveness run about 170
thousand.  The horizon of the clock is a stutter (`Horizon`), so that TLC
reports every other deadlock: there is none.

The other runs:

| Run | Bounds | Why |
|---|---|---|
| `webhooks` | two events of one case, five bodies, two processes, two deliveries of each, one action, one fault | overlap, repetition, both orders, a failed dispatch or a lost transaction at any step; a third delivery meets what the second met.  About 313 thousand states |
| `failed_webhook` | one event, one process | the shortest story |
| `decisions` | five cases, one timezone besides the default, four instants, two rows and two facts, one kind of explanation | a Thursday night, a festival, payday and a Friday night; a cause without evidence, no funds, an outage on the card rail, three retries before, and a merchant ten and a half hours behind, by whose clock the contact hours of policy and planner share half an hour only.  A merchant may move there.  About 109 thousand states; each evaluates all engines |
| `accounts` | one address, two passwords, two workers, five requests, three moments | overlapping pairs after enough requests to have an account, a session and a tenant; an access token runs out before a refresh token.  About a million states, workers symmetric |
| `sessions` | two servers, two sessions, two keys with a slot and fresh ones, one fault, two moments | every pair of kinds overlaps on rows that are absent, waiting, retrying or failed.  A third session takes hours; it matters to what is settled or forgotten, and the proof covers any number.  About 430 thousand states |
| `executor` | one case, twenty-two plans of two slots (one of them without a time zone), three runs, four moments | a first run, a second under the same key or slot, and one after either; links, card sessions and waits before and after they expire.  About 310 thousand states |

`sessions`, `decisions`, `accounts` and `executor` end at the bound of their
requests, so deadlock is not checked there; `webhooks` has a stutter there (`Quiet`)
and is checked.

### 4.3 Fairness

`ActionOrchestrator!FairSpec` asks weak fairness of `Worker`: the worker wakes,
handles each due row, commits.  `_loop` (`B/core/scheduler_worker.py:35-40`) runs
ticks until the process stops, an exception of a tick does not end it, and a tick's
loop handles each row.  At most one of its disjuncts is enabled at a time.  Nothing
is fair to requests: none has to come.  No fault has to happen, and at most
`MaxFaults` do.  `WaitsEnd` is stated of keys whose slot leaves as many ticks before
the clock's bound as there may be faults; otherwise the bound, and not the code,
would decide.

`RazorpayWebhooks!FairSpec`: a request once begun runs on (the endpoint does not
yield), and the provider redelivers what was not answered with success: its
documented behaviour, on which `docs/RAZORPAY_WEBHOOKS.md` relies.  No fault
is fair.

`ActionSessions!FairSpec`: a thread that is not blocked goes on, and PostgreSQL
breaks a circle of waits.  No session has to begin, and a call may always break
within the bound.

---

## 5. Proofs

### 5.1 `ActionOrchestratorProofs`

Proved for all constants that satisfy
`CasesAssumption` (finitely many cases) and `BoundsAssumption` (the bounds are
natural numbers, delay and lead positive):

| Theorem | Says |
|---|---|
| `Invariance` | `Spec => []IInv` |
| `TypeCorrect`, `JobsAgree`, `RetriesAreCalls`, `DisplaysAreTrue`, `TrailIsComplete`, `ServedOnce`, `GateHolds` | `Spec => []P` for `TypeOK`, `JobsFollowRows`, `RetryAccounting`, `DisplayExplained`, `AuditTrail`, `ChargedOnce`, `PolicyGateHolds` |
| `SettledStays` | `Spec => SettledIsFinal`, an action property |
| `ProviderIsCalledOnce` | `Spec => CallsOnce`: each step is one of `OnceCalls` |

**The inductive invariant.**  None of the properties is inductive as stated.
`IInv` adds:

* the row invariants hold both of `session` and of `committed`, with the calls
  always those of the session: a roll-back restores the tables and not the calls,
  so each must be stable when calls only grow (hence "at least as many calls as
  retries", not "exactly");
* outside a tick `committed` is the durable part of `session`; inside one, a
  committed row that is settled is still the session's row, so a commit can only
  confirm it;
* what a tick has still to handle was committed and not settled when it began, so
  `run_due` cannot touch a settled row;
* the count of served calls per key: at most the faults so far, plus one only if
  the session's row of that key shows SUCCESS.  A roll-back gives the plus one
  back as a fault.  `ChargedOnce` follows.

**The argument.**  A handler writes one or two keys.  Lemmas of the table
operations say what each does to the row it touches (`RowOK`) and that it leaves
the rest alone (`Touched`).  They compose to one statement per branch of `run` and
`run_due`: from good tables to good tables, settled rows kept.  One lemma per
action lifts this to `IInv'`, and `NextStep` collects them.  The temporal theorems
combine initial state, step and consequence.

**The refinement.**  `CallsMore` says that a step adds one call of one key of a
paying strategy, or none.  It needs no invariant and is proved along the handlers,
apart from the lemmas above (`DispatchNowCalls` to `StepCalls`).  That the key was not
settled follows from `SettledStep`, that a second service costs a fault from
`ChargedOnce` after the step, that what is settled is true from `HonestKeys`, which
`IInv` implies, and that a loss settles nothing from the actions (`LossStep`).

### 5.2 `RazorpayWebhooksProofs`

Proved for all events, bodies, servers and bounds that satisfy `WebhookBounds`:
finitely many events (at least one) and servers, natural bounds, and first statuses
of the case that precede any webhook.

| Theorem | Says |
|---|---|
| `WebhookInvariance` | `Spec => []IInv` |
| `WebhookTypes`, `InboxIsTrue`, `DeliveriesAreAudited`, `CaseIsExplained`, `LedgersAgree` | `Spec => []P` for `TypeOK`, `InboxTellsTruth`, `DeliveriesAudited`, `CaseExplained`, `LedgerAgrees` |
| `InboxRefines` | `Spec => InboxOnce`: each step is one of `OnceInbox`, or a stutter |

What is committed does not say what a delivery in progress will commit.  `IInv`
adds, of each session, that its key is in the inbox when it replays and is not
there as long as it has inserted the key itself (`KeyInHand`), why it is where it
is (`Progress`), and that what it has read is up to date while nothing overlaps
(`ReadInHand`); of each two, that they do not hold one key or one row
(`Exclusive`); of each key without a row, that it has left no trace (`RowOK`).
The refinement follows: a key enters the inbox only with `CommitApplied` or
`CommitIgnored` (a failure among them), each for a key that was not there, so its
effects go from 0 to 1 or stay 0 in the step that makes it seen (`LandingStep`).

### 5.3 `AccountsProofs`

Proved for all addresses, passwords, workers and bounds that satisfy
`AccountBounds`: at least one address and password, finitely many workers, an
access token that does not outlive a refresh token.

| Theorem | Says |
|---|---|
| `AccountInvariance` | `Spec => []IInv` |
| `AccountTypes`, `OneAccount`, `TokensRotate`, `RevokeAllHolds`, `OneTenant`, `WorkspacesHaveKeys` | `Spec => []P` for `TypeOK`, `OneAccountPerEmail`, `TokenRotates`, `RevokeAllLocksOut`, `OneTenantPerOperator`, `WorkspaceHasKeys` |
| `SavedIsKept` | `Spec => SavedStaysSaved`, an action property |

A commit is right because of what was true when the request read, so `IInv` says
of each call under way what still is: no account has the address of a sign-up that
has passed its flush; the token of a refresh is among those it revokes, and a child
of it is the work of an overlap; every live session of an operator is among those
that a revoke-all that ran alone will revoke; an update of the settings wants
nothing less than it read, and what it read is still kept (`Keeps`).  Two requests
past their flush have different addresses: the unique column.

### 5.4 `ExecutorProofs`

Proved for all plans and bounds that satisfy `ExecutorBounds`: probabilities in
percent, slots that are times or `Naive`.

| Theorem | Says |
|---|---|
| `ExecutorInvariance` | `Spec => [](IInv /\ Resting)` |
| `ExecutorTypes`, `RecoveriesAreReal` | `Spec => []P` for `TypeOK`, `RecoveredOnce` |
| `LedgerStays` | `Spec => LedgerIsFinal`, an action property |

`RecoveredOnce` compares a sum with the cardinality of a set.  `IInv` has the sum
as what closed batches and the open one have reported, together, and ties each
recovery on the ledger to the events simulated for it (`Traces`): a second key of
the same case and slot would need an event that has been seen, and its simulation
would have found it.  A step adds one key or none, and `FS_AddElement` does the rest.

### 5.5 `ActionSessionsProofs`

Proved for any servers, sessions, moments and faults that satisfy `SessionBounds`:
the keys of the wait and the slot differ and are not fresh ones, there are finitely
many servers.  The run has two servers and two sessions; the theorems have any
number.

| Theorem | Says |
|---|---|
| `SessionInvariance` | `Spec => []IInv` |
| `SessionTypes`, `TurnsAreTaken`, `SettledAtMostOnce`, `NoneForgotten`, `OnlyTicksDeadlock` | `Spec => []P` for `TypeOK`, `CallsTakeTurns`, `SettledOnce`, `NothingForgotten`, `RequestsDoNotDeadlock` |

`IInv` is about what is committed (`Committed`), about each session (`SessionOK`)
and about each two (`Apart`: they hold different rows, have different numbers, and
have met over each key that both have looked at).  A session has a number no row
has (`Number`), has read what it writes and looked at what it reads (`Nested`), is
where its code can be with what it holds there (`Placed`, `Second`), writes what its
row's display says (`Wanted`), and leaves what waits where it is found (`Findable`).

*Settling.*  Of a key that no two have met over, what a session has read is what is
committed (`Fresher`), so a flush of the columns that differ writes what it wants.
A row settled once is final, and a run that reads a final row ends at once; so a
session that is about to write such a row has a count of 0 (`Unsettled`).  For a wait
the count is also tied to its job, which a tick finds it by (`WaitDone`, `SettledRow`).

*Taking turns.*  What a session has called is among the rows it holds, and two hold
different rows.

*Deadlock.*  Take a circle of sessions without a tick.  What each waits for, be it
for a row or for a job, is a key whose row another of the circle holds: a request
holds the row of each job that it writes.  One that waits for a job would hold that
row itself, so all wait for a row.  And one that holds a row already then waits
for the row of its own number, which nobody else has looked at
(`CirclesHaveTicks`).

### 5.6 `EnginesProofs`, `RecoveryDecisionsProofs`

Proved for every calendar of the shape `CalendarShape` (months begin again within 39
days), and any cases, moments, promise days and bounds that satisfy
`DecisionConstants`: a case has finitely many payments and promises, and nothing
happens on day 0, so that all clocks of the world show a natural number.

| Theorem | Says |
|---|---|
| `DecisionInvariance` | `Spec => []IInv` |
| `DecisionTypes`, `PlansAreOffered`, `PlansAreDue`, `RetriesAreRationed`, `PaydaysAreFound`, `QuietStaysQuiet`, `ExplanationsCatchUp` | `Spec => []P` for `TypeOK`, `PlanIsOffered`, `PlanIsDue`, `RetryBudgetKept`, `PaydayIsPayday`, `QuietCustomer`, `StaleAtMostADay` |
| `FinalStaysAlone`, `OwnActionsStay` | `Spec => P` for the action properties `FinalIsLeftAlone`, `OwnActionsDrift` |

`EnginesProofs` has the lemmas about the engines, which are functions of a case and
a moment.  None needs the state, so what follows from them holds of every case with
finitely many payments and promises, not of the reachable ones only.

*The calendar.*  Where each slot lies: not before the time it is computed from, and
within the hours of contact (a business day is not promised: after three weeks the
code takes any).  These are lemmas about one clock; `ClocksAgree` reads the merchant's
clock there and back, and `BusinessSlotLies` and `LocalPaydayLies` are what is left of
them for a merchant in any timezone.  `PaydaySlot` composes three steps, and what the last one finds is in
the payday window (`PaydaySlotLies`).

*The policy.*  `KindsOfResults` and the lemmas after it say which verdict and which
`until` each of the ten rules gives.  `WinnerIs` says that the winner is the first of
the strongest verdict and `LeadPasses` that a result without a verdict does not
lead, whence `DecisionIs` and `EvaluateIs`: what stops, what waits and until when.

*The plan.*  `StrategyIs` reads the two tables, `ScheduleIs` the five timings, and
`PlanLies` puts the plan at a time of contact, by the merchant's clock, after the cooldown.

*Offered plans.*  What waits, waits for a moment that is still ahead (`RuleOfNight` and
`WaitsLieAhead`: each rule's `until` lies after the moment it is asked at), so a decision
to wait has a cooldown ahead or, in an outage, none.  `StrategyIs` has, for each decision,
the strategies it can end in, and `ScheduleIs` the slot of each: not before the
cooldown, and now for a stop.  `OffersOf` puts the cases together; it needs no
invariant but the types.

*Due plans.*  `PlanOutlastsCooldown`: the cooldown ends after the last promised day, a
day or more after the last retry (`GapIs`), and when the oldest of three retries is
out of the week (`CapIs`); the plan is later than that.  Then fewer than three are
within the week (`CapStaysOver`), and the rules left that wait are those of an
outage and of the night.  By `NightAlone` the policy then waits, if it does, in its own
night and for the end of that.  The exceptions in `PlanIsDue` are needed for this.  `RetryBudgetKept` has
the same lemmas.

*Quiet customers.*  One rule that silences empties the list of channels whatever
the nine others say (`QuietGrants`).  Of a strategy's preferences the dashboard is then
the one that is left (`PickedAlone`), for each of the nine.

*The end.*  `IInv` adds to the types that a moment is on record exactly if the case is
final (`EndIsKnown`), and that what was explained after this moment says so
(`EndIsTold`).  Without the first a fact could undo the end: `FactSteps` shows that
none does, a payment and a promise included.  Without the second nothing is known
of the cache.  `StaleAtMostADay` follows: what is served is either new or less than a
day old, so younger than the end.  `FinalIsLeftAlone` rests on `FinalIsStopped`: what
had to end is stopped whatever the clock says, and then every run is refused, a
replay too; only the end of a wait writes `RAN` without asking.

*Drift.*  Rows add to the rules that fire only that of an authentication failure,
and only for UPI (`FiredGrows`: no other rule reads them); the first of the labels in the order of precedence is then this one or the
old one (`LabelDrift`).

### 5.7 What is only model-checked

* Liveness: `WaitsEnd`, `EventsLand`, `SessionsEnd`.  Neither fairness nor ENABLED is in
  the prover's reach.
* The disagreements of section 6: a counterexample is what they are.
* What sums and rankings over data compute for every input (`Priority`,
  `Probability` and their like): of these the proofs have bounds only.


---

## 6. Where code and documents differ

| Run | The document or test | The code |
|---|---|---|
| `payday_fallback` | "When payday arrives, the wait row completes and fallback hits Sandbox" (`apps/backend/tests/test_action_orchestrator.py:343`) | `run_due` takes the fallback of the plan the tick has just computed.  On payday that plan is a payment link, whose fallback is an escalation: no link is sent.  The test hands `run_due` the old plan |
| `cooldown_calls` | "Gate on policy decision, cooldown, and blocked channels" (`docs/ACTION_ORCHESTRATOR.md:16`) | replays and ticks skip the deferral and call during a cooldown |
| `due_work` | transient failures back off four times, "then dead-letter" (`docs/ACTION_ORCHESTRATOR.md:27`) | a tick runs a due retry under a plan of its own time and so under a new key; the row itself is never written, stays overdue, and makes one more call per tick |
| `dead_letter_calls` | "Razorpay is not called after the cap" (`test_action_orchestrator.py:302`) | FAILED is not terminal and the metadata is rebuilt: a dead-lettered key that is planned again is called again |
| `failed_webhook` | "leave `processed_at` null so Razorpay can retry without losing the inbox row" (`docs/RAZORPAY_WEBHOOKS.md:64-66`) | the redelivery finds the row and is a replay: it is audited and never applied; the failed delivery was answered with 200 |

What the models showed besides, without a run of its own:

* **Envelope of a webhook.**  `mark_failed` and `mark_replay` change `_rp_ingest`
  inside the loaded dictionary, which is never written (section 3.3): in the database
  `failed` stays false and `replay_count` 0, and the summary counts no failed and no
  replayed event.  `S/razorpay_webhooks/inbox.py:347` has "Replay =
  ingest.replay_count > 0; failed = ingest.failed", and
  `docs/RAZORPAY_WEBHOOKS.md:64-66,91,126-131` says the same.  The in-memory inbox of
  the tests keeps both.
* **Two contact windows.**  The policy goes by the default timezone for everybody
  (`S/policy_service.py:59`), the planner by the merchant's
  (`S/planner_service.py:124`): a slot in the merchant's morning can be night for the
  policy, which then says `dnd_contact` and waits for a morning of its own, as
  `PlanIsDue` allows.  `docs/DATABASE_SCHEMA.md:168` gives a merchant an "IANA timezone
  for payday/call-window scheduling", and `S/policy/rules.py:271` has "in the customer
  timezone".
* **Sessions.**  Two sessions that have both looked at a row before either flushes
  it call the provider one after the other (`SettledOnce` needs its exception).
  A tick is rolled back as a whole when a flush of one row fails, or when it is
  chosen to break a deadlock: `release` raises on the broken session; the calls it
  has made stay made.
* **A captured row stays due.**  A webhook's orchestrator is built without the SQL
  scheduler (`S/razorpay_webhooks/service.py:240-245`), so `complete` looks for the
  job in the memory of the process.  The job in `scheduler_jobs` stays pending, and
  the next tick finds the captured row by it; a wait that a webhook cancelled is
  then shown as SUCCESS.  `docs/ACTION_ORCHESTRATOR.md:70` says that the in-memory
  store is for tests only.
* **Promise date.**  A plan to honour a promise keeps the policy's cooldown, which
  ends at 08:00 the day after the promise: it is scheduled then
  (`S/planner/scheduler.py:67`), after its own `expires_at`.
  `docs/PLANNER_ENGINE.md:74` has "Exactly on the promised date at 09:15".
* **Planner.**  `RETRY_PAYMENT` is never planned: a WAIT with only a cooldown
  becomes `RETRY_SILENTLY`, not what `docs/PLANNER_ENGINE.md:60` says.  A payday slot may roll to the
  first of the next month.  The window of a payday plan is labelled "09:00–11:00 IST"
  (`S/planner/scheduler.py:95`) whatever the timezone it is in.
* **Policy.**  A duplicate payment has no rule; a high value hides the codes of
  other remarks on an ALLOW; with more than three recent retries the cap ends
  earlier than it could; a scheduled retry counts at its own time.  The policy
  asks for payments, not for the status that a webhook gave the case.
* **Diagnosis.**  The retry count includes every row of the case, whatever it did.
* **Explanations.**  The cache key is case, kind and versions
  (`S/explanations/explanation_service.py:103`): a message made before a payment is
  served for up to a day, and a customer is asked for the *expected* value
  (`S/explanations/fallback.py:56`), not for the amount due.
* **Accounts.**  Two overlapping refreshes of one token both succeed
  (`docs/AUTHENTICATION.md:17`: reusing one returns 401).  Access tokens outlive
  logout, revoke-all and a new password by up to 15 minutes; a new password revokes
  nothing.  A refresh in flight survives a revoke-all.  Step 3 of
  onboarding may come before step 2, and overlapping steps may move the step back.
* **Executor.**  A wait that is run before its slot stays SCHEDULED on the ledger:
  the run at the slot is a duplicate (`S/executor/executor_engine.py:462`
  documents SCHEDULED, then SUCCEEDED).  Internal errors and missing cases are kept
  as results, so a retry is a duplicate.  A missing case under a known key writes no
  audit, though `docs/EXECUTOR_ENGINE.md:189` says every execution does.  A retry
  and a link of one slot may both recover the amount.
* **Rate limit.**  The limiter is built with each router, so its window never spans
  two requests; a tick with more messages than a bucket holds sends the rest to
  backoff.

---

## 7. What is not modelled

* In `ActionOrchestrator`, webhooks and overlapping sessions: `SettledIsFinal` and
  `DisplayExplained` are claims about runs without them.  A late `payment.failed`
  rewrites the newest row by design; `ActionSessions` has both, on rows and jobs.
* In `ActionSessions`, the retry cap, the policy's refusals and the audit trail,
  which `ActionOrchestrator` has; several cases in one tick.
* The composition of the engines with failing calls in one state space:
  `ActionOrchestrator` takes any plan that `PlanOffers` admits, and the engines are
  proved to make no other (`PlansAreOffered`), so its safety properties hold of theirs.
  What is lost is which plan a case has *next*: liveness of a case across replans.
* The refill of a token bucket; signatures of webhooks and tokens; the transport of
  the sandbox client.
* `cancel` of a scheduled job: it has no caller.  `evaluate_batch`, `plan_batch`,
  `diagnose_batch`: maps over cases.
* Reads: queue, dashboards, audit explorer, metrics, health.  They change nothing.
* The frontend, the simulator and the seed: no shared state that the above
  depends on.  `PROJECT.json` gives the reason for each.

---

## 8. Running it

```
tlc -workers 2 -config orchestrator_safety.cfg MCActionOrchestrator
tlc -workers 2 -config webhooks.cfg            MCRazorpayWebhooks
tlc -workers 2 -config decisions.cfg           MCRecoveryDecisions
tlc -workers 2 -config accounts.cfg            MCAccounts
tlc -workers 2 -config sessions.cfg            MCActionSessions
tlc -workers 2 -config executor.cfg            MCExecutor
tlapm ActionOrchestratorProofs.tla
tlapm RazorpayWebhooksProofs.tla
tlapm AccountsProofs.tla
tlapm ActionSessionsProofs.tla
tlapm ExecutorProofs.tla
tlapm EnginesProofs.tla
tlapm RecoveryDecisionsProofs.tla
```

The runs `payday_fallback`, `cooldown_calls`, `due_work`, `dead_letter_calls`
and `failed_webhook` end with a counterexample; the others with none.
