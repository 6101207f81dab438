------------------------- MODULE ActionOrchestrator -------------------------
(***************************************************************************)
(* The action orchestrator of the recovery service: what                   *)
(* POST /actions/{case}/execute, /schedule, /replay and the scheduler      *)
(* worker's tick do to recovery_actions, scheduler_jobs and audit_logs,    *)
(* and the calls they make to the payment provider.                        *)
(*                                                                         *)
(* An HTTP request commits its own transaction in one step.  A tick is     *)
(* one transaction over many rows: it works on `session' and the durable   *)
(* tables are in `committed' until TickCommit; a failure of the tick rolls *)
(* the tables back, but not the calls the provider has already received.   *)
(* The policy engine and the planner are the environment: Plans(c) is the  *)
(* set of (plan, policy decision) pairs they can produce now.              *)
(***************************************************************************)
EXTENDS Integers, FiniteSets, PlanOffers

CONSTANTS
    Cases,              \* recovery cases
    Planned,            \* the planner strategies the environment may choose
    MaxRetryAttempts,   \* len(BACKOFF_STEPS): 4 in the code
    MaxDelay,           \* bound: longest backoff, in clock units
    MaxLead,            \* bound: how far ahead the planner schedules
    MaxTime,            \* bound: the clock
    MaxRequests,        \* bound: HTTP requests
    MaxFailures,        \* bound: provider calls of one row that may fail
    MaxFaults           \* bound: crashes and unmapped exceptions

VARIABLES
    clock,              \* now; a unit is one scheduler interval
    session,            \* the tables as the open session sees them, the calls
                        \* the provider has received, the last run handled
    committed,          \* the durable tables
    ticking,            \* is a tick's transaction open?
    due,                \* due_records of the tick not handled yet
    requests,           \* HTTP requests so far
    faults              \* crashes and unmapped exceptions so far

vars == <<clock, session, committed, ticking, due, requests, faults>>

ASSUME CasesAssumption == IsFiniteSet(Cases)
ASSUME BoundsAssumption ==
    /\ MaxRetryAttempts \in Nat
    /\ MaxDelay \in Nat \ {0} /\ MaxLead \in Nat \ {0}
    /\ MaxTime \in Nat /\ MaxRequests \in Nat
    /\ MaxFailures \in Nat /\ MaxFaults \in Nat

-----------------------------------------------------------------------------
(* Fallbacks, displays and events *)

FallbackStrategy ==
    [s \in Strategies |->
        CASE s \in {"REQUEST_NEW_MANDATE", "SEND_PAYMENT_LINK"}
                                   -> "ESCALATE_TO_HUMAN"
          [] s = "RETRY_SILENTLY"  -> "SWITCH_PAYMENT_METHOD"
          [] s \in {"ESCALATE_TO_HUMAN", "STOP_RECOVERY"} -> "STOP_RECOVERY"
          [] OTHER                 -> "SEND_PAYMENT_LINK"]

TerminalDisplay == {"SUCCESS", "CANCELLED", "EXPIRED"}

Displays == {"SCHEDULED", "SENT", "FAILED", "RETRYING"} \cup TerminalDisplay

\* display_status values stored as ExecutionStatus.SCHEDULED
WaitingDisplay == {"SCHEDULED", "RETRYING"}

LiveJob == {"pending", "running"}

Outcomes == {"ok", "undelivered", "transient", "permanent"}

Vias == {"none", "execute", "schedule", "replay", "tick"}

\* exec:{case}:{strategy}:{scheduled_at}; also the row's and the job's id
Key == [case : Cases, strategy : Strategies, slot : Nat]

Row == [display : Displays, scheduled : Nat, retries : Nat, dead : BOOLEAN]

Job == [status : LiveJob \cup {"done", "dead_letter"}, run_at : Nat, attempt : Nat]

\* calls for a key: all of them, and those answered and delivered to the customer
Received == [tried : Nat, ok : Nat]

Events == {"ACTION_SCHEDULED", "ACTION_EXECUTED", "ACTION_SKIPPED"}

-----------------------------------------------------------------------------
(* What policy and planner can return for case c now (PlanOffers).         *)

Plan == [case : Cases, strategy : Strategies, slot : Nat,
         decision : Decisions, cooldown : Nat]

Drafts(c, decisions, cooldowns) ==
    [case : {c}, strategy : Planned, slot : clock .. clock + MaxLead,
     decision : decisions, cooldown : cooldowns]

\* only a decision to wait comes with a cooldown
Plans(c) ==
    {p \in Drafts(c, Decisions, {NoCooldown}) \cup Drafts(c, {"WAIT"}, clock + 1 .. clock + MaxLead) :
        Offered(p, clock)}

KeyOf(p) == [case |-> p.case, strategy |-> p.strategy, slot |-> p.slot]

\* plan.model_copy(update={"strategy": fallback, "scheduled_at": as_of})
FallbackPlan(p) ==
    [case |-> p.case, strategy |-> FallbackStrategy[p.strategy], slot |-> clock,
     decision |-> p.decision, cooldown |-> p.cooldown]

HasFallback(p, strategy) ==
    /\ FallbackStrategy[p.strategy] \notin WaitStrategies
    /\ FallbackStrategy[p.strategy] # strategy

-----------------------------------------------------------------------------
(* The tables: SqlAlchemyActionStore and SqlAlchemySchedulerStore.         *)

Put(f, k, v) == [x \in DOMAIN f \cup {k} |-> IF x = k THEN v ELSE f[x]]

Showing(row, display) == [row EXCEPT !.display = display]

Persist(s, k, row, display) ==
    [s EXCEPT !.rows = Put(@, k, Showing(row, display))]

Schedule(s, k, run_at, attempt) ==
    [s EXCEPT !.jobs = Put(@, k, [status |-> "pending", run_at |-> run_at,
                                  attempt |-> attempt])]

SetStatus(jobs, k, status) ==
    [j \in DOMAIN jobs |->
        IF j = k THEN [jobs[j] EXCEPT !.status = status] ELSE jobs[j]]

\* (mutant of Complete: without the early return it inserts a bare job)
CompleteInserts(s, k, status) == [s EXCEPT !.jobs = Put(@, k, [status |-> status])]

Complete(s, k, status) == [s EXCEPT !.jobs = SetStatus(@, k, status)]

Release(s, k) ==
    IF k \in DOMAIN s.jobs /\ s.jobs[k].status = "running"
    THEN Complete(s, k, "pending") ELSE s

\* SchedulerJobStore.due and ActionStore.list_due
DueJobs(s, now) ==
    {k \in DOMAIN s.jobs : s.jobs[k].status = "pending" /\ s.jobs[k].run_at <= now}

DueRows(s, now) ==
    {k \in DOMAIN s.rows : /\ s.rows[k].display \in WaitingDisplay
                           /\ ~s.rows[k].dead
                           /\ s.rows[k].scheduled <= now}

ClaimDue(s, now) ==
    [s EXCEPT !.jobs =
        [k \in DOMAIN s.jobs |->
            IF k \in DueJobs(s, now) THEN [s.jobs[k] EXCEPT !.status = "running"]
                                     ELSE s.jobs[k]]]

Audit(s, k, event) == [s EXCEPT !.audits = @ \cup {<<k, event>>}]

-----------------------------------------------------------------------------
(* The provider, and what is observed of a run.                            *)

Tried(s, k) == IF k \in DOMAIN s.calls THEN s.calls[k].tried ELSE 0
Succeeded(s, k) == IF k \in DOMAIN s.calls THEN s.calls[k].ok ELSE 0

Counted(s, k, out) ==
    [tried |-> Tried(s, k) + 1,
     ok |-> IF out = "ok" THEN Succeeded(s, k) + 1 ELSE Succeeded(s, k)]

Call(s, k, out) ==
    [s EXCEPT !.calls = Put(@, k, Counted(s, k, out)),
              !.last = [@ EXCEPT !.called = TRUE]]

Idle == [via |-> "none", decision |-> "ALLOW", cooling |-> FALSE, called |-> FALSE]

Begin(s, p, via) ==
    [s EXCEPT !.last = [via |-> via, decision |-> p.decision,
                        cooling |-> p.cooldown > clock, called |-> FALSE]]

\* only a run that calls the provider is remembered
End(s) == IF s.last.called THEN s ELSE [s EXCEPT !.last = Idle]

\* a failing answer is explored only MaxFailures times per row
MayFail(p) ==
    \A k \in {KeyOf(p), KeyOf(FallbackPlan(p))} : Tried(session, k) < MaxFailures

-----------------------------------------------------------------------------
(* gates.evaluate_gates *)

Blocks(p) ==
    \/ p.decision \in {"STOP", "DENY"}
    \/ p.decision = "ESCALATE" /\ p.strategy # "ESCALATE_TO_HUMAN"

Cooling(p) == p.cooldown > clock

PolicyWaits(p) ==
    /\ p.decision = "WAIT"
    /\ p.cooldown = NoCooldown
    /\ p.slot > clock

\* (mutant of Defers: the cooldown is not looked at)
DefersIgnoringCooldown(p, force) ==
    \/ PolicyWaits(p)
    \/ force
    \/ p.strategy \in WaitStrategies /\ p.slot > clock

Defers(p, force) ==
    \/ Cooling(p)
    \/ PolicyWaits(p)
    \/ force
    \/ p.strategy \in WaitStrategies /\ p.slot > clock

RunAt(p) == IF Cooling(p) /\ p.cooldown > p.slot THEN p.cooldown ELSE p.slot

-----------------------------------------------------------------------------
(* ActionOrchestrator *)

\* the existing row with fresh metadata, or a new one
Record(s, p) ==
    IF KeyOf(p) \in DOMAIN s.rows
    THEN [s.rows[KeyOf(p)] EXCEPT !.dead = FALSE]
    ELSE [display |-> "SCHEDULED", scheduled |-> p.slot, retries |-> 0, dead |-> FALSE]

\* (mutant of IdempotentHit: a replay never hits)
HitUnlessReplay(s, p, replay) ==
    /\ KeyOf(p) \in DOMAIN s.rows
    /\ ~replay
    /\ s.rows[KeyOf(p)].display \in TerminalDisplay \cup {"SENT"}

IdempotentHit(s, p, replay) ==
    /\ KeyOf(p) \in DOMAIN s.rows
    /\ \/ s.rows[KeyOf(p)].display \in TerminalDisplay
       \/ ~replay /\ s.rows[KeyOf(p)].display = "SENT"

\* (mutants of Finalize: the job is left in the queue; no audit event)
FinalizeKeepsJob(s, k, row, display, event) ==
    Audit(Persist(s, k, row, display), k, event)

FinalizeSilently(s, k, row, display, event) ==
    Complete(Persist(s, k, row, display), k, "done")

Finalize(s, k, row, display, event) ==
    Audit(Complete(Persist(s, k, row, display), k, "done"), k, event)

At(row, time) == [row EXCEPT !.scheduled = time]

Retried(row) == [row EXCEPT !.retries = @ + 1]

Buried(row) == [row EXCEPT !.dead = TRUE]

DeadLetter(s, k, row) ==
    Audit(Complete(Persist(s, k, Buried(Retried(row)), "FAILED"), k, "dead_letter"),
          k, "ACTION_EXECUTED")

Backoff(s, k, row, at) ==
    Audit(Schedule(Persist(s, k, At(Retried(row), at), "RETRYING"),
                   k, at, row.retries + 1),
          k, "ACTION_SCHEDULED")

\* (mutant of BackoffOrDeadLetter: one retry too many)
BackoffOffByOne(s, k, row, delay) ==
    IF row.retries > MaxRetryAttempts
    THEN DeadLetter(s, k, row) ELSE Backoff(s, k, row, clock + delay)

BackoffOrDeadLetter(s, k, row, delay) ==
    IF row.retries >= MaxRetryAttempts
    THEN DeadLetter(s, k, row) ELSE Backoff(s, k, row, clock + delay)

\* (mutant of Answer: a delivery that failed counts as a success)
AnswerIgnoringDelivery(s, k, row, out, delay) ==
    IF out \in {"ok", "undelivered"} THEN Finalize(s, k, row, "SUCCESS", "ACTION_EXECUTED")
    ELSE IF out = "permanent" THEN Finalize(s, k, row, "FAILED", "ACTION_EXECUTED")
    ELSE IF out = "error" THEN s
    ELSE BackoffOrDeadLetter(s, k, row, delay)

\* the answer to a call: "transient" and "undelivered" may be tried again;
\* "error" is an exception nobody maps, which leaves the row as it was saved
\* before the call
Answer(s, k, row, out, delay) ==
    IF out = "ok" THEN Finalize(s, k, row, "SUCCESS", "ACTION_EXECUTED")
    ELSE IF out = "permanent" THEN Finalize(s, k, row, "FAILED", "ACTION_EXECUTED")
    ELSE IF out = "error" THEN s
    ELSE BackoffOrDeadLetter(s, k, row, delay)

\* RETRY_SILENTLY notifies nobody, so no delivery of it can fail
Effective(p, out) ==
    IF out = "undelivered" /\ p.strategy = "RETRY_SILENTLY" THEN "ok" ELSE out

\* _dispatch of a strategy that does not wait
DispatchNow(s, p, out, delay) ==
    LET k == KeyOf(p)
        row == Record(s, p)
        sent == Persist(s, k, row, "SENT")
    IN  IF p.strategy = "STOP_RECOVERY"
        THEN Finalize(sent, k, row, "CANCELLED", "ACTION_SKIPPED")
        ELSE IF p.strategy = "ESCALATE_TO_HUMAN"
        THEN Finalize(sent, k, row, "SUCCESS", "ACTION_EXECUTED")
        ELSE Answer(Call(sent, k, Effective(p, out)), k, row, Effective(p, out), delay)

\* a wait window is over: no audit event is written
CompleteWait(s, k, row) == Complete(Persist(s, k, row, "SUCCESS"), k, "done")

Defer(s, p) ==
    Audit(Schedule(Persist(s, KeyOf(p), At(Record(s, p), RunAt(p)), "SCHEDULED"),
                   KeyOf(p), RunAt(p), Record(s, p).retries),
          KeyOf(p), "ACTION_SCHEDULED")

\* run() up to the dispatch; Dispatched is what the dispatch would return
Gated(s, p, force, replay, Dispatched) ==
    IF IdempotentHit(s, p, replay) THEN s
    ELSE IF Blocks(p)
         THEN Finalize(s, KeyOf(p), Record(s, p), "CANCELLED", "ACTION_SKIPPED")
    ELSE IF Defers(p, force) /\ ~replay THEN Defer(s, p)
    ELSE Dispatched

RunNow(s, p, out, delay) == Gated(s, p, FALSE, FALSE, DispatchNow(s, p, out, delay))

DispatchWait(s, p, out, delay) ==
    IF HasFallback(p, p.strategy)
    THEN RunNow(CompleteWait(s, KeyOf(p), Record(s, p)), FallbackPlan(p), out, delay)
    ELSE Finalize(s, KeyOf(p), Record(s, p), "SUCCESS", "ACTION_EXECUTED")

Run(s, p, force, replay, out, delay) ==
    Gated(s, p, force, replay,
          IF p.strategy \in WaitStrategies
          THEN DispatchWait(s, p, out, delay)
          ELSE DispatchNow(s, p, out, delay))

\* (mutant of RunDue: a wait that is over is run again like any other row)
RunDueAgain(s, d, p, out, delay) == Run(s, p, FALSE, TRUE, out, delay)

\* run_due of row d under the plan p the tick has just computed.  The code uses
\* the record it read when the tick began: no other row of the tick writes a wait
\* row that is due, a wait row that is written having a later slot.
RunDue(s, d, p, out, delay) ==
    IF d.strategy \in WaitStrategies /\ s.rows[d].scheduled <= clock
    THEN IF HasFallback(p, d.strategy)
         THEN RunNow(CompleteWait(s, d, s.rows[d]), FallbackPlan(p), out, delay)
         ELSE CompleteWait(s, d, s.rows[d])
    ELSE Run(s, p, FALSE, TRUE, out, delay)

-----------------------------------------------------------------------------
(* Actions *)

Durable(s) == [rows |-> s.rows, jobs |-> s.jobs, audits |-> s.audits]

NoEntries == [k \in {} |-> 0]

EmptyTables == [rows |-> NoEntries, jobs |-> NoEntries, audits |-> {}]

Init ==
    /\ clock = 0
    /\ session = [rows |-> NoEntries, jobs |-> NoEntries, audits |-> {},
                   calls |-> NoEntries, last |-> Idle]
    /\ committed = EmptyTables
    /\ ticking = FALSE
    /\ due = {}
    /\ requests = 0
    /\ faults = 0

\* only schedule_case forces the deferral, only replay_execution replays
Handle(s, p, via, out, delay) ==
    Run(Begin(s, p, via), p, via = "schedule", via = "replay", out, delay)

Serving == ~ticking /\ requests < MaxRequests

\* a request handled to its commit
Request(p, via) ==
    /\ \E out \in Outcomes, delay \in 1 .. MaxDelay :
          /\ out # "ok" => MayFail(p)
          /\ session' = End(Handle(session, p, via, out, delay))
    /\ committed' = Durable(session')
    /\ requests' = requests + 1
    /\ UNCHANGED <<clock, ticking, due, faults>>

Execute(c) == Serving /\ \E p \in Plans(c) : Request(p, "execute")

ScheduleCase(c) == Serving /\ \E p \in Plans(c) : Request(p, "schedule")

\* replay_execution of a row of c: the row only tells the case, the plan is fresh
Replay(c) ==
    /\ Serving /\ \E k \in DOMAIN session.rows : k.case = c
    /\ \E p \in Plans(c) : Request(p, "replay")

\* a request that reaches the provider and fails before its commit (an
\* unmapped exception, a lost connection, a crash): the tables roll back
RequestFails(c) ==
    /\ Serving /\ faults < MaxFaults
    /\ \E p \in Plans(c), via \in {"execute", "replay"}, out \in Outcomes :
          LET s == Handle(session, p, via, out, 1)
          IN  /\ s.last.called
              /\ out # "ok" => MayFail(p)
              /\ session' = [session EXCEPT !.calls = s.calls, !.last = s.last]
    /\ requests' = requests + 1
    /\ faults' = faults + 1
    /\ UNCHANGED <<clock, committed, ticking, due>>

\* the worker's interval is over: _tick_once opens a session and tick_due
\* collects the due rows and claims the due jobs
WorkerWakes ==
    /\ ~ticking /\ clock < MaxTime
    /\ clock' = clock + 1
    /\ ticking' = TRUE
    /\ due' = DueRows(session, clock')
                \cup (DueJobs(session, clock') \cap DOMAIN session.rows)
    /\ session' = [ClaimDue(session, clock') EXCEPT !.last = Idle]
    /\ UNCHANGED <<committed, requests, faults>>

TickRecord(d) ==
    /\ ticking /\ d \in due
    /\ \E p \in Plans(d.case), out \in Outcomes, delay \in 1 .. MaxDelay :
          /\ out # "ok" => MayFail(p)
          /\ session' = End(RunDue(Begin(session, p, "tick"), d, p, out, delay))
    /\ due' = due \ {d}
    /\ UNCHANGED <<clock, committed, ticking, requests, faults>>

\* the tick's `except Exception': the case could not be loaded or planned, or
\* the call raised something unmapped; what was saved before stays saved
TickRecordFails(d) ==
    /\ ticking /\ d \in due /\ faults < MaxFaults
    /\ \/ session' = [Release(session, d) EXCEPT !.last = Idle]
       \/ \E p \in Plans(d.case) :
             LET s == RunDue(Begin(session, p, "tick"), d, p, "error", 1)
             IN  /\ s.last.called
                 /\ MayFail(p)
                 /\ session' = Release(s, d)
    /\ due' = due \ {d}
    /\ faults' = faults + 1
    /\ UNCHANGED <<clock, committed, ticking, requests>>

TickCommit ==
    /\ ticking /\ due = {}
    /\ ticking' = FALSE
    /\ committed' = Durable(session)
    /\ session' = [session EXCEPT !.last = Idle]
    /\ UNCHANGED <<clock, due, requests, faults>>

\* the tick's transaction is rolled back: a database error, or a crash
TickAbort ==
    /\ ticking /\ faults < MaxFaults
    /\ ticking' = FALSE
    /\ due' = {}
    /\ session' = [session EXCEPT !.rows = committed.rows, !.jobs = committed.jobs,
                                  !.audits = committed.audits, !.last = Idle]
    /\ faults' = faults + 1
    /\ UNCHANGED <<clock, committed, requests>>

\* the bound of the clock: the worker does not wake again
Horizon == ~ticking /\ clock = MaxTime /\ UNCHANGED vars

Next ==
    \/ \E c \in Cases : Execute(c) \/ ScheduleCase(c) \/ Replay(c) \/ RequestFails(c)
    \/ \E d \in due : TickRecord(d) \/ TickRecordFails(d)
    \/ WorkerWakes \/ TickCommit \/ TickAbort \/ Horizon

Spec == Init /\ [][Next]_vars

\* the worker thread: it wakes, handles each due row, commits
Worker == WorkerWakes \/ (\E d \in due : TickRecord(d)) \/ TickCommit

\* _loop runs until the process stops, and a tick's loop to its end; at most
\* one disjunct of Worker is enabled at a time.  Nothing is fair to requests,
\* and nothing obliges a fault.
FairSpec == Spec /\ WF_vars(Worker)

-----------------------------------------------------------------------------
(* Type invariant *)

IsTable(f, V) == DOMAIN f \subseteq Key /\ f \in [DOMAIN f -> V]

TablesOK(t) ==
    /\ IsTable(t.rows, Row)
    /\ IsTable(t.jobs, Job)
    /\ t.audits \subseteq Key \X Events

Observation == [via : Vias, decision : Decisions, cooling : BOOLEAN, called : BOOLEAN]

SessionOK(s) ==
    /\ s \in [rows : {s.rows}, jobs : {s.jobs}, audits : {s.audits},
              calls : {s.calls}, last : {s.last}]
    /\ TablesOK(s)
    /\ IsTable(s.calls, Received)
    /\ s.last \in Observation

\* TypeOK: the tables are keyed by idempotency key, in the session and on disk.
TypeOK ==
    /\ clock \in Nat
    /\ SessionOK(session)
    /\ committed = Durable(committed)
    /\ TablesOK(committed)
    /\ ticking \in BOOLEAN
    /\ due \subseteq DOMAIN session.rows
    /\ requests \in Nat
    /\ faults \in 0 .. MaxFaults

-----------------------------------------------------------------------------
(* Safety *)

Live(t, k) == k \in DOMAIN t.jobs /\ t.jobs[k].status \in LiveJob

\* A row that waits has exactly the job that will wake it, at the row's time and
\* with the row's retry count; a settled or failed row has no live job, and a
\* dead-lettered row's job says so.
JobOfRow(t, k) ==
    /\ t.rows[k].display \in WaitingDisplay =>
          /\ Live(t, k)
          /\ t.jobs[k].run_at = t.rows[k].scheduled
          /\ t.jobs[k].attempt = t.rows[k].retries
    /\ t.rows[k].display \in TerminalDisplay \cup {"FAILED"} => ~Live(t, k)
    /\ t.rows[k].dead /\ k \in DOMAIN t.jobs => t.jobs[k].status = "dead_letter"

\* JobsFollowRows: recovery_actions and scheduler_jobs never disagree, in the
\* session of an open tick and in the durable tables (orchestrator.py keeps two
\* tables in step by hand on every path).
JobsFollowRows ==
    \A t \in {Durable(session), committed} :
        /\ DOMAIN t.jobs \subseteq DOMAIN t.rows
        /\ \A k \in DOMAIN t.rows : JobOfRow(t, k)

\* Retry counts of the tables t, against the calls received of session s.
RetriesCounted(t, s, k) ==
    LET row == t.rows[k]
    IN  /\ row.retries <= Tried(s, k)
        /\ row.display = "RETRYING" => row.retries \in 1 .. MaxRetryAttempts
        /\ row.dead => row.display = "FAILED" /\ row.retries > MaxRetryAttempts

\* RetryAccounting: every retry counted was a call; a row retries only within
\* the cap and is dead-lettered only beyond it (_backoff_or_dead_letter).
RetryAccounting ==
    \A t \in {Durable(session), committed} :
        \A k \in DOMAIN t.rows : RetriesCounted(t, session, k)

\* What policy and caller must have been for a run that called the provider.
Gate(last) ==
    last.called =>
        /\ last.decision \in {"ALLOW", "WAIT"}
        /\ last.via # "schedule"
        /\ last.via = "execute" => ~last.cooling

\* PolicyGateHolds: nothing reaches the provider for a case whose policy
\* decision blocks it, or from the schedule endpoint, or from /execute while
\* the policy cools down, on any path (request, due row, fallback of a wait).
PolicyGateHolds == Gate(session.last)

\* ChargedOnce: a key is served to the end (the call answered, the customer told)
\* once, and once more for each crash or lost transaction at most: what the
\* idempotency key is for.  A call whose message was not delivered is repeated.
ChargedOnce == \A k \in DOMAIN session.calls : session.calls[k].ok <= 1 + faults

\* What a display claims about the provider.
Explained(t, s, k) ==
    LET display == t.rows[k].display
    IN  /\ display = "SUCCESS" /\ k.strategy \in RazorpayStrategies => Succeeded(s, k) > 0
        /\ display \in {"FAILED", "SENT"} => Tried(s, k) > Succeeded(s, k)
        /\ display \in {"RETRYING", "FAILED", "SENT"} => k.strategy \in RazorpayStrategies

\* DisplayExplained: SUCCESS of a paying strategy means a call for that key was
\* answered and delivered, FAILED and SENT that one was not, and only paying
\* strategies fail or retry.
DisplayExplained ==
    \A t \in {Durable(session), committed} :
        \A k \in DOMAIN t.rows : Explained(t, session, k)

\* The event that must be in the trail when a row shows a display.
EventOf(k, display) ==
    IF display \in WaitingDisplay THEN {"ACTION_SCHEDULED"}
    ELSE IF display = "CANCELLED" THEN {"ACTION_SKIPPED"}
    ELSE IF display = "FAILED" \/ (display = "SUCCESS" /\ k.strategy \notin WaitStrategies)
         THEN {"ACTION_EXECUTED"}
    ELSE {}

Trailed(t, k) == \A e \in EventOf(k, t.rows[k].display) : <<k, e>> \in t.audits

\* AuditTrail: whatever the display of a durable row, the audit event of it is
\* durable too (a wait that is over has none: run_due writes no event).
AuditTrail ==
    \A t \in {Durable(session), committed} : \A k \in DOMAIN t.rows : Trailed(t, k)

SettledStep ==
    \A k \in DOMAIN committed.rows :
        committed.rows[k].display \in TerminalDisplay =>
            /\ k \in DOMAIN committed'.rows
            /\ committed'.rows[k] = committed.rows[k]
            /\ Tried(session', k) = Tried(session, k)

\* SettledIsFinal: a row once durably settled never changes again, and the
\* provider never hears of its key again, whatever is executed, replayed or due.
SettledIsFinal == [][SettledStep]_vars

\* The durable tables as OnceCalls sees them: keys settled, and keys paid.
SettledKeys == {k \in DOMAIN committed.rows : committed.rows[k].display \in TerminalDisplay}

PaidKeys ==
    {k \in DOMAIN committed.rows :
        committed.rows[k].display = "SUCCESS" /\ k.strategy \in RazorpayStrategies}

Provider == INSTANCE OnceCalls WITH
    Payable <- [case : Cases, strategy : RazorpayStrategies, slot : Nat],
    settled <- [k \in SettledKeys |-> committed.rows[k]], paid <- PaidKeys,
    calls <- session.calls, lost <- faults

\* CallsOnce: what the provider hears and what the durable tables say implement
\* OnceCalls: each step calls at most once, for one key that is not settled, and
\* the outcome that is settled is true of the calls, up to those that were lost,
\* and is never written again (the idempotency of run, replay and run_due).
CallsOnce == Provider!Spec

-----------------------------------------------------------------------------
(* Liveness, under FairSpec *)

\* keys whose time leaves ticks enough before the clock's bound, whatever fails
InTime(ss) ==
    [case : Cases, strategy : ss \cap Planned, slot : 1 .. MaxTime - MaxFaults]

Shows(k, display) == k \in DOMAIN committed.rows /\ committed.rows[k].display = display

\* WaitsEnd: a scheduled wait for payday or for a promise is over once its day
\* has come, although ticks may crash, roll back or fail on the row.
WaitsEnd ==
    \A k \in InTime(WaitStrategies) : Shows(k, "SCHEDULED") ~> Shows(k, "SUCCESS")

-----------------------------------------------------------------------------
(* What documents and tests say of the program, and the code does not do.   *)

\* PaydayReachesProvider: "When payday arrives, the wait row completes and
\* fallback hits Sandbox" (test_action_orchestrator.py): a payday wait that ends
\* leaves a row of a paying strategy, unless the fallback is cancelled.
PaydayReachesProvider ==
    [][\A k \in DOMAIN session.rows :
          (/\ k.strategy = "WAIT_FOR_PAYDAY"
           /\ session.rows[k].display = "SCHEDULED"
           /\ k \in DOMAIN session'.rows /\ session'.rows[k].display = "SUCCESS")
             => \E e \in DOMAIN session'.rows :
                   /\ e.case = k.case /\ e.slot = clock
                   /\ \/ e.strategy \in RazorpayStrategies
                      \/ session'.rows[e].display = "CANCELLED"]_vars

\* NoCallWhileCooling: "Gate on policy decision, cooldown, and blocked channels"
\* (ACTION_ORCHESTRATOR.md) before Sandbox is called.
NoCallWhileCooling == session.last.called => ~session.last.cooling

\* DueWorkIsDone: the tick "runs due SCHEDULED rows" and a transient failure
\* backs off, "then dead-letter" (ACTION_ORCHESTRATOR.md): a tick that commits
\* with nothing failed leaves no row behind that is still waiting and overdue.
DueWorkIsDone ==
    [][ticking /\ ~ticking' /\ faults' = 0 => DueRows(committed', clock) = {}]_vars

\* DeadStaysDead: "Four backoffs then dead-letter. Razorpay is not called after
\* the cap" (test_action_orchestrator.py): no call for a dead-lettered row.
DeadStaysDead ==
    [][\A k \in DOMAIN committed.rows :
          committed.rows[k].dead => Tried(session', k) = Tried(session, k)]_vars
=============================================================================
