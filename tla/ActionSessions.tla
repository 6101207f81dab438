--------------------------- MODULE ActionSessions ---------------------------
(***************************************************************************)
(* The action orchestrator in sessions of their own: requests and worker   *)
(* ticks of one case that overlap on the same tables.                      *)
(*                                                                         *)
(* ActionOrchestrator models what a run does; here its reads, flushes,     *)
(* calls and commit are steps.  A session is a READ COMMITTED transaction  *)
(* with an ORM identity map: a row it has loaded is not read again (the    *)
(* case keeps it), a job, which nothing keeps, is; a flush writes the      *)
(* columns that differ from what was loaded, and locks the row until the   *)
(* end.  A request that fails is rolled back; so is a whole tick when a    *)
(* flush of it fails, for the release of the row that failed needs the     *)
(* session that has just broken.                                           *)
(***************************************************************************)
EXTENDS Naturals, FiniteSets

CONSTANTS
    Wait,               \* key of a wait for payday: a slot at time 1, a fallback after it
    Slot,               \* key of a plan that waits for the contact window: same slot
    Servers,            \* threads: requests, and the worker of each process
    MaxSessions,        \* bound: sessions
    MaxTime,            \* bound: the clock
    MaxFaults           \* bound: exceptions that no error of the client maps

VARIABLES
    now,
    rows,               \* recovery_actions, committed
    jobs,               \* scheduler_jobs, committed
    session,            \* what each server has open
    begun,
    faults,
    met,                \* observed: keys whose row, or due job, two open sessions have
                        \* both looked at, or that a webhook has shown as not settled
    settled             \* observed: commits that turned a key to SUCCESS

vars == <<now, rows, jobs, session, begun, faults, met, settled>>

-----------------------------------------------------------------------------
\* a plan for "now" has a key of its own: the number of the session that made it
Fresh == 1 .. MaxSessions
Keys == {Wait, Slot} \cup Fresh

ASSUME SessionBounds ==
    /\ Wait # Slot /\ {Wait, Slot} \cap Fresh = {}
    /\ IsFiniteSet(Servers)
    /\ {MaxSessions, MaxTime, MaxFaults} \subseteq Nat

DbStatus == [SCHEDULED |-> "SCHEDULED", RETRYING |-> "SCHEDULED", SENT |-> "RUNNING",
             SUCCESS |-> "SUCCEEDED", FAILED |-> "FAILED", CANCELLED |-> "CANCELLED"]

TerminalDisplay == {"SUCCESS", "CANCELLED"}

Row == [status : {DbStatus[d] : d \in DOMAIN DbStatus}, display : DOMAIN DbStatus,
        at : 0 .. MaxTime + 1]
Job == [status : {"pending", "running", "done"}, at : 0 .. MaxTime + 1]

\* seen, seenJobs: the identity map; rows, jobs: what is flushed and not committed
Session == [kind : {"none", "execute", "schedule", "replay", "tick", "webhook"}, n : 0 .. MaxSessions,
            at : 0 .. MaxTime,
            pc : {"idle", "claim", "mark", "next", "run", "save", "flush", "call",
                  "release", "select", "write"},
            key : Keys, item : Keys, replay : BOOLEAN,
            claims : SUBSET Keys, todo : SUBSET Keys, looked : SUBSET Keys,
            want : Row, insert : BOOLEAN, then : {"call", "select", "next"},
            job : Job, ended : BOOLEAN,
            called : SUBSET Keys]

Is(display, at) == [status |-> DbStatus[display], display |-> display, at |-> at]

NoRow == [status |-> "SCHEDULED", display |-> "SCHEDULED", at |-> 0]

Closed == [kind |-> "none", n |-> 0, at |-> 0, pc |-> "idle", key |-> Wait, item |-> Wait,
           replay |-> FALSE, claims |-> {}, todo |-> {}, looked |-> {},
           want |-> NoRow, insert |-> FALSE, then |-> "call",
           job |-> [status |-> "pending", at |-> 0], ended |-> FALSE,
           called |-> {},
           seen |-> <<>>, seenJobs |-> <<>>, rows |-> <<>>, jobs |-> <<>>]

-----------------------------------------------------------------------------
Open == {s \in Servers : session[s].pc # "idle"}

At(s, pc) == session[s].pc = pc

Set(f, k, v) == [j \in DOMAIN f \cup {k} |-> IF j = k THEN v ELSE f[j]]

\* SqlAlchemyActionStore.get: what is loaded already, or the committed row
Loaded(s) == [k \in DOMAIN rows \cup DOMAIN session[s].seen |->
                 IF k \in DOMAIN session[s].seen THEN session[s].seen[k] ELSE rows[k]]

\* SELECT of a job: what the session has flushed, or the committed job
LoadedJobs(s) == [k \in DOMAIN jobs \cup DOMAIN session[s].jobs |->
                     IF k \in DOMAIN session[s].jobs
                     THEN session[s].jobs[k] ELSE jobs[k]]

\* another session looks at the keys too
Looks(s, ks) ==
    met' = met \cup {k \in ks : \E t \in Open \ {s} : k \in session[t].looked}

RowHeld(s, k) == {t \in Servers \ {s} : k \in DOMAIN session[t].rows}
JobHeld(s, k) == {t \in Servers \ {s} : k \in DOMAIN session[t].jobs}

\* claim_due goes by run_at
FirstClaim(s) ==
    CHOOSE k \in session[s].claims :
        \A j \in session[s].claims : session[s].seenJobs[k].at <= session[s].seenJobs[j].at

\* whom a session waits for
Blockers(s) ==
    CASE At(s, "flush") -> RowHeld(s, session[s].key)
      [] At(s, "write") -> JobHeld(s, session[s].key)
      [] At(s, "mark") -> JobHeld(s, session[s].item)
      [] OTHER -> {}

\* an UPDATE sets what differs from what was loaded; the metadata, where the
\* display is, differ at each save
MergedRow(row, seen, want) ==
    [status |-> IF want.status # seen.status THEN want.status ELSE row.status,
     display |-> want.display,
     at |-> IF want.at # seen.at THEN want.at ELSE row.at]

MergedJob(job, seen, want) ==
    [f \in DOMAIN job |-> IF want[f] # seen[f] THEN want[f] ELSE job[f]]

Become(s, r) ==
    /\ session' = [session EXCEPT ![s] = r]
    /\ UNCHANGED <<now, rows, jobs, begun, faults, settled>>

-----------------------------------------------------------------------------
(* A session opens                                                         *)

OpenAs(s, r) ==
    /\ At(s, "idle") /\ begun < MaxSessions
    /\ begun' = begun + 1
    /\ session' = [session EXCEPT ![s] = [r EXCEPT !.n = begun + 1, !.at = now]]
    /\ UNCHANGED <<now, rows, jobs, faults, settled>>

\* the plan of the case, as of the clock that the request has read
Planned == (IF now < 1 THEN {Wait, Slot} ELSE {}) \cup {begun + 1}

BeginExecute(s) ==
    \E k \in Planned :
        /\ OpenAs(s, [Closed EXCEPT !.kind = "execute", !.pc = "run", !.key = k])
        /\ UNCHANGED met

BeginSchedule(s) ==
    \E k \in Planned :
        /\ OpenAs(s, [Closed EXCEPT !.kind = "schedule", !.pc = "run", !.key = k])
        /\ UNCHANGED met

\* (mutant of BeginReplay: it claims the job of the wait, as a tick does)
BeginReplayClaims(s) ==
    /\ Wait \in DOMAIN rows /\ Wait \in DOMAIN jobs
    /\ OpenAs(s, [Closed EXCEPT !.kind = "replay", !.pc = "claim",
          !.claims = {Wait}, !.todo = {Wait}, !.looked = {Wait},
          !.seen = [k \in {Wait} |-> rows[k]], !.seenJobs = [k \in {Wait} |-> jobs[k]]])
    /\ Looks(s, {Wait})

\* replay(execution_id) finds the case by a row of it
BeginReplay(s) ==
    /\ DOMAIN rows # {}
    /\ \E k \in Planned :
          OpenAs(s, [Closed EXCEPT !.kind = "replay", !.pc = "run", !.key = k, !.replay = TRUE])
    /\ UNCHANGED met

\* apply_provider_webhook on the newest row (any may be).  It completes no job: the
\* scheduler it is built with keeps its own, in the memory of the process
BeginWebhook(s) ==
    \E k \in DOMAIN rows, display \in {"SUCCESS", "FAILED", "CANCELLED", "SENT"} :
        /\ OpenAs(s, [Closed EXCEPT !.kind = "webhook", !.pc = "flush", !.key = k,
              !.looked = {k}, !.seen = [j \in {k} |-> rows[j]],
              !.want = Is(display, rows[k].at), !.then = "next"])
        /\ IF display \in TerminalDisplay THEN Looks(s, {k}) ELSE met' = met \cup {k}

DueRows == {k \in DOMAIN rows : rows[k].status = "SCHEDULED" /\ rows[k].at <= now}
DueJobs == {k \in DOMAIN jobs : jobs[k].status = "pending" /\ jobs[k].at <= now}

\* list_due and the read of claim_due
BeginTick(s) ==
    /\ DueRows \cup DueJobs # {}
    /\ OpenAs(s, [Closed EXCEPT !.kind = "tick", !.pc = "claim",
          !.claims = DueJobs, !.todo = DueRows \cup DueJobs, !.looked = DueRows \cup DueJobs,
          !.seen = [k \in DueRows |-> rows[k]], !.seenJobs = [k \in DueJobs |-> jobs[k]]])
    /\ Looks(s, DueRows \cup DueJobs)

\* a job about to be given another status; its item is handled next, or was
Marks(r, k, job, status) ==
    [r EXCEPT !.pc = "mark", !.item = k, !.seenJobs = Set(@, k, job),
              !.job = [job EXCEPT !.status = status]]

\* mark_running selects the job again: one that is not pending any more stays as it
\* is, and its row is handled like the others
Claim(s) ==
    LET r == session[s]
        k == FirstClaim(s)
        rest == [r EXCEPT !.claims = @ \ {k},
                    !.seenJobs = [j \in DOMAIN @ \ {k} |-> @[j]]]
    IN  /\ At(s, "claim") /\ r.claims # {}
        /\ Become(s, IF jobs[k].status = "pending" THEN Marks(rest, k, jobs[k], "running")
                     ELSE rest)
        /\ UNCHANGED met

\* the flush of mark_running or release, which waits for a session that holds the job
Mark(s) ==
    LET r == session[s]
        k == r.item
        job == IF k \in DOMAIN r.jobs THEN r.jobs[k] ELSE jobs[k]
    IN  /\ At(s, "mark") /\ Blockers(s) = {}
        /\ Become(s, [r EXCEPT !.pc = IF r.job.status = "running" THEN "claim" ELSE "next",
              !.seenJobs = Set(@, k, r.job),
              !.jobs = Set(@, k, MergedJob(job, r.seenJobs[k], r.job))])
        /\ UNCHANGED met

\* the rows of claimed jobs that list_due did not bring are loaded
Claimed(s) ==
    LET r == session[s]
        more == (r.todo \cap DOMAIN rows) \ DOMAIN r.seen
    IN  /\ At(s, "claim") /\ r.claims = {}
        /\ Become(s, [r EXCEPT !.pc = "next", !.looked = @ \cup more,
              !.todo = @ \cap (DOMAIN r.seen \cup more),
              !.seen = [k \in DOMAIN r.seen \cup more |->
                           IF k \in more THEN rows[k] ELSE r.seen[k]]])
        /\ Looks(s, more)

-----------------------------------------------------------------------------
(* One plan, or one due row, in a session                                  *)

\* (mutant of NextItem: due rows are asked for again until there are none)
NextItemAgain(s) ==
    LET r == session[s]
    IN  /\ At(s, "next")
        /\ \E k \in r.todo :
              IF k = Wait
              THEN Become(s, [r EXCEPT !.todo = @ \ {k}, !.item = k, !.key = k, !.pc = "flush",
                        !.want = Is("SUCCESS", r.seen[k].at), !.insert = FALSE,
                        !.then = "select", !.ended = TRUE,
                        !.job = [status |-> "done", at |-> r.seen[k].at]])
              ELSE Become(s, [r EXCEPT !.item = k, !.key = r.n, !.pc = "run",
                        !.replay = TRUE])
        /\ UNCHANGED met

\* run_due: a wait is over, and its fallback comes next; any other row is run
\* under the plan of now
NextItem(s) ==
    LET r == session[s]
    IN  /\ At(s, "next")
        /\ \E k \in r.todo :
              IF k = Wait
              THEN Become(s, [r EXCEPT !.todo = @ \ {k}, !.item = k, !.key = k, !.pc = "flush",
                        !.want = Is("SUCCESS", r.seen[k].at), !.insert = FALSE,
                        !.then = "select", !.ended = TRUE,
                        !.job = [status |-> "done", at |-> r.seen[k].at]])
              ELSE Become(s, [r EXCEPT !.todo = @ \ {k}, !.item = k, !.key = r.n, !.pc = "run",
                        !.replay = TRUE])
        /\ UNCHANGED met

\* (mutant of Hit: a row is not asked what it is)
HitNever(s) == FALSE

\* the idempotent answer of run
Hit(s) ==
    LET found == Loaded(s)
        k == session[s].key
    IN  /\ k \in DOMAIN found
        /\ \/ found[k].display \in TerminalDisplay
           \/ found[k].display = "SENT" /\ ~session[s].replay

\* the gates: a slot defers execute and not replay, schedule always; a plan for now
\* may be deferred by the cooldown
Defers(s) ==
    IF session[s].replay THEN {FALSE}
    ELSE IF session[s].key \in {Wait, Slot} \/ session[s].kind = "schedule" THEN {TRUE}
    ELSE BOOLEAN

Run(s) ==
    LET r == session[s]
        k == r.key
        found == Loaded(s)
        slot == IF k \in {Wait, Slot} THEN 1 ELSE r.at
        read == [r EXCEPT !.looked = @ \cup {k},
                    !.seen = IF k \in DOMAIN found THEN Set(@, k, found[k]) ELSE @]
    IN  /\ At(s, "run")
        /\ IF Hit(s) THEN Become(s, [read EXCEPT !.pc = "next"])
           ELSE \E deferred \in Defers(s) :
                   LET at == IF k \in Fresh THEN slot + 1 ELSE slot
                   IN  Become(s, IF deferred
                          THEN [read EXCEPT !.pc = "save", !.want = Is("SCHEDULED", at),
                                  !.then = "select", !.ended = FALSE,
                                  !.job = [status |-> "pending", at |-> at]]
                          ELSE [read EXCEPT !.pc = "save", !.then = "call", !.ended = FALSE,
                                  !.want = Is("SENT", IF k \in DOMAIN found THEN found[k].at
                                                      ELSE slot)])
        /\ Looks(s, {k})

\* save asks for the row once more: it may have been inserted since
Save(s) ==
    LET r == session[s]
        found == Loaded(s)
    IN  /\ At(s, "save")
        /\ Become(s, [r EXCEPT !.pc = "flush", !.insert = r.key \notin DOMAIN found,
              !.seen = IF r.key \in DOMAIN found THEN Set(@, r.key, found[r.key]) ELSE @])
        /\ UNCHANGED met

RollBack(s) ==
    /\ session' = [session EXCEPT ![s] = Closed]
    /\ UNCHANGED <<now, rows, jobs, begun, settled, met>>

\* what a flush leaves in the session
Written(r, row) ==
    [r EXCEPT !.pc = r.then, !.seen = Set(@, r.key, r.want), !.rows = Set(@, r.key, row)]

\* (mutant of Flush: no wait, and no unique id)
FlushUnlocked(s) ==
    LET r == session[s]
        k == r.key
    IN  /\ At(s, "flush")
        /\ Become(s, Written(r, r.want))
        /\ UNCHANGED met

\* the flush waits for a session that holds the row; an insert fails if one has
\* committed it meanwhile
Flush(s) ==
    LET r == session[s]
        k == r.key
        row == IF k \in DOMAIN r.rows THEN r.rows[k] ELSE rows[k]
    IN  /\ At(s, "flush") /\ Blockers(s) = {}
        /\ IF r.insert /\ k \in DOMAIN rows
           THEN RollBack(s) /\ UNCHANGED faults
           ELSE /\ Become(s, Written(r, IF r.insert THEN r.want
                                        ELSE MergedRow(row, r.seen[k], r.want)))
                /\ UNCHANGED met

\* a wait that is replayed makes no call of its own
EndWait(s) ==
    LET r == session[s]
        done == Is("SUCCESS", r.want.at)
    IN  /\ At(s, "call") /\ r.key = Wait
        /\ Become(s, [r EXCEPT !.pc = "select", !.want = done, !.ended = TRUE,
              !.job = [status |-> "done", at |-> r.want.at],
              !.seen = Set(@, Wait, done),
              !.rows = Set(@, Wait, MergedRow(r.rows[Wait], r.seen[Wait], done))])
        /\ UNCHANGED met

\* (mutant of Answered: the backoff is a step longer)
AnsweredLater(r, display) ==
    LET at == IF display = "RETRYING" THEN r.at + 2 ELSE r.want.at
        want == Is(display, at)
    IN  [r EXCEPT !.pc = "select", !.want = want, !.called = @ \cup {r.key},
            !.job = [status |-> IF display = "RETRYING" THEN "pending" ELSE "done", at |-> at],
            !.seen = Set(@, r.key, want),
            !.rows = Set(@, r.key, MergedRow(r.rows[r.key], r.seen[r.key], want))]

\* the call has shown the display
Answered(r, display) ==
    LET at == IF display = "RETRYING" THEN r.at + 1 ELSE r.want.at
        want == Is(display, at)
    IN  [r EXCEPT !.pc = "select", !.want = want, !.called = @ \cup {r.key},
            !.job = [status |-> IF display = "RETRYING" THEN "pending" ELSE "done", at |-> at],
            !.seen = Set(@, r.key, want),
            !.rows = Set(@, r.key, MergedRow(r.rows[r.key], r.seen[r.key], want))]

\* _call: the errors of the client that the orchestrator knows; any other raises
\* through it (CallBreaks)
Mapped == [Transient |-> "transient", Permanent |-> "permanent", LiveKey |-> "permanent"]

\* _post: the errors by HTTP status and transport; without real keys, a mock answers
PostErrors == {"Transient", "Permanent"}
PostAnswers == {"answer"} \cup {Mapped[e] : e \in PostErrors}

\* one message at most: a mock provider delivers it, an empty bucket fails it, and
\* silence, consent or the channels skip it
Sent == {"DELIVERED"}
Limited == {"FAILED"}
Deliveries == {"SKIPPED"} \cup Sent \cup Limited

\* what is shown then: an answer without its message is retried as a whole, and
\* the last retry shown as failed
Displays(answer, delivery) ==
    CASE answer = "answer" /\ delivery # "FAILED" -> {"SUCCESS"}
      [] answer = "permanent" -> {"FAILED"}
      [] OTHER -> {"RETRYING", "FAILED"}

Call(s) ==
    LET r == session[s]
    IN  /\ At(s, "call") /\ r.key # Wait
        /\ \E answer \in PostAnswers, delivery \in Deliveries :
              \E display \in Displays(answer, delivery) : Become(s, Answered(r, display))
        /\ UNCHANGED met

\* an exception that is mapped to no error of the client: a request is rolled
\* back, a tick goes on without the row
CallBreaks(s) ==
    LET r == session[s]
    IN  /\ At(s, "call") /\ r.key # Wait /\ faults < MaxFaults
        /\ faults' = faults + 1
        /\ session' = [session EXCEPT ![s] =
              IF r.kind # "tick" THEN Closed
              ELSE [r EXCEPT !.pc = "release", !.called = @ \cup {r.key}]]
        /\ UNCHANGED <<now, rows, jobs, begun, met, settled>>

\* release selects the job of the row: only a running one, which this tick or an
\* earlier one may have claimed, is pending again
Release(s) ==
    LET r == session[s]
        found == LoadedJobs(s)
        k == r.item
    IN  /\ At(s, "release")
        /\ Become(s, IF k \in DOMAIN found /\ found[k].status = "running"
                     THEN Marks(r, k, found[k], "pending") ELSE [r EXCEPT !.pc = "next"])
        /\ UNCHANGED met

\* after the job: the fallback of a wait that is over, or the next row
Goes(r) ==
    IF r.ended THEN [r EXCEPT !.pc = "run", !.key = r.n, !.replay = FALSE, !.ended = FALSE]
    ELSE [r EXCEPT !.pc = "next"]

\* upsert and complete look for the job; without one, complete has nothing to do
SelectJob(s) ==
    LET r == session[s]
        found == LoadedJobs(s)
        k == r.key
    IN  /\ At(s, "select")
        /\ Become(s, IF k \in DOMAIN found
                     THEN [r EXCEPT !.pc = "write", !.seenJobs = Set(@, k, found[k])]
                     ELSE IF r.job.status = "done" THEN Goes(r) ELSE [r EXCEPT !.pc = "write"])
        /\ UNCHANGED met

\* (mutant of WriteJob: the upsert of a job that exists keeps its status)
WriteJobKept(s) ==
    LET r == session[s]
        k == r.key
        want == IF r.job.status = "done" THEN [r.seenJobs[k] EXCEPT !.status = "done"]
                ELSE IF k \in DOMAIN r.seenJobs
                THEN [r.job EXCEPT !.status = r.seenJobs[k].status] ELSE r.job
        job == IF k \in DOMAIN r.jobs THEN r.jobs[k] ELSE jobs[k]
    IN  /\ At(s, "write") /\ Blockers(s) = {}
        /\ Become(s, Goes([r EXCEPT !.seenJobs = Set(@, k, want),
              !.jobs = Set(@, k, IF k \notin DOMAIN r.seenJobs THEN want
                                 ELSE MergedJob(job, r.seenJobs[k], want))]))
        /\ UNCHANGED met

WriteJob(s) ==
    LET r == session[s]
        k == r.key
        want == IF r.job.status = "done" THEN [r.seenJobs[k] EXCEPT !.status = "done"] ELSE r.job
        job == IF k \in DOMAIN r.jobs THEN r.jobs[k] ELSE jobs[k]
    IN  /\ At(s, "write") /\ Blockers(s) = {}
        /\ Become(s, Goes([r EXCEPT !.seenJobs = Set(@, k, want),
              !.jobs = Set(@, k, IF k \notin DOMAIN r.seenJobs THEN want
                                 ELSE MergedJob(job, r.seenJobs[k], want))]))
        /\ UNCHANGED met

CommitSession(s) ==
    LET r == session[s]
    IN  /\ At(s, "next") /\ r.todo = {}
        /\ rows' = [k \in DOMAIN rows \cup DOMAIN r.rows |->
                       IF k \in DOMAIN r.rows THEN r.rows[k] ELSE rows[k]]
        /\ jobs' = [k \in DOMAIN jobs \cup DOMAIN r.jobs |->
                       IF k \in DOMAIN r.jobs THEN r.jobs[k] ELSE jobs[k]]
        /\ settled' = [k \in Keys |->
                          IF k \in DOMAIN r.rows /\ r.seen[k].display = "SUCCESS"
                             /\ r.kind # "webhook"
                          THEN settled[k] + 1 ELSE settled[k]]
        /\ session' = [session EXCEPT ![s] = Closed]
        /\ UNCHANGED <<now, begun, faults, met>>

-----------------------------------------------------------------------------
\* the database ends a circle of waits by failing one of the sessions in it
Circle(s) ==
    \E c \in SUBSET Open : s \in c /\ \A t \in c : Blockers(t) \cap c # {}

DeadlockFails(s) == Circle(s) /\ RollBack(s) /\ UNCHANGED faults

Clock ==
    /\ now < MaxTime
    /\ now' = now + 1
    /\ UNCHANGED <<rows, jobs, session, begun, faults, met, settled>>

\* a case without an action, or with actions that wait for their slot, or wait for
\* the next try, or have failed
Init ==
    /\ now = 0
    /\ \/ rows = <<>> /\ jobs = <<>>
       \/ \E display \in {"SCHEDULED", "RETRYING", "FAILED"} :
             /\ rows = [k \in {Wait, Slot} |->
                          Is(IF k = Slot THEN display ELSE "SCHEDULED", 1)]
             /\ jobs = [k \in {Wait, Slot} |->
                          [status |-> IF k = Slot /\ display = "FAILED" THEN "done"
                                      ELSE "pending", at |-> 1]]
    /\ session = [s \in Servers |-> Closed]
    /\ begun = 0 /\ faults = 0 /\ met = {} /\ settled = [k \in Keys |-> 0]

Begin(s) ==
    \/ BeginExecute(s) \/ BeginSchedule(s) \/ BeginReplay(s)
    \/ BeginTick(s) \/ BeginWebhook(s)

Step(s) ==
    \/ Claim(s) \/ Mark(s) \/ Claimed(s) \/ NextItem(s) \/ Run(s) \/ Save(s) \/ Flush(s)
    \/ EndWait(s) \/ Call(s) \/ CallBreaks(s) \/ Release(s) \/ SelectJob(s) \/ WriteJob(s) \/ CommitSession(s)

Next == Clock \/ \E s \in Servers : Begin(s) \/ Step(s) \/ DeadlockFails(s)

\* a thread that can run does, and the database looks for deadlocks
Fairness == \A s \in Servers : WF_vars(Step(s)) /\ WF_vars(DeadlockFails(s))

Spec == Init /\ [][Next]_vars
FairSpec == Spec /\ Fairness

-----------------------------------------------------------------------------
(* Properties                                                              *)

\* Tables, sessions and counters have their types.
TypeOK ==
    /\ now \in 0 .. MaxTime /\ begun \in 0 .. MaxSessions /\ faults \in 0 .. MaxFaults
    /\ DOMAIN rows \subseteq Keys /\ DOMAIN jobs \subseteq Keys
    /\ \A k \in DOMAIN rows : rows[k] \in Row
    /\ \A k \in DOMAIN jobs : jobs[k] \in Job
    /\ \A s \in Servers :
          /\ [f \in DOMAIN session[s] \ {"seen", "seenJobs", "rows", "jobs"} |->
                 session[s][f]] \in Session
          /\ \A k \in DOMAIN session[s].rows : session[s].rows[k] \in Row
          /\ \A k \in DOMAIN session[s].jobs : session[s].jobs[k] \in Job
    /\ met \subseteq Keys

\* Razorpay is never called for one key by two sessions that are both open: the
\* row is flushed as SENT, and so held, before the call.
CallsTakeTurns ==
    \A s, t \in Open : s # t => session[s].called \cap session[t].called = {}

\* A key is settled once by executions, replays and ticks, however many there are,
\* unless two open sessions have looked at it, or its due job, at a time, or a webhook
\* has shown that the payment failed after all, or is authorized only.
SettledOnce ==
    \A k \in Keys \ met : settled[k] <= 1

\* What two sessions make of one row does not lose it: a committed row that shows
\* that it waits is found by list_due; if two sessions have met over it, by its job
\* at least, which is pending, or claimed by a tick that ran the plan of its case.
NothingForgotten ==
    \A k \in DOMAIN rows :
        rows[k].display \in {"SCHEDULED", "RETRYING"} =>
            \/ rows[k].status = "SCHEDULED"
            \/ k \in met /\ k \in DOMAIN jobs /\ jobs[k].status # "done"

\* An execution locks its row and then the job of it, so that two of them never wait
\* for each other in a circle: each deadlock has a tick in it.
RequestsDoNotDeadlock ==
    \A s \in Servers :
        Circle(s) => \E t \in Open : session[t].kind = "tick" /\ Circle(t)

\* Whatever it waits for, each request and each tick comes to an end.
SessionsEnd ==
    \A s \in Servers : ~At(s, "idle") ~> At(s, "idle")
=============================================================================
