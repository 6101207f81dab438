------------------------ MODULE ActionSessionsProofs ------------------------
(***************************************************************************)
(* Theorems about overlapping sessions, for any number of servers and      *)
(* sessions: calls take turns, a key is settled once, no waiting row is    *)
(* forgotten, and requests do not deadlock among themselves.               *)
(***************************************************************************)
EXTENDS ActionSessions, WellFoundedInduction, TLAPS

Waiting == {"SCHEDULED", "RETRYING"}
Finals == TerminalDisplay

\* keys whose row a session is about to write
AboutToWrite == {"save", "flush"}
\* where the row is written and its job not yet
Between == {"select", "write"}
\* where a tick has not all its claims yet, and the job that it is to mark
Claiming(r) == r.pc = "claim" \/ (r.pc = "mark" /\ r.job.status = "running")
Marking(r) == IF r.pc = "mark" THEN {r.item} ELSE {}

Fields == {"kind", "n", "at", "pc", "key", "item", "replay", "claims", "todo", "looked",
           "want", "insert", "then", "job", "ended", "called",
           "seen", "seenJobs", "rows", "jobs"}

Table(f, S) == DOMAIN f \subseteq Keys /\ \A k \in DOMAIN f : f[k] \in S

-----------------------------------------------------------------------------
(* Types *)

Typed(r) ==
    /\ DOMAIN r = Fields
    /\ r.kind \in {"none", "execute", "schedule", "replay", "tick", "webhook"}
    /\ r.n \in 0 .. MaxSessions /\ r.at \in 0 .. MaxTime
    /\ r.pc \in {"idle", "claim", "mark", "next", "run", "save", "flush", "call", "release",
                "select", "write"}
    /\ r.key \in Keys /\ r.item \in Keys /\ r.replay \in BOOLEAN
    /\ r.claims \subseteq Keys /\ r.todo \subseteq Keys /\ r.looked \subseteq Keys
    /\ r.want \in Row /\ r.insert \in BOOLEAN /\ r.then \in {"call", "select", "next"}
    /\ r.job \in Job /\ r.ended \in BOOLEAN /\ r.called \subseteq Keys
    /\ Table(r.seen, Row) /\ Table(r.seenJobs, Job) /\ Table(r.rows, Row) /\ Table(r.jobs, Job)

Types ==
    /\ now \in 0 .. MaxTime /\ begun \in 0 .. MaxSessions /\ faults \in 0 .. MaxFaults
    /\ Table(rows, Row) /\ Table(jobs, Job)
    /\ DOMAIN session = Servers /\ \A s \in Servers : Typed(session[s])
    /\ met \subseteq Keys /\ settled \in [Keys -> Nat]

-----------------------------------------------------------------------------
(* Where a session is, and which keys it works on *)

\* a session looks at the keys of the case's waits, at its own and at committed ones
Reach(r) == {Wait, Slot, r.n} \cup DOMAIN rows \cup DOMAIN jobs

\* a closed session holds nothing; an open one has a number that no row has yet
Number(r) ==
    /\ r.pc = "idle" => r = Closed
    /\ r.pc # "idle" => r.n \in 1 .. begun /\ r.n \notin DOMAIN rows /\ r.n \notin DOMAIN jobs

\* what it has written it has read, and what it has read it has looked at
Nested(r) ==
    /\ r.looked \subseteq Reach(r)
    /\ DOMAIN r.rows \subseteq DOMAIN r.seen /\ DOMAIN r.seen \subseteq r.looked
    /\ DOMAIN r.seen \subseteq DOMAIN rows \cup DOMAIN r.rows
    /\ DOMAIN r.jobs \subseteq DOMAIN r.seenJobs /\ DOMAIN r.seenJobs \subseteq r.looked
    /\ r.claims \subseteq (DOMAIN r.seenJobs \cap DOMAIN jobs) \ DOMAIN r.jobs
    /\ r.todo \subseteq r.looked
    /\ DOMAIN r.seenJobs \ DOMAIN r.jobs
          \subseteq r.claims \cup Marking(r) \cup (IF r.pc = "write" THEN {r.key} ELSE {})

\* control: what each place in the code may rely on
Placed(r) ==
    /\ IF Claiming(r) THEN DOMAIN r.rows = {} ELSE r.claims = {}
    /\ r.pc # "idle" /\ ~Claiming(r) => r.todo \subseteq DOMAIN r.seen
    /\ r.kind # "tick" => r.pc \notin {"claim", "mark", "release"} /\ r.todo = {}
    /\ r.kind = "tick" /\ r.pc \notin {"idle", "claim", "next"} => r.item \in r.looked
    /\ r.pc = "mark" =>
          /\ r.item \in DOMAIN r.seenJobs \ r.claims
          /\ r.item \in DOMAIN jobs \cup DOMAIN r.jobs
          /\ r.job.status \in {"running", "pending"}
          /\ r.seenJobs[r.item].status \in {"running", "pending"} \ {r.job.status}
    /\ r.kind = "tick" /\ r.pc \in {"run", "save"} => r.key = r.n
    /\ r.kind = "tick" /\ r.pc \in {"flush", "call"} \cup Between => r.key \in {r.n, Wait}
    /\ r.kind = "webhook" => r.pc \in {"flush", "next"}
    /\ r.pc = "run" => r.key \in {Wait, Slot, r.n}
    /\ r.pc \in AboutToWrite => r.key \in r.looked
    /\ r.pc = "flush" /\ ~r.insert => r.key \in DOMAIN r.seen
    /\ r.pc \in {"call"} \cup Between => r.key \in DOMAIN r.rows
    /\ r.pc = "write" /\ r.job.status = "done" => r.key \in DOMAIN r.seenJobs

\* a request writes a second row only after a wait that it has ended, and that row
\* is its own; it has the row of each job that it writes
Second(r) ==
    /\ r.kind # "tick" =>
          /\ DOMAIN r.jobs \subseteq DOMAIN r.rows
          /\ r.pc \in {"run", "save", "flush"} /\ DOMAIN r.rows # {} => r.key = r.n
    /\ r.called \subseteq DOMAIN r.rows

-----------------------------------------------------------------------------
(* What is written *)

\* what the next flush is to write, and what comes after it
Wanted(r) ==
    /\ r.want.status = DbStatus[r.want.display]
    /\ r.kind = "webhook" => r.then = "next"
    /\ r.pc \in AboutToWrite =>
          /\ r.then = "call" => r.want.display = "SENT" /\ r.kind # "webhook"
          /\ r.then = "next" => r.want.display \notin Waiting /\ r.kind = "webhook"
          /\ r.then = "select" /\ r.job.status = "done" =>
                r.want.display = "SUCCESS" /\ r.key = Wait
          /\ r.then = "select" /\ r.job.status # "done" =>
                r.want.display = "SCHEDULED" /\ r.job.status = "pending"
    /\ r.pc = "call" => r.want.display = "SENT"
    /\ r.pc \in {"call"} \cup Between =>
          r.rows[r.key].display = r.want.display /\ r.seen[r.key] = r.want
    /\ r.pc \in Between =>
          /\ r.job.status = "done" => r.want.display \notin Waiting
          /\ r.job.status # "done" => r.job.status = "pending" /\ r.want.display # "SUCCESS"

\* a row that is left waiting is found by list_due or by its job, and a job is done
\* only together with its row
Findable(r) ==
    /\ \A k \in DOMAIN r.rows :
          r.rows[k].display \in Waiting /\ ~(k = r.key /\ r.pc \in Between) =>
              \/ r.rows[k].status = "SCHEDULED"
              \/ k \in DOMAIN r.jobs /\ r.jobs[k].status # "done"
    /\ \A k \in DOMAIN r.jobs :
          /\ r.jobs[k].status = "done" => k \in DOMAIN r.rows
          /\ r.seenJobs[k].status = "pending" => r.jobs[k].status # "done"
    /\ r.pc = "write" /\ r.key \in DOMAIN r.seenJobs \ DOMAIN r.jobs =>
          /\ r.key \in DOMAIN jobs
          /\ r.seenJobs[r.key].status = "pending" => jobs[r.key].status # "done"

-----------------------------------------------------------------------------
(* Keys that no two sessions have met over *)

\* what such a session has read is what is there, and its writes are its wants
Fresher(r) ==
    /\ \A k \in DOMAIN r.seen \ met :
          /\ r.seen[k].status = DbStatus[r.seen[k].display]
          /\ k \in DOMAIN r.rows => r.rows[k] = r.seen[k]
          /\ k \notin DOMAIN r.rows => k \in DOMAIN rows /\ rows[k] = r.seen[k]
    /\ \A k \in DOMAIN r.seenJobs \ met :
          /\ k \in DOMAIN r.jobs => r.jobs[k] = r.seenJobs[k]
          /\ k \notin DOMAIN r.jobs => k \in DOMAIN jobs /\ jobs[k] = r.seenJobs[k]

\* what it is about to settle is not settled
Unsettled(r) ==
    \A k \in Keys \ met :
        r.kind # "webhook" /\ (\/ k \in DOMAIN r.rows
                               \/ k = r.key /\ r.pc \in AboutToWrite
                               \/ k = Wait /\ k \in r.claims \cup r.todo \cup Marking(r)
                                                      \cup DOMAIN r.jobs)
            => settled[k] = 0

\* a webhook leaves such a row settled
Webhooked(r) ==
    r.kind = "webhook" =>
        /\ r.pc = "flush" /\ r.key \notin met => r.want.display \in Finals
        /\ \A k \in DOMAIN r.rows \ met : r.rows[k].display \in Finals
        /\ DOMAIN r.jobs = {}

\* a wait that is over has no job to wake it
WaitDone(r) ==
    /\ r.kind # "webhook" /\ Wait \in DOMAIN r.rows \ met /\ r.seen[Wait].display = "SUCCESS"
    /\ ~(r.key = Wait /\ r.pc \in Between)
    => /\ Wait \in DOMAIN r.jobs => r.jobs[Wait].status = "done"
       /\ Wait \in DOMAIN jobs \ DOMAIN r.jobs => jobs[Wait].status = "done"

SettledRow(k) ==
    settled[k] # 0 =>
        /\ settled[k] = 1
        /\ k \in DOMAIN rows /\ rows[k].display \in Finals
        /\ k = Wait /\ k \in DOMAIN jobs => jobs[k].status = "done"

-----------------------------------------------------------------------------
SessionOK(r) ==
    /\ Number(r) /\ Nested(r) /\ Placed(r) /\ Second(r)
    /\ Wanted(r) /\ Findable(r)
    /\ Fresher(r) /\ Unsettled(r) /\ Webhooked(r) /\ WaitDone(r)

\* two sessions hold different rows, have different numbers and have met over the
\* keys that both have looked at
Apart(r, q) ==
    /\ DOMAIN r.rows \cap DOMAIN q.rows = {}
    /\ r.looked \cap q.looked \subseteq met
    /\ r.pc # "idle" /\ q.pc # "idle" => r.n # q.n

Committed ==
    /\ DOMAIN rows \cup DOMAIN jobs \subseteq {Wait, Slot} \cup 1 .. begun
    /\ \A k \in DOMAIN rows \ met : rows[k].status = DbStatus[rows[k].display]
    /\ \A k \in Keys \ met : SettledRow(k)
    /\ NothingForgotten

IInv ==
    /\ Types /\ Committed
    /\ \A s \in Servers : SessionOK(session[s])
    /\ \A s, t \in Servers : s # t => Apart(session[s], session[t])

-----------------------------------------------------------------------------
(* The operators of the model *)

\* The constants, as SessionBounds gives them.
LEMMA Bounds ==
    /\ Wait # Slot /\ Wait \notin Fresh /\ Slot \notin Fresh
    /\ MaxSessions \in Nat /\ MaxTime \in Nat /\ MaxFaults \in Nat
    /\ Wait \in Keys /\ Slot \in Keys /\ Fresh \subseteq Keys
BY SessionBounds DEF Keys

\* The database status that each display has.
LEMMA Statuses ==
    /\ DOMAIN DbStatus = {"SCHEDULED", "RETRYING", "SENT", "SUCCESS", "FAILED", "CANCELLED"}
    /\ DbStatus["SCHEDULED"] = "SCHEDULED" /\ DbStatus["RETRYING"] = "SCHEDULED"
    /\ DbStatus["SENT"] = "RUNNING" /\ DbStatus["SUCCESS"] = "SUCCEEDED"
    /\ DbStatus["FAILED"] = "FAILED" /\ DbStatus["CANCELLED"] = "CANCELLED"
BY DEF DbStatus

\* A row that shows a display is a row, of the status that goes with it.
LEMMA IsRow ==
    ASSUME NEW display \in DOMAIN DbStatus, NEW at \in 0 .. MaxTime + 1
    PROVE  /\ Is(display, at) \in Row
           /\ Is(display, at).status = DbStatus[display]
           /\ Is(display, at).display = display /\ Is(display, at).at = at
BY DEF Is, Row

\* What an update leaves is a row; it is the row that was wanted if what was loaded
\* was still there.
LEMMA MergedRowFields ==
    ASSUME NEW row \in Row, NEW seen \in Row, NEW want \in Row
    PROVE  /\ MergedRow(row, seen, want) \in Row
           /\ MergedRow(row, seen, want).display = want.display
           /\ row = seen => MergedRow(row, seen, want) = want
<1>1. MergedRow(row, seen, want) \in Row /\ MergedRow(row, seen, want).display = want.display
  BY DEF MergedRow, Row
<1>2. ASSUME row = seen PROVE MergedRow(row, seen, want) = want
  <2>1. want = [status |-> want.status, display |-> want.display, at |-> want.at]
    BY DEF Row
  <2> QED BY <1>2, <2>1 DEF MergedRow
<1> QED BY <1>1, <1>2

\* The same of a job, and the status that an update leaves.
LEMMA MergedJobFields ==
    ASSUME NEW job \in Job, NEW seen \in Job, NEW want \in Job
    PROVE  /\ MergedJob(job, seen, want) \in Job
           /\ MergedJob(job, seen, want).status =
                 IF want.status # seen.status THEN want.status ELSE job.status
           /\ job = seen => MergedJob(job, seen, want) = want
<1> DEFINE m == MergedJob(job, seen, want)
<1>1. DOMAIN job = {"status", "at"} /\ DOMAIN want = {"status", "at"}
  BY DEF Job
<1>2. m = [f \in {"status", "at"} |-> IF want[f] # seen[f] THEN want[f] ELSE job[f]]
  BY <1>1 DEF MergedJob
<1>3. /\ m = [status |-> m.status, at |-> m.at]
      /\ m.status = IF want.status # seen.status THEN want.status ELSE job.status
      /\ m.at = IF want.at # seen.at THEN want.at ELSE job.at
  BY <1>2
<1>4. m \in Job
  BY <1>3 DEF Job
<1>5. want = [status |-> want.status, at |-> want.at]
  BY DEF Job
<1>6. ASSUME job = seen PROVE m = want
  BY <1>3, <1>5, <1>6
<1> QED BY <1>3, <1>4, <1>6

\* What get returns: a row that the session has loaded or one that is committed.
LEMMA LoadedFields ==
    ASSUME NEW s
    PROVE  /\ DOMAIN Loaded(s) = DOMAIN rows \cup DOMAIN session[s].seen
           /\ \A k \in DOMAIN session[s].seen : Loaded(s)[k] = session[s].seen[k]
           /\ \A k \in DOMAIN rows \ DOMAIN session[s].seen : Loaded(s)[k] = rows[k]
BY DEF Loaded

\* A job that is selected: one that the session has flushed or one that is committed.
LEMMA LoadedJobsFields ==
    ASSUME NEW s
    PROVE  /\ DOMAIN LoadedJobs(s) = DOMAIN jobs \cup DOMAIN session[s].jobs
           /\ \A k \in DOMAIN session[s].jobs : LoadedJobs(s)[k] = session[s].jobs[k]
           /\ \A k \in DOMAIN jobs \ DOMAIN session[s].jobs : LoadedJobs(s)[k] = jobs[k]
BY DEF LoadedJobs

\* The first claim is one of the claims.
LEMMA FirstClaimIsOne ==
    ASSUME NEW s \in Servers, Typed(session[s]), session[s].claims # {},
           session[s].claims \subseteq DOMAIN session[s].seenJobs
    PROVE  FirstClaim(s) \in session[s].claims
<1> DEFINE C == session[s].claims
           time(k) == session[s].seenJobs[k].at
           T == {time(k) : k \in C}
<1>1. \A k \in C : time(k) \in Nat
  BY Bounds DEF Typed, Table, Job
<1>2. PICK k0 \in C : TRUE
  OBVIOUS
<1>3. T \subseteq Nat /\ T # {}
  BY <1>1, <1>2
<1>4. PICK x \in T : \A y \in T : ~(<<y, x>> \in OpToRel(<, Nat))
  BY <1>3, NatLessThanWellFounded, WFMin
<1>5. PICK k \in C : x = time(k)
  BY <1>4
<1>6. \A j \in C : ~(time(j) < time(k))
  BY <1>1, <1>4, <1>5 DEF OpToRel
<1>7. \A j \in C : time(k) <= time(j)
  BY <1>1, <1>6
<1> QED BY <1>7 DEF FirstClaim

\* A typed session is one of the model's type invariant, but for its tables.
LEMMA TypedSession ==
    ASSUME NEW r, Typed(r)
    PROVE  [f \in DOMAIN r \ {"seen", "seenJobs", "rows", "jobs"} |-> r[f]] \in Session
<1> DEFINE F == DOMAIN r \ {"seen", "seenJobs", "rows", "jobs"}
           g == [f \in F |-> r[f]]
<1>1. F = {"kind", "n", "at", "pc", "key", "item", "replay", "claims", "todo", "looked",
           "want", "insert", "then", "job", "ended", "called"}
  BY DEF Typed, Fields
<1>2. g = [kind |-> r.kind, n |-> r.n, at |-> r.at, pc |-> r.pc, key |-> r.key,
           item |-> r.item, replay |-> r.replay, claims |-> r.claims, todo |-> r.todo,
           looked |-> r.looked, want |-> r.want, insert |-> r.insert, then |-> r.then,
           job |-> r.job, ended |-> r.ended, called |-> r.called]
  BY <1>1
<1> QED BY <1>2 DEF Typed, Session

\* Whom a session waits for, by its place.
LEMMA BlockersOf ==
    ASSUME NEW s
    PROVE  /\ session[s].pc = "flush" => Blockers(s) = RowHeld(s, session[s].key)
           /\ session[s].pc = "write" => Blockers(s) = JobHeld(s, session[s].key)
           /\ session[s].pc = "mark" => Blockers(s) = JobHeld(s, session[s].item)
           /\ session[s].pc \notin {"flush", "write", "mark"} => Blockers(s) = {}
BY DEF Blockers, At

-----------------------------------------------------------------------------
(* What the invariant says *)

\* The invariant says more of each session than the model's type invariant does.
LEMMA TypeFromIInv == IInv => TypeOK
<1> SUFFICES ASSUME IInv PROVE TypeOK
  OBVIOUS
<1>1. \A s \in Servers :
         /\ [f \in DOMAIN session[s] \ {"seen", "seenJobs", "rows", "jobs"} |->
                session[s][f]] \in Session
         /\ \A k \in DOMAIN session[s].rows : session[s].rows[k] \in Row
         /\ \A k \in DOMAIN session[s].jobs : session[s].jobs[k] \in Job
  <2>1. TAKE s \in Servers
  <2>2. Typed(session[s])
    BY DEF IInv, Types
  <2> QED BY <2>2, TypedSession DEF Typed, Table
<1> QED BY <1>1 DEF IInv, Types, TypeOK, Table

\* A call is made only under a row that the session holds.
LEMMA TurnsFromIInv == IInv => CallsTakeTurns
BY DEF IInv, CallsTakeTurns, Open, Apart, SessionOK, Second

\* A settled key has been settled once, for its row has shown it since.
LEMMA SettledFromIInv == IInv => SettledOnce
BY DEF IInv, Types, Committed, SettledRow, SettledOnce

\* A request in a circle of requests would wait for a row, for the one who has the
\* job has the row; and having one itself, for its own, which nobody else has.
LEMMA CirclesHaveTicks == IInv => RequestsDoNotDeadlock
<1> SUFFICES ASSUME IInv, NEW s0 \in Servers, Circle(s0)
             PROVE  \E t \in Open : session[t].kind = "tick" /\ Circle(t)
  BY DEF RequestsDoNotDeadlock
<1>1. PICK c \in SUBSET Open : s0 \in c /\ \A t \in c : Blockers(t) \cap c # {}
  BY DEF Circle
<1>2. CASE \E t \in c : session[t].kind = "tick"
  BY <1>1, <1>2 DEF Circle
<1>3. CASE \A t \in c : session[t].kind # "tick"
  <2>1. \A t \in c : t \in Servers /\ session[t].pc # "idle" /\ SessionOK(session[t])
    BY <1>1 DEF Open, At, IInv
  <2>2. ASSUME NEW t \in c
        PROVE  \E u \in c : u # t /\ session[t].key \in DOMAIN session[u].rows
    <3>1. session[t].pc # "mark"
      BY <1>3, <2>1 DEF SessionOK, Placed
    <3>2. PICK u \in c : u \in Blockers(t)
      BY <1>1
    <3>3. CASE session[t].pc = "flush"
      BY <3>2, <3>3, BlockersOf DEF RowHeld
    <3>4. CASE session[t].pc = "write"
      <4>1. u # t /\ session[t].key \in DOMAIN session[u].jobs
        BY <3>2, <3>4, BlockersOf DEF JobHeld
      <4>2. DOMAIN session[u].jobs \subseteq DOMAIN session[u].rows
        BY <1>3, <2>1 DEF SessionOK, Second
      <4> QED BY <4>1, <4>2
    <3> QED BY <3>1, <3>2, <3>3, <3>4, BlockersOf
  <2>3. ASSUME NEW t \in c PROVE session[t].pc = "flush"
    <3>1. PICK u \in c : u # t /\ session[t].key \in DOMAIN session[u].rows
      BY <2>2
    <3>2. session[t].key \notin DOMAIN session[t].rows
      BY <2>1, <3>1 DEF IInv, Apart
    <3>3. session[t].pc # "write"
      BY <2>1, <3>2 DEF SessionOK, Placed, Between
    <3>4. session[t].pc # "mark"
      BY <1>3, <2>1 DEF SessionOK, Placed
    <3>5. Blockers(t) # {}
      BY <1>1
    <3> QED BY <3>3, <3>4, <3>5, BlockersOf
  <2>4. PICK u \in c : u # s0 /\ session[s0].key \in DOMAIN session[u].rows
    BY <1>1, <2>2
  <2>5. session[u].key = session[u].n
    BY <1>3, <2>1, <2>3, <2>4 DEF SessionOK, Second
  <2>6. PICK v \in c : v # u /\ session[u].key \in DOMAIN session[v].rows
    BY <2>2
  <2>7. session[u].n \in Fresh /\ session[u].n \notin DOMAIN rows /\ session[u].n \notin DOMAIN jobs
    <3>1. Number(session[u]) /\ session[u].pc # "idle"
      BY <2>1 DEF SessionOK
    <3>2. session[u].n \in 1 .. begun /\ begun \in 0 .. MaxSessions
      BY <3>1 DEF Number, IInv, Types
    <3>3. session[u].n \in Fresh
      BY <3>2, Bounds DEF Fresh
    <3> QED BY <3>1, <3>3 DEF Number
  <2>8. session[u].n \in Reach(session[v])
    BY <2>1, <2>5, <2>6 DEF SessionOK, Nested
  <2>9. session[u].n = session[v].n
    BY <2>7, <2>8, Bounds DEF Reach
  <2> QED BY <2>1, <2>6, <2>9 DEF IInv, Apart
<1> QED BY <1>2, <1>3

-----------------------------------------------------------------------------
(* Steps of one session that leave the tables alone *)

\* What is said of a session that does not move stays true while the tables do.
LEMMA OthersStay ==
    ASSUME IInv, UNCHANGED <<rows, jobs, settled>>, begun' \in Nat, begun <= begun',
           met \subseteq met', NEW t \in Servers, session'[t] = session[t]
    PROVE  SessionOK(session[t])'
<1>1. SessionOK(session[t])
  BY DEF IInv
<1>2. Number(session[t])'
  <2>1. begun \in Nat
    BY DEF IInv, Types
  <2> QED BY <1>1, <2>1 DEF SessionOK, Number
<1>6. Nested(session[t])' /\ Placed(session[t])' /\ Second(session[t])'
  BY <1>1 DEF SessionOK, Nested, Placed, Second, Reach
<1>3. Wanted(session[t])' /\ Findable(session[t])'
  BY <1>1 DEF SessionOK, Wanted, Findable
<1>4. Fresher(session[t])'
  BY <1>1 DEF SessionOK, Fresher
<1>5. Unsettled(session[t])' /\ Webhooked(session[t])' /\ WaitDone(session[t])'
  BY <1>1 DEF SessionOK, Unsettled, Webhooked, WaitDone
<1> QED BY <1>2, <1>3, <1>4, <1>5, <1>6 DEF SessionOK

\* What is said of the committed tables stays true while they do.
LEMMA CommittedStays ==
    ASSUME Committed, UNCHANGED <<rows, jobs, settled>>, met \subseteq met',
           begun \in Nat, begun' \in Nat, begun <= begun'
    PROVE  Committed'
<1>1. 1 .. begun \subseteq 1 .. begun'
  OBVIOUS
<1> QED BY <1>1 DEF Committed, SettledRow, NothingForgotten

\* A step of one session keeps the invariant if it keeps what is said of the session.
LEMMA SessionMoves ==
    ASSUME IInv, UNCHANGED <<now, rows, jobs, settled>>, faults' \in 0 .. MaxFaults,
           begun' \in 0 .. MaxSessions, begun <= begun', met \subseteq met', met' \subseteq Keys,
           NEW s \in Servers, session' = [session EXCEPT ![s] = session'[s]],
           Typed(session'[s]), SessionOK(session[s])',
           \A t \in Servers \ {s} : Apart(session[s], session[t])'
    PROVE  IInv'
<1>1. \A t \in Servers \ {s} : session'[t] = session[t]
  BY DEF IInv, Types
<1>2. Types'
  <2>1. DOMAIN session' = Servers
    BY DEF IInv, Types
  <2>2. \A t \in Servers : Typed(session[t])'
    BY <1>1 DEF IInv, Types, Typed, Table
  <2> QED BY <2>1, <2>2 DEF IInv, Types, Table
<1>3. Committed'
  BY CommittedStays DEF IInv, Types
<1>4. \A t \in Servers : SessionOK(session[t])'
  BY <1>1, OthersStay
<1>5. ASSUME NEW t \in Servers, NEW u \in Servers, t # u
      PROVE  Apart(session[t], session[u])'
  <2>1. CASE t = s
    BY <1>5, <2>1
  <2>2. CASE u = s
    <3>1. Apart(session[u], session[t])'
      BY <1>5, <2>2
    <3> QED BY <3>1 DEF Apart
  <2>3. CASE t # s /\ u # s
    <3>1. Apart(session[t], session[u]) /\ session'[t] = session[t] /\ session'[u] = session[u]
      BY <1>1, <1>5, <2>3 DEF IInv
    <3> QED BY <3>1 DEF Apart
  <2> QED BY <2>1, <2>2, <2>3
<1> QED BY <1>2, <1>3, <1>4, <1>5 DEF IInv

\* A closed session is in order.
LEMMA ClosedOK == Typed(Closed) /\ SessionOK(Closed)
<1>1. Typed(Closed)
  <2>1. /\ Closed.want \in Row /\ Closed.job \in Job /\ Closed.key \in Keys
        /\ Closed.n \in 0 .. MaxSessions /\ Closed.at \in 0 .. MaxTime
    BY Bounds, Statuses DEF Closed, NoRow, Row, Job
  <2>2. \A S : Table(<<>>, S)
    BY DEF Table
  <2>3. DOMAIN Closed = Fields
    BY DEF Closed, Fields
  <2> QED BY <2>1, <2>2, <2>3, Bounds DEF Typed, Closed
<1>2. Number(Closed) /\ Nested(Closed) /\ Placed(Closed) /\ Second(Closed)
  <2>1. Number(Closed) /\ Nested(Closed)
    BY DEF Closed, Number, Nested
  <2>2. Placed(Closed)
    BY DEF Closed, Placed, AboutToWrite, Between
  <2>3. Second(Closed)
    BY DEF Closed, Second
  <2> QED BY <2>1, <2>2, <2>3
<1>3. Wanted(Closed)
  BY Statuses DEF Closed, Wanted, NoRow, AboutToWrite, Between
<1>4. Findable(Closed) /\ Fresher(Closed) /\ Unsettled(Closed) /\ Webhooked(Closed) /\ WaitDone(Closed)
  BY DEF Closed, Findable, Fresher, Unsettled, Webhooked, WaitDone, AboutToWrite, Between, Marking
<1> QED BY <1>1, <1>2, <1>3, <1>4 DEF SessionOK

\* So is a session that a step closes.
LEMMA ClosedNext ==
    ASSUME NEW s, session'[s] = Closed PROVE SessionOK(session[s])'
<1>1. Number(session[s])' /\ Nested(session[s])' /\ Placed(session[s])' /\ Second(session[s])'
  BY DEF Closed, Number, Nested, Placed, Second, AboutToWrite, Between
<1>2. Wanted(session[s])'
  BY Statuses DEF Closed, Wanted, NoRow, AboutToWrite, Between
<1>3. /\ Findable(session[s])' /\ Fresher(session[s])' /\ Unsettled(session[s])'
      /\ Webhooked(session[s])' /\ WaitDone(session[s])'
  BY DEF Closed, Findable, Fresher, Unsettled, Webhooked, WaitDone, AboutToWrite, Between, Marking
<1> QED BY <1>1, <1>2, <1>3 DEF SessionOK

\* The invariant holds in the initial states.
LEMMA InitIInv == Init => IInv
<1> SUFFICES ASSUME Init PROVE IInv
  OBVIOUS
<1>1. \A s \in Servers : session[s] = Closed
  BY DEF Init
<1>2. /\ Table(rows, Row) /\ Table(jobs, Job)
      /\ DOMAIN rows \cup DOMAIN jobs \subseteq {Wait, Slot}
      /\ \A k \in DOMAIN rows : rows[k].status = DbStatus[rows[k].display]
      /\ \A k \in DOMAIN rows : rows[k].display \in Waiting => rows[k].status = "SCHEDULED"
  <2>1. CASE rows = <<>> /\ jobs = <<>>
    BY <2>1 DEF Table
  <2>2. CASE \E display \in {"SCHEDULED", "RETRYING", "FAILED"} :
                /\ rows = [k \in {Wait, Slot} |->
                             Is(IF k = Slot THEN display ELSE "SCHEDULED", 1)]
                /\ jobs = [k \in {Wait, Slot} |->
                             [status |-> IF k = Slot /\ display = "FAILED" THEN "done"
                                         ELSE "pending", at |-> 1]]
    <3> PICK display \in {"SCHEDULED", "RETRYING", "FAILED"} :
                /\ rows = [k \in {Wait, Slot} |->
                             Is(IF k = Slot THEN display ELSE "SCHEDULED", 1)]
                /\ jobs = [k \in {Wait, Slot} |->
                             [status |-> IF k = Slot /\ display = "FAILED" THEN "done"
                                         ELSE "pending", at |-> 1]]
      BY <2>2
    <3>1. DOMAIN rows = {Wait, Slot} /\ DOMAIN jobs = {Wait, Slot}
      OBVIOUS
    <3>2. \A k \in {Wait, Slot} :
             rows[k] = Is(IF k = Slot THEN display ELSE "SCHEDULED", 1)
      OBVIOUS
    <3>3. \A k \in {Wait, Slot} : \E d \in {"SCHEDULED", "RETRYING", "FAILED"} : rows[k] = Is(d, 1)
      BY <3>2
    <3>4. 1 \in 0 .. MaxTime + 1
      BY Bounds
    <3>5. \A k \in {Wait, Slot} : rows[k] \in Row /\ rows[k].status = DbStatus[rows[k].display]
      BY <3>3, <3>4, IsRow, Statuses
    <3>6. \A k \in {Wait, Slot} : rows[k].display \in Waiting => rows[k].status = "SCHEDULED"
      BY <3>5, Statuses DEF Waiting
    <3>7. \A k \in {Wait, Slot} : jobs[k] \in Job
      <4>1. \A st \in {"done", "pending"} : [status |-> st, at |-> 1] \in Job
        BY <3>4 DEF Job
      <4> QED BY <4>1
    <3> QED BY <3>1, <3>5, <3>6, <3>7, Bounds DEF Table
  <2> QED BY <2>1, <2>2 DEF Init
<1>3. Types
  <2>1. DOMAIN session = Servers /\ \A s \in Servers : Typed(session[s])
    BY <1>1, ClosedOK DEF Init
  <2> QED BY <1>2, <2>1, Bounds DEF Init, Types
<1>4. Committed
  <2>1. \A k \in Keys : settled[k] = 0
    BY DEF Init
  <2> QED BY <1>2, <2>1 DEF Committed, SettledRow, NothingForgotten, Waiting
<1>5. \A s \in Servers : SessionOK(session[s])
  BY <1>1, ClosedOK
<1>6. \A s, t \in Servers : Apart(session[s], session[t])
  BY <1>1 DEF Closed, Apart
<1> QED BY <1>3, <1>4, <1>5, <1>6 DEF IInv

\* A session that ends, with or without its transaction, leaves nothing in hand.
LEMMA CloseStep ==
    ASSUME IInv, NEW s \in Servers, session' = [session EXCEPT ![s] = Closed],
           UNCHANGED <<now, rows, jobs, begun, settled, met>>, faults' \in 0 .. MaxFaults
    PROVE  IInv'
<1>1. session'[s] = Closed /\ session' = [session EXCEPT ![s] = session'[s]]
  BY DEF IInv, Types
<1>2. Typed(session'[s]) /\ SessionOK(session[s])'
  BY <1>1, ClosedOK, ClosedNext
<1>3. \A t \in Servers \ {s} : Apart(session[s], session[t])'
  BY <1>1 DEF Closed, Apart
<1>4. begun' \in 0 .. MaxSessions /\ begun <= begun' /\ met' \subseteq Keys
  BY DEF IInv, Types
<1> QED BY <1>1, <1>2, <1>3, <1>4, SessionMoves

-----------------------------------------------------------------------------
(* A session opens *)

\* what every new session is
Opened(q) ==
    /\ DOMAIN q = Fields /\ q.n = begun + 1 /\ q.at = now /\ q.item = Wait
    /\ q.ended = FALSE /\ q.called = {} /\ q.insert = FALSE
    /\ q.rows = <<>> /\ q.jobs = <<>> /\ q.job = [status |-> "pending", at |-> 0]

\* A new session has a number that nobody has, and holds nothing yet.
LEMMA OpenStep ==
    ASSUME IInv, NEW s \in Servers, begun < MaxSessions, begun' = begun + 1,
           UNCHANGED <<now, rows, jobs, faults, settled>>,
           session' = [session EXCEPT ![s] = session'[s]], Opened(session'[s]),
           Typed(session'[s]), met \subseteq met', met' \subseteq Keys,
           session'[s].pc # "idle",
           \A t \in Servers \ {s} : session'[s].looked \cap session[t].looked \subseteq met',
           (/\ Nested(session[s]) /\ Placed(session[s]) /\ Wanted(session[s])
            /\ Fresher(session[s]) /\ Unsettled(session[s]) /\ Webhooked(session[s]))',
           session'[s].pc # "write"
    PROVE  IInv'
<1> DEFINE q == session'[s]
<1>1. begun \in Nat /\ begun' \in 1 .. MaxSessions /\ begun <= begun' /\ begun + 1 \in Fresh
  BY Bounds DEF IInv, Types, Fresh
<1>2. begun + 1 \notin DOMAIN rows /\ begun + 1 \notin DOMAIN jobs
  <2>1. DOMAIN rows \cup DOMAIN jobs \subseteq {Wait, Slot} \cup 1 .. begun
    BY DEF IInv, Committed
  <2> QED BY <1>1, <2>1, Bounds
<1>3. Number(session[s])'
  BY <1>1, <1>2 DEF Opened, Number
<1>4. Second(session[s])' /\ Findable(session[s])' /\ WaitDone(session[s])'
  BY DEF Opened, Second, Findable, WaitDone
<1>5. SessionOK(session[s])'
  BY <1>3, <1>4 DEF SessionOK
<1>6. ASSUME NEW t \in Servers \ {s} PROVE Apart(session[s], session[t])'
  <2>1. session'[t] = session[t]
    BY DEF IInv, Types
  <2>2. session[t].pc # "idle" => session[t].n \in 1 .. begun
    BY DEF IInv, SessionOK, Number
  <2>3. session'[s].n = begun + 1 /\ session'[s].rows = <<>>
    BY DEF Opened
  <2> QED BY <1>1, <2>1, <2>2, <2>3 DEF Apart
<1>7. faults' \in 0 .. MaxFaults
  BY DEF IInv, Types
<1> QED BY <1>1, <1>5, <1>6, <1>7, SessionMoves

\* Requests: an execution, a schedule or a replay of a plan.
LEMMA BeginRequest ==
    ASSUME IInv, NEW s \in Servers, NEW k \in Planned,
           NEW kind \in {"execute", "schedule", "replay"}, NEW replay \in BOOLEAN,
           OpenAs(s, [Closed EXCEPT !.kind = kind, !.pc = "run", !.key = k, !.replay = replay]),
           UNCHANGED met
    PROVE  IInv'
<1> DEFINE q == session'[s]
<1>1. /\ begun < MaxSessions /\ begun' = begun + 1 /\ UNCHANGED <<now, rows, jobs, faults, settled>>
      /\ session' = [session EXCEPT ![s] = q]
  BY DEF OpenAs, IInv, Types
<1>9. q = [[Closed EXCEPT !.kind = kind, !.pc = "run", !.key = k, !.replay = replay]
                 EXCEPT !.n = begun + 1, !.at = now]
  BY DEF OpenAs, IInv, Types
<1>2. /\ Opened(q)
      /\ q.kind = kind /\ q.pc = "run" /\ q.key = k /\ q.replay = replay
      /\ q.claims = {} /\ q.todo = {} /\ q.looked = {} /\ q.seen = <<>> /\ q.seenJobs = <<>>
      /\ q.want = NoRow /\ q.then = "call"
  BY <1>9 DEF Closed, Opened, Fields
<1>3. k \in {Wait, Slot, begun + 1} /\ k \in Keys
  <2>1. begun + 1 \in Fresh
    BY <1>1, Bounds DEF IInv, Types, Fresh
  <2> QED BY <2>1, Bounds DEF Planned
<1>4. Typed(q)
  <2>1. NoRow \in Row /\ [status |-> "pending", at |-> 0] \in Job
    BY Bounds, Statuses DEF NoRow, Row, Job
  <2>2. \A S : Table(<<>>, S)
    BY DEF Table
  <2>3. begun + 1 \in 0 .. MaxSessions /\ now \in 0 .. MaxTime
    BY <1>1, Bounds DEF IInv, Types
  <2> QED BY <1>2, <1>3, <2>1, <2>2, <2>3, Bounds DEF Opened, Typed
<1>5. (/\ Nested(session[s]) /\ Placed(session[s]) /\ Wanted(session[s])
       /\ Fresher(session[s]) /\ Unsettled(session[s]) /\ Webhooked(session[s]))'
  <2>1. Nested(session[s])' /\ Placed(session[s])'
    BY <1>2, <1>3 DEF Opened, Nested, Placed, Between, AboutToWrite
  <2>2. Wanted(session[s])'
    BY <1>2, Statuses DEF Wanted, NoRow, Between, AboutToWrite
  <2>3. Fresher(session[s])' /\ Unsettled(session[s])' /\ Webhooked(session[s])'
    BY <1>2 DEF Opened, Fresher, Unsettled, Webhooked, AboutToWrite, Marking
  <2> QED BY <2>1, <2>2, <2>3
<1>6. met' \subseteq Keys
  BY DEF IInv, Types
<1> HIDE DEF q
<1> QED BY <1>1, <1>2, <1>4, <1>5, <1>6, OpenStep DEF q

\* What a session looks at, others have met it over, if they look at it too.
LEMMA LooksFields ==
    ASSUME IInv, NEW s \in Servers, NEW ks \in SUBSET Keys, Looks(s, ks)
    PROVE  /\ met \subseteq met' /\ met' \subseteq Keys
           /\ \A t \in Servers \ {s} : ks \cap session[t].looked \subseteq met'
<1>1. met \subseteq met' /\ met' \subseteq Keys
  BY DEF IInv, Types, Looks
<1>2. ASSUME NEW t \in Servers \ {s}, NEW k \in ks \cap session[t].looked PROVE k \in met'
  <2>1. session[t].pc # "idle"
    <3>1. Number(session[t])
      BY DEF IInv, SessionOK
    <3> QED BY <1>2, <3>1 DEF Number, Closed
  <2> QED BY <1>2, <2>1 DEF Looks, Open, At
<1> QED BY <1>1, <1>2

\* A webhook opens on the row that it has found.
LEMMA BeginWebhookStep ==
    ASSUME IInv, NEW s \in Servers, BeginWebhook(s) PROVE IInv'
<1>0. PICK k \in DOMAIN rows, display \in {"SUCCESS", "FAILED", "CANCELLED", "SENT"} :
        /\ OpenAs(s, [Closed EXCEPT !.kind = "webhook", !.pc = "flush", !.key = k,
              !.looked = {k}, !.seen = [j \in {k} |-> rows[j]],
              !.want = Is(display, rows[k].at), !.then = "next"])
        /\ IF display \in TerminalDisplay THEN Looks(s, {k}) ELSE met' = met \cup {k}
  BY DEF BeginWebhook
<1> DEFINE q == session'[s]
           seen == [j \in {k} |-> rows[j]]
           one == {k}
           want == Is(display, rows[k].at)
<1>1. /\ begun < MaxSessions /\ begun' = begun + 1 /\ UNCHANGED <<now, rows, jobs, faults, settled>>
      /\ session' = [session EXCEPT ![s] = q]
  BY <1>0 DEF OpenAs, IInv, Types
<1>9. q = [[Closed EXCEPT !.kind = "webhook", !.pc = "flush", !.key = k,
              !.looked = one, !.seen = seen, !.want = want, !.then = "next"]
                 EXCEPT !.n = begun + 1, !.at = now]
  BY <1>0 DEF OpenAs, IInv, Types
<1> HIDE DEF q, seen, one, want
<1>2. /\ Opened(q)
      /\ q.kind = "webhook" /\ q.pc = "flush" /\ q.key = k /\ q.replay = FALSE
      /\ q.claims = {} /\ q.todo = {} /\ q.looked = one /\ q.seen = seen
      /\ q.seenJobs = <<>> /\ q.want = want /\ q.then = "next"
  BY <1>9 DEF Closed, Opened, Fields
<1> USE DEF one, want
<1>3. k \in Keys /\ rows[k] \in Row /\ DOMAIN q.seen = {k} /\ q.seen[k] = rows[k]
  BY <1>2 DEF seen, IInv, Types, Table
<1>4. q.want \in Row /\ q.want.status = DbStatus[q.want.display] /\ q.want.display = display
  <2>1. rows[k].at \in 0 .. MaxTime + 1 /\ display \in DOMAIN DbStatus
    BY <1>3, Statuses DEF Row
  <2> QED BY <1>2, <2>1, IsRow
<1>5. Typed(q)
  <2>1. [status |-> "pending", at |-> 0] \in Job
    BY Bounds DEF Job
  <2>2. \A S : Table(<<>>, S)
    BY DEF Table
  <2>3. begun + 1 \in 0 .. MaxSessions /\ now \in 0 .. MaxTime
    BY <1>1, Bounds DEF IInv, Types
  <2>4. Table(q.seen, Row)
    BY <1>3 DEF Table
  <2> QED BY <1>2, <1>3, <1>4, <2>1, <2>2, <2>3, <2>4, Bounds DEF Opened, Typed
<1>6. /\ met \subseteq met' /\ met' \subseteq Keys
      /\ display \notin Finals => k \in met'
      /\ \A t \in Servers \ {s} : {k} \cap session[t].looked \subseteq met'
  <2>1. CASE display \in TerminalDisplay
    BY <1>0, <1>3, <2>1, LooksFields DEF Finals
  <2>2. CASE display \notin TerminalDisplay
    BY <1>0, <1>3, <2>2 DEF IInv, Types
  <2> QED BY <2>1, <2>2
<1>7. (/\ Nested(session[s]) /\ Placed(session[s]) /\ Wanted(session[s])
       /\ Fresher(session[s]) /\ Unsettled(session[s]) /\ Webhooked(session[s]))'
  <2>1. Nested(session[s])'
    BY <1>1, <1>2, <1>3 DEF q, Opened, Nested, Reach
  <2>2. Placed(session[s])'
    BY <1>2, <1>3 DEF q, Placed, Between, AboutToWrite, Claiming
  <2>3. Wanted(session[s])'
    BY <1>2, <1>4 DEF q, Wanted, Between, AboutToWrite, Waiting
  <2>4. Fresher(session[s])'
    <3>1. k \notin met => rows[k].status = DbStatus[rows[k].display]
      BY DEF IInv, Committed
    <3>2. k \notin met' => k \notin met
      BY <1>6
    <3>3. rows' = rows /\ DOMAIN q.rows = {} /\ DOMAIN q.seenJobs = {}
      BY <1>1, <1>2 DEF Opened
    <3> QED BY <1>3, <3>1, <3>2, <3>3 DEF q, Fresher
  <2>5. Unsettled(session[s])'
    BY <1>2 DEF q, Unsettled
  <2>6. Webhooked(session[s])'
    <3>1. DOMAIN q.rows = {} /\ DOMAIN q.jobs = {}
      BY <1>2 DEF Opened
    <3> QED BY <1>2, <1>4, <1>6, <3>1 DEF q, Webhooked
  <2> QED BY <2>1, <2>2, <2>3, <2>4, <2>5, <2>6
<1>8. \A t \in Servers \ {s} : q.looked \cap session[t].looked \subseteq met'
  BY <1>2, <1>6
<1>10. q.pc # "idle" /\ q.pc # "write"
  BY <1>2
<1> QED BY <1>1, <1>2, <1>5, <1>6, <1>7, <1>8, <1>10, OpenStep DEF q

\* A row that is due is not settled, nor is one whose job is, unless two have met.
LEMMA DueIsUnsettled ==
    ASSUME IInv, NEW k \in Keys \ met, k \in DueRows \/ (k = Wait /\ k \in DueJobs)
    PROVE  settled[k] = 0
<1>1. SettledRow(k)
  BY DEF IInv, Committed
<1>2. ASSUME settled[k] # 0 PROVE FALSE
  <2>1. k \in DOMAIN rows /\ rows[k].display \in Finals
    BY <1>1, <1>2 DEF SettledRow
  <2>2. rows[k].status = DbStatus[rows[k].display]
    BY <2>1 DEF IInv, Committed
  <2>3. rows[k].status # "SCHEDULED"
    BY <2>1, <2>2, Statuses DEF Finals, TerminalDisplay
  <2>4. k = Wait /\ k \in DOMAIN jobs /\ jobs[k].status = "pending"
    BY <2>3 DEF DueRows, DueJobs
  <2> QED BY <1>1, <1>2, <2>4 DEF SettledRow
<1> QED BY <1>2

\* A tick opens on what is due.
LEMMA BeginTickStep ==
    ASSUME IInv, NEW s \in Servers, BeginTick(s) PROVE IInv'
<1> DEFINE q == session'[s]
           due == DueRows \cup DueJobs
           seen == [k \in DueRows |-> rows[k]]
           seenJobs == [k \in DueJobs |-> jobs[k]]
<1>1. /\ begun < MaxSessions /\ begun' = begun + 1 /\ UNCHANGED <<now, rows, jobs, faults, settled>>
      /\ session' = [session EXCEPT ![s] = q]
  BY DEF BeginTick, OpenAs, IInv, Types
<1>9. q = [[Closed EXCEPT !.kind = "tick", !.pc = "claim",
                  !.claims = DueJobs, !.todo = due, !.looked = due,
                  !.seen = seen, !.seenJobs = seenJobs]
                 EXCEPT !.n = begun + 1, !.at = now]
  BY DEF BeginTick, OpenAs, IInv, Types
<1> HIDE DEF q, due, seen, seenJobs
<1>2. /\ Opened(q)
      /\ q.kind = "tick" /\ q.pc = "claim" /\ q.key = Wait /\ q.replay = FALSE
      /\ q.claims = DueJobs /\ q.todo = due /\ q.looked = due
      /\ q.seen = seen /\ q.seenJobs = seenJobs
      /\ q.want = NoRow /\ q.then = "call"
  BY <1>9 DEF Closed, Opened, Fields
<1>3. /\ DueRows \subseteq DOMAIN rows /\ DueJobs \subseteq DOMAIN jobs /\ due \subseteq Keys
      /\ DOMAIN q.seen = DueRows /\ \A k \in DueRows : q.seen[k] = rows[k]
      /\ DOMAIN q.seenJobs = DueJobs /\ \A k \in DueJobs : q.seenJobs[k] = jobs[k]
  <2>1. DueRows \subseteq DOMAIN rows /\ DueJobs \subseteq DOMAIN jobs /\ due \subseteq Keys
    BY DEF due, DueRows, DueJobs, IInv, Types, Table
  <2> QED BY <1>2, <2>1 DEF seen, seenJobs
<1>4. Typed(q)
  <2>1. NoRow \in Row /\ [status |-> "pending", at |-> 0] \in Job
    BY Bounds, Statuses DEF NoRow, Row, Job
  <2>2. \A S : Table(<<>>, S)
    BY DEF Table
  <2>3. begun + 1 \in 0 .. MaxSessions /\ now \in 0 .. MaxTime
    BY <1>1, Bounds DEF IInv, Types
  <2>4. Table(q.seen, Row) /\ Table(q.seenJobs, Job)
    BY <1>3 DEF IInv, Types, Table
  <2>5. DueJobs \subseteq Keys /\ due \subseteq Keys
    BY <1>3 DEF IInv, Types, Table
  <2> QED BY <1>2, <2>1, <2>2, <2>3, <2>4, <2>5, Bounds DEF Opened, Typed
<1>5. /\ met \subseteq met' /\ met' \subseteq Keys
      /\ \A t \in Servers \ {s} : due \cap session[t].looked \subseteq met'
  BY <1>3, LooksFields DEF due, BeginTick
<1>6. (/\ Nested(session[s]) /\ Placed(session[s]) /\ Wanted(session[s])
       /\ Fresher(session[s]) /\ Unsettled(session[s]) /\ Webhooked(session[s]))'
  <2>1. Nested(session[s])'
    <3>1. due = DueRows \cup DueJobs
      BY DEF due
    <3>2. rows' = rows /\ jobs' = jobs /\ DOMAIN q.rows = {} /\ DOMAIN q.jobs = {}
      BY <1>1, <1>2 DEF Opened
    <3>3. q.looked \subseteq DOMAIN rows' \cup DOMAIN jobs'
      BY <1>2, <1>3, <3>1, <3>2
    <3> QED BY <1>2, <1>3, <3>1, <3>2, <3>3 DEF q, Nested, Reach
  <2>2. Placed(session[s])'
    <3>1. \A k \in DueJobs : q.seenJobs[k].status = "pending"
      BY <1>3 DEF DueJobs
    <3>2. DOMAIN q.rows = {}
      BY <1>2 DEF Opened
    <3> QED BY <1>2, <3>1, <3>2 DEF q, Placed, Between, AboutToWrite, Claiming
  <2>3. Wanted(session[s])'
    BY <1>2, Statuses DEF q, Wanted, NoRow, Between, AboutToWrite
  <2>4. Fresher(session[s])'
    <3>1. \A k \in DueRows \ met' : rows[k].status = DbStatus[rows[k].display]
      BY <1>3, <1>5 DEF IInv, Committed
    <3>2. rows' = rows /\ jobs' = jobs /\ DOMAIN q.rows = {} /\ DOMAIN q.jobs = {}
      BY <1>1, <1>2 DEF Opened
    <3> QED BY <1>3, <3>1, <3>2 DEF q, Fresher
  <2>5. Unsettled(session[s])'
    <3>1. ASSUME NEW k \in Keys \ met', k = Wait, k \in due PROVE settled[k] = 0
      <4>1. k \in Keys \ met
        BY <1>5, <3>1
      <4>2. k \in DueRows \/ (k = Wait /\ k \in DueJobs)
        BY <3>1 DEF due
      <4> QED BY <4>1, <4>2, DueIsUnsettled
    <3>2. DOMAIN q.rows = {} /\ DOMAIN q.jobs = {} /\ q.claims \subseteq due /\ q.todo = due
      BY <1>2 DEF Opened, due
    <3>3. settled' = settled /\ q.pc = "claim"
      BY <1>1, <1>2
    <3> QED BY <3>1, <3>2, <3>3 DEF q, Unsettled, AboutToWrite, Marking
  <2>6. Webhooked(session[s])'
    BY <1>2 DEF q, Webhooked
  <2> QED BY <2>1, <2>2, <2>3, <2>4, <2>5, <2>6
<1>8. \A t \in Servers \ {s} : q.looked \cap session[t].looked \subseteq met'
  BY <1>2, <1>5
<1>10. q.pc # "idle" /\ q.pc # "write"
  BY <1>2
<1> QED BY <1>1, <1>2, <1>4, <1>5, <1>6, <1>8, <1>10, OpenStep DEF q

-----------------------------------------------------------------------------
(* Steps of an open session *)

\* what a step does not change, in groups of fields that change together
SameSession(q, r) == DOMAIN q = Fields /\ q.kind = r.kind /\ q.n = r.n /\ q.at = r.at
SameItem(q, r) == q.key = r.key /\ q.item = r.item /\ q.replay = r.replay
SameWork(q, r) == q.claims = r.claims /\ q.todo = r.todo /\ q.looked = r.looked
SamePlan(q, r) ==
    /\ q.want = r.want /\ q.insert = r.insert /\ q.then = r.then
    /\ q.job = r.job /\ q.ended = r.ended
SameRows(q, r) == q.seen = r.seen /\ q.rows = r.rows
SameJobs(q, r) == q.seenJobs = r.seenJobs /\ q.jobs = r.jobs

\* What a session has read of one key that no two sessions have met over.
LEMMA SeenIsFresh ==
    ASSUME NEW r, Fresher(r), NEW j \in DOMAIN r.seen \ met
    PROVE  /\ r.seen[j].status = DbStatus[r.seen[j].display]
           /\ j \in DOMAIN r.rows => r.rows[j] = r.seen[j]
           /\ j \notin DOMAIN r.rows => j \in DOMAIN rows /\ rows[j] = r.seen[j]
BY DEF Fresher

LEMMA SeenJobsAreFresh ==
    ASSUME NEW r, Fresher(r), NEW j \in DOMAIN r.seenJobs \ met
    PROVE  /\ j \in DOMAIN r.jobs => r.jobs[j] = r.seenJobs[j]
           /\ j \notin DOMAIN r.jobs => j \in DOMAIN jobs /\ jobs[j] = r.seenJobs[j]
BY DEF Fresher

\* What the invariant says of one session.
LEMMA InHand ==
    ASSUME IInv, NEW s \in Servers
    PROVE  /\ Typed(session[s]) /\ Number(session[s]) /\ Nested(session[s])
           /\ Placed(session[s]) /\ Second(session[s]) /\ Wanted(session[s])
           /\ Findable(session[s]) /\ Fresher(session[s]) /\ Unsettled(session[s])
           /\ Webhooked(session[s]) /\ WaitDone(session[s])
           /\ Table(rows, Row) /\ Table(jobs, Job)
           /\ session' = [session EXCEPT ![s] = session'[s]] => DOMAIN session' = Servers
BY DEF IInv, SessionOK, Types

\* An open session that stays open keeps its number; what is left to show is what
\* it says of itself, of the keys it looks at, and of the rows it holds.
LEMMA BecomeStep ==
    ASSUME IInv, NEW s \in Servers, session[s].pc # "idle",
           session' = [session EXCEPT ![s] = session'[s]],
           UNCHANGED <<now, rows, jobs, begun, settled>>, faults' \in 0 .. MaxFaults,
           met \subseteq met', met' \subseteq Keys,
           session'[s].n = session[s].n, session'[s].pc # "idle", Typed(session'[s]),
           \A t \in Servers \ {s} : session'[s].looked \cap session[t].looked \subseteq met',
           \A t \in Servers \ {s} : DOMAIN session'[s].rows \cap DOMAIN session[t].rows = {},
           Nested(session[s])', Placed(session[s])', Second(session[s])', Wanted(session[s])',
           Findable(session[s])', Fresher(session[s])', Unsettled(session[s])',
           Webhooked(session[s])', WaitDone(session[s])'
    PROVE  IInv'
<1>1. Number(session[s])'
  BY InHand DEF Number
<1>2. SessionOK(session[s])'
  BY <1>1 DEF SessionOK
<1>3. ASSUME NEW t \in Servers \ {s} PROVE Apart(session[s], session[t])'
  <2>1. session'[t] = session[t]
    BY DEF IInv, Types
  <2>2. session[t].pc # "idle" => session[s].n # session[t].n
    BY DEF IInv, Apart
  <2> QED BY <2>1, <2>2 DEF Apart
<1>4. begun' \in 0 .. MaxSessions /\ begun <= begun'
  BY DEF IInv, Types
<1> QED BY <1>2, <1>3, <1>4, SessionMoves

\* A step that looks at nothing new and writes no row has less to show.
LEMMA QuietStep ==
    ASSUME IInv, NEW s \in Servers, session[s].pc # "idle",
           session' = [session EXCEPT ![s] = session'[s]],
           UNCHANGED <<now, rows, jobs, begun, settled, met>>, faults' \in 0 .. MaxFaults,
           session'[s].n = session[s].n, session'[s].pc # "idle", Typed(session'[s]),
           session'[s].looked \subseteq session[s].looked,
           DOMAIN session'[s].rows = DOMAIN session[s].rows,
           Nested(session[s])', Placed(session[s])', Second(session[s])', Wanted(session[s])',
           Findable(session[s])', Fresher(session[s])', Unsettled(session[s])',
           Webhooked(session[s])', WaitDone(session[s])'
    PROVE  IInv'
<1>1. \A t \in Servers \ {s} : session'[s].looked \cap session[t].looked \subseteq met'
  BY DEF IInv, Apart
<1>2. \A t \in Servers \ {s} : DOMAIN session'[s].rows \cap DOMAIN session[t].rows = {}
  BY DEF IInv, Apart
<1>3. met \subseteq met' /\ met' \subseteq Keys
  BY DEF IInv, Types
<1> QED BY <1>1, <1>2, <1>3, BecomeStep

\* what a step that selects a job to mark changes of a session
Selected(q, r) ==
    /\ SameSession(q, r) /\ SameRows(q, r) /\ q.key = r.key /\ q.replay = r.replay
    /\ q.todo = r.todo /\ q.looked = r.looked /\ q.called = r.called
    /\ q.want = r.want /\ q.insert = r.insert /\ q.then = r.then /\ q.ended = r.ended
    /\ q.pc = "mark" /\ q.claims = r.claims \ {q.item} /\ q.jobs = r.jobs
    /\ DOMAIN q.seenJobs = DOMAIN r.seenJobs \cup {q.item}
    /\ \A j \in DOMAIN r.seenJobs : j # q.item => q.seenJobs[j] = r.seenJobs[j]

\* A tick has selected a job that it is to mark: what it has read of it is what there is.
LEMMA MarksStep ==
    ASSUME IInv, NEW s \in Servers, session[s].pc \in {"claim", "release"},
           UNCHANGED <<now, rows, jobs, begun, settled, met, faults>>,
           session' = [session EXCEPT ![s] = session'[s]], Selected(session'[s], session[s]),
           LET r == session[s]
               q == session'[s]
               k == q.item
           IN  /\ q.job \in Job /\ q.job.status \in {"pending", "running"}
               /\ r.pc = "claim" <=> q.job.status = "running"
               /\ q.seenJobs[k].status \in {"pending", "running"} \ {q.job.status}
               /\ k \in r.looked
               /\ k \in DOMAIN r.jobs => q.seenJobs[k] = r.jobs[k]
               /\ k \notin DOMAIN r.jobs => k \in DOMAIN jobs /\ q.seenJobs[k] = jobs[k]
               /\ k = Wait /\ k \notin met => settled[k] = 0
    PROVE  IInv'
<1> DEFINE r == session[s]
           q == session'[s]
           k == q.item
           job == q.seenJobs[k]
           status == q.job.status
           claims == r.claims \ {k}
<1>1. /\ UNCHANGED <<now, rows, jobs, begun, settled, met, faults>>
      /\ session' = [session EXCEPT ![s] = q]
  OBVIOUS
<1>2. Selected(q, r)
  OBVIOUS
<1>3. /\ Typed(r) /\ Nested(r) /\ Placed(r) /\ Second(r) /\ Wanted(r) /\ Findable(r)
      /\ Fresher(r) /\ Unsettled(r) /\ WaitDone(r) /\ Table(jobs, Job)
  BY InHand
<1>4. q.job \in Job /\ status \in {"pending", "running"}
  OBVIOUS
<1>6. k \in DOMAIN r.jobs => job = r.jobs[k]
  OBVIOUS
<1>7. k \notin DOMAIN r.jobs => k \in DOMAIN jobs /\ job = jobs[k]
  OBVIOUS
<1>23. /\ k \in r.looked /\ r.pc \in {"claim", "release"} /\ (r.pc = "claim" <=> status = "running")
       /\ job.status \in {"pending", "running"} \ {status}
       /\ k = Wait /\ k \notin met => settled[k] = 0
  OBVIOUS
<1>24. job \in Job
  BY <1>3, <1>6, <1>7 DEF Typed, Table
<1>8. /\ k \in r.looked /\ r.pc \in {"claim", "release"} /\ (r.pc = "claim" <=> status = "running")
      /\ job.status \in {"pending", "running"} \ {status} /\ job \in Job
      /\ k = Wait /\ k \notin met => settled[k] = 0
  BY <1>23, <1>24
<1>25. claims = r.claims \ {k} /\ status = q.job.status /\ job = q.seenJobs[k] /\ k = q.item
  OBVIOUS
<1> HIDE DEF q, r, k, job, status, claims
<1>9. /\ SameSession(q, r) /\ SameRows(q, r) /\ q.key = r.key /\ q.replay = r.replay
      /\ q.todo = r.todo /\ q.looked = r.looked /\ q.called = r.called
      /\ q.want = r.want /\ q.insert = r.insert /\ q.then = r.then /\ q.ended = r.ended
  BY <1>2 DEF Selected
<1>10. /\ q.pc = "mark" /\ q.item = k /\ q.claims = claims /\ q.jobs = r.jobs
       /\ q.job.status = status
  BY <1>2, <1>25 DEF Selected
<1>5. /\ DOMAIN q.seenJobs = DOMAIN r.seenJobs \cup {k} /\ q.seenJobs[k] = job
      /\ \A j \in DOMAIN r.seenJobs : j # k => q.seenJobs[j] = r.seenJobs[j]
  BY <1>2, <1>25 DEF Selected
<1>11. k \in Keys /\ claims \subseteq r.claims /\ k \notin claims
  BY <1>3, <1>8, <1>25 DEF Typed
<1>12. Typed(q)
  <2>1. Table(q.seenJobs, Job)
    BY <1>3, <1>5, <1>8, <1>11 DEF Typed, Table
  <2> QED BY <1>3, <1>4, <1>9, <1>10, <1>11, <2>1 DEF Typed, SameSession, SameRows
<1>13. (Claiming(q) <=> Claiming(r)) /\ Marking(q) = {k} /\ Marking(r) = {}
  BY <1>4, <1>8, <1>10 DEF Claiming, Marking
<1>14. r.kind = "tick"
  BY <1>3, <1>8 DEF Placed
<1> USE DEF q
<1>15. Nested(session[s])'
  <2>1. /\ q.pc = "mark" /\ q.item = k /\ q.n = r.n /\ q.looked = r.looked /\ q.todo = r.todo
        /\ q.rows = r.rows /\ q.seen = r.seen /\ q.jobs = r.jobs
    BY <1>9, <1>10 DEF SameSession, SameRows
  <2>2. /\ DOMAIN q.jobs \subseteq DOMAIN q.seenJobs /\ DOMAIN q.seenJobs \subseteq q.looked
        /\ q.claims \subseteq (DOMAIN q.seenJobs \cap DOMAIN jobs) \ DOMAIN q.jobs
    BY <1>3, <1>5, <1>8, <1>10, <1>11, <2>1 DEF Nested
  <2>3. DOMAIN r.seenJobs \ DOMAIN r.jobs \subseteq r.claims
    BY <1>3, <1>8, <1>13 DEF Nested
  <2>4. DOMAIN q.seenJobs \ DOMAIN q.jobs \subseteq q.claims \cup {k}
    BY <1>5, <1>10, <1>25, <2>1, <2>3
  <2> QED BY <1>1, <1>3, <2>1, <2>2, <2>4 DEF Nested, Reach, Marking
<1>16. Placed(session[s])'
  <2>1. IF Claiming(q) THEN DOMAIN q.rows = {} ELSE q.claims = {}
    BY <1>3, <1>9, <1>10, <1>11, <1>13 DEF Placed, SameRows
  <2>2. ~Claiming(q) => q.todo \subseteq DOMAIN q.seen
    BY <1>3, <1>8, <1>9, <1>13 DEF Placed, SameRows
  <2>3. /\ q.item \in q.looked
        /\ q.item \in DOMAIN q.seenJobs \ q.claims
        /\ q.item \in DOMAIN jobs' \cup DOMAIN q.jobs
        /\ q.job.status \in {"running", "pending"}
        /\ q.seenJobs[q.item].status \in {"running", "pending"} \ {q.job.status}
    BY <1>1, <1>4, <1>5, <1>7, <1>8, <1>9, <1>10, <1>11
  <2>4. q.pc = "mark" /\ q.kind = "tick"
    BY <1>9, <1>10, <1>14 DEF SameSession
  <2> QED BY <2>1, <2>2, <2>3, <2>4 DEF Placed, Between, AboutToWrite, Claiming
<1>17. Second(session[s])' /\ Wanted(session[s])'
  <2>1. Second(session[s])'
    BY <1>3, <1>9, <1>14 DEF Second, SameSession, SameRows
  <2>2. Wanted(session[s])'
    BY <1>3, <1>9, <1>10, <1>14 DEF Wanted, SameSession, Between, AboutToWrite
  <2> QED BY <2>1, <2>2
<1>18. Findable(session[s])'
  <2>1. \A j \in DOMAIN q.rows : q.rows[j].display \in Waiting =>
           q.rows[j].status = "SCHEDULED" \/ (j \in DOMAIN q.jobs /\ q.jobs[j].status # "done")
    BY <1>3, <1>8, <1>9, <1>10 DEF Findable, SameRows, Between
  <2>2. ASSUME NEW j \in DOMAIN q.jobs
        PROVE  /\ q.jobs[j].status = "done" => j \in DOMAIN q.rows
               /\ q.seenJobs[j].status = "pending" => q.jobs[j].status # "done"
    <3>1. CASE j = k
      BY <1>5, <1>6, <1>8, <1>10, <2>2, <3>1
    <3>2. CASE j # k
      BY <1>3, <1>5, <1>9, <1>10, <2>2, <3>2 DEF Findable, Nested, SameRows
    <3> QED BY <3>1, <3>2
  <2> QED BY <1>10, <2>1, <2>2 DEF Findable
<1>19. Fresher(session[s])'
  <2>1. \A j \in DOMAIN q.seen \ met :
          /\ q.seen[j].status = DbStatus[q.seen[j].display]
          /\ j \in DOMAIN q.rows => q.rows[j] = q.seen[j]
          /\ j \notin DOMAIN q.rows => j \in DOMAIN rows /\ rows[j] = q.seen[j]
    BY <1>3, <1>9, SeenIsFresh DEF SameRows
  <2>2. ASSUME NEW j \in DOMAIN q.seenJobs \ met
        PROVE  /\ j \in DOMAIN q.jobs => q.jobs[j] = q.seenJobs[j]
               /\ j \notin DOMAIN q.jobs => j \in DOMAIN jobs /\ jobs[j] = q.seenJobs[j]
    <3>1. CASE j = k
      BY <1>5, <1>6, <1>7, <1>10, <3>1
    <3>2. CASE j # k
      <4>1. j \in DOMAIN r.seenJobs \ met /\ q.seenJobs[j] = r.seenJobs[j] /\ q.jobs = r.jobs
        BY <1>5, <1>10, <2>2, <3>2
      <4> QED BY <1>3, <4>1, SeenJobsAreFresh
    <3> QED BY <3>1, <3>2
  <2> QED BY <1>1, <2>1, <2>2 DEF Fresher
<1>20. Unsettled(session[s])'
  BY <1>1, <1>3, <1>8, <1>9, <1>10, <1>11
     DEF Unsettled, SameSession, SameRows, AboutToWrite, Marking
<1>21. Webhooked(session[s])' /\ WaitDone(session[s])'
  BY <1>1, <1>3, <1>8, <1>9, <1>10, <1>14 DEF Webhooked, WaitDone, SameSession, SameRows, Between
<1>22. faults' \in 0 .. MaxFaults
  BY <1>1 DEF IInv, Types
<1> QED BY <1>1, <1>8, <1>9, <1>10, <1>12, <1>15, <1>16, <1>17, <1>18, <1>19, <1>20, <1>21, <1>22,
        QuietStep DEF SameSession, SameRows, r

\* A tick claims a job that is pending still; it leaves any other as it is.
LEMMA ClaimStep == ASSUME IInv, NEW s \in Servers, Claim(s) PROVE IInv'
<1> DEFINE r == session[s]
           q == session'[s]
           k == FirstClaim(s)
           claims == r.claims \ {k}
           rest == [j \in DOMAIN r.seenJobs \ {k} |-> r.seenJobs[j]]
<1>1. /\ r.pc = "claim" /\ r.claims # {}
      /\ UNCHANGED <<now, rows, jobs, begun, settled, met, faults>>
      /\ session' = [session EXCEPT ![s] = q]
  BY DEF Claim, Become, At, IInv, Types
<1>3. /\ Typed(r) /\ Nested(r) /\ Placed(r) /\ Second(r) /\ Wanted(r) /\ Findable(r)
      /\ Fresher(r) /\ Unsettled(r) /\ Table(jobs, Job)
  BY InHand
<1>4. k \in r.claims
  BY <1>1, <1>3, FirstClaimIsOne DEF Nested
<1>6. /\ k \in Keys /\ k \in DOMAIN r.seenJobs /\ k \in DOMAIN jobs /\ k \notin DOMAIN r.jobs
      /\ k \in r.looked /\ jobs[k] \in Job
  BY <1>3, <1>4 DEF Nested, Typed, Table
<1>7. r.kind = "tick" /\ DOMAIN r.rows = {}
  BY <1>1, <1>3 DEF Placed, Claiming
<1>8. CASE jobs[k].status = "pending"
  <2> DEFINE job == jobs[k]
             want == [job EXCEPT !.status = "running"]
             seenJobs == Set(rest, k, job)
  <2>1. q = Marks([r EXCEPT !.claims = claims, !.seenJobs = rest], k, job, "running")
    BY <1>8 DEF Claim, Become, IInv, Types
  <2>2. /\ DOMAIN seenJobs = DOMAIN r.seenJobs \cup {k} /\ seenJobs[k] = job
        /\ \A j \in DOMAIN r.seenJobs : j # k => seenJobs[j] = r.seenJobs[j]
    BY DEF Set
  <2>3. k = Wait /\ k \notin met => settled[k] = 0
    BY <1>3, <1>4, <1>6, <1>7 DEF Unsettled
  <2>4. job \in Job /\ job.status = "pending" /\ want \in Job /\ want.status = "running"
    BY <1>6, <1>8 DEF Job
  <2>5. DOMAIN r = Fields /\ claims = r.claims \ {k}
    BY <1>3 DEF Typed
  <2>6. job = jobs[k]
    OBVIOUS
  <2>10. q = [[r EXCEPT !.claims = claims, !.seenJobs = rest]
               EXCEPT !.pc = "mark", !.item = k, !.seenJobs = seenJobs, !.job = want]
    BY <2>1, <2>5 DEF Marks, Fields
  <2> HIDE DEF q, r, k, claims, rest, job, want, seenJobs
  <2>11. /\ SameSession(q, r) /\ SameRows(q, r) /\ q.key = r.key /\ q.replay = r.replay
         /\ q.todo = r.todo /\ q.looked = r.looked /\ q.called = r.called
    BY <2>5, <2>10 DEF Fields, SameSession, SameRows
  <2>12. /\ q.want = r.want /\ q.insert = r.insert /\ q.then = r.then /\ q.ended = r.ended
         /\ q.pc = "mark" /\ q.item = k /\ q.claims = claims
         /\ q.seenJobs = seenJobs /\ q.job = want /\ q.jobs = r.jobs
    BY <2>5, <2>10 DEF Fields
  <2>7. Selected(q, r)
    BY <2>2, <2>5, <2>11, <2>12 DEF Selected
  <2> QED BY <1>1, <1>6, <2>2, <2>3, <2>4, <2>6, <2>7, <2>12, MarksStep DEF q, r
<1>9. CASE jobs[k].status # "pending"
  <2>1. q = [r EXCEPT !.claims = claims, !.seenJobs = rest]
    BY <1>9 DEF Claim, Become, IInv, Types
  <2>2. /\ DOMAIN rest = DOMAIN r.seenJobs \ {k} /\ k \notin claims /\ claims \subseteq r.claims
        /\ \A j \in DOMAIN rest : rest[j] = r.seenJobs[j]
        /\ r.claims = claims \cup {k}
    BY <1>4
  <2> HIDE DEF q, k, claims, rest
  <2>3. /\ SameSession(q, r) /\ SameItem(q, r) /\ SamePlan(q, r) /\ SameRows(q, r)
        /\ q.pc = "claim" /\ q.todo = r.todo /\ q.looked = r.looked /\ q.called = r.called
        /\ q.claims = claims /\ q.seenJobs = rest /\ q.jobs = r.jobs
    BY <1>1, <1>3, <2>1 DEF Typed, Fields, SameSession, SameItem, SamePlan, SameRows
  <2>4. Typed(q)
    <3>1. Table(rest, Job)
      BY <1>3, <2>2 DEF Typed, Table
    <3> QED BY <1>3, <2>2, <2>3, <3>1 DEF Typed, SameSession, SameItem, SamePlan, SameRows
  <2> USE DEF q
  <2>5. Nested(session[s])'
    BY <1>1, <1>3, <1>6, <2>2, <2>3 DEF Nested, Reach, SameSession, SameRows, Marking
  <2>6. Placed(session[s])'
    BY <1>1, <1>7, <2>3 DEF Placed, SameSession, SameRows, Between, AboutToWrite, Claiming
  <2>7. Second(session[s])' /\ Wanted(session[s])'
    BY <1>3, <1>7, <2>3 DEF Second, Wanted, SameSession, SameRows, SamePlan, Between, AboutToWrite
  <2>8. Findable(session[s])'
    BY <1>1, <1>3, <1>6, <1>7, <2>2, <2>3 DEF Findable, Nested, SameRows
  <2>9. Fresher(session[s])'
    BY <1>1, <1>3, <1>7, <2>2, <2>3 DEF Fresher, SameRows
  <2>10. Unsettled(session[s])'
    BY <1>1, <1>3, <2>2, <2>3 DEF Unsettled, SameSession, SameItem, SameRows, AboutToWrite, Marking
  <2>11. Webhooked(session[s])' /\ WaitDone(session[s])'
    BY <1>7, <2>3 DEF Webhooked, WaitDone, SameSession, SameRows
  <2>12. faults' \in 0 .. MaxFaults
    BY <1>1 DEF IInv, Types
  <2> QED BY <1>1, <2>3, <2>4, <2>5, <2>6, <2>7, <2>8, <2>9, <2>10, <2>11, <2>12, QuietStep
          DEF SameSession, SameRows
<1> QED BY <1>8, <1>9

\* The job is marked, and held: as running by a tick that has its claims to make, as
\* pending by one that gives a row up.
LEMMA MarkStep == ASSUME IInv, NEW s \in Servers, Mark(s) PROVE IInv'
<1> DEFINE r == session[s]
           q == session'[s]
           k == r.item
           job == IF k \in DOMAIN r.jobs THEN r.jobs[k] ELSE jobs[k]
           merged == MergedJob(job, r.seenJobs[k], r.job)
           pc == IF r.job.status = "running" THEN "claim" ELSE "next"
           seenJobs == Set(r.seenJobs, k, r.job)
           held == Set(r.jobs, k, merged)
<1>1. /\ r.pc = "mark"
      /\ UNCHANGED <<now, rows, jobs, begun, settled, met>> /\ faults' = faults
      /\ session' = [session EXCEPT ![s] = q]
  BY DEF Mark, Become, At, IInv, Types
<1>2. q = [r EXCEPT !.pc = pc, !.seenJobs = seenJobs, !.jobs = held]
  BY DEF Mark, Become, IInv, Types
<1>3. /\ Typed(r) /\ Nested(r) /\ Placed(r) /\ Second(r) /\ Wanted(r) /\ Findable(r)
      /\ Fresher(r) /\ Unsettled(r) /\ WaitDone(r) /\ Table(jobs, Job)
  BY InHand
<1>4. /\ r.kind = "tick" /\ k \in r.looked /\ k \in DOMAIN r.seenJobs /\ k \notin r.claims
      /\ k \in DOMAIN jobs \cup DOMAIN r.jobs
      /\ r.job.status \in {"running", "pending"} /\ r.seenJobs[k].status \in {"running", "pending"}
      /\ r.seenJobs[k].status # r.job.status
  BY <1>1, <1>3 DEF Placed
<1>5. job \in Job /\ r.seenJobs[k] \in Job /\ r.job \in Job /\ k \in Keys
  BY <1>3, <1>4 DEF Typed, Table
<1>6. k \notin met => job = r.seenJobs[k]
  BY <1>3, <1>4 DEF Fresher
<1>7. (Claiming(r) <=> pc = "claim") /\ pc \in {"claim", "next"} /\ Marking(r) = {k}
  BY <1>1 DEF Claiming, Marking
<1>21. (pc = "claim" <=> r.job.status = "running")
  OBVIOUS
<1> HIDE DEF q, k, job, merged, pc, seenJobs, held
<1>8. /\ merged \in Job /\ merged.status = r.job.status
      /\ k \notin met => merged = r.job
  BY <1>4, <1>5, <1>6, MergedJobFields DEF merged
<1>9. /\ DOMAIN seenJobs = DOMAIN r.seenJobs /\ seenJobs[k] = r.job
      /\ \A j \in DOMAIN r.seenJobs : j # k => seenJobs[j] = r.seenJobs[j]
      /\ DOMAIN held = DOMAIN r.jobs \cup {k} /\ held[k] = merged
      /\ \A j \in DOMAIN r.jobs : j # k => held[j] = r.jobs[j]
  BY <1>4 DEF Set, seenJobs, held
<1>10. /\ SameSession(q, r) /\ SameItem(q, r) /\ SameWork(q, r) /\ SamePlan(q, r)
       /\ SameRows(q, r) /\ q.called = r.called
       /\ q.pc = pc /\ q.seenJobs = seenJobs /\ q.jobs = held
  <2>1. DOMAIN r = Fields
    BY <1>3 DEF Typed
  <2>2. SameSession(q, r) /\ SameItem(q, r) /\ SameWork(q, r) /\ SamePlan(q, r)
    BY <1>2, <2>1 DEF Fields, SameSession, SameItem, SameWork, SamePlan
  <2>3. /\ SameRows(q, r) /\ q.called = r.called
        /\ q.pc = pc /\ q.seenJobs = seenJobs /\ q.jobs = held
    BY <1>2, <2>1 DEF Fields, SameRows
  <2> QED BY <2>2, <2>3
<1>11. Typed(q)
  <2>1. Table(seenJobs, Job) /\ Table(held, Job)
    BY <1>3, <1>5, <1>8, <1>9 DEF Typed, Table
  <2> QED BY <1>3, <1>7, <1>10, <2>1
          DEF Typed, SameSession, SameItem, SameWork, SamePlan, SameRows
<1> USE DEF q
<1>12. Nested(session[s])'
  <2>1. q.pc # "mark" /\ q.pc # "write" /\ r.pc # "write"
    BY <1>1, <1>7, <1>10
  <2>2. DOMAIN q.seenJobs \ DOMAIN q.jobs \subseteq q.claims
    BY <1>3, <1>7, <1>9, <1>10, <2>1 DEF Nested, SameWork
  <2>3. /\ DOMAIN q.jobs \subseteq DOMAIN q.seenJobs /\ DOMAIN q.seenJobs \subseteq q.looked
        /\ q.claims \subseteq (DOMAIN q.seenJobs \cap DOMAIN jobs) \ DOMAIN q.jobs
    BY <1>3, <1>4, <1>9, <1>10 DEF Nested, SameWork
  <2> QED BY <1>1, <1>3, <1>10, <2>1, <2>2, <2>3
          DEF Nested, Reach, SameSession, SameWork, SameRows, Marking
<1>13. Placed(session[s])' /\ Second(session[s])' /\ Wanted(session[s])'
  <2>1. Placed(session[s])'
    BY <1>1, <1>3, <1>4, <1>7, <1>10
       DEF Placed, Claiming, SameSession, SameWork, SameRows, Between, AboutToWrite
  <2>2. Second(session[s])'
    BY <1>3, <1>4, <1>10 DEF Second, SameSession, SameRows
  <2>3. Wanted(session[s])'
    BY <1>3, <1>7, <1>10 DEF Wanted, SameSession, SamePlan, Between, AboutToWrite
  <2> QED BY <2>1, <2>2, <2>3
<1>14. Findable(session[s])'
  <2>1. ASSUME NEW j \in DOMAIN q.rows, q.rows[j].display \in Waiting
        PROVE  q.rows[j].status = "SCHEDULED" \/ (j \in DOMAIN q.jobs /\ q.jobs[j].status # "done")
    <3>1. r.rows[j].status = "SCHEDULED" \/ (j \in DOMAIN r.jobs /\ r.jobs[j].status # "done")
      BY <1>1, <1>3, <1>10, <2>1 DEF Findable, SameRows, Between
    <3> QED BY <1>4, <1>8, <1>9, <1>10, <3>1 DEF SameRows
  <2>2. ASSUME NEW j \in DOMAIN q.jobs
        PROVE  /\ q.jobs[j].status = "done" => j \in DOMAIN q.rows
               /\ q.seenJobs[j].status = "pending" => q.jobs[j].status # "done"
    <3>1. CASE j = k
      BY <1>4, <1>8, <1>9, <1>10, <3>1
    <3>2. CASE j # k
      BY <1>3, <1>9, <1>10, <2>2, <3>2 DEF Findable, Nested, SameRows
    <3> QED BY <3>1, <3>2
  <2> QED BY <1>7, <1>10, <2>1, <2>2 DEF Findable
<1>15. Fresher(session[s])'
  <2>1. \A j \in DOMAIN q.seen \ met :
          /\ q.seen[j].status = DbStatus[q.seen[j].display]
          /\ j \in DOMAIN q.rows => q.rows[j] = q.seen[j]
          /\ j \notin DOMAIN q.rows => j \in DOMAIN rows /\ rows[j] = q.seen[j]
    BY <1>3, <1>10, SeenIsFresh DEF SameRows
  <2>2. ASSUME NEW j \in DOMAIN q.seenJobs \ met
        PROVE  /\ j \in DOMAIN q.jobs => q.jobs[j] = q.seenJobs[j]
               /\ j \notin DOMAIN q.jobs => j \in DOMAIN jobs /\ jobs[j] = q.seenJobs[j]
    <3>1. CASE j = k
      BY <1>8, <1>9, <1>10, <2>2, <3>1
    <3>2. CASE j # k
      <4>1. /\ j \in DOMAIN r.seenJobs \ met /\ q.seenJobs[j] = r.seenJobs[j]
            /\ j \in DOMAIN q.jobs <=> j \in DOMAIN r.jobs
            /\ j \in DOMAIN r.jobs => q.jobs[j] = r.jobs[j]
        BY <1>9, <1>10, <2>2, <3>2
      <4> QED BY <1>3, <4>1, SeenJobsAreFresh
    <3> QED BY <3>1, <3>2
  <2> QED BY <1>1, <2>1, <2>2 DEF Fresher
<1>16. Unsettled(session[s])' /\ Webhooked(session[s])'
  <2>1. Unsettled(session[s])'
    BY <1>1, <1>3, <1>7, <1>9, <1>10
       DEF Unsettled, SameSession, SameWork, SameRows, AboutToWrite, Marking
  <2> QED BY <1>4, <1>10, <2>1 DEF Webhooked, SameSession
<1>17. WaitDone(session[s])'
  <2>1. ASSUME Wait \in DOMAIN q.rows \ met, q.seen[Wait].display = "SUCCESS"
        PROVE  /\ Wait \in DOMAIN q.jobs => q.jobs[Wait].status = "done"
               /\ Wait \in DOMAIN jobs \ DOMAIN q.jobs => jobs[Wait].status = "done"
    <3>1. /\ Wait \in DOMAIN r.jobs => r.jobs[Wait].status = "done"
          /\ Wait \in DOMAIN jobs \ DOMAIN r.jobs => jobs[Wait].status = "done"
      BY <1>1, <1>3, <1>4, <1>10, <2>1 DEF WaitDone, SameRows, Between
    <3>2. k # Wait
      BY <1>4, <1>6, <2>1, <3>1 DEF job
    <3> QED BY <1>9, <1>10, <3>1, <3>2
  <2> QED BY <1>1, <2>1 DEF WaitDone
<1>18. faults' \in 0 .. MaxFaults
  BY <1>1 DEF IInv, Types
<1>19. q.pc # "idle" /\ r.pc # "idle"
  BY <1>1, <1>7, <1>10
<1> QED BY <1>1, <1>10, <1>11, <1>12, <1>13, <1>14, <1>15, <1>16, <1>17, <1>18, <1>19, QuietStep
        DEF SameSession, SameWork, SameRows

\* A tick has its claims, and loads the rows that it has not.
LEMMA ClaimedStep == ASSUME IInv, NEW s \in Servers, Claimed(s) PROVE IInv'
<1> DEFINE r == session[s]
           q == session'[s]
           more == (r.todo \cap DOMAIN rows) \ DOMAIN r.seen
           looked == r.looked \cup more
           todo == r.todo \cap (DOMAIN r.seen \cup more)
           seen == [k \in DOMAIN r.seen \cup more |-> IF k \in more THEN rows[k] ELSE r.seen[k]]
<1>1. /\ r.pc = "claim" /\ r.claims = {}
      /\ UNCHANGED <<now, rows, jobs, begun, settled>> /\ faults' = faults
      /\ session' = [session EXCEPT ![s] = q]
  BY DEF Claimed, Become, At, IInv, Types
<1>2. q = [r EXCEPT !.pc = "next", !.looked = looked, !.todo = todo, !.seen = seen]
  BY DEF Claimed, Become, IInv, Types
<1>3. /\ Typed(r) /\ Nested(r) /\ Placed(r) /\ Second(r) /\ Wanted(r) /\ Findable(r)
      /\ Fresher(r) /\ Unsettled(r) /\ Table(rows, Row)
  BY InHand
<1>4. more \subseteq DOMAIN rows /\ more \subseteq r.todo /\ more \cap DOMAIN r.seen = {}
  OBVIOUS
<1>5. /\ met \subseteq met' /\ met' \subseteq Keys
  <2>1. more \subseteq Keys
    BY <1>3 DEF Table
  <2> QED BY <2>1, LooksFields DEF Claimed
<1>6. looked = r.looked
  BY <1>3, <1>4 DEF Nested
<1>7. /\ todo \subseteq r.todo /\ todo \subseteq DOMAIN seen
      /\ DOMAIN seen = DOMAIN r.seen \cup more
      /\ \A k \in more : seen[k] = rows[k]
      /\ \A k \in DOMAIN r.seen : seen[k] = r.seen[k]
  OBVIOUS
<1> HIDE DEF q, more, looked, todo, seen
<1>8. /\ SameSession(q, r) /\ SameItem(q, r) /\ SamePlan(q, r) /\ SameJobs(q, r)
      /\ q.pc = "next" /\ q.claims = r.claims /\ q.called = r.called
      /\ q.looked = r.looked /\ q.todo = todo /\ q.seen = seen /\ q.rows = r.rows
  BY <1>1, <1>2, <1>3, <1>6 DEF Typed, Fields, SameSession, SameItem, SamePlan, SameJobs
<1>9. r.kind = "tick" /\ DOMAIN r.rows = {}
  BY <1>1, <1>3 DEF Placed, Claiming
<1>10. Typed(q)
  <2>1. Table(seen, Row)
    BY <1>3, <1>4, <1>7 DEF Typed, Table
  <2> QED BY <1>3, <1>7, <1>8, <2>1 DEF Typed, SameSession, SameItem, SamePlan, SameJobs
<1> USE DEF q
<1>11. Nested(session[s])'
  <2>1. DOMAIN seen \subseteq r.looked /\ DOMAIN seen \subseteq DOMAIN rows
    BY <1>3, <1>4, <1>7, <1>9 DEF Nested
  <2> QED BY <1>1, <1>3, <1>7, <1>8, <1>9, <2>1 DEF Nested, Reach, SameSession, SameJobs, Marking
<1>12. Placed(session[s])' /\ Second(session[s])' /\ Wanted(session[s])'
  <2>1. Placed(session[s])'
    BY <1>1, <1>7, <1>8, <1>9 DEF Placed, SameSession, Between, AboutToWrite
  <2>2. Second(session[s])'
    BY <1>3, <1>8, <1>9 DEF Second, SameSession
  <2>3. Wanted(session[s])'
    BY <1>3, <1>8 DEF Wanted, SameSession, SamePlan, Between, AboutToWrite
  <2> QED BY <2>1, <2>2, <2>3
<1>13. Findable(session[s])'
  BY <1>1, <1>3, <1>8, <1>9 DEF Findable, SameJobs
<1>14. Fresher(session[s])'
  <2>1. \A k \in more \ met' : rows[k].status = DbStatus[rows[k].display]
    BY <1>4, <1>5 DEF IInv, Committed
  <2>2. \A k \in DOMAIN q.seenJobs \ met' :
          /\ k \in DOMAIN q.jobs => q.jobs[k] = q.seenJobs[k]
          /\ k \notin DOMAIN q.jobs => k \in DOMAIN jobs' /\ jobs'[k] = q.seenJobs[k]
    BY <1>1, <1>3, <1>5, <1>8 DEF Fresher, SameJobs
  <2>3. \A k \in DOMAIN q.seen \ met' :
          /\ q.seen[k].status = DbStatus[q.seen[k].display]
          /\ k \in DOMAIN rows /\ rows[k] = q.seen[k]
    BY <1>3, <1>4, <1>5, <1>7, <1>8, <1>9, <2>1 DEF Fresher
  <2>4. rows' = rows /\ DOMAIN q.rows = {}
    BY <1>1, <1>8, <1>9
  <2> QED BY <2>2, <2>3, <2>4 DEF Fresher
<1>15. Unsettled(session[s])' /\ Webhooked(session[s])' /\ WaitDone(session[s])'
  <2>1. Unsettled(session[s])'
    BY <1>1, <1>3, <1>5, <1>7, <1>8, <1>9 DEF Unsettled, SameSession, SameJobs, AboutToWrite, Marking
  <2> QED BY <1>8, <1>9, <2>1 DEF Webhooked, WaitDone, SameSession
<1>16. faults' \in 0 .. MaxFaults
  BY <1>1 DEF IInv, Types
<1>17. \A t \in Servers \ {s} : q.looked \cap session[t].looked \subseteq met'
  BY <1>5, <1>8 DEF IInv, Apart
<1>18. \A t \in Servers \ {s} : DOMAIN q.rows \cap DOMAIN session[t].rows = {}
  BY <1>8, <1>9
<1> QED BY <1>1, <1>5, <1>8, <1>10, <1>11, <1>12, <1>13, <1>14, <1>15, <1>16, <1>17, <1>18,
        BecomeStep DEF SameSession

\* A tick takes the next row: a wait is over, any other is run as a plan of now.
LEMMA NextItemStep == ASSUME IInv, NEW s \in Servers, NextItem(s) PROVE IInv'
<1> DEFINE r == session[s]
           q == session'[s]
<1>0. PICK k \in r.todo :
        Become(s, IF k = Wait
                  THEN [r EXCEPT !.todo = @ \ {k}, !.item = k, !.key = k, !.pc = "flush",
                           !.want = Is("SUCCESS", r.seen[k].at), !.insert = FALSE,
                           !.then = "select", !.ended = TRUE,
                           !.job = [status |-> "done", at |-> r.seen[k].at]]
                  ELSE [r EXCEPT !.todo = @ \ {k}, !.item = k, !.key = r.n, !.pc = "run",
                           !.replay = TRUE])
  BY DEF NextItem
<1> DEFINE todo == r.todo \ {k}
           want == Is("SUCCESS", r.seen[k].at)
           job == [status |-> "done", at |-> r.seen[k].at]
<1>1. /\ r.pc = "next"
      /\ UNCHANGED <<now, rows, jobs, begun, settled, met>> /\ faults' = faults
      /\ session' = [session EXCEPT ![s] = q]
  BY <1>0 DEF NextItem, Become, At, IInv, Types
<1>2. /\ k = Wait => q = [r EXCEPT !.todo = todo, !.item = k, !.key = k, !.pc = "flush",
                            !.want = want, !.insert = FALSE, !.then = "select",
                            !.ended = TRUE, !.job = job]
      /\ k # Wait => q = [r EXCEPT !.todo = todo, !.item = k, !.key = r.n, !.pc = "run",
                            !.replay = TRUE]
  BY <1>0 DEF Become, IInv, Types
<1>3. /\ Typed(r) /\ Number(r) /\ Nested(r) /\ Placed(r) /\ Second(r) /\ Wanted(r)
      /\ Findable(r) /\ Fresher(r) /\ Unsettled(r) /\ WaitDone(r)
  BY InHand
<1>4. /\ r.kind = "tick" /\ k \in r.todo /\ k \in DOMAIN r.seen /\ k \in r.looked /\ k \in Keys
      /\ r.seen[k] \in Row
  BY <1>1, <1>3 DEF Placed, Nested, Typed, Table, Claiming, Marking
<1>5. /\ r.seen[k].at \in 0 .. MaxTime + 1
      /\ want \in Row /\ want.status = DbStatus[want.display] /\ want.display = "SUCCESS"
      /\ job \in Job /\ job.status = "done"
  <2>1. r.seen[k].at \in 0 .. MaxTime + 1
    BY <1>4 DEF Row
  <2>2. job \in Job /\ job.status = "done"
    BY <2>1 DEF Job
  <2> QED BY <2>1, <2>2, IsRow, Statuses
<1>6. todo \subseteq r.todo
  OBVIOUS
<1> HIDE DEF q, todo, want, job
<1>7. /\ SameSession(q, r) /\ SameJobs(q, r) /\ SameRows(q, r)
      /\ q.claims = r.claims /\ q.looked = r.looked /\ q.called = r.called /\ q.todo = todo
  <2>0. DOMAIN r = Fields
    BY <1>3 DEF Typed
  <2>1. CASE k = Wait
    <3>1. q = [r EXCEPT !.todo = todo, !.item = k, !.key = k, !.pc = "flush", !.want = want,
                 !.insert = FALSE, !.then = "select", !.ended = TRUE, !.job = job]
      BY <1>2, <2>1
    <3>2. SameSession(q, r)
      BY <2>0, <3>1 DEF Fields, SameSession
    <3>3. SameJobs(q, r) /\ SameRows(q, r)
      BY <2>0, <3>1 DEF Fields, SameJobs, SameRows
    <3>4. q.claims = r.claims /\ q.looked = r.looked /\ q.called = r.called /\ q.todo = todo
      BY <2>0, <3>1 DEF Fields
    <3> QED BY <3>2, <3>3, <3>4
  <2>2. CASE k # Wait
    <3>1. q = [r EXCEPT !.todo = todo, !.item = k, !.key = r.n, !.pc = "run", !.replay = TRUE]
      BY <1>2, <2>2
    <3>2. SameSession(q, r) /\ SameJobs(q, r) /\ SameRows(q, r)
      BY <2>0, <3>1 DEF Fields, SameSession, SameJobs, SameRows
    <3>3. q.claims = r.claims /\ q.looked = r.looked /\ q.called = r.called /\ q.todo = todo
      BY <2>0, <3>1 DEF Fields
    <3> QED BY <3>2, <3>3
  <2> QED BY <2>1, <2>2
<1>8. k = Wait => /\ q.item = k /\ q.key = k /\ q.pc = "flush" /\ q.want = want
                  /\ q.insert = FALSE /\ q.then = "select" /\ q.job = job /\ q.ended = TRUE
                  /\ q.replay = r.replay
  <2>0. DOMAIN r = Fields
    BY <1>3 DEF Typed
  <2> SUFFICES ASSUME k = Wait
               PROVE  /\ q.item = k /\ q.key = k /\ q.pc = "flush" /\ q.want = want
                      /\ q.insert = FALSE /\ q.then = "select" /\ q.job = job
                      /\ q.ended = TRUE /\ q.replay = r.replay
    OBVIOUS
  <2>1. q = [r EXCEPT !.todo = todo, !.item = k, !.key = k, !.pc = "flush", !.want = want,
               !.insert = FALSE, !.then = "select", !.ended = TRUE, !.job = job]
    BY <1>2
  <2>2. q.item = k /\ q.key = k /\ q.pc = "flush" /\ q.want = want
    BY <2>0, <2>1 DEF Fields
  <2>3. q.insert = FALSE /\ q.then = "select" /\ q.job = job /\ q.ended = TRUE
    BY <2>0, <2>1 DEF Fields
  <2>4. q.replay = r.replay
    BY <2>0, <2>1 DEF Fields
  <2> QED BY <2>2, <2>3, <2>4
<1>9. k # Wait => /\ SamePlan(q, r) /\ q.item = k /\ q.key = r.n /\ q.pc = "run"
                  /\ q.replay = TRUE
  <2>0. DOMAIN r = Fields
    BY <1>3 DEF Typed
  <2> SUFFICES ASSUME k # Wait
               PROVE  SamePlan(q, r) /\ q.item = k /\ q.key = r.n /\ q.pc = "run" /\ q.replay = TRUE
    OBVIOUS
  <2>1. q = [r EXCEPT !.todo = todo, !.item = k, !.key = r.n, !.pc = "run", !.replay = TRUE]
    BY <1>2
  <2>2. SamePlan(q, r)
    BY <2>0, <2>1 DEF Fields, SamePlan
  <2>3. q.item = k /\ q.key = r.n /\ q.pc = "run" /\ q.replay = TRUE
    BY <2>0, <2>1 DEF Fields
  <2> QED BY <2>2, <2>3
<1>10. Typed(q)
  <2>1. CASE k = Wait
    BY <1>3, <1>4, <1>5, <1>6, <1>7, <1>8, <2>1 DEF Typed, SameSession, SameJobs, SameRows
  <2>2. CASE k # Wait
    <3>1. r.n \in Fresh /\ r.n \in Keys
      <4>1. r.n \in 1 .. begun /\ begun \in 0 .. MaxSessions
        BY <1>1, <1>3 DEF Number, IInv, Types
      <4> QED BY <4>1, Bounds DEF Fresh
    <3> QED BY <1>3, <1>4, <1>6, <1>7, <1>9, <2>2, <3>1
            DEF Typed, SameSession, SameJobs, SameRows, SamePlan
  <2> QED BY <2>1, <2>2
<1> USE DEF q
<1>11. Nested(session[s])'
  <2>1. q.pc # "write" /\ r.pc # "write"
    BY <1>1, <1>8, <1>9
  <2> QED BY <1>1, <1>3, <1>6, <1>7, <2>1 DEF Nested, Reach, SameSession, SameJobs, SameRows, Marking
<1>12. Placed(session[s])'
  <2>1. CASE k = Wait
    BY <1>1, <1>3, <1>4, <1>6, <1>7, <1>8, <2>1
       DEF Placed, SameSession, SameRows, SameJobs, Between, AboutToWrite, Claiming
  <2>2. CASE k # Wait
    BY <1>1, <1>3, <1>4, <1>6, <1>7, <1>9, <2>2
       DEF Placed, SameSession, SameRows, SameJobs, Between, AboutToWrite, Claiming
  <2> QED BY <2>1, <2>2
<1>13. Second(session[s])'
  BY <1>3, <1>4, <1>7 DEF Second, SameSession, SameRows
<1>14. Wanted(session[s])'
  <2>1. CASE k = Wait
    BY <1>4, <1>7, <1>5, <1>8, <2>1 DEF Wanted, SameSession, Between, AboutToWrite
  <2>2. CASE k # Wait
    BY <1>7, <1>3, <1>9, <2>2 DEF Wanted, SameSession, SamePlan, Between, AboutToWrite
  <2> QED BY <2>1, <2>2
<1>15. q.pc \in {"flush", "run"}
  BY <1>8, <1>9
<1>16. Findable(session[s])' /\ Fresher(session[s])'
  <2>0. /\ q.rows = r.rows /\ q.seen = r.seen /\ q.jobs = r.jobs /\ q.seenJobs = r.seenJobs
        /\ q.pc # "write" /\ r.pc \notin Between
    BY <1>1, <1>7, <1>15 DEF SameRows, SameJobs, Between
  <2>1. Findable(session[s])'
    BY <1>1, <1>3, <2>0 DEF Findable
  <2>2. Fresher(session[s])'
    BY <1>1, <1>3, <2>0 DEF Fresher
  <2> QED BY <2>1, <2>2
<1>17. Unsettled(session[s])'
  <2>1. q.pc \in AboutToWrite => q.key = Wait /\ Wait \in r.todo
    BY <1>4, <1>8, <1>9 DEF AboutToWrite
  <2> QED BY <1>1, <1>3, <1>4, <1>6, <1>7, <1>15, <2>1
          DEF Unsettled, SameSession, SameRows, SameJobs, Marking
<1>18. Webhooked(session[s])' /\ WaitDone(session[s])'
  BY <1>1, <1>3, <1>4, <1>7, <1>15 DEF Webhooked, WaitDone, SameSession, SameRows, SameJobs, Between
<1>19. faults' \in 0 .. MaxFaults
  BY <1>1 DEF IInv, Types
<1> QED BY <1>1, <1>7, <1>10, <1>11, <1>12, <1>13, <1>14, <1>15, <1>16, <1>17, <1>18, <1>19,
        QuietStep DEF SameSession, SameRows

\* A key that run goes on with is not settled, unless two sessions have met over it.
LEMMA NotHitUnsettled ==
    ASSUME IInv, NEW s \in Servers, session[s].pc = "run", ~Hit(s),
           session[s].key \notin met
    PROVE  settled[session[s].key] = 0
<1> DEFINE r == session[s]
           k == r.key
<1>1. /\ Typed(r) /\ Fresher(r) /\ Unsettled(r) /\ Placed(r)
  BY InHand
<1>2. SettledRow(k) /\ k \in Keys
  BY <1>1 DEF IInv, Committed, Typed
<1>3. ASSUME settled[k] # 0 PROVE FALSE
  <2>1. k \in DOMAIN rows /\ rows[k].display \in Finals
    BY <1>2, <1>3 DEF SettledRow
  <2>2. CASE k \in DOMAIN r.seen
    <3>1. r.kind # "webhook"
      BY <1>1 DEF Placed
    <3>2. k \notin DOMAIN r.rows
      BY <1>1, <1>2, <1>3, <3>1 DEF Unsettled
    <3>3. r.seen[k] = rows[k]
      BY <1>1, <2>2, <3>2 DEF Fresher
    <3>4. k \in DOMAIN Loaded(s) /\ Loaded(s)[k] = rows[k]
      BY <2>2, <3>3, LoadedFields
    <3> QED BY <2>1, <3>4 DEF Hit, Finals
  <2>3. CASE k \notin DOMAIN r.seen
    <3>1. k \in DOMAIN Loaded(s) /\ Loaded(s)[k] = rows[k]
      BY <2>1, <2>3, LoadedFields
    <3> QED BY <2>1, <3>1 DEF Hit, Finals
  <2> QED BY <2>2, <2>3
<1> QED BY <1>3

\* The identity map after a row is asked for: what was loaded stays, and the row that
\* was not is loaded if there is one.
LEMMA LoadsRow ==
    ASSUME NEW s, NEW k
    PROVE  LET found == Loaded(s)
               old == session[s].seen
               seen == IF k \in DOMAIN found THEN Set(old, k, found[k]) ELSE old
           IN  /\ DOMAIN seen = DOMAIN old \cup ({k} \cap DOMAIN rows)
               /\ \A j \in DOMAIN old : seen[j] = old[j]
               /\ k \in DOMAIN rows \ DOMAIN old => seen[k] = rows[k]
<1> DEFINE found == Loaded(s)
           old == session[s].seen
           seen == IF k \in DOMAIN found THEN Set(old, k, found[k]) ELSE old
<1>1. CASE k \in DOMAIN found
  <2>1. k \in DOMAIN old => found[k] = old[k]
    BY LoadedFields
  <2>2. k \in DOMAIN rows \ DOMAIN old => found[k] = rows[k]
    BY LoadedFields
  <2>3. k \in DOMAIN old \cup DOMAIN rows
    BY <1>1, LoadedFields
  <2>4. seen = Set(old, k, found[k])
    BY <1>1
  <2> HIDE DEF found, seen, old
  <2> QED BY <2>1, <2>2, <2>3, <2>4 DEF Set, found, seen, old
<1>2. CASE k \notin DOMAIN found
  BY <1>2, LoadedFields
<1> QED BY <1>1, <1>2

\* What run leaves in the session: it has the answer already, or a row to write
\* that waits for its slot or shows that the call is under way.
RunLeaves(q, r) ==
    \/ q.pc = "next" /\ SamePlan(q, r)
    \/ /\ q.pc = "save" /\ q.insert = r.insert /\ q.ended = FALSE
       /\ q.want \in Row /\ q.want.status = DbStatus[q.want.display]
       /\ r.key \notin met => settled[r.key] = 0
       /\ \/ q.then = "call" /\ q.job = r.job /\ q.want.display = "SENT"
          \/ /\ q.then = "select" /\ q.job \in Job /\ q.job.status = "pending"
             /\ q.want.display = "SCHEDULED"

\* Run is one of those, and the rest of the session stays but for what it has looked at.
LEMMA RunForms ==
    ASSUME IInv, NEW s \in Servers, Run(s), NEW q, q = session'[s]
    PROVE  LET r == session[s]
               k == r.key
           IN  /\ RunLeaves(q, r) /\ SameSession(q, r) /\ SameItem(q, r) /\ SameJobs(q, r)
               /\ q.claims = r.claims /\ q.todo = r.todo /\ q.called = r.called
               /\ q.rows = r.rows /\ q.looked = r.looked \cup {k}
               /\ DOMAIN q.seen = DOMAIN r.seen \cup ({k} \cap DOMAIN rows)
               /\ \A j \in DOMAIN r.seen : q.seen[j] = r.seen[j]
               /\ k \in DOMAIN rows \ DOMAIN r.seen => q.seen[k] = rows[k]
<1> DEFINE r == session[s]
           k == r.key
           found == Loaded(s)
           slot == IF k \in {Wait, Slot} THEN 1 ELSE r.at
           at == IF k \in Fresh THEN slot + 1 ELSE slot
           looked == r.looked \cup {k}
           seen == IF k \in DOMAIN found THEN Set(r.seen, k, found[k]) ELSE r.seen
           later == Is("SCHEDULED", at)
           job == [status |-> "pending", at |-> at]
           sent == Is("SENT", IF k \in DOMAIN found THEN found[k].at ELSE slot)
<1>1. \/ Hit(s) /\ q = [r EXCEPT !.looked = looked, !.seen = seen, !.pc = "next"]
      \/ ~Hit(s) /\ q = [r EXCEPT !.looked = looked, !.seen = seen, !.pc = "save", !.want = later,
                           !.then = "select", !.ended = FALSE, !.job = job]
      \/ ~Hit(s) /\ q = [r EXCEPT !.looked = looked, !.seen = seen, !.pc = "save", !.then = "call",
                           !.ended = FALSE, !.want = sent]
  BY DEF Run, Become, IInv, Types
<1>2. Typed(r) /\ Placed(r) /\ Number(r) /\ r.pc = "run" /\ Table(rows, Row)
  BY InHand DEF Run, At
<1>3. /\ DOMAIN seen = DOMAIN r.seen \cup ({k} \cap DOMAIN rows)
      /\ \A j \in DOMAIN r.seen : seen[j] = r.seen[j]
      /\ k \in DOMAIN rows \ DOMAIN r.seen => seen[k] = rows[k]
  BY LoadsRow
<1>4. slot \in 0 .. MaxTime + 1 /\ at \in 0 .. MaxTime + 1
  <2>1. k \in {Wait, Slot, r.n} /\ r.at \in 0 .. MaxTime
    BY <1>2 DEF Placed, Typed
  <2> QED BY <2>1, Bounds
<1>5. later \in Row /\ later.status = DbStatus[later.display] /\ later.display = "SCHEDULED"
  BY <1>4, IsRow, Statuses
<1>6. sent \in Row /\ sent.status = DbStatus[sent.display] /\ sent.display = "SENT"
  <2>1. k \in DOMAIN found => found[k] \in Row
    <3>1. /\ k \in DOMAIN r.seen => found[k] = r.seen[k] /\ r.seen[k] \in Row
          /\ k \in DOMAIN rows \ DOMAIN r.seen => found[k] = rows[k] /\ rows[k] \in Row
      BY <1>2, LoadedFields DEF Typed, Table
    <3>2. k \in DOMAIN found => k \in DOMAIN r.seen \cup DOMAIN rows
      BY LoadedFields
    <3> HIDE DEF found
    <3> QED BY <3>1, <3>2
  <2>2. k \in DOMAIN found => found[k].at \in 0 .. MaxTime + 1
    BY <2>1 DEF Row
  <2> QED BY <1>4, <2>2, IsRow, Statuses
<1>7. job \in Job /\ job.status = "pending"
  BY <1>4 DEF Job
<1>8. ~Hit(s) => (k \notin met => settled[k] = 0)
  BY <1>2, NotHitUnsettled
<1> HIDE DEF looked, seen, later, job, sent, found
<1>9. CASE Hit(s) /\ q = [r EXCEPT !.looked = looked, !.seen = seen, !.pc = "next"]
  <2>1. /\ q.pc = "next" /\ SamePlan(q, r) /\ SameSession(q, r) /\ SameItem(q, r) /\ SameJobs(q, r)
        /\ q.claims = r.claims /\ q.todo = r.todo /\ q.called = r.called
        /\ q.rows = r.rows /\ q.looked = looked /\ q.seen = seen
    BY <1>2, <1>9 DEF Typed, Fields, SamePlan, SameSession, SameItem, SameJobs
  <2> QED BY <1>3, <2>1 DEF RunLeaves, looked
<1>10. CASE ~Hit(s) /\ q = [r EXCEPT !.looked = looked, !.seen = seen, !.pc = "save", !.want = later,
                           !.then = "select", !.ended = FALSE, !.job = job]
  <2>1. /\ q.pc = "save" /\ q.insert = r.insert /\ q.ended = FALSE /\ q.want = later
        /\ q.then = "select" /\ q.job = job
        /\ SameSession(q, r) /\ SameItem(q, r) /\ SameJobs(q, r)
        /\ q.claims = r.claims /\ q.todo = r.todo /\ q.called = r.called
        /\ q.rows = r.rows /\ q.looked = looked /\ q.seen = seen
    BY <1>2, <1>10 DEF Typed, Fields, SameSession, SameItem, SameJobs
  <2>2. RunLeaves(q, r)
    BY <1>5, <1>7, <1>8, <1>10, <2>1 DEF RunLeaves
  <2> QED BY <1>3, <2>1, <2>2 DEF looked
<1>11. CASE ~Hit(s) /\ q = [r EXCEPT !.looked = looked, !.seen = seen, !.pc = "save",
                           !.then = "call", !.ended = FALSE, !.want = sent]
  <2>1. /\ q.pc = "save" /\ q.insert = r.insert /\ q.ended = FALSE /\ q.want = sent
        /\ q.then = "call" /\ q.job = r.job
        /\ SameSession(q, r) /\ SameItem(q, r) /\ SameJobs(q, r)
        /\ q.claims = r.claims /\ q.todo = r.todo /\ q.called = r.called
        /\ q.rows = r.rows /\ q.looked = looked /\ q.seen = seen
    BY <1>2, <1>11 DEF Typed, Fields, SameSession, SameItem, SameJobs
  <2>2. RunLeaves(q, r)
    BY <1>6, <1>8, <1>11, <2>1 DEF RunLeaves
  <2> QED BY <1>3, <2>1, <2>2 DEF looked
<1> QED BY <1>1, <1>9, <1>10, <1>11

\* Run looks at the row of the plan, and answers, defers it or goes on to the call.
LEMMA RunStep == ASSUME IInv, NEW s \in Servers, Run(s) PROVE IInv'
<1> DEFINE r == session[s]
           q == session'[s]
           k == r.key
<1>1. /\ r.pc = "run" /\ UNCHANGED <<now, rows, jobs, begun, settled>> /\ faults' = faults
      /\ session' = [session EXCEPT ![s] = q]
  BY DEF Run, Become, At, IInv, Types
<1>2. /\ RunLeaves(q, r) /\ SameSession(q, r) /\ SameItem(q, r) /\ SameJobs(q, r)
      /\ q.claims = r.claims /\ q.todo = r.todo /\ q.called = r.called
      /\ q.rows = r.rows /\ q.looked = r.looked \cup {k}
      /\ DOMAIN q.seen = DOMAIN r.seen \cup ({k} \cap DOMAIN rows)
      /\ \A j \in DOMAIN r.seen : q.seen[j] = r.seen[j]
      /\ k \in DOMAIN rows \ DOMAIN r.seen => q.seen[k] = rows[k]
  BY RunForms
<1>3. /\ Typed(r) /\ Nested(r) /\ Placed(r) /\ Second(r) /\ Wanted(r)
      /\ Findable(r) /\ Fresher(r) /\ Unsettled(r) /\ WaitDone(r) /\ Table(rows, Row)
  BY InHand
<1>4. k \in {Wait, Slot, r.n} /\ k \in Keys /\ r.kind # "webhook"
  BY <1>1, <1>3 DEF Placed, Typed
<1>5. /\ met \subseteq met' /\ met' \subseteq Keys
      /\ \A t \in Servers \ {s} : {k} \cap session[t].looked \subseteq met'
  BY <1>4, LooksFields DEF Run
<1> HIDE DEF q, k
<1>6. k = r.key /\ q.key = k /\ q.pc \in {"next", "save"} /\ q.kind = r.kind /\ q.n = r.n
  BY <1>2 DEF RunLeaves, SameSession, SameItem, k
<1>7. Typed(q)
  <2>1. Table(q.seen, Row)
    BY <1>2, <1>3, <1>4 DEF Typed, Table
  <2>2. q.want \in Row /\ q.then \in {"call", "select", "next"} /\ q.job \in Job
    BY <1>2, <1>3 DEF RunLeaves, SamePlan, Typed
  <2>3. q.insert \in BOOLEAN /\ q.ended \in BOOLEAN
    BY <1>2, <1>3 DEF RunLeaves, SamePlan, Typed
  <2> QED BY <1>2, <1>3, <1>4, <1>6, <2>1, <2>2, <2>3 DEF Typed, SameSession, SameItem, SameJobs
<1> USE DEF q
<1>8. Nested(session[s])'
  <2>1. q.looked \subseteq {Wait, Slot, q.n} \cup DOMAIN rows \cup DOMAIN jobs
    BY <1>2, <1>3, <1>4, <1>6 DEF Nested, Reach
  <2>2. DOMAIN q.seen \subseteq q.looked /\ DOMAIN q.seen \subseteq DOMAIN rows \cup DOMAIN r.rows
    BY <1>2, <1>3 DEF Nested
  <2> QED BY <1>1, <1>2, <1>3, <1>6, <2>1, <2>2 DEF Nested, Reach, SameJobs, Marking
<1>9. Placed(session[s])' /\ Second(session[s])'
  <2>1. Placed(session[s])'
    <3>1. r.kind = "tick" => q.item \in q.looked
      BY <1>1, <1>2, <1>3 DEF Placed, SameItem
    <3> QED BY <1>1, <1>2, <1>3, <1>4, <1>6, <3>1
            DEF Placed, SameJobs, Between, AboutToWrite, Claiming
  <2>2. Second(session[s])'
    BY <1>1, <1>2, <1>3, <1>6 DEF Second, SameJobs
  <2> QED BY <2>1, <2>2
<1>10. Wanted(session[s])'
  BY <1>2, <1>3, <1>4, <1>6, Statuses DEF RunLeaves, SamePlan, Wanted, Between, AboutToWrite
<1>11. Findable(session[s])'
  <2>1. /\ q.rows = r.rows /\ q.jobs = r.jobs /\ q.seenJobs = r.seenJobs
        /\ q.pc # "write" /\ r.pc \notin Between
    BY <1>1, <1>2, <1>6 DEF SameJobs, Between
  <2> QED BY <1>1, <1>3, <2>1 DEF Findable
<1>12. Fresher(session[s])'
  <2>1. k \in DOMAIN rows \ met' => rows[k].status = DbStatus[rows[k].display]
    BY <1>5 DEF IInv, Committed
  <2>2. DOMAIN r.rows \subseteq DOMAIN r.seen
    BY <1>3 DEF Nested
  <2>3. \A j \in DOMAIN q.seen \ met' :
          /\ q.seen[j].status = DbStatus[q.seen[j].display]
          /\ j \in DOMAIN q.rows => q.rows[j] = q.seen[j]
          /\ j \notin DOMAIN q.rows => j \in DOMAIN rows /\ rows[j] = q.seen[j]
    BY <1>2, <1>3, <1>5, <2>1, <2>2 DEF Fresher
  <2>4. \A j \in DOMAIN q.seenJobs \ met' :
          /\ j \in DOMAIN q.jobs => q.jobs[j] = q.seenJobs[j]
          /\ j \notin DOMAIN q.jobs => j \in DOMAIN jobs /\ jobs[j] = q.seenJobs[j]
    BY <1>2, <1>3, <1>5 DEF Fresher, SameJobs
  <2> QED BY <1>1, <2>3, <2>4 DEF Fresher
<1>13. Unsettled(session[s])'
  <2>1. q.pc \in AboutToWrite /\ k \notin met' => settled[k] = 0
    BY <1>2, <1>5, <1>6 DEF RunLeaves, AboutToWrite
  <2> QED BY <1>1, <1>2, <1>3, <1>5, <1>6, <2>1 DEF Unsettled, SameJobs, Marking
<1>14. Webhooked(session[s])' /\ WaitDone(session[s])'
  <2>1. WaitDone(session[s])'
    <3>1. Wait \in DOMAIN r.rows => q.seen[Wait] = r.seen[Wait]
      BY <1>2, <1>3 DEF Nested
    <3> QED BY <1>1, <1>2, <1>3, <1>5, <1>6, <3>1 DEF WaitDone, SameJobs, Between
  <2> QED BY <1>4, <1>6, <2>1 DEF Webhooked
<1>15. faults' \in 0 .. MaxFaults
  BY <1>1 DEF IInv, Types
<1>16. \A t \in Servers \ {s} : q.looked \cap session[t].looked \subseteq met'
  BY <1>2, <1>5 DEF IInv, Apart
<1>17. \A t \in Servers \ {s} : DOMAIN q.rows \cap DOMAIN session[t].rows = {}
  BY <1>2 DEF IInv, Apart
<1> QED BY <1>1, <1>5, <1>6, <1>7, <1>8, <1>9, <1>10, <1>11, <1>12, <1>13, <1>14, <1>15, <1>16,
        <1>17, BecomeStep

\* Save looks for the row again, and is about to insert or update it.
LEMMA SaveStep == ASSUME IInv, NEW s \in Servers, Save(s) PROVE IInv'
<1> DEFINE r == session[s]
           q == session'[s]
           k == r.key
           found == Loaded(s)
           seen == IF k \in DOMAIN found THEN Set(r.seen, k, found[k]) ELSE r.seen
           insert == k \notin DOMAIN found
<1>1. /\ r.pc = "save" /\ UNCHANGED <<now, rows, jobs, begun, settled, met>> /\ faults' = faults
      /\ session' = [session EXCEPT ![s] = q]
  BY DEF Save, Become, At, IInv, Types
<1>2. q = [r EXCEPT !.pc = "flush", !.insert = insert, !.seen = seen]
  BY DEF Save, Become, IInv, Types
<1>3. /\ Typed(r) /\ Nested(r) /\ Placed(r) /\ Second(r) /\ Wanted(r)
      /\ Findable(r) /\ Fresher(r) /\ Unsettled(r) /\ WaitDone(r) /\ Table(rows, Row)
  BY InHand
<1>4. /\ DOMAIN seen = DOMAIN r.seen \cup ({k} \cap DOMAIN rows)
      /\ \A j \in DOMAIN r.seen : seen[j] = r.seen[j]
      /\ k \in DOMAIN rows \ DOMAIN r.seen => seen[k] = rows[k]
  BY LoadsRow
<1>5. insert \in BOOLEAN /\ (~insert => k \in DOMAIN seen)
  <2>1. DOMAIN found = DOMAIN rows \cup DOMAIN r.seen
    BY LoadedFields
  <2> QED BY <1>4, <2>1
<1> HIDE DEF q, seen, insert
<1>6. /\ SameSession(q, r) /\ SameItem(q, r) /\ SameWork(q, r) /\ SameJobs(q, r)
      /\ q.pc = "flush" /\ q.insert = insert /\ q.seen = seen /\ q.rows = r.rows
      /\ q.want = r.want /\ q.then = r.then /\ q.job = r.job /\ q.ended = r.ended
      /\ q.called = r.called
  BY <1>2, <1>3 DEF Typed, Fields, SameSession, SameItem, SameWork, SameJobs
<1>7. r.kind # "webhook" /\ k \in r.looked /\ k \in Keys
  BY <1>1, <1>3 DEF Placed, AboutToWrite, Typed
<1>8. Typed(q)
  <2>1. Table(q.seen, Row)
    BY <1>3, <1>4, <1>6, <1>7 DEF Typed, Table
  <2> QED BY <1>3, <1>5, <1>6, <2>1 DEF Typed, SameSession, SameItem, SameWork, SameJobs
<1> USE DEF q
<1>9. Nested(session[s])'
  <2>1. DOMAIN q.seen \subseteq q.looked /\ DOMAIN q.seen \subseteq DOMAIN rows \cup DOMAIN r.rows
    BY <1>3, <1>4, <1>6, <1>7 DEF Nested, SameWork
  <2>2. DOMAIN q.rows \subseteq DOMAIN q.seen
    BY <1>3, <1>4, <1>6 DEF Nested
  <2>3. rows' = rows /\ jobs' = jobs /\ q.pc # "write"
    BY <1>1, <1>6
  <2> QED BY <1>1, <1>3, <1>6, <2>1, <2>2, <2>3
          DEF Nested, Reach, SameSession, SameWork, SameJobs, SameItem, Marking
<1>10. Placed(session[s])' /\ Second(session[s])' /\ Wanted(session[s])'
  <2>1. Placed(session[s])'
    BY <1>1, <1>3, <1>4, <1>5, <1>6, <1>7
       DEF Placed, SameSession, SameWork, SameJobs, SameItem, Between, AboutToWrite, Claiming
  <2>2. Second(session[s])'
    BY <1>1, <1>3, <1>6 DEF Second, SameSession, SameJobs, SameItem
  <2>3. Wanted(session[s])'
    BY <1>1, <1>3, <1>6 DEF Wanted, SameSession, SameItem, AboutToWrite, Between
  <2> QED BY <2>1, <2>2, <2>3
<1>11. Findable(session[s])'
  BY <1>1, <1>3, <1>6 DEF Findable, SameJobs, SameItem, Between
<1>12. Fresher(session[s])'
  <2>1. k \in DOMAIN rows \ met => rows[k].status = DbStatus[rows[k].display]
    BY DEF IInv, Committed
  <2>2. DOMAIN r.rows \subseteq DOMAIN r.seen
    BY <1>3 DEF Nested
  <2>3. \A j \in DOMAIN q.seen \ met :
          /\ q.seen[j].status = DbStatus[q.seen[j].display]
          /\ j \in DOMAIN q.rows => q.rows[j] = q.seen[j]
          /\ j \notin DOMAIN q.rows => j \in DOMAIN rows /\ rows[j] = q.seen[j]
    BY <1>3, <1>4, <1>6, <2>1, <2>2 DEF Fresher
  <2>4. \A j \in DOMAIN q.seenJobs \ met :
          /\ j \in DOMAIN q.jobs => q.jobs[j] = q.seenJobs[j]
          /\ j \notin DOMAIN q.jobs => j \in DOMAIN jobs /\ jobs[j] = q.seenJobs[j]
    BY <1>3, <1>6 DEF Fresher, SameJobs
  <2> QED BY <1>1, <2>3, <2>4 DEF Fresher
<1>13. Unsettled(session[s])'
  BY <1>1, <1>3, <1>6 DEF Unsettled, SameSession, SameWork, SameJobs, SameItem, AboutToWrite, Marking
<1>14. Webhooked(session[s])' /\ WaitDone(session[s])'
  <2>1. WaitDone(session[s])'
    <3>1. Wait \in DOMAIN r.rows => q.seen[Wait] = r.seen[Wait]
      BY <1>3, <1>4, <1>6 DEF Nested
    <3> QED BY <1>1, <1>3, <1>6, <3>1 DEF WaitDone, SameSession, SameJobs, Between
  <2> QED BY <1>6, <1>7, <2>1 DEF Webhooked, SameSession
<1>15. faults' \in 0 .. MaxFaults
  BY <1>1 DEF IInv, Types
<1> QED BY <1>1, <1>6, <1>8, <1>9, <1>10, <1>11, <1>12, <1>13, <1>14, <1>15, QuietStep
        DEF SameSession, SameWork

\* A flush fails, or writes the row that was wanted and holds it.
LEMMA FlushStep == ASSUME IInv, NEW s \in Servers, Flush(s) PROVE IInv'
<1> DEFINE r == session[s]
           q == session'[s]
           k == r.key
           row == IF k \in DOMAIN r.rows THEN r.rows[k] ELSE rows[k]
           new == IF r.insert THEN r.want ELSE MergedRow(row, r.seen[k], r.want)
           seen == Set(r.seen, k, r.want)
           held == Set(r.rows, k, new)
<1>1. r.pc = "flush" /\ RowHeld(s, k) = {}
  BY BlockersOf DEF Flush, At
<1>2. CASE r.insert /\ k \in DOMAIN rows
  <2>1. session' = [session EXCEPT ![s] = Closed]
        /\ UNCHANGED <<now, rows, jobs, begun, settled, met, faults>>
    BY <1>2 DEF Flush, RollBack
  <2>2. faults' \in 0 .. MaxFaults
    BY <2>1 DEF IInv, Types
  <2> QED BY <2>1, <2>2, CloseStep
<1>3. CASE ~(r.insert /\ k \in DOMAIN rows)
  <2>1. /\ UNCHANGED <<now, rows, jobs, begun, settled, met>> /\ faults' = faults
        /\ session' = [session EXCEPT ![s] = q]
    BY <1>3 DEF Flush, Become, IInv, Types
  <2>2. q = [r EXCEPT !.pc = r.then, !.seen = seen, !.rows = held]
    BY <1>3 DEF Flush, Become, Written, IInv, Types
  <2>3. /\ Typed(r) /\ Nested(r) /\ Placed(r) /\ Second(r) /\ Wanted(r)
        /\ Findable(r) /\ Fresher(r) /\ Unsettled(r) /\ Webhooked(r) /\ WaitDone(r)
        /\ Table(rows, Row)
    BY InHand
  <2>4. /\ k \in Keys /\ k \in r.looked /\ r.want \in Row
        /\ ~r.insert => k \in DOMAIN r.seen
    BY <1>1, <2>3 DEF Placed, Typed, AboutToWrite
  <2>5. /\ new \in Row /\ new.display = r.want.display
        /\ k \notin met => new = r.want
    <3>1. CASE r.insert
      BY <2>4, <3>1
    <3>2. CASE ~r.insert
      <4>1. k \in DOMAIN r.seen /\ r.seen[k] \in Row
        BY <2>3, <2>4, <3>2 DEF Typed, Table
      <4>2. row \in Row
        BY <2>3, <4>1 DEF Nested, Typed, Table
      <4>3. k \notin met => row = r.seen[k]
        BY <2>3, <4>1 DEF Fresher
      <4>4. new = MergedRow(row, r.seen[k], r.want)
        BY <3>2
      <4> HIDE DEF new, row
      <4> QED BY <2>4, <4>1, <4>2, <4>3, <4>4, MergedRowFields
    <3> QED BY <3>1, <3>2
  <2> HIDE DEF q, seen, held, new, row
  <2>6. /\ DOMAIN seen = DOMAIN r.seen \cup {k} /\ seen[k] = r.want
        /\ \A j \in DOMAIN r.seen : j # k => seen[j] = r.seen[j]
        /\ DOMAIN held = DOMAIN r.rows \cup {k} /\ held[k] = new
        /\ \A j \in DOMAIN r.rows : j # k => held[j] = r.rows[j]
    BY DEF Set, seen, held
  <2>7. /\ SameSession(q, r) /\ SameItem(q, r) /\ SameWork(q, r) /\ SamePlan(q, r)
        /\ SameJobs(q, r) /\ q.called = r.called
        /\ q.pc = r.then /\ q.seen = seen /\ q.rows = held
    BY <2>2, <2>3
       DEF Typed, Fields, SameSession, SameItem, SameWork, SamePlan, SameJobs
  <2>8. q.pc \in {"call", "select", "next"} /\ (q.pc = "next" <=> r.kind = "webhook")
    BY <1>1, <2>3, <2>7 DEF Typed, Wanted, AboutToWrite
  <2>9. Typed(q)
    <3>1. Table(seen, Row) /\ Table(held, Row)
      BY <2>3, <2>4, <2>5, <2>6 DEF Typed, Table
    <3> QED BY <2>3, <2>7, <2>8, <3>1
            DEF Typed, SameSession, SameItem, SameWork, SamePlan, SameJobs
  <2> USE DEF q
  <2>10. Nested(session[s])'
    <3>1. /\ DOMAIN q.rows \subseteq DOMAIN q.seen /\ DOMAIN q.seen \subseteq q.looked
          /\ DOMAIN q.seen \subseteq DOMAIN rows \cup DOMAIN q.rows
      BY <2>3, <2>4, <2>6, <2>7 DEF Nested, SameWork
    <3> QED BY <1>1, <2>1, <2>3, <2>7, <2>8, <3>1
            DEF Nested, Reach, SameSession, SameWork, SameJobs, SameItem, Marking
  <2>11. Placed(session[s])'
    <3>1. /\ q.kind = r.kind /\ q.n = r.n /\ q.key = r.key /\ q.claims = r.claims
          /\ q.todo = r.todo /\ q.seenJobs = r.seenJobs
      BY <2>7 DEF SameSession, SameItem, SameWork, SameJobs
    <3>2. q.pc \notin {"idle", "claim", "run", "save", "flush", "write"} /\ q.pc \notin AboutToWrite
      BY <2>8 DEF AboutToWrite
    <3>3. DOMAIN r.seen \subseteq DOMAIN q.seen /\ r.key \in DOMAIN q.rows
      BY <2>6, <2>7
    <3>4. r.claims = {} /\ r.todo \subseteq DOMAIN r.seen /\ (r.kind # "tick" => r.todo = {})
      BY <1>1, <2>3 DEF Placed, Claiming
    <3>5. r.kind = "tick" => r.key \in {r.n, Wait}
      BY <1>1, <2>3 DEF Placed
    <3>6. r.kind = "tick" => q.item \in q.looked
      BY <1>1, <2>3, <2>7 DEF Placed, SameItem, SameWork
    <3> QED BY <2>8, <3>1, <3>2, <3>3, <3>4, <3>5, <3>6 DEF Placed, Between, Claiming
  <2>12. Second(session[s])'
    BY <1>1, <2>3, <2>6, <2>7, <2>8 DEF Second, SameSession, SameJobs, SameItem
  <2>13. Wanted(session[s])'
    <3>1. /\ q.kind = r.kind /\ q.key = r.key /\ q.want = r.want /\ q.then = r.then
          /\ q.job = r.job /\ q.pc = r.then
      BY <2>7 DEF SameSession, SameItem, SamePlan
    <3>2. q.rows[q.key].display = q.want.display /\ q.seen[q.key] = q.want
      BY <2>5, <2>6, <2>7, <3>1
    <3>3. q.pc \notin AboutToWrite /\ r.pc \in AboutToWrite
      BY <1>1, <2>8 DEF AboutToWrite
    <3>4. /\ r.want.status = DbStatus[r.want.display]
          /\ r.kind = "webhook" => r.then = "next"
          /\ r.then = "call" => r.want.display = "SENT"
          /\ r.then = "select" /\ r.job.status = "done" => r.want.display = "SUCCESS" /\ r.key = Wait
          /\ r.then = "select" /\ r.job.status # "done" =>
                r.want.display = "SCHEDULED" /\ r.job.status = "pending"
      BY <2>3, <3>3 DEF Wanted
    <3> QED BY <2>8, <3>1, <3>2, <3>3, <3>4 DEF Wanted, Between, Waiting
  <2>14. Findable(session[s])'
    <3>1. q.pc \in {"call", "next"} => new.display \notin Waiting
      BY <1>1, <2>3, <2>5, <2>7 DEF Wanted, AboutToWrite, Waiting
    <3>2. /\ q.jobs = r.jobs /\ q.seenJobs = r.seenJobs /\ q.key = k /\ q.pc # "write"
          /\ q.rows = held /\ r.pc \notin Between
          /\ q.pc \notin Between => q.pc \in {"call", "next"}
      BY <1>1, <2>7, <2>8 DEF SameJobs, SameItem, Between
    <3>3. ASSUME NEW j \in DOMAIN q.rows, q.rows[j].display \in Waiting,
                 ~(j = q.key /\ q.pc \in Between)
          PROVE  \/ q.rows[j].status = "SCHEDULED"
                 \/ j \in DOMAIN q.jobs /\ q.jobs[j].status # "done"
      <4>1. j # k
        BY <2>6, <3>1, <3>2, <3>3
      <4>2. j \in DOMAIN r.rows /\ q.rows[j] = r.rows[j]
        BY <2>6, <3>2, <3>3, <4>1
      <4>3. r.rows[j].status = "SCHEDULED" \/ (j \in DOMAIN r.jobs /\ r.jobs[j].status # "done")
        <5>1. Findable(r)
          BY <2>3
        <5> QED BY <3>2, <3>3, <4>2, <5>1 DEF Findable
      <4> QED BY <3>2, <4>2, <4>3
    <3>4. ASSUME NEW j \in DOMAIN q.jobs
          PROVE  /\ q.jobs[j].status = "done" => j \in DOMAIN q.rows
                 /\ q.seenJobs[j].status = "pending" => q.jobs[j].status # "done"
      BY <2>3, <2>6, <3>2, <3>4 DEF Findable
    <3> QED BY <3>2, <3>3, <3>4 DEF Findable
  <2>15. Fresher(session[s])'
    <3>1. \A j \in DOMAIN q.seen \ met :
            /\ q.seen[j].status = DbStatus[q.seen[j].display]
            /\ j \in DOMAIN q.rows => q.rows[j] = q.seen[j]
            /\ j \notin DOMAIN q.rows => j \in DOMAIN rows /\ rows[j] = q.seen[j]
      <4> SUFFICES ASSUME NEW j \in DOMAIN q.seen \ met
                   PROVE  /\ q.seen[j].status = DbStatus[q.seen[j].display]
                          /\ j \in DOMAIN q.rows => q.rows[j] = q.seen[j]
                          /\ j \notin DOMAIN q.rows => j \in DOMAIN rows /\ rows[j] = q.seen[j]
        OBVIOUS
      <4>1. CASE j = k
        <5>1. r.want.status = DbStatus[r.want.display]
          BY <2>3 DEF Wanted
        <5> QED BY <2>5, <2>6, <2>7, <4>1, <5>1
      <4>2. CASE j # k
        <5>1. /\ j \in DOMAIN r.seen \ met /\ q.seen[j] = r.seen[j]
              /\ j \in DOMAIN q.rows <=> j \in DOMAIN r.rows
              /\ j \in DOMAIN r.rows => q.rows[j] = r.rows[j]
          BY <2>6, <2>7, <4>2
        <5> QED BY <2>3, <5>1, SeenIsFresh
      <4> QED BY <4>1, <4>2
    <3>2. \A j \in DOMAIN q.seenJobs \ met :
            /\ j \in DOMAIN q.jobs => q.jobs[j] = q.seenJobs[j]
            /\ j \notin DOMAIN q.jobs => j \in DOMAIN jobs /\ jobs[j] = q.seenJobs[j]
      BY <2>3, <2>7 DEF Fresher, SameJobs
    <3> QED BY <2>1, <3>1, <3>2 DEF Fresher
  <2>16. Unsettled(session[s])'
    BY <1>1, <2>1, <2>3, <2>6, <2>7, <2>8
       DEF Unsettled, SameSession, SameWork, SameJobs, SameItem, AboutToWrite, Marking
  <2>17. Webhooked(session[s])'
    BY <1>1, <2>1, <2>3, <2>5, <2>6, <2>7, <2>8 DEF Webhooked, SameSession, SameJobs
  <2>18. WaitDone(session[s])'
    <3>1. q.kind # "webhook" /\ q.pc \notin Between => q.pc = "call" /\ r.want.display = "SENT"
      BY <1>1, <2>3, <2>7, <2>8 DEF Wanted, Between, AboutToWrite, SameSession
    <3>2. \A j \in DOMAIN q.rows : j # k => j \in DOMAIN r.rows /\ q.seen[j] = r.seen[j]
      BY <2>3, <2>6, <2>7 DEF Nested
    <3>3. q.seen[k] = r.want /\ r.pc \notin Between /\ q.key = k
      BY <1>1, <2>6, <2>7 DEF Between, SameItem
    <3> QED BY <2>1, <2>3, <2>7, <3>1, <3>2, <3>3 DEF WaitDone, SameSession, SameJobs
  <2>19. faults' \in 0 .. MaxFaults /\ met \subseteq met' /\ met' \subseteq Keys
    BY <2>1 DEF IInv, Types
  <2>20. \A t \in Servers \ {s} : q.looked \cap session[t].looked \subseteq met'
    BY <2>1, <2>7 DEF IInv, Apart, SameWork
  <2>21. \A t \in Servers \ {s} : DOMAIN q.rows \cap DOMAIN session[t].rows = {}
    <3>1. \A t \in Servers \ {s} : k \notin DOMAIN session[t].rows
      BY <1>1 DEF RowHeld
    <3> QED BY <2>6, <2>7, <3>1 DEF IInv, Apart
  <2>22. q.n = r.n /\ q.pc # "idle"
    BY <2>7, <2>8 DEF SameSession
  <2> QED BY <1>1, <2>1, <2>9, <2>10, <2>11, <2>12, <2>13, <2>14, <2>15, <2>16, <2>17, <2>18,
          <2>19, <2>20, <2>21, <2>22, BecomeStep
<1> QED BY <1>2, <1>3

\* What a row shows after its call is over, or its wait, and what its job becomes.
LEMMA AnswerStep ==
    ASSUME IInv, NEW s \in Servers, session[s].pc = "call",
           NEW want \in Row, NEW job \in Job, NEW ended \in BOOLEAN,
           NEW called, called \subseteq session[s].called \cup {session[s].key},
           want.status = DbStatus[want.display],
           job.status = "done" => want.display \notin Waiting,
           job.status # "done" => job.status = "pending" /\ want.display # "SUCCESS",
           LET r == session[s]
               k == r.key
           IN  Become(s, [r EXCEPT !.pc = "select", !.want = want, !.ended = ended, !.job = job,
                            !.called = called, !.seen = Set(r.seen, k, want),
                            !.rows = Set(r.rows, k, MergedRow(r.rows[k], r.seen[k], want))]),
           UNCHANGED met
    PROVE  IInv'
<1> DEFINE r == session[s]
           q == session'[s]
           k == r.key
           new == MergedRow(r.rows[k], r.seen[k], want)
           seen == Set(r.seen, k, want)
           held == Set(r.rows, k, new)
<1>1. /\ UNCHANGED <<now, rows, jobs, begun, settled, met>> /\ faults' = faults
      /\ session' = [session EXCEPT ![s] = q]
  BY DEF Become, IInv, Types
<1>2. q = [r EXCEPT !.pc = "select", !.want = want, !.ended = ended, !.job = job,
                    !.called = called, !.seen = seen, !.rows = held]
  BY DEF Become, IInv, Types
<1>3. /\ Typed(r) /\ Nested(r) /\ Placed(r) /\ Second(r) /\ Wanted(r)
      /\ Findable(r) /\ Fresher(r) /\ Unsettled(r) /\ Webhooked(r) /\ WaitDone(r)
  BY InHand
<1>4. /\ k \in Keys /\ k \in DOMAIN r.rows /\ k \in DOMAIN r.seen
      /\ r.rows[k] \in Row /\ r.seen[k] \in Row /\ r.kind # "webhook"
  BY <1>3 DEF Placed, Typed, Table, Nested
<1>5. /\ new \in Row /\ new.display = want.display
      /\ k \notin met => new = want
  <2>1. k \notin met => r.rows[k] = r.seen[k]
    BY <1>3, <1>4 DEF Fresher
  <2> QED BY <1>4, <2>1, MergedRowFields
<1> HIDE DEF q, seen, held, new
<1>6. /\ DOMAIN seen = DOMAIN r.seen /\ seen[k] = want
      /\ \A j \in DOMAIN r.seen : j # k => seen[j] = r.seen[j]
      /\ DOMAIN held = DOMAIN r.rows /\ held[k] = new
      /\ \A j \in DOMAIN r.rows : j # k => held[j] = r.rows[j]
  BY <1>4 DEF Set, seen, held
<1>7. /\ SameSession(q, r) /\ SameItem(q, r) /\ SameWork(q, r) /\ SameJobs(q, r)
      /\ q.pc = "select" /\ q.want = want /\ q.ended = ended /\ q.job = job
      /\ q.insert = r.insert /\ q.then = r.then
      /\ q.called = called /\ q.seen = seen /\ q.rows = held
  BY <1>2, <1>3 DEF Typed, Fields, SameSession, SameItem, SameWork, SameJobs
<1>8. Typed(q)
  <2>1. Table(seen, Row) /\ Table(held, Row)
    BY <1>3, <1>4, <1>5, <1>6 DEF Typed, Table
  <2>2. called \subseteq Keys
    BY <1>3, <1>4 DEF Typed
  <2> QED BY <1>3, <1>7, <2>1, <2>2 DEF Typed, SameSession, SameItem, SameWork, SameJobs
<1> USE DEF q
<1>9. Nested(session[s])'
  BY <1>1, <1>3, <1>6, <1>7 DEF Nested, Reach, SameSession, SameWork, SameJobs, SameItem, Marking
<1>10. Placed(session[s])'
  BY <1>3, <1>4, <1>6, <1>7
     DEF Placed, SameSession, SameWork, SameJobs, SameItem, Between, AboutToWrite, Claiming
<1>11. Second(session[s])'
  BY <1>3, <1>4, <1>6, <1>7 DEF Second, SameSession, SameJobs, SameItem
<1>12. Wanted(session[s])'
  BY <1>3, <1>4, <1>5, <1>6, <1>7
     DEF Wanted, SameSession, SameItem, Between, AboutToWrite, Waiting
<1>13. Findable(session[s])'
  <2>0. /\ q.rows = held /\ q.jobs = r.jobs /\ q.seenJobs = r.seenJobs /\ q.key = k
        /\ q.pc = "select" /\ q.pc \in Between
    BY <1>7 DEF SameJobs, SameItem, Between
  <2>1. ASSUME NEW j \in DOMAIN q.rows, q.rows[j].display \in Waiting, j # k
        PROVE  q.rows[j].status = "SCHEDULED" \/ (j \in DOMAIN q.jobs /\ q.jobs[j].status # "done")
    <3>1. j \in DOMAIN r.rows /\ q.rows[j] = r.rows[j]
      BY <1>6, <2>0, <2>1
    <3> QED BY <1>3, <2>0, <2>1, <3>1 DEF Findable
  <2>2. ASSUME NEW j \in DOMAIN q.jobs
        PROVE  /\ q.jobs[j].status = "done" => j \in DOMAIN q.rows
               /\ q.seenJobs[j].status = "pending" => q.jobs[j].status # "done"
    BY <1>3, <1>6, <2>0, <2>2 DEF Findable
  <2> QED BY <2>0, <2>1, <2>2 DEF Findable
<1>14. Fresher(session[s])'
  <2>1. \A j \in DOMAIN q.seen \ met :
          /\ q.seen[j].status = DbStatus[q.seen[j].display]
          /\ j \in DOMAIN q.rows => q.rows[j] = q.seen[j]
          /\ j \notin DOMAIN q.rows => j \in DOMAIN rows /\ rows[j] = q.seen[j]
    <3>1. TAKE j \in DOMAIN q.seen \ met
    <3>2. CASE j = k
      BY <1>4, <1>5, <1>6, <1>7, <3>2
    <3>3. CASE j # k
      <4>1. /\ j \in DOMAIN r.seen \ met /\ q.seen[j] = r.seen[j]
            /\ j \in DOMAIN q.rows <=> j \in DOMAIN r.rows
            /\ j \in DOMAIN r.rows => q.rows[j] = r.rows[j]
        BY <1>6, <1>7, <3>3
      <4>2. /\ r.seen[j].status = DbStatus[r.seen[j].display]
            /\ j \in DOMAIN r.rows => r.rows[j] = r.seen[j]
            /\ j \notin DOMAIN r.rows => j \in DOMAIN rows /\ rows[j] = r.seen[j]
        BY <1>3, <4>1 DEF Fresher
      <4> QED BY <4>1, <4>2
    <3> QED BY <3>2, <3>3
  <2>2. \A j \in DOMAIN q.seenJobs \ met :
          /\ j \in DOMAIN q.jobs => q.jobs[j] = q.seenJobs[j]
          /\ j \notin DOMAIN q.jobs => j \in DOMAIN jobs /\ jobs[j] = q.seenJobs[j]
    BY <1>3, <1>7 DEF Fresher, SameJobs
  <2> QED BY <1>1, <2>1, <2>2 DEF Fresher
<1>15. Unsettled(session[s])' /\ Webhooked(session[s])'
  BY <1>1, <1>3, <1>4, <1>6, <1>7
     DEF Unsettled, Webhooked, SameSession, SameWork, SameJobs, SameItem, AboutToWrite, Marking
<1>16. WaitDone(session[s])'
  <2>1. k # Wait /\ Wait \in DOMAIN r.rows => seen[Wait] = r.seen[Wait]
    BY <1>3, <1>6 DEF Nested
  <2> QED BY <1>1, <1>3, <1>6, <1>7, <2>1 DEF WaitDone, SameSession, SameJobs, SameItem, Between
<1>17. faults' \in 0 .. MaxFaults
  BY <1>1 DEF IInv, Types
<1> QED BY <1>1, <1>6, <1>7, <1>8, <1>9, <1>10, <1>11, <1>12, <1>13, <1>14, <1>15, <1>16, <1>17,
        QuietStep DEF SameSession, SameWork

\* A wait that is replayed is over.
LEMMA EndWaitStep == ASSUME IInv, NEW s \in Servers, EndWait(s) PROVE IInv'
<1> DEFINE r == session[s]
           want == Is("SUCCESS", r.want.at)
           job == [status |-> "done", at |-> r.want.at]
<1>1. Typed(r) /\ r.pc = "call" /\ r.key = Wait /\ UNCHANGED met
  BY InHand DEF EndWait, At
<1>2. r.want.at \in 0 .. MaxTime + 1
  BY <1>1 DEF Typed, Row
<1>3. want \in Row /\ want.status = DbStatus[want.display] /\ want.display = "SUCCESS"
  BY <1>2, IsRow, Statuses
<1>4. job \in Job /\ job.status = "done"
  BY <1>2 DEF Job
<1>5. r.called \subseteq r.called \cup {r.key}
  OBVIOUS
<1>6. Become(s, [r EXCEPT !.pc = "select", !.want = want, !.ended = TRUE, !.job = job,
                   !.called = r.called, !.seen = Set(r.seen, r.key, want),
                   !.rows = Set(r.rows, r.key, MergedRow(r.rows[r.key], r.seen[r.key], want))])
  <2>1. [r EXCEPT !.pc = "select", !.want = want, !.ended = TRUE, !.job = job,
                  !.seen = Set(r.seen, Wait, want),
                  !.rows = Set(r.rows, Wait, MergedRow(r.rows[Wait], r.seen[Wait], want))]
        = [r EXCEPT !.pc = "select", !.want = want, !.ended = TRUE, !.job = job,
                  !.called = r.called, !.seen = Set(r.seen, Wait, want),
                  !.rows = Set(r.rows, Wait, MergedRow(r.rows[Wait], r.seen[Wait], want))]
    BY <1>1 DEF Typed, Fields
  <2> QED BY <1>1, <2>1 DEF EndWait
<1>7. want.display \notin Waiting
  BY <1>3 DEF Waiting
<1> HIDE DEF want, job
<1> QED BY <1>1, <1>3, <1>4, <1>5, <1>6, <1>7, AnswerStep

\* An answer leaves ended as it is.
LEMMA EndedKept ==
    ASSUME NEW r, DOMAIN r = Fields, NEW want, NEW job, NEW called, NEW seen, NEW held
    PROVE  [r EXCEPT !.pc = "select", !.want = want, !.called = called, !.job = job,
                     !.seen = seen, !.rows = held]
           = [r EXCEPT !.pc = "select", !.want = want, !.ended = r.ended, !.job = job,
                       !.called = called, !.seen = seen, !.rows = held]
<1> DEFINE a == [r EXCEPT !.pc = "select", !.want = want, !.called = called, !.job = job,
                          !.seen = seen, !.rows = held]
           b == [r EXCEPT !.pc = "select", !.want = want, !.ended = r.ended, !.job = job,
                          !.called = called, !.seen = seen, !.rows = held]
<1>1. a = [f \in Fields |-> a[f]]
  OBVIOUS
<1>2. b = [f \in Fields |-> b[f]]
  OBVIOUS
<1>3. ASSUME NEW f \in Fields PROVE a[f] = b[f]
  <2>1. CASE f \in {"pc", "want", "called", "job", "seen", "rows"}
    BY <2>1 DEF Fields
  <2>2. CASE f = "ended"
    BY <2>2
  <2>3. CASE f \notin {"pc", "want", "called", "job", "seen", "rows", "ended"}
    BY <2>3
  <2> QED BY <2>1, <2>2, <2>3
<1> HIDE DEF a, b
<1>4. a = b
  BY <1>1, <1>2, <1>3
<1> QED BY <1>4 DEF a, b

\* The call is answered, and the message with it is delivered, skipped or limited.
LEMMA CallStep == ASSUME IInv, NEW s \in Servers, Call(s) PROVE IInv'
<1> DEFINE r == session[s]
<1>0. PICK display \in {"SUCCESS", "FAILED", "RETRYING"} : Become(s, Answered(r, display))
  <2>1. \A answer, delivery : Displays(answer, delivery) \subseteq {"SUCCESS", "FAILED", "RETRYING"}
    BY DEF Displays
  <2> QED BY <2>1 DEF Call
<1> DEFINE at == IF display = "RETRYING" THEN r.at + 1 ELSE r.want.at
           want == Is(display, at)
           job == [status |-> IF display = "RETRYING" THEN "pending" ELSE "done", at |-> at]
           called == r.called \cup {r.key}
<1>1. Typed(r) /\ r.pc = "call" /\ UNCHANGED met
  BY InHand DEF Call, At
<1>2. at \in 0 .. MaxTime + 1
  <2>1. r.want.at \in 0 .. MaxTime + 1 /\ r.at + 1 \in 0 .. MaxTime + 1
    BY <1>1, Bounds DEF Typed, Row
  <2> QED BY <2>1
<1>3. want \in Row /\ want.status = DbStatus[want.display] /\ want.display = display
  BY <1>2, IsRow, Statuses
<1>4. job \in Job /\ (job.status = "done" <=> display # "RETRYING")
      /\ (job.status # "done" => job.status = "pending")
  <2>1. CASE display = "RETRYING"
    BY <1>2, <2>1 DEF Job
  <2>2. CASE display # "RETRYING"
    BY <1>2, <2>2 DEF Job
  <2> QED BY <2>1, <2>2
<1>5. Become(s, [r EXCEPT !.pc = "select", !.want = want, !.ended = r.ended, !.job = job,
                   !.called = called, !.seen = Set(r.seen, r.key, want),
                   !.rows = Set(r.rows, r.key, MergedRow(r.rows[r.key], r.seen[r.key], want))])
  <2>1. Answered(r, display) =
          [r EXCEPT !.pc = "select", !.want = want, !.called = called, !.job = job,
                    !.seen = Set(r.seen, r.key, want),
                    !.rows = Set(r.rows, r.key, MergedRow(r.rows[r.key], r.seen[r.key], want))]
    BY DEF Answered
  <2>2. Answered(r, display) =
          [r EXCEPT !.pc = "select", !.want = want, !.ended = r.ended, !.job = job,
                    !.called = called, !.seen = Set(r.seen, r.key, want),
                    !.rows = Set(r.rows, r.key, MergedRow(r.rows[r.key], r.seen[r.key], want))]
    <3>1. DOMAIN r = Fields
      BY <1>1 DEF Typed
    <3> HIDE DEF r, want, job, called
    <3> QED BY <2>1, <3>1, EndedKept
  <2> QED BY <1>0, <2>2
<1>6. /\ job.status = "done" => want.display \notin Waiting
      /\ job.status # "done" => job.status = "pending" /\ want.display # "SUCCESS"
  BY <1>3, <1>4 DEF Waiting
<1>7. called \subseteq r.called \cup {r.key} /\ r.ended \in BOOLEAN
  BY <1>1 DEF Typed
<1> HIDE DEF want, job, called
<1> QED BY <1>1, <1>3, <1>4, <1>5, <1>6, <1>7, AnswerStep

\* A tick is done with a row without writing its job.
LEMMA GivesUpStep ==
    ASSUME IInv, NEW s \in Servers, session[s].kind = "tick", session[s].pc \in {"call", "release"},
           NEW pc \in {"release", "next"}, NEW called \in SUBSET Keys,
           called \subseteq session[s].called \cup DOMAIN session[s].rows,
           UNCHANGED <<now, rows, jobs, begun, settled, met>>, faults' \in 0 .. MaxFaults,
           session' = [session EXCEPT ![s] = [session[s] EXCEPT !.pc = pc, !.called = called]]
    PROVE  IInv'
<1> DEFINE r == session[s]
           q == session'[s]
<1>1. session' = [session EXCEPT ![s] = q] /\ q = [r EXCEPT !.pc = pc, !.called = called]
  BY DEF IInv, Types
<1>2. /\ Typed(r) /\ Nested(r) /\ Placed(r) /\ Second(r) /\ Wanted(r)
      /\ Findable(r) /\ Fresher(r) /\ Unsettled(r) /\ WaitDone(r)
  BY InHand
<1>3. r.kind = "tick" /\ r.pc \in {"call", "release"}
  OBVIOUS
<1> HIDE DEF q, r
<1>4. /\ SameSession(q, r) /\ SameItem(q, r) /\ SameWork(q, r) /\ SamePlan(q, r)
      /\ SameRows(q, r) /\ SameJobs(q, r) /\ q.called = called /\ q.pc = pc
  BY <1>1, <1>2
     DEF Typed, Fields, SameSession, SameItem, SameWork, SamePlan, SameRows, SameJobs
<1>5. Typed(q)
  BY <1>2, <1>4 DEF Typed, SameSession, SameItem, SameWork, SamePlan, SameRows, SameJobs
<1> USE DEF q
<1>6. Nested(session[s])'
  BY <1>1, <1>2, <1>3, <1>4
     DEF Nested, Reach, SameSession, SameWork, SameRows, SameJobs, Marking
<1>7. Placed(session[s])'
  BY <1>1, <1>2, <1>3, <1>4
     DEF Placed, Claiming, SameSession, SameItem, SameWork, SameRows, Between, AboutToWrite
<1>8. Second(session[s])' /\ Wanted(session[s])'
  BY <1>2, <1>3, <1>4
     DEF Second, Wanted, SameSession, SameRows, SamePlan, Between, AboutToWrite, r
<1>9. Findable(session[s])'
  BY <1>1, <1>2, <1>3, <1>4 DEF Findable, SameRows, SameJobs, Between
<1>10. Fresher(session[s])'
  BY <1>1, <1>2, <1>4 DEF Fresher, SameRows, SameJobs
<1>11. Unsettled(session[s])' /\ Webhooked(session[s])'
  BY <1>1, <1>2, <1>3, <1>4
     DEF Unsettled, Webhooked, SameSession, SameWork, SameRows, SameJobs, AboutToWrite, Marking
<1>12. WaitDone(session[s])'
  BY <1>1, <1>2, <1>3, <1>4 DEF WaitDone, SameSession, SameRows, SameJobs, Between
<1>13. q.pc # "idle" /\ r.pc # "idle"
  BY <1>3, <1>4
<1> QED BY <1>1, <1>4, <1>5, <1>6, <1>7, <1>8, <1>9, <1>10, <1>11, <1>12, <1>13, QuietStep
        DEF SameSession, SameWork, SameRows, r

\* An exception that is mapped to no error: a request is rolled back, a tick is about to
\* release the job of the row it is on.
LEMMA CallBreaksStep == ASSUME IInv, NEW s \in Servers, CallBreaks(s) PROVE IInv'
<1> DEFINE r == session[s]
           called == r.called \cup {r.key}
<1>1. /\ r.pc = "call" /\ UNCHANGED <<now, rows, jobs, begun, settled, met>>
      /\ faults' \in 0 .. MaxFaults
  <2>1. faults' \in 0 .. MaxFaults
    BY Bounds DEF CallBreaks, IInv, Types
  <2> QED BY <2>1 DEF CallBreaks, At
<1>2. CASE r.kind # "tick"
  <2>1. session' = [session EXCEPT ![s] = Closed]
    BY <1>2 DEF CallBreaks
  <2> QED BY <1>1, <2>1, CloseStep
<1>3. CASE r.kind = "tick"
  <2>1. session' = [session EXCEPT ![s] = [r EXCEPT !.pc = "release", !.called = called]]
    BY <1>3 DEF CallBreaks
  <2>2. Typed(r) /\ Placed(r)
    BY InHand
  <2>3. called \in SUBSET Keys /\ called \subseteq r.called \cup DOMAIN r.rows
    BY <1>1, <2>2 DEF Placed, Typed
  <2> HIDE DEF called
  <2> QED BY <1>1, <1>3, <2>1, <2>3, GivesUpStep
<1> QED BY <1>2, <1>3

\* The tick releases the job if it finds it running.
LEMMA ReleaseStep == ASSUME IInv, NEW s \in Servers, Release(s) PROVE IInv'
<1> DEFINE r == session[s]
           k == r.item
           found == LoadedJobs(s)
           job == found[k]
<1>1. r.pc = "release" /\ UNCHANGED <<now, rows, jobs, begun, settled, met, faults>>
  BY DEF Release, Become, At
<1>2. /\ Typed(r) /\ Nested(r) /\ Placed(r) /\ Unsettled(r) /\ WaitDone(r) /\ Table(jobs, Job)
  BY InHand
<1>3. r.kind = "tick" /\ k \in r.looked /\ r.claims = {} /\ k \in Keys
  BY <1>1, <1>2 DEF Placed, Claiming, Typed
<1>4. /\ DOMAIN found = DOMAIN jobs \cup DOMAIN r.jobs
      /\ k \in DOMAIN r.jobs => found[k] = r.jobs[k]
      /\ k \in DOMAIN jobs \ DOMAIN r.jobs => found[k] = jobs[k]
  BY LoadedJobsFields
<1>5. CASE k \in DOMAIN found /\ job.status = "running"
  <2>1. session' = [session EXCEPT ![s] = Marks(r, k, job, "pending")]
    BY <1>5 DEF Release, Become
  <2>3. job \in Job /\ job = IF k \in DOMAIN r.jobs THEN r.jobs[k] ELSE jobs[k]
    BY <1>2, <1>4, <1>5 DEF Typed, Table
  <2>4. ASSUME k = Wait, k \notin met PROVE settled[k] = 0
    <3>1. CASE k \in DOMAIN r.jobs
      BY <1>2, <1>3, <2>4, <3>1 DEF Unsettled
    <3>2. CASE k \notin DOMAIN r.jobs
      <4>1. k \in DOMAIN jobs /\ jobs[k].status = "running"
        BY <1>4, <1>5, <3>2
      <4>2. SettledRow(k)
        BY <1>3, <2>4 DEF IInv, Committed
      <4> QED BY <2>4, <4>1, <4>2 DEF SettledRow
    <3> QED BY <3>1, <3>2
  <2> DEFINE q == session'[s]
             want == [job EXCEPT !.status = "pending"]
             seenJobs == Set(r.seenJobs, k, job)
  <2>5. /\ DOMAIN r = Fields /\ r.claims = r.claims \ {k} /\ job.status = "running"
        /\ k \in DOMAIN jobs \cup DOMAIN r.jobs
    BY <1>2, <1>3, <1>4, <1>5 DEF Typed
  <2>6. want \in Job /\ want.status = "pending"
    BY <2>3 DEF Job
  <2>2. /\ DOMAIN seenJobs = DOMAIN r.seenJobs \cup {k} /\ seenJobs[k] = job
        /\ \A j \in DOMAIN r.seenJobs : j # k => seenJobs[j] = r.seenJobs[j]
    BY DEF Set
  <2>10. q = [r EXCEPT !.pc = "mark", !.item = k, !.seenJobs = seenJobs, !.job = want]
    BY <2>1 DEF Marks, IInv, Types
  <2>13. session' = [session EXCEPT ![s] = q]
    BY <2>1 DEF IInv, Types
  <2> HIDE DEF q, r, k, found, job, want, seenJobs
  <2>11. /\ SameSession(q, r) /\ SameRows(q, r) /\ q.key = r.key /\ q.replay = r.replay
         /\ q.todo = r.todo /\ q.looked = r.looked /\ q.called = r.called
    BY <2>5, <2>10 DEF Fields, SameSession, SameRows
  <2>12. /\ q.want = r.want /\ q.insert = r.insert /\ q.then = r.then /\ q.ended = r.ended
         /\ q.pc = "mark" /\ q.item = k /\ q.claims = r.claims
         /\ q.seenJobs = seenJobs /\ q.job = want /\ q.jobs = r.jobs
    BY <2>5, <2>10 DEF Fields
  <2>7. Selected(q, r)
    BY <2>2, <2>5, <2>11, <2>12 DEF Selected
  <2> QED BY <1>1, <1>3, <2>2, <2>3, <2>4, <2>5, <2>6, <2>7, <2>12, <2>13, MarksStep DEF q, r
<1>6. CASE ~(k \in DOMAIN found /\ job.status = "running")
  <2>1. session' = [session EXCEPT ![s] = [r EXCEPT !.pc = "next"]]
    BY <1>6 DEF Release, Become
  <2>2. [r EXCEPT !.pc = "next"] = [r EXCEPT !.pc = "next", !.called = r.called]
    BY <1>2 DEF Typed, Fields
  <2>3. session' = [session EXCEPT ![s] = [r EXCEPT !.pc = "next", !.called = r.called]]
    BY <2>1, <2>2
  <2>4. r.called \in SUBSET Keys /\ faults' \in 0 .. MaxFaults
    BY <1>1, <1>2 DEF Typed, IInv, Types
  <2> QED BY <1>1, <1>3, <2>3, <2>4, GivesUpStep
<1> QED BY <1>5, <1>6

\* After a job, a session is on its own plan or goes to the next row; the rest stays.
Gone(q, r) ==
    /\ \/ q.pc = "run" /\ q.key = r.n
       \/ q.pc = "next" /\ q.key = r.key
    /\ q.replay \in BOOLEAN /\ q.ended \in BOOLEAN
    /\ SameSession(q, r) /\ SameWork(q, r) /\ SameRows(q, r)
    /\ q.item = r.item /\ q.called = r.called
    /\ q.want = r.want /\ q.insert = r.insert /\ q.then = r.then /\ q.job = r.job

\* That is what Goes does.
LEMMA GoesFields ==
    ASSUME NEW r, DOMAIN r = Fields, r.replay \in BOOLEAN, r.ended \in BOOLEAN
    PROVE  Gone(Goes(r), r) /\ SameJobs(Goes(r), r)
<1> DEFINE q == Goes(r)
<1>1. CASE r.ended
  <2>1. q = [r EXCEPT !.pc = "run", !.key = r.n, !.replay = FALSE, !.ended = FALSE]
    BY <1>1 DEF Goes
  <2> HIDE DEF q
  <2>2. q.replay \in BOOLEAN /\ q.ended \in BOOLEAN
    BY <2>1 DEF Fields
  <2>3. q.pc = "run" /\ q.key = r.n
    BY <2>1 DEF Fields
  <2>4. /\ SameSession(q, r) /\ SameWork(q, r) /\ SameRows(q, r) /\ SameJobs(q, r)
        /\ q.item = r.item /\ q.called = r.called
        /\ q.want = r.want /\ q.insert = r.insert /\ q.then = r.then /\ q.job = r.job
    BY <2>1 DEF Fields, SameSession, SameWork, SameRows, SameJobs
  <2> QED BY <2>2, <2>3, <2>4 DEF Gone, q
<1>2. CASE ~r.ended
  <2>1. q = [r EXCEPT !.pc = "next"]
    BY <1>2 DEF Goes
  <2> HIDE DEF q
  <2>2. q.replay \in BOOLEAN /\ q.ended \in BOOLEAN
    BY <2>1 DEF Fields
  <2>3. q.pc = "next" /\ q.key = r.key
    BY <2>1 DEF Fields
  <2>4. /\ SameSession(q, r) /\ SameWork(q, r) /\ SameRows(q, r) /\ SameJobs(q, r)
        /\ q.item = r.item /\ q.called = r.called
        /\ q.want = r.want /\ q.insert = r.insert /\ q.then = r.then /\ q.job = r.job
    BY <2>1 DEF Fields, SameSession, SameWork, SameRows, SameJobs
  <2> QED BY <2>2, <2>3, <2>4 DEF Gone, q
<1> QED BY <1>1, <1>2

\* A session that goes on after a job keeps the invariant, if its jobs do.
LEMMA GoneStep ==
    ASSUME IInv, NEW s \in Servers, session[s].pc \in Between,
           session' = [session EXCEPT ![s] = session'[s]],
           UNCHANGED <<now, rows, jobs, begun, settled, met, faults>>,
           Gone(session'[s], session[s]),
           LET r == session[s]
               q == session'[s]
               k == r.key
           IN  /\ Table(q.seenJobs, Job) /\ Table(q.jobs, Job)
               /\ DOMAIN q.jobs \subseteq DOMAIN r.jobs \cup {k}
               /\ DOMAIN q.seenJobs = DOMAIN q.jobs
               /\ \A j \in DOMAIN q.jobs \ {k} :
                     /\ j \in DOMAIN r.jobs /\ j \in DOMAIN r.seenJobs
                     /\ q.jobs[j] = r.jobs[j] /\ q.seenJobs[j] = r.seenJobs[j]
               /\ \A j \in DOMAIN r.jobs : j \in DOMAIN q.jobs
               /\ k \in DOMAIN q.jobs =>
                     /\ q.seenJobs[k].status = "pending" => q.jobs[k].status # "done"
                     /\ k \notin met => q.jobs[k] = q.seenJobs[k]
                     /\ r.job.status # "done" => q.jobs[k].status # "done"
                     /\ r.job.status = "done" /\ k \notin met => q.jobs[k].status = "done"
               /\ k \notin DOMAIN q.jobs => r.job.status = "done" /\ k \notin DOMAIN jobs
    PROVE  IInv'
<1> DEFINE r == session[s]
           q == session'[s]
           k == r.key
<1>1. UNCHANGED <<now, rows, jobs, begun, settled, met, faults>> /\ Gone(q, r)
  OBVIOUS
<1>2. /\ Table(q.seenJobs, Job) /\ Table(q.jobs, Job)
      /\ DOMAIN q.jobs \subseteq DOMAIN r.jobs \cup {k} /\ DOMAIN q.seenJobs = DOMAIN q.jobs
      /\ \A j \in DOMAIN q.jobs \ {k} :
            /\ j \in DOMAIN r.jobs /\ j \in DOMAIN r.seenJobs
            /\ q.jobs[j] = r.jobs[j] /\ q.seenJobs[j] = r.seenJobs[j]
      /\ \A j \in DOMAIN r.jobs : j \in DOMAIN q.jobs
  OBVIOUS
<1>3. k \in DOMAIN q.jobs =>
         /\ q.seenJobs[k].status = "pending" => q.jobs[k].status # "done"
         /\ k \notin met => q.jobs[k] = q.seenJobs[k]
         /\ r.job.status # "done" => q.jobs[k].status # "done"
         /\ r.job.status = "done" /\ k \notin met => q.jobs[k].status = "done"
  OBVIOUS
<1>4. k \notin DOMAIN q.jobs => r.job.status = "done" /\ k \notin DOMAIN jobs
  OBVIOUS
<1>5. /\ Typed(r) /\ Number(r) /\ Nested(r) /\ Placed(r) /\ Second(r) /\ Wanted(r)
      /\ Findable(r) /\ Fresher(r) /\ Unsettled(r) /\ WaitDone(r)
  BY InHand
<1>6. r.pc \in {"select", "write"}
  BY DEF Between
<1> HIDE DEF q, k
<1>7. /\ q.kind = r.kind /\ q.n = r.n /\ q.pc \in {"run", "next"}
      /\ q.rows = r.rows /\ q.seen = r.seen /\ q.claims = r.claims /\ q.claims = {}
      /\ q.todo = r.todo /\ q.looked = r.looked
  BY <1>1, <1>5, <1>6 DEF Gone, SameSession, SameRows, SameWork, Placed
<1>8. k \in Keys /\ k \in DOMAIN r.rows /\ k \in DOMAIN r.seen /\ k \in r.looked
      /\ r.kind # "webhook" /\ k = r.key
  BY <1>5, <1>6 DEF Placed, Nested, Typed, Between, k
<1>9. Typed(q)
  <2>1. r.n \in Keys
    <3>1. r.n \in 1 .. begun /\ begun \in 0 .. MaxSessions
      BY <1>5, <1>6 DEF Number, IInv, Types
    <3> QED BY <3>1, Bounds DEF Fresh
  <2>2. q.replay \in BOOLEAN /\ q.ended \in BOOLEAN
    BY <1>1 DEF Gone
  <2> QED BY <1>1, <1>2, <1>5, <1>7, <1>8, <2>1, <2>2
          DEF Typed, Gone, SameSession, SameWork, SameRows
<1> USE DEF q
<1>10. Nested(session[s])'
  <2>1. DOMAIN q.seenJobs \subseteq q.looked
    BY <1>2, <1>5, <1>7, <1>8 DEF Nested
  <2> QED BY <1>1, <1>2, <1>5, <1>7, <2>1 DEF Nested, Reach
<1>11. Placed(session[s])'
  BY <1>1, <1>5, <1>6, <1>7 DEF Placed, Gone, Between, AboutToWrite, Claiming
<1>12. Second(session[s])' /\ Wanted(session[s])'
  <2>1. Second(session[s])'
    BY <1>1, <1>2, <1>5, <1>7, <1>8 DEF Second, Gone
  <2>2. Wanted(session[s])'
    BY <1>1, <1>5, <1>7 DEF Wanted, Gone, Between, AboutToWrite
  <2> QED BY <2>1, <2>2
<1>13. Findable(session[s])'
  <2>1. ASSUME NEW j \in DOMAIN q.rows, q.rows[j].display \in Waiting
        PROVE  q.rows[j].status = "SCHEDULED" \/ (j \in DOMAIN q.jobs /\ q.jobs[j].status # "done")
    <3>1. CASE j = k
      <4>1. r.want.display \in Waiting
        BY <1>5, <1>6, <1>7, <1>8, <2>1, <3>1 DEF Wanted, Between
      <4>2. r.job.status # "done"
        BY <1>5, <1>6, <4>1 DEF Wanted, Between
      <4> QED BY <1>3, <1>4, <3>1, <4>2
    <3>2. CASE j # k
      <4>1. j \in DOMAIN r.rows /\ r.rows[j].display \in Waiting /\ j # r.key /\ q.rows[j] = r.rows[j]
        BY <1>7, <1>8, <2>1, <3>2
      <4>2. r.rows[j].status = "SCHEDULED" \/ (j \in DOMAIN r.jobs /\ r.jobs[j].status # "done")
        BY <1>5, <4>1 DEF Findable
      <4> QED BY <1>2, <3>2, <4>1, <4>2
    <3> QED BY <3>1, <3>2
  <2>2. ASSUME NEW j \in DOMAIN q.jobs
        PROVE  /\ q.jobs[j].status = "done" => j \in DOMAIN q.rows
               /\ q.seenJobs[j].status = "pending" => q.jobs[j].status # "done"
    <3>1. CASE j = k
      BY <1>3, <1>7, <1>8, <2>2, <3>1
    <3>2. CASE j # k
      <4>1. j \in DOMAIN r.jobs /\ q.jobs[j] = r.jobs[j] /\ q.seenJobs[j] = r.seenJobs[j]
        BY <1>2, <2>2, <3>2
      <4>2. /\ r.jobs[j].status = "done" => j \in DOMAIN r.rows
            /\ r.seenJobs[j].status = "pending" => r.jobs[j].status # "done"
        BY <1>5, <4>1 DEF Findable
      <4> QED BY <1>7, <4>1, <4>2
    <3> QED BY <3>1, <3>2
  <2> QED BY <1>7, <2>1, <2>2 DEF Findable
<1>14. Fresher(session[s])'
  <2>1. ASSUME NEW j \in DOMAIN q.seenJobs \ met
        PROVE  /\ j \in DOMAIN q.jobs => q.jobs[j] = q.seenJobs[j]
               /\ j \notin DOMAIN q.jobs => j \in DOMAIN jobs /\ jobs[j] = q.seenJobs[j]
    <3>1. CASE j = k
      <4>1. k \in DOMAIN q.jobs /\ k \notin met
        BY <1>2, <2>1, <3>1
      <4>2. q.jobs[k] = q.seenJobs[k]
        BY <1>3, <4>1
      <4> QED BY <3>1, <4>1, <4>2
    <3>2. CASE j # k
      <4>1. /\ j \in DOMAIN q.jobs /\ q.jobs[j] = r.jobs[j] /\ q.seenJobs[j] = r.seenJobs[j]
            /\ j \in DOMAIN r.jobs /\ j \in DOMAIN r.seenJobs \ met
        BY <1>2, <2>1, <3>2
      <4>2. r.jobs[j] = r.seenJobs[j]
        BY <1>5, <4>1 DEF Fresher
      <4> QED BY <4>1, <4>2
    <3> QED BY <3>1, <3>2
  <2>2. \A j \in DOMAIN q.seen \ met :
          /\ q.seen[j].status = DbStatus[q.seen[j].display]
          /\ j \in DOMAIN q.rows => q.rows[j] = q.seen[j]
          /\ j \notin DOMAIN q.rows => j \in DOMAIN rows /\ rows[j] = q.seen[j]
    <3>1. q.seen = r.seen /\ q.rows = r.rows /\ Fresher(r)
      BY <1>5, <1>7
    <3> HIDE DEF q, r
    <3> QED BY <3>1, SeenIsFresh
  <2> QED BY <1>1, <2>1, <2>2 DEF Fresher
<1>15. Unsettled(session[s])' /\ Webhooked(session[s])'
  <2>1. Unsettled(session[s])'
    BY <1>1, <1>2, <1>5, <1>7, <1>8 DEF Unsettled, AboutToWrite, Marking
  <2> QED BY <1>7, <1>8, <2>1 DEF Webhooked
<1>16. WaitDone(session[s])'
  <2>1. ASSUME Wait \in DOMAIN q.rows \ met, q.seen[Wait].display = "SUCCESS"
        PROVE  /\ Wait \in DOMAIN q.jobs => q.jobs[Wait].status = "done"
               /\ Wait \in DOMAIN jobs \ DOMAIN q.jobs => jobs[Wait].status = "done"
    <3>1. CASE k = Wait
      <4>1. r.want.display = "SUCCESS"
        BY <1>5, <1>6, <1>7, <1>8, <2>1, <3>1 DEF Wanted, Between
      <4>2. r.job.status = "done"
        BY <1>5, <1>6, <4>1 DEF Wanted, Between
      <4> QED BY <1>3, <1>4, <2>1, <3>1, <4>2
    <3>2. CASE k # Wait
      <4>1. /\ Wait \in DOMAIN r.jobs => r.jobs[Wait].status = "done"
            /\ Wait \in DOMAIN jobs \ DOMAIN r.jobs => jobs[Wait].status = "done"
        BY <1>5, <1>7, <1>8, <2>1, <3>2 DEF WaitDone
      <4> QED BY <1>2, <3>2, <4>1
    <3> QED BY <3>1, <3>2
  <2> QED BY <1>1, <2>1 DEF WaitDone
<1>17. faults' \in 0 .. MaxFaults
  BY <1>1 DEF IInv, Types
<1>18. q.pc # "idle" /\ r.pc # "idle"
  BY <1>6, <1>7
<1> QED BY <1>1, <1>7, <1>9, <1>10, <1>11, <1>12, <1>13, <1>14, <1>15, <1>16, <1>17, <1>18, QuietStep

\* A session looks for the job of the row; without one there may be nothing to complete.
LEMMA SelectJobStep == ASSUME IInv, NEW s \in Servers, SelectJob(s) PROVE IInv'
<1> DEFINE r == session[s]
           q == session'[s]
           k == r.key
           found == LoadedJobs(s)
           seenJobs == IF k \in DOMAIN found THEN Set(r.seenJobs, k, found[k]) ELSE r.seenJobs
<1>1. /\ r.pc = "select" /\ UNCHANGED <<now, rows, jobs, begun, settled, met, faults>>
      /\ session' = [session EXCEPT ![s] = q]
  BY DEF SelectJob, Become, At, IInv, Types
<1>2. /\ Typed(r) /\ Nested(r) /\ Placed(r) /\ Second(r) /\ Wanted(r)
      /\ Findable(r) /\ Fresher(r) /\ Unsettled(r) /\ WaitDone(r) /\ Table(jobs, Job)
  BY InHand
<1>3. /\ DOMAIN found = DOMAIN jobs \cup DOMAIN r.jobs
      /\ k \in DOMAIN r.jobs => found[k] = r.jobs[k]
      /\ k \in DOMAIN jobs \ DOMAIN r.jobs => found[k] = jobs[k]
  BY LoadedJobsFields
<1>4. /\ k \in Keys /\ k \in DOMAIN r.rows /\ k \in r.looked /\ r.kind # "webhook"
      /\ DOMAIN r.seenJobs = DOMAIN r.jobs
  BY <1>1, <1>2 DEF Placed, Nested, Typed, Between, Claiming, Marking
<1>5. CASE k \notin DOMAIN found /\ r.job.status = "done"
  <2>1. q = Goes(r)
    BY <1>5 DEF SelectJob, Become, IInv, Types
  <2>2. Gone(q, r) /\ SameJobs(q, r)
    BY <1>2, <2>1, GoesFields DEF Typed
  <2> HIDE DEF q
  <2>3. q.jobs = r.jobs /\ q.seenJobs = r.seenJobs
    BY <2>2 DEF SameJobs
  <2>4. Table(r.seenJobs, Job) /\ Table(r.jobs, Job)
    BY <1>2 DEF Typed
  <2> QED BY <1>1, <1>3, <1>4, <1>5, <2>2, <2>3, <2>4, GoneStep DEF q, Between
<1>6. CASE k \in DOMAIN found \/ r.job.status # "done"
  <2>1. q = [r EXCEPT !.pc = "write", !.seenJobs = seenJobs]
    <3>1. CASE k \in DOMAIN found
      BY <1>6, <3>1 DEF SelectJob, Become, IInv, Types
    <3>2. CASE k \notin DOMAIN found
      <4>1. q = [r EXCEPT !.pc = "write"]
        BY <1>6, <3>2 DEF SelectJob, Become, IInv, Types
      <4>2. [r EXCEPT !.pc = "write"] = [r EXCEPT !.pc = "write", !.seenJobs = r.seenJobs]
        BY <1>2 DEF Typed, Fields
      <4> QED BY <3>2, <4>1, <4>2
    <3> QED BY <3>1, <3>2
  <2>2. /\ DOMAIN seenJobs = DOMAIN r.seenJobs \cup ({k} \cap DOMAIN jobs)
        /\ \A j \in DOMAIN r.seenJobs \ {k} : seenJobs[j] = r.seenJobs[j]
        /\ k \in DOMAIN r.jobs => seenJobs[k] = r.jobs[k]
        /\ k \in DOMAIN jobs \ DOMAIN r.jobs => seenJobs[k] = jobs[k]
    <3>1. CASE k \in DOMAIN found
      <4>1. seenJobs = Set(r.seenJobs, k, found[k])
        BY <3>1
      <4> HIDE DEF seenJobs, found
      <4> QED BY <1>3, <1>4, <3>1, <4>1 DEF Set
    <3>2. CASE k \notin DOMAIN found
      <4>1. seenJobs = r.seenJobs
        BY <3>2
      <4> HIDE DEF seenJobs, found
      <4> QED BY <1>3, <1>4, <3>2, <4>1
    <3> QED BY <3>1, <3>2
  <2>3. r.job.status = "done" => k \in DOMAIN seenJobs
    BY <1>3, <1>4, <1>6, <2>2
  <2> HIDE DEF q, seenJobs, found
  <2>4. /\ SameSession(q, r) /\ SameItem(q, r) /\ SameWork(q, r) /\ SamePlan(q, r)
        /\ SameRows(q, r) /\ q.called = r.called /\ q.pc = "write"
        /\ q.seenJobs = seenJobs /\ q.jobs = r.jobs
    BY <1>2, <2>1 DEF Typed, Fields, SameSession, SameItem, SameWork, SamePlan, SameRows
  <2>5. Typed(q)
    <3>1. Table(seenJobs, Job)
      BY <1>2, <1>3, <1>4, <2>2 DEF Typed, Table
    <3> QED BY <1>2, <2>4, <3>1 DEF Typed, SameSession, SameItem, SameWork, SamePlan, SameRows
  <2> USE DEF q
  <2>6. Nested(session[s])'
    <3>1. /\ DOMAIN q.jobs \subseteq DOMAIN q.seenJobs /\ DOMAIN q.seenJobs \subseteq q.looked
          /\ DOMAIN q.seenJobs \ DOMAIN q.jobs \subseteq {q.key}
      BY <1>2, <1>4, <2>2, <2>4 DEF Nested, SameWork, SameItem
    <3>2. r.claims = {}
      BY <1>1, <1>2 DEF Placed, Claiming
    <3> QED BY <1>1, <1>2, <2>4, <3>1, <3>2 DEF Nested, Reach, SameSession, SameWork, SameRows
  <2>7. Placed(session[s])'
    BY <1>1, <1>2, <2>3, <2>4
       DEF Placed, SameSession, SameWork, SamePlan, SameRows, SameItem, Between, AboutToWrite, Claiming
  <2>8. Second(session[s])' /\ Wanted(session[s])'
    BY <1>1, <1>2, <2>4
       DEF Second, Wanted, SameSession, SamePlan, SameRows, SameItem, Between, AboutToWrite
  <2>9. Findable(session[s])'
    <3>1. \A j \in DOMAIN q.jobs : q.seenJobs[j] \in {r.seenJobs[j], q.jobs[j]}
      BY <1>2, <2>2, <2>4 DEF Nested
    <3>2. q.key \in DOMAIN q.seenJobs \ DOMAIN q.jobs =>
            q.key \in DOMAIN jobs /\ jobs[q.key] = q.seenJobs[q.key]
      BY <1>3, <1>4, <2>2, <2>4 DEF SameItem
    <3>3. \A j \in DOMAIN q.rows : q.rows[j].display \in Waiting /\ ~(j = q.key /\ q.pc \in Between) =>
             \/ q.rows[j].status = "SCHEDULED"
             \/ j \in DOMAIN q.jobs /\ q.jobs[j].status # "done"
      BY <1>1, <1>2, <2>4 DEF Findable, SameRows, SameItem, Between
    <3>4. \A j \in DOMAIN q.jobs :
            /\ q.jobs[j].status = "done" => j \in DOMAIN q.rows
            /\ q.seenJobs[j].status = "pending" => q.jobs[j].status # "done"
      BY <1>2, <2>4, <3>1 DEF Findable, SameRows
    <3>5. jobs' = jobs
      BY <1>1
    <3>6. q.pc = "write" /\ q.key \in DOMAIN q.seenJobs \ DOMAIN q.jobs =>
            /\ q.key \in DOMAIN jobs'
            /\ q.seenJobs[q.key].status = "pending" => jobs'[q.key].status # "done"
      BY <3>2, <3>5
    <3> QED BY <3>3, <3>4, <3>6 DEF Findable
  <2>10. Fresher(session[s])'
    <3>1. \A j \in DOMAIN q.seenJobs \ met :
            /\ j \in DOMAIN q.jobs => q.jobs[j] = q.seenJobs[j]
            /\ j \notin DOMAIN q.jobs => j \in DOMAIN jobs /\ jobs[j] = q.seenJobs[j]
      BY <1>2, <1>4, <2>2, <2>4 DEF Fresher
    <3>2. \A j \in DOMAIN q.seen \ met :
            /\ q.seen[j].status = DbStatus[q.seen[j].display]
            /\ j \in DOMAIN q.rows => q.rows[j] = q.seen[j]
            /\ j \notin DOMAIN q.rows => j \in DOMAIN rows /\ rows[j] = q.seen[j]
      BY <1>2, <2>4 DEF Fresher, SameRows
    <3> QED BY <1>1, <3>1, <3>2 DEF Fresher
  <2>11. Unsettled(session[s])' /\ Webhooked(session[s])'
    BY <1>1, <1>2, <1>4, <2>4
       DEF Unsettled, Webhooked, SameSession, SameWork, SameRows, SameItem, AboutToWrite, Marking
  <2>12. WaitDone(session[s])'
    BY <1>1, <1>2, <2>4 DEF WaitDone, SameSession, SameRows, SameItem, Between
  <2>13. faults' \in 0 .. MaxFaults
    BY <1>1 DEF IInv, Types
  <2> QED BY <1>1, <2>4, <2>5, <2>6, <2>7, <2>8, <2>9, <2>10, <2>11, <2>12, <2>13, QuietStep
          DEF SameSession, SameWork, SameRows
<1> QED BY <1>5, <1>6

\* The job is scheduled or completed, and held with its row.
LEMMA WriteJobStep == ASSUME IInv, NEW s \in Servers, WriteJob(s) PROVE IInv'
<1> DEFINE r == session[s]
           q == session'[s]
           k == r.key
           want == IF r.job.status = "done" THEN [r.seenJobs[k] EXCEPT !.status = "done"]
                   ELSE r.job
           job == IF k \in DOMAIN r.jobs THEN r.jobs[k] ELSE jobs[k]
           new == IF k \notin DOMAIN r.seenJobs THEN want
                  ELSE MergedJob(job, r.seenJobs[k], want)
           seenJobs == Set(r.seenJobs, k, want)
           held == Set(r.jobs, k, new)
           mid == [r EXCEPT !.seenJobs = seenJobs, !.jobs = held]
<1>1. /\ r.pc = "write" /\ UNCHANGED <<now, rows, jobs, begun, settled, met, faults>>
      /\ session' = [session EXCEPT ![s] = q] /\ q = Goes(mid)
  BY DEF WriteJob, Become, At, IInv, Types
<1>2. /\ Typed(r) /\ Nested(r) /\ Placed(r) /\ Wanted(r) /\ Findable(r) /\ Fresher(r)
      /\ Table(jobs, Job)
  BY InHand
<1>3. /\ k \in Keys /\ r.job \in Job /\ r.claims = {}
      /\ r.job.status = "done" => k \in DOMAIN r.seenJobs
      /\ r.job.status # "done" => r.job.status = "pending"
      /\ k \in DOMAIN r.seenJobs => r.seenJobs[k] \in Job
  BY <1>1, <1>2 DEF Typed, Table, Placed, Wanted, Between
<1>4. want \in Job /\ want.status = r.job.status
  <2>1. CASE r.job.status = "done"
    BY <1>3, <2>1 DEF Job
  <2>2. CASE r.job.status # "done"
    BY <1>3, <2>2
  <2> QED BY <2>1, <2>2
<1>5. k \in DOMAIN r.seenJobs =>
         /\ job \in Job
         /\ r.seenJobs[k].status = "pending" => job.status # "done"
         /\ k \notin met => job = r.seenJobs[k]
  <2>1. CASE k \in DOMAIN r.jobs
    BY <1>2, <2>1 DEF Typed, Table, Findable, Fresher
  <2>2. CASE k \notin DOMAIN r.jobs
    BY <1>1, <1>2, <2>2 DEF Typed, Table, Findable, Fresher
  <2> QED BY <2>1, <2>2
<1>6. new \in Job
      /\ (k \notin met => new = want)
      /\ (r.job.status # "done" => new.status # "done")
  <2>1. CASE k \notin DOMAIN r.seenJobs
    BY <1>4, <2>1
  <2>2. CASE k \in DOMAIN r.seenJobs
    <3>1. new = MergedJob(job, r.seenJobs[k], want)
      BY <2>2
    <3> HIDE DEF new, want, job
    <3>2. new \in Job /\ (k \notin met => new = want)
      BY <1>3, <1>4, <1>5, <2>2, <3>1, MergedJobFields
    <3>3. new.status = IF want.status # r.seenJobs[k].status THEN want.status ELSE job.status
      BY <1>3, <1>4, <1>5, <2>2, <3>1, MergedJobFields
    <3> QED BY <1>3, <1>4, <1>5, <2>2, <3>2, <3>3
  <2> QED BY <2>1, <2>2
<1> HIDE DEF want, job, new
<1>7. /\ DOMAIN seenJobs = DOMAIN r.seenJobs \cup {k} /\ seenJobs[k] = want
      /\ \A j \in DOMAIN r.seenJobs : j # k => seenJobs[j] = r.seenJobs[j]
      /\ DOMAIN held = DOMAIN r.jobs \cup {k} /\ held[k] = new
      /\ \A j \in DOMAIN r.jobs : j # k => held[j] = r.jobs[j]
  BY DEF Set
<1> HIDE DEF seenJobs, held
<1>8. /\ DOMAIN mid = Fields /\ mid.replay \in BOOLEAN /\ mid.ended \in BOOLEAN
      /\ mid.seenJobs = seenJobs /\ mid.jobs = held
      /\ SameSession(mid, r) /\ SameItem(mid, r) /\ SameWork(mid, r) /\ SamePlan(mid, r)
      /\ SameRows(mid, r) /\ mid.called = r.called
  <2>1. DOMAIN mid = Fields
    BY <1>2 DEF Typed
  <2>2. mid.replay \in BOOLEAN /\ mid.ended \in BOOLEAN
    BY <1>2 DEF Typed, Fields
  <2>3. /\ mid.seenJobs = seenJobs /\ mid.jobs = held
        /\ SameItem(mid, r) /\ SameWork(mid, r) /\ SamePlan(mid, r)
        /\ SameRows(mid, r) /\ mid.called = r.called
        /\ mid.kind = r.kind /\ mid.n = r.n /\ mid.at = r.at
    BY <1>2 DEF Typed, Fields, SameItem, SameWork, SamePlan, SameRows
  <2> QED BY <2>1, <2>2, <2>3 DEF SameSession
<1> HIDE DEF mid, q
<1>9. Gone(q, mid) /\ SameJobs(q, mid)
  BY <1>1, <1>8, GoesFields
<1>10. Gone(q, r) /\ q.seenJobs = seenJobs /\ q.jobs = held
  BY <1>8, <1>9
     DEF Gone, SameJobs, SameSession, SameItem, SameWork, SamePlan, SameRows
<1>11. /\ Table(seenJobs, Job) /\ Table(held, Job)
  BY <1>2, <1>3, <1>4, <1>6, <1>7 DEF Typed, Table
<1>12. /\ DOMAIN held \subseteq DOMAIN r.jobs \cup {k} /\ DOMAIN seenJobs = DOMAIN held
       /\ \A j \in DOMAIN held \ {k} : /\ j \in DOMAIN r.jobs /\ j \in DOMAIN r.seenJobs
                                       /\ held[j] = r.jobs[j] /\ seenJobs[j] = r.seenJobs[j]
       /\ \A j \in DOMAIN r.jobs : j \in DOMAIN held
  BY <1>1, <1>2, <1>3, <1>7 DEF Nested, Marking
<1>13. /\ k \in DOMAIN held
       /\ seenJobs[k].status = "pending" => held[k].status # "done"
       /\ k \notin met => held[k] = seenJobs[k]
       /\ r.job.status # "done" => held[k].status # "done"
       /\ r.job.status = "done" /\ k \notin met => held[k].status = "done"
  BY <1>4, <1>6, <1>7
<1> QED BY <1>1, <1>10, <1>11, <1>12, <1>13, GoneStep DEF q, Between

-----------------------------------------------------------------------------
(* A session commits *)

\* what a commit does to a table: what the session holds replaces what is there
Put(new, old, held) ==
    /\ DOMAIN new = DOMAIN old \cup DOMAIN held
    /\ \A k \in DOMAIN held : new[k] = held[k]
    /\ \A k \in DOMAIN old \ DOMAIN held : new[k] = old[k]

\* The tables, the counts and the sessions after a commit.
LEMMA CommitForms ==
    ASSUME IInv, NEW s \in Servers, CommitSession(s)
    PROVE  LET r == session[s]
           IN  /\ r.pc = "next" /\ r.todo = {}
               /\ Put(rows', rows, r.rows) /\ Put(jobs', jobs, r.jobs)
               /\ DOMAIN settled' = Keys
               /\ \A k \in Keys : settled'[k] =
                     IF k \in DOMAIN r.rows /\ r.seen[k].display = "SUCCESS"
                        /\ r.kind # "webhook"
                     THEN settled[k] + 1 ELSE settled[k]
               /\ session'[s] = Closed /\ DOMAIN session' = Servers
               /\ \A t \in Servers \ {s} : session'[t] = session[t]
               /\ UNCHANGED <<now, begun, faults, met>>
<1> DEFINE r == session[s]
<1>1. r.pc = "next" /\ r.todo = {} /\ UNCHANGED <<now, begun, faults, met>>
  BY DEF CommitSession, At
<1>2. Put(rows', rows, r.rows)
  BY DEF CommitSession, Put
<1>3. Put(jobs', jobs, r.jobs)
  BY DEF CommitSession, Put
<1>4. settled' = [k \in Keys |->
                     IF k \in DOMAIN r.rows /\ r.seen[k].display = "SUCCESS" /\ r.kind # "webhook"
                     THEN settled[k] + 1 ELSE settled[k]]
  BY DEF CommitSession
<1>5. /\ session'[s] = Closed /\ DOMAIN session' = Servers
      /\ \A t \in Servers \ {s} : session'[t] = session[t]
  BY DEF CommitSession, IInv, Types
<1> HIDE DEF r
<1> QED BY <1>1, <1>2, <1>3, <1>4, <1>5 DEF r

\* What the others say of themselves does not depend on it: what it commits they have
\* not looked at, or two sessions have met.
LEMMA CommitOthers ==
    ASSUME IInv, NEW s \in Servers, CommitSession(s), NEW t \in Servers \ {s}
    PROVE  SessionOK(session[t])'
<1> DEFINE r == session[s]
           q == session[t]
<1>1. /\ r.pc = "next"
      /\ Put(rows', rows, r.rows) /\ Put(jobs', jobs, r.jobs)
      /\ \A k \in Keys : k \notin DOMAIN r.rows => settled'[k] = settled[k]
      /\ session'[t] = q /\ UNCHANGED <<now, begun, faults, met>>
  BY CommitForms
<1>2. /\ Nested(r) /\ Findable(r) /\ Number(r)
  BY InHand
<1>3. /\ Typed(q) /\ Number(q) /\ Nested(q) /\ Placed(q) /\ Second(q) /\ Wanted(q)
      /\ Findable(q) /\ Fresher(q) /\ Unsettled(q) /\ Webhooked(q) /\ WaitDone(q)
  BY InHand
<1>4. Apart(r, q)
  BY DEF IInv
<1> HIDE DEF r, q
<1>5. /\ \A k \in q.looked \ met : k \notin DOMAIN r.rows /\ k \notin DOMAIN r.jobs
  BY <1>2, <1>4 DEF Nested, Apart
<1>6. /\ DOMAIN rows' = DOMAIN rows \cup DOMAIN r.rows
      /\ \A k \in DOMAIN rows \ DOMAIN r.rows : rows'[k] = rows[k]
      /\ DOMAIN jobs' = DOMAIN jobs \cup DOMAIN r.jobs
      /\ \A k \in DOMAIN r.jobs : jobs'[k] = r.jobs[k]
      /\ \A k \in DOMAIN jobs \ DOMAIN r.jobs : jobs'[k] = jobs[k]
  BY <1>1 DEF Put
<1>7. Number(session[t])'
  <2>1. q.pc = "idle" => q = Closed
    BY <1>3 DEF Number
  <2>2. ASSUME q.pc # "idle" PROVE q.n \in 1 .. begun /\ q.n \notin DOMAIN rows' /\ q.n \notin DOMAIN jobs'
    <3>1. q.n \in 1 .. begun /\ q.n \notin DOMAIN rows /\ q.n \notin DOMAIN jobs
      BY <1>3, <2>2 DEF Number
    <3>2. q.n # Wait /\ q.n # Slot
      <4>1. begun \in 0 .. MaxSessions
        BY DEF IInv, Types
      <4>2. q.n \in Fresh
        BY <3>1, <4>1, Bounds DEF Fresh
      <4> QED BY <4>2, Bounds
    <3>3. q.n # r.n
      BY <1>1, <1>4, <2>2 DEF Apart
    <3>4. q.n \notin r.looked
      BY <1>2, <3>1, <3>2, <3>3 DEF Nested, Reach
    <3>5. q.n \notin DOMAIN r.rows /\ q.n \notin DOMAIN r.jobs
      BY <1>2, <3>4 DEF Nested
    <3> QED BY <1>6, <3>1, <3>5
  <2> QED BY <1>1, <2>1, <2>2 DEF Number
<1>8. Nested(session[t])'
  BY <1>1, <1>3, <1>6 DEF Nested, Reach
<1>9. Placed(session[t])' /\ Second(session[t])' /\ Wanted(session[t])'
  BY <1>1, <1>3, <1>6 DEF Placed, Second, Wanted, Claiming
<1>10. Findable(session[t])'
  <2>1. ASSUME q.pc = "write", q.key \in DOMAIN q.seenJobs \ DOMAIN q.jobs
        PROVE  /\ q.key \in DOMAIN jobs'
               /\ q.seenJobs[q.key].status = "pending" => jobs'[q.key].status # "done"
    <3>1. /\ q.key \in DOMAIN jobs
          /\ q.seenJobs[q.key].status = "pending" => jobs[q.key].status # "done"
      BY <1>3, <2>1 DEF Findable
    <3>2. q.key \in DOMAIN q.rows
      BY <1>3, <2>1 DEF Placed, Between
    <3>3. q.key \notin DOMAIN r.rows
      BY <1>4, <3>2 DEF Apart
    <3>4. q.key \in DOMAIN r.jobs => r.jobs[q.key].status # "done"
      BY <1>2, <3>3 DEF Findable
    <3> QED BY <1>6, <3>1, <3>4
  <2> QED BY <1>1, <1>3, <2>1 DEF Findable
<1>11. Fresher(session[t])'
  <2>1. \A k \in DOMAIN q.seen \ met : k \in q.looked
    BY <1>3 DEF Nested
  <2>2. \A k \in DOMAIN q.seenJobs \ met : k \in q.looked
    BY <1>3 DEF Nested
  <2>3. \A k \in DOMAIN q.seen \ met :
          /\ q.seen[k].status = DbStatus[q.seen[k].display]
          /\ k \in DOMAIN q.rows => q.rows[k] = q.seen[k]
          /\ k \notin DOMAIN q.rows => k \in DOMAIN rows' /\ rows'[k] = q.seen[k]
    BY <1>3, <1>5, <1>6, <2>1 DEF Fresher
  <2>4. \A k \in DOMAIN q.seenJobs \ met :
          /\ k \in DOMAIN q.jobs => q.jobs[k] = q.seenJobs[k]
          /\ k \notin DOMAIN q.jobs => k \in DOMAIN jobs' /\ jobs'[k] = q.seenJobs[k]
    BY <1>3, <1>5, <1>6, <2>2 DEF Fresher
  <2> QED BY <1>1, <2>3, <2>4 DEF Fresher
<1>12. Unsettled(session[t])'
  <2>1. ASSUME NEW k \in Keys \ met, q.kind # "webhook",
               \/ k \in DOMAIN q.rows
               \/ k = q.key /\ q.pc \in AboutToWrite
               \/ k = Wait /\ k \in q.claims \cup q.todo \cup Marking(q) \cup DOMAIN q.jobs
        PROVE  settled'[k] = 0
    <3>1. settled[k] = 0
      BY <1>3, <2>1 DEF Unsettled
    <3>2. k \in q.looked
      <4>1. CASE k \in DOMAIN q.rows
        BY <1>3, <4>1 DEF Nested
      <4>2. CASE k = q.key /\ q.pc \in AboutToWrite
        BY <1>3, <4>2 DEF Placed
      <4>3. CASE k = Wait /\ k \in q.claims \cup q.todo \cup Marking(q) \cup DOMAIN q.jobs
        <5>1. Marking(q) \subseteq q.looked
          BY <1>3 DEF Marking, Placed, Nested
        <5> QED BY <1>3, <4>3, <5>1 DEF Nested
      <4> QED BY <2>1, <4>1, <4>2, <4>3
    <3> QED BY <1>1, <1>5, <2>1, <3>1, <3>2
  <2> QED BY <1>1, <2>1 DEF Unsettled, Marking
<1>13. Webhooked(session[t])'
  BY <1>1, <1>3 DEF Webhooked
<1>14. WaitDone(session[t])'
  <2>1. Wait \in DOMAIN q.rows \ met => Wait \notin DOMAIN r.jobs
    BY <1>3, <1>5 DEF Nested
  <2> QED BY <1>1, <1>3, <1>6, <2>1 DEF WaitDone
<1> QED BY <1>7, <1>8, <1>9, <1>10, <1>11, <1>12, <1>13, <1>14 DEF SessionOK

\* What it commits is settled once, and can be found if it waits.
LEMMA CommitCommitted == ASSUME IInv, NEW s \in Servers, CommitSession(s) PROVE Committed'
<1> DEFINE r == session[s]
<1>1. /\ r.pc = "next"
      /\ Put(rows', rows, r.rows) /\ Put(jobs', jobs, r.jobs)
      /\ \A k \in Keys : settled'[k] =
            IF k \in DOMAIN r.rows /\ r.seen[k].display = "SUCCESS" /\ r.kind # "webhook"
            THEN settled[k] + 1 ELSE settled[k]
      /\ UNCHANGED <<now, begun, faults, met>>
  BY CommitForms
<1>2. /\ Typed(r) /\ Number(r) /\ Nested(r) /\ Placed(r) /\ Findable(r) /\ Fresher(r)
      /\ Unsettled(r) /\ Webhooked(r) /\ WaitDone(r)
  BY InHand
<1>3. Committed /\ Types
  BY DEF IInv
<1> HIDE DEF r
<1>4. /\ DOMAIN rows' = DOMAIN rows \cup DOMAIN r.rows
      /\ \A k \in DOMAIN r.rows : rows'[k] = r.rows[k]
      /\ \A k \in DOMAIN rows \ DOMAIN r.rows : rows'[k] = rows[k]
      /\ DOMAIN jobs' = DOMAIN jobs \cup DOMAIN r.jobs
      /\ \A k \in DOMAIN r.jobs : jobs'[k] = r.jobs[k]
      /\ \A k \in DOMAIN jobs \ DOMAIN r.jobs : jobs'[k] = jobs[k]
  BY <1>1 DEF Put
<1>5. DOMAIN rows' \cup DOMAIN jobs' \subseteq {Wait, Slot} \cup 1 .. begun
  <2>1. r.n \in 1 .. begun
    BY <1>1, <1>2 DEF Number
  <2>2. r.looked \subseteq {Wait, Slot} \cup 1 .. begun
    BY <1>2, <1>3, <2>1 DEF Nested, Reach, Committed
  <2>3. DOMAIN r.rows \subseteq r.looked /\ DOMAIN r.jobs \subseteq r.looked
    BY <1>2 DEF Nested
  <2> QED BY <1>3, <1>4, <2>2, <2>3 DEF Committed
<1>6. \A k \in DOMAIN r.rows \ met :
         r.rows[k] = r.seen[k] /\ r.rows[k].status = DbStatus[r.rows[k].display]
  BY <1>2 DEF Nested, Fresher
<1>7. \A k \in DOMAIN rows' \ met : rows'[k].status = DbStatus[rows'[k].display]
  BY <1>3, <1>4, <1>6 DEF Committed
<1>8. ASSUME NEW k \in Keys \ met, settled'[k] # 0
      PROVE  /\ settled'[k] = 1
             /\ k \in DOMAIN rows' /\ rows'[k].display \in Finals
             /\ k = Wait /\ k \in DOMAIN jobs' => jobs'[k].status = "done"
  <2>1. SettledRow(k)
    BY <1>3 DEF Committed
  <2>2. CASE k \in DOMAIN r.rows /\ r.kind # "webhook"
    <3>1. settled[k] = 0
      BY <1>2, <2>2 DEF Unsettled
    <3>2. r.seen[k].display = "SUCCESS" /\ settled'[k] = 1
      BY <1>1, <1>8, <3>1
    <3>3. rows'[k].display \in Finals
      BY <1>4, <1>6, <2>2, <3>2 DEF Finals, TerminalDisplay
    <3>4. k = Wait => /\ k \in DOMAIN r.jobs => r.jobs[k].status = "done"
                      /\ k \in DOMAIN jobs \ DOMAIN r.jobs => jobs[k].status = "done"
      BY <1>1, <1>2, <2>2, <3>2 DEF WaitDone, Between
    <3> QED BY <1>4, <2>2, <3>2, <3>3, <3>4
  <2>3. CASE k \in DOMAIN r.rows /\ r.kind = "webhook"
    <3>1. r.rows[k].display \in Finals /\ DOMAIN r.jobs = {}
      BY <1>2, <2>3 DEF Webhooked
    <3>2. settled'[k] = settled[k]
      BY <1>1, <2>3
    <3> QED BY <1>4, <1>8, <2>1, <2>3, <3>1, <3>2 DEF SettledRow
  <2>4. CASE k \notin DOMAIN r.rows
    <3>1. settled'[k] = settled[k]
      BY <1>1, <2>4
    <3>2. k = Wait => k \notin DOMAIN r.jobs
      <4>1. CASE r.kind = "webhook"
        BY <1>2, <4>1 DEF Webhooked
      <4>2. CASE r.kind # "webhook"
        BY <1>2, <1>8, <3>1, <4>2 DEF Unsettled
      <4> QED BY <4>1, <4>2
    <3> QED BY <1>4, <1>8, <2>1, <2>4, <3>1, <3>2 DEF SettledRow
  <2> QED BY <2>2, <2>3, <2>4
<1>9. ASSUME NEW k \in DOMAIN rows', rows'[k].display \in Waiting
      PROVE  \/ rows'[k].status = "SCHEDULED"
             \/ k \in met /\ k \in DOMAIN jobs' /\ jobs'[k].status # "done"
  <2>1. CASE k \in DOMAIN r.rows /\ k \in met
    BY <1>1, <1>2, <1>4, <1>9, <2>1 DEF Findable, Between
  <2>2. CASE k \notin met
    BY <1>7, <1>9, <2>2, Statuses DEF Waiting
  <2>3. CASE k \notin DOMAIN r.rows
    <3>1. \/ rows[k].status = "SCHEDULED"
          \/ k \in met /\ k \in DOMAIN jobs /\ jobs[k].status # "done"
      BY <1>3, <1>4, <1>9, <2>3 DEF Committed, NothingForgotten, Waiting
    <3>2. k \in DOMAIN r.jobs => r.jobs[k].status # "done"
      BY <1>2, <2>3 DEF Findable
    <3> QED BY <1>4, <1>9, <2>3, <3>1, <3>2
  <2> QED BY <2>1, <2>2, <2>3
<1>10. (NothingForgotten)'
  BY <1>1, <1>9 DEF NothingForgotten, Waiting
<1>11. \A k \in Keys \ met : SettledRow(k)'
  BY <1>8 DEF SettledRow
<1> QED BY <1>1, <1>5, <1>7, <1>10, <1>11 DEF Committed

\* The session that commits has come to its end.
LEMMA CommitStep == ASSUME IInv, NEW s \in Servers, CommitSession(s) PROVE IInv'
<1> DEFINE r == session[s]
<1>1. /\ Put(rows', rows, r.rows) /\ Put(jobs', jobs, r.jobs)
      /\ DOMAIN settled' = Keys
      /\ \A k \in Keys : settled'[k] =
            IF k \in DOMAIN r.rows /\ r.seen[k].display = "SUCCESS" /\ r.kind # "webhook"
            THEN settled[k] + 1 ELSE settled[k]
      /\ session'[s] = Closed /\ DOMAIN session' = Servers
      /\ \A t \in Servers \ {s} : session'[t] = session[t]
      /\ UNCHANGED <<now, begun, faults, met>>
  BY CommitForms
<1>2. Typed(r) /\ Types
  BY InHand DEF IInv
<1>3. Types'
  <2>1. Table(rows, Row)' /\ Table(jobs, Job)'
    BY <1>1, <1>2 DEF Put, Table, Typed, Types
  <2>2. (settled \in [Keys -> Nat])'
    <3>1. settled' = [k \in Keys |->
            IF k \in DOMAIN r.rows /\ r.seen[k].display = "SUCCESS" /\ r.kind # "webhook"
            THEN settled[k] + 1 ELSE settled[k]]
      BY DEF CommitSession
    <3>2. settled \in [Keys -> Nat]
      BY <1>2 DEF Types
    <3> HIDE DEF r
    <3> QED BY <3>1, <3>2
  <2>3. \A t \in Servers : Typed(session[t])'
    <3>1. TAKE t \in Servers
    <3>2. CASE t = s
      BY <1>1, <3>2, ClosedOK DEF Typed, Table
    <3>3. CASE t # s
      BY <1>1, <1>2, <3>3 DEF Types, Typed, Table
    <3> QED BY <3>2, <3>3
  <2> QED BY <1>1, <1>2, <2>1, <2>2, <2>3 DEF Types
<1>4. \A t \in Servers : SessionOK(session[t])'
  BY <1>1, ClosedNext, CommitOthers
<1>5. ASSUME NEW t \in Servers, NEW u \in Servers, t # u PROVE Apart(session[t], session[u])'
  <2>1. CASE t = s \/ u = s
    BY <1>1, <2>1 DEF Apart, Closed
  <2>2. CASE t # s /\ u # s
    BY <1>1, <1>5, <2>2 DEF IInv, Apart
  <2> QED BY <2>1, <2>2
<1> QED BY <1>3, <1>4, <1>5, CommitCommitted DEF IInv

-----------------------------------------------------------------------------
(* The theorems *)

\* Executions, schedules and replays open alike.
LEMMA BeginRequests ==
    ASSUME IInv, NEW s \in Servers, BeginExecute(s) \/ BeginSchedule(s) \/ BeginReplay(s)
    PROVE  IInv'
<1>1. ASSUME NEW kind, NEW k
      PROVE  [Closed EXCEPT !.kind = kind, !.pc = "run", !.key = k]
             = [Closed EXCEPT !.kind = kind, !.pc = "run", !.key = k, !.replay = FALSE]
  <2>1. Closed.replay = FALSE /\ Closed = [f \in DOMAIN Closed |-> Closed[f]]
    BY DEF Closed
  <2>2. [Closed EXCEPT !.kind = kind, !.pc = "run", !.key = k]
        = [Closed EXCEPT !.kind = kind, !.pc = "run", !.key = k, !.replay = Closed.replay]
    BY <2>1
  <2> QED BY <2>1, <2>2
<1>2. CASE BeginExecute(s)
  <2>1. PICK k \in Planned :
          /\ OpenAs(s, [Closed EXCEPT !.kind = "execute", !.pc = "run", !.key = k])
          /\ UNCHANGED met
    BY <1>2 DEF BeginExecute
  <2>2. OpenAs(s, [Closed EXCEPT !.kind = "execute", !.pc = "run", !.key = k, !.replay = FALSE])
    BY <1>1, <2>1
  <2> QED BY <2>1, <2>2, BeginRequest
<1>3. CASE BeginSchedule(s)
  <2>1. PICK k \in Planned :
          /\ OpenAs(s, [Closed EXCEPT !.kind = "schedule", !.pc = "run", !.key = k])
          /\ UNCHANGED met
    BY <1>3 DEF BeginSchedule
  <2>2. OpenAs(s, [Closed EXCEPT !.kind = "schedule", !.pc = "run", !.key = k, !.replay = FALSE])
    BY <1>1, <2>1
  <2> QED BY <2>1, <2>2, BeginRequest
<1>4. CASE BeginReplay(s)
  <2>1. PICK k \in Planned :
          OpenAs(s, [Closed EXCEPT !.kind = "replay", !.pc = "run", !.key = k, !.replay = TRUE])
    BY <1>4 DEF BeginReplay
  <2> QED BY <1>4, <2>1, BeginRequest DEF BeginReplay
<1> QED BY <1>2, <1>3, <1>4

\* The clock moves nothing else, and no session reads it after it has opened.
LEMMA IdleStep ==
    ASSUME IInv, now' \in 0 .. MaxTime,
           UNCHANGED <<rows, jobs, session, begun, faults, met, settled>>
    PROVE  IInv'
<1>1. Types'
  BY DEF IInv, Types, Typed, Table
<1>2. Committed'
  BY CommittedStays DEF IInv, Types
<1>3. \A s \in Servers : SessionOK(session[s])'
  BY OthersStay DEF IInv, Types
<1>4. \A s, t \in Servers : s # t => Apart(session[s], session[t])'
  BY DEF IInv, Apart
<1> QED BY <1>1, <1>2, <1>3, <1>4 DEF IInv

\* Every step keeps the invariant.
LEMMA NextIInv == ASSUME IInv, [Next]_vars PROVE IInv'
<1>1. CASE Clock
  <2>1. now' \in 0 .. MaxTime
    BY <1>1, Bounds DEF Clock, IInv, Types
  <2> QED BY <1>1, <2>1, IdleStep DEF Clock
<1>2. CASE UNCHANGED vars
  <2>1. now' \in 0 .. MaxTime
    BY <1>2 DEF vars, IInv, Types
  <2> QED BY <1>2, <2>1, IdleStep DEF vars
<1>3. ASSUME NEW s \in Servers, Begin(s) PROVE IInv'
  BY <1>3, BeginRequests, BeginTickStep, BeginWebhookStep DEF Begin
<1>4. ASSUME NEW s \in Servers, Step(s) PROVE IInv'
  BY <1>4, ClaimStep, ClaimedStep, NextItemStep, RunStep, SaveStep, FlushStep, EndWaitStep,
     MarkStep, CallStep, CallBreaksStep, ReleaseStep, SelectJobStep, WriteJobStep, CommitStep DEF Step
<1>5. ASSUME NEW s \in Servers, DeadlockFails(s) PROVE IInv'
  <2>1. faults' \in 0 .. MaxFaults
    BY <1>5 DEF DeadlockFails, IInv, Types
  <2> QED BY <1>5, <2>1, CloseStep DEF DeadlockFails, RollBack
<1> QED BY <1>1, <1>2, <1>3, <1>4, <1>5 DEF Next

\* What each session holds, has read and is about to write fits what is committed and
\* what the others hold: the invariant that the theorems rest on.
THEOREM SessionInvariance == Spec => []IInv
<1>1. Init => IInv
  BY InitIInv
<1>2. IInv /\ [Next]_vars => IInv'
  BY NextIInv
<1> QED BY <1>1, <1>2, PTL DEF Spec

\* Tables, sessions and counters have their types.
THEOREM SessionTypes == Spec => []TypeOK
BY SessionInvariance, TypeFromIInv, PTL

\* No two open sessions call Razorpay for one key: the row is held before the call.
THEOREM TurnsAreTaken == Spec => []CallsTakeTurns
BY SessionInvariance, TurnsFromIInv, PTL

\* However many sessions there are, a key that no two of them have met over is
\* settled at most once.
THEOREM SettledAtMostOnce == Spec => []SettledOnce
BY SessionInvariance, SettledFromIInv, PTL

\* A committed row that waits is found by list_due, or by its job if two have met over it.
THEOREM NoneForgotten == Spec => []NothingForgotten
<1>1. IInv => NothingForgotten
  BY DEF IInv, Committed
<1> QED BY <1>1, SessionInvariance, PTL

\* Executions, schedules, replays and webhooks alone never wait in a circle.
THEOREM OnlyTicksDeadlock == Spec => []RequestsDoNotDeadlock
BY SessionInvariance, CirclesHaveTicks, PTL
=============================================================================
