----------------------- MODULE ActionOrchestratorProofs -----------------------
(* Theorems about the action orchestrator, for every value of its constants. *)
EXTENDS ActionOrchestrator, TLAPS

(***************************************************************************)
(* What the table operators return, field by field.                        *)
(***************************************************************************)
Shape(s) == s \in [rows : {s.rows}, jobs : {s.jobs}, audits : {s.audits},
                   calls : {s.calls}, last : {s.last}]

\* what _persist_status writes: the row of k, shown under a display
LEMMA PersistFields ==
    ASSUME NEW s, Shape(s), NEW k, NEW row, NEW display
    PROVE  /\ Shape(Persist(s, k, row, display))
           /\ Persist(s, k, row, display).rows = Put(s.rows, k, Showing(row, display))
           /\ Persist(s, k, row, display).jobs = s.jobs
           /\ Persist(s, k, row, display).audits = s.audits
           /\ Persist(s, k, row, display).calls = s.calls
           /\ Persist(s, k, row, display).last = s.last
BY DEF Shape, Persist

\* what complete writes: the status of the job of k, if it has one
LEMMA CompleteFields ==
    ASSUME NEW s, Shape(s), NEW k, NEW status
    PROVE  /\ Shape(Complete(s, k, status))
           /\ Complete(s, k, status).jobs = SetStatus(s.jobs, k, status)
           /\ Complete(s, k, status).rows = s.rows
           /\ Complete(s, k, status).audits = s.audits
           /\ Complete(s, k, status).calls = s.calls
           /\ Complete(s, k, status).last = s.last
BY DEF Shape, Complete

\* what schedule writes: a pending job for k
LEMMA ScheduleFields ==
    ASSUME NEW s, Shape(s), NEW k, NEW run_at, NEW attempt
    PROVE  /\ Shape(Schedule(s, k, run_at, attempt))
           /\ Schedule(s, k, run_at, attempt).jobs =
                 Put(s.jobs, k, [status |-> "pending", run_at |-> run_at,
                                 attempt |-> attempt])
           /\ Schedule(s, k, run_at, attempt).rows = s.rows
           /\ Schedule(s, k, run_at, attempt).audits = s.audits
           /\ Schedule(s, k, run_at, attempt).calls = s.calls
           /\ Schedule(s, k, run_at, attempt).last = s.last
BY DEF Shape, Schedule

\* what _audit writes: one event of k
LEMMA AuditFields ==
    ASSUME NEW s, Shape(s), NEW k, NEW event
    PROVE  /\ Shape(Audit(s, k, event))
           /\ \A e : e \in Audit(s, k, event).audits <=> e \in s.audits \/ e = <<k, event>>
           /\ Audit(s, k, event).rows = s.rows
           /\ Audit(s, k, event).jobs = s.jobs
           /\ Audit(s, k, event).calls = s.calls
           /\ Audit(s, k, event).last = s.last
BY DEF Shape, Audit

\* what _finalize writes: the row, the end of its job, its event
LEMMA FinalizeFields ==
    ASSUME NEW s, Shape(s), NEW k, NEW row, NEW display, NEW event,
           NEW t, t = Finalize(s, k, row, display, event)
    PROVE  /\ Shape(t)
           /\ t.rows = Put(s.rows, k, Showing(row, display))
           /\ t.jobs = SetStatus(s.jobs, k, "done")
           /\ \A e : e \in t.audits <=> e \in s.audits \/ e = <<k, event>>
           /\ t.calls = s.calls
           /\ t.last = s.last
<1>1. PICK saved : saved = Persist(s, k, row, display)
  OBVIOUS
<1>2. PICK done : done = Complete(saved, k, "done")
  OBVIOUS
<1>3. Shape(saved)
  BY <1>1, PersistFields
<1>4. /\ saved.rows = Put(s.rows, k, Showing(row, display))
      /\ saved.jobs = s.jobs /\ saved.audits = s.audits
      /\ saved.calls = s.calls /\ saved.last = s.last
  BY <1>1, PersistFields
<1>5. /\ Shape(done)
      /\ done.jobs = SetStatus(saved.jobs, k, "done")
      /\ done.rows = saved.rows /\ done.audits = saved.audits
      /\ done.calls = saved.calls /\ done.last = saved.last
  BY <1>2, <1>3, CompleteFields
<1>6. t = Audit(done, k, event)
  BY <1>1, <1>2 DEF Finalize
<1>7. /\ Shape(t)
      /\ \A e : e \in t.audits <=> e \in done.audits \/ e = <<k, event>>
      /\ t.rows = done.rows /\ t.jobs = done.jobs
      /\ t.calls = done.calls /\ t.last = done.last
  BY <1>5, <1>6, AuditFields
<1> QED BY <1>4, <1>5, <1>7

\* what a call changes: the counts of k, and that the provider was called
LEMMA CallFields ==
    ASSUME NEW s, Shape(s), NEW k, NEW out
    PROVE  /\ Shape(Call(s, k, out))
           /\ Call(s, k, out).calls = Put(s.calls, k, Counted(s, k, out))
           /\ Call(s, k, out).last = [s.last EXCEPT !.called = TRUE]
           /\ Call(s, k, out).rows = s.rows
           /\ Call(s, k, out).jobs = s.jobs
           /\ Call(s, k, out).audits = s.audits
BY DEF Shape, Call

(***************************************************************************)
(* Tables                                                                  *)
(***************************************************************************)
\* an upsert leaves the other keys of a table alone
LEMMA PutTable ==
    ASSUME NEW f, NEW V, IsTable(f, V), NEW k \in Key, NEW v \in V
    PROVE  /\ IsTable(Put(f, k, v), V)
           /\ \A j : j \in DOMAIN Put(f, k, v) <=> j \in DOMAIN f \/ j = k
           /\ Put(f, k, v)[k] = v
           /\ \A j \in DOMAIN f : j # k => Put(f, k, v)[j] = f[j]
BY DEF IsTable, Put

\* a status change keeps the keys of a table, and the other jobs
LEMMA SetStatusTable ==
    ASSUME NEW J, IsTable(J, Job), NEW k, NEW status \in LiveJob \cup {"done", "dead_letter"}
    PROVE  /\ IsTable(SetStatus(J, k, status), Job)
           /\ DOMAIN SetStatus(J, k, status) = DOMAIN J
           /\ \A j \in DOMAIN J : j # k => SetStatus(J, k, status)[j] = J[j]
           /\ k \in DOMAIN J =>
                 /\ SetStatus(J, k, status)[k].status = status
                 /\ SetStatus(J, k, status)[k].run_at = J[k].run_at
                 /\ SetStatus(J, k, status)[k].attempt = J[k].attempt
BY DEF IsTable, SetStatus, Job

(***************************************************************************)
(* The invariant of one set of tables t against the calls received of s.   *)
(***************************************************************************)
RowOK(t, s, k) ==
    /\ JobOfRow(t, k)
    /\ RetriesCounted(t, s, k)
    /\ Explained(t, s, k)
    /\ Trailed(t, k)

TablesInv(t, s) ==
    /\ DOMAIN t.jobs \subseteq DOMAIN t.rows
    /\ \A k \in DOMAIN t.rows : RowOK(t, s, k)

\* the provider hears more of every key, successes and failures apart
Grows(s, t) ==
    \A j \in Key :
        /\ Succeeded(s, j) <= Succeeded(t, j)
        /\ Tried(s, j) - Succeeded(s, j) <= Tried(t, j) - Succeeded(t, j)

\* t differs from s in the row, the job, the audit events and the calls of k
Touched(s, t, k) ==
    /\ \A j : j \in DOMAIN t.rows <=> j \in DOMAIN s.rows \/ j = k
    /\ \A j \in DOMAIN t.jobs : j \in DOMAIN s.jobs \/ j = k
    /\ DOMAIN s.jobs \subseteq DOMAIN t.jobs
    /\ s.audits \subseteq t.audits
    /\ \A j \in DOMAIN s.rows : j # k => t.rows[j] = s.rows[j]
    /\ \A j \in DOMAIN s.jobs : j # k => t.jobs[j] = s.jobs[j]
    /\ \A j : j # k => Tried(t, j) = Tried(s, j) /\ Succeeded(t, j) = Succeeded(s, j)
    /\ Grows(s, t)

\* a well-formed session is a record of tables, counts and an observation
LEMMA SessionShape ==
    ASSUME NEW s
    PROVE  SessionOK(s) <=> /\ Shape(s)
                            /\ TablesOK(s)
                            /\ IsTable(s.calls, Received)
                            /\ s.last \in Observation
BY DEF SessionOK, Shape

\* calls are counted in natural numbers
LEMMA CountsAreNat ==
    ASSUME NEW s, IsTable(s.calls, Received), NEW j
    PROVE  Tried(s, j) \in Nat /\ Succeeded(s, j) \in Nat
BY DEF IsTable, Received, Tried, Succeeded

\* the counts depend on the calls received only
LEMMA SameCalls ==
    ASSUME NEW s, NEW t, IsTable(s.calls, Received), t.calls = s.calls
    PROVE  /\ \A j : Tried(t, j) = Tried(s, j) /\ Succeeded(t, j) = Succeeded(s, j)
           /\ Grows(s, t)
<1>1. \A j : Tried(t, j) = Tried(s, j) /\ Succeeded(t, j) = Succeeded(s, j)
  BY DEF Tried, Succeeded
<1>2. \A j : Tried(s, j) \in Nat /\ Succeeded(s, j) \in Nat
  BY CountsAreNat
<1> QED BY <1>1, <1>2 DEF Grows

\* tables in step stay so when the one row that changed is in step
LEMMA TouchedInv ==
    ASSUME NEW s, NEW t, NEW k, TablesInv(s, s), Touched(s, t, k), RowOK(t, t, k)
    PROVE  TablesInv(t, t)
<1>1. DOMAIN t.jobs \subseteq DOMAIN t.rows
  BY DEF TablesInv, Touched
<1>2. ASSUME NEW j \in DOMAIN t.rows, j # k PROVE RowOK(t, t, j)
  <2>1. j \in DOMAIN s.rows /\ t.rows[j] = s.rows[j] /\ RowOK(s, s, j)
    BY <1>2 DEF Touched, TablesInv
  <2>2. JobOfRow(t, j)
    BY <1>2, <2>1 DEF RowOK, JobOfRow, Live, Touched
  <2>3. RetriesCounted(t, t, j) /\ Explained(t, t, j)
    BY <1>2, <2>1 DEF RowOK, RetriesCounted, Explained, Touched
  <2>4. Trailed(t, j)
    BY <1>2, <2>1 DEF RowOK, Trailed, Touched
  <2> QED BY <2>2, <2>3, <2>4 DEF RowOK
<1> QED BY <1>1, <1>2 DEF TablesInv

\* the provider hears ever more
LEMMA GrowsTrans ==
    ASSUME NEW s, NEW t, NEW u, IsTable(s.calls, Received), IsTable(t.calls, Received),
           IsTable(u.calls, Received), Grows(s, t), Grows(t, u)
    PROVE  Grows(s, u)
<1>1. \A j : /\ Tried(s, j) \in Nat /\ Succeeded(s, j) \in Nat
             /\ Tried(t, j) \in Nat /\ Succeeded(t, j) \in Nat
             /\ Tried(u, j) \in Nat /\ Succeeded(u, j) \in Nat
  BY CountsAreNat
<1> QED BY <1>1 DEF Grows

\* two changes at one key are a change at that key
LEMMA TouchedTrans ==
    ASSUME NEW s, NEW t, NEW u, NEW k, SessionOK(s), SessionOK(t), SessionOK(u),
           Touched(s, t, k), Touched(t, u, k)
    PROVE  Touched(s, u, k)
<1>1. Grows(s, u)
  BY GrowsTrans, SessionShape DEF Touched
<1> QED BY <1>1 DEF Touched

(***************************************************************************)
(* The steps a run is made of, each of which touches one key.              *)
(***************************************************************************)
\* saving a row of k touches k only
LEMMA PersistTouches ==
    ASSUME NEW s, SessionOK(s), NEW k \in Key, NEW row \in Row, NEW display \in Displays,
           NEW t, t = Persist(s, k, row, display)
    PROVE  /\ SessionOK(t) /\ Touched(s, t, k)
           /\ t.rows[k] = Showing(row, display)
           /\ t.jobs = s.jobs /\ t.audits = s.audits /\ t.calls = s.calls /\ t.last = s.last
<1>1. /\ Shape(t) /\ t.rows = Put(s.rows, k, Showing(row, display))
      /\ t.jobs = s.jobs /\ t.audits = s.audits /\ t.calls = s.calls /\ t.last = s.last
  BY PersistFields, SessionShape
<1>2. Showing(row, display) \in Row
  BY DEF Showing, Row
<1>3. /\ IsTable(t.rows, Row)
      /\ \A j : j \in DOMAIN t.rows <=> j \in DOMAIN s.rows \/ j = k
      /\ t.rows[k] = Showing(row, display)
      /\ \A j \in DOMAIN s.rows : j # k => t.rows[j] = s.rows[j]
  <2>1. IsTable(s.rows, Row)
    BY DEF SessionOK, TablesOK
  <2> QED BY <1>1, <1>2, <2>1, PutTable
<1>4. SessionOK(t)
  BY <1>1, <1>3, SessionShape DEF TablesOK
<1>5. \A j : Tried(t, j) = Tried(s, j) /\ Succeeded(t, j) = Succeeded(s, j)
  BY <1>1, SessionShape, SameCalls
<1>6. Grows(s, t)
  BY <1>1, SessionShape, SameCalls
<1>7. Touched(s, t, k)
  BY <1>1, <1>3, <1>5, <1>6 DEF Touched
<1> QED BY <1>1, <1>3, <1>4, <1>7

\* ending the job of k touches k only
LEMMA CompleteTouches ==
    ASSUME NEW s, SessionOK(s), NEW k \in DOMAIN s.rows,
           NEW status \in LiveJob \cup {"done", "dead_letter"},
           NEW t, t = Complete(s, k, status)
    PROVE  /\ SessionOK(t) /\ Touched(s, t, k)
           /\ t.rows = s.rows /\ t.audits = s.audits /\ t.calls = s.calls /\ t.last = s.last
           /\ DOMAIN t.jobs = DOMAIN s.jobs
           /\ k \in DOMAIN s.jobs => t.jobs[k].status = status
<1>1. /\ Shape(t) /\ t.jobs = SetStatus(s.jobs, k, status)
      /\ t.rows = s.rows /\ t.audits = s.audits /\ t.calls = s.calls /\ t.last = s.last
  BY CompleteFields, SessionShape
<1>2. /\ IsTable(t.jobs, Job) /\ DOMAIN t.jobs = DOMAIN s.jobs
      /\ \A j \in DOMAIN s.jobs : j # k => t.jobs[j] = s.jobs[j]
      /\ k \in DOMAIN s.jobs => t.jobs[k].status = status
  <2>1. IsTable(s.jobs, Job)
    BY DEF SessionOK, TablesOK
  <2> QED BY <1>1, <2>1, SetStatusTable
<1>3. SessionOK(t)
  BY <1>1, <1>2, SessionShape DEF TablesOK
<1>4. Grows(s, t) /\ \A j : Tried(t, j) = Tried(s, j) /\ Succeeded(t, j) = Succeeded(s, j)
  BY <1>1, SessionShape, SameCalls
<1>5. Touched(s, t, k)
  BY <1>1, <1>2, <1>4 DEF Touched
<1> QED BY <1>1, <1>2, <1>3, <1>5

\* scheduling k touches k only
LEMMA ScheduleTouches ==
    ASSUME NEW s, SessionOK(s), NEW k \in DOMAIN s.rows, NEW run_at \in Nat, NEW attempt \in Nat,
           NEW t, t = Schedule(s, k, run_at, attempt)
    PROVE  /\ SessionOK(t) /\ Touched(s, t, k)
           /\ t.rows = s.rows /\ t.audits = s.audits /\ t.calls = s.calls /\ t.last = s.last
           /\ k \in DOMAIN t.jobs
           /\ t.jobs[k] = [status |-> "pending", run_at |-> run_at, attempt |-> attempt]
<1> DEFINE job == [status |-> "pending", run_at |-> run_at, attempt |-> attempt]
<1>1. /\ Shape(t) /\ t.jobs = Put(s.jobs, k, job)
      /\ t.rows = s.rows /\ t.audits = s.audits /\ t.calls = s.calls /\ t.last = s.last
  BY ScheduleFields, SessionShape
<1>2. job \in Job
  BY DEF Job, LiveJob
<1>3. IsTable(s.jobs, Job) /\ k \in Key
  BY DEF SessionOK, TablesOK, IsTable
<1> HIDE DEF job
<1>4. /\ IsTable(t.jobs, Job)
      /\ \A j : j \in DOMAIN t.jobs <=> j \in DOMAIN s.jobs \/ j = k
      /\ \A j \in DOMAIN s.jobs : j # k => t.jobs[j] = s.jobs[j]
      /\ t.jobs[k] = job
  BY <1>1, <1>2, <1>3, PutTable
<1>5. SessionOK(t)
  BY <1>1, <1>4, SessionShape DEF TablesOK
<1>6. Grows(s, t) /\ \A j : Tried(t, j) = Tried(s, j) /\ Succeeded(t, j) = Succeeded(s, j)
  BY <1>1, SessionShape, SameCalls
<1>7. Touched(s, t, k)
  BY <1>1, <1>4, <1>6 DEF Touched
<1> QED BY <1>1, <1>4, <1>5, <1>7 DEF job

\* an event of k touches k only
LEMMA AuditTouches ==
    ASSUME NEW s, SessionOK(s), NEW k \in DOMAIN s.rows, NEW event \in Events,
           NEW t, t = Audit(s, k, event)
    PROVE  /\ SessionOK(t) /\ Touched(s, t, k)
           /\ t.rows = s.rows /\ t.jobs = s.jobs /\ t.calls = s.calls /\ t.last = s.last
           /\ <<k, event>> \in t.audits
<1>1. /\ Shape(t) /\ \A e : e \in t.audits <=> e \in s.audits \/ e = <<k, event>>
      /\ t.rows = s.rows /\ t.jobs = s.jobs /\ t.calls = s.calls /\ t.last = s.last
  BY AuditFields, SessionShape
<1>2. k \in Key
  BY DEF SessionOK, TablesOK, IsTable
<1>3. s.audits \subseteq t.audits /\ t.audits \subseteq Key \X Events /\ <<k, event>> \in t.audits
  <2>1. s.audits \subseteq Key \X Events /\ <<k, event>> \in Key \X Events
    BY <1>2 DEF SessionOK, TablesOK
  <2> QED BY <1>1, <2>1
<1>4. SessionOK(t)
  BY <1>1, <1>3, SessionShape DEF TablesOK
<1>5. Grows(s, t) /\ \A j : Tried(t, j) = Tried(s, j) /\ Succeeded(t, j) = Succeeded(s, j)
  BY <1>1, SessionShape, SameCalls
<1>6. Touched(s, t, k)
  BY <1>1, <1>3, <1>5 DEF Touched
<1> QED BY <1>1, <1>3, <1>4, <1>6

\* a call for k touches k only, and counts it
LEMMA CallTouches ==
    ASSUME NEW s, SessionOK(s), NEW k \in DOMAIN s.rows, NEW out,
           NEW t, t = Call(s, k, out)
    PROVE  /\ SessionOK(t) /\ Touched(s, t, k)
           /\ t.rows = s.rows /\ t.jobs = s.jobs /\ t.audits = s.audits
           /\ t.last = [s.last EXCEPT !.called = TRUE]
           /\ Tried(t, k) = Tried(s, k) + 1
           /\ Succeeded(t, k) = IF out = "ok" THEN Succeeded(s, k) + 1 ELSE Succeeded(s, k)
<1>1. /\ Shape(t) /\ t.calls = Put(s.calls, k, Counted(s, k, out))
      /\ t.rows = s.rows /\ t.jobs = s.jobs /\ t.audits = s.audits
      /\ t.last = [s.last EXCEPT !.called = TRUE]
  BY CallFields, SessionShape
<1>2. Tried(s, k) \in Nat /\ Succeeded(s, k) \in Nat
  BY SessionShape, CountsAreNat
<1>3. IsTable(s.calls, Received) /\ k \in Key /\ Counted(s, k, out) \in Received
  BY <1>2 DEF SessionOK, TablesOK, IsTable, Counted, Received
<1>4. /\ IsTable(t.calls, Received)
      /\ \A j : j \in DOMAIN t.calls <=> j \in DOMAIN s.calls \/ j = k
      /\ t.calls[k] = Counted(s, k, out)
      /\ \A j \in DOMAIN s.calls : j # k => t.calls[j] = s.calls[j]
  BY <1>1, <1>3, PutTable
<1>5. SessionOK(t)
  <2>1. t.last \in Observation
    BY <1>1, SessionShape DEF Observation
  <2> QED BY <1>1, <1>4, <2>1, SessionShape DEF TablesOK
<1>6. \A j : j # k => Tried(t, j) = Tried(s, j) /\ Succeeded(t, j) = Succeeded(s, j)
  BY <1>4 DEF Tried, Succeeded
<1>7. /\ Tried(t, k) = Tried(s, k) + 1
      /\ Succeeded(t, k) = IF out = "ok" THEN Succeeded(s, k) + 1 ELSE Succeeded(s, k)
  <2>1. Tried(t, k) = t.calls[k].tried /\ Succeeded(t, k) = t.calls[k].ok
    BY <1>4 DEF Tried, Succeeded
  <2> QED BY <1>4, <2>1 DEF Counted
<1>8. Grows(s, t)
  <2>1. \A j : Tried(s, j) \in Nat /\ Succeeded(s, j) \in Nat
    BY SessionShape, CountsAreNat
  <2> QED BY <1>6, <1>7, <2>1 DEF Grows
<1>9. Touched(s, t, k)
  BY <1>1, <1>6, <1>8 DEF Touched
<1> QED BY <1>1, <1>5, <1>7, <1>9

\* the record run() works on is a row that is not dead-lettered, and agrees with the stored one
LEMMA RecordFacts ==
    ASSUME NEW s, SessionOK(s), TablesInv(s, s), NEW p \in Plan, NEW row, row = Record(s, p)
    PROVE  /\ KeyOf(p) \in Key
           /\ row \in Row /\ ~row.dead
           /\ row.retries <= Tried(s, KeyOf(p))
<1>1. KeyOf(p) \in Key
  BY DEF KeyOf, Key, Plan
<1>2. Tried(s, KeyOf(p)) \in Nat
  BY SessionShape, CountsAreNat
<1>3. CASE KeyOf(p) \in DOMAIN s.rows
  <2>1. s.rows[KeyOf(p)] \in Row
    BY <1>3 DEF SessionOK, TablesOK, IsTable
  <2>2. s.rows[KeyOf(p)].retries <= Tried(s, KeyOf(p))
    BY <1>3 DEF TablesInv, RowOK, RetriesCounted
  <2>3. row = [s.rows[KeyOf(p)] EXCEPT !.dead = FALSE]
    BY <1>3 DEF Record
  <2> QED BY <1>1, <2>1, <2>2, <2>3 DEF Row
<1>4. CASE KeyOf(p) \notin DOMAIN s.rows
  <2>1. row = [display |-> "SCHEDULED", scheduled |-> p.slot, retries |-> 0, dead |-> FALSE]
    BY <1>4 DEF Record
  <2> QED BY <1>1, <1>2, <2>1 DEF Row, Plan, Displays
<1> QED BY <1>3, <1>4

\* a row is settled (or has failed for good) with its job and its audit event
LEMMA FinishOK ==
    ASSUME NEW s, SessionOK(s), NEW k \in Key, NEW row \in Row, NEW event \in Events,
           NEW display \in {"SUCCESS", "FAILED", "CANCELLED"},
           NEW status \in {"done", "dead_letter"},
           row.retries <= Tried(s, k),
           row.dead => /\ status = "dead_letter" /\ display = "FAILED"
                       /\ row.retries > MaxRetryAttempts,
           display = "SUCCESS" /\ k.strategy \in RazorpayStrategies => Succeeded(s, k) > 0,
           display = "FAILED" => /\ Tried(s, k) > Succeeded(s, k)
                                 /\ k.strategy \in RazorpayStrategies,
           \A e \in EventOf(k, display) : e = event,
           NEW t, t = Audit(Complete(Persist(s, k, row, display), k, status), k, event)
    PROVE  /\ SessionOK(t) /\ Touched(s, t, k) /\ RowOK(t, t, k)
           /\ t.calls = s.calls /\ t.last = s.last
           /\ t.rows[k].display = display
<1>1. PICK saved : saved = Persist(s, k, row, display)
  OBVIOUS
<1>2. PICK done : done = Complete(saved, k, status)
  OBVIOUS
<1>3. t = Audit(done, k, event)
  BY <1>1, <1>2
<1>4. display \in Displays /\ status \in LiveJob \cup {"done", "dead_letter"}
  BY DEF Displays, TerminalDisplay
<1>5. /\ SessionOK(saved) /\ Touched(s, saved, k)
      /\ saved.rows[k] = Showing(row, display)
      /\ saved.calls = s.calls /\ saved.last = s.last
  BY <1>1, <1>4, PersistTouches
<1>6. k \in DOMAIN saved.rows
  BY <1>5 DEF Touched
<1>7. /\ SessionOK(done) /\ Touched(saved, done, k)
      /\ done.rows = saved.rows /\ done.calls = saved.calls /\ done.last = saved.last
      /\ DOMAIN done.jobs = DOMAIN saved.jobs
      /\ k \in DOMAIN saved.jobs => done.jobs[k].status = status
  BY <1>2, <1>4, <1>5, <1>6, CompleteTouches
<1>8. /\ SessionOK(t) /\ Touched(done, t, k)
      /\ t.rows = done.rows /\ t.jobs = done.jobs
      /\ t.calls = done.calls /\ t.last = done.last
      /\ <<k, event>> \in t.audits
  BY <1>3, <1>6, <1>7, AuditTouches
<1>9. Touched(s, t, k)
  <2>1. Touched(s, done, k)
    BY <1>5, <1>7, TouchedTrans
  <2> QED BY <1>7, <1>8, <2>1, TouchedTrans
<1>10. /\ t.rows[k].display = display /\ t.rows[k].retries = row.retries
       /\ t.rows[k].dead = row.dead
  BY <1>5, <1>7, <1>8 DEF Showing, Row
<1>11. \A j : Tried(t, j) = Tried(s, j) /\ Succeeded(t, j) = Succeeded(s, j)
  BY <1>5, <1>7, <1>8, SameCalls, SessionShape
<1>12. RowOK(t, t, k)
  <2>1. k \in DOMAIN t.jobs => t.jobs[k].status = status
    BY <1>7, <1>8
  <2>2. JobOfRow(t, k)
    BY <1>10, <2>1 DEF JobOfRow, Live, LiveJob, WaitingDisplay
  <2>3. RetriesCounted(t, t, k)
    BY <1>10, <1>11 DEF RetriesCounted
  <2>4. Explained(t, t, k)
    BY <1>10, <1>11 DEF Explained
  <2>5. Trailed(t, k)
    BY <1>8, <1>10 DEF Trailed
  <2> QED BY <2>2, <2>3, <2>4, <2>5 DEF RowOK
<1> QED BY <1>5, <1>7, <1>8, <1>9, <1>10, <1>12

\* a row is left waiting with its job and its audit event
LEMMA WaitingOK ==
    ASSUME NEW s, SessionOK(s), NEW k \in Key, NEW row \in Row, NEW display \in WaitingDisplay,
           ~row.dead, row.retries <= Tried(s, k),
           display = "RETRYING" => /\ row.retries \in 1 .. MaxRetryAttempts
                                   /\ k.strategy \in RazorpayStrategies,
           NEW t, t = Audit(Schedule(Persist(s, k, row, display), k,
                                     row.scheduled, row.retries),
                            k, "ACTION_SCHEDULED")
    PROVE  /\ SessionOK(t) /\ Touched(s, t, k) /\ RowOK(t, t, k)
           /\ t.calls = s.calls /\ t.last = s.last
           /\ t.rows[k].display = display
<1>1. PICK saved : saved = Persist(s, k, row, display)
  OBVIOUS
<1>2. PICK queued : queued = Schedule(saved, k, row.scheduled, row.retries)
  OBVIOUS
<1>3. t = Audit(queued, k, "ACTION_SCHEDULED")
  BY <1>1, <1>2
<1>4. /\ display \in Displays /\ "ACTION_SCHEDULED" \in Events
      /\ row.scheduled \in Nat /\ row.retries \in Nat
  BY DEF Displays, WaitingDisplay, Events, Row
<1>5. /\ SessionOK(saved) /\ Touched(s, saved, k)
      /\ saved.rows[k] = Showing(row, display)
      /\ saved.calls = s.calls /\ saved.last = s.last
  BY <1>1, <1>4, PersistTouches
<1>6. k \in DOMAIN saved.rows
  BY <1>5 DEF Touched
<1>7. /\ SessionOK(queued) /\ Touched(saved, queued, k)
      /\ queued.rows = saved.rows /\ queued.calls = saved.calls /\ queued.last = saved.last
      /\ k \in DOMAIN queued.jobs
      /\ queued.jobs[k] = [status |-> "pending", run_at |-> row.scheduled,
                           attempt |-> row.retries]
  BY <1>2, <1>4, <1>5, <1>6, ScheduleTouches
<1>8. /\ SessionOK(t) /\ Touched(queued, t, k)
      /\ t.rows = queued.rows /\ t.jobs = queued.jobs
      /\ t.calls = queued.calls /\ t.last = queued.last
      /\ <<k, "ACTION_SCHEDULED">> \in t.audits
  BY <1>3, <1>4, <1>6, <1>7, AuditTouches
<1>9. Touched(s, t, k)
  <2>1. Touched(s, queued, k)
    BY <1>5, <1>7, TouchedTrans
  <2> QED BY <1>7, <1>8, <2>1, TouchedTrans
<1>10. /\ t.rows[k].display = display /\ t.rows[k].retries = row.retries
       /\ t.rows[k].dead = row.dead /\ t.rows[k].scheduled = row.scheduled
  BY <1>5, <1>7, <1>8 DEF Showing, Row
<1>11. \A j : Tried(t, j) = Tried(s, j) /\ Succeeded(t, j) = Succeeded(s, j)
  BY <1>5, <1>7, <1>8, SameCalls, SessionShape
<1>12. RowOK(t, t, k)
  <2>1. JobOfRow(t, k)
    BY <1>7, <1>8, <1>10 DEF JobOfRow, Live, LiveJob, WaitingDisplay, TerminalDisplay
  <2>2. RetriesCounted(t, t, k)
    BY <1>10, <1>11 DEF RetriesCounted
  <2>3. Explained(t, t, k)
    BY <1>10, <1>11 DEF Explained, WaitingDisplay
  <2>4. Trailed(t, k)
    BY <1>8, <1>10 DEF Trailed, EventOf
  <2> QED BY <2>1, <2>2, <2>3, <2>4 DEF RowOK
<1> QED BY <1>5, <1>7, <1>8, <1>9, <1>10, <1>12

\* a wait window is over
LEMMA CompleteWaitOK ==
    ASSUME NEW s, SessionOK(s), NEW k \in Key, NEW row \in Row,
           k.strategy \in WaitStrategies, ~row.dead, row.retries <= Tried(s, k),
           NEW t, t = CompleteWait(s, k, row)
    PROVE  /\ SessionOK(t) /\ Touched(s, t, k) /\ RowOK(t, t, k)
           /\ t.calls = s.calls /\ t.last = s.last
           /\ t.rows[k].display = "SUCCESS"
<1>1. PICK saved : saved = Persist(s, k, row, "SUCCESS")
  OBVIOUS
<1>2. t = Complete(saved, k, "done")
  BY <1>1 DEF CompleteWait
<1>3. /\ "SUCCESS" \in Displays /\ "done" \in LiveJob \cup {"done", "dead_letter"}
      /\ k.strategy \notin RazorpayStrategies
  BY DEF Displays, TerminalDisplay, WaitStrategies, RazorpayStrategies
<1>4. /\ SessionOK(saved) /\ Touched(s, saved, k)
      /\ saved.rows[k] = Showing(row, "SUCCESS")
      /\ saved.calls = s.calls /\ saved.last = s.last
  BY <1>1, <1>3, PersistTouches
<1>5. k \in DOMAIN saved.rows
  BY <1>4 DEF Touched
<1>6. /\ SessionOK(t) /\ Touched(saved, t, k)
      /\ t.rows = saved.rows /\ t.calls = saved.calls /\ t.last = saved.last
      /\ DOMAIN t.jobs = DOMAIN saved.jobs
      /\ k \in DOMAIN saved.jobs => t.jobs[k].status = "done"
  BY <1>2, <1>3, <1>4, <1>5, CompleteTouches
<1>7. Touched(s, t, k)
  BY <1>4, <1>6, TouchedTrans
<1>8. /\ t.rows[k].display = "SUCCESS" /\ t.rows[k].retries = row.retries
      /\ t.rows[k].dead = row.dead
  BY <1>4, <1>6 DEF Showing, Row
<1>9. \A j : Tried(t, j) = Tried(s, j) /\ Succeeded(t, j) = Succeeded(s, j)
  BY <1>4, <1>6, SameCalls, SessionShape
<1>10. RowOK(t, t, k)
  <2>1. JobOfRow(t, k)
    BY <1>6, <1>8 DEF JobOfRow, Live, LiveJob, WaitingDisplay
  <2>2. RetriesCounted(t, t, k)
    BY <1>8, <1>9 DEF RetriesCounted
  <2>3. Explained(t, t, k)
    BY <1>3, <1>8, <1>9 DEF Explained
  <2>4. Trailed(t, k)
    BY <1>8 DEF Trailed, EventOf, WaitingDisplay
  <2> QED BY <2>1, <2>2, <2>3, <2>4 DEF RowOK
<1> QED BY <1>4, <1>6, <1>7, <1>8, <1>10

(***************************************************************************)
(* What handling one row does: it touches one key k, whose row, job, audit *)
(* events and calls fit together afterwards.                               *)
(***************************************************************************)
Handled(s, t, k) ==
    /\ SessionOK(t) /\ Touched(s, t, k) /\ RowOK(t, t, k)
    /\ t.last = s.last

\* the events that the displays call for
LEMMA EventsOf ==
    ASSUME NEW k
    PROVE  /\ \A e \in EventOf(k, "SUCCESS") : e = "ACTION_EXECUTED"
           /\ \A e \in EventOf(k, "FAILED") : e = "ACTION_EXECUTED"
           /\ \A e \in EventOf(k, "CANCELLED") : e = "ACTION_SKIPPED"
           /\ "ACTION_EXECUTED" \in Events /\ "ACTION_SKIPPED" \in Events
BY DEF EventOf, WaitingDisplay, Events

\* a failed attempt leaves a retrying row with its job, or a dead-lettered one
LEMMA BackoffOK ==
    ASSUME clock \in Nat, NEW s, SessionOK(s), NEW k \in Key, NEW row \in Row,
           ~row.dead, row.retries + 1 <= Tried(s, k),
           Tried(s, k) > Succeeded(s, k), k.strategy \in RazorpayStrategies,
           NEW delay \in Nat, NEW t, t = BackoffOrDeadLetter(s, k, row, delay)
    PROVE  /\ Handled(s, t, k) /\ t.calls = s.calls
           /\ t.rows[k].display # "SUCCESS"
<1>1. PICK tried : tried = Retried(row)
  OBVIOUS
<1>2. /\ tried \in Row /\ tried.retries = row.retries + 1 /\ ~tried.dead
  BY <1>1 DEF Retried, Row
<1>3. CASE row.retries >= MaxRetryAttempts
  <2>1. PICK buried : buried = Buried(tried)
    OBVIOUS
  <2>2. t = Audit(Complete(Persist(s, k, buried, "FAILED"), k, "dead_letter"),
                  k, "ACTION_EXECUTED")
    BY <1>1, <1>3, <2>1 DEF BackoffOrDeadLetter, DeadLetter
  <2>3. /\ buried \in Row /\ buried.retries = row.retries + 1 /\ buried.dead = TRUE
        /\ buried.retries > MaxRetryAttempts
    <3>1. row.retries \in Nat
      BY DEF Row
    <3>2. row.retries + 1 > MaxRetryAttempts
      BY <1>3, <3>1, BoundsAssumption
    <3>3. buried \in Row /\ buried.retries = tried.retries /\ buried.dead = TRUE
      BY <1>2, <2>1 DEF Row, Buried
    <3> QED BY <1>2, <3>2, <3>3
  <2>4. /\ SessionOK(t) /\ Touched(s, t, k) /\ RowOK(t, t, k)
        /\ t.calls = s.calls /\ t.last = s.last /\ t.rows[k].display = "FAILED"
    BY <2>2, <2>3, EventsOf, FinishOK
  <2> QED BY <2>4 DEF Handled
<1>4. CASE ~(row.retries >= MaxRetryAttempts)
  <2>1. PICK later : later = At(tried, clock + delay)
    OBVIOUS
  <2>2. /\ later \in Row /\ later.retries = row.retries + 1 /\ ~later.dead
        /\ later.scheduled = clock + delay
        /\ later.retries \in 1 .. MaxRetryAttempts
    BY <1>2, <1>4, <2>1, BoundsAssumption DEF Row, At
  <2>3. t = Audit(Schedule(Persist(s, k, later, "RETRYING"), k,
                           clock + delay, row.retries + 1),
                  k, "ACTION_SCHEDULED")
    BY <1>1, <1>4, <2>1 DEF BackoffOrDeadLetter, Backoff
  <2>4. t = Audit(Schedule(Persist(s, k, later, "RETRYING"), k,
                           later.scheduled, later.retries),
                  k, "ACTION_SCHEDULED")
    BY <2>2, <2>3
  <2>5. "RETRYING" \in WaitingDisplay
    BY DEF WaitingDisplay
  <2>6. /\ SessionOK(t) /\ Touched(s, t, k) /\ RowOK(t, t, k)
        /\ t.calls = s.calls /\ t.last = s.last /\ t.rows[k].display = "RETRYING"
    BY <2>2, <2>4, <2>5, WaitingOK
  <2> QED BY <2>6 DEF Handled
<1> QED BY <1>3, <1>4

\* a finalized row of k is in step: no live job, and its event in the trail
LEMMA FinalizeOK ==
    ASSUME NEW s, SessionOK(s), NEW k \in Key, NEW row \in Row, NEW event \in Events,
           NEW display \in {"SUCCESS", "FAILED", "CANCELLED"},
           ~row.dead, row.retries <= Tried(s, k),
           display = "SUCCESS" /\ k.strategy \in RazorpayStrategies => Succeeded(s, k) > 0,
           display = "FAILED" => /\ Tried(s, k) > Succeeded(s, k)
                                 /\ k.strategy \in RazorpayStrategies,
           \A e \in EventOf(k, display) : e = event,
           NEW t, t = Finalize(s, k, row, display, event)
    PROVE  /\ Handled(s, t, k) /\ t.calls = s.calls
           /\ t.rows[k].display = display
<1>1. t = Audit(Complete(Persist(s, k, row, display), k, "done"), k, event)
  BY DEF Finalize
<1>2. /\ SessionOK(t) /\ Touched(s, t, k) /\ RowOK(t, t, k)
      /\ t.calls = s.calls /\ t.last = s.last /\ t.rows[k].display = display
  BY <1>1, FinishOK
<1> QED BY <1>2 DEF Handled

\* nothing changes
LEMMA TouchedSelf ==
    ASSUME NEW s, SessionOK(s), NEW k \in DOMAIN s.rows
    PROVE  Touched(s, s, k)
<1>1. Grows(s, s)
  BY SameCalls, SessionShape
<1> QED BY <1>1 DEF Touched

\* the answer to a call that the provider has received for a row shown as SENT
LEMMA AnswerOK ==
    ASSUME clock \in Nat, NEW s, SessionOK(s), NEW k \in DOMAIN s.rows, k \in Key,
           NEW row \in Row, ~row.dead, row.retries + 1 <= Tried(s, k),
           s.rows[k] = Showing(row, "SENT"), k.strategy \in RazorpayStrategies,
           NEW out \in Outcomes \cup {"error"},
           out = "ok" => Succeeded(s, k) > 0,
           out # "ok" => Tried(s, k) > Succeeded(s, k),
           NEW delay \in Nat, NEW t, t = Answer(s, k, row, out, delay)
    PROVE  /\ Handled(s, t, k) /\ t.calls = s.calls
           /\ out = "ok" <=> t.rows[k].display = "SUCCESS"
<1>1. Tried(s, k) \in Nat /\ Succeeded(s, k) \in Nat /\ row.retries \in Nat
  BY CountsAreNat, SessionShape DEF Row
<1>2. row.retries <= Tried(s, k)
  BY <1>1
<1>3. CASE out = "ok"
  <2>1. t = Finalize(s, k, row, "SUCCESS", "ACTION_EXECUTED")
    BY <1>3 DEF Answer
  <2>2. Handled(s, t, k) /\ t.calls = s.calls /\ t.rows[k].display = "SUCCESS"
    BY <1>2, <1>3, <2>1, EventsOf, FinalizeOK
  <2> QED BY <1>3, <2>2
<1>4. CASE out = "permanent"
  <2>1. t = Finalize(s, k, row, "FAILED", "ACTION_EXECUTED")
    BY <1>4 DEF Answer
  <2>2. Handled(s, t, k) /\ t.calls = s.calls /\ t.rows[k].display = "FAILED"
    BY <1>2, <1>4, <2>1, EventsOf, FinalizeOK
  <2> QED BY <1>4, <2>2
<1>5. CASE out \in {"transient", "undelivered"}
  <2>1. t = BackoffOrDeadLetter(s, k, row, delay)
    BY <1>5 DEF Answer
  <2>2. Handled(s, t, k) /\ t.calls = s.calls /\ t.rows[k].display # "SUCCESS"
    BY <1>5, <2>1, BackoffOK
  <2> QED BY <1>5, <2>2
<1>6. CASE out = "error"
  <2>1. t = s
    BY <1>6 DEF Answer
  <2>2. /\ s.rows[k].display = "SENT" /\ s.rows[k].retries = row.retries
        /\ ~s.rows[k].dead
    BY DEF Showing, Row
  <2>3. JobOfRow(s, k)
    BY <2>2 DEF JobOfRow, WaitingDisplay, TerminalDisplay
  <2>4. RetriesCounted(s, s, k)
    BY <1>2, <2>2 DEF RetriesCounted
  <2>5. Explained(s, s, k)
    BY <1>6, <2>2 DEF Explained
  <2>6. Trailed(s, k)
    BY <2>2 DEF Trailed, EventOf, WaitingDisplay
  <2>7. RowOK(s, s, k)
    BY <2>3, <2>4, <2>5, <2>6 DEF RowOK
  <2>8. Touched(s, s, k)
    BY TouchedSelf
  <2> QED BY <1>6, <2>1, <2>2, <2>7, <2>8 DEF Handled
<1> QED BY <1>3, <1>4, <1>5, <1>6 DEF Outcomes

(***************************************************************************)
(* Sessions.  n is the number of faults so far: a key is served once, and  *)
(* again only after a fault, unless its row has been saved as SUCCESS.     *)
(***************************************************************************)
Served(s, k, n) ==
    /\ Succeeded(s, k) <= Tried(s, k)
    /\ Succeeded(s, k) <= IF k \in DOMAIN s.rows /\ s.rows[k].display = "SUCCESS"
                          THEN n + 1 ELSE n

SessionInv(s, n) ==
    /\ SessionOK(s)
    /\ TablesInv(s, s)
    /\ \A k \in Key : Served(s, k, n)

\* what s has become when the invariant holds again
Good(s, t, n) ==
    /\ SessionInv(t, n)
    /\ DOMAIN s.rows \subseteq DOMAIN t.rows
    /\ Grows(s, t)

Settled(s, k) == k \in DOMAIN s.rows /\ s.rows[k].display \in TerminalDisplay

\* a settled row of key k is left alone
Keeps(s, t, k) ==
    Settled(s, k) => /\ k \in DOMAIN t.rows
                     /\ t.rows[k] = s.rows[k]
                     /\ Tried(t, k) = Tried(s, k)

Heard(s, t) == t.last = [s.last EXCEPT !.called = TRUE]

\* a key that is not settled was served once for each fault at most
LEMMA NotYetServed ==
    ASSUME NEW n \in Nat, NEW s, SessionInv(s, n), NEW k \in Key, ~Settled(s, k)
    PROVE  /\ Succeeded(s, k) \in Nat /\ Tried(s, k) \in Nat
           /\ Succeeded(s, k) <= n /\ Succeeded(s, k) <= Tried(s, k)
<1>1. Succeeded(s, k) \in Nat /\ Tried(s, k) \in Nat
  BY CountsAreNat, SessionShape DEF SessionInv
<1>2. Served(s, k, n)
  BY DEF SessionInv
<1>3. ~(k \in DOMAIN s.rows /\ s.rows[k].display = "SUCCESS")
  BY DEF Settled, TerminalDisplay
<1> QED BY <1>1, <1>2, <1>3 DEF Served

\* a session stays good when only k changed, k is in step and not served too often
LEMMA TouchedGood ==
    ASSUME NEW n \in Nat, NEW s, SessionInv(s, n), NEW k \in Key, NEW t,
           SessionOK(t), Touched(s, t, k), RowOK(t, t, k), Served(t, k, n)
    PROVE  Good(s, t, n) /\ \A j \in Key : j # k => Keeps(s, t, j)
<1>1. TablesInv(t, t)
  BY TouchedInv DEF SessionInv
<1>2. ASSUME NEW j \in Key, j # k PROVE Served(t, j, n)
  <2>1. Served(s, j, n)
    BY DEF SessionInv
  <2>2. Tried(t, j) = Tried(s, j) /\ Succeeded(t, j) = Succeeded(s, j)
    BY <1>2 DEF Touched
  <2>3. /\ j \in DOMAIN t.rows <=> j \in DOMAIN s.rows
        /\ j \in DOMAIN s.rows => t.rows[j] = s.rows[j]
    BY <1>2 DEF Touched
  <2> QED BY <2>1, <2>2, <2>3 DEF Served
<1>3. SessionInv(t, n)
  BY <1>1, <1>2 DEF SessionInv
<1>4. DOMAIN s.rows \subseteq DOMAIN t.rows /\ Grows(s, t)
  BY DEF Touched
<1>5. ASSUME NEW j \in Key, j # k PROVE Keeps(s, t, j)
  BY <1>5 DEF Keeps, Settled, Touched
<1> QED BY <1>3, <1>4, <1>5 DEF Good

\* one row of an unsettled key is handled, without a call
LEMMA HandledGood ==
    ASSUME NEW n \in Nat, NEW s, SessionInv(s, n), NEW k \in Key, ~Settled(s, k),
           NEW t, Handled(s, t, k), t.calls = s.calls
    PROVE  Good(s, t, n) /\ \A j \in Key : Keeps(s, t, j)
<1>1. /\ Succeeded(s, k) \in Nat /\ Tried(s, k) \in Nat
      /\ Succeeded(s, k) <= n /\ Succeeded(s, k) <= Tried(s, k)
  BY NotYetServed
<1>2. Tried(t, k) = Tried(s, k) /\ Succeeded(t, k) = Succeeded(s, k)
  BY DEF Tried, Succeeded
<1>3. Served(t, k, n)
  BY <1>1, <1>2 DEF Served
<1>4. SessionOK(t) /\ Touched(s, t, k) /\ RowOK(t, t, k)
  BY DEF Handled
<1>5. Good(s, t, n) /\ \A j \in Key : j # k => Keeps(s, t, j)
  BY <1>3, <1>4, TouchedGood
<1>6. Keeps(s, t, k)
  BY DEF Keeps
<1> QED BY <1>5, <1>6

\* _dispatch of an unsettled key keeps the session good
LEMMA DispatchNowOK ==
    ASSUME clock \in Nat, NEW n \in Nat, NEW s, SessionInv(s, n), NEW p \in Plan,
           p.strategy \notin WaitStrategies, ~Settled(s, KeyOf(p)),
           NEW out \in Outcomes \cup {"error"}, NEW delay \in Nat,
           NEW t, t = DispatchNow(s, p, out, delay)
    PROVE  /\ Good(s, t, n) /\ \A j \in Key : Keeps(s, t, j)
           /\ t.last = s.last \/ (Heard(s, t) /\ p.strategy \in RazorpayStrategies)
<1>1. PICK k : k = KeyOf(p)
  OBVIOUS
<1>2. PICK row : row = Record(s, p)
  OBVIOUS
<1>3. PICK sent : sent = Persist(s, k, row, "SENT")
  OBVIOUS
<1>4. PICK eff : eff = Effective(p, out)
  OBVIOUS
<1>5. SessionOK(s) /\ TablesInv(s, s)
  BY DEF SessionInv
<1>6. k \in Key /\ row \in Row /\ ~row.dead /\ row.retries <= Tried(s, k)
  BY <1>1, <1>2, <1>5, RecordFacts
<1>7. k.strategy = p.strategy /\ p.strategy \in Strategies
  BY <1>1 DEF KeyOf, Plan
<1>8. /\ Succeeded(s, k) \in Nat /\ Tried(s, k) \in Nat
      /\ Succeeded(s, k) <= n /\ Succeeded(s, k) <= Tried(s, k)
  BY <1>1, <1>6, NotYetServed
<1>9. "SENT" \in Displays
  BY DEF Displays
<1>10. /\ SessionOK(sent) /\ Touched(s, sent, k)
       /\ sent.rows[k] = Showing(row, "SENT")
       /\ sent.calls = s.calls /\ sent.last = s.last
  BY <1>3, <1>5, <1>6, <1>9, PersistTouches
<1>11. Tried(sent, k) = Tried(s, k) /\ Succeeded(sent, k) = Succeeded(s, k)
  BY <1>10 DEF Tried, Succeeded
<1>12. CASE p.strategy = "STOP_RECOVERY"
  <2>1. t = Finalize(sent, k, row, "CANCELLED", "ACTION_SKIPPED")
    BY <1>1, <1>2, <1>3, <1>12 DEF DispatchNow
  <2>2. Handled(sent, t, k) /\ t.calls = sent.calls
    BY <1>6, <1>10, <1>11, <2>1, EventsOf, FinalizeOK
  <2>3. Touched(s, t, k)
    BY <1>5, <1>10, <2>2, TouchedTrans DEF Handled
  <2>4. Handled(s, t, k) /\ t.calls = s.calls
    BY <1>10, <2>2, <2>3 DEF Handled
  <2> QED BY <1>1, <1>6, <2>4, HandledGood DEF Handled
<1>13. CASE p.strategy = "ESCALATE_TO_HUMAN"
  <2>1. t = Finalize(sent, k, row, "SUCCESS", "ACTION_EXECUTED")
    BY <1>1, <1>2, <1>3, <1>13 DEF DispatchNow
  <2>2. k.strategy \notin RazorpayStrategies
    BY <1>7, <1>13 DEF RazorpayStrategies
  <2>3. Handled(sent, t, k) /\ t.calls = sent.calls
    BY <1>6, <1>10, <1>11, <2>1, <2>2, EventsOf, FinalizeOK
  <2>4. Touched(s, t, k)
    BY <1>5, <1>10, <2>3, TouchedTrans DEF Handled
  <2>5. Handled(s, t, k) /\ t.calls = s.calls
    BY <1>10, <2>3, <2>4 DEF Handled
  <2> QED BY <1>1, <1>6, <2>5, HandledGood DEF Handled
<1>14. CASE p.strategy \notin {"STOP_RECOVERY", "ESCALATE_TO_HUMAN"}
  <2>1. PICK called : called = Call(sent, k, eff)
    OBVIOUS
  <2>2. t = Answer(called, k, row, eff, delay)
    BY <1>1, <1>2, <1>3, <1>4, <1>14, <2>1 DEF DispatchNow
  <2>3. k.strategy \in RazorpayStrategies /\ p.strategy \in RazorpayStrategies
    BY <1>7, <1>14 DEF Strategies
  <2>4. eff \in Outcomes \cup {"error"}
    BY <1>4 DEF Effective, Outcomes
  <2>5. k \in DOMAIN sent.rows
    BY <1>10 DEF Touched
  <2>6. /\ SessionOK(called) /\ Touched(sent, called, k)
        /\ called.rows = sent.rows
        /\ called.last = [sent.last EXCEPT !.called = TRUE]
        /\ Tried(called, k) = Tried(sent, k) + 1
        /\ Succeeded(called, k) = IF eff = "ok" THEN Succeeded(sent, k) + 1
                                                ELSE Succeeded(sent, k)
    BY <1>10, <2>1, <2>5, CallTouches
  <2>7. /\ row.retries \in Nat /\ row.retries + 1 <= Tried(called, k)
        /\ eff = "ok" => Succeeded(called, k) > 0
        /\ eff # "ok" => Tried(called, k) > Succeeded(called, k)
    BY <1>6, <1>8, <1>11, <2>6 DEF Row
  <2>8. /\ Handled(called, t, k) /\ t.calls = called.calls
        /\ eff = "ok" <=> t.rows[k].display = "SUCCESS"
    <3>1. k \in DOMAIN called.rows /\ called.rows[k] = Showing(row, "SENT")
      BY <1>10, <2>5, <2>6
    <3> QED BY <1>6, <2>2, <2>3, <2>4, <2>6, <2>7, <3>1, AnswerOK
  <2>9. Touched(s, t, k)
    <3>1. Touched(s, called, k)
      BY <1>5, <1>10, <2>6, TouchedTrans
    <3> QED BY <1>5, <2>6, <2>8, <3>1, TouchedTrans DEF Handled
  <2>10. Tried(t, k) = Tried(called, k) /\ Succeeded(t, k) = Succeeded(called, k)
    BY <2>8 DEF Tried, Succeeded
  <2>11. k \in DOMAIN t.rows
    BY <2>9 DEF Touched
  <2>12. Served(t, k, n)
    BY <1>8, <1>11, <2>6, <2>8, <2>10, <2>11 DEF Served
  <2>13. Good(s, t, n) /\ \A j \in Key : j # k => Keeps(s, t, j)
    BY <1>6, <2>8, <2>9, <2>12, TouchedGood DEF Handled
  <2>14. Keeps(s, t, k)
    BY <1>1 DEF Keeps
  <2>15. Heard(s, t)
    BY <1>10, <2>6, <2>8 DEF Heard, Handled
  <2> QED BY <2>3, <2>13, <2>14, <2>15
<1> QED BY <1>12, <1>13, <1>14

\* good changes compose
LEMMA GoodTrans ==
    ASSUME NEW n, NEW s, NEW t, NEW u, SessionOK(s), Good(s, t, n), Good(t, u, n)
    PROVE  Good(s, u, n)
<1>1. Grows(s, u)
  BY GrowsTrans, SessionShape DEF Good, SessionInv
<1> QED BY <1>1 DEF Good

\* what two changes keep, both together keep
LEMMA KeepsTrans ==
    ASSUME NEW s, NEW t, NEW u, NEW k, Keeps(s, t, k), Keeps(t, u, k)
    PROVE  Keeps(s, u, k)
BY DEF Keeps, Settled

\* nothing changes, and that is good
LEMMA GoodSelf ==
    ASSUME NEW n, NEW s, SessionInv(s, n)
    PROVE  Good(s, s, n) /\ \A j \in Key : Keeps(s, s, j)
<1>1. Grows(s, s)
  BY SameCalls, SessionShape DEF SessionInv
<1> QED BY <1>1 DEF Good, Keeps, Settled

\* the fallback of a plan is a plan with its decision, and never waits
LEMMA FallbackFacts ==
    ASSUME clock \in Nat, NEW p \in Plan
    PROVE  /\ FallbackPlan(p) \in Plan
           /\ FallbackPlan(p).decision = p.decision
           /\ Cooling(FallbackPlan(p)) = Cooling(p)
           /\ FallbackPlan(p).strategy = FallbackStrategy[p.strategy]
<1>1. FallbackStrategy[p.strategy] \in Strategies
  <2>1. p.strategy \in Strategies
    BY DEF Plan
  <2> QED BY <2>1 DEF FallbackStrategy, Strategies, WaitStrategies, RazorpayStrategies
<1>2. /\ FallbackPlan(p) \in Plan
      /\ FallbackPlan(p).decision = p.decision
      /\ FallbackPlan(p).cooldown = p.cooldown
      /\ FallbackPlan(p).strategy = FallbackStrategy[p.strategy]
  BY <1>1 DEF FallbackPlan, Plan
<1> QED BY <1>2 DEF Cooling

\* a deferred run leaves a scheduled row with its job
LEMMA DeferOK ==
    ASSUME NEW n \in Nat, NEW s, SessionInv(s, n), NEW p \in Plan,
           ~Settled(s, KeyOf(p)), NEW t, t = Defer(s, p)
    PROVE  /\ Good(s, t, n) /\ \A j \in Key : Keeps(s, t, j)
           /\ t.last = s.last
<1>1. PICK k : k = KeyOf(p)
  OBVIOUS
<1>2. PICK recorded : recorded = Record(s, p)
  OBVIOUS
<1>3. PICK row : row = At(recorded, RunAt(p))
  OBVIOUS
<1>4. SessionOK(s) /\ TablesInv(s, s)
  BY DEF SessionInv
<1>5. /\ k \in Key /\ recorded \in Row /\ ~recorded.dead
      /\ recorded.retries <= Tried(s, k)
  BY <1>1, <1>2, <1>4, RecordFacts
<1>6. RunAt(p) \in Nat
  BY DEF RunAt, Plan
<1>7. /\ row \in Row /\ ~row.dead /\ row.retries = recorded.retries
      /\ row.scheduled = RunAt(p)
  BY <1>3, <1>5, <1>6 DEF At, Row
<1>8. t = Audit(Schedule(Persist(s, k, row, "SCHEDULED"), k, row.scheduled, row.retries),
                k, "ACTION_SCHEDULED")
  BY <1>1, <1>2, <1>3, <1>7 DEF Defer
<1>9. "SCHEDULED" \in WaitingDisplay
  BY DEF WaitingDisplay
<1>10. /\ SessionOK(t) /\ Touched(s, t, k) /\ RowOK(t, t, k)
       /\ t.calls = s.calls /\ t.last = s.last
  BY <1>4, <1>5, <1>7, <1>8, <1>9, WaitingOK
<1>11. Handled(s, t, k)
  BY <1>10 DEF Handled
<1> QED BY <1>1, <1>5, <1>10, <1>11, HandledGood

\* run() either ends before the dispatch, or the gates have let it through
LEMMA GatedCases ==
    ASSUME clock \in Nat, NEW n \in Nat, NEW s, SessionInv(s, n), NEW p \in Plan,
           NEW force \in BOOLEAN, NEW replay \in BOOLEAN, NEW D,
           NEW t, t = Gated(s, p, force, replay, D)
    PROVE  \/ /\ Good(s, t, n) /\ \A j \in Key : Keeps(s, t, j)
              /\ t.last = s.last
           \/ /\ t = D /\ ~Settled(s, KeyOf(p)) /\ ~Blocks(p)
              /\ replay \/ ~Defers(p, force)
<1>1. CASE IdempotentHit(s, p, replay)
  <2>1. t = s
    BY <1>1 DEF Gated
  <2> QED BY <2>1, GoodSelf
<1>2. ASSUME ~IdempotentHit(s, p, replay) PROVE ~Settled(s, KeyOf(p))
  BY <1>2 DEF IdempotentHit, Settled
<1>3. CASE ~IdempotentHit(s, p, replay) /\ Blocks(p)
  <2>1. t = Finalize(s, KeyOf(p), Record(s, p), "CANCELLED", "ACTION_SKIPPED")
    BY <1>3 DEF Gated
  <2>2. SessionOK(s) /\ TablesInv(s, s)
    BY DEF SessionInv
  <2>3. PICK row : row = Record(s, p)
    OBVIOUS
  <2>4. /\ KeyOf(p) \in Key /\ row \in Row /\ ~row.dead
        /\ row.retries <= Tried(s, KeyOf(p))
    BY <2>2, <2>3, RecordFacts
  <2>5. Handled(s, t, KeyOf(p)) /\ t.calls = s.calls
    BY <2>1, <2>2, <2>3, <2>4, EventsOf, FinalizeOK
  <2> QED BY <1>2, <1>3, <2>4, <2>5, HandledGood DEF Handled
<1>4. CASE /\ ~IdempotentHit(s, p, replay) /\ ~Blocks(p)
           /\ Defers(p, force) /\ ~replay
  <2>1. t = Defer(s, p)
    BY <1>4 DEF Gated
  <2> QED BY <1>2, <1>4, <2>1, DeferOK
<1>5. CASE /\ ~IdempotentHit(s, p, replay) /\ ~Blocks(p)
           /\ ~(Defers(p, force) /\ ~replay)
  <2>1. t = D
    BY <1>5 DEF Gated
  <2> QED BY <1>2, <1>5, <2>1
<1> QED BY <1>1, <1>3, <1>4, <1>5

Allowed(p) == p.decision \in {"ALLOW", "WAIT"}

\* what the gates let through was allowed, or told to wait
LEMMA NotBlocked ==
    ASSUME NEW p \in Plan, ~Blocks(p), p.strategy \in RazorpayStrategies
    PROVE  Allowed(p)
BY DEF Blocks, Allowed, Plan, Decisions, RazorpayStrategies

\* run() of a plan that does not wait keeps the session good
LEMMA RunNowOK ==
    ASSUME clock \in Nat, NEW n \in Nat, NEW s, SessionInv(s, n), NEW p \in Plan,
           p.strategy \notin WaitStrategies,
           NEW out \in Outcomes \cup {"error"}, NEW delay \in Nat,
           NEW t, t = RunNow(s, p, out, delay)
    PROVE  /\ Good(s, t, n) /\ \A j \in Key : Keeps(s, t, j)
           /\ t.last = s.last \/ (Heard(s, t) /\ Allowed(p) /\ ~Cooling(p))
<1>1. PICK D : D = DispatchNow(s, p, out, delay)
  OBVIOUS
<1>0. PICK no \in BOOLEAN : no = FALSE
  OBVIOUS
<1>2. t = Gated(s, p, no, no, D)
  BY <1>0, <1>1 DEF RunNow
<1>3. \/ /\ Good(s, t, n) /\ \A j \in Key : Keeps(s, t, j)
         /\ t.last = s.last
      \/ t = D /\ ~Settled(s, KeyOf(p)) /\ ~Blocks(p) /\ (no \/ ~Defers(p, no))
  BY <1>2, GatedCases
<1>4. CASE /\ Good(s, t, n) /\ \A j \in Key : Keeps(s, t, j)
           /\ t.last = s.last
  BY <1>4
<1>5. CASE t = D /\ ~Settled(s, KeyOf(p)) /\ ~Blocks(p) /\ ~Defers(p, no)
  <2>1. /\ Good(s, t, n) /\ \A j \in Key : Keeps(s, t, j)
        /\ t.last = s.last \/ (Heard(s, t) /\ p.strategy \in RazorpayStrategies)
    BY <1>1, <1>5, DispatchNowOK
  <2>2. ~Cooling(p)
    BY <1>5 DEF Defers
  <2> QED BY <1>5, <2>1, <2>2, NotBlocked
<1> QED BY <1>0, <1>3, <1>4, <1>5

\* a wait that is over, and the run of its fallback
LEMMA ThenFallback ==
    ASSUME clock \in Nat, NEW n \in Nat, NEW s, SessionInv(s, n), NEW p \in Plan,
           FallbackStrategy[p.strategy] \notin WaitStrategies,
           NEW mid, Good(s, mid, n), mid.last = s.last,
           NEW out \in Outcomes \cup {"error"}, NEW delay \in Nat,
           NEW t, t = RunNow(mid, FallbackPlan(p), out, delay)
    PROVE  /\ Good(s, t, n) /\ \A j \in Key : Keeps(s, mid, j) => Keeps(s, t, j)
           /\ t.last = s.last \/ (Heard(s, t) /\ Allowed(p) /\ ~Cooling(p))
<1>1. SessionInv(mid, n) /\ SessionOK(s)
  BY DEF Good, SessionInv
<1>2. PICK q : q = FallbackPlan(p)
  OBVIOUS
<1>3. /\ q \in Plan /\ q.strategy \notin WaitStrategies
      /\ q.decision = p.decision /\ Cooling(q) = Cooling(p)
  BY <1>2, FallbackFacts
<1>4. /\ Good(mid, t, n) /\ \A j \in Key : Keeps(mid, t, j)
      /\ t.last = mid.last \/ (Heard(mid, t) /\ Allowed(q) /\ ~Cooling(q))
  BY <1>1, <1>2, <1>3, RunNowOK
<1>5. Good(s, t, n)
  BY <1>1, <1>4, GoodTrans
<1>6. \A j \in Key : Keeps(s, mid, j) => Keeps(s, t, j)
  BY <1>4, KeepsTrans
<1>7. t.last = s.last \/ (Heard(s, t) /\ Allowed(p) /\ ~Cooling(p))
  BY <1>3, <1>4 DEF Heard, Allowed
<1> QED BY <1>5, <1>6, <1>7

\* _dispatch of a wait keeps the session good
LEMMA DispatchWaitOK ==
    ASSUME clock \in Nat, NEW n \in Nat, NEW s, SessionInv(s, n), NEW p \in Plan,
           p.strategy \in WaitStrategies, ~Settled(s, KeyOf(p)),
           NEW out \in Outcomes \cup {"error"}, NEW delay \in Nat,
           NEW t, t = DispatchWait(s, p, out, delay)
    PROVE  /\ Good(s, t, n) /\ \A j \in Key : Keeps(s, t, j)
           /\ t.last = s.last \/ (Heard(s, t) /\ Allowed(p) /\ ~Cooling(p))
<1>1. PICK k : k = KeyOf(p)
  OBVIOUS
<1>2. PICK row : row = Record(s, p)
  OBVIOUS
<1>3. SessionOK(s) /\ TablesInv(s, s)
  BY DEF SessionInv
<1>4. k \in Key /\ row \in Row /\ ~row.dead /\ row.retries <= Tried(s, k)
  BY <1>1, <1>2, <1>3, RecordFacts
<1>5. k.strategy \in WaitStrategies /\ k.strategy \notin RazorpayStrategies
  BY <1>1 DEF KeyOf, WaitStrategies, RazorpayStrategies
<1>6. CASE HasFallback(p, p.strategy)
  <2>1. PICK mid : mid = CompleteWait(s, k, row)
    OBVIOUS
  <2>2. t = RunNow(mid, FallbackPlan(p), out, delay)
    BY <1>1, <1>2, <1>6, <2>1 DEF DispatchWait
  <2>3. /\ SessionOK(mid) /\ Touched(s, mid, k) /\ RowOK(mid, mid, k)
        /\ mid.calls = s.calls /\ mid.last = s.last
    BY <1>3, <1>4, <1>5, <2>1, CompleteWaitOK
  <2>4. Handled(s, mid, k)
    BY <2>3 DEF Handled
  <2>5. Good(s, mid, n) /\ \A j \in Key : Keeps(s, mid, j)
    BY <1>1, <1>4, <2>3, <2>4, HandledGood
  <2>6. FallbackStrategy[p.strategy] \notin WaitStrategies
    BY <1>6 DEF HasFallback
  <2> QED BY <2>2, <2>3, <2>5, <2>6, ThenFallback
<1>7. CASE ~HasFallback(p, p.strategy)
  <2>1. t = Finalize(s, k, row, "SUCCESS", "ACTION_EXECUTED")
    BY <1>1, <1>2, <1>7 DEF DispatchWait
  <2>2. Handled(s, t, k) /\ t.calls = s.calls
    BY <1>3, <1>4, <1>5, <2>1, EventsOf, FinalizeOK
  <2> QED BY <1>1, <1>4, <2>2, HandledGood DEF Handled
<1> QED BY <1>6, <1>7

\* run() of any plan keeps the session good, and calls only what the gates allow
LEMMA RunOK ==
    ASSUME clock \in Nat, NEW n \in Nat, NEW s, SessionInv(s, n), NEW p \in Plan,
           NEW force \in BOOLEAN, NEW replay \in BOOLEAN,
           NEW out \in Outcomes \cup {"error"}, NEW delay \in Nat,
           NEW t, t = Run(s, p, force, replay, out, delay)
    PROVE  /\ Good(s, t, n) /\ \A j \in Key : Keeps(s, t, j)
           /\ \/ t.last = s.last
              \/ /\ Heard(s, t) /\ Allowed(p)
                 /\ replay \/ (~force /\ ~Cooling(p))
<1>1. PICK D : D = IF p.strategy \in WaitStrategies
                   THEN DispatchWait(s, p, out, delay)
                   ELSE DispatchNow(s, p, out, delay)
  OBVIOUS
<1>2. t = Gated(s, p, force, replay, D)
  BY <1>1 DEF Run
<1>3. CASE /\ Good(s, t, n) /\ \A j \in Key : Keeps(s, t, j)
           /\ t.last = s.last
  BY <1>3
<1>4. CASE /\ t = D /\ ~Settled(s, KeyOf(p)) /\ ~Blocks(p)
           /\ replay \/ ~Defers(p, force)
  <2>1. replay \/ (~force /\ ~Cooling(p))
    BY <1>4 DEF Defers
  <2>2. CASE p.strategy \in WaitStrategies
    <3>1. t = DispatchWait(s, p, out, delay)
      BY <1>1, <1>4, <2>2
    <3>2. /\ Good(s, t, n) /\ \A j \in Key : Keeps(s, t, j)
          /\ t.last = s.last \/ (Heard(s, t) /\ Allowed(p) /\ ~Cooling(p))
      BY <1>4, <2>2, <3>1, DispatchWaitOK
    <3> QED BY <2>1, <3>2
  <2>3. CASE p.strategy \notin WaitStrategies
    <3>1. t = DispatchNow(s, p, out, delay)
      BY <1>1, <1>4, <2>3
    <3>2. /\ Good(s, t, n) /\ \A j \in Key : Keeps(s, t, j)
          /\ t.last = s.last \/ (Heard(s, t) /\ p.strategy \in RazorpayStrategies)
      BY <1>4, <2>3, <3>1, DispatchNowOK
    <3> QED BY <1>4, <2>1, <3>2, NotBlocked
  <2> QED BY <2>2, <2>3
<1> QED BY <1>2, <1>3, <1>4, GatedCases

\* run_due of a due row keeps the session good
LEMMA RunDueOK ==
    ASSUME clock \in Nat, NEW n \in Nat, NEW s, SessionInv(s, n),
           NEW d \in DOMAIN s.rows, NEW p \in Plan,
           NEW out \in Outcomes \cup {"error"}, NEW delay \in Nat,
           NEW t, t = RunDue(s, d, p, out, delay)
    PROVE  /\ Good(s, t, n) /\ \A j \in Key : j # d => Keeps(s, t, j)
           /\ t.last = s.last \/ (Heard(s, t) /\ Allowed(p))
<1>1. SessionOK(s) /\ TablesInv(s, s)
  BY DEF SessionInv
<1>2. CASE d.strategy \in WaitStrategies /\ s.rows[d].scheduled <= clock
  <2>1. PICK mid : mid = CompleteWait(s, d, s.rows[d])
    OBVIOUS
  <2>2. d \in Key /\ s.rows[d] \in Row
    BY <1>1 DEF SessionOK, TablesOK, IsTable
  <2>3. s.rows[d].retries <= Tried(s, d) /\ ~s.rows[d].dead
    <3>1. RetriesCounted(s, s, d) /\ Explained(s, s, d)
      BY <1>1 DEF TablesInv, RowOK
    <3>2. d.strategy \notin RazorpayStrategies
      BY <1>2 DEF WaitStrategies, RazorpayStrategies
    <3> QED BY <3>1, <3>2 DEF RetriesCounted, Explained
  <2>4. /\ SessionOK(mid) /\ Touched(s, mid, d) /\ RowOK(mid, mid, d)
        /\ mid.calls = s.calls /\ mid.last = s.last
        /\ mid.rows[d].display = "SUCCESS"
    BY <1>1, <1>2, <2>1, <2>2, <2>3, CompleteWaitOK
  <2>5. Served(mid, d, n)
    <3>1. Served(s, d, n)
      BY <2>2 DEF SessionInv
    <3>2. Tried(mid, d) = Tried(s, d) /\ Succeeded(mid, d) = Succeeded(s, d)
      BY <2>4 DEF Tried, Succeeded
    <3>3. Succeeded(s, d) \in Nat
      BY <1>1, CountsAreNat, SessionShape
    <3>4. d \in DOMAIN mid.rows
      BY <2>4 DEF Touched
    <3> QED BY <2>4, <3>1, <3>2, <3>3, <3>4 DEF Served
  <2>6. Good(s, mid, n) /\ \A j \in Key : j # d => Keeps(s, mid, j)
    BY <2>2, <2>4, <2>5, TouchedGood
  <2>7. CASE HasFallback(p, d.strategy)
    <3>1. t = RunNow(mid, FallbackPlan(p), out, delay)
      BY <1>2, <2>1, <2>7 DEF RunDue
    <3>2. FallbackStrategy[p.strategy] \notin WaitStrategies
      BY <2>7 DEF HasFallback
    <3>3. /\ Good(s, t, n) /\ \A j \in Key : Keeps(s, mid, j) => Keeps(s, t, j)
          /\ t.last = s.last \/ (Heard(s, t) /\ Allowed(p) /\ ~Cooling(p))
      BY <2>4, <2>6, <3>1, <3>2, ThenFallback
    <3> QED BY <2>6, <3>3
  <2>8. CASE ~HasFallback(p, d.strategy)
    <3>1. t = mid
      BY <1>2, <2>1, <2>8 DEF RunDue
    <3> QED BY <2>4, <2>6, <3>1
  <2> QED BY <2>7, <2>8
<1>3. CASE ~(d.strategy \in WaitStrategies /\ s.rows[d].scheduled <= clock)
  <2>1. PICK force \in BOOLEAN, replay \in BOOLEAN : force = FALSE /\ replay = TRUE
    OBVIOUS
  <2>2. t = Run(s, p, force, replay, out, delay)
    BY <1>3, <2>1 DEF RunDue
  <2>3. /\ Good(s, t, n) /\ \A j \in Key : Keeps(s, t, j)
        /\ t.last = s.last \/ (Heard(s, t) /\ Allowed(p))
    BY <2>2, RunOK
  <2> QED BY <2>3
<1> QED BY <1>2, <1>3

(***************************************************************************)
(* Steps that leave the rows alone.                                        *)
(***************************************************************************)
\* a change of the observation only
LEMMA SameTables ==
    ASSUME NEW n, NEW s, SessionInv(s, n), NEW t, Shape(t), t.last \in Observation,
           t.rows = s.rows, t.jobs = s.jobs, t.audits = s.audits, t.calls = s.calls
    PROVE  Good(s, t, n) /\ \A j \in Key : Keeps(s, t, j)
<1>1. /\ Shape(s) /\ TablesOK(s) /\ IsTable(s.calls, Received)
      /\ TablesInv(s, s)
  BY SessionShape DEF SessionInv
<1>2. SessionOK(t)
  BY <1>1, SessionShape DEF TablesOK
<1>3. Grows(s, t) /\ \A j : Tried(t, j) = Tried(s, j) /\ Succeeded(t, j) = Succeeded(s, j)
  BY <1>1, SameCalls
<1>4. TablesInv(t, t)
  <2>1. SUFFICES ASSUME NEW k \in DOMAIN t.rows PROVE RowOK(t, t, k)
    BY <1>1 DEF TablesInv
  <2>2. RowOK(s, s, k)
    BY <1>1 DEF TablesInv
  <2>3. JobOfRow(t, k) /\ Trailed(t, k)
    BY <2>2 DEF RowOK, JobOfRow, Live, Trailed
  <2>4. RetriesCounted(t, t, k) /\ Explained(t, t, k)
    BY <1>3, <2>2 DEF RowOK, RetriesCounted, Explained
  <2> QED BY <2>3, <2>4 DEF RowOK
<1>5. \A k \in Key : Served(t, k, n)
  BY <1>3 DEF SessionInv, Served
<1>6. \A j \in Key : Keeps(s, t, j)
  BY <1>3 DEF Keeps, Settled
<1> QED BY <1>2, <1>3, <1>4, <1>5, <1>6 DEF Good, SessionInv

\* a run begins: nothing is called yet
LEMMA BeginOK ==
    ASSUME NEW n, NEW s, SessionInv(s, n), NEW p \in Plan, NEW via \in Vias,
           NEW t, t = Begin(s, p, via)
    PROVE  /\ Good(s, t, n) /\ \A j \in Key : Keeps(s, t, j)
           /\ t.last = [via |-> via, decision |-> p.decision,
                        cooling |-> Cooling(p), called |-> FALSE]
           /\ t.rows = s.rows
<1>1. Shape(s)
  BY SessionShape DEF SessionInv
<1>2. /\ Shape(t) /\ t.rows = s.rows /\ t.jobs = s.jobs
      /\ t.audits = s.audits /\ t.calls = s.calls
      /\ t.last = [via |-> via, decision |-> p.decision,
                   cooling |-> p.cooldown > clock, called |-> FALSE]
  BY <1>1 DEF Shape, Begin
<1>3. t.last \in Observation
  BY <1>2 DEF Observation, Plan
<1>4. Good(s, t, n) /\ \A j \in Key : Keeps(s, t, j)
  BY <1>2, <1>3, SameTables
<1> QED BY <1>2, <1>4 DEF Cooling

\* the idle observation is well formed
LEMMA IdleOK == Idle \in Observation /\ Gate(Idle)
BY DEF Idle, Observation, Vias, Decisions, Gate

\* a run ends: what it called is remembered
LEMMA EndOK ==
    ASSUME NEW n, NEW s, SessionInv(s, n), Gate(s.last), NEW t, t = End(s)
    PROVE  /\ Good(s, t, n) /\ \A j \in Key : Keeps(s, t, j)
           /\ Gate(t.last)
<1>1. CASE s.last.called
  <2>1. t = s
    BY <1>1 DEF End
  <2> QED BY <2>1, GoodSelf
<1>2. CASE ~s.last.called
  <2>1. Shape(s)
    BY SessionShape DEF SessionInv
  <2>2. t = [s EXCEPT !.last = Idle]
    BY <1>2 DEF End
  <2>3. /\ Shape(t) /\ t.rows = s.rows /\ t.jobs = s.jobs
        /\ t.audits = s.audits /\ t.calls = s.calls /\ t.last = Idle
    BY <2>1, <2>2 DEF Shape
  <2> QED BY <2>3, IdleOK, SameTables
<1> QED BY <1>1, <1>2

\* the last run is forgotten
LEMMA IdledOK ==
    ASSUME NEW n, NEW s, SessionInv(s, n), NEW t, t = [s EXCEPT !.last = Idle]
    PROVE  /\ Good(s, t, n) /\ \A j \in Key : Keeps(s, t, j)
           /\ t.last = Idle
           /\ t.rows = s.rows /\ t.jobs = s.jobs /\ t.audits = s.audits
<1>1. Shape(s)
  BY SessionShape DEF SessionInv
<1>2. /\ Shape(t) /\ t.rows = s.rows /\ t.jobs = s.jobs
      /\ t.audits = s.audits /\ t.calls = s.calls /\ t.last = Idle
  BY <1>1 DEF Shape
<1> QED BY <1>2, IdleOK, SameTables

\* what is remembered once the provider is called
LEMMA HeardFields ==
    ASSUME NEW o \in Observation, NEW q, q = [o EXCEPT !.called = TRUE]
    PROVE  /\ q.via = o.via /\ q.decision = o.decision
           /\ q.cooling = o.cooling /\ q.called = TRUE
BY DEF Observation

\* a request: the run of plan p, remembered with what called for it
LEMMA BegunRunOK ==
    ASSUME clock \in Nat, NEW n \in Nat, NEW s, SessionInv(s, n), NEW p \in Plan,
           NEW via \in Vias, NEW out \in Outcomes \cup {"error"}, NEW delay \in Nat,
           NEW t, t = Handle(s, p, via, out, delay)
    PROVE  /\ Good(s, t, n) /\ \A j \in Key : Keeps(s, t, j)
           /\ Gate(t.last)
<1>1. PICK b : b = Begin(s, p, via)
  OBVIOUS
<1>2. /\ Good(s, b, n) /\ \A j \in Key : Keeps(s, b, j)
      /\ b.last = [via |-> via, decision |-> p.decision,
                   cooling |-> Cooling(p), called |-> FALSE]
  BY <1>1, BeginOK
<1>3. SessionInv(b, n) /\ SessionOK(s)
  BY <1>2 DEF Good, SessionInv
<1>4. PICK force \in BOOLEAN, replay \in BOOLEAN :
        force = (via = "schedule") /\ replay = (via = "replay")
  OBVIOUS
<1>5. t = Run(b, p, force, replay, out, delay)
  BY <1>1, <1>4 DEF Handle
<1>6. /\ Good(b, t, n) /\ \A j \in Key : Keeps(b, t, j)
      /\ \/ t.last = b.last
         \/ /\ Heard(b, t) /\ Allowed(p)
            /\ replay \/ (~force /\ ~Cooling(p))
  BY <1>3, <1>5, RunOK
<1>7. Good(s, t, n) /\ \A j \in Key : Keeps(s, t, j)
  BY <1>2, <1>3, <1>6, GoodTrans, KeepsTrans
<1>8. Gate(t.last)
  <2>1. CASE t.last = b.last
    BY <1>2, <2>1 DEF Gate
  <2>2. CASE Heard(b, t) /\ Allowed(p) /\ (replay \/ (~force /\ ~Cooling(p)))
    <3>1. b.last \in Observation
      BY <1>3, SessionShape DEF SessionInv
    <3>2. /\ t.last.via = via /\ t.last.decision = p.decision
          /\ t.last.cooling = Cooling(p)
      BY <1>2, <2>2, <3>1, HeardFields DEF Heard
    <3> QED BY <1>4, <2>2, <3>2 DEF Gate, Allowed
  <2> QED BY <1>6, <2>1, <2>2
<1> QED BY <1>7, <1>8

\* a due row of the tick
LEMMA BegunDueOK ==
    ASSUME clock \in Nat, NEW n \in Nat, NEW s, SessionInv(s, n),
           NEW d \in DOMAIN s.rows, NEW p \in Plan,
           NEW out \in Outcomes \cup {"error"}, NEW delay \in Nat,
           NEW t, t = RunDue(Begin(s, p, "tick"), d, p, out, delay)
    PROVE  /\ Good(s, t, n) /\ \A j \in Key : j # d => Keeps(s, t, j)
           /\ Gate(t.last)
<1>1. PICK b : b = Begin(s, p, "tick")
  OBVIOUS
<1>2. "tick" \in Vias
  BY DEF Vias
<1>3. /\ Good(s, b, n) /\ \A j \in Key : Keeps(s, b, j)
      /\ b.last = [via |-> "tick", decision |-> p.decision,
                   cooling |-> Cooling(p), called |-> FALSE]
      /\ b.rows = s.rows
  BY <1>1, <1>2, BeginOK
<1>4. SessionInv(b, n) /\ SessionOK(s) /\ d \in DOMAIN b.rows
  BY <1>3 DEF Good, SessionInv
<1>5. t = RunDue(b, d, p, out, delay)
  BY <1>1
<1>6. /\ Good(b, t, n) /\ \A j \in Key : j # d => Keeps(b, t, j)
      /\ t.last = b.last \/ (Heard(b, t) /\ Allowed(p))
  BY <1>4, <1>5, RunDueOK
<1>7. Good(s, t, n) /\ \A j \in Key : j # d => Keeps(s, t, j)
  BY <1>3, <1>4, <1>6, GoodTrans, KeepsTrans
<1>8. Gate(t.last)
  <2>1. CASE t.last = b.last
    BY <1>3, <2>1 DEF Gate
  <2>2. CASE Heard(b, t) /\ Allowed(p)
    <3>1. b.last \in Observation
      BY <1>4, SessionShape DEF SessionInv
    <3>2. /\ t.last.via = "tick" /\ t.last.decision = p.decision
          /\ t.last.cooling = Cooling(p)
      BY <1>3, <2>2, <3>1, HeardFields DEF Heard
    <3> QED BY <2>2, <3>2 DEF Gate, Allowed
  <2> QED BY <1>6, <2>1, <2>2
<1> QED BY <1>7, <1>8

\* jobs change hands between "pending" and "running", and nothing else does
LEMMA JobsMoved ==
    ASSUME NEW n, NEW s, SessionInv(s, n), NEW t, Shape(t), IsTable(t.jobs, Job),
           t.rows = s.rows, t.audits = s.audits, t.calls = s.calls, t.last \in Observation,
           DOMAIN t.jobs = DOMAIN s.jobs,
           \A k \in DOMAIN s.jobs :
               \/ t.jobs[k] = s.jobs[k]
               \/ /\ s.jobs[k].status \in LiveJob /\ t.jobs[k].status \in LiveJob
                  /\ t.jobs[k].run_at = s.jobs[k].run_at
                  /\ t.jobs[k].attempt = s.jobs[k].attempt
    PROVE  Good(s, t, n) /\ \A j \in Key : Keeps(s, t, j)
<1>1. /\ Shape(s) /\ TablesOK(s) /\ IsTable(s.calls, Received)
      /\ TablesInv(s, s)
  BY SessionShape DEF SessionInv
<1>2. SessionOK(t)
  BY <1>1, SessionShape DEF TablesOK
<1>3. Grows(s, t) /\ \A j : Tried(t, j) = Tried(s, j) /\ Succeeded(t, j) = Succeeded(s, j)
  BY <1>1, SameCalls
<1>4. TablesInv(t, t)
  <2>1. SUFFICES ASSUME NEW k \in DOMAIN t.rows PROVE RowOK(t, t, k)
    BY <1>1 DEF TablesInv
  <2>2. RowOK(s, s, k)
    BY <1>1 DEF TablesInv
  <2>3. Trailed(t, k)
    BY <2>2 DEF RowOK, Trailed
  <2>4. RetriesCounted(t, t, k) /\ Explained(t, t, k)
    BY <1>3, <2>2 DEF RowOK, RetriesCounted, Explained
  <2>5. Live(t, k) <=> Live(s, k)
    BY DEF Live
  <2>6. JobOfRow(t, k)
    <3>1. JobOfRow(s, k) /\ (s.rows[k].dead => s.rows[k].display = "FAILED")
      BY <2>2 DEF RowOK, RetriesCounted
    <3>2. CASE k \in DOMAIN s.jobs /\ t.jobs[k] # s.jobs[k]
      <4>1. Live(s, k) /\ ~s.rows[k].dead
        BY <3>1, <3>2 DEF JobOfRow, Live
      <4> QED BY <2>5, <3>1, <3>2, <4>1 DEF JobOfRow
    <3>3. CASE ~(k \in DOMAIN s.jobs /\ t.jobs[k] # s.jobs[k])
      BY <2>5, <3>1, <3>3 DEF JobOfRow, Live
    <3> QED BY <3>2, <3>3
  <2> QED BY <2>3, <2>4, <2>6 DEF RowOK
<1>5. \A k \in Key : Served(t, k, n)
  BY <1>3 DEF SessionInv, Served
<1>6. \A j \in Key : Keeps(s, t, j)
  BY <1>3 DEF Keeps, Settled
<1> QED BY <1>2, <1>3, <1>4, <1>5, <1>6 DEF Good, SessionInv

\* a claimed job given back is live as before
LEMMA ReleaseOK ==
    ASSUME NEW n, NEW s, SessionInv(s, n), NEW k \in DOMAIN s.rows,
           NEW t, t = Release(s, k)
    PROVE  /\ Good(s, t, n) /\ \A j \in Key : Keeps(s, t, j)
           /\ t.last = s.last
<1>1. CASE k \in DOMAIN s.jobs /\ s.jobs[k].status = "running"
  <2>1. t = Complete(s, k, "pending")
    BY <1>1 DEF Release
  <2>2. /\ Shape(s) /\ IsTable(s.jobs, Job) /\ s.last \in Observation
        /\ "pending" \in LiveJob \cup {"done", "dead_letter"}
        /\ "pending" \in LiveJob /\ "running" \in LiveJob
    BY SessionShape DEF SessionInv, TablesOK, LiveJob
  <2>3. /\ Shape(t) /\ t.jobs = SetStatus(s.jobs, k, "pending")
        /\ t.rows = s.rows /\ t.audits = s.audits /\ t.calls = s.calls /\ t.last = s.last
    BY <2>1, <2>2, CompleteFields
  <2>4. /\ IsTable(t.jobs, Job) /\ DOMAIN t.jobs = DOMAIN s.jobs
        /\ \A j \in DOMAIN s.jobs : j # k => t.jobs[j] = s.jobs[j]
        /\ t.jobs[k].status = "pending"
        /\ t.jobs[k].run_at = s.jobs[k].run_at
        /\ t.jobs[k].attempt = s.jobs[k].attempt
    BY <1>1, <2>2, <2>3, SetStatusTable
  <2> QED BY <1>1, <2>2, <2>3, <2>4, JobsMoved
<1>2. CASE ~(k \in DOMAIN s.jobs /\ s.jobs[k].status = "running")
  <2>1. t = s
    BY <1>2 DEF Release
  <2> QED BY <2>1, GoodSelf
<1> QED BY <1>1, <1>2

\* a claimed job is live as before
LEMMA ClaimOK ==
    ASSUME NEW n, NEW s, SessionInv(s, n), NEW now,
           NEW t, t = ClaimDue(s, now)
    PROVE  /\ Good(s, t, n) /\ \A j \in Key : Keeps(s, t, j)
           /\ t.rows = s.rows
<1>1. Shape(s) /\ IsTable(s.jobs, Job) /\ s.last \in Observation
  BY SessionShape DEF SessionInv, TablesOK
<1>2. PICK J : J = [k \in DOMAIN s.jobs |->
                        IF k \in DueJobs(s, now) THEN [s.jobs[k] EXCEPT !.status = "running"]
                                                 ELSE s.jobs[k]]
  OBVIOUS
<1>3. t = [s EXCEPT !.jobs = J]
  BY <1>2 DEF ClaimDue
<1>4. /\ Shape(t) /\ t.jobs = J /\ t.rows = s.rows /\ t.audits = s.audits
      /\ t.calls = s.calls /\ t.last = s.last
  BY <1>1, <1>3 DEF Shape
<1>5. \A k : k \in DueJobs(s, now) => s.jobs[k].status = "pending"
  BY DEF DueJobs
<1>6. IsTable(J, Job) /\ DOMAIN J = DOMAIN s.jobs
  BY <1>1, <1>2 DEF IsTable, Job, LiveJob
<1>7. ASSUME NEW k \in DOMAIN s.jobs
      PROVE  \/ J[k] = s.jobs[k]
             \/ /\ s.jobs[k].status \in LiveJob /\ J[k].status \in LiveJob
                /\ J[k].run_at = s.jobs[k].run_at
                /\ J[k].attempt = s.jobs[k].attempt
  <2>1. s.jobs[k] \in Job
    BY <1>1 DEF IsTable
  <2>2. CASE k \in DueJobs(s, now)
    <3>1. J[k] = [s.jobs[k] EXCEPT !.status = "running"]
      BY <1>2, <2>2
    <3> QED BY <1>5, <2>1, <2>2, <3>1 DEF Job, LiveJob
  <2>3. CASE k \notin DueJobs(s, now)
    BY <1>2, <2>3
  <2> QED BY <2>2, <2>3
<1> QED BY <1>1, <1>4, <1>6, <1>7, JobsMoved

\* what policy and planner return are plans
LEMMA PlansArePlan ==
    ASSUME clock \in Nat, NEW c \in Cases, NEW p \in Plans(c)
    PROVE  p \in Plan
<1>1. /\ clock .. clock + MaxLead \subseteq Nat /\ clock + 1 .. clock + MaxLead \subseteq Nat
      /\ {NoCooldown} \subseteq Nat /\ "WAIT" \in Decisions
  BY BoundsAssumption DEF NoCooldown, Decisions
<1>2. /\ p \in Drafts(c, Decisions, {NoCooldown}) \cup Drafts(c, {"WAIT"}, clock + 1 .. clock + MaxLead)
      /\ Offered(p, clock)
  BY DEF Plans
<1>3. p.strategy \in Strategies
  BY <1>2 DEF Offered, AllowOffer, CooldownOffer, OutageOffer, BlockOffer, Contacts, Escalates,
              Stops, Strategies, WaitStrategies, RazorpayStrategies
<1>4. p \in [case : {c}, strategy : Planned, slot : Nat, decision : Decisions, cooldown : Nat]
  BY <1>1, <1>2 DEF Drafts
<1> QED BY <1>3, <1>4 DEF Plan

(***************************************************************************)
(* The durable tables, while the provider hears more.                      *)
(***************************************************************************)
\* the durable tables stay explained while the provider hears more
LEMMA GrowsInv ==
    ASSUME NEW t, NEW s, NEW u, TablesOK(t), TablesInv(t, s), Grows(s, u),
           IsTable(s.calls, Received), IsTable(u.calls, Received)
    PROVE  TablesInv(t, u)
<1>1. SUFFICES ASSUME NEW k \in DOMAIN t.rows PROVE RowOK(t, u, k)
  BY DEF TablesInv
<1>2. RowOK(t, s, k)
  BY DEF TablesInv
<1>3. k \in Key /\ t.rows[k].retries \in Nat
  BY DEF TablesOK, IsTable, Row
<1>4. /\ Tried(s, k) \in Nat /\ Succeeded(s, k) \in Nat
      /\ Tried(u, k) \in Nat /\ Succeeded(u, k) \in Nat
  BY CountsAreNat
<1>5. /\ Succeeded(s, k) <= Succeeded(u, k)
      /\ Tried(s, k) - Succeeded(s, k) <= Tried(u, k) - Succeeded(u, k)
  BY <1>3 DEF Grows
<1>6. RetriesCounted(t, u, k)
  <2>1. Tried(s, k) <= Tried(u, k)
    BY <1>4, <1>5
  <2> QED BY <1>2, <1>3, <1>4, <2>1 DEF RowOK, RetriesCounted
<1>7. Explained(t, u, k)
  BY <1>2, <1>4, <1>5 DEF RowOK, Explained
<1> QED BY <1>2, <1>6, <1>7 DEF RowOK

\* tables with the same rows, jobs and events are in step alike
LEMMA SameRows ==
    ASSUME NEW t, NEW u, u.rows = t.rows, u.jobs = t.jobs, u.audits = t.audits
    PROVE  /\ TablesOK(t) => TablesOK(u)
           /\ \A s : TablesInv(t, s) => TablesInv(u, s)
<1>1. TablesOK(t) => TablesOK(u)
  BY DEF TablesOK
<1>2. ASSUME NEW s, TablesInv(t, s) PROVE TablesInv(u, s)
  BY <1>2 DEF TablesInv, RowOK, JobOfRow, Live, RetriesCounted, Explained, Trailed
<1> QED BY <1>1, <1>2

\* a commit copies the tables
LEMMA DurableFacts ==
    ASSUME NEW s, NEW d, d = Durable(s)
    PROVE  /\ d.rows = s.rows /\ d.jobs = s.jobs /\ d.audits = s.audits
           /\ d = Durable(d)
           /\ TablesOK(s) => TablesOK(d)
           /\ \A u : TablesInv(s, u) => TablesInv(d, u)
<1>1. d.rows = s.rows /\ d.jobs = s.jobs /\ d.audits = s.audits
  BY DEF Durable
<1>2. d = Durable(d)
  BY <1>1 DEF Durable
<1> QED BY <1>1, <1>2, SameRows

\* a fault more allows a service more
LEMMA MoreFaults ==
    ASSUME NEW n \in Nat, NEW s, SessionInv(s, n)
    PROVE  SessionInv(s, n + 1)
<1>1. ASSUME NEW k \in Key PROVE Served(s, k, n + 1)
  <2>1. Served(s, k, n) /\ Succeeded(s, k) \in Nat
    BY CountsAreNat, SessionShape DEF SessionInv
  <2> QED BY <2>1 DEF Served
<1> QED BY <1>1 DEF SessionInv

\* the tables are rolled back to t: what was served since is one fault more
LEMMA RolledBack ==
    ASSUME NEW n \in Nat, NEW s, SessionInv(s, n), NEW u, Shape(u), u.last \in Observation,
           u.calls = s.calls, TablesOK(u), TablesInv(u, s)
    PROVE  SessionInv(u, n + 1)
<1>1. SessionOK(u)
  BY SessionShape DEF SessionInv
<1>2. /\ IsTable(s.calls, Received) /\ IsTable(u.calls, Received)
      /\ \A j : Tried(u, j) = Tried(s, j) /\ Succeeded(u, j) = Succeeded(s, j)
      /\ Grows(s, u)
  BY SessionShape, SameCalls DEF SessionInv
<1>3. TablesInv(u, u)
  BY <1>2, GrowsInv
<1>4. ASSUME NEW k \in Key PROVE Served(u, k, n + 1)
  <2>1. Served(s, k, n) /\ Succeeded(s, k) \in Nat
    BY CountsAreNat, SessionShape DEF SessionInv
  <2> QED BY <1>2, <2>1 DEF Served
<1> QED BY <1>1, <1>3, <1>4 DEF SessionInv

(***************************************************************************)
(* The inductive invariant: the tables are in step in the open session and *)
(* on disk, a tick works on a copy of what is committed, and what it has   *)
(* still to handle was not settled when it began.                          *)
(***************************************************************************)
IInv ==
    /\ TypeOK
    /\ SessionInv(session, faults)
    /\ TablesInv(committed, session)
    /\ PolicyGateHolds
    /\ ~ticking => committed = Durable(session)
    /\ \A k \in DOMAIN committed.rows :
          Settled(committed, k) => /\ k \in DOMAIN session.rows
                                   /\ session.rows[k] = committed.rows[k]
    /\ ticking => \A d \in due : d \in DOMAIN committed.rows /\ ~Settled(committed, d)

\* at first nothing was called
LEMMA NoCalls == ASSUME NEW s, s.calls = NoEntries, NEW k
                 PROVE  Tried(s, k) = 0 /\ Succeeded(s, k) = 0
BY DEF NoEntries, Tried, Succeeded

\* the invariant holds initially
LEMMA InitIInv == Init => IInv
<1> SUFFICES ASSUME Init PROVE IInv
  OBVIOUS
<1>1. DOMAIN NoEntries = {} /\ \A V : IsTable(NoEntries, V)
  BY DEF NoEntries, IsTable
<1>2. /\ session.rows = NoEntries /\ session.jobs = NoEntries /\ session.audits = {}
      /\ session.calls = NoEntries /\ session.last = Idle /\ Shape(session)
  BY DEF Init, Shape
<1>3. SessionOK(session) /\ TablesOK(session)
  BY <1>1, <1>2, IdleOK, SessionShape DEF TablesOK
<1>4. TablesInv(session, session)
  BY <1>1, <1>2 DEF TablesInv
<1>5. SessionInv(session, faults)
  <2>1. ASSUME NEW k \in Key PROVE Served(session, k, faults)
    <3>1. Tried(session, k) = 0 /\ Succeeded(session, k) = 0
      BY <1>2, NoCalls
    <3> QED BY <1>1, <1>2, <3>1 DEF Served, Init
  <2> QED BY <1>3, <1>4, <2>1 DEF SessionInv
<1>6. committed = Durable(session)
  BY <1>2 DEF Init, Durable, EmptyTables
<1>7. /\ committed.rows = session.rows /\ committed = Durable(committed)
      /\ TablesOK(committed) /\ TablesInv(committed, session)
  BY <1>3, <1>4, <1>6, DurableFacts
<1>8. TypeOK
  <2>1. clock = 0 /\ ticking = FALSE /\ due = {} /\ requests = 0 /\ faults = 0
    BY DEF Init
  <2>2. 0 \in 0 .. MaxFaults
    BY BoundsAssumption
  <2> QED BY <1>3, <1>7, <2>1, <2>2 DEF TypeOK
<1>9. PolicyGateHolds
  BY <1>2, IdleOK DEF PolicyGateHolds
<1> QED BY <1>1, <1>2, <1>5, <1>6, <1>7, <1>8, <1>9 DEF IInv, Init

\* what the invariant says of types, for the steps below
LEMMA Context ==
    ASSUME IInv
    PROVE  /\ clock \in Nat /\ faults \in Nat /\ requests \in Nat
           /\ SessionInv(session, faults) /\ SessionOK(session)
           /\ TablesOK(session) /\ IsTable(session.calls, Received)
           /\ TablesOK(committed) /\ committed = Durable(committed)
           /\ TablesInv(committed, session)
           /\ due \subseteq DOMAIN session.rows
           /\ DOMAIN session.rows \subseteq Key /\ DOMAIN committed.rows \subseteq Key
           /\ MaxFaults \in Nat
BY BoundsAssumption, SessionShape DEF IInv, TypeOK, TablesOK, IsTable

\* a step in which session and committed tables end up the same
LEMMA CommittedStep ==
    ASSUME IInv, clock' \in Nat, requests' \in Nat, faults' \in 0 .. MaxFaults, ticking' = FALSE,
           due' \subseteq DOMAIN session'.rows,
           SessionInv(session', faults'), Gate(session'.last),
           committed' = Durable(session')
    PROVE  IInv'
<1>1. /\ committed'.rows = session'.rows /\ committed' = Durable(committed')
      /\ TablesOK(session') => TablesOK(committed')
      /\ TablesInv(session', session') => TablesInv(committed', session')
  BY DurableFacts
<1>2. SessionOK(session') /\ TablesInv(session', session') /\ TablesOK(session')
  BY SessionShape DEF SessionInv
<1>3. TypeOK'
  BY <1>1, <1>2 DEF TypeOK
<1> QED BY <1>1, <1>2, <1>3 DEF IInv, PolicyGateHolds

\* an HTTP request handled to its commit
LEMMA RequestStep ==
    ASSUME IInv, NEW p \in Plan, NEW via \in Vias, Serving, Request(p, via)
    PROVE  IInv' /\ SettledStep
<1>1. PICK out \in Outcomes, delay \in 1 .. MaxDelay :
        session' = End(Handle(session, p, via, out, delay))
  BY DEF Request
<1>2. PICK r : r = Handle(session, p, via, out, delay)
  OBVIOUS
<1>3. out \in Outcomes \cup {"error"} /\ delay \in Nat
  BY BoundsAssumption
<1>4. /\ Good(session, r, faults) /\ \A j \in Key : Keeps(session, r, j)
      /\ Gate(r.last)
  BY <1>2, <1>3, Context, BegunRunOK
<1>5. /\ Good(r, session', faults) /\ \A j \in Key : Keeps(r, session', j)
      /\ Gate(session'.last)
  BY <1>1, <1>2, <1>4, EndOK DEF Good
<1>6. Good(session, session', faults) /\ \A j \in Key : Keeps(session, session', j)
  BY <1>4, <1>5, Context, GoodTrans, KeepsTrans
<1>7. /\ ~ticking /\ committed' = Durable(session') /\ requests' = requests + 1
      /\ clock' = clock /\ ticking' = ticking /\ due' = due /\ faults' = faults
  BY DEF Request, Serving
<1>8. IInv'
  <2>1. /\ clock' \in Nat /\ requests' \in Nat /\ faults' \in 0 .. MaxFaults
        /\ ticking' = FALSE /\ due' \subseteq DOMAIN session'.rows
    BY <1>6, <1>7, Context DEF Good, IInv, TypeOK
  <2>2. SessionInv(session', faults')
    BY <1>6, <1>7 DEF Good
  <2> QED BY <1>5, <1>7, <2>1, <2>2, CommittedStep
<1>9. SettledStep
  <2>1. committed.rows = session.rows /\ committed'.rows = session'.rows
    BY <1>7, DurableFacts DEF IInv
  <2> QED BY <1>6, <2>1, Context DEF SettledStep, Keeps, Settled
<1> QED BY <1>8, <1>9

\* an HTTP request that is rolled back after it reached the provider
LEMMA RequestFailsStep ==
    ASSUME IInv, NEW c \in Cases, RequestFails(c)
    PROVE  IInv' /\ SettledStep
<1>0. PICK p \in Plans(c), via \in {"execute", "replay"}, out \in Outcomes :
        session' = [session EXCEPT !.calls = Handle(session, p, via, out, 1).calls,
                                   !.last = Handle(session, p, via, out, 1).last]
  BY DEF RequestFails, Serving
<1>1. PICK r : /\ r = Handle(session, p, via, out, 1)
               /\ session' = [session EXCEPT !.calls = r.calls, !.last = r.last]
  BY <1>0
<1>2. /\ p \in Plan /\ via \in Vias /\ out \in Outcomes \cup {"error"} /\ 1 \in Nat
  BY Context, PlansArePlan DEF Vias
<1>3. /\ Good(session, r, faults) /\ \A j \in Key : Keeps(session, r, j)
      /\ Gate(r.last)
  BY <1>1, <1>2, Context, BegunRunOK
<1>4. Shape(session) /\ SessionInv(r, faults) /\ r.last \in Observation
      /\ IsTable(r.calls, Received)
  BY <1>3, Context, SessionShape DEF Good, SessionInv
<1>5. /\ Shape(session') /\ session'.rows = session.rows /\ session'.jobs = session.jobs
      /\ session'.audits = session.audits /\ session'.calls = r.calls
      /\ session'.last = r.last
  BY <1>1, <1>4 DEF Shape
<1>6. /\ ~ticking /\ committed' = committed /\ requests' = requests + 1
      /\ clock' = clock /\ ticking' = ticking /\ due' = due
      /\ faults' = faults + 1 /\ faults < MaxFaults
  BY DEF RequestFails, Serving
<1>7. SessionInv(session', faults + 1)
  <2>1. TablesInv(session, r)
    BY <1>3, <1>4, Context, GrowsInv DEF Good, SessionInv
  <2>2. TablesOK(session') /\ TablesInv(session', r)
    BY <1>5, <2>1, Context, SameRows
  <2> QED BY <1>4, <1>5, <2>2, Context, RolledBack
<1>8. committed' = Durable(session')
  BY <1>5, <1>6 DEF IInv, Durable
<1>9. IInv'
  <2>1. /\ clock' \in Nat /\ requests' \in Nat /\ faults' \in 0 .. MaxFaults
        /\ ticking' = FALSE /\ due' \subseteq DOMAIN session'.rows
    BY <1>5, <1>6, Context DEF IInv, TypeOK
  <2>2. SessionInv(session', faults') /\ Gate(session'.last)
    BY <1>3, <1>5, <1>6, <1>7
  <2> QED BY <1>8, <2>1, <2>2, CommittedStep
<1>10. SettledStep
  <2>1. committed.rows = session.rows
    BY <1>6, DurableFacts DEF IInv
  <2>2. \A j : Tried(session', j) = Tried(r, j)
    BY <1>5 DEF Tried
  <2> QED BY <1>3, <1>6, <2>1, <2>2, Context DEF SettledStep, Keeps, Settled
<1> QED BY <1>9, <1>10

\* a step inside a tick, which handles row d
LEMMA TickStep ==
    ASSUME IInv, ticking, NEW d \in due,
           Good(session, session', faults), Gate(session'.last),
           \A j \in Key : j # d => Keeps(session, session', j),
           faults' = faults \/ (faults < MaxFaults /\ faults' = faults + 1),
           due' = due \ {d},
           UNCHANGED <<clock, committed, ticking, requests>>
    PROVE  IInv' /\ SettledStep
<1>1. /\ DOMAIN session.rows \subseteq DOMAIN session'.rows /\ Grows(session, session')
      /\ IsTable(session'.calls, Received) /\ SessionOK(session')
  BY SessionShape DEF Good, SessionInv
<1>2. SessionInv(session', faults')
  BY Context, MoreFaults DEF Good
<1>3. TypeOK'
  BY <1>1, Context DEF TypeOK, IInv
<1>4. TablesInv(committed', session')
  BY <1>1, Context, GrowsInv
<1>5. ASSUME NEW k \in DOMAIN committed.rows, Settled(committed, k)
      PROVE  /\ k \in DOMAIN session'.rows /\ session'.rows[k] = committed.rows[k]
             /\ Tried(session', k) = Tried(session, k)
  <2>1. k # d /\ k \in Key
    BY <1>5, Context DEF IInv
  <2>2. Settled(session, k) /\ session.rows[k] = committed.rows[k]
    BY <1>5 DEF IInv, Settled
  <2> QED BY <2>1, <2>2 DEF Keeps
<1>6. IInv'
  BY <1>2, <1>3, <1>4, <1>5 DEF IInv, PolicyGateHolds, Settled
<1>7. SettledStep
  BY <1>5 DEF SettledStep, Settled
<1> QED BY <1>6, <1>7

\* a tick handles a due row
LEMMA TickRecordStep ==
    ASSUME IInv, NEW d \in due, TickRecord(d)
    PROVE  IInv' /\ SettledStep
<1>1. PICK p \in Plans(d.case), out \in Outcomes, delay \in 1 .. MaxDelay :
        session' = End(RunDue(Begin(session, p, "tick"), d, p, out, delay))
  BY DEF TickRecord
<1>2. d \in DOMAIN session.rows /\ d \in Key
  BY Context
<1>3. p \in Plan /\ out \in Outcomes \cup {"error"} /\ delay \in Nat
  <2>1. d.case \in Cases
    BY <1>2 DEF Key
  <2> QED BY <2>1, Context, PlansArePlan, BoundsAssumption
<1>4. PICK r : r = RunDue(Begin(session, p, "tick"), d, p, out, delay)
  OBVIOUS
<1>5. /\ Good(session, r, faults) /\ \A j \in Key : j # d => Keeps(session, r, j)
      /\ Gate(r.last)
  BY <1>2, <1>3, <1>4, Context, BegunDueOK
<1>6. /\ Good(r, session', faults) /\ \A j \in Key : Keeps(r, session', j)
      /\ Gate(session'.last)
  BY <1>1, <1>4, <1>5, EndOK DEF Good
<1>7. Good(session, session', faults) /\ \A j \in Key : j # d => Keeps(session, session', j)
  BY <1>5, <1>6, Context, GoodTrans, KeepsTrans
<1>8. /\ ticking /\ due' = due \ {d} /\ faults' = faults
      /\ UNCHANGED <<clock, committed, ticking, requests>>
  BY DEF TickRecord
<1> QED BY <1>6, <1>7, <1>8, TickStep

\* a due row of a tick fails, and its job is given back
LEMMA TickRecordFailsStep ==
    ASSUME IInv, NEW d \in due, TickRecordFails(d)
    PROVE  IInv' /\ SettledStep
<1>1. /\ ticking /\ due' = due \ {d} /\ faults' = faults + 1 /\ faults < MaxFaults
      /\ UNCHANGED <<clock, committed, ticking, requests>>
  BY DEF TickRecordFails
<1>2. d \in DOMAIN session.rows /\ d \in Key
  BY Context
<1>3. CASE session' = [Release(session, d) EXCEPT !.last = Idle]
  <2>1. PICK released : released = Release(session, d)
    OBVIOUS
  <2>2. Good(session, released, faults) /\ \A j \in Key : Keeps(session, released, j)
    BY <1>2, <2>1, Context, ReleaseOK
  <2>3. session' = [released EXCEPT !.last = Idle]
    BY <1>3, <2>1
  <2>4. /\ Good(released, session', faults) /\ \A j \in Key : Keeps(released, session', j)
        /\ session'.last = Idle
    BY <2>2, <2>3, IdledOK DEF Good
  <2>5. Good(session, session', faults) /\ \A j \in Key : Keeps(session, session', j)
    BY <2>2, <2>4, Context, GoodTrans, KeepsTrans
  <2> QED BY <1>1, <2>4, <2>5, IdleOK, TickStep
<1>4. CASE \E p \in Plans(d.case) :
             session' = Release(RunDue(Begin(session, p, "tick"), d, p, "error", 1), d)
  <2>1. PICK p \in Plans(d.case) :
          session' = Release(RunDue(Begin(session, p, "tick"), d, p, "error", 1), d)
    BY <1>4
  <2>2. PICK out, delay, r : /\ out = "error" /\ delay = 1
                             /\ r = RunDue(Begin(session, p, "tick"), d, p, out, delay)
    OBVIOUS
  <2>3. p \in Plan /\ out \in Outcomes \cup {"error"} /\ delay \in Nat
    <3>1. d.case \in Cases
      BY <1>2 DEF Key
    <3> QED BY <2>2, <3>1, Context, PlansArePlan
  <2>4. /\ Good(session, r, faults) /\ \A j \in Key : j # d => Keeps(session, r, j)
        /\ Gate(r.last)
    BY <1>2, <2>2, <2>3, Context, BegunDueOK
  <2>5. SessionInv(r, faults) /\ d \in DOMAIN r.rows
    BY <1>2, <2>4 DEF Good
  <2>6. session' = Release(r, d)
    BY <2>1, <2>2
  <2>7. /\ Good(r, session', faults) /\ \A j \in Key : Keeps(r, session', j)
        /\ session'.last = r.last
    BY <2>5, <2>6, ReleaseOK
  <2>8. Good(session, session', faults) /\ \A j \in Key : j # d => Keeps(session, session', j)
    BY <2>4, <2>7, Context, GoodTrans, KeepsTrans
  <2> QED BY <1>1, <2>4, <2>7, <2>8, TickStep
<1> QED BY <1>3, <1>4 DEF TickRecordFails

\* the worker wakes and claims the due jobs
LEMMA WorkerWakesStep ==
    ASSUME IInv, WorkerWakes
    PROVE  IInv' /\ SettledStep
<1>1. /\ ~ticking /\ clock' = clock + 1 /\ ticking' = TRUE
      /\ due' = DueRows(session, clock')
                  \cup (DueJobs(session, clock') \cap DOMAIN session.rows)
      /\ session' = [ClaimDue(session, clock') EXCEPT !.last = Idle]
      /\ committed' = committed /\ requests' = requests /\ faults' = faults
  BY DEF WorkerWakes
<1>2. PICK claimed : claimed = ClaimDue(session, clock')
  OBVIOUS
<1>3. /\ Good(session, claimed, faults) /\ \A j \in Key : Keeps(session, claimed, j)
      /\ claimed.rows = session.rows
  BY <1>2, Context, ClaimOK
<1>4. /\ Good(claimed, session', faults) /\ \A j \in Key : Keeps(claimed, session', j)
      /\ session'.last = Idle /\ session'.rows = claimed.rows
  <2>1. session' = [claimed EXCEPT !.last = Idle]
    BY <1>1, <1>2
  <2> QED BY <1>3, <2>1, IdledOK DEF Good
<1>5. Good(session, session', faults) /\ \A j \in Key : Keeps(session, session', j)
  BY <1>3, <1>4, Context, GoodTrans, KeepsTrans
<1>6. /\ SessionInv(session', faults) /\ Grows(session, session')
      /\ SessionOK(session') /\ IsTable(session'.calls, Received)
  BY <1>5, SessionShape DEF Good, SessionInv
<1>7. committed.rows = session.rows
  BY <1>1, DurableFacts DEF IInv
<1>8. ASSUME NEW d \in due'
      PROVE  d \in DOMAIN session.rows /\ ~Settled(session, d)
  <2>1. CASE d \in DueRows(session, clock')
    BY <2>1 DEF DueRows, Settled, WaitingDisplay, TerminalDisplay
  <2>2. CASE d \in DueJobs(session, clock') /\ d \in DOMAIN session.rows
    <3>1. Live(session, d)
      BY <2>2 DEF DueJobs, Live, LiveJob
    <3>2. JobOfRow(session, d)
      BY <2>2, Context DEF SessionInv, TablesInv, RowOK
    <3> QED BY <2>2, <3>1, <3>2 DEF JobOfRow, Settled
  <2> QED BY <1>1, <1>8, <2>1, <2>2
<1>9. TypeOK'
  <2>1. due' \subseteq DOMAIN session'.rows
    BY <1>3, <1>4, <1>8
  <2> QED BY <1>1, <1>6, <2>1, Context DEF TypeOK, IInv
<1>10. TablesInv(committed', session')
  BY <1>1, <1>6, Context, GrowsInv
<1>11. PolicyGateHolds'
  BY <1>4, IdleOK DEF PolicyGateHolds
<1>12. IInv'
  BY <1>1, <1>3, <1>4, <1>6, <1>7, <1>8, <1>9, <1>10, <1>11 DEF IInv, Settled
<1>13. SettledStep
  BY <1>1, <1>5, <1>7, Context DEF SettledStep, Keeps, Settled
<1> QED BY <1>12, <1>13

\* a tick commits
LEMMA TickCommitStep ==
    ASSUME IInv, TickCommit
    PROVE  IInv' /\ SettledStep
<1>1. /\ ticking /\ ticking' = FALSE /\ committed' = Durable(session)
      /\ session' = [session EXCEPT !.last = Idle]
      /\ clock' = clock /\ due' = due /\ requests' = requests /\ faults' = faults
  BY DEF TickCommit
<1>2. /\ Good(session, session', faults) /\ \A j \in Key : Keeps(session, session', j)
      /\ session'.last = Idle
      /\ session'.rows = session.rows /\ session'.jobs = session.jobs
      /\ session'.audits = session.audits
  BY <1>1, Context, IdledOK
<1>3. committed' = Durable(session')
  BY <1>1, <1>2 DEF Durable
<1>4. IInv'
  <2>1. /\ clock' \in Nat /\ requests' \in Nat /\ faults' \in 0 .. MaxFaults
        /\ due' \subseteq DOMAIN session'.rows
    BY <1>1, <1>2, Context DEF IInv, TypeOK
  <2>2. SessionInv(session', faults') /\ Gate(session'.last)
    BY <1>1, <1>2, IdleOK DEF Good
  <2> QED BY <1>1, <1>3, <2>1, <2>2, CommittedStep
<1>5. SettledStep
  <2>1. SUFFICES ASSUME NEW k \in DOMAIN committed.rows, Settled(committed, k)
                 PROVE  /\ k \in DOMAIN committed'.rows
                        /\ committed'.rows[k] = committed.rows[k]
                        /\ Tried(session', k) = Tried(session, k)
    BY DEF SettledStep, Settled
  <2>2. /\ k \in DOMAIN session.rows /\ session.rows[k] = committed.rows[k]
        /\ Settled(session, k) /\ k \in Key
    BY <2>1, Context DEF IInv, Settled
  <2>3. committed'.rows = session.rows
    BY <1>1, DurableFacts
  <2> QED BY <1>2, <2>2, <2>3 DEF Keeps
<1> QED BY <1>4, <1>5

\* a tick is rolled back
LEMMA TickAbortStep ==
    ASSUME IInv, TickAbort
    PROVE  IInv' /\ SettledStep
<1>1. /\ ticking /\ ticking' = FALSE /\ due' = {}
      /\ session' = [session EXCEPT !.rows = committed.rows, !.jobs = committed.jobs,
                                    !.audits = committed.audits, !.last = Idle]
      /\ faults < MaxFaults /\ faults' = faults + 1
      /\ clock' = clock /\ committed' = committed /\ requests' = requests
  BY DEF TickAbort
<1>2. Shape(session)
  BY Context, SessionShape
<1>3. /\ Shape(session') /\ session'.rows = committed.rows /\ session'.jobs = committed.jobs
      /\ session'.audits = committed.audits /\ session'.calls = session.calls
      /\ session'.last = Idle
  BY <1>1, <1>2 DEF Shape
<1>4. TablesOK(session') /\ TablesInv(session', session)
  BY <1>3, Context, SameRows
<1>5. SessionInv(session', faults')
  BY <1>1, <1>3, <1>4, Context, IdleOK, RolledBack
<1>6. committed' = Durable(session')
  BY <1>1, <1>3, Context DEF Durable
<1>7. IInv'
  <2>1. /\ clock' \in Nat /\ requests' \in Nat /\ faults' \in 0 .. MaxFaults
        /\ due' \subseteq DOMAIN session'.rows
    BY <1>1, Context
  <2>2. Gate(session'.last)
    BY <1>3, IdleOK
  <2> QED BY <1>1, <1>5, <1>6, <2>1, <2>2, CommittedStep
<1>8. SettledStep
  <2>1. \A j : Tried(session', j) = Tried(session, j)
    BY <1>3 DEF Tried
  <2> QED BY <1>1, <2>1 DEF SettledStep
<1> QED BY <1>7, <1>8

\* nothing happens
LEMMA StutterStep ==
    ASSUME IInv, UNCHANGED vars
    PROVE  IInv' /\ SettledStep
<1>1. /\ clock' = clock /\ session' = session /\ committed' = committed
      /\ ticking' = ticking /\ due' = due /\ requests' = requests /\ faults' = faults
  BY DEF vars
<1>2. IInv'
  BY <1>1 DEF IInv, TypeOK, PolicyGateHolds
<1>3. SettledStep
  BY <1>1 DEF SettledStep
<1> QED BY <1>2, <1>3

\* every step preserves the invariant and leaves what is settled alone
LEMMA NextStep ==
    ASSUME IInv, [Next]_vars
    PROVE  IInv' /\ SettledStep
<1>1. ASSUME NEW c \in Cases, Execute(c) PROVE IInv' /\ SettledStep
  <2>1. PICK p \in Plans(c) : Serving /\ Request(p, "execute")
    BY <1>1 DEF Execute
  <2> QED BY <2>1, Context, PlansArePlan, RequestStep DEF Vias
<1>2. ASSUME NEW c \in Cases, ScheduleCase(c) PROVE IInv' /\ SettledStep
  <2>1. PICK p \in Plans(c) : Serving /\ Request(p, "schedule")
    BY <1>2 DEF ScheduleCase
  <2> QED BY <2>1, Context, PlansArePlan, RequestStep DEF Vias
<1>3. ASSUME NEW c \in Cases, Replay(c) PROVE IInv' /\ SettledStep
  <2>1. PICK p \in Plans(c) : Serving /\ Request(p, "replay")
    BY <1>3 DEF Replay
  <2> QED BY <2>1, Context, PlansArePlan, RequestStep DEF Vias
<1>4. ASSUME NEW c \in Cases, RequestFails(c) PROVE IInv' /\ SettledStep
  BY <1>4, RequestFailsStep
<1>5. ASSUME NEW d \in due, TickRecord(d) PROVE IInv' /\ SettledStep
  BY <1>5, TickRecordStep
<1>6. ASSUME NEW d \in due, TickRecordFails(d) PROVE IInv' /\ SettledStep
  BY <1>6, TickRecordFailsStep
<1>7. CASE WorkerWakes
  BY <1>7, WorkerWakesStep
<1>8. CASE TickCommit
  BY <1>8, TickCommitStep
<1>9. CASE TickAbort
  BY <1>9, TickAbortStep
<1>10. CASE Horizon \/ UNCHANGED vars
  BY <1>10, StutterStep DEF Horizon
<1> QED BY <1>1, <1>2, <1>3, <1>4, <1>5, <1>6, <1>7, <1>8, <1>9, <1>10 DEF Next

(***************************************************************************)
(* What the invariant says of the properties.                              *)
(***************************************************************************)
\* the session and the durable tables are in step
LEMMA BothTables ==
    ASSUME IInv
    PROVE  \A t \in {Durable(session), committed} : TablesInv(t, session)
<1>1. TablesInv(Durable(session), session)
  BY Context, DurableFacts DEF SessionInv
<1> QED BY <1>1, Context

\* the invariant implies that rows and jobs agree
LEMMA InvJobs == IInv => JobsFollowRows
<1> SUFFICES ASSUME IInv PROVE JobsFollowRows
  OBVIOUS
<1>1. ASSUME NEW t, TablesInv(t, session)
      PROVE  /\ DOMAIN t.jobs \subseteq DOMAIN t.rows
             /\ \A k \in DOMAIN t.rows : JobOfRow(t, k)
  BY <1>1 DEF TablesInv, RowOK
<1> QED BY <1>1, BothTables DEF JobsFollowRows

\* the invariant implies that retries are accounted for
LEMMA InvRetries == IInv => RetryAccounting
<1> SUFFICES ASSUME IInv PROVE RetryAccounting
  OBVIOUS
<1>1. ASSUME NEW t, TablesInv(t, session)
      PROVE  \A k \in DOMAIN t.rows : RetriesCounted(t, session, k)
  BY <1>1 DEF TablesInv, RowOK
<1> QED BY <1>1, BothTables DEF RetryAccounting

\* the invariant implies that displays are explained
LEMMA InvDisplays == IInv => DisplayExplained
<1> SUFFICES ASSUME IInv PROVE DisplayExplained
  OBVIOUS
<1>1. ASSUME NEW t, TablesInv(t, session)
      PROVE  \A k \in DOMAIN t.rows : Explained(t, session, k)
  BY <1>1 DEF TablesInv, RowOK
<1> QED BY <1>1, BothTables DEF DisplayExplained

\* the invariant implies that the audit trail is complete
LEMMA InvTrail == IInv => AuditTrail
<1> SUFFICES ASSUME IInv PROVE AuditTrail
  OBVIOUS
<1>1. ASSUME NEW t, TablesInv(t, session)
      PROVE  \A k \in DOMAIN t.rows : Trailed(t, k)
  BY <1>1 DEF TablesInv, RowOK
<1> QED BY <1>1, BothTables DEF AuditTrail

\* the invariant implies that keys are served once, but for faults
LEMMA InvCharges == IInv => ChargedOnce
<1> SUFFICES ASSUME IInv, NEW k \in DOMAIN session.calls
             PROVE  session.calls[k].ok <= 1 + faults
  BY DEF ChargedOnce
<1>1. session.calls[k].ok = Succeeded(session, k) /\ k \in Key
  BY Context DEF Succeeded, IsTable
<1>2. Served(session, k, faults) /\ Succeeded(session, k) \in Nat /\ faults \in Nat
  BY <1>1, Context, CountsAreNat DEF SessionInv
<1> QED BY <1>1, <1>2 DEF Served

(***************************************************************************)
(* Who is called: one key at a time, of a strategy that pays.              *)
(***************************************************************************)
PayKey == [case : Cases, strategy : RazorpayStrategies, slot : Nat]

\* the calls of c and one more of key k, which was served or not
OneMore(c, k, served) ==
    [j \in DOMAIN c \cup {k} |->
        IF j = k THEN [tried |-> (IF k \in DOMAIN c THEN c[k].tried ELSE 0) + 1,
                       ok |-> (IF k \in DOMAIN c THEN c[k].ok ELSE 0) + served]
                 ELSE c[j]]

\* the calls c of a session before a run, and e of it after
CallsMore(c, e) == e = c \/ \E k \in PayKey, served \in {0, 1} : e = OneMore(c, k, served)

\* planning a job calls nobody
LEMMA ScheduledCalls ==
    ASSUME NEW s, Shape(s), NEW k, NEW run_at, NEW attempt,
           NEW t, t = Schedule(s, k, run_at, attempt)
    PROVE  Shape(t) /\ t.calls = s.calls
BY DEF Shape, Schedule

\* answering calls nobody
LEMMA AnswerCalls ==
    ASSUME NEW s, Shape(s), NEW k, NEW row, NEW out, NEW delay
    PROVE  Answer(s, k, row, out, delay).calls = s.calls
<1>1. ASSUME NEW display, NEW event
      PROVE  Finalize(s, k, row, display, event).calls = s.calls
  <2>1. PICK t : t = Finalize(s, k, row, display, event)
    OBVIOUS
  <2> QED BY <2>1, FinalizeFields
<1>2. DeadLetter(s, k, row).calls = s.calls
  <2>1. PICK saved : saved = Persist(s, k, Buried(Retried(row)), "FAILED")
    OBVIOUS
  <2>2. Shape(saved) /\ saved.calls = s.calls
    BY <2>1, PersistFields
  <2>3. PICK done : done = Complete(saved, k, "dead_letter")
    OBVIOUS
  <2>4. Shape(done) /\ done.calls = s.calls
    BY <2>2, <2>3, CompleteFields
  <2>5. DeadLetter(s, k, row) = Audit(done, k, "ACTION_EXECUTED")
    BY <2>1, <2>3 DEF DeadLetter
  <2> QED BY <2>4, <2>5, AuditFields
<1>3. ASSUME NEW at PROVE Backoff(s, k, row, at).calls = s.calls
  <2>1. PICK saved : saved = Persist(s, k, At(Retried(row), at), "RETRYING")
    OBVIOUS
  <2>2. Shape(saved) /\ saved.calls = s.calls
    BY <2>1, PersistFields
  <2>3. PICK attempt : attempt = row.retries + 1
    OBVIOUS
  <2>4. PICK planned : planned = Schedule(saved, k, at, attempt)
    OBVIOUS
  <2>5. Shape(planned) /\ planned.calls = s.calls
    BY <2>2, <2>4, ScheduledCalls
  <2>6. Backoff(s, k, row, at) = Audit(planned, k, "ACTION_SCHEDULED")
    BY <2>1, <2>3, <2>4 DEF Backoff
  <2> QED BY <2>5, <2>6, AuditFields
<1>4. BackoffOrDeadLetter(s, k, row, delay).calls = s.calls
  BY <1>2, <1>3 DEF BackoffOrDeadLetter
<1> QED BY <1>1, <1>4 DEF Answer

\* the calls after a call
LEMMA CalledOnce ==
    ASSUME NEW s, Shape(s), NEW k, NEW out, NEW t, t = Call(s, k, out)
    PROVE  Shape(t) /\ t.calls = Put(s.calls, k, Counted(s, k, out))
BY DEF Shape, Call

\* a key of a paying strategy
LEMMA PayKeys ==
    ASSUME NEW p \in Plan, p.strategy \in RazorpayStrategies
    PROVE  KeyOf(p) \in PayKey
BY DEF KeyOf, Plan, PayKey

\* a dispatch calls at most once, under the key of the plan
LEMMA DispatchNowCalls ==
    ASSUME NEW s, Shape(s), IsTable(s.calls, Received),
           NEW p \in Plan, p.strategy \notin WaitStrategies,
           NEW out, NEW delay
    PROVE  CallsMore(s.calls, DispatchNow(s, p, out, delay).calls)
<1>1. PICK k : k = KeyOf(p)
  OBVIOUS
<1>2. PICK row : row = Record(s, p)
  OBVIOUS
<1>3. PICK sent : sent = Persist(s, k, row, "SENT")
  OBVIOUS
<1>4. Shape(sent) /\ sent.calls = s.calls
  BY <1>3, PersistFields
<1>5. PICK t : t = DispatchNow(s, p, out, delay)
  OBVIOUS
<1>6. CASE p.strategy = "STOP_RECOVERY"
  <2>1. t = Finalize(sent, k, row, "CANCELLED", "ACTION_SKIPPED")
    BY <1>1, <1>2, <1>3, <1>5, <1>6 DEF DispatchNow
  <2> QED BY <1>4, <1>5, <2>1, FinalizeFields DEF CallsMore
<1>7. CASE p.strategy = "ESCALATE_TO_HUMAN"
  <2>1. t = Finalize(sent, k, row, "SUCCESS", "ACTION_EXECUTED")
    BY <1>1, <1>2, <1>3, <1>5, <1>7 DEF DispatchNow
  <2> QED BY <1>4, <1>5, <2>1, FinalizeFields DEF CallsMore
<1>8. CASE p.strategy \notin {"STOP_RECOVERY", "ESCALATE_TO_HUMAN"}
  <2>1. PICK eff : eff = Effective(p, out)
    OBVIOUS
  <2>2. PICK called : called = Call(sent, k, eff)
    OBVIOUS
  <2>3. t = Answer(called, k, row, eff, delay)
    BY <1>1, <1>2, <1>3, <1>5, <1>8, <2>1, <2>2 DEF DispatchNow
  <2>4. Shape(called) /\ called.calls = Put(sent.calls, k, Counted(sent, k, eff))
    BY <1>4, <2>2, CalledOnce
  <2>5. t.calls = Put(s.calls, k, Counted(sent, k, eff))
    BY <1>4, <2>3, <2>4, AnswerCalls
  <2>6. PICK served \in {0, 1} : served = IF eff = "ok" THEN 1 ELSE 0
    OBVIOUS
  <2>7. t.calls = OneMore(s.calls, k, served)
    <3>1. CASE eff = "ok"
      <4>1. served = 1
        BY <2>6, <3>1
      <4>2. Counted(sent, k, eff) =
              [tried |-> (IF k \in DOMAIN s.calls THEN s.calls[k].tried ELSE 0) + 1,
               ok |-> (IF k \in DOMAIN s.calls THEN s.calls[k].ok ELSE 0) + served]
        BY <1>4, <3>1, <4>1 DEF Counted, Tried, Succeeded
      <4> QED BY <2>5, <4>2 DEF Put, OneMore
    <3>2. CASE eff # "ok"
      <4>1. served = 0
        BY <2>6, <3>2
      <4>2. Counted(sent, k, eff) =
              [tried |-> (IF k \in DOMAIN s.calls THEN s.calls[k].tried ELSE 0) + 1,
               ok |-> IF k \in DOMAIN s.calls THEN s.calls[k].ok ELSE 0]
        BY <1>4, <3>2 DEF Counted, Tried, Succeeded
      <4>3. k \in DOMAIN s.calls => s.calls[k].ok + 0 = s.calls[k].ok
        BY DEF IsTable, Received
      <4>4. Counted(sent, k, eff) =
              [tried |-> (IF k \in DOMAIN s.calls THEN s.calls[k].tried ELSE 0) + 1,
               ok |-> (IF k \in DOMAIN s.calls THEN s.calls[k].ok ELSE 0) + served]
        BY <4>1, <4>2, <4>3
      <4> QED BY <2>5, <4>4 DEF Put, OneMore
    <3> QED BY <3>1, <3>2
  <2>8. k \in PayKey
    <3>1. p.strategy \in RazorpayStrategies
      BY <1>8 DEF Plan, Strategies
    <3> QED BY <1>1, <3>1, PayKeys
  <2> QED BY <1>5, <2>7, <2>8 DEF CallsMore
<1> QED BY <1>6, <1>7, <1>8

\* run() up to the dispatch calls nobody itself
LEMMA GatedCalls ==
    ASSUME NEW s, Shape(s), NEW p, NEW force, NEW replay,
           NEW D, CallsMore(s.calls, D.calls),
           NEW t, t = Gated(s, p, force, replay, D)
    PROVE  CallsMore(s.calls, t.calls)
<1>1. PICK k, row : k = KeyOf(p) /\ row = Record(s, p)
  OBVIOUS
<1>2. CASE t = Finalize(s, k, row, "CANCELLED", "ACTION_SKIPPED")
  BY <1>2, FinalizeFields DEF CallsMore
<1>3. CASE t = Defer(s, p)
  <2>1. PICK at, attempt : at = RunAt(p) /\ attempt = row.retries
    OBVIOUS
  <2>2. PICK saved : saved = Persist(s, k, At(row, at), "SCHEDULED")
    OBVIOUS
  <2>3. Shape(saved) /\ saved.calls = s.calls
    BY <2>2, PersistFields
  <2>4. PICK planned : planned = Schedule(saved, k, at, attempt)
    OBVIOUS
  <2>5. Shape(planned) /\ planned.calls = s.calls
    BY <2>3, <2>4, ScheduledCalls
  <2>6. t = Audit(planned, k, "ACTION_SCHEDULED")
    BY <1>1, <1>3, <2>1, <2>2, <2>4 DEF Defer
  <2> QED BY <2>5, <2>6, AuditFields DEF CallsMore
<1>4. CASE t = s \/ t = D
  BY <1>4 DEF CallsMore
<1> QED BY <1>1, <1>2, <1>3, <1>4 DEF Gated

\* a wait that is over was no call
LEMMA CompleteWaitCalls ==
    ASSUME NEW s, Shape(s), NEW k, NEW row, NEW t, t = CompleteWait(s, k, row)
    PROVE  Shape(t) /\ t.calls = s.calls
<1>1. PICK saved : saved = Persist(s, k, row, "SUCCESS")
  OBVIOUS
<1>2. Shape(saved) /\ saved.calls = s.calls
  BY <1>1, PersistFields
<1>3. t = Complete(saved, k, "done")
  BY <1>1 DEF CompleteWait
<1> QED BY <1>2, <1>3, CompleteFields

\* run() of a plan that does not wait calls at most once
LEMMA RunNowCalls ==
    ASSUME NEW s, Shape(s), IsTable(s.calls, Received),
           NEW p \in Plan, p.strategy \notin WaitStrategies, NEW out, NEW delay,
           NEW t, t = RunNow(s, p, out, delay)
    PROVE  CallsMore(s.calls, t.calls)
<1>1. PICK D : D = DispatchNow(s, p, out, delay)
  OBVIOUS
<1>2. PICK no : no = FALSE
  OBVIOUS
<1>3. t = Gated(s, p, no, no, D)
  BY <1>1, <1>2 DEF RunNow
<1>4. CallsMore(s.calls, D.calls)
  BY <1>1, DispatchNowCalls
<1> QED BY <1>3, <1>4, GatedCalls

\* so does the end of a wait with its fallback
LEMMA FallbackCalls ==
    ASSUME clock \in Nat, NEW s, Shape(s), IsTable(s.calls, Received), NEW p \in Plan,
           FallbackStrategy[p.strategy] \notin WaitStrategies,
           NEW k, NEW row, NEW out, NEW delay,
           NEW t, t = RunNow(CompleteWait(s, k, row), FallbackPlan(p), out, delay)
    PROVE  CallsMore(s.calls, t.calls)
<1>1. PICK mid : mid = CompleteWait(s, k, row)
  OBVIOUS
<1>2. Shape(mid) /\ mid.calls = s.calls
  BY <1>1, CompleteWaitCalls
<1>3. PICK q : q = FallbackPlan(p)
  OBVIOUS
<1>4. q \in Plan /\ q.strategy \notin WaitStrategies
  BY <1>3, FallbackFacts
<1>5. t = RunNow(mid, q, out, delay)
  BY <1>1, <1>3
<1> QED BY <1>2, <1>4, <1>5, RunNowCalls

\* and run() of any plan
LEMMA RunCalls ==
    ASSUME clock \in Nat, NEW s, Shape(s), IsTable(s.calls, Received), NEW p \in Plan,
           NEW force, NEW replay, NEW out, NEW delay,
           NEW t, t = Run(s, p, force, replay, out, delay)
    PROVE  CallsMore(s.calls, t.calls)
<1>1. PICK D : D = IF p.strategy \in WaitStrategies
                   THEN DispatchWait(s, p, out, delay)
                   ELSE DispatchNow(s, p, out, delay)
  OBVIOUS
<1>2. t = Gated(s, p, force, replay, D)
  BY <1>1 DEF Run
<1>3. PICK k, row : k = KeyOf(p) /\ row = Record(s, p)
  OBVIOUS
<1>4. CASE p.strategy \notin WaitStrategies
  BY <1>1, <1>2, <1>4, DispatchNowCalls, GatedCalls
<1>5. CASE p.strategy \in WaitStrategies /\ HasFallback(p, p.strategy)
  <2>1. D = RunNow(CompleteWait(s, k, row), FallbackPlan(p), out, delay)
    BY <1>1, <1>3, <1>5 DEF DispatchWait
  <2>2. FallbackStrategy[p.strategy] \notin WaitStrategies
    BY <1>5 DEF HasFallback
  <2> QED BY <1>2, <2>1, <2>2, FallbackCalls, GatedCalls
<1>6. CASE p.strategy \in WaitStrategies /\ ~HasFallback(p, p.strategy)
  <2>1. D = Finalize(s, k, row, "SUCCESS", "ACTION_EXECUTED")
    BY <1>1, <1>3, <1>6 DEF DispatchWait
  <2>2. CallsMore(s.calls, D.calls)
    BY <2>1, FinalizeFields DEF CallsMore
  <2> QED BY <1>2, <2>2, GatedCalls
<1> QED BY <1>4, <1>5, <1>6

\* and run_due of a row
LEMMA RunDueCalls ==
    ASSUME clock \in Nat, NEW s, Shape(s), IsTable(s.calls, Received), NEW p \in Plan,
           NEW d, NEW out, NEW delay,
           NEW t, t = RunDue(s, d, p, out, delay)
    PROVE  CallsMore(s.calls, t.calls)
<1>1. PICK row : row = s.rows[d]
  OBVIOUS
<1>2. CASE d.strategy \in WaitStrategies /\ row.scheduled <= clock /\ HasFallback(p, d.strategy)
  <2>1. t = RunNow(CompleteWait(s, d, row), FallbackPlan(p), out, delay)
    BY <1>1, <1>2 DEF RunDue
  <2>2. FallbackStrategy[p.strategy] \notin WaitStrategies
    BY <1>2 DEF HasFallback
  <2> QED BY <2>1, <2>2, FallbackCalls
<1>3. CASE d.strategy \in WaitStrategies /\ row.scheduled <= clock /\ ~HasFallback(p, d.strategy)
  <2>1. t = CompleteWait(s, d, row)
    BY <1>1, <1>3 DEF RunDue
  <2> QED BY <2>1, CompleteWaitCalls DEF CallsMore
<1>4. CASE ~(d.strategy \in WaitStrategies /\ row.scheduled <= clock)
  <2>1. PICK no, yes : no = FALSE /\ yes = TRUE
    OBVIOUS
  <2>2. t = Run(s, p, no, yes, out, delay)
    BY <1>1, <1>4, <2>1 DEF RunDue
  <2> QED BY <2>2, RunCalls
<1> QED BY <1>2, <1>3, <1>4

\* what begins a run calls nobody
LEMMA BeginCalls ==
    ASSUME NEW s, Shape(s), NEW p, NEW via, NEW t, t = Begin(s, p, via)
    PROVE  Shape(t) /\ t.calls = s.calls
BY DEF Shape, Begin

\* nor does what forgets it
LEMMA IdledCalls ==
    ASSUME NEW s, Shape(s), NEW t, t = [s EXCEPT !.last = Idle]
    PROVE  Shape(t) /\ t.calls = s.calls
BY DEF Shape

\* nor does what ends it
LEMMA EndCalls ==
    ASSUME NEW s, Shape(s), NEW t, t = End(s)
    PROVE  t.calls = s.calls
BY IdledCalls DEF End

\* nor does what gives a job back
LEMMA ReleaseCalls ==
    ASSUME NEW s, Shape(s), NEW k, NEW t, t = Release(s, k)
    PROVE  Shape(t) /\ t.calls = s.calls
BY CompleteFields DEF Release

\* nor does what claims the due ones
LEMMA ClaimCalls ==
    ASSUME NEW s, Shape(s), NEW now, NEW t, t = ClaimDue(s, now)
    PROVE  Shape(t) /\ t.calls = s.calls
<1>1. PICK J : J = [j \in DOMAIN s.jobs |->
                      IF j \in DueJobs(s, now) THEN [s.jobs[j] EXCEPT !.status = "running"]
                                               ELSE s.jobs[j]]
  OBVIOUS
<1>2. t = [s EXCEPT !.jobs = J]
  BY <1>1 DEF ClaimDue
<1> QED BY <1>2 DEF Shape

\* the open session, as the lemmas about calls take it
LEMMA SessionCalls ==
    ASSUME IInv
    PROVE  Shape(session) /\ IsTable(session.calls, Received)
BY Context, SessionShape

\* a request calls at most once
LEMMA HandleCalls ==
    ASSUME IInv, NEW p \in Plan, NEW via, NEW out, NEW delay,
           NEW r, r = Handle(session, p, via, out, delay)
    PROVE  CallsMore(session.calls, r.calls)
<1>1. PICK b : b = Begin(session, p, via)
  OBVIOUS
<1>2. Shape(b) /\ b.calls = session.calls /\ IsTable(b.calls, Received)
  BY <1>1, SessionCalls, BeginCalls
<1>3. PICK force, replay : force = (via = "schedule") /\ replay = (via = "replay")
  OBVIOUS
<1>4. r = Run(b, p, force, replay, out, delay)
  BY <1>1, <1>3 DEF Handle
<1>5. CallsMore(b.calls, r.calls)
  BY <1>2, <1>4, Context, RunCalls
<1> QED BY <1>2, <1>5

\* so does a tick for one row
LEMMA TickCalls ==
    ASSUME IInv, NEW p \in Plan, NEW d, NEW out, NEW delay,
           NEW r, r = RunDue(Begin(session, p, "tick"), d, p, out, delay)
    PROVE  CallsMore(session.calls, r.calls)
<1>1. PICK b : b = Begin(session, p, "tick")
  OBVIOUS
<1>2. Shape(b) /\ b.calls = session.calls /\ IsTable(b.calls, Received)
  BY <1>1, SessionCalls, BeginCalls
<1>3. r = RunDue(b, d, p, out, delay)
  BY <1>1
<1>4. CallsMore(b.calls, r.calls)
  BY <1>2, <1>3, Context, RunDueCalls
<1> QED BY <1>2, <1>4

\* what a handled request leaves has the shape of a session
LEMMA HandleShape ==
    ASSUME IInv, NEW p \in Plan, NEW via \in Vias,
           NEW out \in Outcomes \cup {"error"}, NEW delay \in Nat,
           NEW r, r = Handle(session, p, via, out, delay)
    PROVE  Shape(r)
<1>1. Good(session, r, faults)
  BY Context, BegunRunOK
<1> QED BY <1>1, SessionShape DEF Good, SessionInv

\* and so does a handled row of a tick
LEMMA TickShape ==
    ASSUME IInv, NEW p \in Plan, NEW d \in DOMAIN session.rows,
           NEW out \in Outcomes \cup {"error"}, NEW delay \in Nat,
           NEW r, r = RunDue(Begin(session, p, "tick"), d, p, out, delay)
    PROVE  Shape(r)
<1>1. Good(session, r, faults)
  BY Context, BegunDueOK
<1> QED BY <1>1, SessionShape DEF Good, SessionInv

\* a request that commits calls at most once
LEMMA RequestCalls ==
    ASSUME IInv, NEW p \in Plan, NEW via \in Vias, Request(p, via)
    PROVE  CallsMore(session.calls, session'.calls)
<1>1. PICK out \in Outcomes, delay \in 1 .. MaxDelay :
        session' = End(Handle(session, p, via, out, delay))
  BY DEF Request
<1>2. PICK r : r = Handle(session, p, via, out, delay)
  OBVIOUS
<1>3. out \in Outcomes \cup {"error"} /\ delay \in Nat
  BY BoundsAssumption
<1>4. CallsMore(session.calls, r.calls) /\ Shape(r)
  BY <1>2, <1>3, HandleCalls, HandleShape
<1>5. session'.calls = r.calls
  BY <1>1, <1>2, <1>4, EndCalls
<1> QED BY <1>4, <1>5

\* so does one that is rolled back
LEMMA RequestFailsCalls ==
    ASSUME IInv, NEW c \in Cases, RequestFails(c)
    PROVE  CallsMore(session.calls, session'.calls)
<1>1. PICK p \in Plans(c), via \in {"execute", "replay"}, out \in Outcomes :
        session' = [session EXCEPT !.calls = Handle(session, p, via, out, 1).calls,
                                   !.last = Handle(session, p, via, out, 1).last]
  BY DEF RequestFails, Serving
<1>2. PICK r : r = Handle(session, p, via, out, 1)
  OBVIOUS
<1>3. p \in Plan
  BY Context, PlansArePlan
<1>4. CallsMore(session.calls, r.calls)
  BY <1>2, <1>3, HandleCalls
<1>5. session' = [session EXCEPT !.calls = r.calls, !.last = r.last]
  BY <1>1, <1>2
<1>6. session'.calls = r.calls
  BY <1>5, SessionCalls DEF Shape
<1> QED BY <1>4, <1>6

\* a handled row of a tick, too
LEMMA TickRecordCalls ==
    ASSUME IInv, NEW d \in due, TickRecord(d)
    PROVE  CallsMore(session.calls, session'.calls)
<1>1. PICK p \in Plans(d.case), out \in Outcomes, delay \in 1 .. MaxDelay :
        session' = End(RunDue(Begin(session, p, "tick"), d, p, out, delay))
  BY DEF TickRecord
<1>2. d \in DOMAIN session.rows /\ d.case \in Cases
  BY Context DEF Key
<1>3. p \in Plan /\ out \in Outcomes \cup {"error"} /\ delay \in Nat
  BY <1>2, Context, PlansArePlan, BoundsAssumption
<1>4. PICK r : r = RunDue(Begin(session, p, "tick"), d, p, out, delay)
  OBVIOUS
<1>5. CallsMore(session.calls, r.calls) /\ Shape(r)
  BY <1>2, <1>3, <1>4, TickCalls, TickShape
<1>6. session'.calls = r.calls
  BY <1>1, <1>4, <1>5, EndCalls
<1> QED BY <1>5, <1>6

\* and one that fails
LEMMA TickRecordFailsCalls ==
    ASSUME IInv, NEW d \in due, TickRecordFails(d)
    PROVE  CallsMore(session.calls, session'.calls)
<1>1. d \in DOMAIN session.rows /\ d.case \in Cases
  BY Context DEF Key
<1>2. CASE session' = [Release(session, d) EXCEPT !.last = Idle]
  <2>1. PICK r : r = Release(session, d)
    OBVIOUS
  <2>2. Shape(r) /\ r.calls = session.calls
    BY <2>1, SessionCalls, ReleaseCalls
  <2>3. session' = [r EXCEPT !.last = Idle]
    BY <1>2, <2>1
  <2>4. session'.calls = r.calls
    BY <2>2, <2>3, IdledCalls
  <2> QED BY <2>2, <2>4 DEF CallsMore
<1>3. CASE \E p \in Plans(d.case) :
             session' = Release(RunDue(Begin(session, p, "tick"), d, p, "error", 1), d)
  <2>1. PICK p \in Plans(d.case) :
          session' = Release(RunDue(Begin(session, p, "tick"), d, p, "error", 1), d)
    BY <1>3
  <2>2. PICK out, delay, r : /\ out = "error" /\ delay = 1
                             /\ r = RunDue(Begin(session, p, "tick"), d, p, out, delay)
    OBVIOUS
  <2>3. p \in Plan /\ out \in Outcomes \cup {"error"} /\ delay \in Nat
    BY <1>1, <2>2, Context, PlansArePlan
  <2>4. CallsMore(session.calls, r.calls) /\ Shape(r)
    BY <1>1, <2>2, <2>3, TickCalls, TickShape
  <2>5. session' = Release(r, d)
    BY <2>1, <2>2
  <2>6. session'.calls = r.calls
    BY <2>4, <2>5, ReleaseCalls
  <2> QED BY <2>4, <2>6
<1> QED BY <1>2, <1>3 DEF TickRecordFails

\* the steps that call nobody
LEMMA OtherCalls ==
    ASSUME IInv, WorkerWakes \/ TickCommit \/ TickAbort \/ Horizon \/ UNCHANGED vars
    PROVE  CallsMore(session.calls, session'.calls)
<1>1. CASE WorkerWakes
  <2>1. PICK r : r = ClaimDue(session, clock')
    OBVIOUS
  <2>2. Shape(r) /\ r.calls = session.calls
    BY <2>1, SessionCalls, ClaimCalls
  <2>3. session' = [r EXCEPT !.last = Idle]
    BY <1>1, <2>1 DEF WorkerWakes
  <2> QED BY <2>2, <2>3, IdledCalls DEF CallsMore
<1>2. CASE TickCommit
  BY <1>2, SessionCalls, IdledCalls DEF TickCommit, CallsMore
<1>3. CASE TickAbort
  <2>1. session' = [session EXCEPT !.rows = committed.rows, !.jobs = committed.jobs,
                                   !.audits = committed.audits, !.last = Idle]
    BY <1>3 DEF TickAbort
  <2> QED BY <2>1, SessionCalls DEF Shape, CallsMore
<1>4. CASE Horizon \/ UNCHANGED vars
  BY <1>4 DEF Horizon, vars, CallsMore
<1> QED BY <1>1, <1>2, <1>3, <1>4

\* every step calls at most once
LEMMA StepCalls ==
    ASSUME IInv, [Next]_vars
    PROVE  CallsMore(session.calls, session'.calls)
<1>1. ASSUME NEW c \in Cases, Execute(c) PROVE CallsMore(session.calls, session'.calls)
  <2>1. PICK p \in Plans(c) : Request(p, "execute")
    BY <1>1 DEF Execute
  <2> QED BY <2>1, Context, PlansArePlan, RequestCalls DEF Vias
<1>2. ASSUME NEW c \in Cases, ScheduleCase(c) PROVE CallsMore(session.calls, session'.calls)
  <2>1. PICK p \in Plans(c) : Request(p, "schedule")
    BY <1>2 DEF ScheduleCase
  <2> QED BY <2>1, Context, PlansArePlan, RequestCalls DEF Vias
<1>3. ASSUME NEW c \in Cases, Replay(c) PROVE CallsMore(session.calls, session'.calls)
  <2>1. PICK p \in Plans(c) : Request(p, "replay")
    BY <1>3 DEF Replay
  <2> QED BY <2>1, Context, PlansArePlan, RequestCalls DEF Vias
<1>4. ASSUME NEW c \in Cases, RequestFails(c) PROVE CallsMore(session.calls, session'.calls)
  BY <1>4, RequestFailsCalls
<1>5. ASSUME NEW d \in due, TickRecord(d) PROVE CallsMore(session.calls, session'.calls)
  BY <1>5, TickRecordCalls
<1>6. ASSUME NEW d \in due, TickRecordFails(d) PROVE CallsMore(session.calls, session'.calls)
  BY <1>6, TickRecordFailsCalls
<1> QED BY <1>1, <1>2, <1>3, <1>4, <1>5, <1>6, OtherCalls DEF Next

\* a step that loses a transaction leaves the durable tables alone
LEMMA LossStep ==
    ASSUME [Next]_vars
    PROVE  faults' = faults \/ (faults' = faults + 1 /\ committed' = committed)
<1>1. ASSUME NEW p, NEW via, Request(p, via) PROVE faults' = faults
  BY <1>1 DEF Request
<1>2. ASSUME NEW c \in Cases, Execute(c) \/ ScheduleCase(c) \/ Replay(c)
      PROVE  faults' = faults
  BY <1>1, <1>2 DEF Execute, ScheduleCase, Replay
<1>3. ASSUME NEW c \in Cases, RequestFails(c)
      PROVE  faults' = faults + 1 /\ committed' = committed
  BY <1>3 DEF RequestFails
<1>4. ASSUME NEW d \in due, TickRecord(d) PROVE faults' = faults
  BY <1>4 DEF TickRecord
<1>5. ASSUME NEW d \in due, TickRecordFails(d)
      PROVE  faults' = faults + 1 /\ committed' = committed
  BY <1>5 DEF TickRecordFails
<1>6. WorkerWakes \/ TickCommit => faults' = faults
  BY DEF WorkerWakes, TickCommit
<1>7. TickAbort => faults' = faults + 1 /\ committed' = committed
  BY DEF TickAbort
<1>8. Horizon \/ UNCHANGED vars => faults' = faults
  BY DEF Horizon, vars
<1> QED BY <1>2, <1>3, <1>4, <1>5, <1>6, <1>7, <1>8 DEF Next

\* what the durable tables say of the calls: paid was served; what was settled
\* otherwise was served at most by calls that were lost
HonestKeys ==
    /\ \A k \in PaidKeys : Succeeded(session, k) > 0
    /\ \A k \in SettledKeys \ PaidKeys :
          k \in PayKey => Succeeded(session, k) <= faults
    /\ \A k \in DOMAIN session.calls : session.calls[k].ok <= 1 + faults

\* the invariant says so
LEMMA InvHonest == IInv => HonestKeys
<1> SUFFICES ASSUME IInv PROVE HonestKeys
  OBVIOUS
<1>1. ASSUME NEW k \in PaidKeys PROVE Succeeded(session, k) > 0
  <2>1. /\ k \in DOMAIN committed.rows /\ committed.rows[k].display = "SUCCESS"
        /\ k.strategy \in RazorpayStrategies
    BY <1>1 DEF PaidKeys
  <2>2. Explained(committed, session, k)
    BY <2>1, Context DEF TablesInv, RowOK
  <2> QED BY <2>1, <2>2 DEF Explained
<1>2. ASSUME NEW k \in SettledKeys \ PaidKeys, k \in PayKey
      PROVE  Succeeded(session, k) <= faults
  <2>1. /\ k \in DOMAIN committed.rows /\ committed.rows[k].display # "SUCCESS"
        /\ Settled(committed, k)
    BY <1>2 DEF SettledKeys, PaidKeys, PayKey, Settled
  <2>2. session.rows[k].display # "SUCCESS" /\ k \in Key
    BY <2>1, Context DEF IInv
  <2>3. Served(session, k, faults)
    BY <2>2, Context DEF SessionInv
  <2> QED BY <2>2, <2>3 DEF Served
<1>3. \A k \in DOMAIN session.calls : session.calls[k].ok <= 1 + faults
  BY InvCharges DEF ChargedOnce
<1> QED BY <1>1, <1>2, <1>3 DEF HonestKeys

\* and says so after a step
LEMMA HonestAfter == IInv' => HonestKeys'
BY InvHonest, PTL

\* what the durable tables show as settled
Outcome == [k \in SettledKeys |-> committed.rows[k]]

\* what is settled stays as it is, and what is paid stays paid
LEMMA SettledGrows ==
    ASSUME SettledStep
    PROVE  /\ \A k \in DOMAIN Outcome : k \in DOMAIN Outcome' /\ Outcome'[k] = Outcome[k]
           /\ PaidKeys \subseteq PaidKeys'
<1>1. \A k \in SettledKeys : k \in SettledKeys' /\ committed'.rows[k] = committed.rows[k]
  BY DEF SettledStep, SettledKeys
<1>2. PaidKeys \subseteq PaidKeys'
  BY DEF SettledStep, PaidKeys, TerminalDisplay
<1> QED BY <1>1, <1>2 DEF Outcome

\* a call of OnceCalls, if the calls of a step are at most one more
LEMMA CallsStep ==
    ASSUME IInv, IInv', SettledStep, CallsMore(session.calls, session'.calls)
    PROVE  \/ session'.calls = session.calls
           \/ \E k \in DOMAIN session'.calls : Provider!Call(k)
<1>1. SUFFICES ASSUME NEW k \in PayKey, NEW served \in {0, 1},
                      session'.calls = OneMore(session.calls, k, served)
               PROVE  k \in DOMAIN session'.calls /\ Provider!Call(k)
  BY DEF CallsMore
<1>2. session'.calls = Provider!OneMore(k, served)
  BY <1>1 DEF OneMore, Provider!OneMore, Provider!CallsOf
<1>3. /\ k \in DOMAIN session'.calls
      /\ session'.calls[k] = [tried |-> Provider!CallsOf(k).tried + 1,
                              ok |-> Provider!CallsOf(k).ok + served]
  BY <1>2 DEF Provider!OneMore
<1>4. Provider!CallsOf(k).tried \in Nat /\ Provider!CallsOf(k).ok \in Nat
  BY SessionCalls DEF Provider!CallsOf, IsTable, Received
<1>5. k \notin SettledKeys
  <2>1. Tried(session', k) = Provider!CallsOf(k).tried + 1
    BY <1>3 DEF Tried
  <2>2. Tried(session, k) = Provider!CallsOf(k).tried
    BY DEF Tried, Provider!CallsOf
  <2> QED BY <1>4, <2>1, <2>2 DEF SettledStep, SettledKeys
<1>6. served = 1 => Provider!CallsOf(k).ok <= faults'
  <2>1. session'.calls[k].ok <= 1 + faults'
    BY <1>3, HonestAfter DEF HonestKeys
  <2>2. faults' \in Nat
    BY DEF IInv, TypeOK
  <2>3. session'.calls[k].ok = Provider!CallsOf(k).ok + served
    BY <1>3
  <2> QED BY <1>4, <2>1, <2>2, <2>3
<1>7. /\ k \in [case : Cases, strategy : RazorpayStrategies, slot : Nat]
      /\ k \notin DOMAIN [j \in SettledKeys |-> committed.rows[j]]
  BY <1>5 DEF PayKey
<1> QED BY <1>2, <1>3, <1>6, <1>7 DEF Provider!Call

\* a step of the orchestrator is one of OnceCalls
LEMMA ProviderStep ==
    ASSUME IInv, IInv', SettledStep, CallsMore(session.calls, session'.calls),
           faults' = faults \/ (faults' = faults + 1 /\ committed' = committed)
    PROVE  Provider!Next
<1>1. /\ \A k \in DOMAIN Outcome : k \in DOMAIN Outcome' /\ Outcome'[k] = Outcome[k]
      /\ PaidKeys \subseteq PaidKeys'
  BY SettledGrows
<1>2. PaidKeys' \subseteq DOMAIN Outcome'
  BY DEF PaidKeys, SettledKeys, TerminalDisplay, Outcome
<1>3. CASE faults' = faults
  <2>1. \A k : Succeeded(session, k)' = Provider!CallsOf(k)'.ok
    BY DEF Succeeded, Provider!CallsOf
  <2>2. \A k \in PaidKeys' : Provider!CallsOf(k)'.ok > 0
    BY <2>1, HonestAfter DEF HonestKeys
  <2>3. \A k \in PayKey \cap (DOMAIN Outcome' \ PaidKeys') :
          Provider!CallsOf(k)'.ok <= faults
    BY <1>3, <2>1, HonestAfter DEF HonestKeys, Outcome
  <2>4. Provider!Settle
    BY <1>1, <1>2, <1>3, <2>2, <2>3 DEF Provider!Settle, PayKey, Outcome
  <2> QED BY <2>4, CallsStep DEF Provider!Next
<1>4. CASE faults' = faults + 1 /\ committed' = committed
  <2>1. Outcome' = Outcome /\ PaidKeys' = PaidKeys
    BY <1>4 DEF Outcome, SettledKeys, PaidKeys
  <2>2. Provider!Lose
    BY <1>4, <2>1 DEF Provider!Lose, Outcome
  <2> QED BY <2>2, CallsStep DEF Provider!Next
<1> QED BY <1>3, <1>4

(***************************************************************************)
(* Theorems                                                                *)
(***************************************************************************)
\* The inductive invariant holds in every reachable state.
THEOREM Invariance == Spec => []IInv
<1>1. IInv /\ [Next]_vars => IInv'
  BY NextStep
<1> QED BY InitIInv, <1>1, PTL DEF Spec

\* The tables are keyed by idempotency key, in the session and on disk, and
\* what a tick has still to handle are rows of its session.
THEOREM TypeCorrect == Spec => []TypeOK
<1>1. IInv => TypeOK
  BY DEF IInv
<1> QED BY Invariance, <1>1, PTL

\* recovery_actions and scheduler_jobs never disagree about a row: a waiting row
\* has its live job, at its time and with its retry count, and no other row has one.
THEOREM JobsAgree == Spec => []JobsFollowRows
BY Invariance, InvJobs, PTL

\* Every retry a row counts was a call of the provider, a row that retries is
\* within the cap, and a dead-lettered row has gone beyond it.
THEOREM RetriesAreCalls == Spec => []RetryAccounting
BY Invariance, InvRetries, PTL

\* SUCCESS of a paying strategy is a call the provider served; FAILED, SENT and
\* RETRYING are calls it did not serve.
THEOREM DisplaysAreTrue == Spec => []DisplayExplained
BY Invariance, InvDisplays, PTL

\* Every display of a durable row has its audit event in the same transaction.
THEOREM TrailIsComplete == Spec => []AuditTrail
BY Invariance, InvTrail, PTL

\* A key is served once, and again at most once for each crash, rollback or
\* unmapped exception.
THEOREM ServedOnce == Spec => []ChargedOnce
BY Invariance, InvCharges, PTL

\* No call is made for a blocked decision, from the schedule endpoint, or from
\* execute during a cooldown.
THEOREM GateHolds == Spec => []PolicyGateHolds
<1>1. IInv => PolicyGateHolds
  BY DEF IInv
<1> QED BY Invariance, <1>1, PTL

\* A durably settled row never changes, and its key is never called again.
THEOREM SettledStays == Spec => SettledIsFinal
<1>1. IInv /\ [Next]_vars => [SettledStep]_vars
  BY NextStep
<1> QED BY Invariance, <1>1, PTL DEF Spec, SettledIsFinal

\* What the provider hears and what the durable tables say implement OnceCalls:
\* one call at a time, of a key that is not settled, and outcomes that are true.
THEOREM ProviderIsCalledOnce == Spec => CallsOnce
<1>1. Init => Provider!Init
  BY DEF Init, Provider!Init, SettledKeys, PaidKeys, EmptyTables, NoEntries
<1>2. IInv /\ [Next]_vars => Provider!Next
  BY NextStep, StepCalls, LossStep, ProviderStep
<1> QED BY <1>1, <1>2, Invariance, PTL DEF Spec, CallsOnce, Provider!Spec
=============================================================================
