----------------------- MODULE RecoveryDecisionsProofs -----------------------
(***************************************************************************)
(* Theorems about recovery decisions, for any calendar, any cases, any     *)
(* moments and any bounds: plans respect the policy that holds at their    *)
(* moment, and what had to end is left alone by everyone.                  *)
(***************************************************************************)
EXTENDS RecoveryDecisions, EnginesProofs

-----------------------------------------------------------------------------
(* The invariant                                                           *)

\* the moment recovery had to end is known, and stays
EndIsKnown ==
    /\ finalSince # None <=> Final(case)
    /\ finalSince # None => finalSince \in Nat /\ finalSince <= now

\* an explanation given after the end says so
EndIsTold ==
    \A kind \in DOMAIN cache :
        /\ cache[kind].made <= now
        /\ finalSince # None /\ cache[kind].made > finalSince =>
              cache[kind].strategy = "STOP_RECOVERY" /\ cache[kind].asks = 0

IInv == TypeOK /\ Loaded(case) /\ EndIsKnown /\ EndIsTold

\* Moments are natural numbers.
LEMMA MomentsAreNumbers == ASSUME TypeOK PROVE now \in Nat /\ now >= Day
BY DecisionConstants DEF TypeOK

-----------------------------------------------------------------------------
(* Rows                                                                    *)

\* nothing but rows is different, and none is gone
Grows(c, e) ==
    /\ e.failure = c.failure /\ e.payments = c.payments
    /\ e.promises = c.promises /\ e.outages = c.outages
    /\ Len(e.actions) >= Len(c.actions)

\* rows that are not those of before have the status
Fresher(c, e, status) ==
    \A i \in DOMAIN e.actions :
        e.actions[i].status = status \/ (i \in DOMAIN c.actions /\ e.actions[i] = c.actions[i])

\* a case with other rows
WithRows(c, rows) == [c EXCEPT !.actions = rows]

\* A case with other rows.
LEMMA OtherRows ==
    ASSUME NEW c, Loaded(c), NEW rows \in Seq(ActionRow), Len(rows) >= Len(c.actions)
    PROVE  /\ Loaded(WithRows(c, rows)) /\ Grows(c, WithRows(c, rows))
           /\ WithRows(c, rows).actions = rows
<1> DEFINE e == WithRows(c, rows)
<1>1. c \in Case
  BY DEF Loaded
<1>2. /\ e.failure = c.failure /\ e.payments = c.payments /\ e.promises = c.promises
      /\ e.outages = c.outages /\ e.actions = rows /\ e \in Case
  BY <1>1 DEF Case, WithRows
<1> HIDE DEF e
<1>3. Loaded(e) /\ Grows(c, e) /\ e.actions = rows
  BY <1>2 DEF Loaded, Grows
<1> QED BY <1>3 DEF e

\* A row is put in the place of those of its plan, or at the end.
LEMMA PutIs ==
    ASSUME NEW c, Loaded(c), NEW row \in ActionRow
    PROVE  Loaded(Put(c, row)) /\ Grows(c, Put(c, row)) /\ Fresher(c, Put(c, row), row.status)
<1> DEFINE same == RowsOf(c, row.strategy, row.planned)
           n == Len(c.actions)
           added == Append(c.actions, row)
           replaced == [i \in DOMAIN c.actions |-> IF i \in same THEN row ELSE c.actions[i]]
<1>1. /\ c.actions \in Seq(ActionRow) /\ n \in Nat /\ DOMAIN c.actions = 1 .. n
      /\ \A i \in 1 .. n : c.actions[i] \in ActionRow
  BY PartsOfCase DEF Loaded
<1>2. CASE same = {}
  <2>1. Put(c, row) = WithRows(c, added)
    BY <1>2 DEF Put, WithRows
  <2>2. added \in Seq(ActionRow) /\ Len(added) = n + 1 /\ DOMAIN added = 1 .. n + 1
    BY <1>1
  <2>3. \A i \in 1 .. n + 1 : added[i] = IF i = n + 1 THEN row ELSE c.actions[i]
    BY <1>1
  <2>5. /\ Loaded(WithRows(c, added)) /\ Grows(c, WithRows(c, added))
        /\ WithRows(c, added).actions = added
    <3>1. Len(added) >= Len(c.actions)
      BY <1>1, <2>2
    <3> HIDE DEF added
    <3> QED BY <2>2, <3>1, OtherRows
  <2>6. \A i \in DOMAIN added : added[i] = row \/ (i \in DOMAIN c.actions /\ added[i] = c.actions[i])
    <3> HIDE DEF added
    <3> QED BY <1>1, <2>2, <2>3
  <2> HIDE DEF added
  <2> QED BY <2>1, <2>5, <2>6 DEF Fresher
<1>3. CASE same # {}
  <2>1. Put(c, row) = WithRows(c, replaced)
    <3> HIDE DEF n
    <3> QED BY <1>3 DEF Put, WithRows
  <2>2. replaced \in Seq(ActionRow) /\ Len(replaced) = n /\ DOMAIN replaced = 1 .. n
    <3>1. replaced \in [1 .. n -> ActionRow] /\ n \in Nat
      BY <1>1
    <3> HIDE DEF replaced
    <3> QED BY <3>1
  <2>3. \A i \in DOMAIN replaced : replaced[i] = row \/ (i \in DOMAIN c.actions /\ replaced[i] = c.actions[i])
    BY <1>1
  <2>5. /\ Loaded(WithRows(c, replaced)) /\ Grows(c, WithRows(c, replaced))
        /\ WithRows(c, replaced).actions = replaced
    <3> HIDE DEF replaced
    <3> QED BY <1>1, <2>2, OtherRows
  <2> HIDE DEF replaced
  <2> QED BY <2>1, <2>3, <2>5 DEF Fresher
<1> QED BY <1>2, <1>3

\* What a decision of today writes.
LEMMA WrittenIs ==
    ASSUME NEW c, Loaded(c), now \in Nat, NEW strategy \in Strategies, NEW at \in Nat,
           NEW actAt \in Nat, NEW status \in {"SCHEDULED", "RAN", "CANCELLED"}
    PROVE  LET e == Written(c, strategy, at, actAt, status)
           IN  Loaded(e) /\ Grows(c, e) /\ Fresher(c, e, status)
<1> DEFINE moment == CASE status = "RAN" -> now [] status = "SCHEDULED" -> actAt [] OTHER -> at
           row == [strategy |-> strategy, planned |-> at, status |-> status, at |-> moment]
           e == Written(c, strategy, at, actAt, status)
<1>1. moment \in Nat
  OBVIOUS
<1>2. row \in ActionRow /\ row.status = status
  <2> HIDE DEF moment
  <2> QED BY <1>1 DEF ActionRow
<1>3. e = c \/ e = Put(c, row)
  BY DEF Written
<1>4. Grows(c, c) /\ Fresher(c, c, status)
  BY PartsOfCase DEF Grows, Fresher, Loaded
<1> HIDE DEF e, row
<1>6. Loaded(e) /\ Grows(c, e) /\ Fresher(c, e, status)
  BY <1>2, <1>3, <1>4, PutIs
<1> QED BY <1>6 DEF e

\* What running a plan writes: nothing runs of what the policy refuses.
LEMMA RunIs ==
    ASSUME NEW c, Loaded(c), now \in Nat, NEW strategy \in Strategies, NEW at \in Nat, NEW replay
    PROVE  LET e == Run(c, strategy, at, replay)
           IN  /\ Loaded(e) /\ Grows(c, e)
               /\ Refused(Decision(c, now), strategy) => Fresher(c, e, "CANCELLED")
<1> DEFINE p == Decision(c, now)
           actAt == ActAt(strategy, at, p, now)
           status == StatusOf(p, strategy, actAt, replay)
           e == Run(c, strategy, at, replay)
<1>1. p.until \in Nat \cup {None}
  BY EvaluateIs DEF Decision
<1>2. actAt \in Nat
  <2> HIDE DEF p
  <2> QED BY <1>1 DEF ActAt, Later, None
<1>3. status \in {"SCHEDULED", "RAN", "CANCELLED"} /\ (Refused(p, strategy) => status = "CANCELLED")
  BY DEF StatusOf
<1>4. e = Written(c, strategy, at, actAt, status)
  BY DEF Run
<1> HIDE DEF e, status, actAt, p
<1>5. Loaded(e) /\ Grows(c, e) /\ Fresher(c, e, status)
  BY <1>2, <1>3, <1>4, WrittenIs
<1>6. Loaded(e) /\ Grows(c, e) /\ (Refused(p, strategy) => Fresher(c, e, "CANCELLED"))
  BY <1>3, <1>5
<1> QED BY <1>6 DEF e, p

-----------------------------------------------------------------------------
(* The end of recovery                                                     *)

\* What had to end, the policy stops: whatever the clock says.
LEMMA FinalIsStopped ==
    ASSUME NEW c, Loaded(c), Final(c), NEW t \in Nat
    PROVE  /\ Decision(c, t).decision = "STOP"
           /\ Planned(c, t).strategy = "STOP_RECOVERY" /\ Planned(c, t).value = 0
<1> DEFINE d == Diagnose(c, t)
           p == Evaluate(c, d, t)
           plan == PlanCase(c, t)
<1>1. AlreadyPaid(c) => d.label = "ALREADY_PAID"
  BY PaidComesFirst DEF Diagnose
<1>2. \/ d.label = "ALREADY_PAID" \/ c.failure.consent = "WITHDRAWN"
      \/ Revoked(c) \/ Cancelled(c) \/ \E q \in c.promises : q.status = "FULFILLED"
  BY <1>1 DEF Final
<1>3. p.decision = "STOP"
  BY <1>2, EvaluateIs
<1>4. Strategy(d, p) = "STOP_RECOVERY"
  <2> HIDE DEF p, d
  <2> QED BY <1>3, StrategyIs
<1>5. plan.strategy = "STOP_RECOVERY" /\ plan.value = 0
  <2>1. plan.strategy = Strategy(d, p)
    BY PlanIs
  <2>2. plan.strategy = "STOP_RECOVERY" => plan.value = 0
    BY PlanIs
  <2> HIDE DEF plan, p, d
  <2> QED BY <1>4, <2>1, <2>2
<1> QED BY <1>3, <1>5 DEF Decision, Diagnosed, Planned

\* The end does not depend on the rows.
LEMMA EndOfRows ==
    ASSUME NEW c, NEW e, Grows(c, e)
    PROVE  Final(e) <=> Final(c)
BY DEF Grows, Final, AlreadyPaid, SameSubscription, Revoked, Cancelled

\* Of what had to end nothing is run.
LEMMA RunOfFinal ==
    ASSUME NEW c, Loaded(c), Final(c), now \in Nat, NEW strategy \in Strategies, NEW at \in Nat,
           NEW replay
    PROVE  Fresher(c, Run(c, strategy, at, replay), "CANCELLED")
<1>1. Refused(Decision(c, now), strategy)
  BY FinalIsStopped DEF Refused, Blocked
<1> QED BY <1>1, RunIs

\* A plan is a plan that can be run.
LEMMA PlannedIs ==
    ASSUME NEW c, Loaded(c), NEW t \in Nat, t >= Day
    PROVE  /\ Planned(c, t).strategy \in Strategies /\ Planned(c, t).fallback \in Strategies
           /\ Planned(c, t).at \in Nat /\ Planned(c, t).value \in Nat
BY PlanIs, PlanLies DEF Planned

\* The end of a wait.
LEMMA AfterWaitIs ==
    ASSUME NEW c, Loaded(c), now \in Nat, now >= Day, NEW i \in DOMAIN c.actions
    PROVE  LET e == AfterWait(c, i)
           IN  /\ Loaded(e) /\ Grows(c, e)
               /\ Final(c) => \A j \in DOMAIN e.actions :
                     e.actions[j].status = "RAN" =>
                         j = i \/ (j \in DOMAIN c.actions /\ e.actions[j] = c.actions[j])
<1> DEFINE e == AfterWait(c, i)
           ran == [c EXCEPT !.actions[i].status = "RAN", !.actions[i].at = now]
           rows == [c.actions EXCEPT ![i] = [@ EXCEPT !.status = "RAN", !.at = now]]
           fallback == Planned(c, now).fallback
           next == Run(ran, fallback, now, FALSE)
<1>1. /\ c \in Case /\ c.actions \in Seq(ActionRow) /\ DOMAIN c.actions = 1 .. Len(c.actions)
      /\ Len(c.actions) \in Nat /\ c.actions[i] \in ActionRow
  BY PartsOfCase DEF Loaded
<1>2. ran = WithRows(c, rows)
  BY <1>1 DEF WithRows, Case
<1>3. /\ rows \in Seq(ActionRow) /\ Len(rows) = Len(c.actions) /\ DOMAIN rows = DOMAIN c.actions
      /\ \A j \in DOMAIN c.actions : j # i => rows[j] = c.actions[j]
  <2>1. [c.actions[i] EXCEPT !.status = "RAN", !.at = now] \in ActionRow
    BY <1>1 DEF ActionRow
  <2> QED BY <1>1, <2>1
<1>4. Loaded(ran) /\ Grows(c, ran) /\ ran.actions = rows
  <2> HIDE DEF ran, rows
  <2> QED BY <1>1, <1>2, <1>3, OtherRows
<1>5. fallback \in Strategies
  BY PlannedIs
<1>6. /\ Loaded(next) /\ Grows(ran, next)
      /\ Final(ran) => Fresher(ran, next, "CANCELLED")
  <2> HIDE DEF ran, fallback
  <2> QED BY <1>4, <1>5, RunIs, RunOfFinal
<1>7. e = ran \/ e = next
  BY DEF AfterWait
<1> HIDE DEF e, ran, rows, next, fallback
<1>8. Loaded(e) /\ Grows(c, e)
  <2>1. CASE e = ran
    BY <1>4, <2>1
  <2>2. CASE e = next
    <3>1. Len(next.actions) >= Len(ran.actions) /\ Len(ran.actions) = Len(c.actions)
      BY <1>3, <1>4, <1>6 DEF Grows
    <3> QED BY <1>4, <1>6, <2>2, <3>1 DEF Grows
  <2> QED BY <1>7, <2>1, <2>2
<1>9. ASSUME Final(c), NEW j \in DOMAIN e.actions, e.actions[j].status = "RAN"
      PROVE  j = i \/ (j \in DOMAIN c.actions /\ e.actions[j] = c.actions[j])
  <2>1. Final(ran)
    BY <1>4, <1>9, EndOfRows
  <2>2. j \in DOMAIN ran.actions /\ e.actions[j] = ran.actions[j]
    BY <1>6, <1>7, <1>9, <2>1 DEF Fresher
  <2> QED BY <1>3, <1>4, <2>2
<1>10. /\ Loaded(e) /\ Grows(c, e)
       /\ Final(c) => \A j \in DOMAIN e.actions :
             e.actions[j].status = "RAN" =>
                 j = i \/ (j \in DOMAIN c.actions /\ e.actions[j] = c.actions[j])
  BY <1>8, <1>9
<1> QED BY <1>10 DEF e

-----------------------------------------------------------------------------
(* Steps that write rows                                                   *)

\* What an execution or a tick does to the case.
LEMMA RowSteps ==
    ASSUME IInv, Execute \/ Tick
    PROVE  /\ Loaded(case') /\ Grows(case, case')
           /\ UNCHANGED <<now, cache, finalSince>>
           /\ Final(case) => \A j \in DOMAIN case'.actions :
                 case'.actions[j].status = "RAN" =>
                    /\ j \in DOMAIN case.actions
                    /\ case'.actions[j] = case.actions[j] \/ case.actions[j].strategy \in WaitStrategies
<1>1. now \in Nat /\ now >= Day /\ Loaded(case)
  BY MomentsAreNumbers DEF IInv
<1> DEFINE plan == Planned(case, now)
<1>2. plan.strategy \in Strategies /\ plan.at \in Nat
  BY <1>1, PlannedIs
<1>3. ASSUME NEW replay, case' = Run(case, plan.strategy, plan.at, replay)
      PROVE  /\ Loaded(case') /\ Grows(case, case')
             /\ Final(case) => Fresher(case, case', "CANCELLED")
  <2> HIDE DEF plan
  <2>1. Loaded(Run(case, plan.strategy, plan.at, replay)) /\ Grows(case, Run(case, plan.strategy, plan.at, replay))
    BY <1>1, <1>2, RunIs
  <2>2. Final(case) => Fresher(case, Run(case, plan.strategy, plan.at, replay), "CANCELLED")
    BY <1>1, <1>2, RunOfFinal
  <2> QED BY <1>3, <2>1, <2>2
<1>4. CASE Execute
  <2>1. case' = Run(case, plan.strategy, plan.at, FALSE) /\ UNCHANGED <<now, cache, finalSince>>
    BY <1>4 DEF Execute
  <2> HIDE DEF plan
  <2> QED BY <1>3, <2>1 DEF Fresher
<1>5. ASSUME NEW i \in DOMAIN case.actions, TickRetry(i)
      PROVE  /\ Loaded(case') /\ Grows(case, case') /\ UNCHANGED <<now, cache, finalSince>>
             /\ Final(case) => Fresher(case, case', "CANCELLED")
  <2>1. case' = Run(case, plan.strategy, plan.at, TRUE) /\ UNCHANGED <<now, cache, finalSince>>
    BY <1>5 DEF TickRetry
  <2> HIDE DEF plan
  <2> QED BY <1>3, <2>1
<1>6. ASSUME NEW i \in DOMAIN case.actions, TickWait(i)
      PROVE  /\ Loaded(case') /\ Grows(case, case') /\ UNCHANGED <<now, cache, finalSince>>
             /\ case.actions[i].strategy \in WaitStrategies
             /\ Final(case) => \A j \in DOMAIN case'.actions :
                   case'.actions[j].status = "RAN" =>
                      j = i \/ (j \in DOMAIN case.actions /\ case'.actions[j] = case.actions[j])
  <2>1. /\ case' = AfterWait(case, i) /\ UNCHANGED <<now, cache, finalSince>>
        /\ case.actions[i].strategy \in WaitStrategies
    BY <1>6 DEF TickWait
  <2> QED BY <1>1, <2>1, AfterWaitIs
<1>7. CASE Tick
  <2>1. PICK i \in DOMAIN case.actions : TickWait(i) \/ TickRetry(i)
    BY <1>7 DEF Tick
  <2>2. CASE TickWait(i)
    BY <1>6, <2>2
  <2>3. CASE TickRetry(i)
    BY <1>5, <2>3 DEF Fresher
  <2> QED BY <2>1, <2>2, <2>3
<1> QED BY <1>4, <1>7

-----------------------------------------------------------------------------
(* Steps that change facts                                                 *)

\* What a fact does to the case: no row changes, and no end is undone.
FactOn(e) ==
    /\ Loaded(e) /\ e.actions = case.actions
    /\ Final(case) => Final(e)

\* The facts of a payment that fails are what they were, but for what changed.
LEMMA FactSteps ==
    ASSUME IInv, Fact
    PROVE  FactOn(case') /\ finalSince' = SinceOf(case') /\ UNCHANGED <<now, cache>>
<1>1. /\ now \in Nat /\ now >= Day /\ Loaded(case) /\ case \in Case /\ case.failure \in Failure
      /\ case.promises \subseteq Promise /\ case.payments \subseteq Payment
      /\ IsFiniteSet(case.payments) /\ IsFiniteSet(case.promises)
  BY MomentsAreNumbers, PartsOfCase DEF IInv, Loaded
<1>2. ASSUME NEW e, Changes(e), FactOn(e)
      PROVE  FactOn(case') /\ finalSince' = SinceOf(case') /\ UNCHANGED <<now, cache>>
  BY <1>2 DEF Changes
<1>3. CASE PayOtherwise
  <2> DEFINE paid == [at |-> now, paid |-> now, success |-> TRUE, common |-> {"amount", "subscription"}]
             e == [case EXCEPT !.payments = {paid}]
  <2>1. Changes(e) /\ case.payments = {}
    BY <1>3 DEF PayOtherwise
  <2>2. paid \in Payment
    BY <1>1, Zenon DEF Payment
  <2>3. IsFiniteSet({paid})
    BY FS_Singleton
  <2>4. /\ e \in Case /\ e.payments = {paid} /\ e.failure = case.failure /\ e.promises = case.promises
        /\ e.actions = case.actions
    <3> HIDE DEF paid
    <3> QED BY <1>1, <2>2 DEF Case
  <2>5. ~AlreadyPaid(case)
    BY <2>1 DEF AlreadyPaid
  <2> HIDE DEF e, paid
  <2>6. Final(case) => Final(e)
    BY <2>4, <2>5 DEF Final, Revoked, Cancelled
  <2>7. FactOn(e)
    BY <1>1, <2>3, <2>4, <2>6 DEF FactOn, Loaded
  <2> QED BY <1>2, <2>1, <2>7
<1>4. ASSUME NEW e, e \in Case, e.payments = case.payments, e.promises = case.promises,
             e.actions = case.actions, e.failure.at = case.failure.at,
             e.failure.subscribed = case.failure.subscribed,
             case.failure.consent = "WITHDRAWN" => e.failure.consent = "WITHDRAWN",
             case.failure.mandate = "REVOKED" => e.failure.mandate = "REVOKED",
             case.failure.cancelled => e.failure.cancelled
      PROVE  FactOn(e)
  <2>1. AlreadyPaid(case) => AlreadyPaid(e)
    BY <1>4 DEF AlreadyPaid, SameSubscription
  <2>2. (Revoked(case) => Revoked(e)) /\ (Cancelled(case) => Cancelled(e))
    BY <1>4 DEF Revoked, Cancelled
  <2>3. Final(case) => Final(e)
    BY <1>4, <2>1, <2>2 DEF Final
  <2> QED BY <1>1, <1>4, <2>3 DEF FactOn, Loaded
<1>5. CASE WithdrawConsent
  <2> DEFINE e == [case EXCEPT !.failure.consent = "WITHDRAWN"]
             f == [case.failure EXCEPT !.consent = "WITHDRAWN"]
  <2>1. Changes(e)
    BY <1>5 DEF WithdrawConsent
  <2>2. /\ f \in Failure /\ f.at = case.failure.at /\ f.subscribed = case.failure.subscribed
        /\ f.consent = "WITHDRAWN" /\ f.mandate = case.failure.mandate
        /\ f.cancelled = case.failure.cancelled
    BY <1>1 DEF Failure
  <2>3. /\ e \in Case /\ e.failure = f /\ e.payments = case.payments /\ e.promises = case.promises
        /\ e.actions = case.actions
    BY <1>1, <2>2 DEF Case
  <2>4. FactOn(e)
    <3> HIDE DEF e, f
    <3> QED BY <1>4, <2>2, <2>3
  <2> QED BY <1>2, <2>1, <2>4
<1>6. CASE CancelSubscription
  <2> DEFINE e == [case EXCEPT !.failure.cancelled = TRUE]
             f == [case.failure EXCEPT !.cancelled = TRUE]
  <2>1. Changes(e)
    BY <1>6 DEF CancelSubscription
  <2>2. /\ f \in Failure /\ f.at = case.failure.at /\ f.subscribed = case.failure.subscribed
        /\ f.consent = case.failure.consent /\ f.mandate = case.failure.mandate
        /\ f.cancelled
    BY <1>1 DEF Failure
  <2>3. /\ e \in Case /\ e.failure = f /\ e.payments = case.payments /\ e.promises = case.promises
        /\ e.actions = case.actions
    BY <1>1, <2>2 DEF Case
  <2>4. FactOn(e)
    <3> HIDE DEF e, f
    <3> QED BY <1>4, <2>2, <2>3
  <2> QED BY <1>2, <2>1, <2>4
<1>7. CASE RevokeMandate
  <2> DEFINE e == [case EXCEPT !.failure.mandate = "REVOKED"]
             f == [case.failure EXCEPT !.mandate = "REVOKED"]
  <2>1. Changes(e)
    BY <1>7 DEF RevokeMandate
  <2>2. /\ f \in Failure /\ f.at = case.failure.at /\ f.subscribed = case.failure.subscribed
        /\ f.consent = case.failure.consent /\ f.mandate = "REVOKED"
        /\ f.cancelled = case.failure.cancelled
    BY <1>1 DEF Failure
  <2>3. /\ e \in Case /\ e.failure = f /\ e.payments = case.payments /\ e.promises = case.promises
        /\ e.actions = case.actions
    BY <1>1, <2>2 DEF Case
  <2>4. FactOn(e)
    <3> HIDE DEF e, f
    <3> QED BY <1>4, <2>2, <2>3
  <2> QED BY <1>2, <2>1, <2>4
<1>8. ASSUME NEW promises \in SUBSET Promise, IsFiniteSet(promises),
             \A q \in case.promises : q.status = "FULFILLED" => q \in promises
      PROVE  FactOn([case EXCEPT !.promises = promises])
  <2> DEFINE e == [case EXCEPT !.promises = promises]
  <2>1. /\ e \in Case /\ e.failure = case.failure /\ e.payments = case.payments
        /\ e.promises = promises /\ e.actions = case.actions
    BY <1>1 DEF Case
  <2> HIDE DEF e
  <2>2. Final(case) => Final(e)
    BY <1>8, <2>1 DEF Final, AlreadyPaid, SameSubscription, Revoked, Cancelled
  <2>3. FactOn(e)
    BY <1>1, <1>8, <2>1, <2>2 DEF FactOn, Loaded
  <2> QED BY <2>3 DEF e
<1>9. ASSUME NEW day \in PromiseDays, MakePromise(day)
      PROVE  FactOn(case') /\ finalSince' = SinceOf(case') /\ UNCHANGED <<now, cache>>
  <2> DEFINE promise == [status |-> "OPEN", day |-> day]
  <2>1. Changes([case EXCEPT !.promises = {promise}]) /\ case.promises = {}
    BY <1>9 DEF MakePromise
  <2>2. promise \in Promise /\ IsFiniteSet({promise})
    BY DecisionConstants, FS_Singleton DEF Promise
  <2> HIDE DEF promise
  <2>3. FactOn([case EXCEPT !.promises = {promise}])
    BY <1>8, <2>1, <2>2
  <2> QED BY <1>2, <2>1, <2>3
<1>10. ASSUME NEW status \in {"FULFILLED", "BROKEN"}, SettlePromise(status)
       PROVE  FactOn(case') /\ finalSince' = SinceOf(case') /\ UNCHANGED <<now, cache>>
  <2> DEFINE settled == {IF q.status = "OPEN" THEN [q EXCEPT !.status = status] ELSE q : q \in case.promises}
             s == [q \in case.promises |-> IF q.status = "OPEN" THEN [q EXCEPT !.status = status] ELSE q]
  <2>1. Changes([case EXCEPT !.promises = settled])
    BY <1>1, <1>10 DEF SettlePromise, Case
  <2>2. IsFiniteSet(settled)
    <3>1. IsFiniteSet({s[q] : q \in case.promises})
      <4> HIDE DEF s
      <4> QED BY <1>1, ImageIsFinite
    <3>2. settled = {s[q] : q \in case.promises}
      OBVIOUS
    <3> QED BY <3>1, <3>2
  <2>3. settled \in SUBSET Promise
    <3>1. \A q \in case.promises : [q EXCEPT !.status = status] \in Promise /\ q \in Promise
      BY <1>1 DEF Promise
    <3> QED BY <3>1
  <2>4. \A q \in case.promises : q.status = "FULFILLED" => q \in settled
    OBVIOUS
  <2> HIDE DEF settled
  <2>5. FactOn([case EXCEPT !.promises = settled])
    BY <1>8, <2>2, <2>3, <2>4
  <2> QED BY <1>2, <2>1, <2>5
<1>11. ASSUME NEW ahead \in Timezones, SetTimezone(ahead)
       PROVE  FactOn(case') /\ finalSince' = SinceOf(case') /\ UNCHANGED <<now, cache>>
  <2> DEFINE e == [case EXCEPT !.ahead = ahead]
  <2>1. Changes(e)
    BY <1>11 DEF SetTimezone
  <2>2. /\ e \in Case /\ e.failure = case.failure /\ e.payments = case.payments
        /\ e.promises = case.promises /\ e.actions = case.actions
    BY <1>1, DecisionConstants DEF Case
  <2>3. FactOn(e)
    <3> HIDE DEF e
    <3> QED BY <1>4, <2>2
  <2> QED BY <1>2, <2>1, <2>3
<1> QED BY <1>3, <1>5, <1>6, <1>7, <1>9, <1>10, <1>11 DEF Fact

-----------------------------------------------------------------------------
(* The other steps                                                         *)

\* The first of some moments.
LEMMA FirstMoment ==
    ASSUME NEW S, S \subseteq Instants, S # {}
    PROVE  Min(S) \in S /\ Min(S) \in Nat
BY DecisionConstants, MinOfNats

\* In the beginning nothing is explained, and the end is known.
LEMMA InitIInv == Init => IInv
<1> SUFFICES ASSUME Init PROVE IInv
  OBVIOUS
<1>1. now \in Instants /\ now \in Nat /\ now = Min(Instants)
  BY DecisionConstants, FirstMoment DEF Init
<1>2. Loaded(case) /\ case \in Case
  BY DecisionConstants DEF Init, Loaded
<1>3. DOMAIN cache = {}
  BY DEF Init
<1>4. finalSince = IF Final(case) THEN now ELSE None
  BY <1>1 DEF Init
<1>5. TypeOK
  BY <1>1, <1>2, <1>3, <1>4 DEF TypeOK
<1>6. EndIsKnown
  BY <1>1, <1>4 DEF EndIsKnown, None
<1>7. EndIsTold
  BY <1>3 DEF EndIsTold
<1> QED BY <1>2, <1>5, <1>6, <1>7 DEF IInv

\* An explanation that is not in the cache is one of today's plan.
LEMMA EntryIs ==
    ASSUME NEW c, Loaded(c), now \in Nat, now >= Day
    PROVE  LET entry == EntryOf(Planned(c, now))
           IN  /\ entry \in Explanation /\ entry.made = now
               /\ Final(c) => entry.strategy = "STOP_RECOVERY" /\ entry.asks = 0
<1> DEFINE plan == Planned(c, now)
           entry == EntryOf(plan)
<1>1. plan.strategy \in Strategies /\ plan.value \in Nat
  BY PlannedIs
<1>2. Final(c) => plan.strategy = "STOP_RECOVERY" /\ plan.value = 0
  BY FinalIsStopped
<1> HIDE DEF plan
<1>3. AskedRupees(plan) \in Nat /\ (plan.value = 0 => AskedRupees(plan) = 0)
  BY <1>1 DEF AskedRupees
<1>4. /\ entry \in Explanation /\ entry.made = now
      /\ Final(c) => entry.strategy = "STOP_RECOVERY" /\ entry.asks = 0
  BY <1>1, <1>2, <1>3 DEF EntryOf, Explanation
<1> QED BY <1>4 DEF plan

\* What is served is an explanation, and what is new of it is of today.
LEMMA ServedIs ==
    ASSUME IInv, NEW kind
    PROVE  /\ Served(kind) \in Explanation /\ Served(kind).made <= now
           /\ finalSince # None /\ Served(kind).made > finalSince =>
                 Served(kind).strategy = "STOP_RECOVERY" /\ Served(kind).asks = 0
           /\ now < Served(kind).made + CacheTtl
<1>1. now \in Nat /\ now >= Day /\ Loaded(case)
  BY MomentsAreNumbers DEF IInv
<1>2. CASE kind \in DOMAIN cache /\ Fresh(cache[kind])
  <2>1. Served(kind) = cache[kind]
    BY <1>2 DEF Served
  <2> QED BY <1>2, <2>1 DEF IInv, TypeOK, EndIsTold, Fresh
<1>3. CASE ~(kind \in DOMAIN cache /\ Fresh(cache[kind]))
  <2> DEFINE entry == EntryOf(Planned(case, now))
  <2>1. Served(kind) = entry
    BY <1>3 DEF Served
  <2>2. /\ entry \in Explanation /\ entry.made = now
        /\ Final(case) => entry.strategy = "STOP_RECOVERY" /\ entry.asks = 0
    BY <1>1, EntryIs
  <2> HIDE DEF entry
  <2>3. finalSince # None => Final(case)
    BY DEF IInv, EndIsKnown
  <2>4. now <= now /\ now < now + CacheTtl
    BY <1>1 DEF CacheTtl, Day
  <2> QED BY <2>1, <2>2, <2>3, <2>4
<1> QED BY <1>2, <1>3

\* Explaining changes the cache only.
LEMMA ExplainStep ==
    ASSUME IInv, NEW kind \in Kinds, Explain(kind)
    PROVE  IInv'
<1>1. /\ UNCHANGED <<now, case, finalSince>> /\ DOMAIN cache' = DOMAIN cache \cup {kind}
      /\ \A k \in DOMAIN cache' : cache'[k] = IF k = kind THEN Served(kind) ELSE cache[k]
  BY DEF Explain
<1>2. \A k \in DOMAIN cache' : cache'[k] = Served(kind) \/ (k \in DOMAIN cache /\ cache'[k] = cache[k])
  BY <1>1
<1>3. TypeOK'
  BY <1>1, <1>2, ServedIs DEF IInv, TypeOK
<1>4. EndIsTold'
  <2>1. ASSUME NEW k \in DOMAIN cache'
        PROVE  /\ cache'[k].made <= now
               /\ finalSince # None /\ cache'[k].made > finalSince =>
                     cache'[k].strategy = "STOP_RECOVERY" /\ cache'[k].asks = 0
    BY <1>2, ServedIs DEF IInv, EndIsTold
  <2> QED BY <1>1, <2>1 DEF EndIsTold
<1>5. EndIsKnown'
  BY <1>1 DEF IInv, EndIsKnown, Final, AlreadyPaid, SameSubscription, Revoked, Cancelled
<1>6. Loaded(case')
  BY <1>1 DEF IInv
<1> QED BY <1>3, <1>4, <1>5, <1>6 DEF IInv

\* Every step keeps the invariant.
LEMMA NextStep == IInv /\ [Next]_vars => IInv'
<1> SUFFICES ASSUME IInv, [Next]_vars PROVE IInv'
  OBVIOUS
<1>1. now \in Nat /\ now >= Day /\ Loaded(case) /\ TypeOK /\ EndIsKnown /\ EndIsTold
  BY MomentsAreNumbers DEF IInv
<1>2. CASE Execute \/ Tick
  <2>1. Loaded(case') /\ Grows(case, case') /\ UNCHANGED <<now, cache, finalSince>>
    BY <1>2, RowSteps
  <2>2. Final(case') <=> Final(case)
    BY <2>1, EndOfRows
  <2>3. TypeOK' /\ EndIsTold'
    BY <1>1, <2>1 DEF TypeOK, EndIsTold, Loaded
  <2>4. EndIsKnown'
    <3>1. /\ finalSince' # None <=> Final(case')
          /\ finalSince' # None => finalSince' \in Nat /\ finalSince' <= now'
      BY <1>1, <2>1, <2>2 DEF EndIsKnown
    <3>2. EndIsKnown' <=> /\ finalSince' # None <=> Final(case')
                          /\ finalSince' # None => finalSince' \in Nat /\ finalSince' <= now'
      BY DEF EndIsKnown, Final, AlreadyPaid, SameSubscription, Revoked, Cancelled
    <3> QED BY <3>1, <3>2
  <2> QED BY <2>1, <2>3, <2>4 DEF IInv
<1>3. CASE Fact
  <2>1. FactOn(case') /\ finalSince' = SinceOf(case') /\ UNCHANGED <<now, cache>>
    BY <1>3, FactSteps
  <2>2. finalSince' = IF finalSince = None /\ Final(case') THEN now ELSE finalSince
    BY <2>1 DEF SinceOf
  <2>3. TypeOK'
    BY <1>1, <2>1, <2>2 DEF TypeOK, FactOn, Loaded
  <2>4. /\ finalSince' # None <=> Final(case')
        /\ finalSince' # None => finalSince' \in Nat /\ finalSince' <= now'
    BY <1>1, <2>1, <2>2 DEF EndIsKnown, FactOn, None
  <2>5. EndIsKnown'
    <3>1. EndIsKnown' <=> /\ finalSince' # None <=> Final(case')
                          /\ finalSince' # None => finalSince' \in Nat /\ finalSince' <= now'
      BY DEF EndIsKnown, Final, AlreadyPaid, SameSubscription, Revoked, Cancelled
    <3> QED BY <2>4, <3>1
  <2>6. EndIsTold'
    <3>1. ASSUME NEW k \in DOMAIN cache
          PROVE  /\ cache[k].made <= now
                 /\ finalSince' # None /\ cache[k].made > finalSince' =>
                       cache[k].strategy = "STOP_RECOVERY" /\ cache[k].asks = 0
      <4>1. cache[k].made \in Nat /\ cache[k].made <= now
        BY <1>1 DEF TypeOK, Explanation, EndIsTold
      <4> QED BY <1>1, <2>2, <4>1 DEF EndIsTold
    <3> QED BY <2>1, <3>1 DEF EndIsTold
  <2>7. Loaded(case')
    BY <2>1 DEF FactOn
  <2> QED BY <2>3, <2>5, <2>6, <2>7 DEF IInv
<1>4. CASE Advance
  <2> DEFINE ahead == {t \in Instants : t > now}
  <2>1. now' = Min(ahead) /\ ahead # {} /\ UNCHANGED <<case, cache, finalSince>>
    BY <1>4 DEF Advance
  <2>2. now' \in Instants /\ now' \in Nat /\ now' > now
    <3>1. ahead \subseteq Instants /\ \A t \in ahead : t \in Instants /\ t > now
      OBVIOUS
    <3> HIDE DEF ahead
    <3> QED BY <2>1, <3>1, FirstMoment
  <2>3. TypeOK'
    BY <1>1, <2>1, <2>2 DEF TypeOK
  <2>4. EndIsKnown'
    BY <1>1, <2>1, <2>2 DEF EndIsKnown, Final, AlreadyPaid, SameSubscription, Revoked, Cancelled
  <2>5. EndIsTold'
    <3>1. ASSUME NEW k \in DOMAIN cache PROVE cache[k].made <= now'
      <4>1. cache[k].made \in Nat /\ cache[k].made <= now
        BY <1>1 DEF TypeOK, Explanation, EndIsTold
      <4> QED BY <1>1, <2>2, <4>1
    <3> QED BY <1>1, <2>1, <3>1 DEF EndIsTold
  <2> QED BY <1>1, <2>1, <2>3, <2>4, <2>5 DEF IInv
<1>5. ASSUME NEW kind \in Kinds, Explain(kind) PROVE IInv'
  BY <1>5, ExplainStep
<1>6. CASE UNCHANGED vars
  <2>1. UNCHANGED <<now, case, cache, finalSince>>
    BY <1>6 DEF vars
  <2> QED BY <2>1 DEF IInv, TypeOK, Loaded, EndIsKnown, EndIsTold, Final, AlreadyPaid,
                     SameSubscription, Revoked, Cancelled
<1> QED BY <1>2, <1>3, <1>4, <1>5, <1>6 DEF Next

-----------------------------------------------------------------------------
(* Plans and the policy                                                    *)

\* The label is found without the clock.
LEMMA LabelIs == ASSUME NEW c, NEW t PROVE Diagnosed(c, t).label = Primary(c)
BY DEF Diagnosed, Diagnose

\* When its plan is due the policy has stopped to wait for promises and for retries.
LEMMA PlanOutlastsCooldown ==
    ASSUME NEW c, Loaded(c), NEW t \in Nat, t >= Day,
           Planned(c, t).strategy \notin {"STOP_RECOVERY", "HONOUR_PROMISE_TO_PAY"},
           Primary(c) # "CHARGEBACK_ACTIVE"
    PROVE  LET at == Planned(c, t).at
           IN  /\ at \in Nat /\ at >= t
               /\ ~Runs(c, at) /\ at >= GapUntil(c) /\ at >= CapUntil(c, t)
<1> DEFINE d == Diagnose(c, t)
           p == Evaluate(c, d, t)
           plan == PlanCase(c, t)
           at == plan.at
<1>1. at \in Nat /\ at >= t /\ at >= p.until
  BY PlanLies DEF Planned
<1>2. p.decision \notin {"STOP", "DENY"}
  <2>1. p.decision \in {"STOP", "ESCALATE", "DENY", "WAIT", "ALLOW"}
    BY EvaluateIs
  <2>2. plan.strategy = Strategy(d, p)
    BY PlanIs
  <2>3. p.decision \in {"STOP", "DENY"} => Strategy(d, p) = "STOP_RECOVERY"
    <3> HIDE DEF p, d
    <3> QED BY <2>1, StrategyIs
  <2> QED BY <2>2, <2>3 DEF Planned
<1>3. p.decision = "WAIT" \/ p.decision = "ALLOW"
  <2>1. d.label = Primary(c)
    BY DEF Diagnose
  <2>2. /\ p.decision \in {"STOP", "ESCALATE", "DENY", "WAIT", "ALLOW"}
        /\ p.decision = "ESCALATE" => d.label = "CHARGEBACK_ACTIVE"
    BY EvaluateIs
  <2> QED BY <1>2, <2>1, <2>2
<1>4. GapUntil(c) \in Int /\ CapUntil(c, t) \in Int
  BY GapIs, CapIs DEF None
<1>5. /\ p.decision = "ALLOW" => ~Runs(c, t) /\ ~Cooling(c, t)
      /\ p.decision = "WAIT" /\ Runs(c, t) =>
            p.until \in Nat /\ p.until >= At(PromisedDay(c) + 1, Opens)
      /\ p.decision = "WAIT" /\ Cooling(c, t) =>
            p.until \in Nat /\ p.until >= GapUntil(c) /\ p.until >= CapUntil(c, t)
  BY EvaluateIs
<1> HIDE DEF p, plan, at
<1>6. at >= GapUntil(c) /\ at >= CapUntil(c, t)
  <2>1. CASE Cooling(c, t)
    BY <1>1, <1>3, <1>4, <1>5, <2>1
  <2>2. CASE ~Cooling(c, t)
    BY <1>1, <1>4, <2>2 DEF Cooling
  <2> QED BY <2>1, <2>2
<1>7. ~Runs(c, at)
  <2>1. SUFFICES ASSUME Runs(c, at) PROVE FALSE
    OBVIOUS
  <2>2. PromisedDay(c) \in Nat /\ OpenPromises(c) # {} /\ DayOf(at) <= PromisedDay(c)
    BY <2>1, PromisedDayIs DEF Runs
  <2>3. DayOf(t) \in Nat /\ DayOf(at) \in Nat /\ DayOf(t) <= DayOf(at)
    BY <1>1, Moments, DaysAreOrdered
  <2>4. Runs(c, t)
    BY <2>2, <2>3 DEF Runs
  <2>5. at >= At(PromisedDay(c) + 1, Opens)
    <3>1. At(PromisedDay(c) + 1, Opens) \in Nat
      BY <2>2, Quarters DEF At, Day
    <3> QED BY <1>1, <1>3, <1>5, <2>4, <3>1
  <2>6. PromisedDay(c) + 1 \in Nat /\ Opens \in 0 .. 95
    BY <2>2, Quarters
  <2>7. PromisedDay(c) + 1 <= DayOf(at)
    BY <1>1, <2>5, <2>6, DaysAreOrdered
  <2> QED BY <2>2, <2>3, <2>7
<1>8. at \in Nat /\ at >= t /\ ~Runs(c, at) /\ at >= GapUntil(c) /\ at >= CapUntil(c, t)
  BY <1>1, <1>6, <1>7
<1> QED BY <1>8 DEF at, plan, Planned

\* Plans are due, whatever the case and the moment.
LEMMA InvDue == ASSUME IInv PROVE PlanIsDue
<1> DEFINE plan == Planned(case, now)
<1>1. now \in Nat /\ now >= Day /\ Loaded(case)
  BY MomentsAreNumbers DEF IInv
<1>2. SUFFICES ASSUME plan.strategy \notin {"STOP_RECOVERY", "HONOUR_PROMISE_TO_PAY"}
               PROVE  /\ plan.at >= now /\ plan.at >= Decision(case, now).until
                      /\ InContactWindow(ToLocal(plan.at, case.ahead))
                      /\ /\ Primary(case) \notin Timeouts /\ RetriesWithinWeek
                         /\ Decision(case, plan.at).decision = "WAIT"
                         => /\ ~InContactWindow(plan.at)
                            /\ Decision(case, plan.at).until = NextContactWindow(plan.at)
  BY DEF PlanIsDue
<1>3. /\ plan.at \in Nat /\ plan.at >= now /\ plan.at >= Decision(case, now).until
      /\ InContactWindow(ToLocal(plan.at, case.ahead))
  BY <1>1, <1>2, PlanLies DEF Planned, Decision, Diagnosed
<1>4. ASSUME Primary(case) \notin Timeouts, RetriesWithinWeek,
             Decision(case, plan.at).decision = "WAIT"
      PROVE  /\ ~InContactWindow(plan.at)
             /\ Decision(case, plan.at).until = NextContactWindow(plan.at)
  <2> DEFINE at == plan.at
             d == Diagnosed(case, at)
  <2>1. /\ d.label = Primary(case) /\ Evaluate(case, d, at).decision = "WAIT"
        /\ Decision(case, at) = Evaluate(case, d, at)
    BY <1>4, LabelIs DEF Decision
  <2>2. at \in Nat
    BY <1>3
  <2>3. d.label # "CHARGEBACK_ACTIVE"
    <3> HIDE DEF d, at
    <3> QED BY <1>1, <2>1, <2>2, EvaluateIs
  <2>4. at >= now /\ ~Runs(case, at) /\ at >= GapUntil(case) /\ at >= CapUntil(case, now)
    BY <1>1, <1>2, <2>1, <2>3, PlanOutlastsCooldown
  <2>5. Cardinality(RecentRetries(case, at)) < MaxRetries
    <3> HIDE DEF at
    <3> QED BY <1>1, <1>4, <2>2, <2>4, CapStaysOver DEF RetriesWithinWeek
  <2>6. CapUntil(case, at) = None
    BY <2>5 DEF CapUntil
  <2>7. ~Cooling(case, at)
    <3>1. GapUntil(case) \in Int
      BY <1>1, GapIs DEF None
    <3> HIDE DEF at
    <3> QED BY <2>2, <2>4, <2>6, <3>1 DEF Cooling, None
  <2> HIDE DEF at, d
  <2>8. ~InContactWindow(at) /\ Decision(case, at).until = NextContactWindow(at)
    BY <1>1, <1>4, <2>1, <2>2, <2>4, <2>7, NightAlone
  <2> QED BY <2>8 DEF at
<1> QED BY <1>3, <1>4

\* A plan of any case, decided on at any moment, is one that the orchestrator expects.
LEMMA OffersOf ==
    ASSUME NEW c, Loaded(c), NEW t \in Nat, t >= Day, NEW plan, plan = PlanCase(c, t),
           NEW p, p = Evaluate(c, Diagnose(c, t), t), NEW offer,
           offer.strategy = plan.strategy, offer.slot = plan.at, offer.decision = p.decision,
           offer.cooldown = IF p.until = None THEN Orchestrator!NoCooldown ELSE p.until
    PROVE  Orchestrator!Offered(offer, t)
<1> DEFINE d == Diagnose(c, t)
<1>1. /\ p.decision \in {"STOP", "ESCALATE", "DENY", "WAIT", "ALLOW"}
      /\ p.decision # "WAIT" => p.until = None
  BY EvaluateIs
<1>2. /\ plan.strategy = Strategy(d, p) /\ plan.at \in Nat
      /\ plan.strategy \notin {"STOP_RECOVERY", "HONOUR_PROMISE_TO_PAY"} =>
            plan.at >= t /\ plan.at >= p.until
      /\ plan.strategy = "STOP_RECOVERY" => plan.at = t
      /\ plan.strategy = "HONOUR_PROMISE_TO_PAY" => plan.at >= p.until
      /\ plan.strategy = "RETRY_SILENTLY" => plan.at > t
  BY PlanIs, PlanLies
<1>3. /\ p.decision \in {"STOP", "DENY"} => plan.strategy = "STOP_RECOVERY"
      /\ p.decision = "ESCALATE" => plan.strategy = "ESCALATE_TO_HUMAN"
      /\ p.decision = "WAIT" => plan.strategy \in Postponing
      /\ p.decision = "WAIT" /\ d.label \in Timeouts =>
            plan.strategy \in {"HONOUR_PROMISE_TO_PAY", "RETRY_SILENTLY"}
      /\ p.decision = "ALLOW" => plan.strategy \in Reaching
      /\ plan.strategy = "HONOUR_PROMISE_TO_PAY" =>
            p.decision = "WAIT" /\ ("PROMISE_ACTIVE" \in p.codes \/ p.rule = "promise_to_pay")
  <2> HIDE DEF d
  <2> QED BY <1>1, <1>2, StrategyIs
<1>4. p.decision = "WAIT" =>
         /\ p.until # None => p.until \in Nat /\ p.until > t
         /\ p.until = None => d.label \in Timeouts /\ ~Runs(c, t)
  BY WaitsLieAhead
<1>5. plan.strategy = "HONOUR_PROMISE_TO_PAY" => Runs(c, t)
  BY <1>3, PromiseIsHonoured
<1> HIDE DEF d
<1>6. CASE p.decision \in {"STOP", "DENY", "ESCALATE"}
  <2>1. Orchestrator!BlockOffer(offer, t)
    BY <1>1, <1>2, <1>3, <1>6
       DEF Orchestrator!BlockOffer, Orchestrator!Stops, Orchestrator!Escalates
  <2> QED BY <2>1 DEF Orchestrator!Offered
<1>7. CASE p.decision = "ALLOW"
  <2>1. Orchestrator!AllowOffer(offer, t)
    BY <1>1, <1>2, <1>3, <1>7
       DEF Reaching, Orchestrator!AllowOffer, Orchestrator!Stops, Orchestrator!Escalates,
           Orchestrator!Contacts, Orchestrator!RazorpayStrategies
  <2> QED BY <2>1 DEF Orchestrator!Offered
<1>8. CASE p.decision = "WAIT" /\ p.until # None
  <2>1. p.until \in Nat /\ p.until > t /\ plan.strategy \in Postponing /\ plan.at >= p.until
    BY <1>2, <1>3, <1>4, <1>8 DEF Postponing
  <2>2. Orchestrator!CooldownOffer(offer, t)
    BY <1>8, <2>1 DEF Postponing, Orchestrator!CooldownOffer, Orchestrator!WaitStrategies
  <2> QED BY <2>2 DEF Orchestrator!Offered
<1>9. CASE p.decision = "WAIT" /\ p.until = None
  <2>1. plan.strategy = "RETRY_SILENTLY"
    BY <1>3, <1>4, <1>5, <1>9
  <2>2. Orchestrator!OutageOffer(offer, t)
    BY <1>2, <1>9, <2>1 DEF Orchestrator!OutageOffer
  <2> QED BY <2>2 DEF Orchestrator!Offered
<1> QED BY <1>1, <1>6, <1>7, <1>8, <1>9

\* What the policy and the planner hand over is what the orchestrator expects.
LEMMA InvOffered == ASSUME IInv PROVE PlanIsOffered
<1>1. now \in Nat /\ now >= Day /\ Loaded(case)
  BY MomentsAreNumbers DEF IInv
<1> DEFINE plan == Planned(case, now)
           p == Decision(case, now)
<1>2. plan = PlanCase(case, now) /\ p = Evaluate(case, Diagnose(case, now), now)
  BY DEF Planned, Decision, Diagnosed
<1>3. /\ HandedOver.strategy = plan.strategy /\ HandedOver.slot = plan.at
      /\ HandedOver.decision = p.decision
      /\ HandedOver.cooldown = IF p.until = None THEN Orchestrator!NoCooldown ELSE p.until
  <2> DEFINE strategy == plan.strategy
             at == plan.at
             decision == p.decision
             end == IF p.until = None THEN Orchestrator!NoCooldown ELSE p.until
  <2>1. HandedOver = [strategy |-> strategy, slot |-> at, decision |-> decision, cooldown |-> end]
    BY Zenon DEF HandedOver
  <2> HIDE DEF strategy, at, decision, end
  <2>2. /\ HandedOver.strategy = strategy /\ HandedOver.slot = at
        /\ HandedOver.decision = decision /\ HandedOver.cooldown = end
    BY <2>1
  <2> QED BY <2>2 DEF strategy, at, decision, end
<1> HIDE DEF plan, p
<1>4. Orchestrator!Offered(HandedOver, now)
  BY <1>1, <1>2, <1>3, OffersOf
<1> QED BY <1>4 DEF PlanIsOffered

\* A retry that is planned keeps to the gap and the cap.
LEMMA InvBudget == ASSUME IInv PROVE RetryBudgetKept
<1> DEFINE plan == Planned(case, now)
           at == plan.at
<1>1. now \in Nat /\ now >= Day /\ Loaded(case)
  BY MomentsAreNumbers DEF IInv
<1>2. SUFFICES ASSUME RetriesWithinWeek, plan.strategy \in {"RETRY_SILENTLY", "RETRY_PAYMENT"}
               PROVE  /\ Cardinality({i \in Retries(case) : case.actions[i].at > at - Week}) < MaxRetries
                      /\ \A i \in Retries(case) : at >= case.actions[i].at + Day
  BY DEF RetryBudgetKept
<1>3. Primary(case) # "CHARGEBACK_ACTIVE"
  <2>1. SUFFICES ASSUME Primary(case) = "CHARGEBACK_ACTIVE" PROVE FALSE
    OBVIOUS
  <2> DEFINE d == Diagnose(case, now)
             p == Evaluate(case, d, now)
  <2>2. d.label = "CHARGEBACK_ACTIVE"
    BY <2>1 DEF Diagnose
  <2>3. p.decision \in {"STOP", "ESCALATE", "DENY", "WAIT", "ALLOW"} /\ p.decision # "WAIT"
    BY <1>1, <2>2, EvaluateIs
  <2>4. p.decision # "ALLOW"
    BY <1>1, <2>2, ChargebackIsNotAllowed
  <2>5. Strategy(d, p) \in {"STOP_RECOVERY", "ESCALATE_TO_HUMAN"}
    <3> HIDE DEF p, d
    <3> QED BY <2>3, <2>4, StrategyIs
  <2>6. plan.strategy = Strategy(d, p)
    BY <1>1, PlanIs DEF Planned
  <2> QED BY <1>2, <2>5, <2>6
<1>4. at \in Nat /\ at >= now /\ at >= GapUntil(case) /\ at >= CapUntil(case, now)
  BY <1>1, <1>2, <1>3, PlanOutlastsCooldown
<1> HIDE DEF at
<1>5. Cardinality(RecentRetries(case, at)) < MaxRetries
  BY <1>1, <1>2, <1>4, CapStaysOver DEF RetriesWithinWeek
<1>6. \A i \in Retries(case) : at >= case.actions[i].at + Day
  <2>1. TAKE i \in Retries(case)
  <2>2. GapUntil(case) >= case.actions[i].at + Day /\ case.actions[i].at \in Nat
        /\ GapUntil(case) \in Int
    BY <1>1, GapIs, RetriesAre DEF None
  <2> QED BY <1>4, <2>2 DEF Day
<1> QED BY <1>5, <1>6 DEF RecentRetries

\* A payday's retry is for a payday.
LEMMA InvPayday == ASSUME IInv PROVE PaydayIsPayday
<1>1. now \in Nat /\ now >= Day /\ Loaded(case)
  BY MomentsAreNumbers DEF IInv
<1> QED BY <1>1, PlanLies DEF PaydayIsPayday, Planned

\* A day after the end no explanation is from before it.
LEMMA InvStale == ASSUME IInv PROVE StaleAtMostADay
<1>1. SUFFICES ASSUME finalSince # None, now >= finalSince + CacheTtl, NEW kind \in Kinds
               PROVE  Served(kind).strategy = "STOP_RECOVERY" /\ Served(kind).asks = 0
  BY DEF StaleAtMostADay
<1>2. now \in Nat /\ finalSince \in Nat
  BY <1>1, MomentsAreNumbers DEF IInv, EndIsKnown
<1>3. /\ Served(kind) \in Explanation /\ now < Served(kind).made + CacheTtl
      /\ finalSince # None /\ Served(kind).made > finalSince =>
            Served(kind).strategy = "STOP_RECOVERY" /\ Served(kind).asks = 0
  BY ServedIs
<1>4. Served(kind).made \in Nat
  BY <1>3 DEF Explanation
<1>5. Served(kind).made > finalSince
  BY <1>1, <1>2, <1>3, <1>4 DEF CacheTtl, Day
<1> QED BY <1>1, <1>3, <1>5

-----------------------------------------------------------------------------
(* The drift of a diagnosis                                                *)

\* the labels that are found, and where they are in the order
Found(c) == {hit.label : hit \in Fired(c)} \cup {"UNKNOWN"}
Places(c) == {i \in DOMAIN Precedence : Precedence[i] \in Found(c)}

\* The label is the first one found.
LEMMA PrimaryIs ==
    ASSUME NEW c
    PROVE  /\ Primary(c) = Precedence[Min(Places(c))]
           /\ Min(Places(c)) \in Places(c) /\ \A i \in Places(c) : Min(Places(c)) <= i
           /\ Places(c) \subseteq Nat
<1>1. Primary(c) = Precedence[Min(Places(c))]
  BY DEF Primary, Places, Found
<1>2. DOMAIN Precedence = 1 .. 11 /\ Precedence[11] = "UNKNOWN" /\ 11 \in 1 .. 11
  BY DEF Precedence
<1>3. Places(c) \subseteq Nat
  BY <1>2 DEF Places
<1>4. 11 \in Places(c)
  BY <1>2 DEF Places, Found
<1>5. Places(c) # {}
  BY <1>4
<1> QED BY <1>1, <1>3, <1>5, MinOfNats

\* What rows can add to the rules that fire.
LEMMA FiredGrows ==
    ASSUME NEW c, Loaded(c), NEW e, Loaded(e), Grows(c, e)
    PROVE  \/ Fired(e) = Fired(c)
           \/ /\ UpiMethod(c.failure.method)
              /\ Fired(e) = Fired(c) \cup {Hit("AUTHENTICATION_FAILED", 6200)}
<1>1. /\ e.failure = c.failure /\ e.payments = c.payments /\ e.outages = c.outages
      /\ Len(e.actions) >= Len(c.actions)
  BY DEF Grows
<1>2. RetryCount(c) \in Nat /\ RetryCount(e) \in Nat /\ RetryCount(e) >= RetryCount(c)
  BY <1>1, RetryCountIs DEF Loaded
<1>3. /\ AlreadyPaid(e) <=> AlreadyPaid(c)
      /\ DuplicateCaptured(e) <=> DuplicateCaptured(c)
      /\ Cancelled(e) <=> Cancelled(c)
      /\ Revoked(e) <=> Revoked(c)
      /\ Expired(e) <=> Expired(c)
      /\ OutageRail(e) = OutageRail(c)
  BY <1>1 DEF AlreadyPaid, SameSubscription, DuplicateCaptured, Cancelled, Revoked, Expired, OutageRail
<1>4. BankTimeoutHit(e) = BankTimeoutHit(c) /\ UpiTimeoutHit(e) = UpiTimeoutHit(c)
      /\ FundsHit(e) = FundsHit(c)
  <2>1. BankTimeoutHit(e) = BankTimeoutHit(c)
    BY <1>1, <1>3 DEF BankTimeoutHit
  <2>2. UpiTimeoutHit(e) = UpiTimeoutHit(c)
    BY <1>1, <1>3 DEF UpiTimeoutHit
  <2>3. FundsHit(e) = FundsHit(c)
    BY <1>1 DEF FundsHit, SalarySqueeze, Salaried
  <2> QED BY <2>1, <2>2, <2>3
<1>5. /\ Authentication(c) => Authentication(e)
      /\ Authentication(e) /\ ~Authentication(c) => UpiMethod(c.failure.method)
  BY <1>1, <1>2, <1>3 DEF Authentication
<1> DEFINE Paid(x) == When(AlreadyPaid(x), "ALREADY_PAID", 9000)
           Twice(x) == When(DuplicateCaptured(x), "DUPLICATE_PAYMENT", 8500)
           Dispute(x) == When(x.failure.reason = "DISPUTE", "CHARGEBACK_ACTIVE", 8800)
           Left(x) == When(Cancelled(x) \/ x.failure.reason = "CUSTOMER_CANCELLED",
                           "CUSTOMER_CANCELLED", 8600)
           Mandate(x) == When(\/ Revoked(x) \/ x.failure.reason = "MANDATE_REVOKED"
                              \/ Expired(x) /\ ~CardMethod(x.failure.method), "MANDATE_REVOKED", 8700)
           Card(x) == When(\/ x.failure.reason = "CARD_EXPIRED"
                           \/ Expired(x) /\ CardMethod(x.failure.method), "CARD_EXPIRED", 8400)
           Rest(x) == {Paid(x), Twice(x), Dispute(x), Left(x), Mandate(x), Card(x),
                       BankTimeoutHit(x), UpiTimeoutHit(x), FundsHit(x)}
           Auth(x) == When(Authentication(x), "AUTHENTICATION_FAILED", 6200)
<1>6. Paid(e) = Paid(c) /\ Twice(e) = Twice(c) /\ Dispute(e) = Dispute(c) /\ Left(e) = Left(c)
      /\ Mandate(e) = Mandate(c) /\ Card(e) = Card(c)
  <2>1. Paid(e) = Paid(c) /\ Twice(e) = Twice(c)
    BY <1>3 DEF When
  <2>2. Dispute(e) = Dispute(c) /\ Left(e) = Left(c)
    BY <1>1, <1>3 DEF When
  <2>3. Mandate(e) = Mandate(c) /\ Card(e) = Card(c)
    BY <1>1, <1>3 DEF When
  <2> HIDE DEF Paid, Twice, Dispute, Left, Mandate, Card
  <2> QED BY <2>1, <2>2, <2>3
<1>7. Fired(e) = (UNION Rest(e)) \cup Auth(e) /\ Fired(c) = (UNION Rest(c)) \cup Auth(c)
      /\ Rest(e) = Rest(c)
  <2>1. \A x : Fired(x) = UNION {Paid(x), Twice(x), Dispute(x), Left(x), Mandate(x), Card(x),
                                 BankTimeoutHit(x), UpiTimeoutHit(x), Auth(x), FundsHit(x)}
    BY DEF Fired
  <2> HIDE DEF Paid, Twice, Dispute, Left, Mandate, Card, Auth
  <2>2. Rest(e) = Rest(c)
    BY <1>4, <1>6
  <2>3. \A x : Fired(x) = (UNION Rest(x)) \cup Auth(x)
    BY <2>1
  <2> QED BY <2>2, <2>3
<1>8. Fired(e) = (UNION Rest(c)) \cup Auth(e) /\ Fired(c) = (UNION Rest(c)) \cup Auth(c)
  <2> HIDE DEF Rest, Auth
  <2> QED BY <1>7
<1>9. /\ Authentication(e) => Auth(e) = {Hit("AUTHENTICATION_FAILED", 6200)}
      /\ ~Authentication(e) => Auth(e) = {}
      /\ Authentication(c) => Auth(c) = {Hit("AUTHENTICATION_FAILED", 6200)}
      /\ ~Authentication(c) => Auth(c) = {}
  BY DEF When
<1> HIDE DEF Rest, Auth
<1>10. CASE Authentication(e) <=> Authentication(c)
  <2>1. Auth(e) = Auth(c)
    BY <1>9, <1>10
  <2> QED BY <1>8, <2>1
<1>11. CASE ~(Authentication(e) <=> Authentication(c))
  <2>1. Authentication(e) /\ ~Authentication(c)
    BY <1>5, <1>11
  <2>2. Fired(e) = (UNION Rest(c)) \cup {Hit("AUTHENTICATION_FAILED", 6200)} /\ Fired(c) = UNION Rest(c)
    BY <1>8, <1>9, <2>1
  <2> QED BY <1>5, <2>1, <2>2
<1> QED BY <1>10, <1>11

\* More rows make a failure an authentication failure, or leave it what it was.
LEMMA LabelDrift ==
    ASSUME NEW c, Loaded(c), NEW e, Loaded(e), Grows(c, e)
    PROVE  \/ Primary(e) = Primary(c)
           \/ Primary(e) = "AUTHENTICATION_FAILED" /\ UpiMethod(c.failure.method)
<1>1. CASE Fired(e) = Fired(c)
  BY <1>1 DEF Primary
<1>2. CASE /\ UpiMethod(c.failure.method)
           /\ Fired(e) = Fired(c) \cup {Hit("AUTHENTICATION_FAILED", 6200)}
  <2>1. Hit("AUTHENTICATION_FAILED", 6200).label = "AUTHENTICATION_FAILED"
    BY DEF Hit
  <2>2. Found(e) = Found(c) \cup {"AUTHENTICATION_FAILED"}
    <3> DEFINE hit == Hit("AUTHENTICATION_FAILED", 6200)
    <3>1. hit.label = "AUTHENTICATION_FAILED" /\ Fired(e) = Fired(c) \cup {hit}
      BY <1>2, <2>1
    <3> HIDE DEF hit
    <3> QED BY <3>1 DEF Found
  <2>3. Places(c) \subseteq Places(e)
    BY <2>2 DEF Places
  <2>4. \A i \in Places(e) : i \in Places(c) \/ Precedence[i] = "AUTHENTICATION_FAILED"
    BY <2>2 DEF Places
  <2> DEFINE m == Min(Places(e))
  <2>5. /\ m \in Places(e) /\ Primary(e) = Precedence[m] /\ m \in Nat
        /\ \A i \in Places(e) : m <= i
    BY PrimaryIs
  <2>6. CASE m \in Places(c)
    <3>1. /\ Min(Places(c)) \in Places(c) /\ Min(Places(c)) \in Nat /\ Min(Places(c)) <= m
          /\ Primary(c) = Precedence[Min(Places(c))]
      BY <2>6, PrimaryIs
    <3>2. m <= Min(Places(c))
      BY <2>3, <2>5, <3>1
    <3>3. m = Min(Places(c))
      BY <2>5, <3>1, <3>2
    <3> QED BY <2>5, <3>1, <3>3
  <2>7. CASE m \notin Places(c)
    BY <1>2, <2>4, <2>5, <2>7
  <2> QED BY <2>6, <2>7
<1> QED BY <1>1, <1>2, FiredGrows

-----------------------------------------------------------------------------
(* The theorems                                                            *)

\* The inductive invariant: the rows are rows, the end is known as soon as it comes and
\* for good, and what has been explained since says so.
THEOREM DecisionInvariance == Spec => []IInv
<1>1. IInv /\ [Next]_vars => IInv'
  BY NextStep
<1> QED BY InitIInv, <1>1, PTL DEF Spec

\* Case, cache and history keep their types, whatever facts, rows and plans there are.
THEOREM DecisionTypes == Spec => []TypeOK
<1>1. IInv => TypeOK
  BY DEF IInv
<1> QED BY DecisionInvariance, <1>1, PTL

\* Plans are due when the policy no longer waits (timing.py, scheduler.py, cooldown.py).
THEOREM PlansAreDue == Spec => []PlanIsDue
BY DecisionInvariance, InvDue, PTL

\* Policy and planner hand over what the orchestrator expects (strategies.py, scheduler.py,
\* evaluator.py), for every case, every calendar and every moment.
THEOREM PlansAreOffered == Spec => []PlanIsOffered
BY DecisionInvariance, InvOffered, PTL

\* A planned retry keeps to three a week and one a day (cooldown.py).
THEOREM RetriesAreRationed == Spec => []RetryBudgetKept
BY DecisionInvariance, InvBudget, PTL

\* A wait for payday ends on a payday (timing.py), for every calendar.
THEOREM PaydaysAreFound == Spec => []PaydayIsPayday
BY DecisionInvariance, InvPayday, PTL

\* A customer who is to be left quiet gets no message and no link, free of charge
\* (rules.py, evaluator.py _merge_channels, channels.py).
THEOREM QuietStaysQuiet == Spec => []QuietCustomer
<1>1. IInv => QuietCustomer
  <2> SUFFICES ASSUME IInv, Quiet
               PROVE  Planned(case, now).channels = <<Dashboard>> /\ Planned(case, now).cost = 0
    BY DEF QuietCustomer
  <2>1. now \in Nat /\ now >= Day /\ Loaded(case)
    BY MomentsAreNumbers DEF IInv
  <2>2. (\E p \in OpenPromises(case) : DayOf(now) <= p.day) => Runs(case, now)
    <3>1. SUFFICES ASSUME NEW p \in OpenPromises(case), DayOf(now) <= p.day PROVE Runs(case, now)
      OBVIOUS
    <3>2. p.day \in Nat /\ PromisedDay(case) \in Nat /\ p.day <= PromisedDay(case)
      BY <2>1, <3>1, PromisedDayIs, PartsOfCase DEF OpenPromises, Loaded, Promise
    <3>3. DayOf(now) \in Nat
      BY <2>1, Moments
    <3> QED BY <3>1, <3>2, <3>3 DEF Runs
  <2>3. Timeout(case) => Diagnosed(case, now).label \in Timeouts
    BY LabelIs DEF Timeout
  <2>4. Granted(Evaluate(case, Diagnose(case, now), now)) = {Dashboard}
    BY <2>1, <2>2, <2>3, QuietGrants DEF Diagnosed, Quiet
  <2> QED BY <2>1, <2>4, QuietPlan DEF Planned
<1> QED BY DecisionInvariance, <1>1, PTL

\* The cache is behind the end of recovery for less than a day (explanation_service.py).
THEOREM ExplanationsCatchUp == Spec => []StaleAtMostADay
BY DecisionInvariance, InvStale, PTL

\* After the end nothing but a wait's end is run (evaluator.py, run_due).
THEOREM FinalStaysAlone == Spec => FinalIsLeftAlone
<1> DEFINE Alone == Final(case) => \A i \in DOMAIN case'.actions :
                        case'.actions[i].status = "RAN" /\ ~Ran(i)
                            => i \in DOMAIN case.actions /\ case.actions[i].strategy \in WaitStrategies
<1>1. IInv /\ [Next]_vars => [Alone]_vars
  <2> SUFFICES ASSUME IInv, Next PROVE Alone
    OBVIOUS
  <2>1. CASE Execute \/ Tick
    BY <2>1, RowSteps DEF Ran
  <2>2. CASE case'.actions = case.actions
    BY <2>2 DEF Ran
  <2>3. Execute \/ Tick \/ case'.actions = case.actions
    <3>1. CASE Fact
      BY <3>1, FactSteps DEF FactOn
    <3>2. CASE Advance \/ \E kind \in Kinds : Explain(kind)
      BY <3>2 DEF Advance, Explain
    <3> QED BY <3>1, <3>2 DEF Next
  <2> QED BY <2>1, <2>2, <2>3
<1>2. Spec => [][Alone]_vars
  BY DecisionInvariance, <1>1, PTL DEF Spec
<1> QED BY <1>2 DEF FinalIsLeftAlone

\* The system's own rows do not change what went wrong, but for UPI (features.py).
THEOREM OwnActionsStay == Spec => OwnActionsDrift
<1> DEFINE Drift == case'.actions # case.actions =>
                        \/ Primary(case') = Primary(case)
                        \/ Primary(case') = "AUTHENTICATION_FAILED" /\ UpiMethod(case.failure.method)
<1>1. IInv /\ [Next]_vars => [Drift]_vars
  <2> SUFFICES ASSUME IInv, Next, case'.actions # case.actions
               PROVE  \/ Primary(case') = Primary(case)
                      \/ Primary(case') = "AUTHENTICATION_FAILED" /\ UpiMethod(case.failure.method)
    OBVIOUS
  <2>1. Execute \/ Tick
    <3>1. CASE Fact
      BY <3>1, FactSteps DEF FactOn
    <3>2. CASE Advance \/ \E kind \in Kinds : Explain(kind)
      BY <3>2 DEF Advance, Explain
    <3> QED BY <3>1, <3>2 DEF Next
  <2>2. Loaded(case) /\ Loaded(case') /\ Grows(case, case')
    BY <2>1, RowSteps DEF IInv
  <2> QED BY <2>2, LabelDrift
<1>2. Spec => [][Drift]_vars
  BY DecisionInvariance, <1>1, PTL DEF Spec
<1> QED BY <1>2 DEF OwnActionsDrift
=============================================================================
