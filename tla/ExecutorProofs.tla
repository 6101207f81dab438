---------------------------- MODULE ExecutorProofs ----------------------------
(***************************************************************************)
(* Theorems about the simulated executor, for any set of plans and any     *)
(* number of runs and batches: what is reported as recovered is what the   *)
(* ledger has recovered, once per event, and the ledger is final.          *)
(***************************************************************************)
EXTENDS Executor, FiniteSetTheorems, TLAPS

LinkTypes == {"GENERATE_PAYMENT_LINK", "SWITCH_TO_UPI"}

Types == {"EXECUTE_RETRY", "REQUEST_CARD_UPDATE", "WAIT_UNTIL_TIME", "ESCALATE_CASE",
          "STOP_EXECUTION"} \cup LinkTypes

Summary == [executed : Nat, successes : Nat, failures : Nat, duplicates : Nat, links : Nat,
            retries : Nat, value : Nat]

\* the events without which a result of the type recovers nothing
EventsOf(type) ==
    IF type = "EXECUTE_RETRY" THEN RetryWebhook["SUCCESS"] ELSE {"payment_link.paid"}

\* a result of a simulation: no duplicate, not both a success and a failure, and
\* recovered by a charge or by a link only
Genuine(r) ==
    /\ r \in ExecutionResult /\ r.status # "DUPLICATE_SKIPPED"
    /\ ~(r.success /\ r.status \in Failures)
    /\ r.recovered => r.type \in {"EXECUTE_RETRY"} \cup LinkTypes

\* the ids of the events by which a key has recovered
Traces(k, type) == {<<k[1], k[3], e>> : e \in EventsOf(type)}

\* two keys of one case and slot have not recovered by the same means
OneRecovers ==
    \A types \in {{"EXECUTE_RETRY"}, LinkTypes} :
        \A j, k \in Recovered(types) : j[1] = k[1] /\ j[3] = k[3] => j = k

Ledger ==
    /\ DOMAIN ledger \subseteq Keys /\ IsFiniteSet(DOMAIN ledger)
    /\ \A k \in DOMAIN ledger : Genuine(ledger[k])
    /\ \A k \in DOMAIN ledger :
          ledger[k].recovered => Traces(k, ledger[k].type) \subseteq hooks
    /\ OneRecovers

Clocks == now \in 0 .. MaxTime /\ ran \in 0 .. MaxPlans /\ audits \in 0 .. ran /\ earned \in Nat

\* each plan that has run adds one to each count at most
Counts ==
    LET s == batch.summary
    IN  /\ batch = [phase |-> batch.phase, summary |-> s] /\ s \in Summary
        /\ s.executed <= ran /\ s.duplicates <= ran /\ s.links <= ran /\ s.retries <= ran
        /\ earned + s.value <= ran
        /\ s.successes + s.failures <= s.executed

Reported == earned + batch.summary.value = Cardinality(Recovered(ExecutionType))

IInv == Clocks /\ Ledger /\ Counts /\ Reported

-----------------------------------------------------------------------------
(* What a simulation comes to                                              *)

\* the types of execution, one by one
LEMMA TypesAre == ExecutionType = Types /\ \A s \in DOMAIN ExecutionOf : ExecutionOf[s] \in Types
BY DEF ExecutionType, ExecutionOf, Types, LinkTypes

\* a result without an amount and without a link
LEMMA OutcomeFields ==
    ASSUME NEW type \in ExecutionType, NEW status \in ExecutionStatus, NEW success \in BOOLEAN
    PROVE  /\ Outcome(type, status, success) \in ExecutionResult
           /\ Outcome(type, status, success).status = status
           /\ Outcome(type, status, success).success = success
           /\ Outcome(type, status, success).type = type
           /\ ~Outcome(type, status, success).recovered
BY DEF Outcome, ExecutionResult

\* a result that is no success, or no failure, and recovers nothing is genuine
LEMMA OutcomeGenuine ==
    ASSUME NEW type \in ExecutionType, NEW status \in ExecutionStatus \ {"DUPLICATE_SKIPPED"},
           NEW success \in BOOLEAN, success => status \notin Failures
    PROVE  /\ Genuine(Outcome(type, status, success))
           /\ ~Outcome(type, status, success).recovered
BY OutcomeFields, Zenon DEF Genuine

\* the simulated result is genuine; if it recovers, its events are new and they
\* are the events of its type
Sound(plan, out) ==
    /\ Genuine(out[1])
    /\ out[1].recovered =>
          /\ out[2] = Hooks(plan, EventsOf(out[1].type))
          /\ ~(out[2] \subseteq hooks)

\* a charge
LEMMA RetrySound ==
    ASSUME NEW plan \in Plans, NEW out \in RunRetry(plan) PROVE Sound(plan, out)
<1>1. PICK hashed \in RetryOutcome :
         out = LET outcome == SimulateRetry(plan, hashed)
                   ids == Hooks(plan, RetryWebhook[outcome])
                   result == IF Replay(ids) THEN Outcome("EXECUTE_RETRY", "WEBHOOK_REPLAY", FALSE)
                             ELSE IF outcome = "SUCCESS"
                             THEN [Outcome("EXECUTE_RETRY", "SUCCEEDED", TRUE) EXCEPT !.recovered = TRUE]
                             ELSE Outcome("EXECUTE_RETRY",
                                      IF outcome = "BANK_TIMEOUT" THEN "TIMEOUT" ELSE "FAILED", FALSE)
               IN  <<result, ids>>
  BY Zenon DEF RunRetry
<1> DEFINE outcome == SimulateRetry(plan, hashed)
<1> DEFINE ids == Hooks(plan, RetryWebhook[outcome])
<1>0. "EXECUTE_RETRY" \in ExecutionType
  BY TypesAre DEF Types
<1>2. CASE Replay(ids)
  <2>1. out[1] = Outcome("EXECUTE_RETRY", "WEBHOOK_REPLAY", FALSE)
    BY <1>1, <1>2
  <2>2. "WEBHOOK_REPLAY" \in ExecutionStatus \ {"DUPLICATE_SKIPPED"}
    BY DEF ExecutionStatus
  <2> QED BY <1>0, <2>1, <2>2, OutcomeGenuine DEF Sound
<1>3. CASE ~Replay(ids) /\ outcome = "SUCCESS"
  <2> DEFINE r == [Outcome("EXECUTE_RETRY", "SUCCEEDED", TRUE) EXCEPT !.recovered = TRUE]
  <2>1. out[1] = r /\ out[2] = ids
    BY <1>1, <1>3
  <2>2. r \in ExecutionResult /\ r.status = "SUCCEEDED" /\ r.type = "EXECUTE_RETRY"
    BY <1>0 DEF Outcome, ExecutionResult, ExecutionStatus
  <2>3. Genuine(r)
    BY <2>2 DEF Genuine, Failures
  <2>4. ids # {}
    BY <1>3 DEF Hooks, RetryWebhook, RetryOutcome
  <2>5. ids = Hooks(plan, EventsOf(r.type)) /\ ~(ids \subseteq hooks)
    BY <1>3, <2>2, <2>4 DEF EventsOf, Replay
  <2> HIDE DEF r, ids
  <2> QED BY <2>1, <2>3, <2>5 DEF Sound
<1>4. CASE ~Replay(ids) /\ outcome # "SUCCESS"
  <2>1. PICK status \in {"TIMEOUT", "FAILED"} : out[1] = Outcome("EXECUTE_RETRY", status, FALSE)
    BY <1>1, <1>4
  <2>2. status \in ExecutionStatus \ {"DUPLICATE_SKIPPED"}
    BY DEF ExecutionStatus
  <2> QED BY <1>0, <2>1, <2>2, OutcomeGenuine DEF Sound
<1> QED BY <1>2, <1>3, <1>4

\* a link
LEMMA LinkSound ==
    ASSUME NEW plan \in Plans, NEW type \in LinkTypes, NEW out \in RunPaymentLink(plan, type)
    PROVE  Sound(plan, out)
<1> DEFINE ids == IF plan.probability >= 85 THEN Hooks(plan, {"payment_link.paid"}) ELSE {}
<1>0. type \in ExecutionType /\ type # "EXECUTE_RETRY"
  BY TypesAre DEF Types, LinkTypes
<1>1. ASSUME NEW status \in {"EXPIRED", "WEBHOOK_REPLAY"},
             out[1] = [Outcome(type, status, FALSE) EXCEPT !.link = TRUE]
      PROVE  Sound(plan, out)
  <2> DEFINE r == [Outcome(type, status, FALSE) EXCEPT !.link = TRUE]
  <2>1. r \in ExecutionResult /\ r.status = status
    BY <1>0 DEF Outcome, ExecutionResult, ExecutionStatus
  <2>2. ~r.success /\ ~r.recovered
    BY DEF Outcome
  <2> HIDE DEF r
  <2>3. Genuine(r)
    BY <2>1, <2>2 DEF Genuine
  <2> QED BY <1>1, <2>2, <2>3 DEF Sound, r
<1>2. ASSUME out = <<[Outcome(type, "GENERATED", TRUE) EXCEPT !.link = TRUE, !.recovered = ids # {}], ids>>,
             ~Replay(ids)
      PROVE  Sound(plan, out)
  <2> DEFINE r == [Outcome(type, "GENERATED", TRUE) EXCEPT !.link = TRUE, !.recovered = ids # {}]
  <2>1. r \in ExecutionResult
    <3>1. (ids # {}) \in BOOLEAN
      OBVIOUS
    <3> HIDE DEF ids
    <3> QED BY <1>0, <3>1 DEF Outcome, ExecutionResult, ExecutionStatus
  <2>2. r.status = "GENERATED" /\ r.type = type
    BY DEF Outcome
  <2>3. r.recovered => ids # {}
    <3> HIDE DEF ids
    <3> QED BY Zenon DEF Outcome
  <2>4. Genuine(r)
    BY <1>0, <2>1, <2>2 DEF Genuine, Failures
  <2>5. out[1] = r /\ out[2] = ids
    BY <1>2
  <2>6. ids # {} => ids = Hooks(plan, EventsOf(type)) /\ ~(ids \subseteq hooks)
    BY <1>0, <1>2 DEF EventsOf, Replay
  <2> HIDE DEF r, ids
  <2> QED BY <2>2, <2>3, <2>4, <2>5, <2>6 DEF Sound
<1>3. CASE Expired(plan, LinkTtl)
  <2>1. out = <<[Outcome(type, "EXPIRED", FALSE) EXCEPT !.link = TRUE], {}>>
    BY <1>3, Zenon DEF RunPaymentLink
  <2>2. out[1] = [Outcome(type, "EXPIRED", FALSE) EXCEPT !.link = TRUE]
    BY <2>1
  <2> QED BY <2>2, <1>1
<1>4. CASE ~Expired(plan, LinkTtl) /\ Replay(ids)
  <2>1. out = <<[Outcome(type, "WEBHOOK_REPLAY", FALSE) EXCEPT !.link = TRUE], ids>>
    BY <1>4, Zenon DEF RunPaymentLink
  <2>2. out[1] = [Outcome(type, "WEBHOOK_REPLAY", FALSE) EXCEPT !.link = TRUE]
    BY <2>1
  <2> QED BY <2>2, <1>1
<1>5. CASE ~Expired(plan, LinkTtl) /\ ~Replay(ids)
  BY <1>2, <1>5 DEF RunPaymentLink
<1> QED BY <1>3, <1>4, <1>5

\* whatever the strategy is
LEMMA SimulatedSound ==
    ASSUME NEW plan \in Plans, NEW out \in Simulated(plan) PROVE Sound(plan, out)
<1>1. ASSUME NEW type \in ExecutionType, NEW status \in ExecutionStatus \ {"DUPLICATE_SKIPPED"},
             NEW success \in BOOLEAN, success => status \notin Failures,
             out[1] = Outcome(type, status, success)
      PROVE  Sound(plan, out)
  BY <1>1, OutcomeGenuine DEF Sound
<1>2. /\ {"SCHEDULED", "GENERATED", "SUCCEEDED", "FAILED", "EXPIRED", "UNKNOWN_STRATEGY"}
             \subseteq ExecutionStatus \ {"DUPLICATE_SKIPPED"}
      /\ {"SUCCEEDED", "GENERATED"} \cap Failures = {}
  BY DEF ExecutionStatus, Failures
<1>3. ASSUME out \in Caught \cup Unknown PROVE Sound(plan, out)
  <2>1. \/ out = <<Outcome("STOP_EXECUTION", "FAILED", FALSE), {}>>
        \/ out = <<Outcome("STOP_EXECUTION", "UNKNOWN_STRATEGY", FALSE), {}>>
    BY <1>3, Zenon DEF Caught, Unknown
  <2>2. ASSUME NEW status \in {"FAILED", "UNKNOWN_STRATEGY"},
               out = <<Outcome("STOP_EXECUTION", status, FALSE), {}>>
        PROVE  Sound(plan, out)
    <3>1. out[1] = Outcome("STOP_EXECUTION", status, FALSE)
      BY <2>2
    <3> QED BY <3>1, <1>1, <1>2, TypesAre DEF Types
  <2> QED BY <2>1, <2>2
<1>4. CASE plan.strategy \notin DOMAIN ExecutionOf
  BY <1>3, <1>4 DEF Simulated
<1>5. CASE plan.strategy \in DOMAIN ExecutionOf
  <2> DEFINE type == ExecutionOf[plan.strategy]
  <2>1. type \in Types /\ type \in ExecutionType
    BY <1>5, TypesAre
  <2>2. CASE type = "EXECUTE_RETRY"
    <3>1. Simulated(plan) = RunRetry(plan)
      BY <1>5, <2>2 DEF Simulated
    <3> QED BY <3>1, RetrySound
  <2>3. CASE type \in {"ESCALATE_CASE", "STOP_EXECUTION"}
    <3>1. Simulated(plan) = RunTerminal(plan, type)
      BY <1>5, <2>3 DEF Simulated
    <3>2. PICK ids : out = <<Outcome(type, "SUCCEEDED", TRUE), ids>>
      BY <3>1, Zenon DEF RunTerminal
    <3>3. out[1] = Outcome(type, "SUCCEEDED", TRUE)
      BY <3>2
    <3> QED BY <3>3, <2>1, <1>1, <1>2
  <2>4. CASE type \notin {"EXECUTE_RETRY", "ESCALATE_CASE", "STOP_EXECUTION"} /\ plan.slot = Naive
    <3>1. Simulated(plan) = Caught
      BY <1>5, <2>4 DEF Simulated
    <3> QED BY <3>1, <1>3
  <2>5. CASE type \in LinkTypes /\ plan.slot # Naive
    <3>1. Simulated(plan) = RunPaymentLink(plan, type)
      BY <1>5, <2>5 DEF Simulated, LinkTypes
    <3> QED BY <3>1, <2>5, LinkSound
  <2>6. CASE type = "REQUEST_CARD_UPDATE" /\ plan.slot # Naive
    <3>1. Simulated(plan) = RunCardUpdate(plan)
      BY <1>5, <2>6 DEF Simulated
    <3>2. ASSUME NEW ids, NEW status \in {"EXPIRED", "GENERATED"}, NEW success \in BOOLEAN,
                 success = (status = "GENERATED"),
                 out = <<Outcome("REQUEST_CARD_UPDATE", status, success), ids>>
          PROVE  Sound(plan, out)
      <4>1. out[1] = Outcome("REQUEST_CARD_UPDATE", status, success)
        BY <3>2
      <4> QED BY <4>1, <3>2, <2>1, <2>6, <1>1, <1>2
    <3>3. CASE Expired(plan, CardTtl)
      <4>1. out = <<Outcome("REQUEST_CARD_UPDATE", "EXPIRED", FALSE), {}>>
        BY <3>1, <3>3, Zenon DEF RunCardUpdate
      <4> QED BY <4>1, <3>2
    <3>4. CASE ~Expired(plan, CardTtl)
      <4>1. out = <<Outcome("REQUEST_CARD_UPDATE", "GENERATED", TRUE),
                    Hooks(plan, {"subscription.pending"})>>
        BY <3>1, <3>4, Zenon DEF RunCardUpdate
      <4> QED BY <4>1, <3>2
    <3> QED BY <3>3, <3>4
  <2>7. CASE type = "WAIT_UNTIL_TIME" /\ plan.slot # Naive
    <3>1. Simulated(plan) = RunWait(plan)
      BY <1>5, <2>7 DEF Simulated
    <3>4. CASE now >= plan.slot
      <4>1. out = <<Outcome("WAIT_UNTIL_TIME", "SUCCEEDED", TRUE), {}>>
        BY <3>1, <3>4, Zenon DEF RunWait
      <4>2. out[1] = Outcome("WAIT_UNTIL_TIME", "SUCCEEDED", TRUE)
        BY <4>1
      <4> QED BY <4>2, <2>1, <2>7, <1>1, <1>2
    <3>5. CASE ~(now >= plan.slot)
      <4>1. out = <<Outcome("WAIT_UNTIL_TIME", "SCHEDULED", FALSE), {}>>
        BY <3>1, <3>5, Zenon DEF RunWait
      <4>2. out[1] = Outcome("WAIT_UNTIL_TIME", "SCHEDULED", FALSE)
        BY <4>1
      <4> QED BY <4>2, <2>1, <2>7, <1>1, <1>2
    <3> QED BY <3>4, <3>5
  <2> QED BY <2>1, <2>2, <2>3, <2>4, <2>5, <2>6, <2>7 DEF Types, LinkTypes
<1> QED BY <1>4, <1>5

-----------------------------------------------------------------------------
(* The ledger                                                              *)

\* nothing is in the ledger at first
LEMMA InitIInv == Init => IInv
<1> SUFFICES ASSUME Init PROVE IInv
  OBVIOUS
<1>1. DOMAIN ledger = {} /\ IsFiniteSet({})
  BY FS_EmptySet DEF Init
<1>2. \A types : Recovered(types) = {}
  BY <1>1 DEF Recovered
<1>3. Clocks
  BY ExecutorBounds DEF Init, Clocks
<1>4. Ledger
  BY <1>1, <1>2 DEF Ledger, OneRecovers
<1>5. Counts
  BY <1>3 DEF Init, Counts, Closed, NoSummary, Summary, Clocks
<1>6. Reported
  <2>1. batch.summary.value = 0 /\ earned = 0
    BY DEF Init, Closed, NoSummary
  <2>2. Cardinality(Recovered(ExecutionType)) = 0
    BY <1>2, FS_EmptySet
  <2> QED BY <2>1, <2>2 DEF Reported
<1> QED BY <1>3, <1>4, <1>5, <1>6 DEF IInv

\* a result of a new key: its events are new, so nothing of the case and the slot
\* has recovered by them
LEMMA NewResult ==
    ASSUME Ledger, NEW plan \in Plans, NEW r, Genuine(r), Key(plan) \notin DOMAIN ledger,
           Put(Key(plan), r), hooks \subseteq hooks',
           r.recovered => /\ Traces(Key(plan), r.type) \subseteq hooks'
                          /\ ~(Traces(Key(plan), r.type) \subseteq hooks)
    PROVE  /\ Ledger' /\ audits' = audits + 1
           /\ \A k \in DOMAIN ledger : k \in DOMAIN ledger' /\ ledger'[k] = ledger[k]
           /\ Recovered(ExecutionType)' =
                 IF r.recovered THEN Recovered(ExecutionType) \cup {Key(plan)}
                 ELSE Recovered(ExecutionType)
<1> DEFINE key == Key(plan)
<1>1. /\ audits' = audits + 1 /\ DOMAIN ledger' = DOMAIN ledger \cup {key} /\ ledger'[key] = r
      /\ \A k \in DOMAIN ledger : ledger'[k] = ledger[k]
  BY DEF Put
<1>2. key \in Keys
  BY DEF Keys
<1>3. IsFiniteSet(DOMAIN ledger')
  BY <1>1, FS_AddElement DEF Ledger
<1>4. \A k \in DOMAIN ledger' : Genuine(ledger'[k])
  BY <1>1 DEF Ledger
<1>5. ASSUME NEW k \in DOMAIN ledger', ledger'[k].recovered
      PROVE  Traces(k, ledger'[k].type) \subseteq hooks'
  <2>1. CASE k = key
    BY <2>1, <1>1, <1>5
  <2>2. CASE k \in DOMAIN ledger
    <3>1. Traces(k, ledger[k].type) \subseteq hooks
      BY <2>2, <1>1, <1>5 DEF Ledger
    <3> QED BY <3>1, <2>2, <1>1
  <2> QED BY <2>1, <2>2, <1>1
<1>6. ASSUME NEW types \in {{"EXECUTE_RETRY"}, LinkTypes},
             NEW j \in Recovered(types)', NEW k \in Recovered(types)', j[1] = k[1], j[3] = k[3]
      PROVE  j = k
  <2>1. ASSUME NEW o \in DOMAIN ledger, ledger[o].recovered, ledger[o].type \in types,
               r.recovered, r.type \in types, o[1] = key[1], o[3] = key[3]
        PROVE  FALSE
    <3>1. EventsOf(ledger[o].type) = EventsOf(r.type)
      BY <2>1 DEF EventsOf, LinkTypes
    <3>2. Traces(o, ledger[o].type) = Traces(key, r.type)
      <4> HIDE DEF key
      <4> QED BY <3>1, <2>1 DEF Traces
    <3> QED BY <3>2, <2>1 DEF Ledger
  <2>2. \A o \in Recovered(types)' :
           \/ o = key /\ r.recovered /\ r.type \in types
           \/ o \in DOMAIN ledger /\ ledger[o].recovered /\ ledger[o].type \in types
    BY <1>1 DEF Recovered
  <2>3. CASE j \in DOMAIN ledger /\ k \in DOMAIN ledger
    <3>1. j \in Recovered(types) /\ k \in Recovered(types)
      BY <2>2, <2>3, <1>6 DEF Recovered
    <3> QED BY <3>1, <1>6 DEF Ledger, OneRecovers
  <2> HIDE DEF key
  <2>4. CASE j = key /\ k # key
    <3>1. r.recovered /\ r.type \in types
      BY <2>2, <2>4, <1>1, <1>6 DEF key
    <3>2. k \in DOMAIN ledger /\ ledger[k].recovered /\ ledger[k].type \in types
      BY <2>2, <2>4
    <3> QED BY <3>1, <3>2, <2>1, <2>4, <1>6
  <2>5. CASE k = key /\ j # key
    <3>1. r.recovered /\ r.type \in types
      BY <2>2, <2>5, <1>1, <1>6 DEF key
    <3>2. j \in DOMAIN ledger /\ ledger[j].recovered /\ ledger[j].type \in types
      BY <2>2, <2>5
    <3> QED BY <3>1, <3>2, <2>1, <2>5, <1>6
  <2> QED BY <2>2, <2>3, <2>4, <2>5, <1>6
<1>7. OneRecovers'
  BY <1>6 DEF OneRecovers
<1>8. Ledger'
  BY <1>1, <1>2, <1>3, <1>4, <1>5, <1>7 DEF Ledger
<1>9. \A k \in DOMAIN ledger' : ledger'[k].type \in ExecutionType
  BY <1>4 DEF Genuine, ExecutionResult
<1>10. \A k \in DOMAIN ledger : ledger[k].type \in ExecutionType
  BY DEF Ledger, Genuine, ExecutionResult
<1>11. Recovered(ExecutionType)' = {k \in DOMAIN ledger' : ledger'[k].recovered}
  BY <1>9 DEF Recovered
<1>12. Recovered(ExecutionType) = {k \in DOMAIN ledger : ledger[k].recovered}
  BY <1>10 DEF Recovered
<1> HIDE DEF key
<1>13. CASE r.recovered
  <2>1. Recovered(ExecutionType)' = Recovered(ExecutionType) \cup {key}
    BY <1>1, <1>11, <1>12, <1>13
  <2> QED BY <2>1, <1>1, <1>8, <1>13 DEF key
<1>14. CASE ~r.recovered
  <2>1. Recovered(ExecutionType)' = Recovered(ExecutionType)
    BY <1>1, <1>11, <1>12, <1>14
  <2> QED BY <2>1, <1>1, <1>8, <1>14 DEF key
<1> QED BY <1>13, <1>14

\* what a batch counts of a result, and that it is counted as recovered only if the
\* ledger has it
Countable(r) ==
    /\ r \in ExecutionResult /\ ~(r.success /\ r.status \in Failures)
    /\ r.status = "DUPLICATE_SKIPPED" => ~r.success /\ ~r.recovered

\* what is recovered is finite
LEMMA RecoveredFinite == Ledger => IsFiniteSet(Recovered(ExecutionType))
BY FS_Subset DEF Ledger, Recovered

\* the ledger and the recoveries after the result r of one plan
Keeps(r) ==
    /\ Ledger' /\ audits' \in {audits, audits + 1} /\ Countable(r)
    /\ \A k \in DOMAIN ledger : k \in DOMAIN ledger' /\ ledger'[k] = ledger[k]
    /\ DOMAIN ledger' = DOMAIN ledger => hooks' = hooks
    /\ Cardinality(Recovered(ExecutionType)') = Cardinality(Recovered(ExecutionType)) + One(r.recovered)

\* a plan that is run
LEMMA ExecuteKeeps ==
    ASSUME Ledger, NEW plan \in Plans, NEW out \in Results(plan), Execute(plan, out)
    PROVE  Keeps(out[1])
<1> DEFINE key == Key(plan)
<1>1. CASE key \in DOMAIN ledger
  <2>1. out = <<DuplicateResult(ledger[key]), {}>>
    BY <1>1 DEF Results
  <2>2. out[1] = DuplicateResult(ledger[key]) /\ out[2] = {}
    BY <2>1
  <2>3. audits' = audits + 1 /\ UNCHANGED <<ledger, hooks>>
    BY <1>1, <2>2 DEF Execute
  <2>4. ledger[key] \in ExecutionResult
    BY <1>1 DEF Ledger, Genuine
  <2>5. out[1] \in ExecutionResult /\ out[1].status = "DUPLICATE_SKIPPED"
    BY <2>2, <2>4 DEF DuplicateResult, ExecutionResult, ExecutionStatus
  <2>6. ~out[1].success /\ ~out[1].recovered
    BY <2>2, <2>4 DEF DuplicateResult, ExecutionResult
  <2>7. Countable(out[1])
    BY <2>5, <2>6 DEF Countable
  <2>8. Ledger' /\ Recovered(ExecutionType)' = Recovered(ExecutionType)
    BY <2>3 DEF Ledger, OneRecovers, Recovered
  <2>9. Cardinality(Recovered(ExecutionType)) \in Nat
    BY RecoveredFinite, FS_CardinalityType
  <2>10. One(out[1].recovered) = 0
    BY <2>6 DEF One
  <2> QED BY <2>3, <2>7, <2>8, <2>9, <2>10 DEF Keeps
<1>2. CASE key \notin DOMAIN ledger
  <2> DEFINE r == out[1]
  <2>1. out \in Simulated(plan)
    BY <1>2 DEF Results
  <2>2. Sound(plan, out)
    BY <2>1, SimulatedSound
  <2>3. Put(key, r) /\ hooks' = hooks \cup out[2]
    BY <1>2 DEF Execute
  <2>4. r.recovered => out[2] = Traces(key, r.type) /\ ~(out[2] \subseteq hooks)
    <3>1. Hooks(plan, EventsOf(r.type)) = Traces(key, r.type)
      BY DEF Hooks, HookId, Traces, Key
    <3> QED BY <2>2, <3>1 DEF Sound
  <2> HIDE DEF r
  <2>5. Genuine(r) /\ Countable(r)
    BY <2>2 DEF Sound, Genuine, Countable, r
  <2>6. /\ Ledger' /\ audits' = audits + 1
        /\ \A k \in DOMAIN ledger : k \in DOMAIN ledger' /\ ledger'[k] = ledger[k]
        /\ Recovered(ExecutionType)' =
              IF r.recovered THEN Recovered(ExecutionType) \cup {key} ELSE Recovered(ExecutionType)
    BY <1>2, <2>3, <2>4, <2>5, NewResult
  <2>7. DOMAIN ledger' # DOMAIN ledger
    BY <1>2, <2>3 DEF Put
  <2>8. key \notin Recovered(ExecutionType) /\ IsFiniteSet(Recovered(ExecutionType))
    BY <1>2, RecoveredFinite DEF Recovered
  <2>9. Cardinality(Recovered(ExecutionType)') = Cardinality(Recovered(ExecutionType)) + One(r.recovered)
    <3>1. CASE r.recovered
      <4>1. One(r.recovered) = 1
        BY <3>1 DEF One
      <4> QED BY <3>1, <4>1, <2>6, <2>8, FS_AddElement
    <3>2. CASE ~r.recovered
      <4>1. One(r.recovered) = 0
        BY <3>2 DEF One
      <4> QED BY <3>2, <4>1, <2>6, <2>8, FS_CardinalityType
    <3> QED BY <3>1, <3>2
  <2> QED BY <2>5, <2>6, <2>7, <2>9 DEF Keeps, r
<1> QED BY <1>1, <1>2

\* a plan whose case is gone
LEMMA UnavailableKeeps ==
    ASSUME Ledger, NEW plan \in Plans, Unavailable(plan)
    PROVE  Keeps(CaseNotFound) /\ ~CaseNotFound.recovered
<1>1. Genuine(CaseNotFound) /\ ~CaseNotFound.recovered
  BY OutcomeGenuine, TypesAre DEF CaseNotFound, Types, ExecutionStatus
<1>2. Countable(CaseNotFound)
  BY <1>1 DEF Countable, Genuine
<1>3. One(CaseNotFound.recovered) = 0 /\ Cardinality(Recovered(ExecutionType)) \in Nat
  BY <1>1, RecoveredFinite, FS_CardinalityType DEF One
<1>4. hooks' = hooks
  BY DEF Unavailable
<1>5. CASE Key(plan) \in DOMAIN ledger
  <2>1. UNCHANGED <<ledger, audits, hooks>>
    BY <1>5 DEF Unavailable, Put
  <2>2. Ledger' /\ Recovered(ExecutionType)' = Recovered(ExecutionType)
    BY <2>1 DEF Ledger, OneRecovers, Recovered
  <2> QED BY <2>1, <2>2, <1>1, <1>2, <1>3 DEF Keeps
<1>6. CASE Key(plan) \notin DOMAIN ledger
  <2>1. /\ Ledger' /\ audits' = audits + 1
        /\ \A k \in DOMAIN ledger : k \in DOMAIN ledger' /\ ledger'[k] = ledger[k]
        /\ Recovered(ExecutionType)' = Recovered(ExecutionType)
    BY <1>1, <1>4, <1>6, NewResult DEF Unavailable
  <2> QED BY <2>1, <1>1, <1>2, <1>3, <1>4 DEF Keeps
<1> QED BY <1>5, <1>6

-----------------------------------------------------------------------------
(* Steps                                                                   *)

\* a result is counted at most once in each count, and as a success or a failure only
\* if it is executed
LEMMA CountedStep ==
    ASSUME Clocks, Counts, NEW r, Countable(r), NEW phase, Counted(phase, r),
           ran' = ran + 1, earned' = earned
    PROVE  Counts' /\ batch'.summary.value = batch.summary.value + One(r.recovered)
<1> DEFINE s == batch.summary
<1> DEFINE t == Summarize(s, r)
<1>1. batch' = [phase |-> phase, summary |-> t]
  BY DEF Counts, Counted
<1>2. s \in Summary /\ ran \in Nat /\ earned \in Nat
  BY ExecutorBounds DEF Counts, Clocks
<1>3. \A c \in BOOLEAN : One(c) \in {0, 1}
  BY DEF One
<1> DEFINE d == r.status = "DUPLICATE_SKIPPED"
<1> DEFINE f == r.status \in Failures
<1>4. /\ One(~d) \in {0, 1} /\ One(r.success) \in {0, 1} /\ One(f) \in {0, 1} /\ One(d) \in {0, 1}
      /\ One(r.link /\ r.status = "GENERATED") \in {0, 1} /\ One(r.recovered) \in {0, 1}
      /\ One(r.type = "EXECUTE_RETRY" /\ ~d) \in {0, 1}
  BY DEF One
<1>5. One(r.success) + One(f) <= One(~d)
  <2>1. CASE d
    <3>1. ~r.success /\ ~f
      BY <2>1 DEF Countable, Failures
    <3>2. One(r.success) = 0 /\ One(f) = 0
      BY <3>1 DEF One
    <3> QED BY <3>2, <1>4
  <2>2. CASE ~d
    <3>1. One(~d) = 1
      BY <2>2 DEF One
    <3>2. One(r.success) = 0 \/ One(f) = 0
      BY DEF Countable, One
    <3> QED BY <3>1, <3>2, <1>4
  <2> QED BY <2>1, <2>2
<1>6. /\ t.executed = s.executed + One(~d) /\ t.successes = s.successes + One(r.success)
      /\ t.failures = s.failures + One(f) /\ t.duplicates = s.duplicates + One(d)
      /\ t.links = s.links + One(r.link /\ r.status = "GENERATED")
      /\ t.retries = s.retries + One(r.type = "EXECUTE_RETRY" /\ ~d)
      /\ t.value = s.value + One(r.recovered)
      /\ t = [executed |-> t.executed, successes |-> t.successes, failures |-> t.failures,
              duplicates |-> t.duplicates, links |-> t.links, retries |-> t.retries, value |-> t.value]
  BY DEF Summarize
<1>7. /\ s.executed \in Nat /\ s.successes \in Nat /\ s.failures \in Nat /\ s.duplicates \in Nat
      /\ s.links \in Nat /\ s.retries \in Nat /\ s.value \in Nat
      /\ s.executed <= ran /\ s.duplicates <= ran /\ s.links <= ran /\ s.retries <= ran
      /\ earned + s.value <= ran
      /\ s.successes + s.failures <= s.executed
  BY <1>2 DEF Summary, Counts
<1> HIDE DEF d, f, t
<1>8. /\ t.executed \in Nat /\ t.successes \in Nat /\ t.failures \in Nat /\ t.duplicates \in Nat
      /\ t.links \in Nat /\ t.retries \in Nat /\ t.value \in Nat
      /\ t.executed <= ran + 1 /\ t.duplicates <= ran + 1 /\ t.links <= ran + 1
      /\ t.retries <= ran + 1 /\ earned + t.value <= ran + 1
      /\ t.successes + t.failures <= t.executed
  <2> HIDE DEF s
  <2> QED BY <1>2, <1>4, <1>5, <1>6, <1>7
<1>9. t \in Summary
  BY <1>6, <1>8 DEF Summary
<1>10. batch'.summary = t /\ batch'.phase = phase
  BY <1>1
<1> QED BY <1>1, <1>6, <1>8, <1>9, <1>10 DEF Counts

\* a plan that runs outside a batch earns what it recovers
LEMMA SinglePlan ==
    ASSUME IInv, NEW r, Keeps(r), Runs, UNCHANGED batch, batch.phase = "closed",
           earned' = earned + One(r.recovered), batch.summary = NoSummary
    PROVE  IInv'
<1>1. Clocks'
  BY ExecutorBounds DEF IInv, Clocks, Runs, Keeps, One
<1>2. Ledger'
  BY DEF Keeps
<1>3. One(r.recovered) \in {0, 1} /\ earned \in Nat /\ ran \in Nat /\ ran' = ran + 1
      /\ earned <= ran /\ batch.summary.value = 0 /\ batch' = batch
  BY DEF IInv, Clocks, Counts, One, NoSummary, Runs
<1>4. earned' + batch.summary.value <= ran'
  BY <1>3
<1>5. Counts'
  <2>1. \A n \in Nat : n <= ran => n <= ran'
    BY <1>3
  <2> QED BY <1>3, <1>4, <2>1 DEF IInv, Counts, Summary
<1>6. Reported'
  BY <1>3, RecoveredFinite, FS_CardinalityType DEF IInv, Reported, Keeps
<1> QED BY <1>1, <1>2, <1>5, <1>6 DEF IInv

\* a plan of a batch is counted in its summary
LEMMA BatchPlan ==
    ASSUME IInv, NEW r, Keeps(r), Runs, NEW phase, Counted(phase, r), UNCHANGED earned
    PROVE  IInv'
<1>1. Clocks'
  BY ExecutorBounds DEF IInv, Clocks, Runs, Keeps
<1>2. Counts' /\ batch'.summary.value = batch.summary.value + One(r.recovered)
  BY CountedStep DEF IInv, Keeps, Runs
<1>3. One(r.recovered) \in {0, 1} /\ earned \in Nat /\ batch.summary.value \in Nat
  BY DEF IInv, Clocks, Counts, Summary, One
<1>4. Reported'
  BY <1>2, <1>3, RecoveredFinite, FS_CardinalityType DEF IInv, Reported, Keeps
<1> QED BY <1>1, <1>2, <1>4 DEF IInv, Keeps

\* steps that run no plan keep the ledger
LEMMA LedgerKept ==
    ASSUME Ledger, UNCHANGED <<ledger, hooks>>
    PROVE  Ledger' /\ Recovered(ExecutionType)' = Recovered(ExecutionType)
BY DEF Ledger, OneRecovers, Recovered

\* the summary of a batch that is open or closed anew
LEMMA ClosedSummary == NoSummary \in Summary /\ NoSummary.value = 0 /\ NoSummary.executed = 0
BY DEF NoSummary, Summary

\* outside a batch there is nothing in the summary
Resting == batch.phase = "closed" => batch.summary = NoSummary

\* what a plan does that is run
Effect(r) ==
    /\ Keeps(r) /\ Runs
    /\ \/ UNCHANGED batch /\ batch.phase = "closed" /\ earned' = earned + One(r.recovered)
       \/ /\ UNCHANGED earned /\ batch.phase # "closed"
          /\ \E phase \in {"loading", "running"} : Counted(phase, r)

\* each of the three ways to run a plan
LEMMA PlanEffects ==
    ASSUME Ledger, NEW plan \in Plans, ExecutePlan(plan) \/ LoadMissing(plan) \/ RunInBatch(plan),
           earned \in Nat
    PROVE  \E r : Effect(r)
<1>1. ASSUME NEW out \in Results(plan), Execute(plan, out), earned' = earned + One(out[1].recovered),
             ExecutePlan(plan)
      PROVE  Effect(out[1])
  BY <1>1, ExecuteKeeps DEF ExecutePlan, Effect
<1>2. ASSUME Unavailable(plan), UNCHANGED earned, ExecutePlan(plan) PROVE Effect(CaseNotFound)
  <2>1. Keeps(CaseNotFound) /\ One(CaseNotFound.recovered) = 0
    BY <1>2, UnavailableKeeps DEF One
  <2> QED BY <1>2, <2>1 DEF ExecutePlan, Effect
<1>3. ASSUME LoadMissing(plan) PROVE Effect(CaseNotFound)
  BY <1>3, UnavailableKeeps DEF LoadMissing, Effect
<1>4. ASSUME NEW out \in Results(plan), Execute(plan, out), Counted("running", out[1]), RunInBatch(plan)
      PROVE  Effect(out[1])
  BY <1>4, ExecuteKeeps DEF RunInBatch, Effect
<1> QED BY <1>1, <1>2, <1>3, <1>4 DEF ExecutePlan, RunInBatch

\* every step keeps the invariant
LEMMA NextStep == IInv /\ Resting /\ [Next]_vars => IInv' /\ Resting'
<1> SUFFICES ASSUME IInv, Resting, [Next]_vars PROVE IInv' /\ Resting'
  OBVIOUS
<1>1. ASSUME NEW r, Effect(r) PROVE IInv' /\ Resting'
  <2>1. CASE UNCHANGED batch /\ batch.phase = "closed" /\ earned' = earned + One(r.recovered)
    <3>1. Keeps(r) /\ Runs
      BY <1>1 DEF Effect
    <3>2. batch.summary = NoSummary
      BY <2>1 DEF Resting
    <3>3. IInv'
      BY <2>1, <3>1, <3>2, SinglePlan
    <3> QED BY <2>1, <3>2, <3>3 DEF Resting
  <2>2. ASSUME NEW phase \in {"loading", "running"}, UNCHANGED earned, Counted(phase, r)
        PROVE  IInv' /\ Resting'
    <3>1. IInv'
      BY <1>1, <2>2, BatchPlan DEF Effect
    <3>2. batch'.phase = phase
      BY <2>2 DEF Counted, IInv, Counts
    <3> QED BY <3>1, <3>2 DEF Resting
  <2> QED BY <1>1, <2>1, <2>2 DEF Effect
<1>2. ASSUME NEW plan \in Plans, ExecutePlan(plan) \/ LoadMissing(plan) \/ RunInBatch(plan)
      PROVE  IInv' /\ Resting'
  BY <1>1, <1>2, PlanEffects DEF IInv, Clocks
<1>3. ASSUME OpenBatch PROVE IInv' /\ Resting'
  <2>1. batch.summary = NoSummary /\ batch' = [phase |-> "loading", summary |-> NoSummary]
    BY <1>3 DEF OpenBatch, Resting, Closed
  <2>2. batch'.summary = batch.summary /\ batch'.phase = "loading"
    BY <2>1
  <2>3. Counts'
    BY <1>3, <2>1, <2>2 DEF OpenBatch, IInv, Counts
  <2>4. Clocks' /\ Ledger' /\ Reported'
    BY <1>3, <2>2, LedgerKept DEF OpenBatch, IInv, Clocks, Reported
  <2> QED BY <2>2, <2>3, <2>4 DEF IInv, Resting
<1>4. ASSUME CloseBatch PROVE IInv' /\ Resting'
  <2>1. batch'.summary = NoSummary /\ batch' = [phase |-> "closed", summary |-> NoSummary]
        /\ earned' = earned + batch.summary.value
    BY <1>4 DEF CloseBatch, Closed
  <2>2. /\ earned \in Nat /\ batch.summary.value \in Nat /\ ran \in Nat /\ ran' = ran
        /\ earned + batch.summary.value <= ran
    BY <1>4, ExecutorBounds DEF CloseBatch, IInv, Clocks, Counts, Summary
  <2>3. Counts'
    BY <2>1, <2>2 DEF Counts, NoSummary, Summary
  <2>4. Clocks' /\ Ledger'
    BY <1>4, <2>1, <2>2, LedgerKept DEF CloseBatch, IInv, Clocks
  <2>5. Reported'
    BY <1>4, <2>1, <2>2, ClosedSummary, LedgerKept DEF CloseBatch, IInv, Reported
  <2> QED BY <2>1, <2>3, <2>4, <2>5 DEF IInv, Resting
<1>5. ASSUME Clock \/ (\E plan \in Plans : DeleteCase(plan.case)) \/ UNCHANGED vars PROVE IInv' /\ Resting'
  <2>1. UNCHANGED <<ledger, hooks, audits, batch, ran, earned>> /\ now' \in 0 .. MaxTime
    BY <1>5, ExecutorBounds DEF Clock, DeleteCase, vars, IInv, Clocks
  <2>2. Clocks' /\ Counts' /\ Resting'
    BY <2>1 DEF IInv, Clocks, Counts, Resting
  <2> QED BY <2>1, <2>2, LedgerKept DEF IInv, Reported
<1> QED BY <1>2, <1>3, <1>4, <1>5, Zenon DEF Next

-----------------------------------------------------------------------------
(* The theorems                                                            *)

\* The inductive invariant: each recovered result has left its events, each plan adds
\* one to a count at most, and what is reported is what the ledger holds.
THEOREM ExecutorInvariance == Spec => [](IInv /\ Resting)
<1>1. Init => IInv /\ Resting
  BY InitIInv DEF Init, Resting, Closed
<1> QED BY <1>1, NextStep, PTL DEF Spec

\* Ledger, events and summary have their types, and a summary counts each plan once.
THEOREM ExecutorTypes == Spec => []TypeOK
<1>1. IInv => TypeOK
  <2> SUFFICES ASSUME IInv PROVE TypeOK
    OBVIOUS
  <2>1. /\ now \in 0 .. MaxTime /\ ran \in 0 .. MaxPlans /\ audits \in 0 .. MaxPlans
        /\ MaxPlans \in Nat /\ ran \in Nat /\ ran <= MaxPlans
    BY ExecutorBounds DEF IInv, Clocks
  <2> DEFINE s == batch.summary
  <2>2. /\ s \in Summary /\ s.executed <= ran /\ s.duplicates <= ran /\ s.links <= ran
        /\ s.retries <= ran /\ earned + s.value <= ran /\ s.successes + s.failures <= s.executed
        /\ earned \in Nat
    BY DEF IInv, Counts, Clocks
  <2>3. /\ s.executed \in Nat /\ s.successes \in Nat /\ s.failures \in Nat /\ s.duplicates \in Nat
        /\ s.links \in Nat /\ s.retries \in Nat /\ s.value \in Nat
        /\ s = [executed |-> s.executed, successes |-> s.successes, failures |-> s.failures,
                duplicates |-> s.duplicates, links |-> s.links, retries |-> s.retries, value |-> s.value]
    BY <2>2 DEF Summary
  <2> HIDE DEF s
  <2>4. /\ s.executed \in 0 .. MaxPlans /\ s.successes \in 0 .. MaxPlans /\ s.failures \in 0 .. MaxPlans
        /\ s.duplicates \in 0 .. MaxPlans /\ s.links \in 0 .. MaxPlans
        /\ s.retries \in 0 .. MaxPlans /\ s.value \in 0 .. MaxPlans /\ earned \in 0 .. MaxPlans
    BY <2>1, <2>2, <2>3
  <2>5. s \in [DOMAIN NoSummary -> 0 .. MaxPlans]
    BY <2>3, <2>4 DEF NoSummary
  <2> QED BY <2>1, <2>2, <2>4, <2>5 DEF TypeOK, IInv, Ledger, Genuine, s
<1> QED BY ExecutorInvariance, <1>1, PTL

\* What is reported as recovered is what the ledger has recovered, over batches, single
\* plans and duplicates, and each event recovers once (execute, ledger.py, metrics.py).
THEOREM RecoveriesAreReal == Spec => []RecoveredOnce
<1>1. IInv => RecoveredOnce
  BY DEF IInv, Reported, Ledger, OneRecovers, LinkTypes, RecoveredOnce
<1> QED BY ExecutorInvariance, <1>1, PTL

\* The first result of a key is final, and events come with new keys only.
THEOREM LedgerStays == Spec => LedgerIsFinal
<1> DEFINE Final == /\ \A k \in DOMAIN ledger : k \in DOMAIN ledger' /\ ledger'[k] = ledger[k]
                    /\ DOMAIN ledger' = DOMAIN ledger => hooks' = hooks
<1>1. IInv /\ [Next]_vars => [Final]_vars
  <2> SUFFICES ASSUME IInv, Next PROVE Final
    OBVIOUS
  <2>1. ASSUME NEW plan \in Plans, ExecutePlan(plan) \/ LoadMissing(plan) \/ RunInBatch(plan)
        PROVE  Final
    <3>1. PICK r : Effect(r)
      BY <2>1, PlanEffects DEF IInv, Clocks
    <3> QED BY <3>1 DEF Effect, Keeps
  <2>2. CASE ledger' = ledger /\ hooks' = hooks
    BY <2>2
  <2>3. \/ ledger' = ledger /\ hooks' = hooks
        \/ \E plan \in Plans : ExecutePlan(plan) \/ LoadMissing(plan) \/ RunInBatch(plan)
    BY Zenon DEF Next, OpenBatch, CloseBatch, Clock, DeleteCase
  <2> QED BY <2>1, <2>2, <2>3
<1>2. Spec => [][Final]_vars
  BY ExecutorInvariance, <1>1, PTL DEF Spec
<1> QED BY <1>2 DEF LedgerIsFinal
=============================================================================
