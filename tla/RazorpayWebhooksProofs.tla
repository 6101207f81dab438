------------------------ MODULE RazorpayWebhooksProofs ------------------------
(***************************************************************************)
(* Theorems about the webhooks, for any number of events, processes and    *)
(* deliveries: the inbox implements OnceInbox, and inbox, case, payment    *)
(* and audit trail agree.                                                  *)
(***************************************************************************)
EXTENDS RazorpayWebhooks, SequenceTheorems, TLAPS

Dispatching == {"read", "updating", "flushed"}
Uncommitted == {"matched", "closing"} \cup Dispatching

KindOf(s) == body[server[s].event].kind
NamesOf(s) == body[server[s].event].names

\* a session works on a key of its event, and the row of the key is in the inbox
\* when it replays and not there as long as it has inserted it itself
KeyInHand(s) ==
    /\ ~At(s, "idle") => server[s].key[1] = server[s].event
    /\ At(s, "replaying") => server[s].key \in DOMAIN inbox
    /\ server[s].pc \in Uncommitted => server[s].key \notin DOMAIN inbox

\* what is dispatched is supported, and what is closed although nothing failed
\* had nothing to be applied to
Progress(s) ==
    /\ server[s].pc \in {"matched"} \cup Dispatching => KindOf(s) \in SupportedEvents
    /\ server[s].pc \in {"inserting", "matched"} => server[s].ok
    /\ At(s, "closing") /\ server[s].ok =>
          KindOf(s) \notin SupportedEvents \/ NamesOf(s) \cap {"notes", "payment"} = {}

\* what a session has read is up to date, as long as sessions do not overlap
ReadInHand(s) ==
    ~overlap =>
        /\ server[s].pc \in Dispatching => server[s].case = case.status
        /\ server[s].pc \in {"updating", "flushed"} => server[s].payment = payment

SessionOK(s) == KeyInHand(s) /\ Progress(s) /\ ReadInHand(s)

\* the unique index, the row lock, and what overlap observes
Exclusive(s, t) ==
    /\ server[s].pc \in Uncommitted /\ server[t].pc \in Uncommitted
          => server[s].key # server[t].key
    /\ ~(At(s, "flushed") /\ At(t, "flushed"))
    /\ server[s].pc \in Dispatching /\ server[t].pc \in Dispatching => overlap

\* an id that has not landed has left no trace
RowOK(k) ==
    IF k \in DOMAIN inbox THEN landed[k].commits >= 1 /\ landed[k].effects <= 1
    ELSE landed[k].commits = 0 /\ landed[k].effects = 0
         /\ audits[k].applied = 0 /\ audits[k].replays = 0

Tables ==
    /\ \A k \in Keys : RowOK(k)
    /\ InboxTellsTruth /\ DeliveriesAudited /\ CaseExplained /\ LedgerAgrees

Sessions ==
    /\ \A s \in Servers : SessionOK(s)
    /\ \A s, t \in Servers : s # t => Exclusive(s, t)

IInv == TypeOK /\ Tables /\ Sessions

-----------------------------------------------------------------------------
(* Initial states *)

\* What the typing of a step's context gives: every body of an event is one.
LEMMA Context == TypeOK => /\ \A e \in Events : body[e] \in Body
                           /\ \A s \in Servers : server[s] \in Session
BY WebhookBounds DEF TypeOK

\* A server with no delivery open has a session of the right type.
LEMMA NoSessionIsSession == NoSession \in Session
BY WebhookBounds DEF NoSession, Session, CaseStatuses, PaymentStatuses

\* The invariant holds before the first delivery.
LEMMA InitIInv == Init => IInv
<1> SUFFICES ASSUME Init PROVE IInv
  OBVIOUS
<1>1. TypeOK
  <2>1. server \in [Servers -> Session] /\ \A s \in Servers : At(s, "idle") <=> server[s].key = NoKey
    BY NoSessionIsSession DEF Init, At, NoSession
  <2>2. actions \in Seq(Displays) /\ Len(actions) <= MaxActions
    BY WebhookBounds DEF Init
  <2>3. case \in CaseRow
    BY WebhookBounds DEF Init, CaseRow, CaseStatuses
  <2>4. sent \in [Events -> 0 .. MaxDeliveries] /\ faults \in 0 .. MaxFaults
    BY WebhookBounds DEF Init
  <2>5. DOMAIN inbox = {} /\ inbox \in [DOMAIN inbox -> InboxRow]
    BY DEF Init
  <2> QED BY <2>1, <2>2, <2>3, <2>4, <2>5 DEF Init, TypeOK, PaymentStatuses
<1>2. Tables
  <2>1. DOMAIN inbox = {}
    BY DEF Init
  <2>2. \A k \in Keys : RowOK(k)
    BY <2>1 DEF Init, RowOK
  <2>3. InboxTellsTruth /\ DeliveriesAudited
    BY <2>1 DEF Init, InboxTellsTruth, DeliveriesAudited
  <2>4. CaseExplained /\ LedgerAgrees
    <3>1. case.status \in FirstStatuses /\ case.completed = FALSE /\ payment = "FAILED"
      BY DEF Init
    <3>2. ASSUME NEW kind PROVE ~Effective(kind)
      BY DEF Init, Effective
    <3> QED BY <3>1, <3>2 DEF CaseExplained, LedgerAgrees
  <2> QED BY <2>2, <2>3, <2>4 DEF Tables
<1>3. Sessions
  BY DEF Init, Sessions, SessionOK, KeyInHand, Progress, ReadInHand, Exclusive,
         At, NoSession, Uncommitted, Dispatching
<1> QED BY <1>1, <1>2, <1>3 DEF IInv

-----------------------------------------------------------------------------
(* Steps of one session that leave the tables alone *)

\* What is said of the tables stays true while the tables do.
LEMMA TablesKept ==
    ASSUME Tables, UNCHANGED <<body, inbox, case, payment, audits, acked, landed>>,
           overlap => overlap'
    PROVE  Tables'
BY DEF Tables, RowOK, InboxTellsTruth, DeliveriesAudited, CaseExplained, LedgerAgrees, Effective

\* What is said of each session stays true of those a step leaves alone.
LEMMA SessionsKept ==
    ASSUME TypeOK, Sessions, UNCHANGED <<body, inbox, case, payment, landed>>,
           overlap => overlap', overlap' \in BOOLEAN,
           NEW s \in Servers, server' = [server EXCEPT ![s] = server'[s]],
           SessionOK(s)', \A t \in Servers \ {s} : Exclusive(s, t)'
    PROVE  Sessions'
<1>1. \A t \in Servers \ {s} : server'[t] = server[t]
  BY DEF TypeOK
<1>2. ASSUME NEW t \in Servers \ {s} PROVE SessionOK(t)'
  <2>1. server'[t] = server[t] /\ SessionOK(t)
    BY <1>1 DEF Sessions
  <2> QED BY <2>1 DEF SessionOK, KeyInHand, Progress, ReadInHand, At, KindOf, NamesOf, TypeOK
<1>3. ASSUME NEW t \in Servers, NEW u \in Servers, t # u PROVE Exclusive(t, u)'
  <2>1. CASE t = s
    BY <2>1, <1>3
  <2>2. CASE u = s
    <3>1. Exclusive(s, t)'
      BY <2>2, <1>3
    <3> QED BY <3>1, <2>2 DEF Exclusive
  <2>3. CASE t # s /\ u # s
    <3>1. server'[t] = server[t] /\ server'[u] = server[u] /\ Exclusive(t, u)
      BY <2>3, <1>1, <1>3 DEF Sessions
    <3> QED BY <3>1 DEF Exclusive, At
  <2> QED BY <2>1, <2>2, <2>3
<1> QED BY <1>2, <1>3 DEF Sessions

\* one session moves on, and what it has read so far is the only difference
LEMMA SessionMoves ==
    ASSUME IInv, UNCHANGED <<body, inbox, case, payment, actions, audits, acked, landed>>,
           sent' \in [Events -> 0 .. MaxDeliveries],
           overlap => overlap', overlap' \in BOOLEAN, faults' \in 0 .. MaxFaults,
           NEW s \in Servers, server' = [server EXCEPT ![s] = server'[s]],
           server'[s] \in Session, At(s, "idle")' <=> server'[s].key = NoKey,
           SessionOK(s)', \A t \in Servers \ {s} : Exclusive(s, t)'
    PROVE  IInv'
<1>1. TypeOK'
  <2>1. server' \in [Servers -> Session]
    BY DEF IInv, TypeOK
  <2>2. \A t \in Servers : At(t, "idle")' <=> server'[t].key = NoKey
    BY DEF IInv, TypeOK, At
  <2> QED BY <2>1, <2>2 DEF IInv, TypeOK
<1>2. Tables'
  BY TablesKept DEF IInv
<1>3. Sessions'
  BY SessionsKept DEF IInv
<1> QED BY <1>1, <1>2, <1>3 DEF IInv

\* A delivery that arrives (process opens a session) keeps the invariant.
LEMMA DeliverStep ==
    ASSUME IInv, NEW e \in Events, NEW s \in Servers, Deliver(e, s)
    PROVE  IInv'
<1> DEFINE k == KeyOf(e, sent'[e])
<1> USE DEF IInv
<1>1. sent' \in [Events -> 0 .. MaxDeliveries] /\ sent'[e] \in 0 .. MaxDeliveries
  BY WebhookBounds DEF Deliver, TypeOK
<1>2. k \in Keys /\ k[1] = e /\ k # NoKey
  BY <1>1, WebhookBounds DEF KeyOf, Keys, NoKey
<1>3. server[s] \in Session
  BY DEF Deliver, TypeOK, Sessions, SessionOK, At
<1> HIDE DEF k
<1>4. server'[s] = [server[s] EXCEPT !.pc = IF k \in DOMAIN inbox THEN "replaying" ELSE "inserting",
                                     !.event = e, !.key = k, !.ok = TRUE]
      /\ server' = [server EXCEPT ![s] = server'[s]]
  BY DEF Deliver, TypeOK, k
<1>5. /\ server'[s] \in Session
      /\ server'[s].pc = IF k \in DOMAIN inbox THEN "replaying" ELSE "inserting"
      /\ server'[s].event = e /\ server'[s].key = k /\ server'[s].ok
  BY <1>2, <1>3, <1>4 DEF Session
<1>6. UNCHANGED <<body, inbox, case, payment, actions, audits, acked, landed, overlap, faults>>
  BY DEF Deliver
<1>7. SessionOK(s)'
  BY <1>2, <1>5, <1>6
     DEF SessionOK, KeyInHand, Progress, ReadInHand, At, Uncommitted, Dispatching, TypeOK
<1>8. \A t \in Servers \ {s} : Exclusive(s, t)'
  BY <1>5 DEF Exclusive, At, Uncommitted, Dispatching
<1>9. At(s, "idle")' <=> server'[s].key = NoKey
  BY <1>2, <1>5 DEF At
<1> QED BY <1>1, <1>4, <1>5, <1>6, <1>7, <1>8, <1>9, SessionMoves DEF TypeOK

\* what a session that is not idle holds
LEMMA InHand ==
    ASSUME IInv, NEW s \in Servers
    PROVE  /\ server[s] \in Session /\ SessionOK(s) /\ server[s].event \in Events
           /\ body[server[s].event] \in Body
           /\ ~At(s, "idle") => server[s].key \in Keys /\ server[s].key # NoKey
           /\ \A t \in Servers \ {s} : server[t] \in Session /\ Exclusive(s, t)
           /\ case.status \in CaseStatuses /\ payment \in PaymentStatuses
<1>1. server[s] \in Session /\ body[server[s].event] \in Body
  BY Context DEF IInv, Session
<1>2. case.status \in CaseStatuses
  BY DEF IInv, TypeOK, CaseRow
<1> QED BY <1>1, <1>2, Context DEF IInv, Session, Sessions, TypeOK

\* a session that only goes on to another point
LEMMA GotoFields ==
    ASSUME NEW s \in Servers, TypeOK, server[s] \in Session, NEW pc, Goto(s, pc),
           pc \in {"idle", "inserting", "replaying", "matched", "read", "flushed", "updating", "closing"}
    PROVE  /\ server' = [server EXCEPT ![s] = server'[s]] /\ server'[s] \in Session
           /\ server'[s].pc = pc /\ server'[s].event = server[s].event
           /\ server'[s].key = server[s].key /\ server'[s].ok = server[s].ok
           /\ server'[s].case = server[s].case
           /\ server'[s].payment = server[s].payment
           /\ \A t \in Servers \ {s} : server'[t] = server[t]
<1>1. server'[s] = [server[s] EXCEPT !.pc = pc] /\ server' = [server EXCEPT ![s] = server'[s]]
  BY DEF Goto, TypeOK
<1> QED BY <1>1 DEF Session, TypeOK

\* The insert of the inbox row, which waits for one of the same id, keeps it.
LEMMA InsertStep ==
    ASSUME IInv, NEW s \in Servers, Insert(s)
    PROVE  IInv'
<1> DEFINE k == server[s].key
           next == IF k \in DOMAIN inbox THEN "replaying"
                   ELSE IF KindOf(s) \in SupportedEvents THEN "matched" ELSE "closing"
<1>1. /\ At(s, "inserting") /\ Inserted(k) = {} /\ Goto(s, next)
      /\ UNCHANGED <<body, inbox, case, payment, actions, audits, sent, acked,
                     landed, overlap, faults>>
  BY DEF Insert, KindOf
<1>2. /\ server[s] \in Session /\ SessionOK(s) /\ k \in Keys /\ k # NoKey /\ TypeOK
      /\ server[s].event \in Events
  BY <1>1, InHand DEF At, IInv
<1>3. /\ server' = [server EXCEPT ![s] = server'[s]] /\ server'[s] \in Session
      /\ server'[s].pc = next /\ server'[s].event = server[s].event /\ server'[s].key = k
      /\ server'[s].ok = server[s].ok
      /\ \A t \in Servers \ {s} : server'[t] = server[t]
  BY <1>1, <1>2, GotoFields
<1>4. SessionOK(s)'
  BY <1>1, <1>2, <1>3
     DEF SessionOK, KeyInHand, Progress, ReadInHand, At, KindOf, NamesOf, Uncommitted,
         Dispatching, TypeOK
<1>5. ASSUME NEW t \in Servers \ {s} PROVE Exclusive(s, t)'
  <2>1. server[t].pc \in Uncommitted => server[t].key # k
    BY <1>1 DEF Inserted, Holding, Uncommitted, Dispatching
  <2> QED BY <2>1, <1>3 DEF Exclusive, At, Dispatching
<1>6. At(s, "idle")' <=> server'[s].key = NoKey
  BY <1>2, <1>3 DEF At
<1> QED BY <1>1, <1>2, <1>3, <1>4, <1>5, <1>6, SessionMoves DEF TypeOK

\* The read of the case and its newest action keeps it.
LEMMA MatchStep ==
    ASSUME IInv, NEW s \in Servers, Match(s)
    PROVE  IInv'
<1> DEFINE next == IF Resolves(server[s].event) THEN "read" ELSE "closing"
<1>1. /\ At(s, "matched")
      /\ UNCHANGED <<body, inbox, case, payment, actions, audits, sent, acked, landed, faults>>
      /\ overlap' = (overlap \/ Holding({"read", "flushed", "updating"}) # {})
  BY DEF Match
<1>2. /\ server[s] \in Session /\ SessionOK(s) /\ server[s].key \in Keys
      /\ server[s].key # NoKey /\ TypeOK /\ case.status \in CaseStatuses
      /\ \A t \in Servers \ {s} : Exclusive(s, t)
  BY <1>1, InHand DEF At, IInv
<1>3. /\ server'[s] = [server[s] EXCEPT !.pc = next, !.newest = Len(actions), !.case = case.status]
      /\ server' = [server EXCEPT ![s] = server'[s]]
  BY <1>2 DEF Match, TypeOK
<1>4. /\ server'[s] \in Session /\ server'[s].pc = next /\ server'[s].event = server[s].event
      /\ server'[s].key = server[s].key /\ server'[s].ok = server[s].ok
      /\ server'[s].case = case.status
      /\ \A t \in Servers \ {s} : server'[t] = server[t]
  <2>1. Len(actions) \in Nat
    BY <1>2 DEF TypeOK
  <2> QED BY <1>2, <1>3, <2>1 DEF Session, TypeOK
<1>5. SessionOK(s)'
  <2>1. next = "closing" => NamesOf(s) \cap {"notes", "payment"} = {}
    BY DEF Resolves, NamesOf
  <2> QED BY <1>1, <1>2, <1>4, <2>1
     DEF SessionOK, KeyInHand, Progress, ReadInHand, At, KindOf, NamesOf, Uncommitted,
         Dispatching
<1>6. ASSUME NEW t \in Servers \ {s} PROVE Exclusive(s, t)'
  <2>1. server[t].pc \in Dispatching => overlap'
    BY <1>1 DEF Holding, Dispatching
  <2>2. server[s].pc = "matched" /\ server'[t] = server[t] /\ Exclusive(s, t)
    BY <1>1, <1>2, <1>4 DEF At
  <2> QED BY <2>1, <2>2, <1>4 DEF Exclusive, At, Uncommitted
<1>7. At(s, "idle")' <=> server'[s].key = NoKey
  BY <1>2, <1>4 DEF At
<1>8. overlap' \in BOOLEAN
  BY <1>1, <1>2 DEF TypeOK
<1> QED BY <1>1, <1>2, <1>3, <1>4, <1>5, <1>6, <1>7, <1>8, SessionMoves DEF TypeOK

\* The read of the payment keeps it.
LEMMA ReadPaymentStep ==
    ASSUME IInv, NEW s \in Servers, ReadPayment(s)
    PROVE  IInv'
<1>1. /\ At(s, "read")
      /\ UNCHANGED <<body, inbox, case, payment, actions, audits, sent, acked, landed, overlap, faults>>
  BY DEF ReadPayment
<1>2. /\ server[s] \in Session /\ SessionOK(s) /\ server[s].key \in Keys
      /\ server[s].key # NoKey /\ TypeOK /\ payment \in PaymentStatuses
      /\ \A t \in Servers \ {s} : Exclusive(s, t)
  BY <1>1, InHand DEF At, IInv
<1>3. /\ server'[s] = [server[s] EXCEPT !.pc = "updating", !.payment = payment]
      /\ server' = [server EXCEPT ![s] = server'[s]]
  BY <1>2 DEF ReadPayment, TypeOK
<1>4. /\ server'[s] \in Session /\ server'[s].pc = "updating" /\ server'[s].event = server[s].event
      /\ server'[s].key = server[s].key /\ server'[s].ok = server[s].ok
      /\ server'[s].case = server[s].case
      /\ server'[s].payment = payment
      /\ \A t \in Servers \ {s} : server'[t] = server[t]
  BY <1>2, <1>3 DEF Session, TypeOK
<1>5. SessionOK(s)'
  BY <1>1, <1>2, <1>4
     DEF SessionOK, KeyInHand, Progress, ReadInHand, At, KindOf, NamesOf, Uncommitted,
         Dispatching
<1>6. \A t \in Servers \ {s} : Exclusive(s, t)'
  BY <1>1, <1>2, <1>4 DEF Exclusive, At, Uncommitted, Dispatching
<1>7. At(s, "idle")' <=> server'[s].key = NoKey
  BY <1>2, <1>4 DEF At
<1> QED BY <1>1, <1>2, <1>3, <1>4, <1>5, <1>6, <1>7, SessionMoves DEF TypeOK

\* The flush of the case and the payment, which waits for a session that holds them, keeps it.
LEMMA FlushStep ==
    ASSUME IInv, NEW s \in Servers, Flush(s)
    PROVE  IInv'
<1>1. /\ At(s, "updating") /\ Holding({"flushed"}) = {} /\ Goto(s, "flushed")
      /\ UNCHANGED <<body, inbox, case, payment, actions, audits, sent, acked, landed, overlap, faults>>
  BY DEF Flush
<1>2. /\ server[s] \in Session /\ SessionOK(s) /\ server[s].key \in Keys
      /\ server[s].key # NoKey /\ TypeOK
      /\ \A t \in Servers \ {s} : Exclusive(s, t)
  BY <1>1, InHand DEF At, IInv
<1>3. /\ server' = [server EXCEPT ![s] = server'[s]] /\ server'[s] \in Session
      /\ server'[s].pc = "flushed" /\ server'[s].event = server[s].event
      /\ server'[s].key = server[s].key /\ server'[s].ok = server[s].ok
      /\ server'[s].case = server[s].case
      /\ server'[s].payment = server[s].payment
      /\ \A t \in Servers \ {s} : server'[t] = server[t]
  BY <1>1, <1>2, GotoFields
<1>4. SessionOK(s)'
  BY <1>1, <1>2, <1>3
     DEF SessionOK, KeyInHand, Progress, ReadInHand, At, KindOf, NamesOf, Uncommitted,
         Dispatching
<1>5. \A t \in Servers \ {s} : Exclusive(s, t)'
  BY <1>1, <1>2, <1>3 DEF Exclusive, At, Uncommitted, Dispatching, Holding
<1>6. At(s, "idle")' <=> server'[s].key = NoKey
  BY <1>2, <1>3 DEF At
<1> QED BY <1>1, <1>2, <1>3, <1>4, <1>5, <1>6, SessionMoves DEF TypeOK

\* A dispatch that fails keeps it.
LEMMA DispatchFailsStep ==
    ASSUME IInv, NEW s \in Servers, DispatchFails(s)
    PROVE  IInv'
<1> DEFINE next == IF server[s].pc = "flushed" THEN "flushed" ELSE "closing"
<1>1. /\ server[s].pc \in {"read", "updating", "flushed"} /\ faults < MaxFaults /\ faults' = faults + 1
      /\ UNCHANGED <<body, inbox, case, payment, actions, audits, sent, acked, landed, overlap>>
  BY DEF DispatchFails
<1>2. /\ server[s] \in Session /\ SessionOK(s) /\ server[s].key \in Keys
      /\ server[s].key # NoKey /\ TypeOK
      /\ \A t \in Servers \ {s} : Exclusive(s, t)
  BY <1>1, InHand DEF At, IInv
<1>3. /\ server'[s] = [server[s] EXCEPT !.ok = FALSE, !.pc = next]
      /\ server' = [server EXCEPT ![s] = server'[s]]
  BY <1>2 DEF DispatchFails, TypeOK
<1>4. /\ server'[s] \in Session /\ server'[s].pc = next /\ server'[s].event = server[s].event
      /\ server'[s].key = server[s].key /\ server'[s].ok = FALSE
      /\ server'[s].case = server[s].case
      /\ server'[s].payment = server[s].payment
      /\ \A t \in Servers \ {s} : server'[t] = server[t]
  BY <1>2, <1>3 DEF Session, TypeOK
<1>5. SessionOK(s)'
  BY <1>1, <1>2, <1>4
     DEF SessionOK, KeyInHand, Progress, ReadInHand, At, KindOf, NamesOf, Uncommitted,
         Dispatching
<1>6. \A t \in Servers \ {s} : Exclusive(s, t)'
  BY <1>1, <1>2, <1>4 DEF Exclusive, At, Uncommitted, Dispatching
<1>7. At(s, "idle")' <=> server'[s].key = NoKey
  BY <1>2, <1>4 DEF At
<1>8. faults' \in 0 .. MaxFaults
  BY <1>1, <1>2, WebhookBounds DEF TypeOK
<1> QED BY <1>1, <1>2, <1>3, <1>4, <1>5, <1>6, <1>7, <1>8, SessionMoves DEF TypeOK

\* a closed session has nothing in hand
LEMMA ClosedIsIdle ==
    ASSUME TypeOK, NEW s \in Servers, Close(s)
    PROVE  /\ server' = [server EXCEPT ![s] = server'[s]] /\ server'[s] \in Session
           /\ SessionOK(s)' /\ \A t \in Servers \ {s} : Exclusive(s, t)'
           /\ At(s, "idle")' /\ server'[s].key = NoKey
           /\ server' \in [Servers -> Session]
           /\ \A t \in Servers : At(t, "idle")' <=> server'[t].key = NoKey
           /\ \A t \in Servers \ {s} : server'[t] = server[t]
<1>1. server'[s] = NoSession /\ server' = [server EXCEPT ![s] = server'[s]]
  BY DEF Close, TypeOK
<1>2. server'[s].pc = "idle" /\ server'[s].key = NoKey
  BY <1>1 DEF NoSession
<1>3. SessionOK(s)' /\ \A t \in Servers \ {s} : Exclusive(s, t)'
  BY <1>2 DEF SessionOK, KeyInHand, Progress, ReadInHand, Exclusive, At,
              Uncommitted, Dispatching
<1>4. server' \in [Servers -> Session] /\ \A t \in Servers \ {s} : server'[t] = server[t]
  BY <1>1, NoSessionIsSession DEF TypeOK
<1>5. \A t \in Servers : At(t, "idle")' <=> server'[t].key = NoKey
  BY <1>2, <1>4 DEF At, TypeOK
<1> QED BY <1>1, <1>2, <1>3, <1>4, <1>5, NoSessionIsSession DEF At

\* A delivery that is rolled back keeps it: it had written nothing.
LEMMA AbortStep ==
    ASSUME IInv, NEW s \in Servers, Abort(s)
    PROVE  IInv'
<1>1. /\ UNCHANGED <<body, inbox, case, payment, actions, audits, sent, acked, landed, overlap>>
      /\ Close(s) /\ TypeOK /\ faults < MaxFaults /\ faults' = faults + 1
  BY DEF Abort, IInv
<1>2. faults' \in 0 .. MaxFaults
  BY <1>1, WebhookBounds DEF TypeOK
<1> QED BY <1>1, <1>2, ClosedIsIdle, SessionMoves DEF TypeOK

\* An action that the orchestrator adds to the case keeps it.
LEMMA ActionCreatedStep == IInv /\ ActionCreated => IInv'
<1> SUFFICES ASSUME IInv, ActionCreated PROVE IInv'
  OBVIOUS
<1>1. UNCHANGED <<body, inbox, case, payment, audits, server, sent, acked, landed, overlap, faults>>
  BY DEF ActionCreated
<1>2. actions' \in Seq(Displays) /\ Len(actions') <= MaxActions
  <2>1. actions \in Seq(Displays) /\ Len(actions) < MaxActions /\ MaxActions \in Nat
    BY WebhookBounds DEF ActionCreated, IInv, TypeOK
  <2>2. PICK display \in Displays : actions' = Append(actions, display)
    BY DEF ActionCreated, Displays
  <2> QED BY <2>1, <2>2
<1>3. TypeOK'
  BY <1>1, <1>2 DEF IInv, TypeOK, At
<1>4. Tables'
  BY <1>1, TablesKept DEF IInv
<1>5. Sessions'
  BY <1>1 DEF IInv, Sessions, SessionOK, KeyInHand, Progress, ReadInHand, Exclusive,
              At, KindOf, NamesOf
<1> QED BY <1>3, <1>4, <1>5 DEF IInv

-----------------------------------------------------------------------------
(* Commits *)

\* what an answer counts
LEMMA AnswerFields ==
    ASSUME TypeOK, NEW s \in Servers, NEW n \in {0, 1}, server[s].key \in Keys,
           server[s].event \in Events, Answer(s, n)
    PROVE  /\ acked' \subseteq Events /\ acked' = acked \cup {server[s].event}
           /\ landed' \in [Keys -> [commits : Nat, effects : Nat]]
           /\ landed'[server[s].key].commits = landed[server[s].key].commits + 1
           /\ landed'[server[s].key].effects = landed[server[s].key].effects + n
           /\ \A k \in Keys \ {server[s].key} : landed'[k] = landed[k]
<1> DEFINE row == [commits |-> landed[server[s].key].commits + 1,
                   effects |-> landed[server[s].key].effects + n]
<1>1. acked' = acked \cup {server[s].event} /\ landed' = [landed EXCEPT ![server[s].key] = row]
  BY DEF Answer
<1>2. acked \subseteq Events /\ landed \in [Keys -> [commits : Nat, effects : Nat]]
  BY DEF TypeOK
<1>3. \A k \in Keys : landed[k].commits \in Nat /\ landed[k].effects \in Nat
  BY <1>2
<1>4. row \in [commits : Nat, effects : Nat]
  BY <1>3
<1>5. row.commits = landed[server[s].key].commits + 1 /\ row.effects = landed[server[s].key].effects + n
  OBVIOUS
<1> HIDE DEF row
<1>6. landed' \in [Keys -> [commits : Nat, effects : Nat]] /\ landed'[server[s].key] = row
  BY <1>1, <1>2, <1>4
<1>7. \A k \in Keys \ {server[s].key} : landed'[k] = landed[k]
  BY <1>1, <1>2
<1>8. acked' \subseteq Events
  BY <1>1, <1>2
<1> QED BY <1>1, <1>5, <1>6, <1>7, <1>8

\* what an audit event counts
LEMMA AuditedFields ==
    ASSUME TypeOK, NEW k \in Keys, NEW m \in {0, 1}, NEW n \in {0, 1}, audits' = Audited(k, m, n)
    PROVE  /\ audits' \in [Keys -> [applied : Nat, replays : Nat]]
           /\ audits'[k].applied = audits[k].applied + m /\ audits'[k].replays = audits[k].replays + n
           /\ \A j \in Keys \ {k} : audits'[j] = audits[j]
<1> DEFINE row == [applied |-> audits[k].applied + m, replays |-> audits[k].replays + n]
<1>1. audits' = [audits EXCEPT ![k] = row]
  BY DEF Audited
<1>2. audits \in [Keys -> [applied : Nat, replays : Nat]]
  BY DEF TypeOK
<1>3. row \in [applied : Nat, replays : Nat]
  <2>1. audits[k].applied \in Nat /\ audits[k].replays \in Nat
    BY <1>2
  <2> QED BY <2>1
<1>4. row.applied = audits[k].applied + m /\ row.replays = audits[k].replays + n
  OBVIOUS
<1> HIDE DEF row
<1>5. audits' \in [Keys -> [applied : Nat, replays : Nat]] /\ audits'[k] = row
  BY <1>1, <1>2, <1>3
<1>6. \A j \in Keys \ {k} : audits'[j] = audits[j]
  BY <1>1, <1>2
<1> QED BY <1>4, <1>5, <1>6

\* a dictionary that is changed in place is not written
LEMMA MarkedStaysStored ==
    ASSUME NEW stored, NEW changed
    PROVE  Marked(stored, changed) = stored
BY DEF Marked, FlushedIngest

\* what a first delivery writes
LEMMA FirstRowFields ==
    ASSUME TypeOK, NEW s \in Servers, server[s].key \in Keys, server[s] \in Session,
           inbox' = Put(inbox, server[s].key, FirstRow(s))
    PROVE  /\ DOMAIN inbox' = DOMAIN inbox \cup {server[s].key}
           /\ inbox' \in [DOMAIN inbox' -> InboxRow]
           /\ inbox'[server[s].key].processed = server[s].ok
           /\ \A k \in DOMAIN inbox \ {server[s].key} : inbox'[k] = inbox[k]
<1>1. FirstRow(s) \in InboxRow
  <2>1. FirstIngest \in Ingest /\ server[s].ok \in BOOLEAN
    BY DEF FirstIngest, Ingest, Session
  <2> QED BY <2>1, MarkedStaysStored DEF FirstRow, InboxRow
<1> QED BY <1>1 DEF Put, FirstRow, TypeOK

\* the other sessions, when one has committed
LEMMA OthersAfterCommit ==
    ASSUME IInv, NEW s \in Servers, ~At(s, "idle"), Close(s),
           DOMAIN inbox' = DOMAIN inbox \cup {server[s].key}, UNCHANGED <<body, overlap>>,
           \/ UNCHANGED <<case, payment>>
           \/ At(s, "flushed"),
           server[s].pc \in Uncommitted \/ server[s].key \in DOMAIN inbox
    PROVE  Sessions'
<1>1. /\ SessionOK(s)' /\ \A t \in Servers \ {s} : Exclusive(s, t)' /\ server'[t] = server[t]
      /\ \A t \in Servers \ {s} : Exclusive(s, t)
  BY ClosedIsIdle, InHand DEF IInv
<1>2. ASSUME NEW t \in Servers \ {s} PROVE SessionOK(t)'
  <2>1. SessionOK(t) /\ server'[t] = server[t] /\ Exclusive(s, t)
        /\ (~At(t, "idle") => server[t].key \in Keys)
    BY <1>1, InHand
  <2>2. KeyInHand(t)'
    <3>1. server[t].pc \in Uncommitted => server[t].key # server[s].key
      BY <2>1 DEF Exclusive, SessionOK, KeyInHand
    <3> QED BY <2>1, <3>1 DEF SessionOK, KeyInHand, At
  <2>3. Progress(t)'
    BY <2>1 DEF SessionOK, Progress, At, KindOf, NamesOf
  <2>5. ReadInHand(t)'
    <3>1. CASE UNCHANGED <<case, payment>>
      BY <2>1, <3>1 DEF SessionOK, ReadInHand
    <3>2. CASE At(s, "flushed")
      BY <2>1, <3>2 DEF ReadInHand, Exclusive, At, Dispatching
    <3> QED BY <3>1, <3>2
  <2> QED BY <2>2, <2>3, <2>5 DEF SessionOK
<1>3. ASSUME NEW t \in Servers, NEW u \in Servers, t # u PROVE Exclusive(t, u)'
  <2>1. CASE t = s
    BY <2>1, <1>3, <1>1
  <2>2. CASE u = s
    <3>1. Exclusive(s, t)'
      BY <2>2, <1>3, <1>1
    <3> QED BY <3>1, <2>2 DEF Exclusive
  <2>3. CASE t # s /\ u # s
    <3>1. server'[t] = server[t] /\ server'[u] = server[u] /\ Exclusive(t, u)
      BY <2>3, <1>1, <1>3 DEF IInv, Sessions
    <3> QED BY <3>1 DEF Exclusive, At
  <2> QED BY <2>1, <2>2, <2>3
<1> QED BY <1>1, <1>2, <1>3 DEF Sessions

\* the rows of the ids, after a first delivery with n effects
LEMMA RowsAfterFirst ==
    ASSUME IInv, NEW s \in Servers, NEW n \in {0, 1}, NEW k \in Keys \ DOMAIN inbox,
           k = server[s].key, server[s].ok \in BOOLEAN, body' = body,
           DOMAIN inbox' = DOMAIN inbox \cup {k},
           acked' = acked \cup {k[1]},
           inbox'[k].processed = server[s].ok, \A j \in DOMAIN inbox \ {k} : inbox'[j] = inbox[j],
           landed'[k].commits = landed[k].commits + 1, landed'[k].effects = landed[k].effects + n,
           \A j \in Keys \ {k} : landed'[j] = landed[j] /\ audits'[j] = audits[j],
           audits'[k].applied = audits[k].applied + (IF server[s].ok THEN n ELSE 0),
           audits'[k].replays = audits[k].replays,
           server[s].ok => \/ n = 1
                           \/ body[k[1]].kind \notin SupportedEvents
                           \/ body[k[1]].names \cap {"notes", "payment"} = {}
    PROVE  /\ \A j \in Keys : RowOK(j)'
           /\ InboxTellsTruth' /\ DeliveriesAudited'
<1>1. landed[k].commits = 0 /\ landed[k].effects = 0 /\ audits[k].applied = 0 /\ audits[k].replays = 0
  BY DEF IInv, Tables, RowOK
<1>2. \A j \in Keys : RowOK(j)'
  BY <1>1 DEF IInv, Tables, RowOK
<1>3. DOMAIN inbox \subseteq Keys
  BY DEF IInv, TypeOK
<1>4. InboxTellsTruth'
  <2> SUFFICES ASSUME NEW j \in DOMAIN inbox'
               PROVE  /\ audits'[j].applied = IF inbox'[j].processed THEN landed'[j].effects ELSE 0
                      /\ (/\ inbox'[j].processed
                          /\ body[j[1]].kind \in SupportedEvents
                          /\ body[j[1]].names \cap {"notes", "payment"} # {})
                         => audits'[j].applied = 1
    BY DEF InboxTellsTruth
  <2>1. CASE j = k
    <3>2. audits'[j].applied = IF inbox'[j].processed THEN landed'[j].effects ELSE 0
      BY <1>1, <2>1
    <3>3. inbox'[j].processed /\ body[j[1]].kind \in SupportedEvents
          /\ body[j[1]].names \cap {"notes", "payment"} # {}  => audits'[j].applied = 1
      <4>1. audits'[k].applied = IF server[s].ok THEN n ELSE 0
        BY <1>1
      <4> QED BY <2>1, <4>1
    <3> QED BY <3>2, <3>3
  <2>2. CASE j # k
    <3>1. /\ j \in DOMAIN inbox /\ inbox'[j] = inbox[j] /\ audits'[j] = audits[j]
          /\ landed'[j] = landed[j]
      BY <1>3, <2>2
    <3>2. /\ audits[j].applied = IF inbox[j].processed THEN landed[j].effects ELSE 0
          /\ (/\ inbox[j].processed
              /\ body[j[1]].kind \in SupportedEvents
              /\ body[j[1]].names \cap {"notes", "payment"} # {})
             => audits[j].applied = 1
      <4>1. InboxTellsTruth
        BY DEF IInv, Tables
      <4> QED BY <3>1, <4>1 DEF InboxTellsTruth
    <3> QED BY <3>1, <3>2, Zenon
  <2> QED BY <2>1, <2>2
<1>5. DeliveriesAudited'
  BY <1>1, <1>3 DEF IInv, Tables, DeliveriesAudited, Keys
<1> QED BY <1>2, <1>4, <1>5

\* statuses and displays of events are statuses and displays
LEMMA KindsOfEvents ==
    ASSUME NEW kind
    PROVE  /\ StatusFor(kind) \in CaseStatuses /\ PaymentFor(kind) \in PaymentStatuses
           /\ DisplayFor(kind) \in Displays
           /\ Completes(StatusFor(kind)) <=> kind \in CaptureEvents \cup StopEvents
BY DEF StatusFor, PaymentFor, DisplayFor, Completes, CaseStatuses, PaymentStatuses, Displays

\* events that have taken effect, after a delivery of s with one effect
LEMMA EffectiveAfter ==
    ASSUME IInv, NEW s \in Servers, server[s].key \in Keys, server[s].key[1] = server[s].event,
           body' = body, landed'[server[s].key].effects = landed[server[s].key].effects + 1,
           \A j \in Keys \ {server[s].key} : landed'[j] = landed[j],
           NEW kind
    PROVE  Effective(kind)' <=> Effective(kind) \/ kind = KindOf(s)
<1>1. landed[server[s].key].effects \in Nat
  BY DEF IInv, TypeOK
<1>2. Effective(kind) \/ kind = KindOf(s) => Effective(kind)'
  BY <1>1 DEF Effective, KindOf
<1>3. Effective(kind)' => Effective(kind) \/ kind = KindOf(s)
  BY DEF Effective, KindOf
<1> QED BY <1>2, <1>3

\* what a session that has flushed writes of the case
LEMMA LedgerAfterApply ==
    ASSUME IInv, NEW s \in Servers, At(s, "flushed"), case' = NewCase(s), payment' = NewPayment(s),
           overlap' = overlap,
           \A kind : Effective(kind)' <=> Effective(kind) \/ kind = KindOf(s)
    PROVE  /\ case' \in CaseRow /\ payment' \in PaymentStatuses
           /\ CaseExplained' /\ LedgerAgrees'
<1> DEFINE kind == KindOf(s)
<1>1. /\ case \in CaseRow /\ payment \in PaymentStatuses /\ kind \in SupportedEvents
      /\ ReadInHand(s)
  BY InHand DEF IInv, TypeOK, SessionOK, Progress, At, Dispatching
<1>2. /\ case'.status = IF server[s].case = StatusFor(kind) THEN case.status ELSE StatusFor(kind)
      /\ case'.completed = (case.completed \/ Completes(StatusFor(kind)))
      /\ payment' = IF server[s].payment = PaymentFor(kind) THEN payment ELSE PaymentFor(kind)
  BY DEF NewCase, NewPayment, KindOf
<1>3. case' \in CaseRow /\ payment' \in PaymentStatuses
  BY <1>1, KindsOfEvents DEF NewCase, NewPayment, CaseRow
<1>4. CaseExplained'
  BY <1>1, <1>2, KindsOfEvents DEF IInv, Tables, CaseExplained
<1>5. LedgerAgrees'
  <2> SUFFICES ASSUME ~overlap PROVE case'.status = StatusFor(kind) /\ payment' = PaymentFor(kind)
    BY <1>1 DEF LedgerAgrees
  <2> QED BY <1>1, <1>2 DEF ReadInHand, At, Dispatching
<1> QED BY <1>3, <1>4, <1>5

\* writing the display of one action
LEMMA NewActionsType ==
    ASSUME TypeOK, NEW s \in Servers
    PROVE  NewActions(s) \in Seq(Displays) /\ Len(NewActions(s)) <= MaxActions
<1> DEFINE display == DisplayFor(body[server[s].event].kind)
<1>1. display \in Displays
  BY KindsOfEvents
<1>2. actions \in Seq(Displays) /\ Len(actions) <= MaxActions
  BY DEF TypeOK
<1> HIDE DEF display
<1>3. ASSUME NEW i PROVE /\ [actions EXCEPT ![i] = display] \in Seq(Displays)
                        /\ Len([actions EXCEPT ![i] = display]) = Len(actions)
  <2>1. CASE i \in 1 .. Len(actions)
    BY <1>1, <1>2, <2>1, ExceptSeq
  <2>2. CASE i \notin 1 .. Len(actions)
    <3>1. actions = [j \in DOMAIN actions |-> actions[j]] /\ i \notin DOMAIN actions
      BY <1>2, <2>2
    <3>2. [actions EXCEPT ![i] = display] = actions
      BY <3>1, Zenon
    <3> QED BY <1>2, <3>2
  <2> QED BY <2>1, <2>2
<1> QED BY <1>2, <1>3 DEF NewActions, display

\* The commit of a first delivery, with its effects, keeps the invariant.
LEMMA CommitAppliedStep ==
    ASSUME IInv, NEW s \in Servers, CommitApplied(s)
    PROVE  IInv'
<1> DEFINE k == server[s].key
<1>1. /\ At(s, "flushed") /\ inbox' = Put(inbox, k, FirstRow(s)) /\ case' = NewCase(s)
      /\ payment' = NewPayment(s) /\ actions' = IF server[s].ok THEN NewActions(s) ELSE actions
      /\ audits' = IF server[s].ok THEN Audited(k, 1, 0) ELSE audits
      /\ Answer(s, 1) /\ Close(s) /\ UNCHANGED <<body, sent, overlap, faults>>
  BY DEF CommitApplied
<1>2. /\ TypeOK /\ server[s] \in Session /\ server[s].ok \in BOOLEAN /\ SessionOK(s)
      /\ server[s].event \in Events
      /\ k \in Keys \ DOMAIN inbox /\ k[1] = server[s].event /\ server[s].pc \in Uncommitted
  BY <1>1, InHand DEF IInv, At, SessionOK, KeyInHand, Uncommitted, Dispatching, Session
<1>3. /\ acked' \subseteq Events /\ acked' = acked \cup {k[1]} /\ landed' \in [Keys -> [commits : Nat, effects : Nat]]
      /\ landed'[k].commits = landed[k].commits + 1 /\ landed'[k].effects = landed[k].effects + 1
      /\ \A j \in Keys \ {k} : landed'[j] = landed[j]
  BY <1>1, <1>2, AnswerFields
<1>4. /\ audits' \in [Keys -> [applied : Nat, replays : Nat]]
      /\ audits'[k].applied = audits[k].applied + (IF server[s].ok THEN 1 ELSE 0)
      /\ audits'[k].replays = audits[k].replays
      /\ \A j \in Keys \ {k} : audits'[j] = audits[j]
  <2>1. audits[k].applied \in Nat /\ audits[k].replays \in Nat
    BY <1>2 DEF TypeOK
  <2>2. CASE server[s].ok
    <3>1. audits' = Audited(k, 1, 0) /\ 0 \in {0, 1} /\ 1 \in {0, 1}
      BY <1>1, <2>2
    <3> HIDE DEF k
    <3>2. /\ audits' \in [Keys -> [applied : Nat, replays : Nat]]
          /\ audits'[k].applied = audits[k].applied + 1
          /\ audits'[k].replays = audits[k].replays + 0
          /\ \A j \in Keys \ {k} : audits'[j] = audits[j]
      BY <1>2, <3>1, AuditedFields
    <3> QED BY <2>1, <2>2, <3>2
  <2>3. CASE ~server[s].ok
    BY <1>1, <1>2, <2>1, <2>3 DEF TypeOK
  <2> QED BY <2>2, <2>3
<1>5. /\ DOMAIN inbox' = DOMAIN inbox \cup {k} /\ inbox' \in [DOMAIN inbox' -> InboxRow]
      /\ inbox'[k].processed = server[s].ok
      /\ \A j \in DOMAIN inbox \ {k} : inbox'[j] = inbox[j]
  BY <1>1, <1>2, FirstRowFields
<1>6. /\ case' \in CaseRow /\ payment' \in PaymentStatuses /\ CaseExplained' /\ LedgerAgrees'
  <2>1. \A kind : Effective(kind)' <=> Effective(kind) \/ kind = KindOf(s)
    BY <1>1, <1>2, <1>3, EffectiveAfter
  <2> QED BY <1>1, <2>1, LedgerAfterApply
<1>7. (\A j \in Keys : RowOK(j)') /\ InboxTellsTruth' /\ DeliveriesAudited'
  <2>1. \A j \in Keys \ {k} : landed'[j] = landed[j] /\ audits'[j] = audits[j]
    BY <1>3, <1>4
  <2>2. body' = body /\ 1 \in {0, 1}
    BY <1>1
  <2> HIDE DEF k
  <2> QED BY <1>2, <1>3, <1>4, <1>5, <2>1, <2>2, RowsAfterFirst DEF k
<1>8. Sessions'
  BY <1>1, <1>2, <1>5, OthersAfterCommit DEF At
<1>9. actions' \in Seq(Displays) /\ Len(actions') <= MaxActions
  BY <1>1, <1>2, NewActionsType DEF TypeOK
<1>10. TypeOK'
  <2>1. /\ server' \in [Servers -> Session]
        /\ \A t \in Servers : At(t, "idle")' <=> server'[t].key = NoKey
    BY <1>1, <1>2, ClosedIsIdle
  <2>2. DOMAIN inbox' \subseteq Keys
    BY <1>2, <1>5 DEF TypeOK
  <2> QED BY <1>1, <1>2, <1>3, <1>4, <1>5, <1>6, <1>9, <2>1, <2>2 DEF TypeOK
<1> QED BY <1>6, <1>7, <1>8, <1>10 DEF IInv, Tables

\* The commit of a first delivery without effects keeps the invariant.
LEMMA CommitIgnoredStep ==
    ASSUME IInv, NEW s \in Servers, CommitIgnored(s)
    PROVE  IInv'
<1> DEFINE k == server[s].key
<1>1. /\ At(s, "closing") /\ inbox' = Put(inbox, k, FirstRow(s))
      /\ Answer(s, 0) /\ Close(s)
      /\ UNCHANGED <<body, case, payment, actions, audits, sent, overlap, faults>>
  BY DEF CommitIgnored
<1>2. /\ TypeOK /\ server[s] \in Session /\ server[s].ok \in BOOLEAN /\ SessionOK(s)
      /\ server[s].event \in Events
      /\ k \in Keys \ DOMAIN inbox /\ k[1] = server[s].event /\ server[s].pc \in Uncommitted
  BY <1>1, InHand DEF IInv, At, SessionOK, KeyInHand, Uncommitted, Dispatching, Session
<1>3. /\ acked' \subseteq Events /\ acked' = acked \cup {k[1]} /\ landed' \in [Keys -> [commits : Nat, effects : Nat]]
      /\ landed'[k].commits = landed[k].commits + 1 /\ landed'[k].effects = landed[k].effects + 0
      /\ \A j \in Keys \ {k} : landed'[j] = landed[j]
  BY <1>1, <1>2, AnswerFields
<1>4. /\ DOMAIN inbox' = DOMAIN inbox \cup {k} /\ inbox' \in [DOMAIN inbox' -> InboxRow]
      /\ inbox'[k].processed = server[s].ok
      /\ \A j \in DOMAIN inbox \ {k} : inbox'[j] = inbox[j]
  BY <1>1, <1>2, FirstRowFields
<1>5. CaseExplained' /\ LedgerAgrees'
  <2>1. \A j \in Keys : landed'[j].effects = landed[j].effects
    <3>1. \A j \in Keys : landed[j].effects \in Nat
      BY <1>2 DEF TypeOK
    <3> QED BY <1>2, <1>3, <3>1
  <2> QED BY <1>1, <2>1 DEF IInv, Tables, CaseExplained, LedgerAgrees, Effective
<1>6. (\A j \in Keys : RowOK(j)') /\ InboxTellsTruth' /\ DeliveriesAudited'
  <2>1. server[s].ok => \/ body[k[1]].kind \notin SupportedEvents
                        \/ body[k[1]].names \cap {"notes", "payment"} = {}
    BY <1>1, <1>2 DEF SessionOK, Progress, At, KindOf, NamesOf
  <2>2. audits'[k].applied = audits[k].applied + (IF server[s].ok THEN 0 ELSE 0)
    BY <1>1, <1>2 DEF TypeOK
  <2>3. \A j \in Keys \ {k} : landed'[j] = landed[j] /\ audits'[j] = audits[j]
    BY <1>1, <1>3
  <2>4. audits'[k].replays = audits[k].replays /\ body' = body
    BY <1>1
  <2> HIDE DEF k
  <2> QED BY <1>2, <1>3, <1>4, <2>1, <2>2, <2>3, <2>4, RowsAfterFirst DEF k
<1>7. Sessions'
  BY <1>1, <1>2, <1>4, OthersAfterCommit DEF At
<1>8. TypeOK'
  <2>1. /\ server' \in [Servers -> Session]
        /\ \A t \in Servers : At(t, "idle")' <=> server'[t].key = NoKey
    BY <1>1, <1>2, ClosedIsIdle
  <2>2. DOMAIN inbox' \subseteq Keys
    BY <1>2, <1>4 DEF TypeOK
  <2> QED BY <1>1, <1>2, <1>3, <1>4, <2>1, <2>2 DEF TypeOK
<1> QED BY <1>5, <1>6, <1>7, <1>8 DEF IInv, Tables

\* what a redelivery writes
LEMMA ReplayedFields ==
    ASSUME TypeOK, NEW s \in Servers, inbox' = Replayed(s)
    PROVE  inbox' = inbox
<1> DEFINE k == server[s].key
<1>1. inbox' = [inbox EXCEPT ![k].ingest = inbox[k].ingest]
  BY MarkedStaysStored DEF Replayed
<1>2. inbox \in [DOMAIN inbox -> InboxRow]
  BY DEF TypeOK
<1>3. ASSUME k \in DOMAIN inbox PROVE [inbox[k] EXCEPT !.ingest = inbox[k].ingest] = inbox[k]
  BY <1>2, <1>3 DEF InboxRow
<1> QED BY <1>1, <1>2, <1>3

\* The commit of a duplicate, with its replay counter, keeps the invariant.
LEMMA CommitReplayStep ==
    ASSUME IInv, NEW s \in Servers, CommitReplay(s)
    PROVE  IInv' /\ \A j \in Keys : landed'[j].effects = landed[j].effects
<1> DEFINE k == server[s].key
           n == IF Resolves(server[s].event) THEN 1 ELSE 0
<1>1. /\ At(s, "replaying") /\ inbox' = Replayed(s)
      /\ audits' = IF Resolves(server[s].event) THEN Audited(k, 0, 1) ELSE audits
      /\ Answer(s, 0) /\ Close(s)
      /\ UNCHANGED <<body, case, payment, actions, sent, overlap, faults>>
  BY DEF CommitReplay, ReplayAudits
<1>2. /\ TypeOK /\ server[s] \in Session
      /\ server[s].event \in Events /\ ~At(s, "idle")
      /\ k \in Keys /\ k \in DOMAIN inbox /\ k[1] = server[s].event
  BY <1>1, InHand DEF IInv, At, SessionOK, KeyInHand, Session
<1>3. /\ acked' \subseteq Events /\ acked' = acked \cup {k[1]} /\ landed' \in [Keys -> [commits : Nat, effects : Nat]]
      /\ landed'[k].commits = landed[k].commits + 1 /\ landed'[k].effects = landed[k].effects + 0
      /\ \A j \in Keys \ {k} : landed'[j] = landed[j]
  BY <1>1, <1>2, AnswerFields
<1>4. /\ audits' \in [Keys -> [applied : Nat, replays : Nat]]
      /\ audits'[k].applied = audits[k].applied /\ audits'[k].replays = audits[k].replays + n
      /\ \A j \in Keys \ {k} : audits'[j] = audits[j]
  <2>1. audits[k].applied \in Nat /\ audits[k].replays \in Nat
    BY <1>2 DEF TypeOK
  <2>2. CASE Resolves(server[s].event)
    <3>1. audits' = Audited(k, 0, 1) /\ 0 \in {0, 1} /\ 1 \in {0, 1}
      BY <1>1, <2>2
    <3> HIDE DEF k
    <3>2. /\ audits' \in [Keys -> [applied : Nat, replays : Nat]]
          /\ audits'[k].applied = audits[k].applied + 0
          /\ audits'[k].replays = audits[k].replays + 1
          /\ \A j \in Keys \ {k} : audits'[j] = audits[j]
      BY <1>2, <3>1, AuditedFields
    <3> QED BY <2>1, <2>2, <3>2
  <2>3. CASE ~Resolves(server[s].event)
    BY <1>1, <1>2, <2>1, <2>3 DEF TypeOK
  <2> QED BY <2>2, <2>3
<1>5. inbox' = inbox
  BY <1>1, <1>2, ReplayedFields
<1>6. \A j \in Keys : landed'[j].effects = landed[j].effects
  <2>1. \A j \in Keys : landed[j].effects \in Nat
    BY <1>2 DEF TypeOK
  <2> QED BY <1>2, <1>3, <2>1
<1>7. CaseExplained' /\ LedgerAgrees'
  BY <1>1, <1>6 DEF IInv, Tables, CaseExplained, LedgerAgrees, Effective
<1>8. DOMAIN inbox \subseteq Keys /\ \A j \in Keys : landed[j].commits \in Nat
  BY <1>2 DEF TypeOK
<1>9. \A j \in Keys : RowOK(j)'
  BY <1>2, <1>3, <1>4, <1>5, <1>6, <1>8 DEF IInv, Tables, RowOK
<1>10. InboxTellsTruth'
  <2>1. \A j \in DOMAIN inbox : audits'[j].applied = audits[j].applied
    BY <1>4, <1>8
  <2> QED BY <1>1, <1>5, <1>6, <1>8, <2>1 DEF IInv, Tables, InboxTellsTruth
<1>11. DeliveriesAudited'
  <2>1. audits[k].replays \in Nat /\ audits[k].replays < landed[k].commits /\ landed[k].commits \in Nat
    BY <1>2 DEF IInv, Tables, DeliveriesAudited, TypeOK
  <2>2. ASSUME NEW j \in DOMAIN inbox
        PROVE  /\ audits'[j].replays < landed'[j].commits
               /\ body[j[1]].names \cap {"notes", "payment"} # {}
                     => audits'[j].replays + 1 = landed'[j].commits
    <3>1. CASE j = k
      <4>1. body[k[1]].names \cap {"notes", "payment"} # {} => n = 1
        BY <1>2 DEF Resolves
      <4>2. body[k[1]].names \cap {"notes", "payment"} # {}
               => audits[k].replays + 1 = landed[k].commits
        BY <1>2 DEF IInv, Tables, DeliveriesAudited
      <4>3. /\ landed'[k].commits = landed[k].commits + 1
            /\ audits'[k].replays = audits[k].replays + n /\ n \in {0, 1}
        BY <1>3, <1>4
      <4> HIDE DEF k, n
      <4> QED BY <2>1, <3>1, <4>1, <4>2, <4>3
    <3>2. CASE j # k
      BY <1>3, <1>4, <1>8, <2>2, <3>2 DEF IInv, Tables, DeliveriesAudited
    <3> QED BY <3>1, <3>2
  <2>3. \A e \in acked' : \E j \in DOMAIN inbox : j[1] = e
    BY <1>2, <1>3 DEF IInv, Tables, DeliveriesAudited
  <2> QED BY <1>1, <1>5, <2>2, <2>3 DEF DeliveriesAudited
<1>12. Sessions'
  <2>1. DOMAIN inbox' = DOMAIN inbox \cup {k}
    BY <1>2, <1>5
  <2> QED BY <1>1, <1>2, <2>1, OthersAfterCommit
<1>13. TypeOK'
  <2>1. /\ server' \in [Servers -> Session]
        /\ \A t \in Servers : At(t, "idle")' <=> server'[t].key = NoKey
    BY <1>1, <1>2, ClosedIsIdle
  <2> QED BY <1>1, <1>2, <1>3, <1>4, <1>5, <2>1 DEF TypeOK
<1> QED BY <1>6, <1>7, <1>9, <1>10, <1>11, <1>12, <1>13 DEF IInv, Tables

\* a first delivery lands, with an effect or without
LEMMA LandingStep ==
    ASSUME IInv, NEW s \in Servers, CommitApplied(s) \/ CommitIgnored(s)
    PROVE  Inbox!Land(server[s].key)
<1> DEFINE k == server[s].key
<1>1. /\ TypeOK /\ k \in Keys /\ k \notin DOMAIN inbox /\ server[s].event \in Events
      /\ server[s] \in Session
  BY InHand DEF IInv, CommitApplied, CommitIgnored, At, SessionOK, KeyInHand, Uncommitted, Dispatching
<1>2. DOMAIN inbox' = DOMAIN inbox \cup {k}
  BY <1>1, FirstRowFields DEF CommitApplied, CommitIgnored
<1>3. landed[k].effects = 0 /\ \A j \in Keys : landed[j].effects \in Nat
  BY <1>1 DEF IInv, Tables, RowOK, TypeOK
<1>4. CASE CommitApplied(s)
  <2>1. landed'[k].effects = landed[k].effects + 1 /\ \A j \in Keys \ {k} : landed'[j] = landed[j]
    BY <1>1, <1>4, AnswerFields DEF CommitApplied
  <2>2. \A j \in Keys : landed'[j].effects = IF j = k THEN 1 ELSE landed[j].effects
    BY <1>3, <2>1
  <2>3. [j \in Keys |-> landed'[j].effects] = [[j \in Keys |-> landed[j].effects] EXCEPT ![k] = 1]
    BY <1>1, <2>2
  <2> QED BY <1>1, <1>2, <2>3 DEF Inbox!Land
<1>5. CASE CommitIgnored(s)
  <2>1. landed'[k].effects = landed[k].effects + 0 /\ \A j \in Keys \ {k} : landed'[j] = landed[j]
    BY <1>1, <1>5, AnswerFields DEF CommitIgnored
  <2>2. [j \in Keys |-> landed'[j].effects] = [j \in Keys |-> landed[j].effects]
    BY <1>1, <1>3, <2>1
  <2> QED BY <1>1, <1>2, <2>2 DEF Inbox!Land
<1> QED BY <1>4, <1>5

-----------------------------------------------------------------------------
(* Every step *)

InboxStep == Inbox!Next \/ UNCHANGED <<DOMAIN inbox, [k \in Keys |-> landed[k].effects]>>

\* Every step keeps the invariant.
LEMMA NextStep ==
    ASSUME IInv, [Next]_vars
    PROVE  IInv' /\ InboxStep
<1>1. ASSUME NEW e \in Events, NEW s \in Servers, Deliver(e, s) PROVE IInv' /\ InboxStep
  BY <1>1, DeliverStep DEF InboxStep, Deliver
<1>2. ASSUME NEW s \in Servers, Insert(s) PROVE IInv' /\ InboxStep
  BY <1>2, InsertStep DEF InboxStep, Insert
<1>3. ASSUME NEW s \in Servers, Match(s) PROVE IInv' /\ InboxStep
  BY <1>3, MatchStep DEF InboxStep, Match
<1>4. ASSUME NEW s \in Servers, ReadPayment(s) PROVE IInv' /\ InboxStep
  BY <1>4, ReadPaymentStep DEF InboxStep, ReadPayment
<1>5. ASSUME NEW s \in Servers, Flush(s) PROVE IInv' /\ InboxStep
  BY <1>5, FlushStep DEF InboxStep, Flush
<1>6. ASSUME NEW s \in Servers, CommitApplied(s) \/ CommitIgnored(s) PROVE IInv' /\ InboxStep
  <2>1. Inbox!Land(server[s].key) /\ server[s].key \in Keys
    BY <1>6, LandingStep, InHand DEF CommitApplied, CommitIgnored, At
  <2>2. InboxStep
    <3>1. Inbox!Next
      BY <2>1 DEF Inbox!Next, Inbox!Land
    <3> QED BY <3>1 DEF InboxStep
  <2>3. IInv'
    BY <1>6, CommitAppliedStep, CommitIgnoredStep
  <2> QED BY <2>2, <2>3
<1>7. ASSUME NEW s \in Servers, CommitReplay(s) PROVE IInv' /\ InboxStep
  <2>1. IInv' /\ \A j \in Keys : landed'[j].effects = landed[j].effects
    BY <1>7, CommitReplayStep
  <2>2. DOMAIN inbox' = DOMAIN inbox
    BY <1>7, ReplayedFields DEF CommitReplay, IInv
  <2> QED BY <2>1, <2>2 DEF InboxStep
<1>8. ASSUME NEW s \in Servers, DispatchFails(s) PROVE IInv' /\ InboxStep
  BY <1>8, DispatchFailsStep DEF InboxStep, DispatchFails
<1>9. ASSUME NEW s \in Servers, Abort(s) PROVE IInv' /\ InboxStep
  BY <1>9, AbortStep DEF InboxStep, Abort
<1>10. CASE ActionCreated
  BY <1>10, ActionCreatedStep DEF InboxStep, ActionCreated
<1>11. CASE Quiet \/ UNCHANGED vars
  <2>1. UNCHANGED vars
    BY <1>11 DEF Quiet
  <2>2. TypeOK' /\ Tables' /\ InboxStep
    BY <2>1, TablesKept DEF IInv, TypeOK, At, vars, InboxStep
  <2>3. Sessions'
    BY <2>1 DEF IInv, Sessions, SessionOK, KeyInHand, Progress, ReadInHand, Exclusive,
                At, KindOf, NamesOf, vars
  <2> QED BY <2>2, <2>3 DEF IInv
<1> QED
  BY <1>1, <1>2, <1>3, <1>4, <1>5, <1>6, <1>7, <1>8, <1>9, <1>10, <1>11 DEF Next, Step

-----------------------------------------------------------------------------
(* Theorems *)

\* Rows, sessions and what sessions have read fit together in every reachable state.
THEOREM WebhookInvariance == Spec => []IInv
<1>1. IInv /\ [Next]_vars => IInv'
  BY NextStep
<1> QED BY InitIInv, <1>1, PTL DEF Spec

\* Inbox rows are keyed by provider event id, and a session points at a delivery in hand.
THEOREM WebhookTypes == Spec => []TypeOK
<1>1. IInv => TypeOK
  BY DEF IInv
<1> QED BY WebhookInvariance, <1>1, PTL

\* processed_at of a row tells whether its event was applied and audited, for any
\* overlap of deliveries, lost transactions and failed dispatches.
THEOREM InboxIsTrue == Spec => []InboxTellsTruth
<1>1. IInv => InboxTellsTruth
  BY DEF IInv, Tables
<1> QED BY WebhookInvariance, <1>1, PTL

\* What was answered with 200 is in the inbox, and each delivery that has landed,
\* but for one, is audited as a replay.
THEOREM DeliveriesAreAudited == Spec => []DeliveriesAudited
<1>1. IInv => DeliveriesAudited
  BY DEF IInv, Tables
<1> QED BY WebhookInvariance, <1>1, PTL

\* Case and payment show what some event that took effect says.
THEOREM CaseIsExplained == Spec => []CaseExplained
<1>1. IInv => CaseExplained
  BY DEF IInv, Tables
<1> QED BY WebhookInvariance, <1>1, PTL

\* Case and payment tell one story, as long as no two sessions have overlapped.
THEOREM LedgersAgree == Spec => []LedgerAgrees
<1>1. IInv => LedgerAgrees
  BY DEF IInv, Tables
<1> QED BY WebhookInvariance, <1>1, PTL

\* The inbox with its sessions and transactions implements the
\* one that takes each event once (OnceInbox).
THEOREM InboxRefines == Spec => InboxOnce
<1>1. Init => Inbox!Init
  BY DEF Init, Inbox!Init
<1>2. IInv /\ [Next]_vars => [Inbox!Next]_<<DOMAIN inbox, [k \in Keys |-> landed[k].effects]>>
  BY NextStep DEF InboxStep
<1> QED BY <1>1, <1>2, WebhookInvariance, PTL DEF Spec, InboxOnce, Inbox!Spec
=============================================================================
