-------------------------- MODULE RazorpayWebhooks --------------------------
(***************************************************************************)
(* Inbound payment-provider webhooks: the inbox, the case an event names,  *)
(* and what the event does to the case, the payment and the newest action. *)
(*                                                                         *)
(* A back-end process handles one delivery at a time (the endpoint is a    *)
(* coroutine that does not yield), in one READ COMMITTED transaction.      *)
(* Processes share the database: what one has not committed the others do  *)
(* not see, a unique key or a row it has written blocks them, and an ORM   *)
(* flush writes only the columns that differ from what was loaded.         *)
(* The provider repeats a delivery that was not answered with success, and *)
(* may repeat any other.                                                   *)
(***************************************************************************)
EXTENDS Naturals, FiniteSets, Sequences

CONSTANTS
    Events,             \* provider events about one recovery case
    Bodies,             \* the bodies the environment may choose for them
    FirstStatuses,      \* where the case may stand when the first one comes
    Servers,            \* back-end processes
    MaxDeliveries,      \* bound: deliveries of one event
    MaxActions,         \* bound: actions of the case
    MaxFaults           \* bound: failed dispatches and lost transactions

VARIABLES
    body,               \* body[e]: what event e says
    inbox,              \* webhook_events
    case,               \* recovery_cases: status, and is it completed?
    payment,            \* payments.payment_status
    actions,            \* display of the recovery_actions of the case, oldest first
    audits,             \* audit_logs: applications and replays per id
    server,             \* the session of each process
    sent,               \* deliveries of each event so far
    acked,              \* events answered with 200
    landed,             \* observed: transactions committed per id, and those with
                        \* an effect on case, payment or action
    overlap,            \* observed: have two sessions dispatched at a time?
    faults

vars == <<body, inbox, case, payment, actions, audits, server, sent, acked,
          landed, overlap, faults>>

-----------------------------------------------------------------------------
CaptureEvents == {"payment.captured", "payment_link.paid", "subscription.charged"}
StopEvents == {"subscription.cancelled", "subscription.paused"}
SupportedEvents ==
    CaptureEvents \cup StopEvents \cup {"payment.failed", "payment.authorized"}

\* notes.recovery_case_id, a payment or order id of the ledger, or the id of a
\* resource that an action of the case has created
Identifiers == {"notes", "payment", "resource"}

Body == [kind : SupportedEvents \cup {"other"}, names : SUBSET Identifiers, keyed : BOOLEAN]

\* the provider's id, or evt-missing-{request_id}: one per delivery
Keys == Events \X (0 .. MaxDeliveries)

KeyOf(e, delivery) == IF body[e].keyed THEN <<e, 0>> ELSE <<e, delivery>>

ASSUME WebhookBounds ==
    /\ IsFiniteSet(Events) /\ Events # {} /\ IsFiniteSet(Servers)
    /\ Bodies \subseteq Body
    /\ FirstStatuses \subseteq {"OPEN", "DIAGNOSED", "WAITING_RETRY", "WAITING_PROMISE"}
    /\ MaxDeliveries \in Nat /\ MaxActions \in Nat /\ MaxFaults \in Nat

CaseStatuses ==
    {"OPEN", "DIAGNOSED", "WAITING_RETRY", "WAITING_PROMISE", "RECOVERED",
     "STOPPED", "ESCALATED", "CLOSED"}

PaymentStatuses ==
    {"PENDING", "AUTHORIZED", "CAPTURED", "FAILED", "REFUNDED", "CANCELLED",
     "AT_RISK", "RECOVERED"}

StatusFor(kind) ==
    IF kind \in CaptureEvents THEN "RECOVERED"
    ELSE IF kind \in StopEvents THEN "STOPPED" ELSE "WAITING_RETRY"

Completes(status) == status \in {"RECOVERED", "STOPPED", "CLOSED"}

PaymentFor(kind) ==
    IF kind \in CaptureEvents THEN "RECOVERED"
    ELSE IF kind \in StopEvents THEN "CANCELLED"
    ELSE IF kind = "payment.failed" THEN "FAILED" ELSE "AUTHORIZED"

DisplayFor(kind) ==
    IF kind \in CaptureEvents THEN "SUCCESS"
    ELSE IF kind \in StopEvents THEN "CANCELLED"
    ELSE IF kind = "payment.failed" THEN "FAILED" ELSE "SENT"

\* payload._rp_ingest: local metadata stored beside the provider's JSON
Ingest == [failed : BOOLEAN, replays : Nat]

FirstIngest == [failed |-> FALSE, replays |-> 0]

\* processed: is processed_at set?
InboxRow == [processed : BOOLEAN, ingest : Ingest]

\* recovery_status, and whether recovery_completed_at is set
CaseRow == [status : CaseStatuses, completed : BOOLEAN]

Displays == {"SCHEDULED", "SENT", "SUCCESS", "FAILED", "CANCELLED"}

NoKey == <<>>

\* what a session has read: the newest action, the case and the payment as they
\* were then; and whether its dispatch has not failed
Session == [pc : {"idle", "inserting", "replaying", "matched", "read", "flushed",
                  "updating", "closing"},
            event : Events, key : Keys \cup {NoKey},
            newest : Nat, case : CaseStatuses, payment : PaymentStatuses, ok : BOOLEAN]

NoSession == [pc |-> "idle", event |-> CHOOSE e \in Events : TRUE, key |-> NoKey,
              newest |-> 0, case |-> "OPEN", payment |-> "FAILED", ok |-> TRUE]

-----------------------------------------------------------------------------
(* Reading                                                                 *)

\* resolve_recovery_case_id
Resolves(e) ==
    \/ body[e].names \cap {"notes", "payment"} # {}
    \/ "resource" \in body[e].names /\ actions # <<>>

Holding(pcs) == {s \in Servers : server[s].pc \in pcs}

\* sessions with an uncommitted row of key k
Inserted(k) ==
    {s \in Holding({"matched", "read", "updating", "flushed", "closing"}) :
        server[s].key = k}

At(s, pc) == server[s].pc = pc

Goto(s, pc) == server' = [server EXCEPT ![s].pc = pc]

-----------------------------------------------------------------------------
(* The provider and the orchestrator: the environment                      *)

\* a delivery reaches an idle process: signature, session, inbox.get
Deliver(e, s) ==
    /\ At(s, "idle") /\ sent[e] < MaxDeliveries
    /\ sent' = [sent EXCEPT ![e] = @ + 1]
    /\ LET k == KeyOf(e, sent'[e])
       IN  server' = [server EXCEPT
              ![s] = [@ EXCEPT !.pc = IF k \in DOMAIN inbox THEN "replaying" ELSE "inserting",
                               !.event = e, !.key = k, !.ok = TRUE]]
    /\ UNCHANGED <<body, inbox, case, payment, actions, audits, acked, landed, overlap, faults>>

\* the action orchestrator commits a new action of the case
ActionCreated ==
    /\ Len(actions) < MaxActions
    /\ \E display \in {"SCHEDULED", "SUCCESS"} : actions' = Append(actions, display)
    /\ UNCHANGED <<body, inbox, case, payment, audits, server, sent, acked, landed, overlap, faults>>

-----------------------------------------------------------------------------
(* RazorpayWebhookService.ingest                                            *)

\* (mutant of Insert: no unique index on razorpay_event_id)
InsertUnchecked(s) ==
    /\ At(s, "inserting")
    /\ Goto(s, IF body[server[s].event].kind \in SupportedEvents THEN "matched" ELSE "closing")
    /\ UNCHANGED <<body, inbox, case, payment, actions, audits, sent, acked,
                   landed, overlap, faults>>

\* SqlAlchemyWebhookInbox.insert: it waits for a session that has inserted the
\* same id, and finds the row if that one commits.  A body that is not supported
\* is done with; one without a case, too.
Insert(s) ==
    LET k == server[s].key
    IN  /\ At(s, "inserting")
        /\ Inserted(k) = {}
        /\ Goto(s, IF k \in DOMAIN inbox THEN "replaying"
                   ELSE IF body[server[s].event].kind \in SupportedEvents
                   THEN "matched" ELSE "closing")
        /\ UNCHANGED <<body, inbox, case, payment, actions, audits, sent, acked,
                       landed, overlap, faults>>

\* the case is found; the newest action and the case's status are read
Match(s) ==
    /\ At(s, "matched")
    /\ server' = [server EXCEPT
          ![s] = [@ EXCEPT !.pc = IF Resolves(server[s].event) THEN "read" ELSE "closing",
                           !.newest = Len(actions), !.case = case.status]]
    /\ overlap' = (overlap \/ Holding({"read", "flushed", "updating"}) # {})
    /\ UNCHANGED <<body, inbox, case, payment, actions, audits, sent, acked, landed, faults>>

\* case.payment is loaded later, by a query of its own
ReadPayment(s) ==
    /\ At(s, "read")
    /\ server' = [server EXCEPT ![s].pc = "updating", ![s].payment = payment]
    /\ UNCHANGED <<body, inbox, case, payment, actions, audits, sent, acked, landed, overlap, faults>>

\* apply_recovery_status flushes: it waits for a session that has written the
\* case or the payment
Flush(s) ==
    /\ At(s, "updating") /\ Holding({"flushed"}) = {}
    /\ Goto(s, "flushed")
    /\ UNCHANGED <<body, inbox, case, payment, actions, audits, sent, acked, landed, overlap, faults>>

\* an exception of the dispatch that is not the database's: mark_failed
DispatchFails(s) ==
    /\ server[s].pc \in {"read", "updating", "flushed"} /\ server[s].ok
    /\ faults < MaxFaults
    /\ faults' = faults + 1
    /\ server' = [server EXCEPT ![s].ok = FALSE,
                                ![s].pc = IF @ = "flushed" THEN "flushed" ELSE "closing"]
    /\ UNCHANGED <<body, inbox, case, payment, actions, audits, sent, acked, landed, overlap>>

\* (mutants: a stop does not complete the case; a failure keeps the capture)
NewCaseOnlyRecovered(s) ==
    LET status == StatusFor(body[server[s].event].kind)
    IN  [status |-> IF server[s].case = status THEN case.status ELSE status,
         completed |-> case.completed \/ status = "RECOVERED"]

NewPaymentKeepingCapture(s) ==
    LET status == PaymentFor(body[server[s].event].kind)
    IN  IF server[s].payment = status \/ payment = "RECOVERED" THEN payment ELSE status

\* the columns of a flushed session that differ from what it read
NewCase(s) ==
    LET status == StatusFor(body[server[s].event].kind)
    IN  [status |-> IF server[s].case = status THEN case.status ELSE status,
         completed |-> case.completed \/ Completes(status)]

NewPayment(s) ==
    LET status == PaymentFor(body[server[s].event].kind)
    IN  IF server[s].payment = status THEN payment ELSE status

\* apply_provider_webhook on the newest action that was read.  `complete' goes to
\* the in-memory store of the process (build_webhook_service), which holds no job:
\* the row of scheduler_jobs stays as it is.
NewActions(s) ==
    IF server[s].newest = 0 THEN actions
    ELSE [actions EXCEPT ![server[s].newest] = DisplayFor(body[server[s].event].kind)]

Audited(k, applied, replays) ==
    [audits EXCEPT ![k] = [applied |-> @.applied + applied, replays |-> @.replays + replays]]

Put(f, k, v) == [x \in DOMAIN f \cup {k} |-> IF x = k THEN v ELSE f[x]]

\* the flush writes a JSONB column only if the value assigned to it differs from
\* the one that was loaded; the column does not track changes inside its value
FlushedIngest(stored, loaded, assigned) == IF assigned = loaded THEN stored ELSE assigned

\* _ingest_of hands out the dictionary of the loaded payload, the caller changes
\* it, and _with_ingest copies the payload around that same dictionary: what was
\* loaded has changed with what is assigned
Marked(stored, changed) == FlushedIngest(stored, changed, changed)

\* (mutant of FirstRow: a failed dispatch counts as processed)
FirstRowProcessed(s) == [processed |-> TRUE, ingest |-> FirstIngest]

\* insert, and then mark_processed or mark_failed
FirstRow(s) ==
    [processed |-> server[s].ok,
     ingest |-> Marked(FirstIngest, [FirstIngest EXCEPT !.failed = ~server[s].ok])]

\* (mutant of Close: the session keeps its event)
CloseKeepingKey(s) == Goto(s, "idle")

\* db.close()
Close(s) == server' = [server EXCEPT ![s] = NoSession]

\* 200, also when the dispatch has failed
Answer(s, effects) ==
    /\ acked' = acked \cup {server[s].event}
    /\ landed' = [landed EXCEPT ![server[s].key] =
                    [commits |-> @.commits + 1, effects |-> @.effects + effects]]

\* a first delivery commits: with its effects, or after a failure with those that
\* were flushed before it
CommitApplied(s) ==
    /\ At(s, "flushed")
    /\ inbox' = Put(inbox, server[s].key, FirstRow(s))
    /\ case' = NewCase(s)
    /\ payment' = NewPayment(s)
    /\ actions' = IF server[s].ok THEN NewActions(s) ELSE actions
    /\ audits' = IF server[s].ok THEN Audited(server[s].key, 1, 0) ELSE audits
    /\ Answer(s, 1) /\ Close(s)
    /\ UNCHANGED <<body, sent, overlap, faults>>

CommitIgnored(s) ==
    /\ At(s, "closing")
    /\ inbox' = Put(inbox, server[s].key, FirstRow(s))
    /\ Answer(s, 0) /\ Close(s)
    /\ UNCHANGED <<body, case, payment, actions, audits, sent, overlap, faults>>

-----------------------------------------------------------------------------
(* RazorpayWebhookService._replay                                           *)

\* mark_replay: replay_count and last_replay_at of the envelope
Replayed(s) ==
    LET k == server[s].key
        stored == inbox[k].ingest
    IN  [inbox EXCEPT ![k].ingest = Marked(stored, [stored EXCEPT !.replays = @ + 1])]

\* (mutant of ReplayAudits: the redelivery of a failed event is not audited)
ReplayAuditsOfProcessed(s) ==
    IF inbox[server[s].key].processed THEN Audited(server[s].key, 0, 1) ELSE audits

\* apply_provider_webhook(replay=True) only appends an audit event, whatever the
\* kind of the event
ReplayAudits(s) ==
    IF Resolves(server[s].event) THEN Audited(server[s].key, 0, 1) ELSE audits

CommitReplay(s) ==
    /\ At(s, "replaying")
    /\ inbox' = Replayed(s)
    /\ audits' = ReplayAudits(s)
    /\ Answer(s, 0) /\ Close(s)
    /\ UNCHANGED <<body, case, payment, actions, sent, overlap, faults>>

\* (mutant of Abort: 200 although the transaction is lost)
AbortAnswered(s) ==
    /\ ~At(s, "idle") /\ faults < MaxFaults
    /\ faults' = faults + 1
    /\ acked' = acked \cup {server[s].event}
    /\ Close(s)
    /\ UNCHANGED <<body, inbox, case, payment, actions, audits, sent, landed, overlap>>

\* a database error or a crash: everything rolls back and the provider sees no 200
Abort(s) ==
    /\ ~At(s, "idle") /\ faults < MaxFaults
    /\ faults' = faults + 1
    /\ Close(s)
    /\ UNCHANGED <<body, inbox, case, payment, actions, audits, sent, acked, landed, overlap>>

-----------------------------------------------------------------------------
Init ==
    /\ body \in [Events -> Bodies]
    /\ inbox = [k \in {} |-> [processed |-> FALSE, ingest |-> FirstIngest]]
    /\ case \in [status : FirstStatuses, completed : {FALSE}]
    /\ payment = "FAILED"
    /\ actions = <<>>
    /\ audits = [k \in Keys |-> [applied |-> 0, replays |-> 0]]
    /\ server = [s \in Servers |-> NoSession]
    /\ sent = [e \in Events |-> 0]
    /\ acked = {}
    /\ landed = [k \in Keys |-> [commits |-> 0, effects |-> 0]]
    /\ overlap = FALSE
    /\ faults = 0

Step(s) ==
    \/ Insert(s) \/ Match(s) \/ ReadPayment(s) \/ Flush(s) \/ CommitApplied(s)
    \/ CommitIgnored(s) \/ CommitReplay(s)

Redeliver(e) == e \notin acked /\ \E s \in Servers : Deliver(e, s)

\* the bound of the deliveries: nothing is in hand and nothing comes any more
Quiet ==
    /\ \A s \in Servers : At(s, "idle")
    /\ \A e \in Events : sent[e] = MaxDeliveries
    /\ Len(actions) = MaxActions
    /\ UNCHANGED vars

Next ==
    \/ \E e \in Events, s \in Servers : Deliver(e, s)
    \/ \E s \in Servers : Step(s) \/ DispatchFails(s) \/ Abort(s)
    \/ ActionCreated \/ Quiet

Spec == Init /\ [][Next]_vars

\* a request once begun runs to its end, and the provider repeats a delivery
\* until one is answered with success
FairSpec ==
    /\ Spec
    /\ \A s \in Servers : WF_vars(Step(s))
    /\ \A e \in Events : WF_vars(Redeliver(e))

-----------------------------------------------------------------------------
(* Type invariant *)

\* TypeOK: inbox rows are keyed by provider event id, and a session points at a
\* delivery in hand.
TypeOK ==
    /\ body \in [Events -> Bodies]
    /\ DOMAIN inbox \subseteq Keys /\ inbox \in [DOMAIN inbox -> InboxRow]
    /\ case \in CaseRow
    /\ payment \in PaymentStatuses
    /\ actions \in Seq(Displays) /\ Len(actions) <= MaxActions
    /\ audits \in [Keys -> [applied : Nat, replays : Nat]]
    /\ server \in [Servers -> Session]
    /\ \A s \in Servers : At(s, "idle") <=> server[s].key = NoKey
    /\ sent \in [Events -> 0 .. MaxDeliveries]
    /\ acked \subseteq Events
    /\ landed \in [Keys -> [commits : Nat, effects : Nat]]
    /\ overlap \in BOOLEAN
    /\ faults \in 0 .. MaxFaults

-----------------------------------------------------------------------------
(* Safety *)

\* Inbox!Spec: of all deliveries of one id, however they overlap, one lands and
\* takes effect at most once; a redelivery has none (the unique index, ingest).
Inbox == INSTANCE OnceInbox WITH
    seen <- DOMAIN inbox,
    effects <- [k \in Keys |-> landed[k].effects]

InboxOnce == Inbox!Spec

\* InboxTellsTruth: processed_at tells whether an event was applied: a row that has
\* it has the audit event of the application unless nothing was to be applied, and
\* one without it has none, although a failed dispatch may have changed the case
\* (mark_processed, mark_failed).
InboxTellsTruth ==
    \A k \in DOMAIN inbox :
        /\ audits[k].applied = IF inbox[k].processed THEN landed[k].effects ELSE 0
        /\ (/\ inbox[k].processed
            /\ body[k[1]].kind \in SupportedEvents
            /\ body[k[1]].names \cap {"notes", "payment"} # {})
           => audits[k].applied = 1

\* DeliveriesAudited: a 200 is never given for an event that is not in the inbox,
\* and of the deliveries of an id that have landed all but one, whichever came
\* first, are audited as replays; the audit trail is the only count of them, and
\* concurrent ones lose none (ingest, _replay).
DeliveriesAudited ==
    /\ \A e \in acked : \E k \in DOMAIN inbox : k[1] = e
    /\ \A k \in DOMAIN inbox :
        /\ audits[k].replays < landed[k].commits
        /\ body[k[1]].names \cap {"notes", "payment"} # {}
              => audits[k].replays + 1 = landed[k].commits

Effective(kind) == \E k \in Keys : landed[k].effects > 0 /\ body[k[1]].kind = kind

\* CaseExplained: the case and the payment show what some event that took effect
\* says, and the case is completed exactly when one of them completes it
\* (apply_recovery_status; a completion is never taken back).
CaseExplained ==
    /\ case.status \in FirstStatuses
          \/ \E kind \in SupportedEvents : Effective(kind) /\ case.status = StatusFor(kind)
    /\ payment = "FAILED"
          \/ \E kind \in SupportedEvents : Effective(kind) /\ payment = PaymentFor(kind)
    /\ case.completed <=> \E kind \in CaptureEvents \cup StopEvents : Effective(kind)

\* LedgerAgrees: the case and its payment tell the same story, as long as no two
\* deliveries for the case have overlapped; each flush writes only the columns
\* that differ from what it has read, so two that overlap may leave a recovered
\* case with a failed payment.
LedgerAgrees ==
    ~overlap =>
        \/ case.status \in FirstStatuses /\ payment = "FAILED"
        \/ \E kind \in SupportedEvents :
              case.status = StatusFor(kind) /\ payment = PaymentFor(kind)

-----------------------------------------------------------------------------
(* Liveness, under FairSpec *)

\* EventsLand: an event that was ever delivered gets a row in the inbox, although
\* a dispatch may fail and a transaction be lost, because the provider repeats it.
EventsLand ==
    \A e \in Events : sent[e] > 0 ~> \E k \in DOMAIN inbox : k[1] = e

-----------------------------------------------------------------------------
(* What documents say of the program, and the code does not do.             *)

\* FailedIsRetried: "Dispatch failures set `_rp_ingest.failed` and leave
\* `processed_at` null so Razorpay can retry" (RAZORPAY_WEBHOOKS.md): the
\* redelivery of an event whose dispatch has failed applies it.
FailedIsRetried ==
    [][\A k \in DOMAIN inbox :
          ~inbox[k].processed /\ landed'[k].commits > landed[k].commits
              => audits'[k].applied = 1]_vars
=============================================================================
