------------------------- MODULE NotificationDelivery -------------------------
(***************************************************************************)
(* Domain events on their way to people: the SNS topic and the SQS queue   *)
(* behind it, the workers that take messages off the queue, the            *)
(* notifications table whose rows are claimed before an email is sent, the *)
(* preferences read on the way, and the notification centre.               *)
(* Sources: workers/src/notifications, workers/src/sqs,                    *)
(* packages/db/src/repositories/notifications.ts.                          *)
(***************************************************************************)
EXTENDS Naturals, FiniteSets

CONSTANTS
  Event,        \* domain events that have a notification handler
  Person,
  Worker,       \* a Lambda invocation or the polling consumer
  Slow,         \* the workers no time limit stops: the polling consumer
  Pool,         \* a payload that names nobody: whoever is eligible later
  Payloads,     \* the payloads events may have: their type, and whom they name
  Gone,         \* recipients without a users row
  MaxReceives,  \* maxReceiveCount of the redrive policy
  Choices,      \* the sets of channels somebody may leave on
  MaxEdits,     \* bound: preferences set and pool changes meanwhile
  None

(* The event types dispatchDomainEvent has a handler for.                  *)
Handled == {"task.created", "task.escalated", "task.reminderDue",
            "case.unassigned", "case.commented"}

ASSUME DeliveryAssumption ==
  /\ IsFiniteSet(Worker) /\ Slow \subseteq Worker /\ Gone \subseteq Person
  /\ Pool \notin Person /\ Payloads \subseteq [type : Handled, to : Person \cup {Pool}]
  /\ MaxReceives \in Nat \ {0} /\ MaxEdits \in Nat
  /\ Choices \subseteq SUBSET {"email", "inApp"}
  /\ None \notin Event \cup Person

VARIABLES
  payload,    \* type and content of each event, fixed when it was created
  message,    \* event -> where its message is, and how often it was received
  row,        \* the notifications table, by idempotency key
  enabled,    \* notification_preferences: the channels each person leaves on
  pool,       \* who is eligible, in charge or involved at the moment
  edits,      \* how often people have changed any of these
  worker,     \* workers with the message each has in hand
  accepted,   \* history: emails the provider took, by event and person
  excuse,     \* history: failures nobody can tell from a delivery, takeovers
  promised    \* history: what finished handlers found they had to deliver

deliveryVars ==
  <<payload, message, row, enabled, pool, edits, worker, accepted,
    excuse, promised>>

Channel == {"email", "inApp"}
Key == Event \X Person \X Channel
Place == {"unsent", "lost", "visible", "hidden", "deleted", "dead"}

(* old: created_at is further back than CLAIM_LEASE_MINUTES.               *)
Row == [status : {"absent", "queued", "sent", "failed"}, old : BOOLEAN]

Idle == [pc |-> "idle", event |-> None, todo |-> {},
         person |-> None, channels |-> {}, claimed |-> FALSE, owed |-> {}]

DeliveryTypeOK ==
  /\ payload \in [Event -> Payloads]
  /\ message \in [Event -> [place : Place, receives : 0..MaxReceives]]
  /\ row \in [Key -> Row]
  /\ enabled \in [Person -> SUBSET Channel]
  /\ pool \subseteq Person /\ edits \in 0..MaxEdits
  /\ worker \in [Worker ->
       [pc : {"idle", "next", "claim", "inApp", "send",
              "markSent", "markFailed"},
        event : Event \cup {None}, todo : SUBSET Person, person : Person \cup {None},
        channels : SUBSET Channel, claimed : BOOLEAN, owed : SUBSET Key]]
  /\ accepted \in [Event \X Person -> Nat]
  /\ excuse \in [Event \X Person -> Nat]
  /\ promised \subseteq Key

DeliveryInit ==
  /\ payload \in [Event -> Payloads]
  /\ message = [e \in Event |-> [place |-> "unsent", receives |-> 0]]
  /\ row = [k \in Key |-> [status |-> "absent", old |-> FALSE]]
  /\ promised = {}
  /\ enabled = [p \in Person |-> Channel]
  /\ pool = Person /\ edits = 0
  /\ worker = [w \in Worker |-> Idle]
  /\ accepted = [x \in Event \X Person |-> 0]
  /\ excuse = [x \in Event \X Person |-> 0]

-----------------------------------------------------------------------------
(* The topic and the queue.                                                *)

(* Events are published after the commit that caused them; a publication   *)
(* that fails is logged and forgotten.                                     *)
Publish(e) ==
  /\ message[e].place = "unsent"
  /\ \E there \in {"visible", "lost"} :
       message' = [message EXCEPT ![e].place = there]
  /\ UNCHANGED <<row, enabled, pool, edits, worker, accepted, excuse, promised>>

(* Whom each handler finds when it runs. A created or escalated task is    *)
(* announced to the assignee its payload names, or to the pool as it is by *)
(* now; a reminder to the assignee only; an unassigned case to the active  *)
(* administrators; a comment to the submitter and to those with an open    *)
(* task, but not to its author, which is whom that payload names.          *)
TaskCreatedRecipients(p)   == IF p.to = Pool THEN pool ELSE {p.to}
TaskEscalatedRecipients(p) == IF p.to = Pool THEN pool ELSE {p.to}
TaskReminderRecipients(p)  == {p.to} \ {Pool}
CaseUnassignedRecipients   == pool
CaseCommentedRecipients(p) == pool \ {p.to}

ResolveRecipients(e) ==
  LET p == payload[e] IN
  CASE p.type = "task.created"     -> TaskCreatedRecipients(p)
    [] p.type = "task.escalated"   -> TaskEscalatedRecipients(p)
    [] p.type = "task.reminderDue" -> TaskReminderRecipients(p)
    [] p.type = "case.unassigned"  -> CaseUnassignedRecipients
    [] p.type = "case.commented"   -> CaseCommentedRecipients(p)

(* A message received, and its handler begun.                              *)
Receive(w, e) ==
  LET n == message[e].receives + 1 IN
  /\ worker[w].pc = "idle"
  /\ message[e].place = "visible" /\ n <= MaxReceives
  /\ message' = [message EXCEPT ![e] = [place |-> "hidden", receives |-> n]]
  /\ worker' = [worker EXCEPT ![w] =
       [Idle EXCEPT !.pc = "next", !.event = e, !.todo = ResolveRecipients(e)]]
  /\ UNCHANGED <<row, enabled, pool, edits, accepted, excuse, promised>>

(* A slip: one delivery more than there can be.                            *)
DeadLetterTooLate(e) ==
  /\ message[e].place = "visible" /\ message[e].receives > MaxReceives
  /\ message' = [message EXCEPT ![e].place = "dead"]
  /\ UNCHANGED <<row, enabled, pool, edits, worker, accepted, excuse, promised>>

(* The visibility timeout, or a standard queue delivering twice.           *)
BecomeVisible(e) ==
  /\ message[e].place = "hidden"
  /\ message' = [message EXCEPT ![e].place = "visible"]
  /\ UNCHANGED <<row, enabled, pool, edits, worker, accepted, excuse, promised>>

DeadLetter(e) ==
  /\ message[e].place = "visible" /\ message[e].receives = MaxReceives
  /\ message' = [message EXCEPT ![e].place = "dead"]
  /\ UNCHANGED <<row, enabled, pool, edits, worker, accepted, excuse, promised>>

-----------------------------------------------------------------------------
(* A handler.                                                              *)

KeyOf(w, c) == <<worker[w].event, worker[w].person, c>>
Whom(w) == <<worker[w].event, worker[w].person>>

At(w, pc) == worker[w].pc = pc
Goto(w, pc) == worker' = [worker EXCEPT ![w].pc = pc]

(* Both channels switched off: the recipient is skipped.                   *)
NextRecipient(w) ==
  /\ At(w, "next")
  /\ \E p \in worker[w].todo :
       worker' = [worker EXCEPT ![w] =
         [worker[w] EXCEPT !.todo = @ \ {p}, !.person = p, !.channels = enabled[p],
                           !.claimed = FALSE,
                           !.owed = @ \cup ({worker[w].event} \X {p} \X enabled[p]),
                           !.pc = IF enabled[p] = {} THEN "next"
                                  ELSE IF "email" \in enabled[p] THEN "claim"
                                  ELSE "inApp"]]
  /\ UNCHANGED <<message, row, enabled, pool, edits, accepted, excuse, promised>>

(* A slip the runs must catch: the lease of a queued row is not looked at. *)
ClaimableUnlessSent(r) == r.status # "sent"

(* The INSERT of claimNotification, or its UPDATE: a row that failed, or   *)
(* one that has been queued for longer than the lease.                     *)
Claimable(r) == \/ r.status \in {"absent", "failed"}
                \/ r.status = "queued" /\ r.old

(* Otherwise the row is alreadyDelivered or inFlight, and either way this  *)
(* handler sends nothing.                                                  *)
ClaimEmail(w) ==
  LET k == KeyOf(w, "email") IN
  /\ At(w, "claim")
  /\ row' = IF Claimable(row[k]) THEN [row EXCEPT ![k].status = "queued"]
                                 ELSE row
  /\ worker' = [worker EXCEPT ![w].pc = "inApp",
                              ![w].claimed = Claimable(row[k])]
  /\ excuse' = IF row[k].status = "queued" /\ row[k].old
                 THEN [excuse EXCEPT ![Whom(w)] = @ + 1] ELSE excuse
  /\ UNCHANGED <<message, enabled, pool, edits, accepted, promised>>

AfterInApp(w) == IF worker[w].claimed THEN "send" ELSE "next"

(* Slips: the row without its mark; no row when no email was claimed.      *)
ClaimInAppOnly(w) ==
  LET k == KeyOf(w, "inApp") IN
  /\ At(w, "inApp")
  /\ row' = IF "inApp" \in worker[w].channels /\ Claimable(row[k])
              THEN [row EXCEPT ![k].status = "queued"] ELSE row
  /\ Goto(w, AfterInApp(w))
  /\ UNCHANGED <<message, enabled, pool, edits, accepted, excuse, promised>>
RecordInAppIfClaimed(w) ==
  LET k == KeyOf(w, "inApp") IN
  /\ At(w, "inApp")
  /\ row' = IF /\ worker[w].claimed \/ "email" \notin worker[w].channels
               /\ "inApp" \in worker[w].channels /\ Claimable(row[k])
              THEN [row EXCEPT ![k].status = "sent"] ELSE row
  /\ Goto(w, AfterInApp(w))
  /\ UNCHANGED <<message, enabled, pool, edits, accepted, excuse, promised>>

(* Claimed and marked sent in one transaction.                             *)
RecordInApp(w) ==
  LET k == KeyOf(w, "inApp") IN
  /\ At(w, "inApp")
  /\ row' = IF "inApp" \in worker[w].channels /\ Claimable(row[k])
              THEN [row EXCEPT ![k].status = "sent"] ELSE row
  /\ Goto(w, AfterInApp(w))
  /\ UNCHANGED <<message, enabled, pool, edits, accepted, excuse, promised>>

(* A recipient without an account fails for good, and quietly.             *)
RecipientIsGone(w) ==
  /\ At(w, "send") /\ worker[w].person \in Gone
  /\ row' = [row EXCEPT ![KeyOf(w, "email")].status = "failed"]
  /\ Goto(w, "next")
  /\ UNCHANGED <<message, enabled, pool, edits, accepted, excuse, promised>>

Send(w) ==
  /\ At(w, "send") /\ worker[w].person \notin Gone
  /\ accepted' = [accepted EXCEPT ![Whom(w)] = @ + 1]
  /\ Goto(w, "markSent")
  /\ UNCHANGED <<message, row, enabled, pool, edits, excuse, promised>>

(* A send that throws may have reached the provider all the same.          *)
SendThrows(w) ==
  /\ At(w, "send") /\ worker[w].person \notin Gone
  /\ \E got \in {0, 1} :
       /\ accepted' = [accepted EXCEPT ![Whom(w)] = @ + got]
       /\ excuse' = [excuse EXCEPT ![Whom(w)] = @ + got]
  /\ Goto(w, "markFailed")
  /\ UNCHANGED <<message, row, enabled, pool, edits, promised>>

MarkNotificationSent(w) ==
  /\ At(w, "markSent")
  /\ row' = [row EXCEPT ![KeyOf(w, "email")].status = "sent"]
  /\ Goto(w, "next")
  /\ UNCHANGED <<message, enabled, pool, edits, accepted, excuse, promised>>

(* The catch block is around the send and the mark.                        *)
MarkSentThrows(w) ==
  /\ At(w, "markSent")
  /\ excuse' = [excuse EXCEPT ![Whom(w)] = @ + 1]
  /\ Goto(w, "markFailed")
  /\ UNCHANGED <<message, row, enabled, pool, edits, accepted, promised>>

(* Recorded and rethrown: the message stays on the queue.                  *)
MarkNotificationFailed(w) ==
  /\ At(w, "markFailed")
  /\ row' = [row EXCEPT ![KeyOf(w, "email")].status = "failed"]
  /\ worker' = [worker EXCEPT ![w] = Idle]
  /\ UNCHANGED <<message, enabled, pool, edits, accepted, excuse, promised>>

(* The process dies, or a statement outside the try block throws.          *)
Abandon(w) ==
  /\ ~At(w, "idle")
  /\ excuse' = IF At(w, "markSent")
                 THEN [excuse EXCEPT ![Whom(w)] = @ + 1] ELSE excuse
  /\ worker' = [worker EXCEPT ![w] = Idle]
  /\ UNCHANGED <<message, row, enabled, pool, edits, accepted, promised>>

(* The handler resolved: the message is deleted, unless the deletion       *)
(* itself is lost.                                                         *)
Finish(w) ==
  LET e == worker[w].event IN
  /\ At(w, "next") /\ worker[w].todo = {}
  /\ \/ /\ message[e].place \in {"hidden", "visible"}
        /\ message' = [message EXCEPT ![e].place = "deleted"]
     \/ UNCHANGED message
  /\ promised' = promised \cup worker[w].owed
  /\ worker' = [worker EXCEPT ![w] = Idle]
  /\ UNCHANGED <<row, enabled, pool, edits, accepted, excuse>>

NotifyStep(w) ==
  \/ NextRecipient(w) \/ ClaimEmail(w) \/ RecordInApp(w) \/ RecipientIsGone(w)
  \/ Send(w) \/ SendThrows(w) \/ MarkNotificationSent(w) \/ MarkSentThrows(w)
  \/ MarkNotificationFailed(w) \/ Finish(w)

(* Five handlers with the same loop over different recipients.             *)
Handles(w, type) == /\ ~At(w, "idle") /\ payload[worker[w].event].type = type
                    /\ NotifyStep(w)

HandleTaskCreated(w)     == Handles(w, "task.created")
HandleTaskEscalated(w)   == Handles(w, "task.escalated")
HandleTaskReminderDue(w) == Handles(w, "task.reminderDue")
HandleCaseUnassigned(w)  == Handles(w, "case.unassigned")
HandleCaseCommented(w)   == Handles(w, "case.commented")

HandlerStep(w) ==
  \/ HandleTaskCreated(w) \/ HandleTaskEscalated(w) \/ HandleTaskReminderDue(w)
  \/ HandleCaseUnassigned(w) \/ HandleCaseCommented(w)

-----------------------------------------------------------------------------
(* Time, and people.                                                       *)

Holds(w, k) == /\ worker[w].pc \in {"inApp", "send", "markSent", "markFailed"}
               /\ worker[w].claimed /\ KeyOf(w, "email") = k

(* Five minutes are longer than a Lambda invocation lives. created_at is   *)
(* that of the first claim: taking a row over does not renew the lease.    *)
LeaseRunsOut(k) ==
  /\ row[k].status \in {"queued", "failed"} /\ ~row[k].old
  /\ \A w \in Worker \ Slow : ~Holds(w, k)
  /\ row' = [row EXCEPT ![k].old = TRUE]
  /\ UNCHANGED <<message, enabled, pool, edits, worker, accepted, excuse, promised>>

Edit == edits < MaxEdits /\ edits' = edits + 1

SetPreference(p) ==
  /\ Edit
  /\ \E channels \in Choices : enabled' = [enabled EXCEPT ![p] = channels]
  /\ UNCHANGED <<message, row, pool, worker, accepted, excuse, promised>>

PoolChanges ==
  /\ Edit
  /\ \E p \in Person : pool' = IF p \in pool THEN pool \ {p} ELSE pool \cup {p}
  /\ UNCHANGED <<message, row, enabled, worker, accepted, excuse, promised>>

(* The centre lists a person's in-app rows, whatever their status.         *)
Listed(p) == {k \in Key : k[2] = p /\ k[3] = "inApp" /\ row[k].status # "absent"}

DeliveryNext ==
  \/ \E e \in Event : Publish(e) \/ BecomeVisible(e) \/ DeadLetter(e)
  \/ \E w \in Worker, e \in Event : Receive(w, e)
  \/ \E w \in Worker : HandlerStep(w) \/ Abandon(w)
  \/ \E k \in Key : LeaseRunsOut(k)
  \/ PoolChanges \/ \E p \in Person : SetPreference(p)

-----------------------------------------------------------------------------
(* Properties.                                                             *)

(* routes/notifications.ts and idx_notifications_recipient_unread filter   *)
(* in-app rows by recipient only: the centre lists what was delivered      *)
(* because a row and its sent mark appear together.                        *)
CentreListsWhatWasDelivered ==
  \A p \in Person : \A k \in Listed(p) : row[k].status = "sent"

(* notifications.ts:85: "Two concurrent redeliveries must not both send".  *)
(* A person gets a second email about an event only when an earlier        *)
(* attempt failed in a way that cannot be told from a delivery, or its     *)
(* lease had run out.                                                      *)
RepeatsAreExcused ==
  \A x \in Event \X Person : accepted[x] <= 1 + excuse[x]

(* A message is deleted only after its handler resolved: by then the       *)
(* in-app row of every recipient it found is there, and every email has a  *)
(* row, whatever earlier attempts at the same message left undone.         *)
NobodyIsPassedOver ==
  \A k \in promised :
    IF k[3] = "inApp" THEN row[k].status = "sent" ELSE row[k].status # "absent"

(* What is recorded as sent was accepted by the provider.                  *)
SentWasAccepted ==
  \A e \in Event, p \in Person :
    row[<<e, p, "email">>].status = "sent" => accepted[<<e, p>>] > 0

(* notifications.ts:69: without the lease a row whose worker was killed    *)
(* "would be skipped by every future redelivery and lost silently": with   *)
(* it, an email that is still queued when its message is deleted is in the *)
(* hands of a worker.                                                      *)
NothingIsLostSilently ==
  \A e \in Event, p \in Person :
    message[e].place = "deleted" /\ row[<<e, p, "email">>].status = "queued"
      => \E w \in Worker : Holds(w, <<e, p, "email">>)

(* Whatever workers, sends and rows do, a published message ends: it is    *)
(* handled to the end, or put aside where it can be seen.                  *)
MessagesLeaveTheQueue ==
  \A e \in Event :
    message[e].place \in {"visible", "hidden"}
      ~> message[e].place \in {"deleted", "dead"}

=============================================================================
