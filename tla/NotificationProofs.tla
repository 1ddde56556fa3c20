--------------------------- MODULE NotificationProofs ---------------------------
(***************************************************************************)
(* Theorems about DecisionLinks and the deliveries below it, for any       *)
(* events, people, workers, requests and any number of receives: what      *)
(* workers that overtake, repeat or abandon each other leave behind.       *)
(***************************************************************************)
EXTENDS DecisionLinks, FiniteSetTheorems, TLAPS

(* A worker with somebody to notify; one that may send, or has.            *)
Busy == {"claim", "inApp", "send", "markSent", "markFailed"}
Sending == {"send", "markSent", "markFailed"}

(* Workers know the event and the person they are busy with, and only one  *)
(* that claimed the row sends.                                             *)
KnowsWhom(w) ==
  /\ worker[w].pc # "idle" => worker[w].event \in Event
  /\ worker[w].pc \in Busy => worker[w].person \in Person
  /\ worker[w].pc \in Sending => worker[w].claimed
  /\ worker[w].pc = "markSent" => accepted[Whom(w)] > 0

WorkersKnowWhom == \A w \in Worker : KnowsWhom(w)

(* An in-app row is there or it is not: it waits for nothing.              *)
InAppRowsAreWhole ==
  \A e \in Event, p \in Person :
    row[<<e, p, "inApp">>].status \in {"absent", "sent"}

(* The attempts at an email that may still reach the provider, or have     *)
(* reached it without the worker knowing.                                  *)
Attempts(x) ==
  {w \in Worker : /\ worker[w].pc \in {"inApp", "send", "markFailed"}
                  /\ worker[w].claimed /\ Whom(w) = x}

(* A row that was claimed stands for one of them.                          *)
EmailRow(x) == row[<<x[1], x[2], "email">>]
Claims(x) == IF EmailRow(x).status \in {"queued", "sent"} THEN 1 ELSE 0

(* Emails accepted and attempts under way are backed by excuses and by the *)
(* one claim that the row stands for.                                      *)
Backed(x) == accepted[x] + Cardinality(Attempts(x)) <= excuse[x] + Claims(x)

AttemptsAreBacked == \A x \in Event \X Person : Backed(x)

(* What a handler that resolves leaves behind for a recipient.             *)
Kept(k) ==
  IF k[3] = "inApp" THEN row[k].status = "sent" ELSE row[k].status # "absent"

(* What a handler owes is kept, or is what it is about to do.              *)
Owes(w) ==
  \A k \in worker[w].owed :
    \/ Kept(k)
    \/ worker[w].pc = "claim" /\ k = KeyOf(w, "email")
    \/ /\ worker[w].pc \in {"claim", "inApp"} /\ k = KeyOf(w, "inApp")
       /\ "inApp" \in worker[w].channels

OwedIsInHand == \A w \in Worker : Owes(w)

(* A task is decided when its version moves, and a handler about to commit *)
(* has read the first version.                                             *)
DecisionsMoveTheVersion ==
  /\ \A e \in Event : /\ decided[e] <= task[e].version
                      /\ task[e].status = "open" <=> task[e].version = 0
  /\ \A r \in Request : /\ request[r].pc # "idle" => request[r].event \in Event
                        /\ request[r].version = 0

DeliveriesAreSound ==
  /\ DeliveryTypeOK
  /\ WorkersKnowWhom
  /\ InAppRowsAreWhole
  /\ SentWasAccepted
  /\ AttemptsAreBacked
  /\ OwedIsInHand
  /\ NobodyIsPassedOver

LinksAreSound == LinkTypeOK /\ DecisionsMoveTheVersion /\ LinksOpenOnce

DeliveryIInv == DeliveriesAreSound /\ LinksAreSound

-----------------------------------------------------------------------------
(* Kinds.                                                                  *)

Job == [pc : {"idle", "next"} \cup Busy,
        event : Event \cup {None}, todo : SUBSET Person, person : Person \cup {None},
        channels : SUBSET Channel, claimed : BOOLEAN, owed : SUBSET Key]

LEMMA WorkersAreTyped == DeliveryTypeOK => worker \in [Worker -> Job]
BY DEF DeliveryTypeOK, Job, Busy

LEMMA IdleIsJob == Idle \in Job
BY DEF Idle, Job, Busy

(* Whoever a handler finds to notify is somebody.                          *)
LEMMA RecipientsAreSomebody ==
  ASSUME DeliveryTypeOK, NEW e \in Event
  PROVE  ResolveRecipients(e) \subseteq Person
<1> DEFINE p == payload[e]
<1>1. p.type \in Handled /\ p.to \in Person \cup {Pool} /\ pool \subseteq Person
  BY DeliveryAssumption DEF DeliveryTypeOK
<1> HIDE DEF p
<1>2. /\ TaskCreatedRecipients(p) \subseteq Person
      /\ TaskEscalatedRecipients(p) \subseteq Person
      /\ TaskReminderRecipients(p) \subseteq Person
      /\ CaseUnassignedRecipients \subseteq Person
      /\ CaseCommentedRecipients(p) \subseteq Person
  BY <1>1 DEF TaskCreatedRecipients, TaskEscalatedRecipients, TaskReminderRecipients,
              CaseUnassignedRecipients, CaseCommentedRecipients
<1>3. ResolveRecipients(e) =
        CASE p.type = "task.created"     -> TaskCreatedRecipients(p)
          [] p.type = "task.escalated"   -> TaskEscalatedRecipients(p)
          [] p.type = "task.reminderDue" -> TaskReminderRecipients(p)
          [] p.type = "case.unassigned"  -> CaseUnassignedRecipients
          [] p.type = "case.commented"   -> CaseCommentedRecipients(p)
  BY DEF ResolveRecipients, p
<1> QED
  BY <1>1, <1>2, <1>3 DEF Handled

(* What one worker's step leaves as it was: all other workers.             *)
OthersStay(w) ==
  /\ worker' \in [Worker -> Job]
  /\ \A v \in Worker \ {w} : worker'[v] = worker[v]

LEMMA OneWorkerMoves ==
  ASSUME worker \in [Worker -> Job], NEW w \in Worker, NEW r \in Job,
         worker' = [worker EXCEPT ![w] = r]
  PROVE  worker'[w] = r /\ OthersStay(w)
BY DEF OthersStay

(* Moving on is a change of the program counter.                           *)
LEMMA GotoMoves ==
  ASSUME worker \in [Worker -> Job], NEW w \in Worker,
         NEW pc \in {"next"} \cup Busy, Goto(w, pc)
  PROVE  /\ OthersStay(w)
         /\ worker'[w] = [worker[w] EXCEPT !.pc = pc]
<1> DEFINE r == [worker[w] EXCEPT !.pc = pc]
<1>1. r \in Job
  BY DEF Job
<1>2. worker' = [worker EXCEPT ![w] = r]
  BY DEF Goto
<1> HIDE DEF r
<1>3. worker'[w] = r /\ OthersStay(w)
  BY <1>1, <1>2, OneWorkerMoves
<1> QED
  BY <1>3 DEF r

-----------------------------------------------------------------------------
(* What the parts of the invariant say of a step.                          *)

(* A worker's step adds it to the attempts, takes it away, or does not.    *)
LEMMA AttemptsMove ==
  ASSUME NEW w \in Worker, OthersStay(w), NEW x
  PROVE  /\ Cardinality(Attempts(x)) \in Nat /\ Cardinality(Attempts(x)') \in Nat
         /\ Cardinality(Attempts(x)') + (IF w \in Attempts(x) THEN 1 ELSE 0)
              = Cardinality(Attempts(x)) + (IF w \in Attempts(x)' THEN 1 ELSE 0)
<1> DEFINE A == Attempts(x)
           B == Attempts(x)'
           C == A \ {w}
<1>1. A \subseteq Worker /\ B \subseteq Worker
  BY DEF Attempts
<1>2. C = B \ {w}
  BY DEF Attempts, OthersStay, Whom
<1> HIDE DEF A, B
<1>3. IsFiniteSet(A) /\ IsFiniteSet(B)
  BY <1>1, FS_Subset, DeliveryAssumption
<1>4. /\ Cardinality(A) \in Nat /\ Cardinality(B) \in Nat
      /\ Cardinality(C) = IF w \in A THEN Cardinality(A) - 1 ELSE Cardinality(A)
      /\ Cardinality(C) = IF w \in B THEN Cardinality(B) - 1 ELSE Cardinality(B)
  BY <1>2, <1>3, FS_CardinalityType, FS_RemoveElement
<1>5. /\ Cardinality(A) \in Nat /\ Cardinality(B) \in Nat
      /\ Cardinality(B) + (IF w \in A THEN 1 ELSE 0)
           = Cardinality(A) + (IF w \in B THEN 1 ELSE 0)
  BY <1>4
<1> QED
  BY <1>5 DEF A, B

(* Recipients are told apart by their rows.                                *)
LEMMA KeysTellApart ==
  ASSUME NEW x \in Event \X Person, NEW e, NEW p, NEW c, NEW d
  PROVE  /\ <<x[1], x[2], c>> = <<e, p, d>> <=> x = <<e, p>> /\ c = d
         /\ c \in Channel => <<x[1], x[2], c>> \in Key
BY DEF Key

(* An attempt that the step leaves alone is as well backed as before.      *)
LEMMA StaysBacked ==
  ASSUME NEW w \in Worker, OthersStay(w), NEW x \in Event \X Person, Backed(x),
         DeliveryTypeOK, DeliveryTypeOK',
         w \in Attempts(x)' => w \in Attempts(x),
         accepted'[x] = accepted[x], excuse'[x] >= excuse[x],
         EmailRow(x)'.status = EmailRow(x).status
  PROVE  Backed(x)'
<1>1. /\ accepted[x] \in Nat /\ excuse[x] \in Nat /\ excuse'[x] \in Nat
      /\ Claims(x) \in Nat /\ Claims(x)' = Claims(x)
  BY DEF DeliveryTypeOK, Claims
<1>2. Cardinality(Attempts(x)') <= Cardinality(Attempts(x))
  BY AttemptsMove
<1>3. Cardinality(Attempts(x)) \in Nat /\ Cardinality(Attempts(x)') \in Nat
  BY AttemptsMove
<1> HIDE DEF Attempts, Claims
<1> QED
  BY <1>1, <1>2, <1>3 DEF Backed

(* No row that was kept is lost by a step.                                 *)
KeepsRows == \A k \in Key : Kept(k) => Kept(k)'

(* A step of one worker keeps what is said of the others.                  *)
LEMMA WorkerStepIsSound ==
  ASSUME DeliveriesAreSound, NEW w \in Worker, OthersStay(w), DeliveryTypeOK',
         \A x \in Event \X Person : accepted'[x] >= accepted[x],
         KnowsWhom(w)', KeepsRows, Owes(w)', NobodyIsPassedOver',
         InAppRowsAreWhole', SentWasAccepted', AttemptsAreBacked'
  PROVE  DeliveriesAreSound'
<1>1. ASSUME NEW v \in Worker
      PROVE  KnowsWhom(v)'
  <2>1. CASE v # w
    <3>1. KnowsWhom(v) /\ worker'[v] = worker[v] /\ Whom(v)' = Whom(v)
      BY <2>1 DEF DeliveriesAreSound, WorkersKnowWhom, OthersStay, Whom
    <3>2. worker[v].pc = "markSent" => Whom(v) \in Event \X Person
      BY <3>1 DEF KnowsWhom, Whom, Busy
    <3>3. worker[v].pc = "markSent" => accepted'[Whom(v)] > 0
      BY <3>1, <3>2 DEF KnowsWhom, DeliveryTypeOK, DeliveriesAreSound
    <3> QED
      BY <3>1, <3>3 DEF KnowsWhom
  <2> QED
    BY <2>1
<1>2. ASSUME NEW v \in Worker
      PROVE  Owes(v)'
  <2>1. CASE v # w
    <3>1. Owes(v) /\ worker'[v] = worker[v] /\ worker[v].owed \subseteq Key
      BY <2>1, WorkersAreTyped DEF DeliveriesAreSound, OwedIsInHand, OthersStay, Job
    <3>2. KeyOf(v, "email")' = KeyOf(v, "email") /\ KeyOf(v, "inApp")' = KeyOf(v, "inApp")
      BY <3>1 DEF KeyOf
    <3> QED
      BY <3>1, <3>2 DEF Owes, KeepsRows
  <2> QED
    BY <2>1
<1> QED
  BY <1>1, <1>2 DEF DeliveriesAreSound, WorkersKnowWhom, OwedIsInHand

-----------------------------------------------------------------------------
(* What a step writes to the table.                                        *)

(* The email row of one recipient changes, and no in-app row.              *)
WritesEmail(x, status) ==
  /\ row' \in [Key -> Row]
  /\ \A y \in Event \X Person :
       EmailRow(y)'.status = IF y = x THEN status ELSE EmailRow(y).status
  /\ \A k \in Key : k[3] = "inApp" => row'[k] = row[k]

LEMMA EmailWrite ==
  ASSUME DeliveryTypeOK, NEW x \in Event \X Person,
         NEW status \in {"queued", "sent", "failed"},
         row' = [row EXCEPT ![<<x[1], x[2], "email">>].status = status]
  PROVE  WritesEmail(x, status)
<1> DEFINE k == <<x[1], x[2], "email">>
           r == [row[k] EXCEPT !.status = status]
<1>1. k \in Key /\ k[3] = "email"
  BY DEF Key, Channel
<1> HIDE DEF k
<1>2. row[k] \in Row
  BY <1>1 DEF DeliveryTypeOK
<1>3. r \in Row /\ r.status = status
  BY <1>2 DEF Row
<1>4. row' = [row EXCEPT ![k] = r]
  BY DEF k
<1> HIDE DEF r
<1>5. row' \in [Key -> Row] /\ row'[k].status = status /\ \A l \in Key \ {k} : row'[l] = row[l]
  <2>1. row \in [Key -> Row]
    BY DEF DeliveryTypeOK
  <2> QED
    BY <1>1, <1>3, <1>4, <2>1
<1>6. ASSUME NEW y \in Event \X Person
      PROVE  EmailRow(y)'.status = IF y = x THEN status ELSE EmailRow(y).status
  <2> DEFINE l == <<y[1], y[2], "email">>
  <2>1. l \in Key /\ (l = k <=> y = x)
    BY DEF Key, Channel, k
  <2>2. EmailRow(y) = row[l] /\ EmailRow(y)' = row'[l]
    BY DEF EmailRow
  <2> HIDE DEF l
  <2> QED
    BY <1>5, <2>1, <2>2
<1>7. \A l \in Key : l[3] = "inApp" => row'[l] = row[l]
  BY <1>1, <1>5
<1> QED
  BY <1>5, <1>6, <1>7 DEF WritesEmail

(* Then what was kept is kept, an in-app row is as whole as before, and    *)
(* what is now said to be sent was accepted.                               *)
LEMMA EmailWriteIsSound ==
  ASSUME DeliveriesAreSound, NEW x \in Event \X Person,
         NEW status \in {"queued", "sent", "failed"}, WritesEmail(x, status),
         \A y \in Event \X Person : accepted'[y] >= accepted[y] /\ accepted'[y] \in Nat,
         status = "sent" => accepted'[x] > 0
  PROVE  KeepsRows /\ InAppRowsAreWhole' /\ SentWasAccepted'
<1>1. KeepsRows
  <2> SUFFICES ASSUME NEW k \in Key, Kept(k) PROVE Kept(k)'
    BY DEF KeepsRows
  <2>1. CASE k[3] = "inApp"
    BY <2>1 DEF WritesEmail, Kept
  <2>2. CASE k[3] = "email"
    <3> DEFINE y == <<k[1], k[2]>>
    <3>1. y \in Event \X Person /\ k = <<y[1], y[2], "email">>
      BY <2>2 DEF Key
    <3>2. EmailRow(y) = row[k] /\ EmailRow(y)' = row'[k]
      BY <3>1 DEF EmailRow
    <3> HIDE DEF y
    <3>3. row'[k].status = status \/ row'[k].status = row[k].status
      BY <3>1, <3>2 DEF WritesEmail
    <3> QED
      BY <2>2, <3>3 DEF Kept
  <2> QED
    BY <2>1, <2>2 DEF Key, Channel
<1>2. InAppRowsAreWhole'
  <2> SUFFICES ASSUME NEW e \in Event, NEW p \in Person
               PROVE  row'[<<e, p, "inApp">>].status \in {"absent", "sent"}
    BY DEF InAppRowsAreWhole
  <2>1. <<e, p, "inApp">> \in Key /\ <<e, p, "inApp">>[3] = "inApp"
    BY DEF Key, Channel
  <2> QED
    BY <2>1 DEF WritesEmail, DeliveriesAreSound, InAppRowsAreWhole
<1>3. SentWasAccepted'
  <2> SUFFICES ASSUME NEW e \in Event, NEW p \in Person,
                      row'[<<e, p, "email">>].status = "sent"
               PROVE  accepted'[<<e, p>>] > 0
    BY DEF SentWasAccepted
  <2> DEFINE y == <<e, p>>
  <2>1. y \in Event \X Person /\ EmailRow(y) = row[<<e, p, "email">>]
        /\ EmailRow(y)' = row'[<<e, p, "email">>]
    BY DEF EmailRow
  <2>2. EmailRow(y).status = "sent" => accepted[y] > 0
    BY <2>1 DEF DeliveriesAreSound, SentWasAccepted
  <2>3. accepted[y] \in Nat
    BY <2>1 DEF DeliveriesAreSound, DeliveryTypeOK
  <2> HIDE DEF y
  <2>4. accepted'[y] > 0
    BY <2>1, <2>2, <2>3 DEF WritesEmail
  <2> QED
    BY <2>4 DEF y
<1> QED
  BY <1>1, <1>2, <1>3

(* The same of a step that writes no row.                                  *)
LEMMA NoWriteIsSound ==
  ASSUME DeliveriesAreSound, UNCHANGED row,
         \A y \in Event \X Person : accepted'[y] >= accepted[y] /\ accepted'[y] \in Nat
  PROVE  /\ KeepsRows /\ InAppRowsAreWhole' /\ SentWasAccepted'
         /\ \A y \in Event \X Person : EmailRow(y)' = EmailRow(y)
<1>1. KeepsRows /\ InAppRowsAreWhole' /\ \A y \in Event \X Person : EmailRow(y)' = EmailRow(y)
  BY DEF KeepsRows, Kept, InAppRowsAreWhole, DeliveriesAreSound, EmailRow
<1>2. SentWasAccepted'
  <2> SUFFICES ASSUME NEW e \in Event, NEW p \in Person,
                      row[<<e, p, "email">>].status = "sent"
               PROVE  accepted'[<<e, p>>] > 0
    BY DEF SentWasAccepted
  <2>1. <<e, p>> \in Event \X Person /\ accepted[<<e, p>>] > 0 /\ accepted[<<e, p>>] \in Nat
    BY DEF DeliveriesAreSound, SentWasAccepted, DeliveryTypeOK
  <2> QED
    BY <2>1
<1> QED
  BY <1>1, <1>2

-----------------------------------------------------------------------------
(* Steps of a worker that write no row.                                    *)

(* A worker that is idle, or has nobody yet, owes no attempt.              *)
LEMMA IdleIsSound ==
  ASSUME NEW w \in Worker, worker'[w] = Idle
  PROVE  /\ KnowsWhom(w)' /\ Owes(w)'
         /\ \A x : w \notin Attempts(x)'
BY DEF Idle, KnowsWhom, Owes, Attempts, Busy, Sending

LEMMA ReceiveKeeps ==
  ASSUME DeliveriesAreSound, NEW w \in Worker, NEW e \in Event, Receive(w, e),
         UNCHANGED payload
  PROVE  DeliveriesAreSound'
<1> DEFINE r == [Idle EXCEPT !.pc = "next", !.event = e, !.todo = ResolveRecipients(e)]
<1>1. ResolveRecipients(e) \subseteq Person
  BY RecipientsAreSomebody DEF DeliveriesAreSound
<1>2. /\ r \in Job /\ r.pc = "next" /\ r.event = e /\ r.owed = {} /\ ~r.claimed
  BY <1>1 DEF Idle, Job, Busy
<1>3. worker' = [worker EXCEPT ![w] = r]
  BY DEF Receive
<1> HIDE DEF r
<1>4. worker'[w] = r /\ OthersStay(w)
  BY <1>2, <1>3, WorkersAreTyped, OneWorkerMoves DEF DeliveriesAreSound
<1>5. message' \in [Event -> [place : Place, receives : 0..MaxReceives]]
  <2>1. message \in [Event -> [place : Place, receives : 0..MaxReceives]]
    BY DEF DeliveriesAreSound, DeliveryTypeOK
  <2>2. message[e].receives + 1 \in 0..MaxReceives /\ "hidden" \in Place
    BY <2>1, DeliveryAssumption DEF Receive, Place
  <2> QED
    BY <2>1, <2>2 DEF Receive
<1>6. DeliveryTypeOK'
  BY <1>4, <1>5 DEF Receive, DeliveriesAreSound, DeliveryTypeOK, OthersStay, Job, Busy
<1>7. /\ KnowsWhom(w)' /\ Owes(w)' /\ \A x : w \notin Attempts(x)'
  BY <1>2, <1>4 DEF KnowsWhom, Owes, Attempts, Busy, Sending
<1>8. /\ UNCHANGED <<row, accepted, excuse, promised>>
      /\ \A y \in Event \X Person : accepted'[y] >= accepted[y] /\ accepted'[y] \in Nat
  BY DEF Receive, DeliveriesAreSound, DeliveryTypeOK
<1>9. /\ KeepsRows /\ InAppRowsAreWhole' /\ SentWasAccepted' /\ NobodyIsPassedOver'
      /\ \A y \in Event \X Person : EmailRow(y)' = EmailRow(y)
  BY <1>8, NoWriteIsSound DEF DeliveriesAreSound, NobodyIsPassedOver
<1>10. AttemptsAreBacked'
  <2> SUFFICES ASSUME NEW x \in Event \X Person PROVE Backed(x)'
    BY DEF AttemptsAreBacked
  <2>1. Backed(x) /\ DeliveryTypeOK /\ excuse'[x] >= excuse[x]
    BY <1>8 DEF DeliveriesAreSound, AttemptsAreBacked, DeliveryTypeOK
  <2> QED
    BY <1>4, <1>6, <1>7, <1>8, <1>9, <2>1, StaysBacked
<1> QED
  BY <1>4, <1>6, <1>7, <1>8, <1>9, <1>10, WorkerStepIsSound

(* The ledger of one recipient after a step of a worker.                   *)
LEMMA BackedAfter ==
  ASSUME NEW w \in Worker, OthersStay(w), NEW x \in Event \X Person, Backed(x),
         DeliveryTypeOK, DeliveryTypeOK',
         accepted'[x] + (IF w \in Attempts(x)' THEN 1 ELSE 0) + excuse[x] + Claims(x)
           <= accepted[x] + (IF w \in Attempts(x) THEN 1 ELSE 0) + excuse'[x] + Claims(x)'
  PROVE  Backed(x)'
<1>1. /\ accepted[x] \in Nat /\ excuse[x] \in Nat /\ accepted'[x] \in Nat /\ excuse'[x] \in Nat
      /\ Claims(x) \in Nat /\ Claims(x)' \in Nat
  BY DEF DeliveryTypeOK, Claims
<1>2. /\ Cardinality(Attempts(x)) \in Nat /\ Cardinality(Attempts(x)') \in Nat
      /\ Cardinality(Attempts(x)') + (IF w \in Attempts(x) THEN 1 ELSE 0)
           = Cardinality(Attempts(x)) + (IF w \in Attempts(x)' THEN 1 ELSE 0)
  BY AttemptsMove
<1> HIDE DEF Attempts, Claims
<1> QED
  BY <1>1, <1>2 DEF Backed

(* A worker that is busy is busy with one event and one person.            *)
LEMMA BusyWithSomebody ==
  ASSUME DeliveriesAreSound, NEW w \in Worker, worker[w].pc \in Busy
  PROVE  /\ Whom(w) \in Event \X Person
         /\ \A c : KeyOf(w, c) = <<Whom(w)[1], Whom(w)[2], c>>
         /\ worker[w] \in Job /\ worker \in [Worker -> Job]
         /\ KnowsWhom(w) /\ Owes(w)
         /\ \A x \in Event \X Person : Backed(x)
<1>1. KnowsWhom(w) /\ Owes(w) /\ \A x \in Event \X Person : Backed(x)
  BY DEF DeliveriesAreSound, WorkersKnowWhom, OwedIsInHand, AttemptsAreBacked
<1>2. worker \in [Worker -> Job]
  BY WorkersAreTyped DEF DeliveriesAreSound
<1> QED
  BY <1>1, <1>2 DEF KnowsWhom, Whom, KeyOf, Busy

(* A worker that lets go owes nothing any more.                            *)
LEMMA AbandonKeeps ==
  ASSUME DeliveriesAreSound, NEW w \in Worker, Abandon(w), UNCHANGED payload
  PROVE  DeliveriesAreSound'
<1>1. worker'[w] = Idle /\ OthersStay(w)
  BY IdleIsJob, WorkersAreTyped, OneWorkerMoves DEF Abandon, DeliveriesAreSound
<1>2. /\ excuse' \in [Event \X Person -> Nat]
      /\ \A x \in Event \X Person : excuse'[x] >= excuse[x]
  <2>1. excuse \in [Event \X Person -> Nat]
    BY DEF DeliveriesAreSound, DeliveryTypeOK
  <2>2. CASE At(w, "markSent")
    <3>1. Whom(w) \in Event \X Person
      BY <2>2, BusyWithSomebody DEF At, Busy
    <3> QED
      BY <2>1, <2>2, <3>1 DEF Abandon
  <2> QED
    BY <2>1, <2>2 DEF Abandon
<1>3. DeliveryTypeOK'
  BY <1>1, <1>2 DEF Abandon, DeliveriesAreSound, DeliveryTypeOK, OthersStay, Job, Busy
<1>4. /\ UNCHANGED <<row, accepted, promised>>
      /\ \A y \in Event \X Person : accepted'[y] >= accepted[y] /\ accepted'[y] \in Nat
  BY DEF Abandon, DeliveriesAreSound, DeliveryTypeOK
<1>5. /\ KeepsRows /\ InAppRowsAreWhole' /\ SentWasAccepted' /\ NobodyIsPassedOver'
      /\ \A y \in Event \X Person : EmailRow(y)' = EmailRow(y)
  BY <1>4, NoWriteIsSound DEF DeliveriesAreSound, NobodyIsPassedOver
<1>6. KnowsWhom(w)' /\ Owes(w)' /\ \A x : w \notin Attempts(x)'
  BY <1>1, IdleIsSound
<1>7. AttemptsAreBacked'
  <2> SUFFICES ASSUME NEW x \in Event \X Person PROVE Backed(x)'
    BY DEF AttemptsAreBacked
  <2>1. Backed(x) /\ DeliveryTypeOK
    BY DEF DeliveriesAreSound, AttemptsAreBacked
  <2> QED
    BY <1>1, <1>2, <1>3, <1>4, <1>5, <1>6, <2>1, StaysBacked
<1> QED
  BY <1>1, <1>3, <1>4, <1>5, <1>6, <1>7, WorkerStepIsSound

(* A handler that resolves has kept what it owed.                          *)
LEMMA FinishKeeps ==
  ASSUME DeliveriesAreSound, NEW w \in Worker, Finish(w), UNCHANGED payload
  PROVE  DeliveriesAreSound'
<1>0. /\ worker \in [Worker -> Job] /\ worker[w].owed \subseteq Key
      /\ KnowsWhom(w) /\ Owes(w) /\ worker[w].pc = "next"
  BY WorkersAreTyped
     DEF DeliveriesAreSound, WorkersKnowWhom, OwedIsInHand, Job, Finish, At
<1>1. worker'[w] = Idle /\ OthersStay(w)
  BY <1>0, IdleIsJob, OneWorkerMoves DEF Finish
<1>2. message' \in [Event -> [place : Place, receives : 0..MaxReceives]]
  <2>1. message \in [Event -> [place : Place, receives : 0..MaxReceives]]
    BY DEF DeliveriesAreSound, DeliveryTypeOK
  <2> QED
    BY <2>1 DEF Finish, Place
<1>3. promised' \subseteq Key
  BY <1>0 DEF Finish, DeliveriesAreSound, DeliveryTypeOK
<1>4. DeliveryTypeOK'
  BY <1>1, <1>2, <1>3 DEF Finish, DeliveriesAreSound, DeliveryTypeOK, OthersStay, Job, Busy
<1>5. /\ UNCHANGED <<row, accepted, excuse>>
      /\ \A y \in Event \X Person : /\ accepted'[y] >= accepted[y] /\ accepted'[y] \in Nat
                                    /\ excuse'[y] >= excuse[y]
  BY DEF Finish, DeliveriesAreSound, DeliveryTypeOK
<1>6. /\ KeepsRows /\ InAppRowsAreWhole' /\ SentWasAccepted'
      /\ \A y \in Event \X Person : EmailRow(y)' = EmailRow(y)
  BY <1>5, NoWriteIsSound
<1>7. NobodyIsPassedOver'
  <2> SUFFICES ASSUME NEW k \in promised' PROVE Kept(k)
    BY <1>5 DEF NobodyIsPassedOver, Kept
  <2>1. CASE k \in promised
    BY <2>1 DEF DeliveriesAreSound, NobodyIsPassedOver, Kept
  <2>2. CASE k \in worker[w].owed
    BY <1>0, <2>2 DEF Owes
  <2> QED
    BY <2>1, <2>2 DEF Finish
<1>8. KnowsWhom(w)' /\ Owes(w)' /\ \A x : w \notin Attempts(x)'
  BY <1>1, IdleIsSound
<1>9. AttemptsAreBacked'
  <2> SUFFICES ASSUME NEW x \in Event \X Person PROVE Backed(x)'
    BY DEF AttemptsAreBacked
  <2>1. Backed(x) /\ DeliveryTypeOK
    BY DEF DeliveriesAreSound, AttemptsAreBacked
  <2> QED
    BY <1>1, <1>4, <1>5, <1>6, <1>8, <2>1, StaysBacked
<1> QED
  BY <1>1, <1>4, <1>5, <1>6, <1>7, <1>8, <1>9, WorkerStepIsSound

(* The next recipient: what is owed to the ones before is kept, and what   *)
(* is owed to this one is what comes next.                                 *)
LEMMA NextRecipientKeeps ==
  ASSUME DeliveriesAreSound, NEW w \in Worker, NextRecipient(w), UNCHANGED payload
  PROVE  DeliveriesAreSound'
<1>0. /\ worker \in [Worker -> Job] /\ worker[w] \in Job
      /\ KnowsWhom(w) /\ Owes(w) /\ worker[w].pc = "next" /\ worker[w].event \in Event
  BY WorkersAreTyped
     DEF DeliveriesAreSound, WorkersKnowWhom, OwedIsInHand, NextRecipient, At, KnowsWhom
<1> DEFINE pc(p) == IF enabled[p] = {} THEN "next"
                    ELSE IF "email" \in enabled[p] THEN "claim" ELSE "inApp"
           new(p) == {worker[w].event} \X {p} \X enabled[p]
           r(p) == [worker[w] EXCEPT !.todo = @ \ {p}, !.person = p, !.channels = enabled[p],
                                     !.claimed = FALSE, !.owed = @ \cup new(p), !.pc = pc(p)]
<1>1. PICK p \in worker[w].todo : worker' = [worker EXCEPT ![w] = r(p)]
  BY DEF NextRecipient
<1>2. p \in Person /\ enabled[p] \in SUBSET Channel
  BY <1>0 DEF Job, DeliveriesAreSound, DeliveryTypeOK
<1>3. new(p) \subseteq Key
  BY <1>0, <1>2 DEF Key
<1>4. pc(p) \in {"next", "claim", "inApp"} /\ (pc(p) = "inApp" => "email" \notin enabled[p])
  OBVIOUS
<1>5. \A k \in new(p) :
        /\ enabled[p] # {}
        /\ \/ k = <<worker[w].event, p, "email">> /\ pc(p) = "claim"
           \/ /\ k = <<worker[w].event, p, "inApp">> /\ "inApp" \in enabled[p]
              /\ pc(p) \in {"claim", "inApp"}
  BY <1>2 DEF Channel
<1> HIDE DEF pc, new
<1>6. /\ r(p) \in Job /\ r(p).pc = pc(p) /\ r(p).event = worker[w].event
      /\ r(p).person = p /\ ~r(p).claimed
      /\ r(p).channels = enabled[p] /\ r(p).owed = worker[w].owed \cup new(p)
  BY <1>0, <1>2, <1>3, <1>4 DEF Job, Busy
<1> HIDE DEF r
<1>7. worker'[w] = r(p) /\ OthersStay(w)
  BY <1>0, <1>1, <1>6, OneWorkerMoves
<1>8. DeliveryTypeOK'
  BY <1>7 DEF NextRecipient, DeliveriesAreSound, DeliveryTypeOK, OthersStay, Job, Busy
<1>9. KnowsWhom(w)' /\ \A x : w \notin Attempts(x)'
  BY <1>0, <1>2, <1>4, <1>6, <1>7 DEF KnowsWhom, Attempts, Busy, Sending
<1>10. UNCHANGED <<row, accepted, excuse, promised>>
  BY DEF NextRecipient
<1>11. Owes(w)'
  <2> SUFFICES ASSUME NEW k \in r(p).owed
               PROVE  \/ Kept(k)
                      \/ r(p).pc = "claim" /\ k = <<r(p).event, r(p).person, "email">>
                      \/ /\ r(p).pc \in {"claim", "inApp"} /\ k = <<r(p).event, r(p).person, "inApp">>
                         /\ "inApp" \in r(p).channels
    BY <1>7, <1>10 DEF Owes, KeyOf, Kept
  <2>1. CASE k \in worker[w].owed
    BY <1>0, <2>1 DEF Owes
  <2>2. CASE k \in new(p)
    BY <1>5, <1>6, <2>2
  <2> QED
    BY <1>6, <2>1, <2>2
<1>12. \A y \in Event \X Person : /\ accepted'[y] >= accepted[y] /\ accepted'[y] \in Nat
                                  /\ excuse'[y] >= excuse[y]
  BY <1>10 DEF DeliveriesAreSound, DeliveryTypeOK
<1>13. /\ KeepsRows /\ InAppRowsAreWhole' /\ SentWasAccepted' /\ NobodyIsPassedOver'
       /\ \A y \in Event \X Person : EmailRow(y)' = EmailRow(y)
  BY <1>10, <1>12, NoWriteIsSound DEF DeliveriesAreSound, NobodyIsPassedOver
<1>14. AttemptsAreBacked'
  <2> SUFFICES ASSUME NEW x \in Event \X Person PROVE Backed(x)'
    BY DEF AttemptsAreBacked
  <2>1. Backed(x) /\ DeliveryTypeOK
    BY DEF DeliveriesAreSound, AttemptsAreBacked
  <2> QED
    BY <1>7, <1>8, <1>9, <1>10, <1>12, <1>13, <2>1, StaysBacked
<1> QED
  BY <1>7, <1>8, <1>9, <1>11, <1>12, <1>13, <1>14, WorkerStepIsSound

-----------------------------------------------------------------------------
(* Steps of the email of one recipient.                                    *)

(* A worker moves on with the recipient it has.                            *)
Advances(w, pc) ==
  /\ OthersStay(w)
  /\ worker'[w].pc = pc
  /\ worker'[w].event = worker[w].event /\ worker'[w].person = worker[w].person
  /\ worker'[w].channels = worker[w].channels /\ worker'[w].owed = worker[w].owed

(* What it owes stays in hand when nothing it was about to do is left out. *)
LEMMA AdvanceOwes ==
  ASSUME DeliveriesAreSound, NEW w \in Worker, NEW pc, Advances(w, pc), Owes(w), KeepsRows,
         worker[w].pc \in Sending
  PROVE  Owes(w)'
<1>1. worker[w].owed \subseteq Key
  BY WorkersAreTyped DEF DeliveriesAreSound, Job
<1> QED
  BY <1>1 DEF Advances, Owes, KeepsRows, Sending

(* Going on changes nothing but the program counter.                       *)
LEMMA GotoAdvances ==
  ASSUME DeliveriesAreSound, NEW w \in Worker, NEW pc \in {"next"} \cup Busy, Goto(w, pc)
  PROVE  Advances(w, pc) /\ worker'[w].claimed = worker[w].claimed
<1>1. worker \in [Worker -> Job] /\ worker[w] \in Job
  BY WorkersAreTyped DEF DeliveriesAreSound
<1>2. OthersStay(w) /\ worker'[w] = [worker[w] EXCEPT !.pc = pc]
  BY <1>1, GotoMoves
<1> QED
  BY <1>1, <1>2 DEF Advances, Job

(* Only the recipient a worker has in hand is affected: for all others     *)
(* its step keeps what is said of their emails.                            *)
LEMMA AdvanceKeepsOthers ==
  ASSUME NEW w \in Worker, NEW pc, Advances(w, pc), NEW x \in Event \X Person, x # Whom(w)
  PROVE  w \notin Attempts(x) /\ w \notin Attempts(x)'
BY DEF Advances, Attempts, Whom

(* Claiming an email adds an attempt, and a claim or an excuse for it.     *)
LEMMA ClaimEmailKeeps ==
  ASSUME DeliveriesAreSound, NEW w \in Worker, ClaimEmail(w), UNCHANGED payload
  PROVE  DeliveriesAreSound'
<1>0. worker[w].pc = "claim" /\ worker[w].pc \in Busy
  BY DEF ClaimEmail, At, Busy
<1> PICK x : x = Whom(w)
  OBVIOUS
<1> PICK k : k = KeyOf(w, "email")
  OBVIOUS
<1> DEFINE c == Claimable(row[k])
           r == [worker[w] EXCEPT !.pc = "inApp", !.claimed = c]
<1>1. /\ x \in Event \X Person /\ k = <<x[1], x[2], "email">>
      /\ worker[w] \in Job /\ worker \in [Worker -> Job]
      /\ KnowsWhom(w) /\ Owes(w) /\ \A y \in Event \X Person : Backed(y)
  BY <1>0, BusyWithSomebody
<1>2. k \in Key /\ EmailRow(x) = row[k] /\ row[k] \in Row
  <2>1. k \in Key
    BY <1>1 DEF Key, Channel
  <2> QED
    BY <1>1, <2>1 DEF EmailRow, DeliveriesAreSound, DeliveryTypeOK
<1>3. c \in BOOLEAN
  BY DEF Claimable
<1>4. worker' = [worker EXCEPT ![w] = r]
  BY <1>1 DEF ClaimEmail
<1> HIDE DEF c
<1>5. /\ r \in Job /\ r.pc = "inApp" /\ r.claimed = c /\ r.event = worker[w].event
      /\ r.person = worker[w].person /\ r.channels = worker[w].channels
      /\ r.owed = worker[w].owed
  BY <1>1, <1>3 DEF Job, Busy
<1> HIDE DEF r
<1>6. Advances(w, "inApp") /\ worker'[w] = r
  BY <1>1, <1>4, <1>5, OneWorkerMoves DEF Advances
<1>7. IF c THEN WritesEmail(x, "queued") ELSE UNCHANGED row
  <2>1. row' = IF c THEN [row EXCEPT ![<<x[1], x[2], "email">>].status = "queued"] ELSE row
    BY <1>1 DEF ClaimEmail, c
  <2> QED
    BY <1>1, <2>1, EmailWrite DEF DeliveriesAreSound
<1>8. /\ UNCHANGED <<message, enabled, pool, edits, accepted, promised, payload>>
      /\ \A y \in Event \X Person : accepted'[y] >= accepted[y] /\ accepted'[y] \in Nat
  BY DEF ClaimEmail, DeliveriesAreSound, DeliveryTypeOK
<1>9. /\ excuse' \in [Event \X Person -> Nat]
      /\ \A y \in Event \X Person :
           excuse'[y] = IF y = x /\ row[k].status = "queued" /\ row[k].old
                          THEN excuse[y] + 1 ELSE excuse[y]
  <2>1. excuse \in [Event \X Person -> Nat]
    BY DEF DeliveriesAreSound, DeliveryTypeOK
  <2>2. excuse' = IF row[k].status = "queued" /\ row[k].old
                    THEN [excuse EXCEPT ![x] = @ + 1] ELSE excuse
    BY DEF ClaimEmail
  <2> QED
    BY <1>1, <2>1, <2>2
<1>10. DeliveryTypeOK'
  <2>1. row' \in [Key -> Row]
    BY <1>7 DEF WritesEmail, DeliveriesAreSound, DeliveryTypeOK
  <2> QED
    BY <1>6, <1>8, <1>9, <2>1
       DEF DeliveriesAreSound, DeliveryTypeOK, Advances, OthersStay, Job, Busy
<1>11. /\ KeepsRows /\ InAppRowsAreWhole' /\ SentWasAccepted'
       /\ \A y \in Event \X Person :
            EmailRow(y)'.status = IF y = x /\ c THEN "queued" ELSE EmailRow(y).status
  <2>1. CASE c
    BY <1>1, <1>7, <1>8, <2>1, EmailWriteIsSound DEF WritesEmail
  <2>2. CASE ~c
    BY <1>7, <1>8, <2>2, NoWriteIsSound
  <2> QED
    BY <2>1, <2>2
<1>12. NobodyIsPassedOver'
  BY <1>8, <1>11 DEF NobodyIsPassedOver, KeepsRows, Kept, DeliveriesAreSound, DeliveryTypeOK
<1>13. KnowsWhom(w)'
  BY <1>0, <1>1, <1>5, <1>6 DEF KnowsWhom, Busy, Sending
<1>14. Owes(w)'
  <2>1. row'[k].status # "absent"
    <3>1. EmailRow(x)' = row'[k]
      BY <1>1 DEF EmailRow
    <3>2. EmailRow(x)'.status # "absent"
      BY <1>1, <1>2, <1>11 DEF c, Claimable
    <3> QED
      BY <3>1, <3>2
  <2>2. k[3] = "email" /\ k[3] # "inApp"
    BY <1>1
  <2>3. Kept(k)'
    BY <2>1, <2>2 DEF Kept
  <2>4. worker[w].owed \subseteq Key
    BY <1>1 DEF Job
  <2>5. KeyOf(w, "inApp")' = KeyOf(w, "inApp")
    BY <1>6 DEF Advances, KeyOf
  <2> SUFFICES ASSUME NEW l \in worker[w].owed
               PROVE  Kept(l)' \/ (l = KeyOf(w, "inApp") /\ "inApp" \in worker[w].channels)
    BY <1>5, <1>6, <2>5 DEF Owes
  <2> QED
    BY <1>0, <1>1, <1>11, <2>3, <2>4 DEF Owes, KeepsRows
<1>15. AttemptsAreBacked'
  <2> SUFFICES ASSUME NEW y \in Event \X Person PROVE Backed(y)'
    BY DEF AttemptsAreBacked
  <2>1. Backed(y) /\ DeliveryTypeOK /\ excuse'[y] >= excuse[y]
    BY <1>1, <1>9 DEF DeliveriesAreSound, DeliveryTypeOK
  <2>2. CASE y # x
    <3>1. w \notin Attempts(y)'
      BY <1>6, <2>2, AdvanceKeepsOthers
    <3> QED
      BY <1>6, <1>8, <1>10, <1>11, <2>1, <2>2, <3>1, StaysBacked DEF Advances
  <2>3. CASE y = x
    <3>1. w \notin Attempts(x) /\ (w \in Attempts(x)' => c)
      BY <1>0, <1>5, <1>6 DEF Attempts
    <3>2. CASE ~c
      BY <1>6, <1>8, <1>10, <1>11, <2>1, <2>3, <3>1, <3>2, StaysBacked DEF Advances
    <3>3. CASE c
      <4>1. Claims(x)' = 1 /\ Claims(x) \in {0, 1}
        BY <1>1, <1>11, <3>3 DEF Claims
      <4>2. \/ Claims(x) = 0
            \/ excuse'[x] = excuse[x] + 1
        BY <1>1, <1>2, <1>9, <3>3 DEF Claims, c, Claimable
      <4>3. excuse[x] \in Nat /\ accepted[x] \in Nat /\ accepted'[x] = accepted[x]
            /\ excuse'[x] >= excuse[x] /\ excuse'[x] \in Nat
        BY <1>1, <1>8, <1>9 DEF DeliveriesAreSound, DeliveryTypeOK
      <4>4. accepted'[x] + (IF w \in Attempts(x)' THEN 1 ELSE 0) + excuse[x] + Claims(x)
              <= accepted[x] + (IF w \in Attempts(x) THEN 1 ELSE 0) + excuse'[x] + Claims(x)'
        BY <3>1, <4>1, <4>2, <4>3
      <4> QED
        BY <1>6, <1>10, <2>1, <2>3, <4>4, BackedAfter DEF Advances
    <3> QED
      BY <3>2, <3>3
  <2> QED
    BY <2>2, <2>3
<1> QED
  BY <1>6, <1>8, <1>10, <1>11, <1>12, <1>13, <1>14, <1>15, WorkerStepIsSound DEF Advances

(* The row of the notification centre, with its mark.                      *)
LEMMA RecordInAppKeeps ==
  ASSUME DeliveriesAreSound, NEW w \in Worker, RecordInApp(w), UNCHANGED payload
  PROVE  DeliveriesAreSound'
<1>0. worker[w].pc = "inApp" /\ worker[w].pc \in Busy
  BY DEF RecordInApp, At, Busy
<1> PICK x : x = Whom(w)
  OBVIOUS
<1> PICK k : k = KeyOf(w, "inApp")
  OBVIOUS
<1>1. /\ x \in Event \X Person /\ k = <<x[1], x[2], "inApp">>
      /\ worker[w] \in Job /\ worker \in [Worker -> Job]
      /\ KnowsWhom(w) /\ Owes(w) /\ \A y \in Event \X Person : Backed(y)
  BY <1>0, BusyWithSomebody
<1>2. k \in Key /\ k[3] = "inApp" /\ row[k] \in Row /\ row[k].status \in {"absent", "sent"}
  <2>1. k \in Key
    BY <1>1 DEF Key, Channel
  <2>2. row[k] \in Row
    BY <2>1 DEF DeliveriesAreSound, DeliveryTypeOK
  <2> QED
    BY <1>1, <2>1, <2>2 DEF DeliveriesAreSound, InAppRowsAreWhole
<1>3. PICK pc : pc = AfterInApp(w)
  OBVIOUS
<1>4. pc \in {"send", "next"} /\ (pc = "send" <=> worker[w].claimed)
  BY <1>1, <1>3 DEF AfterInApp, Job
<1>5. Advances(w, pc) /\ worker'[w].claimed = worker[w].claimed
  BY <1>3, <1>4, GotoAdvances DEF RecordInApp, Busy
<1>6. /\ row' \in [Key -> Row]
      /\ \A l \in Key \ {k} : row'[l] = row[l]
      /\ row'[k].status = IF "inApp" \in worker[w].channels THEN "sent" ELSE row[k].status
  <2>1. row \in [Key -> Row]
    BY DEF DeliveriesAreSound, DeliveryTypeOK
  <2> DEFINE r == [row[k] EXCEPT !.status = "sent"]
  <2>2. r \in Row /\ r.status = "sent"
    BY <1>2 DEF Row
  <2>3. row' = IF "inApp" \in worker[w].channels /\ Claimable(row[k])
                 THEN [row EXCEPT ![k] = r] ELSE row
    BY DEF RecordInApp
  <2>4. ~Claimable(row[k]) => row[k].status = "sent"
    BY <1>2 DEF Claimable
  <2> HIDE DEF r
  <2> QED
    BY <1>2, <2>1, <2>2, <2>3, <2>4
<1>7. /\ UNCHANGED <<message, enabled, pool, edits, accepted, excuse, promised, payload>>
      /\ \A y \in Event \X Person : /\ accepted'[y] >= accepted[y] /\ accepted'[y] \in Nat
                                    /\ excuse'[y] >= excuse[y] /\ excuse'[y] = excuse[y]
  BY DEF RecordInApp, DeliveriesAreSound, DeliveryTypeOK
<1>8. DeliveryTypeOK'
  BY <1>5, <1>6, <1>7 DEF DeliveriesAreSound, DeliveryTypeOK, Advances, OthersStay, Job, Busy
<1>9. KeepsRows
  BY <1>2, <1>6 DEF KeepsRows, Kept
<1>10. InAppRowsAreWhole'
  <2> SUFFICES ASSUME NEW e \in Event, NEW p \in Person
               PROVE  row'[<<e, p, "inApp">>].status \in {"absent", "sent"}
    BY DEF InAppRowsAreWhole
  <2>1. <<e, p, "inApp">> \in Key /\ row[<<e, p, "inApp">>].status \in {"absent", "sent"}
    BY DEF Key, Channel, DeliveriesAreSound, InAppRowsAreWhole
  <2> QED
    BY <1>2, <1>6, <2>1
<1>11. \A e \in Event, p \in Person : row'[<<e, p, "email">>] = row[<<e, p, "email">>]
  BY <1>2, <1>6 DEF Key, Channel
<1>12. SentWasAccepted'
  BY <1>7, <1>11 DEF SentWasAccepted, DeliveriesAreSound
<1>13. NobodyIsPassedOver'
  BY <1>7, <1>9 DEF NobodyIsPassedOver, KeepsRows, Kept, DeliveriesAreSound, DeliveryTypeOK
<1>14. KnowsWhom(w)'
  BY <1>0, <1>1, <1>4, <1>5 DEF KnowsWhom, Advances, Busy, Sending
<1>15. Owes(w)'
  <2>1. worker[w].owed \subseteq Key /\ worker'[w].owed = worker[w].owed
    BY <1>1, <1>5 DEF Job, Advances
  <2> SUFFICES ASSUME NEW l \in worker[w].owed PROVE Kept(l)'
    BY <2>1 DEF Owes
  <2>2. CASE Kept(l)
    BY <1>9, <2>1, <2>2 DEF KeepsRows
  <2>3. CASE l = k /\ "inApp" \in worker[w].channels
    BY <1>2, <1>6, <2>3 DEF Kept
  <2> QED
    BY <1>0, <1>1, <2>2, <2>3 DEF Owes
<1>16. AttemptsAreBacked'
  <2> SUFFICES ASSUME NEW y \in Event \X Person PROVE Backed(y)'
    BY DEF AttemptsAreBacked
  <2>1. w \in Attempts(y)' => w \in Attempts(y)
    BY <1>0, <1>4, <1>5 DEF Attempts, Advances, Whom
  <2>2. EmailRow(y)' = EmailRow(y)
    BY <1>11 DEF EmailRow
  <2> QED
    BY <1>1, <1>5, <1>7, <1>8, <2>1, <2>2, StaysBacked DEF Advances, DeliveriesAreSound
<1> QED
  BY <1>5, <1>7, <1>8, <1>9, <1>10, <1>12, <1>13, <1>14, <1>15, <1>16, WorkerStepIsSound
     DEF Advances

(* The row of an email in hand is marked, and the worker moves on or lets  *)
(* go: an email that failed gives its claim back.                          *)
LEMMA MarkKeeps ==
  ASSUME DeliveriesAreSound, NEW w \in Worker, worker[w].pc \in Sending, OthersStay(w),
         NEW status \in {"sent", "failed"},
         row' = [row EXCEPT ![KeyOf(w, "email")].status = status],
         status = "sent" => worker[w].pc = "markSent",
         KnowsWhom(w)', KeepsRows => Owes(w)', \A y : w \notin Attempts(y)',
         status = "failed" => worker[w].pc # "markSent",
         UNCHANGED <<message, enabled, pool, edits, accepted, excuse, promised, payload>>
  PROVE  DeliveriesAreSound'
<1> PICK x : x = Whom(w)
  OBVIOUS
<1>1. /\ x \in Event \X Person /\ KeyOf(w, "email") = <<x[1], x[2], "email">>
      /\ KnowsWhom(w) /\ \A y \in Event \X Person : Backed(y)
  BY BusyWithSomebody DEF Busy, Sending
<1>2. WritesEmail(x, status)
  BY <1>1, EmailWrite DEF DeliveriesAreSound
<1>3. \A y \in Event \X Person : /\ accepted'[y] >= accepted[y] /\ accepted'[y] \in Nat
                                 /\ excuse'[y] >= excuse[y] /\ excuse[y] \in Nat
  BY DEF DeliveriesAreSound, DeliveryTypeOK
<1>4. KeepsRows /\ InAppRowsAreWhole' /\ SentWasAccepted'
  <2>1. status = "sent" => accepted'[x] > 0
    BY <1>1 DEF KnowsWhom
  <2> QED
    BY <1>1, <1>2, <1>3, <2>1, EmailWriteIsSound
<1>5. NobodyIsPassedOver'
  BY <1>4 DEF NobodyIsPassedOver, KeepsRows, Kept, DeliveriesAreSound, DeliveryTypeOK
<1>6. DeliveryTypeOK'
  BY <1>2 DEF WritesEmail, DeliveriesAreSound, DeliveryTypeOK, OthersStay, Job, Busy
<1>7. AttemptsAreBacked'
  <2> SUFFICES ASSUME NEW y \in Event \X Person PROVE Backed(y)'
    BY DEF AttemptsAreBacked
  <2>1. EmailRow(y)'.status = IF y = x THEN status ELSE EmailRow(y).status
    BY <1>2 DEF WritesEmail
  <2>2. w \in Attempts(y) <=> y = x /\ worker[w].pc # "markSent"
    BY <1>1 DEF Attempts, KnowsWhom, Sending
  <2>3. Claims(y) \in {0, 1}
        /\ Claims(y)' = IF y # x THEN Claims(y) ELSE IF status = "sent" THEN 1 ELSE 0
    BY <2>1 DEF Claims
  <2>4. accepted'[y] + (IF w \in Attempts(y)' THEN 1 ELSE 0) + excuse[y] + Claims(y)
          <= accepted[y] + (IF w \in Attempts(y) THEN 1 ELSE 0) + excuse'[y] + Claims(y)'
    BY <1>3, <2>2, <2>3
  <2> QED
    BY <1>1, <1>6, <2>4, BackedAfter DEF DeliveriesAreSound
<1> QED
  BY <1>3, <1>4, <1>5, <1>6, <1>7, WorkerStepIsSound

LEMMA MarksKeep ==
  ASSUME DeliveriesAreSound, NEW w \in Worker, UNCHANGED payload,
         RecipientIsGone(w) \/ MarkNotificationSent(w) \/ MarkNotificationFailed(w)
  PROVE  DeliveriesAreSound'
<1>1. /\ worker \in [Worker -> Job] /\ worker[w].pc \in Sending
      /\ worker[w].pc \in {"send", "markSent", "markFailed"}
  BY WorkersAreTyped DEF DeliveriesAreSound, RecipientIsGone, MarkNotificationSent,
                         MarkNotificationFailed, At, Sending
<1>2. KnowsWhom(w) /\ Owes(w)
  BY DEF DeliveriesAreSound, WorkersKnowWhom, OwedIsInHand
<1>3. ASSUME Goto(w, "next")
      PROVE  /\ OthersStay(w) /\ KnowsWhom(w)' /\ (KeepsRows => Owes(w)')
             /\ \A y : w \notin Attempts(y)'
  <2>1. Advances(w, "next")
    BY <1>3, GotoAdvances
  <2>2. KeepsRows => Owes(w)'
    BY <1>1, <1>2, <2>1, AdvanceOwes
  <2> QED
    BY <1>1, <1>2, <2>1, <2>2 DEF Advances, KnowsWhom, Attempts, Busy, Sending
<1>4. CASE RecipientIsGone(w)
  BY <1>1, <1>3, <1>4, MarkKeeps DEF RecipientIsGone, At
<1>5. CASE MarkNotificationSent(w)
  BY <1>1, <1>3, <1>5, MarkKeeps DEF MarkNotificationSent, At
<1>6. CASE MarkNotificationFailed(w)
  <2>1. worker'[w] = Idle /\ OthersStay(w)
    BY <1>1, <1>6, IdleIsJob, OneWorkerMoves DEF MarkNotificationFailed
  <2> QED
    BY <1>1, <1>6, <2>1, IdleIsSound, MarkKeeps DEF MarkNotificationFailed, At
<1> QED
  BY <1>4, <1>5, <1>6

(* An email that may have reached the provider costs its attempt, or       *)
(* brings an excuse.                                                       *)
LEMMA SendsKeep ==
  ASSUME DeliveriesAreSound, NEW w \in Worker, UNCHANGED payload,
         Send(w) \/ SendThrows(w) \/ MarkSentThrows(w)
  PROVE  DeliveriesAreSound'
<1> PICK x : x = Whom(w)
  OBVIOUS
<1>1. worker[w].pc \in {"send", "markSent"} /\ worker[w].pc \in Sending /\ worker[w].pc \in Busy
  BY DEF Send, SendThrows, MarkSentThrows, At, Sending, Busy
<1>2. /\ x \in Event \X Person /\ KnowsWhom(w) /\ Owes(w)
      /\ \A y \in Event \X Person : Backed(y)
  BY <1>1, BusyWithSomebody
<1>3. /\ accepted \in [Event \X Person -> Nat] /\ excuse \in [Event \X Person -> Nat]
  BY DEF DeliveriesAreSound, DeliveryTypeOK
<1>4. PICK pc \in {"markSent", "markFailed"}, got \in {0, 1}, sorry \in {0, 1} :
        /\ Goto(w, pc)
        /\ accepted' = [accepted EXCEPT ![x] = @ + got]
        /\ excuse' = [excuse EXCEPT ![x] = @ + sorry]
        /\ \/ worker[w].pc = "send" /\ pc = "markSent" /\ got = 1
           \/ worker[w].pc = "send" /\ pc = "markFailed" /\ got = sorry
           \/ worker[w].pc = "markSent" /\ pc = "markFailed" /\ sorry = 1 /\ got = 0
  <2>1. CASE Send(w)
    <3>1. excuse' = [excuse EXCEPT ![x] = @ + 0]
      BY <1>2, <1>3, <2>1 DEF Send
    <3> QED
      BY <2>1, <3>1 DEF Send, At
  <2>2. CASE SendThrows(w)
    BY <2>2 DEF SendThrows, At
  <2>3. CASE MarkSentThrows(w)
    <3>1. accepted' = [accepted EXCEPT ![x] = @ + 0]
      BY <1>2, <1>3, <2>3 DEF MarkSentThrows
    <3> QED
      BY <2>3, <3>1 DEF MarkSentThrows, At
  <2> QED
    BY <2>1, <2>2, <2>3
<1>5. Advances(w, pc) /\ worker'[w].claimed = worker[w].claimed /\ Whom(w)' = x
  BY <1>4, GotoAdvances DEF Busy, Advances, Whom
<1>6. /\ accepted' \in [Event \X Person -> Nat] /\ excuse' \in [Event \X Person -> Nat]
      /\ \A y \in Event \X Person :
           /\ accepted'[y] = IF y = x THEN accepted[y] + got ELSE accepted[y]
           /\ excuse'[y] = IF y = x THEN excuse[y] + sorry ELSE excuse[y]
           /\ accepted[y] \in Nat /\ excuse[y] \in Nat
  BY <1>2, <1>3, <1>4
<1>7. UNCHANGED <<message, row, enabled, pool, edits, promised, payload>>
  BY DEF Send, SendThrows, MarkSentThrows
<1>8. DeliveryTypeOK'
  BY <1>5, <1>6, <1>7 DEF DeliveriesAreSound, DeliveryTypeOK, Advances, OthersStay, Job, Busy
<1>9. \A y \in Event \X Person : accepted'[y] >= accepted[y] /\ accepted'[y] \in Nat
  BY <1>6
<1>10. /\ KeepsRows /\ InAppRowsAreWhole' /\ SentWasAccepted' /\ NobodyIsPassedOver'
       /\ \A y \in Event \X Person : EmailRow(y)' = EmailRow(y)
  BY <1>7, <1>9, NoWriteIsSound DEF DeliveriesAreSound, NobodyIsPassedOver
<1>11. KnowsWhom(w)'
  <2>1. pc = "markSent" => accepted'[x] > 0
    BY <1>2, <1>4, <1>6
  <2> QED
    BY <1>1, <1>2, <1>4, <1>5, <2>1 DEF KnowsWhom, Advances, Busy, Sending
<1>12. Owes(w)'
  BY <1>1, <1>2, <1>5, <1>10, AdvanceOwes
<1>13. AttemptsAreBacked'
  <2> SUFFICES ASSUME NEW y \in Event \X Person PROVE Backed(y)'
    BY DEF AttemptsAreBacked
  <2>1. /\ w \in Attempts(y) <=> y = x /\ worker[w].pc = "send"
        /\ w \in Attempts(y)' <=> y = x /\ pc = "markFailed"
    BY <1>1, <1>2, <1>4, <1>5 DEF Attempts, KnowsWhom, Advances, Sending
  <2>2. Claims(y) \in {0, 1} /\ Claims(y)' = Claims(y)
    BY <1>10 DEF Claims
  <2>3. accepted'[y] + (IF w \in Attempts(y)' THEN 1 ELSE 0) + excuse[y] + Claims(y)
          <= accepted[y] + (IF w \in Attempts(y) THEN 1 ELSE 0) + excuse'[y] + Claims(y)'
    BY <1>4, <1>6, <2>1, <2>2
  <2> QED
    BY <1>2, <1>5, <1>8, <2>3, BackedAfter DEF DeliveriesAreSound, Advances
<1> QED
  BY <1>5, <1>8, <1>9, <1>10, <1>11, <1>12, <1>13, WorkerStepIsSound DEF Advances

-----------------------------------------------------------------------------
(* Steps of the queue, the clock and people.                               *)

(* What no worker does changes at most the age of rows.                    *)
LEMMA OthersKeep ==
  ASSUME DeliveriesAreSound, DeliveryTypeOK',
         \A k \in Key : row'[k].status = row[k].status,
         UNCHANGED <<worker, accepted, excuse, promised>>
  PROVE  DeliveriesAreSound'
<1>1. \A k \in Key : Kept(k)' <=> Kept(k)
  BY DEF Kept
<1>2. \A x \in Event \X Person : EmailRow(x)'.status = EmailRow(x).status
  BY DEF EmailRow, Key, Channel
<1>3. WorkersKnowWhom'
  BY DEF WorkersKnowWhom, KnowsWhom, Whom, DeliveriesAreSound
<1>4. InAppRowsAreWhole' /\ SentWasAccepted'
  <2>1. \A e \in Event, p \in Person :
          /\ row'[<<e, p, "inApp">>].status = row[<<e, p, "inApp">>].status
          /\ row'[<<e, p, "email">>].status = row[<<e, p, "email">>].status
    BY DEF Key, Channel
  <2> QED
    BY <2>1 DEF InAppRowsAreWhole, SentWasAccepted, DeliveriesAreSound
<1>5. AttemptsAreBacked'
  <2> SUFFICES ASSUME NEW x \in Event \X Person PROVE Backed(x)'
    BY DEF AttemptsAreBacked
  <2>1. Attempts(x)' = Attempts(x) /\ Claims(x)' = Claims(x)
    BY <1>2 DEF Attempts, Whom, Claims
  <2> QED
    BY <2>1 DEF Backed, AttemptsAreBacked, DeliveriesAreSound
<1>6. OwedIsInHand' /\ NobodyIsPassedOver'
  <2>1. promised \subseteq Key /\ \A w \in Worker : worker[w].owed \subseteq Key
    BY WorkersAreTyped DEF DeliveriesAreSound, DeliveryTypeOK, Job
  <2>2. NobodyIsPassedOver'
    BY <1>1, <2>1 DEF NobodyIsPassedOver, Kept, DeliveriesAreSound
  <2>3. ASSUME NEW w \in Worker PROVE Owes(w)'
    BY <1>1, <2>1 DEF DeliveriesAreSound, OwedIsInHand, Owes, KeyOf
  <2> QED
    BY <2>2, <2>3 DEF OwedIsInHand
<1> QED
  BY <1>3, <1>4, <1>5, <1>6 DEF DeliveriesAreSound

LEMMA QueueAndPeopleKeep ==
  ASSUME DeliveriesAreSound, UNCHANGED payload,
         \/ \E e \in Event : Publish(e) \/ BecomeVisible(e) \/ DeadLetter(e)
         \/ PoolChanges \/ \E p \in Person : SetPreference(p)
         \/ \E k \in Key : LeaseRunsOut(k)
  PROVE  DeliveriesAreSound'
<1>1. DeliveryTypeOK
  BY DEF DeliveriesAreSound
<1>2. ASSUME NEW e \in Event, Publish(e) \/ BecomeVisible(e) \/ DeadLetter(e)
      PROVE  DeliveriesAreSound'
  <2>1. message \in [Event -> [place : Place, receives : 0..MaxReceives]]
    BY <1>1 DEF DeliveryTypeOK
  <2>2. message' \in [Event -> [place : Place, receives : 0..MaxReceives]]
    BY <1>2, <2>1 DEF Publish, BecomeVisible, DeadLetter, Place
  <2>3. UNCHANGED <<row, enabled, pool, edits, worker, accepted, excuse, promised>>
    BY <1>2 DEF Publish, BecomeVisible, DeadLetter
  <2>4. DeliveryTypeOK'
    BY <1>1, <2>2, <2>3 DEF DeliveryTypeOK
  <2> QED
    BY <2>3, <2>4, OthersKeep
<1>3. CASE PoolChanges
  <2>1. pool' \subseteq Person /\ edits' \in 0..MaxEdits
    BY <1>1, <1>3, DeliveryAssumption DEF PoolChanges, Edit, DeliveryTypeOK
  <2>2. UNCHANGED <<message, row, enabled, worker, accepted, excuse, promised>>
    BY <1>3 DEF PoolChanges
  <2>3. DeliveryTypeOK'
    BY <1>1, <2>1, <2>2 DEF DeliveryTypeOK
  <2> QED
    BY <2>2, <2>3, OthersKeep
<1>4. ASSUME NEW p \in Person, SetPreference(p)
      PROVE  DeliveriesAreSound'
  <2>1. edits' \in 0..MaxEdits
    BY <1>1, <1>4, DeliveryAssumption DEF SetPreference, Edit, DeliveryTypeOK
  <2>2. enabled' \in [Person -> SUBSET Channel]
    BY <1>1, <1>4, DeliveryAssumption DEF SetPreference, DeliveryTypeOK, Channel
  <2>3. UNCHANGED <<message, row, pool, worker, accepted, excuse, promised>>
    BY <1>4 DEF SetPreference
  <2>4. DeliveryTypeOK'
    BY <1>1, <2>1, <2>2, <2>3 DEF DeliveryTypeOK
  <2> QED
    BY <2>3, <2>4, OthersKeep
<1>5. ASSUME NEW k \in Key, LeaseRunsOut(k)
      PROVE  DeliveriesAreSound'
  <2>1. row \in [Key -> Row]
    BY <1>1 DEF DeliveryTypeOK
  <2> DEFINE r == [row[k] EXCEPT !.old = TRUE]
  <2>5. r \in Row /\ r.status = row[k].status
    BY <2>1 DEF Row
  <2>6. row' = [row EXCEPT ![k] = r]
    BY <1>5 DEF LeaseRunsOut
  <2> HIDE DEF r
  <2>2. row' \in [Key -> Row] /\ \A l \in Key : row'[l].status = row[l].status
    BY <2>1, <2>5, <2>6
  <2>3. UNCHANGED <<message, enabled, pool, edits, worker, accepted, excuse, promised>>
    BY <1>5 DEF LeaseRunsOut
  <2>4. DeliveryTypeOK'
    BY <1>1, <2>2, <2>3 DEF DeliveryTypeOK
  <2> QED
    BY <2>2, <2>3, <2>4, OthersKeep
<1> QED
  BY <1>2, <1>3, <1>4, <1>5

-----------------------------------------------------------------------------
(* Deliveries altogether, and what they do to links.                       *)

LEMMA DeliveryStepIsSound ==
  ASSUME DeliveriesAreSound, DeliveryNext, UNCHANGED payload
  PROVE  DeliveriesAreSound'
<1>1. ASSUME NEW w \in Worker, HandlerStep(w)
      PROVE  DeliveriesAreSound'
  <2>1. NotifyStep(w)
    BY <1>1 DEF HandlerStep, Handles, HandleTaskCreated, HandleTaskEscalated,
                HandleTaskReminderDue, HandleCaseUnassigned, HandleCaseCommented
  <2> QED
    BY <2>1, NextRecipientKeeps, ClaimEmailKeeps, RecordInAppKeeps, MarksKeep, SendsKeep,
       FinishKeeps DEF NotifyStep
<1>2. ASSUME NEW w \in Worker, NEW e \in Event, Receive(w, e)
      PROVE  DeliveriesAreSound'
  BY <1>2, ReceiveKeeps
<1>3. ASSUME NEW w \in Worker, Abandon(w)
      PROVE  DeliveriesAreSound'
  BY <1>3, AbandonKeeps
<1> QED
  BY <1>1, <1>2, <1>3, QueueAndPeopleKeep DEF DeliveryNext

(* The provider never takes an email back.                                 *)
LEMMA AcceptedGrows ==
  ASSUME DeliveriesAreSound, DeliveryNext
  PROVE  \A x \in Event \X Person :
           accepted[x] \in Nat /\ accepted'[x] \in Nat /\ accepted'[x] >= accepted[x]
<1>1. accepted \in [Event \X Person -> Nat]
  BY DEF DeliveriesAreSound, DeliveryTypeOK
<1>2. \/ UNCHANGED accepted
      \/ \E w \in Worker, got \in {0, 1} :
           accepted' = [accepted EXCEPT ![Whom(w)] = @ + got]
  <2>1. ASSUME NEW w \in Worker, HandlerStep(w), ~UNCHANGED accepted
        PROVE  \E got \in {0, 1} : accepted' = [accepted EXCEPT ![Whom(w)] = @ + got]
    <3>1. NotifyStep(w)
      BY <2>1 DEF HandlerStep, Handles, HandleTaskCreated, HandleTaskEscalated,
                  HandleTaskReminderDue, HandleCaseUnassigned, HandleCaseCommented
    <3>2. Send(w) \/ SendThrows(w)
      BY <2>1, <3>1 DEF NotifyStep, NextRecipient, ClaimEmail, RecordInApp, RecipientIsGone,
                        MarkNotificationSent, MarkSentThrows, MarkNotificationFailed, Finish
    <3> QED
      BY <3>2 DEF Send, SendThrows
  <2> QED
    BY <2>1 DEF DeliveryNext, Publish, BecomeVisible, DeadLetter, Receive, Abandon,
                LeaseRunsOut, PoolChanges, SetPreference
<1> QED
  BY <1>1, <1>2

(* A link that goes out has its email: what is minted never exceeds what   *)
(* the provider has accepted.                                              *)
LEMMA MintedLinksAreMailed ==
  ASSUME DeliveriesAreSound, LinksAreSound, Delivers(DeliveryNext)
  PROVE  LinksAreSound'
<1>1. UNCHANGED <<payload, task, request, decided>> /\ CreateTaskDecisionToken
  BY DEF Delivers
<1>2. link \in [Event -> [live : Nat, used : Nat]]
  BY DEF LinksAreSound, LinkTypeOK
<1>3. ASSUME NEW e \in Event
      PROVE  /\ Mailed(e) \in Nat
             /\ Direct(e) => Mailed(e) = accepted'[<<e, payload[e].to>>]
                                         - accepted[<<e, payload[e].to>>]
             /\ Direct(e) => <<e, payload[e].to>> \in Event \X Person
  <2>1. payload[e] \in Payloads
    BY DEF DeliveriesAreSound, DeliveryTypeOK
  <2>2. Direct(e) => <<e, payload[e].to>> \in Event \X Person
    BY <2>1, DeliveryAssumption DEF Direct
  <2> QED
    BY <2>2, AcceptedGrows DEF Mailed, Delivers
<1>4. ASSUME NEW e \in Event
      PROVE  /\ link'[e] \in [live : Nat, used : Nat]
             /\ link'[e].live = link[e].live + Mailed(e) /\ link'[e].used = link[e].used
  <2> DEFINE r == [link[e] EXCEPT !.live = @ + Mailed(e)]
             n == link[e].live + Mailed(e)
  <2>1. n \in Nat
    <3>1. link[e].live \in Nat
      BY <1>2
    <3>2. Mailed(e) \in Nat
      BY <1>3
    <3> QED
      BY <3>1, <3>2
  <2>2. r = [link[e] EXCEPT !.live = n]
    OBVIOUS
  <2> HIDE DEF n, r
  <2>3. r \in [live : Nat, used : Nat] /\ r.live = n /\ r.used = link[e].used
    BY <1>2, <2>1, <2>2
  <2>4. link'[e] = r
    BY <1>1 DEF CreateTaskDecisionToken, r
  <2> QED
    BY <2>3, <2>4 DEF n
<1>5. LinkTypeOK'
  <2>1. link' \in [Event -> [live : Nat, used : Nat]]
    BY <1>1, <1>4 DEF CreateTaskDecisionToken
  <2> QED
    BY <1>1, <2>1 DEF LinksAreSound, LinkTypeOK
<1>6. DecisionsMoveTheVersion'
  BY <1>1 DEF LinksAreSound, DecisionsMoveTheVersion
<1>7. LinksOpenOnce'
  <2> SUFFICES ASSUME NEW e \in Event, Direct(e)
               PROVE  link'[e].live + link'[e].used <= accepted'[<<e, payload[e].to>>]
    BY <1>1 DEF LinksOpenOnce, Direct
  <2>1. link[e].live + link[e].used <= accepted[<<e, payload[e].to>>]
    BY DEF LinksAreSound, LinksOpenOnce
  <2>2. accepted[<<e, payload[e].to>>] \in Nat /\ accepted'[<<e, payload[e].to>>] \in Nat
    BY <1>3, AcceptedGrows DEF Delivers
  <2>3. link[e].live \in Nat /\ link[e].used \in Nat
    BY <1>2
  <2>4. Mailed(e) = accepted'[<<e, payload[e].to>>] - accepted[<<e, payload[e].to>>]
    BY <1>3
  <2> HIDE DEF Mailed
  <2> QED
    BY <1>4, <2>1, <2>2, <2>3, <2>4
<1> QED
  BY <1>5, <1>6, <1>7 DEF LinksAreSound

(* What confirming, deciding and expiring do: versions are compared.       *)
LEMMA LinkStepIsSound ==
  ASSUME LinksAreSound, DeliveryTypeOK, LinkNext, UNCHANGED deliveryVars
  PROVE  LinksAreSound'
<1>1. /\ link \in [Event -> [live : Nat, used : Nat]]
      /\ task \in [Event -> [status : {"open", "completed", "cancelled"}, version : 0..1]]
      /\ request \in [Request -> [pc : {"idle", "read", "commit"},
                                  event : Event \cup {None}, version : 0..1]]
      /\ decided \in [Event -> Nat]
      /\ DecisionsMoveTheVersion /\ LinksOpenOnce
  BY DEF LinksAreSound, LinkTypeOK
<1>2. UNCHANGED <<payload, accepted>>
  BY DEF deliveryVars
<1>3. ASSUME NEW e \in Event, NEW r \in [live : Nat, used : Nat],
             link' = [link EXCEPT ![e] = r],
             r.live + r.used <= link[e].live + link[e].used
      PROVE  link' \in [Event -> [live : Nat, used : Nat]] /\ LinksOpenOnce'
  <2>1. link' \in [Event -> [live : Nat, used : Nat]]
    BY <1>1, <1>3
  <2>2. ASSUME NEW f \in Event, Direct(f)
        PROVE  link'[f].live + link'[f].used <= accepted[<<f, payload[f].to>>]
    <3>1. link[f].live + link[f].used <= accepted[<<f, payload[f].to>>]
      BY <1>1, <2>2 DEF LinksOpenOnce
    <3>2. link'[f] = IF f = e THEN r ELSE link[f]
      BY <1>1, <1>3
    <3>3. link'[f].live + link'[f].used <= link[f].live + link[f].used
      BY <1>1, <1>3, <3>2
    <3>4. <<f, payload[f].to>> \in Event \X Person
      BY <2>2, DeliveryAssumption DEF DeliveryTypeOK, Direct
    <3>5. accepted[<<f, payload[f].to>>] \in Nat
      BY <3>4 DEF DeliveryTypeOK
    <3>6. /\ link[f].live + link[f].used \in Nat
          /\ link'[f].live + link'[f].used \in Nat
      BY <1>1, <2>1
    <3> QED
      BY <3>1, <3>3, <3>5, <3>6
  <2> QED
    BY <1>2, <2>1, <2>2 DEF LinksOpenOnce, Direct
<1>4. ASSUME NEW e \in Event, Expire(e)
      PROVE  LinksAreSound'
  <2> DEFINE r == [link[e] EXCEPT !.live = @ - 1]
  <2>1. /\ r \in [live : Nat, used : Nat] /\ link' = [link EXCEPT ![e] = r]
        /\ r.live + r.used <= link[e].live + link[e].used
    BY <1>1, <1>4 DEF Expire
  <2> HIDE DEF r
  <2>2. link' \in [Event -> [live : Nat, used : Nat]] /\ LinksOpenOnce'
    BY <1>3, <2>1
  <2> QED
    BY <1>1, <1>4, <2>2 DEF Expire, LinksAreSound, LinkTypeOK, DecisionsMoveTheVersion
<1>5. ASSUME NEW c \in Request, NEW e \in Event, Confirm(c, e)
      PROVE  LinksAreSound'
  <2> DEFINE r == [live |-> link[e].live - 1, used |-> link[e].used + 1]
  <2>1. /\ r \in [live : Nat, used : Nat] /\ link' = [link EXCEPT ![e] = r]
        /\ r.live + r.used <= link[e].live + link[e].used
    BY <1>1, <1>5 DEF Confirm, MarkTaskDecisionTokenUsed
  <2> HIDE DEF r
  <2>2. link' \in [Event -> [live : Nat, used : Nat]] /\ LinksOpenOnce'
    BY <1>3, <2>1
  <2> DEFINE q == [Ready EXCEPT !.pc = "read", !.event = e]
  <2>6. /\ q \in [pc : {"idle", "read", "commit"}, event : Event \cup {None}, version : 0..1]
        /\ q.event = e /\ q.version = 0
    <3>1. /\ Ready \in [pc : {"idle", "read", "commit"}, event : Event \cup {None},
                        version : 0..1]
          /\ Ready.version = 0
      BY DEF Ready
    <3> QED
      BY <3>1
  <2>3. request' = [request EXCEPT ![c] = q] /\ UNCHANGED <<task, decided>>
    BY <1>5 DEF Confirm
  <2> HIDE DEF q
  <2>4. DecisionsMoveTheVersion'
    BY <1>1, <2>3, <2>6 DEF DecisionsMoveTheVersion
  <2>5. LinkTypeOK'
    BY <1>1, <2>2, <2>3, <2>6 DEF LinkTypeOK
  <2> QED
    BY <2>2, <2>4, <2>5 DEF LinksAreSound
<1>6. ASSUME NEW c \in Request, ReadForDecision(c) \/ RefuseDecision(c)
      PROVE  LinksAreSound'
  <2>1. request[c].pc # "idle" /\ request[c].event \in Event
    BY <1>1, <1>6 DEF ReadForDecision, RefuseDecision, DecisionsMoveTheVersion
  <2>2. PICK r \in [pc : {"idle", "commit"}, event : Event \cup {None}, version : {0}] :
          /\ request' = [request EXCEPT ![c] = r]
          /\ r.pc # "idle" => r.event \in Event
    <3>1. /\ Ready \in [pc : {"idle", "commit"}, event : Event \cup {None}, version : {0}]
          /\ Ready.pc = "idle"
      BY DEF Ready
    <3>2. CASE ReadForDecision(c) /\ task[request[c].event].status = "open"
      <4> DEFINE r == [request[c] EXCEPT !.pc = "commit",
                                         !.version = task[request[c].event].version]
      <4>1. task[request[c].event].version = 0
        BY <1>1, <2>1, <3>2 DEF DecisionsMoveTheVersion
      <4>2. /\ r \in [pc : {"idle", "commit"}, event : Event \cup {None}, version : {0}]
            /\ r.event \in Event
        BY <1>1, <2>1, <4>1
      <4>3. request' = [request EXCEPT ![c] = r]
        BY <3>2 DEF ReadForDecision
      <4> HIDE DEF r
      <4> QED
        BY <4>2, <4>3
    <3>3. CASE RefuseDecision(c)
               \/ (ReadForDecision(c) /\ task[request[c].event].status # "open")
      <4>1. request' = [request EXCEPT ![c] = Ready]
        BY <3>3 DEF ReadForDecision, RefuseDecision
      <4> QED
        BY <3>1, <4>1
    <3> QED
      BY <1>6, <3>2, <3>3
  <2>3. UNCHANGED <<link, task, decided>>
    BY <1>6 DEF ReadForDecision, RefuseDecision
  <2>4. DecisionsMoveTheVersion'
    BY <1>1, <2>2, <2>3 DEF DecisionsMoveTheVersion
  <2>5. LinkTypeOK'
    BY <1>1, <2>2, <2>3 DEF LinkTypeOK
  <2>6. LinksOpenOnce'
    BY <1>1, <1>2, <2>3 DEF LinksOpenOnce, Direct
  <2> QED
    BY <2>4, <2>5, <2>6 DEF LinksAreSound
<1>7. ASSUME NEW e \in Event, NEW status \in {"completed", "cancelled"}, NEW n \in {0, 1},
             task' = [task EXCEPT ![e] = [status |-> status, version |-> 1]],
             task[e].version = 0, decided' = [decided EXCEPT ![e] = @ + n], UNCHANGED link,
             \/ UNCHANGED request
             \/ \E c \in Request : request' = [request EXCEPT ![c] = Ready]
      PROVE  LinksAreSound'
  <2>1. decided[e] = 0
    BY <1>1, <1>7 DEF DecisionsMoveTheVersion
  <2>2. LinkTypeOK'
    BY <1>1, <1>7 DEF LinkTypeOK, Ready
  <2>3. DecisionsMoveTheVersion'
    BY <1>1, <1>7, <2>1 DEF DecisionsMoveTheVersion, Ready
  <2>4. LinksOpenOnce'
    BY <1>1, <1>2, <1>7 DEF LinksOpenOnce, Direct
  <2> QED
    BY <2>2, <2>3, <2>4 DEF LinksAreSound
<1>8. ASSUME NEW c \in Request, CommitDecision(c)
      PROVE  LinksAreSound'
  <2> PICK e : e = request[c].event
    OBVIOUS
  <2>1. e \in Event /\ task[e].version = 0
    BY <1>1, <1>8 DEF CommitDecision, Unchanged, DecisionsMoveTheVersion
  <2> QED
    BY <1>7, <1>8, <2>1 DEF CommitDecision
<1>9. ASSUME NEW e \in Event, DecideTask(e) \/ CloseTask(e)
      PROVE  LinksAreSound'
  <2>1. task[e].version = 0
    BY <1>1, <1>9 DEF DecideTask, CloseTask, DecisionsMoveTheVersion
  <2>2. CASE DecideTask(e)
    BY <1>7, <2>1, <2>2 DEF DecideTask
  <2>3. CASE CloseTask(e)
    <3>1. decided' = [decided EXCEPT ![e] = @ + 0]
      BY <1>1, <2>3 DEF CloseTask
    <3> QED
      BY <1>7, <2>1, <2>3, <3>1 DEF CloseTask
  <2> QED
    BY <1>9, <2>2, <2>3
<1> QED
  BY <1>4, <1>5, <1>6, <1>8, <1>9 DEF LinkNext

-----------------------------------------------------------------------------
(* Theorems.                                                               *)

LEMMA InitIsSound == Init => DeliveryIInv
<1> SUFFICES ASSUME Init PROVE DeliveryIInv
  OBVIOUS
<1>1. DeliveryTypeOK
  <2>1. Idle \in Job
    BY IdleIsJob
  <2> QED
    BY <2>1, DeliveryAssumption DEF Init, DeliveryInit, DeliveryTypeOK, Place, Row, Channel, Job, Busy
<1>2. WorkersKnowWhom /\ OwedIsInHand /\ NobodyIsPassedOver
  BY DEF Init, DeliveryInit, WorkersKnowWhom, KnowsWhom, OwedIsInHand, Owes,
         NobodyIsPassedOver, Idle, Busy, Sending
<1>3. InAppRowsAreWhole /\ SentWasAccepted
  BY DEF Init, DeliveryInit, InAppRowsAreWhole, SentWasAccepted, Key, Channel
<1>4. AttemptsAreBacked
  <2> SUFFICES ASSUME NEW x \in Event \X Person PROVE Backed(x)
    BY DEF AttemptsAreBacked
  <2>1. Attempts(x) = {}
    BY DEF Attempts, Init, DeliveryInit, Idle
  <2>2. accepted[x] = 0 /\ excuse[x] = 0 /\ Claims(x) \in {0, 1}
    BY DEF Init, DeliveryInit, Claims
  <2> QED
    BY <2>1, <2>2, FS_EmptySet DEF Backed
<1>5. LinkTypeOK /\ DecisionsMoveTheVersion
  BY DEF Init, LinkTypeOK, DecisionsMoveTheVersion, Ready
<1>6. LinksOpenOnce
  <2> SUFFICES ASSUME NEW e \in Event, Direct(e)
               PROVE  link[e].live + link[e].used <= accepted[<<e, payload[e].to>>]
    BY DEF LinksOpenOnce
  <2>1. <<e, payload[e].to>> \in Event \X Person
    BY <1>1, DeliveryAssumption DEF DeliveryTypeOK, Direct
  <2> QED
    BY <2>1 DEF Init, DeliveryInit
<1> QED
  BY <1>1, <1>2, <1>3, <1>4, <1>5, <1>6 DEF DeliveryIInv, DeliveriesAreSound, LinksAreSound

LEMMA NextKeepsDeliveryInvariant == DeliveryIInv /\ [Next]_vars => DeliveryIInv'
<1> SUFFICES ASSUME DeliveryIInv, [Next]_vars PROVE DeliveryIInv'
  OBVIOUS
<1>1. DeliveriesAreSound /\ LinksAreSound
  BY DEF DeliveryIInv
<1>2. CASE Delivers(DeliveryNext)
  BY <1>1, <1>2, DeliveryStepIsSound, MintedLinksAreMailed DEF DeliveryIInv, Delivers
<1>3. ASSUME UNCHANGED deliveryVars
      PROVE  DeliveriesAreSound'
  <2>1. DeliveryTypeOK'
    BY <1>1, <1>3 DEF deliveryVars, DeliveriesAreSound, DeliveryTypeOK
  <2> QED
    BY <1>1, <1>3, <2>1, OthersKeep DEF deliveryVars
<1>4. CASE LinkNext /\ UNCHANGED deliveryVars
  BY <1>1, <1>3, <1>4, LinkStepIsSound DEF DeliveryIInv, DeliveriesAreSound
<1>5. CASE UNCHANGED vars
  <2>1. LinksAreSound'
    BY <1>1, <1>5 DEF vars, linkVars, deliveryVars, LinksAreSound, LinkTypeOK,
                      DecisionsMoveTheVersion, LinksOpenOnce, Direct
  <2> QED
    BY <1>3, <1>5, <2>1 DEF DeliveryIInv, vars
<1> QED
  BY <1>2, <1>4, <1>5 DEF Next

(* The inductive invariant of deliveries and the links they carry.         *)
THEOREM DeliveryInvariance == Spec => []DeliveryIInv
BY InitIsSound, NextKeepsDeliveryInvariant, PTL DEF Spec

(* The notification centre lists only what was delivered, and no email is  *)
(* recorded as sent that the provider did not take (notifications.ts).     *)
THEOREM DeliveryIsRecordedTruly == Spec => []DeliveryInv
<1>1. DeliveryIInv => DeliveryInv
  <2> SUFFICES ASSUME DeliveryIInv PROVE DeliveryInv
    OBVIOUS
  <2>1. TypeOK /\ SentWasAccepted /\ InAppRowsAreWhole
    BY DEF DeliveryIInv, DeliveriesAreSound, LinksAreSound, TypeOK
  <2>2. CentreListsWhatWasDelivered
    <3> SUFFICES ASSUME NEW k \in Key, k[3] = "inApp", row[k].status # "absent"
                 PROVE  row[k].status = "sent"
      BY DEF CentreListsWhatWasDelivered, Listed
    <3>1. k[1] \in Event /\ k[2] \in Person /\ k = <<k[1], k[2], "inApp">>
      BY DEF Key
    <3> QED
      BY <2>1, <3>1 DEF InAppRowsAreWhole
  <2> QED
    BY <2>1, <2>2 DEF DeliveryInv
<1> QED
  BY <1>1, DeliveryInvariance, PTL

(* However many workers take the same message: no second email without an  *)
(* attempt that failed ambiguously or a lease that ran out (notifications.ts:85). *)
THEOREM RepeatsNeedAnExcuse == Spec => []RepeatsAreExcused
<1>1. DeliveryIInv => RepeatsAreExcused
  <2> SUFFICES ASSUME DeliveryIInv, NEW x \in Event \X Person
               PROVE  accepted[x] <= 1 + excuse[x]
    BY DEF RepeatsAreExcused
  <2>1. Backed(x) /\ accepted[x] \in Nat /\ excuse[x] \in Nat
    BY DEF DeliveryIInv, DeliveriesAreSound, AttemptsAreBacked, DeliveryTypeOK
  <2>2. Cardinality(Attempts(x)) \in Nat
    <3>1. Attempts(x) \subseteq Worker
      BY DEF Attempts
    <3> QED
      BY <3>1, DeliveryAssumption, FS_Subset, FS_CardinalityType
  <2>3. Claims(x) \in {0, 1}
    BY DEF Claims
  <2> HIDE DEF Attempts, Claims
  <2> QED
    BY <2>1, <2>2, <2>3 DEF Backed
<1> QED
  BY <1>1, DeliveryInvariance, PTL

(* A handler that resolved left every recipient it found an in-app row and *)
(* a claimed email, whatever earlier attempts had left undone.             *)
THEOREM EveryRecipientIsServed == Spec => []NobodyIsPassedOver
<1>1. DeliveryIInv => NobodyIsPassedOver
  BY DEF DeliveryIInv, DeliveriesAreSound
<1> QED
  BY <1>1, DeliveryInvariance, PTL

(* No link opens a second attempt, and a task is decided once, in whatever *)
(* order links and the product race for it (task-decision-tokens.ts:84).   *)
THEOREM TasksAreDecidedOnce == Spec => []LinksDecideOnce
<1>1. DeliveryIInv => LinksDecideOnce
  <2> SUFFICES ASSUME DeliveryIInv PROVE TaskDecidedOnce /\ LinksOpenOnce
    BY DEF LinksDecideOnce
  <2>1. LinksOpenOnce
    BY DEF DeliveryIInv, LinksAreSound
  <2>2. ASSUME NEW e \in Event PROVE decided[e] <= 1
    <3>1. decided[e] <= task[e].version /\ task[e].version \in 0..1 /\ decided[e] \in Nat
      BY DEF DeliveryIInv, LinksAreSound, DecisionsMoveTheVersion, LinkTypeOK
    <3> QED
      BY <3>1
  <2> QED
    BY <2>1, <2>2 DEF TaskDecidedOnce
<1> QED
  BY <1>1, DeliveryInvariance, PTL
=============================================================================
