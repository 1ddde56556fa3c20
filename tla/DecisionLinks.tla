---------------------------- MODULE DecisionLinks ----------------------------
(***************************************************************************)
(* The one-click links that emails about an assigned task carry, on top of *)
(* NotificationDelivery: every attempt at an email mints a link of its     *)
(* own, so several may be in somebody's mailbox, and they meet each other  *)
(* and the requests of the product at the same task.                       *)
(* Sources: routes/tasks.ts, repositories/task-decision-tokens.ts. What    *)
(* decideTask does to a case is the subject of CaseRequests; here it is    *)
(* the two reads and the version-checked commit.                           *)
(***************************************************************************)
EXTENDS NotificationDelivery

CONSTANT Request   \* POST /confirm handlers

VARIABLES
  link,     \* event -> its task_decision_tokens: emailed and unused, used
  task,     \* event -> the task it announced
  request,  \* what each handler has read
  decided   \* history: how often each task was decided

linkVars == <<link, task, request, decided>>
vars == <<deliveryVars, linkVars>>

(* Only the email about a new task with a named assignee has a link.       *)
Direct(e) == payload[e].type = "task.created" /\ payload[e].to # Pool

Ready == [pc |-> "idle", event |-> None, version |-> 0]

LinkTypeOK ==
  /\ link \in [Event -> [live : Nat, used : Nat]]
  /\ task \in [Event ->
                [status : {"open", "completed", "cancelled"}, version : 0..1]]
  /\ request \in [Request -> [pc : {"idle", "read", "commit"},
                              event : Event \cup {None}, version : 0..1]]
  /\ decided \in [Event -> Nat]

TypeOK == DeliveryTypeOK /\ LinkTypeOK

Init ==
  /\ DeliveryInit
  /\ link = [e \in Event |-> [live |-> 0, used |-> 0]]
  /\ task = [e \in Event |-> [status |-> "open", version |-> 0]]
  /\ request = [r \in Request |-> Ready]
  /\ decided = [e \in Event |-> 0]

(* The token is stored before the email that carries it is sent: a link    *)
(* exists for its recipient once the provider has the email.               *)
Mailed(e) ==
  IF Direct(e) THEN accepted'[<<e, payload[e].to>>] - accepted[<<e, payload[e].to>>]
               ELSE 0

CreateTaskDecisionToken ==
  link' = [e \in Event |-> [link[e] EXCEPT !.live = @ + Mailed(e)]]

Expire(e) ==
  /\ link[e].live > 0
  /\ link' = [link EXCEPT ![e].live = @ - 1]
  /\ UNCHANGED <<task, request, decided>>

(* One UPDATE ... WHERE used_at IS NULL, in a statement of its own, before *)
(* the decision is attempted.                                              *)
MarkTaskDecisionTokenUsed(e) ==
  /\ link[e].live > 0
  /\ link' = [link EXCEPT ![e] = [live |-> @.live - 1, used |-> @.used + 1]]

Confirm(r, e) ==
  /\ request[r].pc = "idle"
  /\ MarkTaskDecisionTokenUsed(e)
  /\ request' = [request EXCEPT ![r] = [Ready EXCEPT !.pc = "read", !.event = e]]
  /\ UNCHANGED <<task, decided>>

(* A slip: the version is not compared.                                    *)
AnyVersion(r) == request[r].event \in Event

(* decideTask reads the task and its case; the version stands for those of *)
(* both rows.                                                              *)
ReadForDecision(r) ==
  LET t == task[request[r].event] IN
  /\ request[r].pc = "read"
  /\ request' = [request EXCEPT ![r] =
       IF t.status = "open" THEN [@ EXCEPT !.pc = "commit", !.version = t.version]
                            ELSE Ready]
  /\ UNCHANGED <<link, task, decided>>

Unchanged(r) == request[r].version = task[request[r].event].version

(* recordTaskDecision and updateCaseState compare the versions.            *)
CommitDecision(r) ==
  LET e == request[r].event IN
  /\ request[r].pc = "commit" /\ Unchanged(r)
  /\ task' = [task EXCEPT ![e] = [status |-> "completed", version |-> 1]]
  /\ decided' = [decided EXCEPT ![e] = @ + 1]
  /\ request' = [request EXCEPT ![r] = Ready]
  /\ UNCHANGED link

(* Refused (not the assignee any more, a comment or a value is required,   *)
(* the version has moved) or failed: the link stays used.                  *)
RefuseDecision(r) ==
  /\ request[r].pc # "idle"
  /\ request' = [request EXCEPT ![r] = Ready]
  /\ UNCHANGED <<link, task, decided>>

(* A decision made in the product, or through another link.                *)
DecideTask(e) ==
  /\ Direct(e) /\ task[e].status = "open"
  /\ task' = [task EXCEPT ![e] = [status |-> "completed", version |-> 1]]
  /\ decided' = [decided EXCEPT ![e] = @ + 1]
  /\ UNCHANGED <<link, request>>

(* The case ends or moves without this task.                               *)
CloseTask(e) ==
  /\ Direct(e) /\ task[e].status = "open"
  /\ task' = [task EXCEPT ![e] = [status |-> "cancelled", version |-> 1]]
  /\ UNCHANGED <<link, request, decided>>

LinkNext ==
  \/ \E e \in Event : Expire(e) \/ DecideTask(e) \/ CloseTask(e)
  \/ \E r \in Request : \/ \E e \in Event : Confirm(r, e)
                        \/ ReadForDecision(r) \/ CommitDecision(r)
                        \/ RefuseDecision(r)

(* A step of a delivery, and the link that goes out with its email.        *)
Delivers(step) ==
  step /\ CreateTaskDecisionToken /\ UNCHANGED <<payload, task, request, decided>>

Next == Delivers(DeliveryNext) \/ (LinkNext /\ UNCHANGED deliveryVars)

Spec == Init /\ [][Next]_vars

(* An invocation goes on or is cut off; the queue hands out what is        *)
(* visible, and makes visible again what was not deleted. People, what     *)
(* fails and the clock are not fair.                                       *)
DeliveryFairness ==
  /\ \A w \in Worker : WF_vars(Delivers(HandlerStep(w) \/ Abandon(w)))
  /\ \A e \in Event :
       WF_vars(Delivers(\/ BecomeVisible(e) \/ DeadLetter(e)
                        \/ \E w \in Worker : Receive(w, e)))

FairSpec == Spec /\ DeliveryFairness

-----------------------------------------------------------------------------
(* Rows, messages, workers, links and tasks are of their kinds; what the   *)
(* notification centre lists was delivered, for a row and its sent mark    *)
(* appear together; and what is recorded as sent was accepted by the       *)
(* provider: across takeovers, redeliveries and half-finished handlers.    *)
DeliveryInv == TypeOK /\ CentreListsWhatWasDelivered /\ SentWasAccepted

(* However many links to a task are in mailboxes, and whoever decides it   *)
(* in the product meanwhile, it is decided once.                           *)
TaskDecidedOnce == \A e \in Event : decided[e] <= 1

(* task-decision-tokens.ts:84: the WHERE clause "is what actually enforces *)
(* 'once'": no link opens a second attempt.                                *)
LinksOpenOnce ==
  \A e \in Event : Direct(e) =>
    link[e].live + link[e].used <= accepted[<<e, payload[e].to>>]

(* What a reader of the emails may count on: each link works once, and the *)
(* task it is for is decided once, whichever way that is attempted.        *)
LinksDecideOnce == TaskDecidedOnce /\ LinksOpenOnce
=============================================================================
