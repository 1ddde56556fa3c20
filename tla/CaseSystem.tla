------------------------------ MODULE CaseSystem ------------------------------
(***************************************************************************)
(* One case under everything that can act on it: request handlers of       *)
(* apps/api, sweep ticks, publication of new definition versions and the   *)
(* passing of time, composed over the tables they share.                   *)
(***************************************************************************)
EXTENDS CaseRequests, SlaSweep, FiniteSets

vars == <<store, req, sweep>>

Init == StoreInit /\ RequestInit /\ SweepInit

Next ==
  \/ \E c \in Client  : RequestStep(c) /\ UNCHANGED sweep
  \/ \E s \in Sweeper : (SweepStep(s) \/ ProcessDies(s)) /\ UNCHANGED req
  \/ \E m \in TimerId : FallDue(m) /\ UNCHANGED <<req, sweep>>
  \/ PublishVersion /\ UNCHANGED <<req, sweep>>

Spec == Init /\ [][Next]_vars

(* A tick that has started runs on, and setInterval starts another; what   *)
(* people and time do is not fair.                                         *)
SweepFairness == \A s \in Sweeper : WF_vars(SweepStep(s) /\ UNCHANGED req)

FairSpec == Spec /\ SweepFairness

TypeOK == StoreTypeOK /\ RequestTypeOK /\ SweepTypeOK

-----------------------------------------------------------------------------
(* The case and its work.                                                  *)

(* An active case can always be acted on: it has an open task, created     *)
(* when the case entered the step it is at (or when it was returned).      *)
ActiveCaseHasWork ==
  caseRow.status = "active" =>
    \E t \in OpenTasks :
      /\ born[t].visit = visit
      /\ tasks[t].step = IF caseRow.step = NoStep THEN ReturnedKey
                                                  ELSE caseRow.step

(* There is an open amendment task only while the case is with its         *)
(* requester, and then exactly one: a resubmission closes it.              *)
AmendmentTaskMatchesCase ==
  \A t \in OpenTasks : tasks[t].step = ReturnedKey =>
    /\ caseRow.status = "active" /\ caseRow.step = NoStep
    /\ \A u \in OpenTasks : tasks[u].step = ReturnedKey => u = t

(* A terminal case is at no step, none of its timers can still go off, and *)
(* none of its tasks is pending or claimed - but for a task somebody       *)
(* claimed on a read from before the end: the claim looks at the version   *)
(* of the task alone, which its cancellation left as it was.               *)
EndedCaseHasNoWork ==
  IsTerminal(caseRow) =>
    /\ caseRow.step = NoStep
    /\ OpenTasks \subseteq {t \in late : tasks[t].status = "claimed"}
    /\ \A m \in TimerId : ~StillScheduled(timers[m])

(* What is open matches where the case is: work for the requester exactly  *)
(* while the case is with them, and once it has ended none at all, except  *)
(* a claim that came too late.                                             *)
WorkMatchesTheCase == AmendmentTaskMatchesCase /\ EndedCaseHasNoWork

(* PRD.md section 15.2: "All timers for a task are cancelled when the task *)
(* is completed, reassigned or cancelled": a timer that can still go off   *)
(* belongs to an open task.                                                *)
LiveTimerHasOpenTask ==
  \A m \in TimerId : StillScheduled(timers[m]) => m[1] \in OpenTasks

(* Optimistic concurrency (PRD.md section 11.9): a case row somebody read  *)
(* is never newer than the stored one, and carries the same row_version    *)
(* only while the stored row is still what was read.                       *)
SeenBefore(row) ==
  /\ row.rowVersion <= caseRow.rowVersion
  /\ row.rowVersion = caseRow.rowVersion => row = caseRow

SnapshotsAreCoherent ==
  /\ \A c \in Client :
       req[c].pc \in {"values", "commit"} /\ req[c].op # "claim" =>
         SeenBefore(req[c].row)
  /\ \A s \in Sweeper : sweep[s].pc = "commit" => SeenBefore(sweep[s].row)

(* What makes SnapshotsAreCoherent and TypeOK inductive: whatever is in    *)
(* flight holds rows that exist, a draft edit holds a draft, only a        *)
(* submission writes another version than the one it read.                 *)
TimersHaveTasks ==
  \A m \in TimerId : timers[m] # "absent" => tasks[m[1]].status # "absent"

RequestsAreGrounded ==
  \A c \in Client :
    LET r == req[c] IN
    /\ r.op \in {"claim", "decide"} =>
         r.task \in TaskId /\ tasks[r.task].status # "absent"
    /\ r.pc = "commit" /\ r.op \in {"submit", "resubmit", "decide"} =>
         r.got \in Values
    /\ r.op = "patch" => r.row.status = "draft"
    /\ r.op \in {"resubmit", "cancel"} => r.version = r.row.version
    /\ r.op = "decide" /\ r.pc # "case" => r.version = r.row.version

TicksAreGrounded ==
  \A s \in Sweeper :
    /\ InHand(s) =>
         sweep[s].timer \in TimerId /\ timers[sweep[s].timer] # "absent"
    /\ \A m \in sweep[s].batch : timers[m] # "absent"

IInv == /\ TypeOK /\ SnapshotsAreCoherent
        /\ TimersHaveTasks /\ RequestsAreGrounded /\ TicksAreGrounded

(* Nothing that read a case before it ended, a decision, a resubmission or *)
(* an escalation, changes it afterwards.                                   *)
TerminalIsFinal == [][IsTerminal(caseRow) => caseRow' = caseRow]_caseRow

(* PRD.md section 8.2: version_id is set at submission and never changes,  *)
(* whatever is published while the case is decided, returned or            *)
(* resubmitted.                                                            *)
PinNeverChanges ==
  [][caseRow.status # "draft" => caseRow'.version = caseRow.version]_caseRow

(* A decision is only ever recorded at the step its task belongs to, and   *)
(* the same transaction moves the case.                                    *)
DecisionMovesItsCase ==
  [][\A t \in TaskId :
       /\ tasks[t].status \in OpenStatus /\ tasks[t].step # ReturnedKey
       /\ tasks'[t].status = "completed"
       => caseRow.step = tasks[t].step /\ visit' = visit + 1]_store

(* Once claimed, a task is nobody else's: two members of a pool racing for *)
(* it do not both get it.                                                  *)
ClaimIsExclusive ==
  [][\A t \in TaskId :
       tasks[t].status = "claimed" => tasks'[t].assignee = tasks[t].assignee]_store

(* Seen from its row the case is the sequential object of CaseContract:    *)
(* handlers and ticks that read it at different times and commit in any    *)
(* order amount to one operation after another.                            *)
Contract ==
  INSTANCE CaseContract WITH
    state <- [status |-> caseRow.status, step |-> caseRow.step,
              version |-> caseRow.version]

ImplementsContract == Contract!Spec

-----------------------------------------------------------------------------
(* Escalation.                                                             *)

(* persist-engine-output.ts:154: the level is stamped on the escalated     *)
(* task so that no two timers create a task at the same level of it.       *)
EscalationLevelsDistinct ==
  \A t, u \in TaskId :
    born[t].from = born[u].from /\ born[t].from # 0 /\ tasks[t].level = tasks[u].level
    => t = u

(* The same with any number of ticks, where a tick may have read the level *)
(* before another one's escalation was committed and the case after it: an *)
(* escalation that read the level as it still is creates its task above    *)
(* all of that task's earlier ones, repeated after a crash or not.         *)
FreshEscalationIsNew ==
  [][\A s \in Sweeper, n, u \in TaskId :
       /\ sweep[s].pc = "commit" /\ sweep'[s].pc # "commit"
       /\ sweep[s].level = tasks[TaskOf(s)].level
       /\ tasks[n].status = "absent" /\ tasks'[n].status # "absent"
       /\ born[u].from = TaskOf(s)
       => tasks[u].level < tasks'[n].level]_vars

(* sla/sweep.ts:74: one bad timer does not stop the rest of the batch: a   *)
(* due timer is eventually taken up or is due no more, whichever other     *)
(* timers keep failing.                                                    *)
DueTimerIsTaken ==
  \A m \in TimerId :
    timers[m] = "due" ~>
      (timers[m] # "due" \/ \E s \in Sweeper : sweep[s].timer = m)
=============================================================================
