------------------------------- MODULE SlaSweep -------------------------------
(***************************************************************************)
(* The SLA sweep of apps/api/src/sla/sweep.ts.  Every interval tick, of    *)
(* every API process, reads the due timers and works through them one at a *)
(* time: run the reminder or the escalation in one transaction, mark the   *)
(* timer fired in another, publish last.  Nothing keeps two ticks apart.   *)
(***************************************************************************)
EXTENDS CaseStore

CONSTANTS
  Sweeper,      \* ticks that can be running at once
  Unreliable    \* those of them whose process may die

ASSUME SweeperAssumption == Unreliable \subseteq Sweeper

VARIABLE sweep       \* what each running tick holds

NoTimer == <<0, 0>>

(* batch is what findDueTimers returned and is not yet processed, timer    *)
(* the one in hand, level and row what was read of its task and the case,  *)
(* event what is to be published once the timer is marked fired.           *)
Tick ==
  [pc : {"idle", "next", "task", "case", "commit", "mark", "publish"},
   batch : SUBSET TimerId, timer : TimerId \cup {NoTimer}, level : Level,
   row : CaseRow, event : EventType \cup {"task.reminderDue"}]

NoTick ==
  [pc |-> "idle", batch |-> {}, timer |-> NoTimer, level |-> 0,
   row |-> [status |-> "draft", step |-> NoStep, version |-> 1, rowVersion |-> 0],
   event |-> "none"]

SweepTypeOK == sweep \in [Sweeper -> Tick]

SweepInit == sweep = [s \in Sweeper |-> NoTick]

TaskOf(s)     == sweep[s].timer[1]
IsReminder(s) == sweep[s].timer[2] = 0
Doing(s, pc)  == sweep[s].pc = pc
InHand(s)     == sweep[s].pc \in {"task", "case", "commit", "mark", "publish"}

(* The reminder or escalation of the timer in hand is done; the timer is   *)
(* marked fired next and the event, if any, published after that.          *)
Processed(s, event) ==
  sweep' = [sweep EXCEPT ![s] = [NoTick EXCEPT !.pc = "mark", !.event = event,
                                   !.batch = sweep[s].batch, !.timer = sweep[s].timer]]

(* On to the next timer of the batch; the tick ends with the last one.     *)
NextTimer(s) ==
  sweep' = [sweep EXCEPT ![s] =
              [NoTick EXCEPT !.pc    = IF sweep[s].batch = {} THEN "idle" ELSE "next",
                             !.batch = sweep[s].batch]]

(* Time passes the fire_at of a scheduled timer.                           *)
FallDue(m) ==
  /\ timers[m] = "scheduled"
  /\ timers' = [timers EXCEPT ![m] = "due"]
  /\ UNCHANGED <<caseRow, tasks, values, current, history>>

(* findDueTimers, on a connection of its own.                              *)
StartTick(s) ==
  LET due == {m \in TimerId : timers[m] = "due"}
  IN  /\ Doing(s, "idle")
      /\ due # {}
      /\ sweep' = [sweep EXCEPT ![s] = [NoTick EXCEPT !.pc = "next", !.batch = due]]
      /\ UNCHANGED store

TakeTimer(s) ==
  /\ Doing(s, "next")
  /\ \E m \in sweep[s].batch :
       sweep' = [sweep EXCEPT ![s] = [NoTick EXCEPT !.pc = "task", !.timer = m,
                                        !.batch = sweep[s].batch \ {m}]]
  /\ UNCHANGED store

(* A task that is no longer pending is left alone and its timer marked.    *)
(* A reminder has its event now; an escalation goes on to read the case.   *)
ReadTask(s) ==
  /\ Doing(s, "task")
  /\ \/ /\ tasks[TaskOf(s)].status # "pending"
        /\ Processed(s, "none")
     \/ /\ tasks[TaskOf(s)].status = "pending" /\ IsReminder(s)
        /\ Processed(s, "task.reminderDue")
     \/ /\ tasks[TaskOf(s)].status = "pending" /\ ~IsReminder(s)
        /\ sweep' = [sweep EXCEPT ![s] = [@ EXCEPT !.pc = "case",
                                             !.level = tasks[TaskOf(s)].level]]
  /\ UNCHANGED store

(* An escalation only goes ahead while the case is active at the step.     *)
ReadEscalatedCase(s) ==
  LET moved == \/ caseRow.status # "active"
               \/ caseRow.step # tasks[TaskOf(s)].step
  IN  /\ Doing(s, "case")
      /\ IF moved
         THEN Processed(s, "none")
         ELSE sweep' = [sweep EXCEPT ![s] = [@ EXCEPT !.pc = "commit",
                                               !.row = caseRow]]
      /\ UNCHANGED store

EscalationOutputs(s, who) ==
  EscalationTriggered(ContextOf(sweep[s].row.version, values, who),
                      sweep[s].row, sweep[s].level)

(* The engine cannot refuse here: an active case is at a step of its       *)
(* document.                                                               *)
CommitEscalation(s) ==
  /\ Doing(s, "commit")
  /\ \E who \in Directories : \E out \in EscalationOutputs(s, who) :
       /\ PersistEngineOutput(out, sweep[s].row, sweep[s].row.version, tasks,
                              {}, TaskOf(s))
       /\ Processed(s, out.event)
  /\ UNCHANGED <<values, current>>

(* Its own transaction; a timer no longer scheduled is left as it is.      *)
MarkFired(s) ==
  /\ Doing(s, "mark")
  /\ timers' = MarkTimerFired(timers, sweep[s].timer)
  /\ IF sweep[s].event = "none"
     THEN NextTimer(s)
     ELSE sweep' = [sweep EXCEPT ![s] = [@ EXCEPT !.pc = "publish"]]
  /\ UNCHANGED <<caseRow, tasks, values, current, history>>

PublishTimerEvent(s) ==
  /\ Doing(s, "publish")
  /\ NextTimer(s)
  /\ UNCHANGED store

(* A conflict, an aborted transaction or a failed publish: processTimer    *)
(* throws, the loop logs it and goes on with the rest of the batch.        *)
ProcessTimerAbandonsBatch(s) ==
  /\ InHand(s)
  /\ sweep' = [sweep EXCEPT ![s] = NoTick]
  /\ UNCHANGED store
ProcessTimerThrows(s) ==
  /\ InHand(s)
  /\ NextTimer(s)
  /\ UNCHANGED store

(* The process dies; the next tick starts from the table.                  *)
ProcessDies(s) ==
  /\ s \in Unreliable
  /\ ~Doing(s, "idle")
  /\ sweep' = [sweep EXCEPT ![s] = NoTick]
  /\ UNCHANGED store

SweepStep(s) ==
  \/ StartTick(s) \/ TakeTimer(s) \/ ReadTask(s) \/ ReadEscalatedCase(s)
  \/ CommitEscalation(s) \/ MarkFired(s) \/ PublishTimerEvent(s)
  \/ ProcessTimerThrows(s)
=============================================================================
