----------------------------- MODULE CaseRequests -----------------------------
(***************************************************************************)
(* The request handlers of apps/api that change a case: PATCH, submit,     *)
(* resubmit and cancel of routes/cases.ts, claim and decide of             *)
(* routes/tasks.ts.  Each handler in flight is a client; it reads, writes  *)
(* the values document outside the transaction, and commits or rolls back, *)
(* each a step of its own, so handlers interleave anywhere between them.   *)
(* What a handler does after its commit, publishing with publishOrLog,     *)
(* touches nothing here and is left out.                                   *)
(***************************************************************************)
EXTENDS CaseStore

CONSTANTS
  Client,     \* handlers that can be in flight at once
  NoValues,   \* a request whose body carries no values
  Bodies      \* bodies of the decide requests people send

Body == [decision : Decision, comment : BOOLEAN, put : Values \cup {NoValues}]

ASSUME ClientAssumption == NoValues \notin Values /\ Bodies \subseteq Body

VARIABLE req      \* what each handler in flight holds

Operation == {"none", "patch", "submit", "resubmit", "cancel", "claim", "decide"}
Stage     == {"idle", "case", "values", "commit"}

(* pc is the handler's next step.  row is the case row it read, task and   *)
(* taskVersion the task and the row_version it read of it, version the     *)
(* version_id it writes and loads the document of, put the values in the   *)
(* body, got those the engine runs on.                                     *)
Request ==
  [pc : Stage, op : Operation, user : User, task : TaskId \cup {0},
   taskVersion : Nat, row : CaseRow, version : Version, decision : Decision,
   comment : BOOLEAN, put : Values \cup {NoValues},
   got : Values \cup {NoValues}]

Blank ==
  [pc |-> "idle", op |-> "none", user |-> Submitter, task |-> 0,
   taskVersion |-> 0,
   row |-> [status |-> "draft", step |-> NoStep, version |-> 1, rowVersion |-> 0],
   version |-> 1, decision |-> "approve", comment |-> FALSE, put |-> NoValues,
   got |-> NoValues]

RequestTypeOK == req \in [Client -> Request]

RequestInit == req = [c \in Client |-> Blank]

Idle(c)   == req[c].pc = "idle"
At(c, op, pc) == req[c].op = op /\ req[c].pc = pc

Finish(c) == req' = [req EXCEPT ![c] = Blank]

-----------------------------------------------------------------------------
(* Reads and refusals.                                                     *)

StartCaseRequest(c, op, pc, version, put) ==
  /\ Idle(c)
  /\ req' = [req EXCEPT ![c] =
               [Blank EXCEPT !.pc = pc, !.op = op, !.row = caseRow,
                             !.version = version, !.put = put]]
  /\ UNCHANGED store

StartPatch(c) ==
  /\ caseRow.status = "draft"
  /\ \E put \in Values \cup {NoValues} :
       StartCaseRequest(c, "patch", "values", caseRow.version, put)

StartSubmit(c) ==
  /\ caseRow.status = "draft"
  /\ StartCaseRequest(c, "submit", "values", current, NoValues)

StartResubmit(c) ==
  /\ caseRow.status = "active" /\ caseRow.step = NoStep
  /\ \E put \in Values \cup {NoValues} :
       StartCaseRequest(c, "resubmit", "values", caseRow.version, put)

(* The requester or an administrator, in any status that is not terminal;  *)
(* what it reads of the values has no influence on it.                     *)
StartCancel(c) ==
  /\ ~IsTerminal(caseRow)
  /\ StartCaseRequest(c, "cancel", "commit", caseRow.version, NoValues)

StartClaim(c) ==
  /\ Idle(c)
  /\ \E t \in TaskId, u \in User :
       /\ tasks[t].status = "pending"
       /\ tasks[t].assignee \in Pool
       /\ CanActOnTask(u, t)
       /\ req' = [req EXCEPT ![c] =
                    [Blank EXCEPT !.pc = "commit", !.op = "claim", !.user = u,
                       !.task = t, !.taskVersion = tasks[t].rowVersion]]
  /\ UNCHANGED store

(* decideTask reads the task first.                                        *)
StartDecide(c) ==
  /\ Idle(c)
  /\ \E t \in OpenTasks, body \in Bodies :
       /\ \E u \in User : CanActOnTask(u, t)
       /\ req' = [req EXCEPT ![c] =
                    [Blank EXCEPT !.pc = "case", !.op = "decide",
                       !.task = t, !.taskVersion = tasks[t].rowVersion,
                       !.decision = body.decision, !.comment = body.comment,
                       !.put = body.put]]
  /\ UNCHANGED store

(* Then the case; a task of another step is refused.                       *)
ReadCase(c) ==
  /\ At(c, "decide", "case")
  /\ IF caseRow.step # tasks[req[c].task].step
     THEN Finish(c)
     ELSE req' = [req EXCEPT ![c] = [@ EXCEPT !.pc = "values", !.row = caseRow,
                                             !.version = caseRow.version]]
  /\ UNCHANGED store

(* readCaseValues and upsertCaseValues: MongoDB is written at once, in the *)
(* middle of the PostgreSQL transaction and outside it.                    *)
ReadValues(c) ==
  /\ req[c].pc = "values"
  /\ values' = IF req[c].put = NoValues THEN values ELSE req[c].put
  /\ req' = [req EXCEPT ![c] = [@ EXCEPT !.pc = "commit", !.put = NoValues,
                                          !.got = values']]
  /\ UNCHANGED <<caseRow, tasks, timers, current, history>>

-----------------------------------------------------------------------------
(* Commits.                                                                *)

(* updateCaseState with a title or a values document and no status.        *)
CommitPatch(c) ==
  /\ At(c, "patch", "commit")
  /\ RowIsCurrent(req[c].row)
  /\ caseRow.rowVersion < MaxRowVersion
  /\ caseRow' = [caseRow EXCEPT !.rowVersion = @ + 1]
  /\ Finish(c)
  /\ UNCHANGED <<tasks, timers, values, current, history>>

(* Pins the version that was current when the request read it.             *)
SubmitOutputs(c, who) ==
  CaseSubmitted(ContextOf(req[c].version, req[c].got, who), req[c].row)

CommitSubmit(c) ==
  /\ At(c, "submit", "commit")
  /\ \E who \in Directories : \E out \in SubmitOutputs(c, who) :
       /\ PersistEngineOutput(out, req[c].row, req[c].version, tasks, {}, 0)
  /\ Finish(c)
  /\ UNCHANGED <<values, current>>

(* completeReturnedTask closes the first open amendment task, then the     *)
(* output is persisted.                                                    *)
CompleteReturnedTask ==
  LET returned == First({t \in OpenTasks : tasks[t].step = ReturnedKey})
  IN  [t \in TaskId |-> IF t \in returned THEN RecordTaskDecision(tasks, t)[t]
                                          ELSE tasks[t]]

ResubmitOutputs(c, who) ==
  CaseResubmitted(ContextOf(req[c].version, req[c].got, who), req[c].row)

CommitResubmit(c) ==
  /\ At(c, "resubmit", "commit")
  /\ \E who \in Directories : \E out \in ResubmitOutputs(c, who) :
       /\ PersistEngineOutput(out, req[c].row, req[c].version,
                              CompleteReturnedTask, {}, 0)
  /\ Finish(c)
  /\ UNCHANGED <<values, current>>

CommitCancel(c) ==
  /\ At(c, "cancel", "commit")
  /\ \E out \in CaseCancelled(req[c].row) :
       /\ PersistEngineOutput(out, req[c].row, req[c].version, tasks, {}, 0)
  /\ Finish(c)
  /\ UNCHANGED <<values, current>>

(* The version-checked UPDATE of claimCaseTask; neither the case nor the   *)
(* status of the task is looked at again.                                  *)
ClaimedNow(t) == IF tasks[t].status \in OpenStatus THEN late ELSE late \cup {t}
CommitClaimUnchecked(c) ==
  /\ At(c, "claim", "commit")
  /\ tasks' = ClaimCaseTask(tasks, req[c].task, req[c].user)
  /\ late' = ClaimedNow(req[c].task)
  /\ Finish(c)
  /\ UNCHANGED <<caseRow, timers, values, current, born, visit>>
CommitClaim(c) ==
  /\ At(c, "claim", "commit")
  /\ tasks[req[c].task].rowVersion = req[c].taskVersion
  /\ tasks' = ClaimCaseTask(tasks, req[c].task, req[c].user)
  /\ late' = ClaimedNow(req[c].task)
  /\ Finish(c)
  /\ UNCHANGED <<caseRow, timers, values, current, born, visit>>

DecideOutputs(c, who) ==
  TaskDecided(ContextOf(req[c].version, req[c].got, who), req[c].row,
              req[c].decision, req[c].comment)

(* recordTaskDecision, checked on the task's row_version, before           *)
(* persistEngineOutput, checked on the case's.                             *)
CommitDecide(c) ==
  /\ At(c, "decide", "commit")
  /\ tasks[req[c].task].rowVersion = req[c].taskVersion
  /\ \E who \in Directories : \E out \in DecideOutputs(c, who) :
       /\ PersistEngineOutput(out, req[c].row, req[c].version,
                              RecordTaskDecision(tasks, req[c].task),
                              {req[c].task}, 0)
  /\ Finish(c)
  /\ UNCHANGED <<values, current>>

-----------------------------------------------------------------------------
(* Roll backs, and publication of a definition.                            *)

(* The engine refuses: a decision the step does not allow or a missing     *)
(* comment.                                                                *)
Refuse(c) ==
  /\ At(c, "decide", "commit")
  /\ \E who \in Directories : DecideOutputs(c, who) = {}
  /\ Finish(c)
  /\ UNCHANGED store

(* CaseConcurrencyError, TaskConcurrencyError, a transaction PostgreSQL    *)
(* aborts (deadlock), a lost connection or process: nothing is committed.  *)
RollBack(c) ==
  /\ req[c].pc \in {"case", "values", "commit"}
  /\ Finish(c)
  /\ UNCHANGED store

(* publishProcessVersion: another version becomes current, the next one    *)
(* or, by a publication that read its draft long ago, an earlier one.      *)
PublishVersion ==
  /\ \E version \in Version : version # current /\ current' = version
  /\ UNCHANGED <<caseRow, tasks, timers, values, history>>

RequestStep(c) ==
  \/ StartPatch(c) \/ StartSubmit(c) \/ StartResubmit(c) \/ StartCancel(c)
  \/ StartClaim(c) \/ StartDecide(c) \/ ReadCase(c) \/ ReadValues(c)
  \/ CommitPatch(c) \/ CommitSubmit(c) \/ CommitResubmit(c)
  \/ CommitCancel(c) \/ CommitClaim(c) \/ CommitDecide(c)
  \/ Refuse(c) \/ RollBack(c)
=============================================================================
