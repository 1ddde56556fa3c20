------------------------------ MODULE CaseStore ------------------------------
(***************************************************************************)
(* The rows one case owns and the repository functions that write them:    *)
(* cases, case_tasks and sla_timers in PostgreSQL, the caseValues document *)
(* in MongoDB and the definition's current_version_id.                     *)
(* persistEngineOutput applies an engine output to them inside the         *)
(* caller's transaction.                                                   *)
(*                                                                         *)
(* A PostgreSQL transaction is READ COMMITTED: its reads are separate      *)
(* steps of the modules that extend this one, and its writes happen in the *)
(* step that commits, which is where the row_version comparisons that the  *)
(* UPDATEs make under their row locks are decided.                         *)
(***************************************************************************)
EXTENDS WorkflowEngine

CONSTANTS
  Definition,      \* version number |-> definition document
  MaxVersion,      \* published versions of the definition
  Values,          \* contents of the caseValues document
  FactsOf,         \* contents |-> conditions that hold for them
  Directories,     \* what resolution may find: strategy |-> assignee or Nobody
  PoolMembers,     \* pool |-> users who may claim from it
  MaxTasks,        \* bound on the tasks of the case
  MaxRowVersion    \* bound on cases.row_version

Version == 1 .. MaxVersion
TaskId  == 1 .. MaxTasks
TimerId == TaskId \X Level

ASSUME StoreAssumption ==
  /\ MaxVersion \in Nat \ {0} /\ MaxTasks \in Nat \ {0} /\ MaxRowVersion \in Nat
  /\ DOMAIN Definition = Version
  /\ \A v \in Version : IsDocument(Definition[v])
  /\ Values # {}
  /\ FactsOf \in [Values -> SUBSET Condition]
  /\ Directories \subseteq [Strategy -> Assignee \cup {Nobody}]
  /\ PoolMembers \in [Pool -> SUBSET User]

VARIABLES
  caseRow,     \* cases: status, current_step_key, version_id, row_version
  tasks,       \* case_tasks
  timers,      \* sla_timers; "due" is a scheduled timer whose fire_at passed
  values,      \* contents of the caseValues document
  current,     \* process_definitions.current_version_id
  born,        \* history: the visit a task was created in and the task it
               \* was escalated from
  visit,       \* history: how often the case has moved
  late         \* history: tasks claimed when they were closed already

store   == <<caseRow, tasks, timers, values, current, born, visit, late>>
history == <<born, visit, late>>

OpenStatus == {"pending", "claimed"}
TaskStatus == OpenStatus \cup {"completed", "cancelled"}

CaseRow == [status : CaseStatus, step : Key \cup {NoStep}, version : Version,
            rowVersion : Nat]

AbsentTask  == [status |-> "absent", step |-> NoStep, assignee |-> Nobody,
                level |-> 0, rowVersion |-> 0]
PresentTask == [status : TaskStatus, step : Key, assignee : Assignee,
                level : Level, rowVersion : Nat]
TaskRow == PresentTask \cup {AbsentTask}

TimerStatus == {"absent", "scheduled", "due", "fired", "cancelled"}

StoreTypeOK ==
  /\ caseRow \in CaseRow
  /\ tasks \in [TaskId -> TaskRow]
  /\ timers \in [TimerId -> TimerStatus]
  /\ values \in Values
  /\ current \in Version
  /\ born \in [TaskId -> [visit : Nat, from : TaskId \cup {0}]]
  /\ visit \in Nat /\ late \subseteq TaskId

(* A draft just created: it holds the version current at that moment as a  *)
(* provisional value.                                                      *)
StoreInit ==
  /\ caseRow = [status |-> "draft", step |-> NoStep, version |-> 1,
                rowVersion |-> 1]
  /\ tasks = [t \in TaskId |-> AbsentTask]
  /\ timers = [m \in TimerId |-> "absent"]
  /\ values \in Values
  /\ current = 1
  /\ born = [t \in TaskId |-> [visit |-> 0, from |-> 0]]
  /\ visit = 0 /\ late = {}

IsTerminal(row) == row.status \in TerminalStatus
OpenTasks       == {t \in TaskId : tasks[t].status \in OpenStatus}
Absent(ts)      == {t \in TaskId : ts[t].status = "absent"}

(* What an engine call reads: the document of a version, the conditions    *)
(* that hold for the values it was given, a directory.                     *)
ContextOf(version, content, who) ==
  [doc |-> Definition[version], facts |-> FactsOf[content], who |-> who]

(* canActOnTask: the assignee, or a member of the pool of an unclaimed     *)
(* task.                                                                   *)
CanActOnTask(u, t) ==
  \/ tasks[t].assignee = u
  \/ tasks[t].assignee \in Pool /\ u \in PoolMembers[tasks[t].assignee]

-----------------------------------------------------------------------------
(* Repository functions, from the rows before to the rows after.           *)

ClaimCaseTask(ts, t, u) ==
  [ts EXCEPT ![t] = [@ EXCEPT !.status = "claimed", !.assignee = u,
                              !.rowVersion = ts[t].rowVersion + 1]]

RecordTaskDecision(ts, t) ==
  [ts EXCEPT ![t] = [@ EXCEPT !.status = "completed",
                              !.rowVersion = ts[t].rowVersion + 1]]

(* Not version-checked and leaves row_version alone: a claim or a decision *)
(* that read the task before still finds the version it read.              *)
CancelPendingTasksForCase(ts) ==
  [t \in TaskId |-> IF ts[t].status = "pending"
                    THEN [ts[t] EXCEPT !.status = "cancelled"]
                    ELSE ts[t]]
CancelOpenTasksForCase(ts) ==
  [t \in TaskId |-> IF ts[t].status \in OpenStatus
                    THEN [ts[t] EXCEPT !.status = "cancelled"]
                    ELSE ts[t]]

(* Raises the level only; row_version is left alone.                       *)
MarkTaskEscalatedForgotten(ts, t, level) == ts
MarkTaskEscalated(ts, t, level) ==
  [ts EXCEPT ![t] = IF ts[t].level < level THEN [@ EXCEPT !.level = level] ELSE @]

CreateCaseTask(ts, t, spec) ==
  [ts EXCEPT ![t] = [status |-> "pending", step |-> spec.step,
                     assignee |-> spec.assignee, level |-> spec.level,
                     rowVersion |-> 1]]

StillScheduled(s) == s \in {"scheduled", "due"}

CancelTimersForTasksFuture(tm, gone) ==
  [m \in TimerId |-> IF m[1] \in gone /\ tm[m] = "scheduled"
                     THEN "cancelled" ELSE tm[m]]
CancelTimersForTasks(tm, gone) ==
  [m \in TimerId |-> IF m[1] \in gone /\ StillScheduled(tm[m])
                     THEN "cancelled" ELSE tm[m]]

CreateSlaTimers(tm, t, levels) ==
  [m \in TimerId |-> IF m[1] = t /\ m[2] \in levels THEN "scheduled" ELSE tm[m]]

MarkTimerFired(tm, m) ==
  [tm EXCEPT ![m] = IF StillScheduled(@) THEN "fired" ELSE @]

-----------------------------------------------------------------------------
(* persistEngineOutput.  row is the case row the caller read, version the  *)
(* version it writes, ts the task rows after the caller's own writes,      *)
(* decided the tasks whose timers the engine cancels, from the task an     *)
(* escalation was triggered on (0 for none).                               *)

(* The WHERE of updateCaseState: row_version is still the one read.        *)
RowIsCurrentUnchecked(row) == TRUE
RowIsCurrent(row) == caseRow.rowVersion = row.rowVersion

(* Its SET: an output that moves the case writes status and step; every    *)
(* output, an escalation that only adds a task too, adds to row_version.   *)
UpdatedCaseUncounted(out, row, version) ==
  [status |-> IF out.moves THEN out.status ELSE caseRow.status,
   step |-> IF out.moves THEN out.step ELSE caseRow.step,
   version |-> version, rowVersion |-> row.rowVersion]
UpdatedCase(out, row, version) ==
  [status |-> IF out.moves THEN out.status ELSE caseRow.status,
   step |-> IF out.moves THEN out.step ELSE caseRow.step,
   version |-> version, rowVersion |-> row.rowVersion + 1]

PersistEngineOutput(out, row, version, ts, decided, from) ==
  LET ends == out.moves /\ out.status \in TerminalStatus
      kept == CancelTimersForTasks(timers, IF ends THEN TaskId ELSE decided)
      base == IF ends THEN CancelOpenTasksForCase(ts) ELSE ts
      now  == IF out.moves THEN visit + 1 ELSE visit
  IN  /\ RowIsCurrent(row)
      /\ caseRow.rowVersion < MaxRowVersion
      /\ caseRow' = UpdatedCase(out, row, version)
      /\ visit' = now /\ late' = late
      /\ \/ /\ out.tasks = {}
            /\ tasks' = base /\ timers' = kept /\ born' = born
         \/ \E spec \in out.tasks, t \in First(Absent(ts)) :
              /\ tasks' = CreateCaseTask(IF from = 0 THEN base
                                  ELSE MarkTaskEscalated(base, from, spec.level),
                                  t, spec)
              /\ timers' = CreateSlaTimers(kept, t, spec.timers)
              /\ born' = [born EXCEPT ![t] = [visit |-> now, from |-> from]]
=============================================================================
