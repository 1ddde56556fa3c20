---------------------------- MODULE CaseWorkProofs ----------------------------
(***************************************************************************)
(* The work of a case, for every value of CaseSystem's constants: that an  *)
(* active case can be acted on, that an ended one leaves nothing behind,   *)
(* that timers belong to open tasks, that a decision moves its case and a  *)
(* claim is exclusive; that escalations of a task are at distinct levels   *)
(* as long as one tick runs at a time; and that the case is the sequential *)
(* object of CaseContract.                                                 *)
(***************************************************************************)
EXTENDS CaseSystemProofs

(* A returned case waits for its requester, and for no deadline.           *)
AmendmentsAreTheRequesters ==
  \A t \in TaskId : tasks[t].step = ReturnedKey =>
    /\ tasks[t].assignee = Submitter
    /\ \A l \in Level : timers[<<t, l>>] = "absent"

(* A claim is for a task of a pool, and if its row_version is still the    *)
(* one read nobody has claimed it since; a decision is for the step that   *)
(* the case was at when it was read.                                       *)
KnowsItsTask(r, ts) ==
  /\ r.op = "claim" =>
       /\ ts[r.task].step # ReturnedKey
       /\ r.taskVersion <= ts[r.task].rowVersion
       /\ r.taskVersion = ts[r.task].rowVersion => ts[r.task].status # "claimed"
  /\ r.op = "decide" /\ r.pc # "case" => r.row.step = ts[r.task].step

RequestsKnowTheirTasks == \A c \in Client : KnowsItsTask(req[c], tasks)

(* Only an active case is escalated.                                       *)
TicksReadActiveCases ==
  \A s \in Sweeper : sweep[s].pc = "commit" => sweep[s].row.status = "active"

TableWork ==
  /\ ActiveCaseHasWork /\ WorkMatchesTheCase /\ LiveTimerHasOpenTask
  /\ AmendmentsAreTheRequesters

WorkIInv == IInv /\ TableWork /\ RequestsKnowTheirTasks /\ TicksReadActiveCases

-----------------------------------------------------------------------------
(* What persistEngineOutput leaves in the tables.                          *)

Ends(out) == out.moves /\ out.status \in TerminalStatus

(* A task that stays: cancelled if the case ends and it was open.          *)
StaysAs(r, new, ends) ==
  /\ new.step = r.step /\ new.assignee = r.assignee /\ new.rowVersion = r.rowVersion
  /\ new.status = IF ends /\ r.status \in OpenStatus THEN "cancelled" ELSE r.status

(* Timers of tasks that stay.                                              *)
TimersStay(decided, ends, m) ==
  /\ timers'[m] = "absent" <=> timers[m] = "absent"
  /\ StillScheduled(timers'[m]) => StillScheduled(timers[m]) /\ ~ends /\ m[1] \notin decided

Persisted(ts, out, decided) ==
  LET ends == Ends(out) IN
  /\ visit' = IF out.moves THEN visit + 1 ELSE visit
  /\ \/ /\ out.tasks = {} /\ born' = born
        /\ \A t \in TaskId : StaysAs(ts[t], tasks'[t], ends)
        /\ \A m \in TimerId : TimersStay(decided, ends, m)
     \/ \E spec \in out.tasks, n \in TaskId :
          /\ ts[n].status = "absent"
          /\ tasks'[n].status = "pending" /\ tasks'[n].step = spec.step
          /\ tasks'[n].assignee = spec.assignee
          /\ born'[n].visit = visit'
          /\ \A l \in Level : timers'[<<n, l>>] # "absent" => l \in spec.timers
          /\ \A t \in TaskId \ {n} : StaysAs(ts[t], tasks'[t], ends) /\ born'[t] = born[t]
          /\ \A m \in TimerId : m[1] # n => TimersStay(decided, ends, m)

LEMMA CancelledStay ==
  ASSUME NEW ts \in [TaskId -> TaskRow], NEW t \in TaskId
  PROVE  StaysAs(ts[t], CancelOpenTasksForCase(ts)[t], TRUE)
<1>1. CASE ts[t].status \in OpenStatus
  <2> DEFINE r == [ts[t] EXCEPT !.status = "cancelled"]
  <2>1. ts[t] \in PresentTask
    BY <1>1, RowOfPresentTask DEF OpenStatus
  <2>2. r.status = "cancelled" /\ r.step = ts[t].step /\ r.assignee = ts[t].assignee
        /\ r.rowVersion = ts[t].rowVersion
    BY <2>1 DEF PresentTask
  <2>3. CancelOpenTasksForCase(ts)[t] = r
    BY <1>1 DEF CancelOpenTasksForCase
  <2> HIDE DEF r
  <2> QED
    BY <1>1, <2>2, <2>3 DEF StaysAs
<1>2. CASE ts[t].status \notin OpenStatus
  BY <1>2 DEF CancelOpenTasksForCase, StaysAs
<1> QED
  BY <1>1, <1>2

LEMMA EscalatedStay ==
  ASSUME NEW ts \in [TaskId -> TaskRow], NEW from \in TaskId, ts[from].status # "absent",
         NEW level \in Level, NEW t \in TaskId
  PROVE  StaysAs(ts[t], MarkTaskEscalated(ts, from, level)[t], FALSE)
<1> DEFINE r == IF ts[from].level < level THEN [ts[from] EXCEPT !.level = level] ELSE ts[from]
<1>1. ts[from] \in PresentTask
  BY RowOfPresentTask
<1>2. r.status = ts[from].status /\ r.step = ts[from].step /\ r.assignee = ts[from].assignee
      /\ r.rowVersion = ts[from].rowVersion
  BY <1>1 DEF PresentTask
<1>3. MarkTaskEscalated(ts, from, level) = [ts EXCEPT ![from] = r]
  BY DEF MarkTaskEscalated
<1> HIDE DEF r
<1>4. MarkTaskEscalated(ts, from, level)[t] = IF t = from THEN r ELSE ts[t]
  BY <1>3
<1> QED
  BY <1>2, <1>4 DEF StaysAs

LEMMA PersistTables ==
  ASSUME StoreTypeOK, TimersHaveTasks,
         NEW out \in Output, NEW row, NEW version,
         NEW ts, Keeps(tasks, ts), NEW decided, NEW from \in TaskId \cup {0},
         \A t \in TaskId : tasks[t].status = "absent" => ts[t].status = "absent",
         from # 0 => tasks[from].status # "absent",
         PersistEngineOutput(out, row, version, ts, decided, from)
  PROVE  Persisted(ts, out, decided)
<1> DEFINE ends == out.moves /\ out.status \in TerminalStatus
           kept == CancelTimersForTasks(timers, IF ends THEN TaskId ELSE decided)
           base == IF ends THEN CancelOpenTasksForCase(ts) ELSE ts
           now  == IF out.moves THEN visit + 1 ELSE visit
<1>1. /\ visit' = now
      /\ \/ out.tasks = {} /\ tasks' = base /\ timers' = kept /\ born' = born
         \/ \E spec \in out.tasks, t \in First(Absent(ts)) :
              /\ tasks' = CreateCaseTask(IF from = 0 THEN base
                                  ELSE MarkTaskEscalated(base, from, spec.level),
                                  t, spec)
              /\ timers' = CreateSlaTimers(kept, t, spec.timers)
              /\ born' = [born EXCEPT ![t] = [visit |-> now, from |-> from]]
  BY DEF PersistEngineOutput
<1>2. ts \in [TaskId -> TaskRow] /\ base \in [TaskId -> TaskRow]
  BY CancelKeeps DEF Keeps
<1>3. \A t \in TaskId : StaysAs(ts[t], base[t], ends)
  <2>1. CASE ends
    BY <1>2, <2>1, CancelledStay
  <2>2. CASE ~ends
    BY <2>2 DEF StaysAs
  <2> QED
    BY <2>1, <2>2
<1>4. \A m \in TimerId :
        /\ kept[m] = "absent" <=> timers[m] = "absent"
        /\ StillScheduled(kept[m]) => StillScheduled(timers[m]) /\ ~ends /\ m[1] \notin decided
  <2>1. \A m \in TimerId : m[1] \in TaskId
    BY DEF TimerId
  <2> QED
    BY <2>1 DEF CancelTimersForTasks, StillScheduled
<1>5. ends = Ends(out)
  BY DEF Ends
<1> HIDE DEF ends, kept, base
<1>6. CASE out.tasks = {} /\ tasks' = base /\ timers' = kept /\ born' = born
  BY <1>1, <1>3, <1>4, <1>5, <1>6 DEF Persisted, TimersStay
<1>7. ASSUME NEW spec \in out.tasks, NEW n \in First(Absent(ts)),
             tasks' = CreateCaseTask(IF from = 0 THEN base
                                 ELSE MarkTaskEscalated(base, from, spec.level),
                                 n, spec),
             timers' = CreateSlaTimers(kept, n, spec.timers),
             born' = [born EXCEPT ![n] = [visit |-> now, from |-> from]]
      PROVE  Persisted(ts, out, decided)
  <2>1. n \in TaskId /\ ts[n].status = "absent" /\ tasks[n].status = "absent"
    BY FirstIn DEF Absent, Keeps
  <2>2. spec.level \in Level /\ spec \in TaskSpec
    BY DEF Output, TaskSpec
  <2> DEFINE marked == IF from = 0 THEN base ELSE MarkTaskEscalated(base, from, spec.level)
             new == [status |-> "pending", step |-> spec.step, assignee |-> spec.assignee,
                     level |-> spec.level, rowVersion |-> 1]
  <2>3. /\ marked \in [TaskId -> TaskRow]
        /\ \A t \in TaskId : StaysAs(base[t], marked[t], FALSE)
    <3>1. CASE from = 0
      BY <1>2, <3>1 DEF StaysAs
    <3>2. CASE from # 0
      <4>1. from \in TaskId /\ base[from].status # "absent"
        BY <1>3, <3>2 DEF StaysAs, Keeps
      <4>2. marked = MarkTaskEscalated(base, from, spec.level)
        BY <3>2
      <4> HIDE DEF marked
      <4> QED
        BY <1>2, <2>2, <4>1, <4>2, EscalatedStay, EscalationKeeps DEF Keeps
    <3> QED
      BY <3>1, <3>2
  <2>4. tasks' = [marked EXCEPT ![n] = new]
    BY <1>7 DEF CreateCaseTask
  <2>5. new.status = "pending" /\ new.step = spec.step /\ new.assignee = spec.assignee
    OBVIOUS
  <2> HIDE DEF marked, new
  <2>6. /\ tasks'[n].status = "pending" /\ tasks'[n].step = spec.step
        /\ tasks'[n].assignee = spec.assignee
        /\ \A t \in TaskId \ {n} : tasks'[t] = marked[t]
    BY <2>1, <2>3, <2>4, <2>5
  <2>7. \A t \in TaskId \ {n} : StaysAs(ts[t], tasks'[t], Ends(out))
    BY <1>3, <1>5, <2>3, <2>6 DEF StaysAs
  <2>8. born'[n].visit = visit' /\ \A t \in TaskId \ {n} : born'[t] = born[t]
    BY <1>1, <1>7, <2>1 DEF StoreTypeOK
  <2>9. \A m \in TimerId : m[1] # n => timers'[m] = kept[m]
    BY <1>7 DEF CreateSlaTimers
  <2>10. \A m \in TimerId : m[1] # n => TimersStay(decided, Ends(out), m)
    BY <1>4, <1>5, <2>9 DEF TimersStay
  <2>11. ASSUME NEW l \in Level, timers'[<<n, l>>] # "absent"
         PROVE  l \in spec.timers
    <3>1. <<n, l>> \in TimerId /\ <<n, l>>[1] = n /\ <<n, l>>[2] = l
      BY <2>1 DEF TimerId
    <3>2. timers[<<n, l>>] = "absent"
      BY <2>1, <3>1 DEF TimersHaveTasks
    <3>3. kept[<<n, l>>] = "absent"
      BY <1>4, <3>1, <3>2
    <3> QED
      BY <1>7, <2>11, <3>1, <3>3 DEF CreateSlaTimers
  <2> QED
    BY <1>1, <2>1, <2>6, <2>7, <2>8, <2>10, <2>11 DEF Persisted
<1> QED
  BY <1>1, <1>6, <1>7


-----------------------------------------------------------------------------
(* Each kind of transaction keeps the work in step with the case.          *)

(* What the caller's own writes may have done to the task rows.            *)
Prepared(ts, decided) ==
  /\ Keeps(tasks, ts)
  /\ \A t \in TaskId :
       /\ ts[t].step = tasks[t].step /\ ts[t].assignee = tasks[t].assignee
       /\ ts[t].status = "absent" <=> tasks[t].status = "absent"
       /\ \/ ts[t].status = tasks[t].status
          \/ ts[t].status = "completed" /\ (t \in decided \/ tasks[t].step = ReturnedKey)

LEMMA TimerIsOfATask ==
  ASSUME NEW m \in TimerId
  PROVE  m[1] \in TaskId /\ m[2] \in Level /\ m = <<m[1], m[2]>>
BY DEF TimerId

LEMMA MovingKeepsWork ==
  ASSUME StoreTypeOK, TableWork, NEW out \in Output, LandsWell(out),
         NEW ts, NEW decided, Prepared(ts, decided), Persisted(ts, out, decided),
         caseRow'.status = out.status, caseRow'.step = out.step,
         Ends(out) \/ \A t \in TaskId : ts[t].status \in OpenStatus => ts[t].step # ReturnedKey
  PROVE  TableWork'
<1> DEFINE ends == Ends(out)
<1>1. \A t \in TaskId : StaysAs(ts[t], tasks'[t], ends) =>
        /\ tasks'[t].status \in OpenStatus => ~ends /\ ts[t].status \in OpenStatus
        /\ tasks'[t].step = tasks[t].step /\ tasks'[t].assignee = tasks[t].assignee
        /\ ~ends /\ ts[t].status \in OpenStatus => tasks'[t].status \in OpenStatus
  BY DEF StaysAs, OpenStatus, Prepared
<1>2. ends <=> out.status \in TerminalStatus
  BY DEF Ends, LandsWell
<1>3. ASSUME NEW t \in TaskId, StaysAs(ts[t], tasks'[t], ends), tasks'[t].status \in OpenStatus
      PROVE  tasks'[t].step # ReturnedKey
  BY <1>1, <1>3 DEF Prepared
<1>4. ASSUME NEW m \in TimerId, TimersStay(decided, ends, m), StillScheduled(timers'[m]),
             StaysAs(ts[m[1]], tasks'[m[1]], ends)
      PROVE  tasks'[m[1]].status \in OpenStatus
  <2>1. StillScheduled(timers[m]) /\ ~ends /\ m[1] \notin decided
    BY <1>4 DEF TimersStay
  <2>2. m[1] \in OpenTasks
    BY <2>1 DEF TableWork, LiveTimerHasOpenTask
  <2>3. timers[m] # "absent"
    BY <2>1 DEF StillScheduled
  <2>4. tasks[m[1]].step # ReturnedKey
    BY <2>3, TimerIsOfATask DEF TableWork, AmendmentsAreTheRequesters
  <2>5. ts[m[1]].status = tasks[m[1]].status
    BY <2>1, <2>4, TimerIsOfATask DEF Prepared
  <2> QED
    BY <1>1, <1>4, <2>1, <2>2, <2>5, TimerIsOfATask DEF OpenTasks
<1>5. ASSUME NEW t \in TaskId, StaysAs(ts[t], tasks'[t], ends), tasks'[t].step = ReturnedKey,
             \A l \in Level : TimersStay(decided, ends, <<t, l>>)
      PROVE  tasks'[t].assignee = Submitter /\ \A l \in Level : timers'[<<t, l>>] = "absent"
  BY <1>1, <1>5 DEF TableWork, AmendmentsAreTheRequesters, TimersStay
<1>6. \A t \in TaskId, l \in Level : <<t, l>> \in TimerId /\ <<t, l>>[1] = t
  BY DEF TimerId
<1> HIDE DEF ends
(* Nothing is left to do: the case has ended, or there is nobody.          *)
<1>7. CASE /\ out.tasks = {}
           /\ \A t \in TaskId : StaysAs(ts[t], tasks'[t], ends)
           /\ \A m \in TimerId : TimersStay(decided, ends, m)
  <2>1. out.status # "active"
    BY <1>7 DEF LandsWell
  <2>2. ActiveCaseHasWork'
    BY <2>1 DEF ActiveCaseHasWork
  <2>3. AmendmentTaskMatchesCase'
    <3>1. \A t \in TaskId : tasks'[t].status \in OpenStatus => tasks'[t].step # ReturnedKey
      BY <1>3, <1>7
    <3> QED
      BY <3>1 DEF AmendmentTaskMatchesCase, OpenTasks
  <2>4. EndedCaseHasNoWork'
    <3>1. ASSUME out.status \in TerminalStatus
          PROVE  /\ out.step = NoStep
                 /\ \A t \in TaskId : tasks'[t].status \notin OpenStatus
                 /\ \A m \in TimerId : ~StillScheduled(timers'[m])
      <4>1. ends /\ out.step = NoStep
        BY <1>2, <3>1 DEF LandsWell
      <4>2. \A t \in TaskId : tasks'[t].status \notin OpenStatus
        BY <1>1, <1>7, <4>1
      <4>3. \A m \in TimerId : ~StillScheduled(timers'[m])
        BY <1>7, <4>1 DEF TimersStay
      <4> QED
        BY <4>1, <4>2, <4>3
    <3> QED
      BY <3>1 DEF EndedCaseHasNoWork, OpenTasks, IsTerminal, StillScheduled
  <2>5. LiveTimerHasOpenTask'
    <3>1. \A m \in TimerId : StillScheduled(timers'[m]) => tasks'[m[1]].status \in OpenStatus
      BY <1>4, <1>7, TimerIsOfATask
    <3> QED
      BY <3>1, TimerIsOfATask DEF LiveTimerHasOpenTask, OpenTasks, StillScheduled
  <2>6. AmendmentsAreTheRequesters'
    BY <1>5, <1>6, <1>7 DEF AmendmentsAreTheRequesters
  <2> QED
    BY <2>2, <2>3, <2>4, <2>5, <2>6 DEF TableWork, WorkMatchesTheCase
(* There is a task to do.                                                  *)
<1>8. ASSUME NEW spec \in out.tasks, NEW n \in TaskId,
             tasks'[n].status = "pending", tasks'[n].step = spec.step,
             tasks'[n].assignee = spec.assignee, born'[n].visit = visit',
             \A l \in Level : timers'[<<n, l>>] # "absent" => l \in spec.timers,
             \A t \in TaskId \ {n} : StaysAs(ts[t], tasks'[t], ends),
             \A m \in TimerId : m[1] # n => TimersStay(decided, ends, m)
      PROVE  TableWork'
  <2>1. /\ out.status = "active" /\ out.status \notin TerminalStatus
        /\ \/ out.step \in StepKey /\ spec.step = out.step
           \/ /\ out.step = NoStep /\ spec.step = ReturnedKey
              /\ spec.assignee = Submitter /\ spec.timers = {}
    BY <1>8 DEF LandsWell, TerminalStatus
  <2>2. \A k \in StepKey : k # NoStep /\ k # ReturnedKey
    BY KeysAssumption DEF Key
  <2>3. tasks'[n].status \in OpenStatus
    BY <1>8 DEF OpenStatus
  <2>4. ActiveCaseHasWork'
    BY <1>8, <2>1, <2>2, <2>3 DEF ActiveCaseHasWork, OpenTasks
  <2>5. AmendmentTaskMatchesCase'
    <3>1. \A t \in TaskId : tasks'[t].status \in OpenStatus /\ tasks'[t].step = ReturnedKey => t = n
      BY <1>3, <1>8
    <3> QED
      BY <1>8, <2>1, <2>2, <3>1 DEF AmendmentTaskMatchesCase, OpenTasks
  <2>6. EndedCaseHasNoWork'
    BY <2>1 DEF EndedCaseHasNoWork, IsTerminal
  <2>7. LiveTimerHasOpenTask'
    <3>1. \A m \in TimerId : StillScheduled(timers'[m]) => tasks'[m[1]].status \in OpenStatus
      BY <1>4, <1>8, <2>3, TimerIsOfATask
    <3> QED
      BY <3>1, TimerIsOfATask DEF LiveTimerHasOpenTask, OpenTasks, StillScheduled
  <2>8. AmendmentsAreTheRequesters'
    <3>1. ASSUME NEW t \in TaskId, tasks'[t].step = ReturnedKey
          PROVE  tasks'[t].assignee = Submitter /\ \A l \in Level : timers'[<<t, l>>] = "absent"
      <4>1. CASE t = n
        BY <1>8, <2>1, <2>2, <3>1, <4>1
      <4>2. CASE t # n
        BY <1>5, <1>6, <1>8, <3>1, <4>2
      <4> QED
        BY <4>1, <4>2
    <3> QED
      BY <3>1 DEF AmendmentsAreTheRequesters
  <2> QED
    BY <2>4, <2>5, <2>6, <2>7, <2>8 DEF TableWork, WorkMatchesTheCase
<1> QED
  BY <1>7, <1>8 DEF Persisted, ends

LEMMA HelpKeepsWork ==
  ASSUME StoreTypeOK, TableWork, NEW out \in Output, StaysWithHelp(out, caseRow),
         caseRow.status = "active", Persisted(tasks, out, {}),
         caseRow'.status = caseRow.status, caseRow'.step = caseRow.step
  PROVE  TableWork'
<1>1. ~Ends(out) /\ visit' = visit /\ caseRow.step \in StepKey
  BY DEF Ends, StaysWithHelp, Persisted
<1>2a. PICK spec : out.tasks = {spec} /\ spec.step = caseRow.step /\ spec.timers = {}
  BY DEF StaysWithHelp
<1>2. PICK n \in TaskId :
        /\ tasks[n].status = "absent"
        /\ tasks'[n].status = "pending" /\ tasks'[n].step = caseRow.step
        /\ \A l \in Level : ~(timers'[<<n, l>>] # "absent")
        /\ \A t \in TaskId \ {n} : StaysAs(tasks[t], tasks'[t], Ends(out)) /\ born'[t] = born[t]
        /\ \A m \in TimerId : m[1] # n => TimersStay({}, Ends(out), m)
  BY <1>2a DEF Persisted
<1>3. \A t \in TaskId \ {n} :
        /\ tasks'[t].status = tasks[t].status /\ tasks'[t].step = tasks[t].step
        /\ tasks'[t].assignee = tasks[t].assignee
  BY <1>1, <1>2 DEF StaysAs
<1>4. caseRow.step # NoStep /\ caseRow.step # ReturnedKey /\ tasks'[n].status \in OpenStatus
  BY <1>1, <1>2, KeysAssumption DEF Key, OpenStatus
<1>5. \A m \in TimerId : /\ m[1] # n /\ StillScheduled(timers'[m]) => StillScheduled(timers[m])
                         /\ m[1] # n => (timers'[m] = "absent" <=> timers[m] = "absent")
  BY <1>2 DEF TimersStay
<1>6. ActiveCaseHasWork'
  <2>1. PICK t \in OpenTasks :
          /\ born[t].visit = visit
          /\ tasks[t].step = IF caseRow.step = NoStep THEN ReturnedKey ELSE caseRow.step
    BY DEF TableWork, ActiveCaseHasWork
  <2>2. t \in TaskId /\ tasks[t].status \in OpenStatus /\ t # n
    BY <1>2, <2>1 DEF OpenTasks, OpenStatus
  <2>3. /\ tasks'[t].status \in OpenStatus /\ tasks'[t].step = tasks[t].step
        /\ born'[t] = born[t]
    BY <1>2, <1>3, <2>2
  <2> QED
    BY <1>1, <2>1, <2>2, <2>3 DEF ActiveCaseHasWork, OpenTasks
<1>7. AmendmentTaskMatchesCase'
  <2>1. \A t \in TaskId : tasks'[t].step = ReturnedKey => t # n
    BY <1>2, <1>4
  <2> QED
    BY <1>3, <2>1 DEF TableWork, WorkMatchesTheCase, AmendmentTaskMatchesCase, OpenTasks
<1>8. EndedCaseHasNoWork'
  BY DEF EndedCaseHasNoWork, IsTerminal, TerminalStatus
<1>9. LiveTimerHasOpenTask'
  <2>1. ASSUME NEW m \in TimerId, StillScheduled(timers'[m])
        PROVE  tasks'[m[1]].status \in OpenStatus
    BY <1>3, <1>4, <1>5, <2>1, TimerIsOfATask DEF TableWork, LiveTimerHasOpenTask, OpenTasks
  <2> QED
    BY <2>1, TimerIsOfATask DEF LiveTimerHasOpenTask, OpenTasks, StillScheduled
<1>10. AmendmentsAreTheRequesters'
  <2>1. \A t \in TaskId, l \in Level : <<t, l>> \in TimerId /\ <<t, l>>[1] = t
    BY DEF TimerId
  <2> QED
    BY <1>2, <1>3, <1>4, <1>5, <2>1 DEF TableWork, AmendmentsAreTheRequesters
<1> QED
  BY <1>6, <1>7, <1>8, <1>9, <1>10 DEF TableWork, WorkMatchesTheCase

(* A step that creates and closes no task, and schedules no timer.         *)
LEMMA QuietKeepsWork ==
  ASSUME TableWork, UNCHANGED <<tasks, born, visit, late>>,
         caseRow'.status = caseRow.status, caseRow'.step = caseRow.step,
         \A m \in TimerId : /\ timers'[m] = "absent" <=> timers[m] = "absent"
                            /\ StillScheduled(timers'[m]) => StillScheduled(timers[m])
  PROVE  TableWork'
<1>1. \A t \in TaskId, l \in Level : <<t, l>> \in TimerId
  BY DEF TimerId
<1>2. ActiveCaseHasWork' /\ AmendmentTaskMatchesCase'
  BY DEF TableWork, WorkMatchesTheCase, ActiveCaseHasWork, AmendmentTaskMatchesCase, OpenTasks
<1>3. EndedCaseHasNoWork' /\ LiveTimerHasOpenTask'
  BY DEF TableWork, WorkMatchesTheCase, EndedCaseHasNoWork, LiveTimerHasOpenTask,
         OpenTasks, IsTerminal, StillScheduled
<1>4. AmendmentsAreTheRequesters'
  BY <1>1 DEF TableWork, AmendmentsAreTheRequesters
<1> QED
  BY <1>2, <1>3, <1>4 DEF TableWork, WorkMatchesTheCase

(* A claim, of a task that may have been closed since it was read.         *)
LEMMA ClaimedRow ==
  ASSUME NEW ts \in [TaskId -> TaskRow], NEW t \in TaskId, ts[t].status # "absent",
         NEW u \in User
  PROVE  LET us == ClaimCaseTask(ts, t, u) IN
         /\ us[t].status = "claimed" /\ us[t].step = ts[t].step /\ us[t].assignee = u
         /\ us[t].rowVersion = ts[t].rowVersion + 1
         /\ \A v \in TaskId \ {t} : us[v] = ts[v]
<1> DEFINE n == ts[t].rowVersion + 1
           r == [ts[t] EXCEPT !.status = "claimed", !.assignee = u, !.rowVersion = n]
<1>1. ts[t] \in PresentTask
  BY RowOfPresentTask
<1>2. /\ r.status = "claimed" /\ r.step = ts[t].step /\ r.assignee = u
      /\ r.rowVersion = n
  BY <1>1 DEF PresentTask
<1>3. ClaimCaseTask(ts, t, u) = [ts EXCEPT ![t] = r]
  BY DEF ClaimCaseTask
<1> HIDE DEF r
<1> QED
  BY <1>2, <1>3

LEMMA ClaimKeepsWork ==
  ASSUME StoreTypeOK, TableWork, NEW t \in TaskId, tasks[t].status # "absent", NEW u \in User,
         tasks[t].step # ReturnedKey, tasks' = ClaimCaseTask(tasks, t, u),
         late' = ClaimedNow(t), UNCHANGED <<caseRow, timers, born, visit>>
  PROVE  TableWork'
<1>1. /\ tasks'[t].status \in OpenStatus /\ tasks'[t].status = "claimed"
      /\ tasks'[t].step = tasks[t].step
      /\ \A v \in TaskId \ {t} : tasks'[v] = tasks[v]
  BY ClaimedRow DEF StoreTypeOK, OpenStatus
<1>2. ActiveCaseHasWork'
  BY <1>1 DEF TableWork, ActiveCaseHasWork, OpenTasks
<1>3. AmendmentTaskMatchesCase'
  BY <1>1 DEF TableWork, WorkMatchesTheCase, AmendmentTaskMatchesCase, OpenTasks
<1>4. EndedCaseHasNoWork'
  <2>1. ASSUME IsTerminal(caseRow), NEW v \in TaskId, tasks'[v].status \in OpenStatus
        PROVE  v \in late' /\ tasks'[v].status = "claimed"
    <3>1. v # t => v \in late /\ tasks[v].status = "claimed"
      BY <1>1, <2>1 DEF TableWork, WorkMatchesTheCase, EndedCaseHasNoWork, OpenTasks
    <3>2. tasks[t].status \in OpenStatus => t \in late
      BY <2>1 DEF TableWork, WorkMatchesTheCase, EndedCaseHasNoWork, OpenTasks
    <3> QED
      BY <1>1, <3>1, <3>2 DEF ClaimedNow
  <2> QED
    BY <2>1 DEF TableWork, WorkMatchesTheCase, EndedCaseHasNoWork, OpenTasks, IsTerminal,
                StillScheduled
<1>5. LiveTimerHasOpenTask'
  BY <1>1, TimerIsOfATask DEF TableWork, LiveTimerHasOpenTask, OpenTasks, StillScheduled
<1>6. AmendmentsAreTheRequesters'
  BY <1>1 DEF TableWork, AmendmentsAreTheRequesters
<1> QED
  BY <1>2, <1>3, <1>4, <1>5, <1>6 DEF TableWork, WorkMatchesTheCase


-----------------------------------------------------------------------------
(* The task rows only grow: a row keeps its step, its row_version never    *)
(* falls, and a claim raises it.                                           *)
Grows(ts, us) ==
  \A t \in TaskId : ts[t].status # "absent" =>
    /\ us[t].step = ts[t].step
    /\ ts[t].rowVersion <= us[t].rowVersion
    /\ us[t].rowVersion = ts[t].rowVersion /\ us[t].status = "claimed"
       => ts[t].status = "claimed"

(* What no step may do to a task.                                          *)
TasksStep ==
  /\ Grows(tasks, tasks')
  /\ \A t \in TaskId :
       /\ tasks[t].status \in OpenStatus /\ tasks[t].step # ReturnedKey
       /\ tasks'[t].status = "completed"
       => caseRow.step = tasks[t].step /\ visit' = visit + 1
  /\ \A t \in TaskId :
       tasks[t].status = "claimed" => tasks'[t].assignee = tasks[t].assignee

WorkStep == TableWork' /\ TasksStep

LEMMA PresentVersion ==
  ASSUME NEW ts \in [TaskId -> TaskRow], NEW t \in TaskId, ts[t].status # "absent"
  PROVE  ts[t].rowVersion \in Nat
BY RowOfPresentTask DEF PresentTask

LEMMA SameTasksStep ==
  ASSUME StoreTypeOK, tasks' = tasks
  PROVE  TasksStep
<1>1. Grows(tasks, tasks)
  BY PresentVersion DEF Grows, StoreTypeOK
<1> QED
  BY <1>1 DEF TasksStep, OpenStatus

LEMMA ClaimTasksStep ==
  ASSUME StoreTypeOK, NEW t \in TaskId, tasks[t].status # "absent", NEW u \in User,
         tasks[t].status # "claimed", tasks' = ClaimCaseTask(tasks, t, u)
  PROVE  TasksStep
<1>1. /\ tasks'[t].status = "claimed" /\ tasks'[t].step = tasks[t].step
      /\ tasks'[t].rowVersion = tasks[t].rowVersion + 1
      /\ \A v \in TaskId \ {t} : tasks'[v] = tasks[v]
  BY ClaimedRow DEF StoreTypeOK
<1>2. \A v \in TaskId : tasks[v].status # "absent" => tasks[v].rowVersion \in Nat
  BY PresentVersion DEF StoreTypeOK
<1>3. Grows(tasks, tasks')
  BY <1>1, <1>2 DEF Grows
<1> QED
  BY <1>1, <1>3 DEF TasksStep, OpenStatus

(* Persisting an output, over the caller's own writes.                     *)
LEMMA PersistTasksStep ==
  ASSUME StoreTypeOK, NEW out \in Output, NEW ts, NEW decided, Prepared(ts, decided),
         Grows(tasks, ts), Persisted(ts, out, decided),
         \A t \in TaskId : t \in decided => out.moves /\ caseRow.step = tasks[t].step
  PROVE  TasksStep
<1>1. ASSUME NEW t \in TaskId, tasks[t].status # "absent"
      PROVE  StaysAs(ts[t], tasks'[t], Ends(out))
  <2>1. ts[t].status # "absent"
    BY <1>1 DEF Prepared
  <2> QED
    BY <2>1 DEF Persisted
<1>2. Grows(tasks, tasks')
  <2>1. ASSUME NEW t \in TaskId, tasks[t].status # "absent"
        PROVE  /\ tasks'[t].step = ts[t].step /\ tasks'[t].rowVersion = ts[t].rowVersion
               /\ tasks'[t].status = "claimed" => ts[t].status = "claimed"
    BY <1>1, <2>1 DEF StaysAs
  <2> QED
    BY <2>1 DEF Grows
<1>3. ASSUME NEW t \in TaskId, tasks[t].status \in OpenStatus, tasks[t].step # ReturnedKey,
             tasks'[t].status = "completed"
      PROVE  caseRow.step = tasks[t].step /\ visit' = visit + 1
  <2>1. StaysAs(ts[t], tasks'[t], Ends(out))
    BY <1>1, <1>3 DEF OpenStatus
  <2>2. ts[t].status = "completed"
    BY <1>3, <2>1 DEF StaysAs
  <2>3. t \in decided
    BY <1>3, <2>2 DEF Prepared, OpenStatus
  <2> QED
    BY <2>3 DEF Persisted
<1>4. ASSUME NEW t \in TaskId, tasks[t].status = "claimed"
      PROVE  tasks'[t].assignee = tasks[t].assignee
  BY <1>1, <1>4 DEF StaysAs, Prepared
<1> QED
  BY <1>2, <1>3, <1>4 DEF TasksStep

(* A transaction that moves the case.                                      *)
LEMMA EngineKeepsWork ==
  ASSUME StoreTypeOK, TimersHaveTasks, TableWork, NEW out \in Output, LandsWell(out),
         NEW row, NEW version, NEW ts, NEW decided, Prepared(ts, decided), Grows(tasks, ts),
         NEW from \in TaskId \cup {0}, from # 0 => tasks[from].status # "absent",
         PersistEngineOutput(out, row, version, ts, decided, from),
         Ends(out) \/ \A t \in TaskId : ts[t].status \in OpenStatus => ts[t].step # ReturnedKey,
         \A t \in TaskId : t \in decided => caseRow.step = tasks[t].step
  PROVE  WorkStep
<1>1. Persisted(ts, out, decided)
  BY PersistTables DEF Prepared
<1>2. out.moves
  BY DEF LandsWell
<1>3. caseRow'.status = out.status /\ caseRow'.step = out.step
  BY <1>2 DEF PersistEngineOutput, UpdatedCase
<1>4. TableWork'
  BY <1>1, <1>3, MovingKeepsWork
<1>5. TasksStep
  BY <1>1, <1>2, PersistTasksStep
<1> QED
  BY <1>4, <1>5 DEF WorkStep

(* The transactions in which the caller writes nothing itself.             *)
LEMMA NothingPrepared ==
  ASSUME StoreTypeOK
  PROVE  Prepared(tasks, {}) /\ Grows(tasks, tasks)
<1>1. Grows(tasks, tasks)
  BY PresentVersion DEF Grows, StoreTypeOK
<1> QED
  BY <1>1 DEF Prepared, Keeps, StoreTypeOK


-----------------------------------------------------------------------------
(* Transaction by transaction.                                             *)

(* Work for the requester is open only while the case is with them.        *)
LEMMA AmendmentOnlyWhenReturned ==
  ASSUME TableWork, NEW t \in TaskId, tasks[t].status \in OpenStatus,
         tasks[t].step = ReturnedKey
  PROVE  caseRow.status = "active" /\ caseRow.step = NoStep
BY DEF TableWork, WorkMatchesTheCase, AmendmentTaskMatchesCase, OpenTasks

LEMMA StepKeysAreNot ==
  ASSUME NEW k \in StepKey
  PROVE  k # NoStep /\ k # ReturnedKey
BY KeysAssumption DEF Key

LEMMA SubmitKeepsWork ==
  ASSUME WorkIInv, NEW c \in Client, CommitSubmit(c)
  PROVE  WorkStep
<1>1. /\ IInv /\ TableWork /\ StoreTypeOK /\ TimersHaveTasks
      /\ req[c] \in Request /\ RequestSound(req[c], caseRow, tasks)
      /\ req[c].op = "submit" /\ req[c].pc = "commit"
  BY InvariantParts DEF WorkIInv, CommitSubmit, At
<1>2. req[c].row = caseRow
  BY <1>1, CommitSubmitIsSound DEF EngineCommit
<1>3. PICK who \in Directories : \E out \in SubmitOutputs(c, who) :
        PersistEngineOutput(out, req[c].row, req[c].version, tasks, {}, 0)
  BY DEF CommitSubmit
<1>4. PICK out \in SubmitOutputs(c, who) :
        PersistEngineOutput(out, req[c].row, req[c].version, tasks, {}, 0)
  BY <1>3
<1>5. IsContext(ContextOf(req[c].version, req[c].got, who))
  BY <1>1, ContextOfIsContext DEF Request, RequestSound
<1>6. out \in Output /\ LandsWell(out) /\ caseRow.status = "draft"
  BY <1>2, <1>4, <1>5, CaseSubmittedTyped, SubmissionLands DEF SubmitOutputs
<1>7. \A t \in TaskId : tasks[t].status \in OpenStatus => tasks[t].step # ReturnedKey
  BY <1>1, <1>6, AmendmentOnlyWhenReturned
<1> QED
  BY <1>1, <1>4, <1>6, <1>7, NothingPrepared, EngineKeepsWork

LEMMA CancelKeepsWork ==
  ASSUME WorkIInv, NEW c \in Client, CommitCancel(c)
  PROVE  WorkStep
<1>1. /\ IInv /\ TableWork /\ StoreTypeOK /\ TimersHaveTasks
      /\ req[c] \in Request /\ RequestSound(req[c], caseRow, tasks)
  BY InvariantParts DEF WorkIInv
<1>2. PICK out \in CaseCancelled(req[c].row) :
        PersistEngineOutput(out, req[c].row, req[c].version, tasks, {}, 0)
  BY DEF CommitCancel
<1>3. out \in Output /\ LandsWell(out) /\ Ends(out)
  BY <1>2, CaseCancelledTyped, CancellationLands DEF Ends, LandsWell
<1> QED
  BY <1>1, <1>2, <1>3, NothingPrepared, EngineKeepsWork

(* The row a recorded decision leaves.                                     *)
LEMMA DecidedRow ==
  ASSUME NEW ts \in [TaskId -> TaskRow], NEW t \in TaskId, ts[t].status # "absent"
  PROVE  LET us == RecordTaskDecision(ts, t) IN
         /\ us[t].status = "completed" /\ us[t].step = ts[t].step
         /\ us[t].assignee = ts[t].assignee /\ us[t].rowVersion = ts[t].rowVersion + 1
         /\ \A v \in TaskId \ {t} : us[v] = ts[v]
<1> DEFINE n == ts[t].rowVersion + 1
           r == [ts[t] EXCEPT !.status = "completed", !.rowVersion = n]
<1>1. ts[t] \in PresentTask
  BY RowOfPresentTask
<1>2. /\ r.status = "completed" /\ r.step = ts[t].step /\ r.assignee = ts[t].assignee
      /\ r.rowVersion = n
  BY <1>1 DEF PresentTask
<1>3. RecordTaskDecision(ts, t) = [ts EXCEPT ![t] = r]
  BY DEF RecordTaskDecision
<1> HIDE DEF r
<1> QED
  BY <1>2, <1>3

LEMMA DecisionPrepared ==
  ASSUME StoreTypeOK, NEW t \in TaskId, tasks[t].status # "absent"
  PROVE  /\ Prepared(RecordTaskDecision(tasks, t), {t})
         /\ Grows(tasks, RecordTaskDecision(tasks, t))
<1> DEFINE us == RecordTaskDecision(tasks, t)
<1>1. /\ us[t].status = "completed" /\ us[t].step = tasks[t].step
      /\ us[t].assignee = tasks[t].assignee /\ us[t].rowVersion = tasks[t].rowVersion + 1
      /\ \A v \in TaskId \ {t} : us[v] = tasks[v]
  BY DecidedRow DEF StoreTypeOK
<1>2. Keeps(tasks, us)
  BY DecisionKeeps DEF StoreTypeOK
<1>3. \A v \in TaskId : tasks[v].status # "absent" => tasks[v].rowVersion \in Nat
  BY PresentVersion DEF StoreTypeOK
<1> HIDE DEF us
<1>4. Prepared(us, {t})
  BY <1>1, <1>2 DEF Prepared
<1>5. Grows(tasks, us)
  BY <1>1, <1>3 DEF Grows
<1> QED
  BY <1>4, <1>5 DEF us

LEMMA DecideKeepsWork ==
  ASSUME WorkIInv, NEW c \in Client, CommitDecide(c)
  PROVE  WorkStep
<1> DEFINE t == req[c].task
<1>1. /\ IInv /\ TableWork /\ StoreTypeOK /\ TimersHaveTasks
      /\ req[c] \in Request /\ RequestSound(req[c], caseRow, tasks)
      /\ req[c].op = "decide" /\ req[c].pc = "commit" /\ KnowsItsTask(req[c], tasks)
  BY InvariantParts DEF WorkIInv, CommitDecide, At, RequestsKnowTheirTasks
<1>2. req[c].row = caseRow
  BY <1>1, CommitDecideIsSound DEF EngineCommit
<1>3. PICK who \in Directories : \E out \in DecideOutputs(c, who) :
        PersistEngineOutput(out, req[c].row, req[c].version,
                            RecordTaskDecision(tasks, t), {t}, 0)
  BY DEF CommitDecide
<1>4. PICK out \in DecideOutputs(c, who) :
        PersistEngineOutput(out, req[c].row, req[c].version,
                            RecordTaskDecision(tasks, t), {t}, 0)
  BY <1>3
<1>5. IsContext(ContextOf(req[c].version, req[c].got, who))
  BY <1>1, ContextOfIsContext DEF Request, RequestSound
<1>6. out \in Output /\ LandsWell(out) /\ caseRow.step \in StepKey
  <2>1. LandsWell(out) /\ caseRow.step \in StepKey
    BY <1>2, <1>4, <1>5, DecisionLands DEF DecideOutputs
  <2>2. out \in Output
    BY <1>1, <1>4, <1>5, TaskDecidedTyped DEF DecideOutputs, Request
  <2> QED
    BY <2>1, <2>2
<1>7. t \in TaskId /\ tasks[t].status # "absent" /\ caseRow.step = tasks[t].step
  BY <1>1, <1>2 DEF RequestSound, KnowsItsTask
<1> DEFINE us == RecordTaskDecision(tasks, t)
<1>8. Prepared(us, {t}) /\ Grows(tasks, us)
  BY <1>1, <1>7, DecisionPrepared
<1>9. ASSUME NEW u \in TaskId, us[u].status \in OpenStatus
      PROVE  us[u].step # ReturnedKey
  <2>1. tasks[u].status \in OpenStatus /\ us[u].step = tasks[u].step
    BY <1>8, <1>9 DEF Prepared, OpenStatus
  <2> QED
    BY <1>1, <1>6, <2>1, AmendmentOnlyWhenReturned, StepKeysAreNot
<1> HIDE DEF us
<1>10. PersistEngineOutput(out, req[c].row, req[c].version, us, {t}, 0)
  BY <1>4 DEF us
<1> QED
  BY <1>1, <1>6, <1>7, <1>8, <1>9, <1>10, EngineKeepsWork


(* completeReturnedTask closes the one amendment task there is.            *)
LEMMA CompletionPrepared ==
  ASSUME StoreTypeOK, TableWork
  PROVE  /\ Prepared(CompleteReturnedTask, {}) /\ Grows(tasks, CompleteReturnedTask)
         /\ \A t \in TaskId : CompleteReturnedTask[t].status \in OpenStatus
                                => CompleteReturnedTask[t].step # ReturnedKey
<1> DEFINE open == {t \in OpenTasks : tasks[t].step = ReturnedKey}
           us   == CompleteReturnedTask
<1>1. ASSUME NEW t \in TaskId
      PROVE  \/ us[t] = tasks[t] /\ t \notin open
             \/ /\ t \in open /\ us[t].status = "completed" /\ us[t].step = tasks[t].step
                /\ us[t].assignee = tasks[t].assignee
                /\ us[t].rowVersion = tasks[t].rowVersion + 1
  <2>1. CASE t \in open
    <3>1. \A u \in open : u = t
      BY <2>1 DEF TableWork, WorkMatchesTheCase, AmendmentTaskMatchesCase
    <3>2. t \in First(open)
      BY <2>1, <3>1 DEF First, TaskId
    <3>3. us[t] = RecordTaskDecision(tasks, t)[t]
      BY <3>2 DEF CompleteReturnedTask
    <3>4. tasks[t].status # "absent"
      BY <2>1 DEF OpenTasks, OpenStatus
    <3> QED
      BY <2>1, <3>3, <3>4, DecidedRow DEF StoreTypeOK
  <2>2. CASE t \notin open
    BY <2>2, FirstIn DEF CompleteReturnedTask
  <2> QED
    BY <2>1, <2>2
<1>2. \A t \in TaskId : tasks[t].status # "absent" => tasks[t].rowVersion \in Nat
  BY PresentVersion DEF StoreTypeOK
<1>3. \A t \in open : t \in TaskId /\ tasks[t].status \in OpenStatus /\ tasks[t].step = ReturnedKey
  BY DEF OpenTasks
<1>4. \A t \in TaskId : tasks[t].status \in OpenStatus /\ tasks[t].step = ReturnedKey => t \in open
  BY DEF OpenTasks
<1>5. Keeps(tasks, us)
  BY CompletingKeeps
<1> HIDE DEF open, us
<1>6. Prepared(us, {})
  BY <1>1, <1>3, <1>5 DEF Prepared, OpenStatus
<1>7. Grows(tasks, us)
  BY <1>1, <1>2 DEF Grows
<1>8. \A t \in TaskId : us[t].status \in OpenStatus => us[t].step # ReturnedKey
  BY <1>1, <1>4 DEF OpenStatus
<1> QED
  BY <1>6, <1>7, <1>8 DEF us

LEMMA ResubmitKeepsWork ==
  ASSUME WorkIInv, NEW c \in Client, CommitResubmit(c)
  PROVE  WorkStep
<1>1. /\ IInv /\ TableWork /\ StoreTypeOK /\ TimersHaveTasks
      /\ req[c] \in Request /\ RequestSound(req[c], caseRow, tasks)
      /\ req[c].op = "resubmit" /\ req[c].pc = "commit"
  BY InvariantParts DEF WorkIInv, CommitResubmit, At
<1>2. PICK who \in Directories : \E out \in ResubmitOutputs(c, who) :
        PersistEngineOutput(out, req[c].row, req[c].version, CompleteReturnedTask, {}, 0)
  BY DEF CommitResubmit
<1>3. PICK out \in ResubmitOutputs(c, who) :
        PersistEngineOutput(out, req[c].row, req[c].version, CompleteReturnedTask, {}, 0)
  BY <1>2
<1>4. IsContext(ContextOf(req[c].version, req[c].got, who))
  BY <1>1, ContextOfIsContext DEF Request, RequestSound
<1>5. out \in Output /\ LandsWell(out)
  BY <1>3, <1>4, CaseResubmittedTyped, ResubmissionLands DEF ResubmitOutputs
<1> QED
  BY <1>1, <1>3, <1>5, CompletionPrepared, EngineKeepsWork

LEMMA EscalationKeepsWork ==
  ASSUME WorkIInv, NEW s \in Sweeper, CommitEscalation(s)
  PROVE  WorkStep
<1>1. /\ IInv /\ TableWork /\ StoreTypeOK /\ TimersHaveTasks
      /\ sweep[s] \in Tick /\ TickSound(sweep[s], caseRow, timers)
      /\ sweep[s].pc = "commit" /\ sweep[s].row.status = "active"
  BY InvariantParts DEF WorkIInv, CommitEscalation, Doing, TicksReadActiveCases
<1>2. sweep[s].row = caseRow
  BY <1>1, CommitEscalationIsSound DEF EngineCommit
<1>3. PICK who \in Directories : \E out \in EscalationOutputs(s, who) :
        PersistEngineOutput(out, sweep[s].row, sweep[s].row.version, tasks, {}, TaskOf(s))
  BY DEF CommitEscalation
<1>4. PICK out \in EscalationOutputs(s, who) :
        PersistEngineOutput(out, sweep[s].row, sweep[s].row.version, tasks, {}, TaskOf(s))
  BY <1>3
<1>5. /\ sweep[s].level \in Level /\ caseRow.version \in Version
      /\ caseRow.status \in CaseStatus
  BY <1>1 DEF Tick, StoreTypeOK, CaseRow
<1>6. IsContext(ContextOf(caseRow.version, values, who))
  BY <1>1, <1>5, ContextOfIsContext DEF StoreTypeOK
<1>7. out \in EscalationTriggered(ContextOf(caseRow.version, values, who), caseRow,
                                  sweep[s].level)
  BY <1>2, <1>4 DEF EscalationOutputs
<1>8. out \in Output /\ caseRow.step \in StepKey
      /\ (LandsWell(out) \/ StaysWithHelp(out, caseRow))
  BY <1>5, <1>6, <1>7, EscalationTriggeredTyped, EscalationLands
<1>9. TaskOf(s) \in TaskId /\ tasks[TaskOf(s)].status # "absent"
  BY <1>1 DEF TickSound, TaskOf, TimerId, TimersHaveTasks
<1>10. CASE LandsWell(out)
  <2>1. \A t \in TaskId : tasks[t].status \in OpenStatus => tasks[t].step # ReturnedKey
    BY <1>1, <1>8, AmendmentOnlyWhenReturned, StepKeysAreNot
  <2> QED
    BY <1>1, <1>4, <1>8, <1>9, <1>10, <2>1, NothingPrepared, EngineKeepsWork
<1>11. CASE StaysWithHelp(out, caseRow)
  <2>1. Persisted(tasks, out, {})
    BY <1>1, <1>4, <1>8, <1>9, NothingPrepared, PersistTables DEF Prepared
  <2>2. caseRow'.status = caseRow.status /\ caseRow'.step = caseRow.step
    BY <1>4, <1>11 DEF StaysWithHelp, PersistEngineOutput, UpdatedCase
  <2>3. TableWork'
    BY <1>1, <1>2, <1>8, <1>11, <2>1, <2>2, HelpKeepsWork
  <2>4. TasksStep
    BY <1>1, <1>8, <2>1, NothingPrepared, PersistTasksStep
  <2> QED
    BY <2>3, <2>4 DEF WorkStep
<1> QED
  BY <1>8, <1>10, <1>11

LEMMA ClaimCommitKeepsWork ==
  ASSUME WorkIInv, NEW c \in Client, CommitClaim(c)
  PROVE  WorkStep
<1>1. /\ TableWork /\ StoreTypeOK /\ req[c] \in Request
      /\ RequestSound(req[c], caseRow, tasks) /\ KnowsItsTask(req[c], tasks)
      /\ req[c].op = "claim"
  BY InvariantParts DEF WorkIInv, CommitClaim, At, RequestsKnowTheirTasks
<1> DEFINE t == req[c].task
<1>2. /\ t \in TaskId /\ tasks[t].status # "absent" /\ tasks[t].step # ReturnedKey
      /\ tasks[t].rowVersion = req[c].taskVersion /\ tasks[t].status # "claimed"
  BY <1>1 DEF RequestSound, KnowsItsTask, CommitClaim
<1>3. /\ tasks' = ClaimCaseTask(tasks, t, req[c].user) /\ req[c].user \in User
      /\ late' = ClaimedNow(t) /\ UNCHANGED <<caseRow, timers, born, visit>>
  BY <1>1 DEF CommitClaim, Request
<1> QED
  BY <1>1, <1>2, <1>3, ClaimKeepsWork, ClaimTasksStep DEF WorkStep

(* Every other step: no task changes, a timer at most falls due or fires.  *)
LEMMA OtherStepsKeepWork ==
  ASSUME StoreTypeOK, TableWork, UNCHANGED <<tasks, born, visit, late>>,
         caseRow'.status = caseRow.status, caseRow'.step = caseRow.step,
         \A m \in TimerId : /\ timers'[m] = "absent" <=> timers[m] = "absent"
                            /\ StillScheduled(timers'[m]) => StillScheduled(timers[m])
  PROVE  WorkStep
BY QuietKeepsWork, SameTasksStep DEF WorkStep

LEMMA NextKeepsWork ==
  ASSUME WorkIInv, [Next]_vars
  PROVE  WorkStep
<1>1. /\ IInv /\ TableWork /\ StoreTypeOK /\ sweep \in [Sweeper -> Tick]
      /\ \A s \in Sweeper : TickSound(sweep[s], caseRow, timers)
  BY InvariantParts DEF WorkIInv
<1>2. ASSUME UNCHANGED <<caseRow, tasks, timers, born, visit, late>> PROVE WorkStep
  BY <1>1, <1>2, OtherStepsKeepWork
<1>3. ASSUME NEW c \in Client, RequestStep(c) PROVE WorkStep
  <2>1. CASE \/ StartPatch(c) \/ StartSubmit(c) \/ StartResubmit(c) \/ StartCancel(c)
             \/ StartClaim(c) \/ StartDecide(c) \/ ReadCase(c) \/ ReadValues(c)
             \/ Refuse(c) \/ RollBack(c)
    BY <1>2, <2>1 DEF StartPatch, StartSubmit, StartResubmit, StartCancel, StartClaim,
         StartDecide, StartCaseRequest, ReadCase, ReadValues, Refuse, RollBack, store, history
  <2>2. CASE CommitPatch(c)
    <3>1. caseRow' = [caseRow EXCEPT !.rowVersion = caseRow.rowVersion + 1]
          /\ UNCHANGED <<tasks, timers, born, visit, late>>
      BY <2>2 DEF CommitPatch, history
    <3>2. caseRow'.status = caseRow.status /\ caseRow'.step = caseRow.step
      BY <1>1, <3>1 DEF StoreTypeOK, CaseRow
    <3> QED
      BY <1>1, <3>1, <3>2, OtherStepsKeepWork
  <2> QED
    BY <1>3, <2>1, <2>2, SubmitKeepsWork, ResubmitKeepsWork, CancelKeepsWork,
       ClaimCommitKeepsWork, DecideKeepsWork DEF RequestStep
<1>4. ASSUME NEW s \in Sweeper, SweepStep(s) \/ ProcessDies(s) PROVE WorkStep
  <2>1. CASE \/ StartTick(s) \/ TakeTimer(s) \/ ReadTask(s) \/ ReadEscalatedCase(s)
             \/ PublishTimerEvent(s) \/ ProcessTimerThrows(s) \/ ProcessDies(s)
    BY <1>2, <2>1 DEF StartTick, TakeTimer, ReadTask, ReadEscalatedCase,
         PublishTimerEvent, ProcessTimerThrows, ProcessDies, store
  <2>2. CASE MarkFired(s)
    <3>1. /\ timers' = MarkTimerFired(timers, sweep[s].timer)
          /\ UNCHANGED <<caseRow, tasks, born, visit, late>>
      BY <2>2 DEF MarkFired, history
    <3>2. sweep[s].timer \in TimerId
      BY <1>1, <2>2 DEF MarkFired, Doing, TickSound
    <3>3. \A m \in TimerId : /\ timers'[m] = "absent" <=> timers[m] = "absent"
                             /\ StillScheduled(timers'[m]) => StillScheduled(timers[m])
      BY <1>1, <3>1, <3>2 DEF MarkTimerFired, StillScheduled, StoreTypeOK
    <3> QED
      BY <1>1, <3>1, <3>3, OtherStepsKeepWork
  <2> QED
    BY <1>4, <2>1, <2>2, EscalationKeepsWork DEF SweepStep
<1>5. ASSUME NEW n \in TimerId, FallDue(n) PROVE WorkStep
  <2>1. \A m \in TimerId : /\ timers'[m] = "absent" <=> timers[m] = "absent"
                           /\ StillScheduled(timers'[m]) => StillScheduled(timers[m])
    BY <1>1, <1>5 DEF FallDue, StillScheduled, StoreTypeOK
  <2> QED
    BY <1>1, <1>5, <2>1, OtherStepsKeepWork DEF FallDue, history
<1>6. CASE PublishVersion \/ UNCHANGED vars
  BY <1>2, <1>6 DEF PublishVersion, vars, store, history
<1> QED
  BY <1>3, <1>4, <1>5, <1>6 DEF Next


-----------------------------------------------------------------------------
(* What a handler knows of its task stays true while others commit.        *)

LEMMA KnowsLater ==
  ASSUME StoreTypeOK, TasksStep, tasks' \in [TaskId -> TaskRow],
         NEW r \in Request, RequestSound(r, caseRow, tasks),
         Keeps(tasks, tasks'), KnowsItsTask(r, tasks)
  PROVE  KnowsItsTask(r, tasks')
<1>1. CASE r.op \in {"claim", "decide"}
  <2> DEFINE t == r.task
  <2>1. t \in TaskId /\ tasks[t].status # "absent" /\ tasks'[t].status # "absent"
    BY <1>1 DEF RequestSound, Keeps
  <2>2. tasks[t].rowVersion \in Nat /\ tasks'[t].rowVersion \in Nat /\ r.taskVersion \in Nat
    BY <2>1, PresentVersion DEF StoreTypeOK, Request
  <2>3. /\ tasks'[t].step = tasks[t].step
        /\ tasks[t].rowVersion <= tasks'[t].rowVersion
        /\ tasks'[t].rowVersion = tasks[t].rowVersion /\ tasks'[t].status = "claimed"
           => tasks[t].status = "claimed"
    BY <2>1 DEF TasksStep, Grows
  <2> QED
    BY <2>2, <2>3 DEF KnowsItsTask
<1>2. CASE r.op \notin {"claim", "decide"}
  BY <1>2 DEF KnowsItsTask
<1> QED
  BY <1>1, <1>2

KnowingTo(c, r) == req' = [req EXCEPT ![c] = r] /\ KnowsItsTask(r, tasks')

LEMMA FinishKnows ==
  ASSUME NEW c \in Client, Finish(c)
  PROVE  \E r : KnowingTo(c, r)
<1>1. Blank.op = "none"
  BY DEF Blank
<1>2. KnowingTo(c, Blank)
  BY <1>1 DEF KnowingTo, KnowsItsTask, Finish
<1> QED
  BY <1>2

LEMMA StartKnows ==
  ASSUME NEW c \in Client, NEW op \in {"patch", "submit", "resubmit", "cancel"},
         NEW pc, NEW version, NEW put, StartCaseRequest(c, op, pc, version, put)
  PROVE  \E r : KnowingTo(c, r)
<1> DEFINE r == [Blank EXCEPT !.pc = pc, !.op = op, !.row = caseRow,
                              !.version = version, !.put = put]
<1>1. req' = [req EXCEPT ![c] = r] /\ r.op = op
  BY DEF StartCaseRequest, Blank
<1> HIDE DEF r
<1>2. KnowingTo(c, r)
  BY <1>1 DEF KnowingTo, KnowsItsTask
<1> QED
  BY <1>2

LEMMA StartClaimKnows ==
  ASSUME StoreTypeOK, TableWork, NEW c \in Client, StartClaim(c)
  PROVE  \E r : KnowingTo(c, r)
<1>1. PICK t \in TaskId, u \in User :
        /\ tasks[t].status = "pending" /\ tasks[t].assignee \in Pool
        /\ req' = [req EXCEPT ![c] =
                     [Blank EXCEPT !.pc = "commit", !.op = "claim", !.user = u,
                        !.task = t, !.taskVersion = tasks[t].rowVersion]]
        /\ tasks' = tasks
  BY DEF StartClaim, store
<1> DEFINE n == tasks[t].rowVersion
           r == [Blank EXCEPT !.pc = "commit", !.op = "claim", !.user = u,
                              !.task = t, !.taskVersion = n]
<1>2. n \in Nat
  BY <1>1, PresentVersion DEF StoreTypeOK
<1>3. tasks[t].step # ReturnedKey
  BY <1>1, PeopleAssumption DEF TableWork, AmendmentsAreTheRequesters
<1>4. req' = [req EXCEPT ![c] = r]
  BY <1>1
<1>5. r.op = "claim" /\ r.task = t /\ r.taskVersion = n
  BY DEF Blank
<1> HIDE DEF r
<1>6. KnowsItsTask(r, tasks)
  <2>1. r.taskVersion = tasks[r.task].rowVersion /\ r.taskVersion <= tasks[r.task].rowVersion
    BY <1>2, <1>5
  <2>2. tasks[r.task].step # ReturnedKey /\ tasks[r.task].status # "claimed"
    BY <1>1, <1>3, <1>5
  <2> QED
    BY <1>5, <2>1, <2>2 DEF KnowsItsTask
<1>7. KnowingTo(c, r)
  BY <1>1, <1>4, <1>6 DEF KnowingTo
<1> QED
  BY <1>7

LEMMA StartDecideKnows ==
  ASSUME NEW c \in Client, StartDecide(c)
  PROVE  \E r : KnowingTo(c, r)
<1>1. PICK t \in OpenTasks, body \in Bodies :
        req' = [req EXCEPT ![c] =
                  [Blank EXCEPT !.pc = "case", !.op = "decide",
                     !.task = t, !.taskVersion = tasks[t].rowVersion,
                     !.decision = body.decision, !.comment = body.comment,
                     !.put = body.put]]
  BY DEF StartDecide
<1> DEFINE r == [Blank EXCEPT !.pc = "case", !.op = "decide",
                     !.task = t, !.taskVersion = tasks[t].rowVersion,
                     !.decision = body.decision, !.comment = body.comment,
                     !.put = body.put]
<1>2. req' = [req EXCEPT ![c] = r] /\ r.op = "decide" /\ r.pc = "case"
  BY <1>1 DEF Blank
<1> HIDE DEF r
<1>3. KnowingTo(c, r)
  BY <1>2 DEF KnowingTo, KnowsItsTask
<1> QED
  BY <1>3

(* decideTask refuses a task of another step than the case's.              *)
LEMMA ReadCaseKnows ==
  ASSUME NEW c \in Client, req[c] \in Request, ReadCase(c)
  PROVE  \E r : KnowingTo(c, r)
<1>1. CASE Finish(c)
  BY <1>1, FinishKnows
<1> DEFINE r == [req[c] EXCEPT !.pc = "values", !.row = caseRow,
                               !.version = caseRow.version]
<1>2. CASE req' = [req EXCEPT ![c] = r] /\ caseRow.step = tasks[req[c].task].step
  <2>1. r.op = "decide" /\ r.task = req[c].task /\ r.row = caseRow /\ tasks' = tasks
    BY DEF ReadCase, At, Request, store
  <2> HIDE DEF r
  <2>2. KnowingTo(c, r)
    BY <1>2, <2>1 DEF KnowingTo, KnowsItsTask
  <2> QED
    BY <2>2
<1>3. \/ Finish(c)
      \/ req' = [req EXCEPT ![c] = r] /\ caseRow.step = tasks[req[c].task].step
  BY DEF ReadCase
<1> QED
  BY <1>1, <1>2, <1>3

LEMMA ReadValuesKnows ==
  ASSUME NEW c \in Client, req[c] \in Request, KnowsItsTask(req[c], tasks), ReadValues(c)
  PROVE  \E r : KnowingTo(c, r)
<1>1. PICK content : content = values'
  OBVIOUS
<1> DEFINE r == [req[c] EXCEPT !.pc = "commit", !.put = NoValues, !.got = content]
<1>2. req' = [req EXCEPT ![c] = r] /\ req[c].pc = "values" /\ tasks' = tasks
  BY <1>1 DEF ReadValues
<1>3. /\ r.op = req[c].op /\ r.task = req[c].task /\ r.row = req[c].row
      /\ r.taskVersion = req[c].taskVersion
  BY DEF Request
<1> HIDE DEF r
<1>4. KnowingTo(c, r)
  BY <1>2, <1>3 DEF KnowingTo, KnowsItsTask
<1> QED
  BY <1>4

LEMMA RequestStepKnows ==
  ASSUME WorkIInv, NEW c \in Client, RequestStep(c)
  PROVE  \E r : KnowingTo(c, r)
<1>1. /\ StoreTypeOK /\ TableWork /\ req[c] \in Request /\ KnowsItsTask(req[c], tasks)
  BY InvariantParts DEF WorkIInv, RequestsKnowTheirTasks
<1>2. CASE Finish(c)
  BY <1>2, FinishKnows
<1>3. CASE StartPatch(c) \/ StartSubmit(c) \/ StartResubmit(c) \/ StartCancel(c)
  BY <1>3, StartKnows DEF StartPatch, StartSubmit, StartResubmit, StartCancel
<1>4. CASE StartClaim(c) \/ StartDecide(c) \/ ReadCase(c) \/ ReadValues(c)
  BY <1>1, <1>4, StartClaimKnows, StartDecideKnows, ReadCaseKnows, ReadValuesKnows
<1> QED
  BY <1>2, <1>3, <1>4 DEF RequestStep, CommitPatch, CommitSubmit, CommitResubmit,
     CommitCancel, CommitClaim, CommitDecide, Refuse, RollBack


(* A tick has an escalation to commit only for a case it found active.     *)
ActiveTickTo(s, k) ==
  /\ sweep' = [sweep EXCEPT ![s] = k]
  /\ k.pc = "commit" => k.row.status = "active"

LEMMA SweepStepActive ==
  ASSUME sweep \in [Sweeper -> Tick], NEW s \in Sweeper, SweepStep(s) \/ ProcessDies(s)
  PROVE  \E k : ActiveTickTo(s, k)
<1>1. ASSUME NEW k, sweep' = [sweep EXCEPT ![s] = k], k.pc # "commit"
      PROVE  \E j : ActiveTickTo(s, j)
  <2>1. ActiveTickTo(s, k)
    BY <1>1 DEF ActiveTickTo
  <2> QED
    BY <2>1
<1>2. CASE StartTick(s)
  <2>1. PICK due : sweep' = [sweep EXCEPT ![s] = [NoTick EXCEPT !.pc = "next", !.batch = due]]
    BY <1>2 DEF StartTick
  <2> DEFINE k == [NoTick EXCEPT !.pc = "next", !.batch = due]
  <2>2. k.pc = "next"
    BY DEF NoTick
  <2> HIDE DEF k
  <2> QED
    BY <1>1, <2>1, <2>2 DEF k
<1>3. CASE TakeTimer(s)
  <2>1. PICK m \in sweep[s].batch :
          sweep' = [sweep EXCEPT ![s] = [NoTick EXCEPT !.pc = "task", !.timer = m,
                                           !.batch = sweep[s].batch \ {m}]]
    BY <1>3 DEF TakeTimer
  <2> DEFINE k == [NoTick EXCEPT !.pc = "task", !.timer = m, !.batch = sweep[s].batch \ {m}]
  <2>2. k.pc = "task"
    BY DEF NoTick
  <2> QED
    BY <1>1, <2>1, <2>2
<1>4. ASSUME NEW event, Processed(s, event) PROVE \E k : ActiveTickTo(s, k)
  <2> DEFINE k == [NoTick EXCEPT !.pc = "mark", !.event = event,
                                 !.batch = sweep[s].batch, !.timer = sweep[s].timer]
  <2>1. sweep' = [sweep EXCEPT ![s] = k] /\ k.pc = "mark"
    BY <1>4 DEF Processed, NoTick
  <2> QED
    BY <1>1, <2>1
<1>5. CASE NextTimer(s)
  <2> DEFINE pc == IF sweep[s].batch = {} THEN "idle" ELSE "next"
             k == [NoTick EXCEPT !.pc = pc, !.batch = sweep[s].batch]
  <2>1. sweep' = [sweep EXCEPT ![s] = k] /\ k.pc = pc
    BY <1>5 DEF NextTimer, NoTick
  <2>2. pc # "commit"
    OBVIOUS
  <2> HIDE DEF k, pc
  <2> QED
    BY <1>1, <2>1, <2>2
<1>6. CASE ReadTask(s)
  <2> DEFINE k == [sweep[s] EXCEPT !.pc = "case", !.level = tasks[TaskOf(s)].level]
  <2>1. k.pc = "case"
    BY DEF Tick
  <2>2. Processed(s, "none") \/ Processed(s, "task.reminderDue") \/ sweep' = [sweep EXCEPT ![s] = k]
    BY <1>6 DEF ReadTask
  <2> HIDE DEF k
  <2> QED
    BY <1>1, <1>4, <2>1, <2>2
<1>7. CASE ReadEscalatedCase(s)
  <2> DEFINE k == [sweep[s] EXCEPT !.pc = "commit", !.row = caseRow]
  <2>1. k.row = caseRow
    BY DEF Tick
  <2>2. \/ Processed(s, "none")
        \/ sweep' = [sweep EXCEPT ![s] = k] /\ caseRow.status = "active"
    BY <1>7 DEF ReadEscalatedCase
  <2> HIDE DEF k
  <2>3. ASSUME sweep' = [sweep EXCEPT ![s] = k], caseRow.status = "active"
        PROVE  ActiveTickTo(s, k)
    BY <2>1, <2>3 DEF ActiveTickTo
  <2> QED
    BY <1>4, <2>2, <2>3
<1>8. CASE CommitEscalation(s)
  BY <1>4, <1>8 DEF CommitEscalation
<1>9. CASE MarkFired(s)
  <2> DEFINE k == [sweep[s] EXCEPT !.pc = "publish"]
  <2>1. k.pc = "publish"
    BY DEF Tick
  <2>2. NextTimer(s) \/ sweep' = [sweep EXCEPT ![s] = k]
    BY <1>9 DEF MarkFired
  <2> HIDE DEF k
  <2> QED
    BY <1>1, <1>5, <2>1, <2>2
<1>10. CASE ProcessDies(s)
  <2>1. NoTick.pc # "commit"
    BY DEF NoTick
  <2> QED
    BY <1>1, <1>10, <2>1 DEF ProcessDies
<1> QED
  BY <1>2, <1>3, <1>5, <1>6, <1>7, <1>8, <1>9, <1>10
  DEF SweepStep, PublishTimerEvent, ProcessTimerThrows

-----------------------------------------------------------------------------
(* WorkIInv is inductive.                                                  *)

LEMMA InitialWork == Init => WorkIInv
<1> SUFFICES ASSUME Init PROVE WorkIInv
  OBVIOUS
<1>1. IInv
  BY InitialInvariant
<1>2. /\ caseRow.status = "draft"
      /\ \A t \in TaskId : tasks[t].status = "absent" /\ tasks[t].step = NoStep
      /\ \A m \in TimerId : timers[m] = "absent"
  BY DEF Init, StoreInit, AbsentTask
<1>3. NoStep # ReturnedKey
  BY KeysAssumption DEF Key
<1>4. TableWork
  BY <1>2, <1>3 DEF TableWork, ActiveCaseHasWork, WorkMatchesTheCase, AmendmentTaskMatchesCase,
     EndedCaseHasNoWork, LiveTimerHasOpenTask, AmendmentsAreTheRequesters, OpenTasks,
     OpenStatus, IsTerminal, TerminalStatus, StillScheduled
<1>5. RequestsKnowTheirTasks /\ TicksReadActiveCases
  BY DEF Init, RequestInit, SweepInit, Blank, NoTick, RequestsKnowTheirTasks, KnowsItsTask,
     TicksReadActiveCases
<1> QED
  BY <1>1, <1>4, <1>5 DEF WorkIInv

LEMMA NextKeepsWorkInvariant == WorkIInv /\ [Next]_vars => WorkIInv'
<1> SUFFICES ASSUME WorkIInv, [Next]_vars PROVE WorkIInv'
  OBVIOUS
<1>1. IInv /\ IInv' /\ WorkStep
  BY NextKeepsInvariant, NextKeepsWork DEF WorkIInv
<1>2. /\ StoreTypeOK /\ tasks' \in [TaskId -> TaskRow]
      /\ req \in [Client -> Request] /\ sweep \in [Sweeper -> Tick]
      /\ \A c \in Client : RequestSound(req[c], caseRow, tasks)
  BY <1>1, InvariantParts DEF IInv, TypeOK, StoreTypeOK
<1>3. Keeps(tasks, tasks')
  <2>1. CASE UNCHANGED vars
    BY <1>2, <2>1 DEF vars, store, Keeps
  <2>2. ASSUME NEW c \in Client, RequestStep(c) PROVE Keeps(tasks, tasks')
    BY <1>1, <2>2, RequestStepIsSound DEF StoreStep
  <2>3. ASSUME NEW s \in Sweeper, SweepStep(s) \/ ProcessDies(s) PROVE Keeps(tasks, tasks')
    BY <1>1, <2>3, SweepStepIsSound DEF StoreStep
  <2>4. CASE PublishVersion \/ \E m \in TimerId : FallDue(m)
    BY <1>2, <2>4 DEF PublishVersion, FallDue, Keeps
  <2> QED
    BY <2>1, <2>2, <2>3, <2>4 DEF Next
<1>4. \A c \in Client : KnowsItsTask(req[c], tasks')
  BY <1>1, <1>2, <1>3, KnowsLater DEF WorkIInv, RequestsKnowTheirTasks, WorkStep
<1>5. \A s \in Sweeper : sweep[s].pc = "commit" => sweep[s].row.status = "active"
  BY DEF WorkIInv, TicksReadActiveCases
<1>6. \A c \in Client : KnowsItsTask(req'[c], tasks')
  <2>1. CASE UNCHANGED req
    BY <1>4, <2>1
  <2>2. ASSUME NEW c \in Client, RequestStep(c) PROVE \A d \in Client : KnowsItsTask(req'[d], tasks')
    BY <1>2, <1>4, <2>2, RequestStepKnows DEF KnowingTo
  <2> QED
    BY <2>1, <2>2 DEF Next, vars
<1>7. \A s \in Sweeper : sweep'[s].pc = "commit" => sweep'[s].row.status = "active"
  <2>1. CASE UNCHANGED sweep
    BY <1>5, <2>1
  <2>2. ASSUME NEW s \in Sweeper, SweepStep(s) \/ ProcessDies(s)
        PROVE  \A u \in Sweeper : sweep'[u].pc = "commit" => sweep'[u].row.status = "active"
    BY <1>2, <1>5, <2>2, SweepStepActive DEF ActiveTickTo
  <2> QED
    BY <2>1, <2>2 DEF Next, vars
<1> QED
  BY <1>1, <1>6, <1>7 DEF WorkIInv, WorkStep, RequestsKnowTheirTasks, TicksReadActiveCases

(* What is open, what is scheduled and what the handlers and the ticks     *)
(* hold fit the case at every moment.                                      *)
THEOREM WorkInvariance == Spec => []WorkIInv
BY InitialWork, NextKeepsWorkInvariant, PTL DEF Spec

(* A case that is active can always be acted on: whatever commits while a  *)
(* decision, a resubmission or an escalation is under way, the step the    *)
(* case is at (or its return to the requester) has an open task of the     *)
(* visit that brought it there.                                            *)
THEOREM ActiveCasesHaveWork == Spec => []ActiveCaseHasWork
<1>1. WorkIInv => ActiveCaseHasWork
  BY DEF WorkIInv, TableWork
<1> QED
  BY <1>1, WorkInvariance, PTL

(* The requester is asked to amend exactly while the case is returned, by  *)
(* one task, and an ended case has nothing scheduled and nothing open but  *)
(* what a claim that read its task before the end opened again.            *)
THEOREM WorkIsTheCases == Spec => []WorkMatchesTheCase
<1>1. WorkIInv => WorkMatchesTheCase
  BY DEF WorkIInv, TableWork
<1> QED
  BY <1>1, WorkInvariance, PTL

(* PRD.md section 15.2: no timer outlives the task it belongs to.          *)
THEOREM TimersEndWithTheirTask == Spec => []LiveTimerHasOpenTask
<1>1. WorkIInv => LiveTimerHasOpenTask
  BY DEF WorkIInv, TableWork
<1> QED
  BY <1>1, WorkInvariance, PTL

(* A decision that was checked against an older state of the case is never *)
(* recorded: the step it is recorded at is the step the case is at, and    *)
(* the transaction that records it moves the case.                         *)
THEOREM DecisionsMoveTheirCase == Spec => DecisionMovesItsCase
<1>1. WorkIInv /\ [Next]_vars =>
        [\A t \in TaskId :
           /\ tasks[t].status \in OpenStatus /\ tasks[t].step # ReturnedKey
           /\ tasks'[t].status = "completed"
           => caseRow.step = tasks[t].step /\ visit' = visit + 1]_store
  BY NextKeepsWork DEF WorkStep, TasksStep
<1> QED
  BY <1>1, WorkInvariance, PTL DEF Spec, DecisionMovesItsCase

(* Two members of a pool never both get its task: the second claim finds   *)
(* another row_version.                                                    *)
THEOREM ClaimsAreExclusive == Spec => ClaimIsExclusive
<1>1. WorkIInv /\ [Next]_vars =>
        [\A t \in TaskId :
           tasks[t].status = "claimed" => tasks'[t].assignee = tasks[t].assignee]_store
  BY NextKeepsWork DEF WorkStep, TasksStep
<1> QED
  BY <1>1, WorkInvariance, PTL DEF Spec, ClaimIsExclusive


-----------------------------------------------------------------------------
(* Escalation levels, however many ticks run at once.                      *)

(* A task made by an escalation sits no higher than the level stamped on   *)
(* the task it was escalated from, and is not itself escalated.            *)
EscalatedInOrder(t) ==
  born[t].from # 0 =>
    /\ tasks[t].status # "absent" /\ tasks[born[t].from].status # "absent"
    /\ tasks[t].level <= tasks[born[t].from].level
    /\ \A l \in Level : timers[<<t, l>>] = "absent"

EscalationsInOrder == \A t \in TaskId : EscalatedInOrder(t)

LevelsIInv == WorkIInv /\ EscalationsInOrder

(* A task that exists stays, at its level; a new one is not an escalation. *)
LevelsStay ==
  /\ \A t \in TaskId :
       IF tasks[t].status = "absent" THEN born'[t].from = 0
       ELSE /\ tasks'[t].status # "absent" /\ tasks'[t].level = tasks[t].level
            /\ born'[t].from = born[t].from
  /\ \A m \in TimerId :
       tasks[m[1]].status # "absent" /\ timers[m] = "absent" => timers'[m] = "absent"

LEMMA LevelsAreNumbers ==
  ASSUME NEW ts \in [TaskId -> TaskRow], NEW t \in TaskId
  PROVE  ts[t].level \in Level /\ ts[t].level \in Nat
<1>1. Level = 0 .. MaxLevel /\ MaxLevel \in Nat
  BY BoundsAssumption DEF Level
<1> QED
  BY <1>1 DEF TaskRow, PresentTask, AbsentTask

LEMMA QuietLevels ==
  ASSUME StoreTypeOK, EscalationsInOrder, LevelsStay
  PROVE  EscalationsInOrder'
<1>0. /\ born \in [TaskId -> [visit : Nat, from : TaskId \cup {0}]]
      /\ \A t \in TaskId : born[t].from \in TaskId \cup {0}
      /\ \A t \in TaskId : EscalatedInOrder(t)
  BY DEF StoreTypeOK, EscalationsInOrder
<1>1. \A t \in TaskId : born'[t].from # 0 =>
        /\ tasks[t].status # "absent" /\ born'[t].from = born[t].from /\ born[t].from \in TaskId
        /\ tasks'[t].status # "absent" /\ tasks'[t].level = tasks[t].level
  BY <1>0 DEF LevelsStay
<1>3. ASSUME NEW t \in TaskId PROVE EscalatedInOrder(t)'
  <2>1. ASSUME born'[t].from # 0, NEW l \in Level PROVE timers'[<<t, l>>] = "absent"
    <3>1. <<t, l>> \in TimerId /\ <<t, l>>[1] = t
      BY DEF TimerId
    <3>2. timers[<<t, l>>] = "absent" /\ tasks[t].status # "absent"
      BY <1>0, <1>1, <2>1 DEF EscalatedInOrder
    <3> QED
      BY <3>1, <3>2 DEF LevelsStay
  <2>2. ASSUME born'[t].from # 0
        PROVE  /\ tasks'[born'[t].from].status # "absent"
               /\ tasks'[t].level <= tasks'[born'[t].from].level
    <3>1. PICK f \in TaskId : f = born[t].from
      BY <1>1, <2>2
    <3>2. tasks[f].status # "absent" /\ tasks[t].level <= tasks[f].level
      BY <1>0, <1>1, <2>2, <3>1 DEF EscalatedInOrder
    <3>3. tasks'[f].status # "absent" /\ tasks'[f].level = tasks[f].level
      BY <3>2 DEF LevelsStay
    <3> QED
      BY <1>1, <2>2, <3>1, <3>2, <3>3
  <2> QED
    BY <1>1, <2>1, <2>2 DEF EscalatedInOrder
<1> QED
  BY <1>3 DEF EscalationsInOrder

(* What persistEngineOutput does to levels, for the escalation of task     *)
(* `from`, or for a request when from is 0.                                *)
SameLevels(ts) == \A t \in TaskId : ts[t].level = tasks[t].level

LevelsAfter(out, from) ==
  /\ \A m \in TimerId :
       tasks[m[1]].status # "absent" /\ timers[m] = "absent" => timers'[m] = "absent"
  /\ \A t \in TaskId : tasks[t].status # "absent" => tasks'[t].status # "absent"
  /\ \/ /\ out.tasks = {} /\ born' = born
        /\ \A t \in TaskId : tasks'[t].level = tasks[t].level
     \/ \E spec \in out.tasks, n \in TaskId :
          /\ tasks[n].status = "absent" /\ tasks'[n].status = "pending"
          /\ tasks'[n].level = spec.level /\ born'[n].from = from
          /\ \A l \in Level : timers'[<<n, l>>] # "absent" => l \in spec.timers
          /\ \A t \in TaskId \ {n} :
               /\ born'[t] = born[t]
               /\ tasks'[t].level = IF t = from /\ tasks[t].level < spec.level
                                    THEN spec.level ELSE tasks[t].level

LEMMA PersistLevels ==
  ASSUME StoreTypeOK, TimersHaveTasks,
         NEW out \in Output, NEW row, NEW version,
         NEW ts, NEW decided, Prepared(ts, decided), NEW from \in TaskId \cup {0},
         SameLevels(ts),
         from # 0 => tasks[from].status # "absent",
         PersistEngineOutput(out, row, version, ts, decided, from)
  PROVE  LevelsAfter(out, from)
<1> DEFINE ends == out.moves /\ out.status \in TerminalStatus
           kept == CancelTimersForTasks(timers, IF ends THEN TaskId ELSE decided)
           base == IF ends THEN CancelOpenTasksForCase(ts) ELSE ts
           now  == IF out.moves THEN visit + 1 ELSE visit
<1>0. ts \in [TaskId -> TaskRow] /\ tasks \in [TaskId -> TaskRow]
      /\ born \in [TaskId -> [visit : Nat, from : TaskId \cup {0}]]
     /\ \A t \in TaskId : ts[t].level = tasks[t].level
  BY DEF Prepared, Keeps, StoreTypeOK, SameLevels
<1>1. \/ out.tasks = {} /\ tasks' = base /\ timers' = kept /\ born' = born
      \/ \E spec \in out.tasks, t \in First(Absent(ts)) :
           /\ tasks' = CreateCaseTask(IF from = 0 THEN base
                               ELSE MarkTaskEscalated(base, from, spec.level),
                               t, spec)
           /\ timers' = CreateSlaTimers(kept, t, spec.timers)
           /\ born' = [born EXCEPT ![t] = [visit |-> now, from |-> from]]
  BY DEF PersistEngineOutput
<1>2. ASSUME NEW t \in TaskId
      PROVE  base[t].level = tasks[t].level /\ base[t] \in TaskRow
             /\ (ts[t].status # "absent" => base[t].status # "absent")
  <2>1. base \in [TaskId -> TaskRow] /\ (ts[t].status # "absent" => base[t].status # "absent")
    BY <1>0, CancelKeeps DEF Keeps
  <2>2. CASE ends /\ ts[t].status \in OpenStatus
    <3> DEFINE r == [ts[t] EXCEPT !.status = "cancelled"]
    <3>1. ts[t] \in PresentTask
      BY <1>0, <2>2, RowOfPresentTask DEF OpenStatus
    <3>2. r.level = ts[t].level
      BY <3>1 DEF PresentTask
    <3>3. base[t] = r
      BY <2>2 DEF CancelOpenTasksForCase
    <3> HIDE DEF r, base
    <3> QED
      BY <1>0, <2>1, <3>2, <3>3
  <2>3. CASE ~ (ends /\ ts[t].status \in OpenStatus)
    <3>1. base[t] = ts[t]
      BY <2>3 DEF CancelOpenTasksForCase
    <3> HIDE DEF base
    <3> QED
      BY <1>0, <2>1, <3>1
  <2> QED
    BY <2>2, <2>3
<1>3. base \in [TaskId -> TaskRow]
  BY <1>0, CancelKeeps DEF Keeps
<1>4. \A m \in TimerId : timers[m] = "absent" => kept[m] = "absent"
  BY DEF CancelTimersForTasks, StillScheduled
<1>5. \A t \in TaskId : ts[t].status = "absent" <=> tasks[t].status = "absent"
  BY DEF Prepared
<1> HIDE DEF ends, kept, base, now
<1>6. CASE out.tasks = {} /\ tasks' = base /\ timers' = kept /\ born' = born
  BY <1>2, <1>4, <1>5, <1>6 DEF LevelsAfter
<1>7. ASSUME NEW spec \in out.tasks, NEW n \in First(Absent(ts)),
             tasks' = CreateCaseTask(IF from = 0 THEN base
                                 ELSE MarkTaskEscalated(base, from, spec.level),
                                 n, spec),
             timers' = CreateSlaTimers(kept, n, spec.timers),
             born' = [born EXCEPT ![n] = [visit |-> now, from |-> from]]
      PROVE  /\ \A m \in TimerId :
                  tasks[m[1]].status # "absent" /\ timers[m] = "absent" => timers'[m] = "absent"
             /\ \A t \in TaskId : tasks[t].status # "absent" => tasks'[t].status # "absent"
             /\ n \in TaskId /\ tasks[n].status = "absent" /\ tasks'[n].status = "pending"
             /\ tasks'[n].level = spec.level /\ born'[n].from = from
             /\ \A l \in Level : timers'[<<n, l>>] # "absent" => l \in spec.timers
             /\ \A t \in TaskId \ {n} :
                  /\ born'[t] = born[t]
                  /\ tasks'[t].level = IF t = from /\ tasks[t].level < spec.level
                                       THEN spec.level ELSE tasks[t].level
  <2>1. n \in TaskId /\ tasks[n].status = "absent"
    BY <1>5, FirstIn DEF Absent
  <2> DEFINE marked == IF from = 0 THEN base ELSE MarkTaskEscalated(base, from, spec.level)
             new == [status |-> "pending", step |-> spec.step, assignee |-> spec.assignee,
                     level |-> spec.level, rowVersion |-> 1]
  <2>2. ASSUME NEW t \in TaskId
        PROVE  /\ marked[t].level = IF t = from /\ tasks[t].level < spec.level
                                    THEN spec.level ELSE tasks[t].level
               /\ base[t].status # "absent" => marked[t].status # "absent"
    <3>1. CASE from = 0
      <4>1. t # from
        BY <3>1, StoreAssumption DEF TaskId
      <4> QED
        BY <1>2, <3>1, <4>1
    <3>2. CASE from # 0
      <4>1. from \in TaskId /\ base[from].status # "absent"
        BY <1>2, <1>5, <3>2
      <4>2. base[from] \in PresentTask
        BY <1>3, <4>1, RowOfPresentTask
      <4> DEFINE r == IF base[from].level < spec.level
                      THEN [base[from] EXCEPT !.level = spec.level] ELSE base[from]
      <4>3. /\ r.level = IF base[from].level < spec.level THEN spec.level ELSE base[from].level
            /\ r.status = base[from].status
        BY <4>2 DEF PresentTask
      <4>4. marked = [base EXCEPT ![from] = r]
        BY <3>2 DEF MarkTaskEscalated
      <4> HIDE DEF r, marked
      <4>5. marked[t] = IF t = from THEN r ELSE base[t]
        BY <1>3, <4>4
      <4> QED
        BY <1>2, <4>3, <4>5
    <3> QED
      BY <3>1, <3>2
  <2>3. DOMAIN marked = TaskId
    BY <1>3 DEF MarkTaskEscalated
  <2>4. tasks' = [marked EXCEPT ![n] = new]
    BY <1>7 DEF CreateCaseTask
  <2>5. new.status = "pending" /\ new.level = spec.level
    OBVIOUS
  <2> HIDE DEF marked, new
  <2>6. /\ tasks'[n].status = "pending" /\ tasks'[n].level = spec.level
        /\ \A t \in TaskId \ {n} : tasks'[t] = marked[t]
    BY <2>1, <2>3, <2>4, <2>5
  <2>7. \A t \in TaskId : tasks[t].status # "absent" => tasks'[t].status # "absent"
    BY <1>2, <1>5, <2>1, <2>2, <2>6
  <2>8. born'[n].from = from /\ \A t \in TaskId \ {n} : born'[t] = born[t]
    BY <1>0, <1>7, <2>1
  <2>9. \A m \in TimerId : m[1] # n => timers'[m] = kept[m]
    BY <1>7 DEF CreateSlaTimers
  <2>10. \A m \in TimerId :
           tasks[m[1]].status # "absent" /\ timers[m] = "absent" => timers'[m] = "absent"
    BY <1>4, <2>1, <2>9
  <2>11. ASSUME NEW l \in Level, timers'[<<n, l>>] # "absent"
         PROVE  l \in spec.timers
    <3>1. <<n, l>> \in TimerId /\ <<n, l>>[1] = n /\ <<n, l>>[2] = l
      BY <2>1 DEF TimerId
    <3>2. timers[<<n, l>>] = "absent"
      BY <2>1, <3>1 DEF TimersHaveTasks
    <3>3. kept[<<n, l>>] = "absent"
      BY <1>4, <3>1, <3>2
    <3> QED
      BY <1>7, <2>11, <3>1, <3>3 DEF CreateSlaTimers
  <2> QED
    BY <2>1, <2>2, <2>6, <2>7, <2>8, <2>10, <2>11
<1> QED
  BY <1>1, <1>6, <1>7 DEF LevelsAfter

LEMMA OldFromsAreZero ==
  ASSUME StoreTypeOK, EscalationsInOrder, NEW t \in TaskId, tasks[t].status = "absent"
  PROVE  born[t].from = 0
BY DEF EscalationsInOrder, EscalatedInOrder

(* A transaction of a request.                                             *)
LEMMA EngineKeepsLevels ==
  ASSUME StoreTypeOK, TimersHaveTasks, EscalationsInOrder,
         NEW out \in Output, NEW row, NEW version,
         NEW ts, NEW decided, Prepared(ts, decided), SameLevels(ts),
         PersistEngineOutput(out, row, version, ts, decided, 0)
  PROVE  LevelsStay
<1>1. PICK from \in TaskId \cup {0} : from = 0
  OBVIOUS
<1>2. LevelsAfter(out, from)
  <2>1. PersistEngineOutput(out, row, version, ts, decided, from)
    BY <1>1
  <2> QED
    BY <1>1, <2>1, PersistLevels
<1>3. \A t \in TaskId : t # 0
  BY DEF TaskId
<1> QED
  BY <1>1, <1>2, <1>3, OldFromsAreZero DEF LevelsStay, LevelsAfter

LEMMA ClaimKeepsLevel ==
  ASSUME NEW ts \in [TaskId -> TaskRow], NEW t \in TaskId, ts[t].status # "absent", NEW u \in User,
         NEW v \in TaskId
  PROVE  ClaimCaseTask(ts, t, u)[v].level = ts[v].level
<1> DEFINE n == ts[t].rowVersion + 1
           r == [ts[t] EXCEPT !.status = "claimed", !.assignee = u, !.rowVersion = n]
<1>1. ts[t] \in PresentTask
  BY RowOfPresentTask
<1>2. r.level = ts[t].level
  BY <1>1 DEF PresentTask
<1>3. ClaimCaseTask(ts, t, u) = [ts EXCEPT ![t] = r]
  BY DEF ClaimCaseTask
<1> HIDE DEF r
<1> QED
  BY <1>2, <1>3

LEMMA DecisionKeepsLevel ==
  ASSUME NEW ts \in [TaskId -> TaskRow], NEW t \in TaskId, ts[t].status # "absent",
         NEW v \in TaskId
  PROVE  RecordTaskDecision(ts, t)[v].level = ts[v].level
<1> DEFINE n == ts[t].rowVersion + 1
           r == [ts[t] EXCEPT !.status = "completed", !.rowVersion = n]
<1>1. ts[t] \in PresentTask
  BY RowOfPresentTask
<1>2. r.level = ts[t].level
  BY <1>1 DEF PresentTask
<1>3. RecordTaskDecision(ts, t) = [ts EXCEPT ![t] = r]
  BY DEF RecordTaskDecision
<1> HIDE DEF r
<1> QED
  BY <1>2, <1>3

LEMMA CompletionKeepsLevel ==
  ASSUME StoreTypeOK, NEW v \in TaskId
  PROVE  CompleteReturnedTask[v].level = tasks[v].level
<1> DEFINE open == {t \in OpenTasks : tasks[t].step = ReturnedKey}
<1>1. CASE v \in First(open)
  <2>1. v \in OpenTasks
    BY <1>1, FirstIn
  <2>2. tasks[v].status # "absent"
    BY <2>1 DEF OpenTasks, OpenStatus
  <2>3. CompleteReturnedTask[v] = RecordTaskDecision(tasks, v)[v]
    BY <1>1 DEF CompleteReturnedTask
  <2> QED
    BY <2>2, <2>3, DecisionKeepsLevel DEF StoreTypeOK
<1>2. CASE v \notin First(open)
  BY <1>2 DEF CompleteReturnedTask
<1> QED
  BY <1>1, <1>2

(* No request escalates anything.                                          *)
LEMMA RequestKeepsLevels ==
  ASSUME WorkIInv, EscalationsInOrder, NEW c \in Client, RequestStep(c)
  PROVE  LevelsStay
<1>1. /\ IInv /\ TableWork /\ StoreTypeOK /\ TimersHaveTasks
      /\ req[c] \in Request /\ RequestSound(req[c], caseRow, tasks)
  BY InvariantParts DEF WorkIInv
<1>2. ASSUME tasks' = tasks, born' = born, timers' = timers PROVE LevelsStay
  BY <1>1, <1>2, OldFromsAreZero DEF LevelsStay
<1>3. CASE \/ StartPatch(c) \/ StartSubmit(c) \/ StartResubmit(c) \/ StartCancel(c)
           \/ StartClaim(c) \/ StartDecide(c) \/ ReadCase(c) \/ ReadValues(c)
           \/ CommitPatch(c) \/ Refuse(c) \/ RollBack(c)
  BY <1>2, <1>3 DEF StartPatch, StartSubmit, StartResubmit, StartCancel, StartClaim, StartDecide,
     StartCaseRequest, ReadCase, ReadValues, CommitPatch, Refuse, RollBack, store, history
<1>4. CASE CommitSubmit(c)
  <2>0. req[c].op = "submit" /\ req[c].pc = "commit"
    BY <1>4 DEF CommitSubmit, At
  <2>1. PICK who \in Directories : \E out \in SubmitOutputs(c, who) :
          PersistEngineOutput(out, req[c].row, req[c].version, tasks, {}, 0)
    BY <1>4 DEF CommitSubmit
  <2>2. PICK out \in SubmitOutputs(c, who) :
          PersistEngineOutput(out, req[c].row, req[c].version, tasks, {}, 0)
    BY <2>1
  <2>3. IsContext(ContextOf(req[c].version, req[c].got, who))
    BY <1>1, <2>0, ContextOfIsContext DEF Request, RequestSound
  <2>4. out \in Output
    BY <2>2, <2>3, CaseSubmittedTyped DEF SubmitOutputs
  <2> QED
    BY <1>1, <2>2, <2>4, NothingPrepared, EngineKeepsLevels DEF SameLevels
<1>5. CASE CommitResubmit(c)
  <2>0. req[c].op = "resubmit" /\ req[c].pc = "commit"
    BY <1>5 DEF CommitResubmit, At
  <2>1. PICK who \in Directories : \E out \in ResubmitOutputs(c, who) :
          PersistEngineOutput(out, req[c].row, req[c].version, CompleteReturnedTask, {}, 0)
    BY <1>5 DEF CommitResubmit
  <2>2. PICK out \in ResubmitOutputs(c, who) :
          PersistEngineOutput(out, req[c].row, req[c].version, CompleteReturnedTask, {}, 0)
    BY <2>1
  <2>3. IsContext(ContextOf(req[c].version, req[c].got, who))
    BY <1>1, <2>0, ContextOfIsContext DEF Request, RequestSound
  <2>4. out \in Output
    BY <2>2, <2>3, CaseResubmittedTyped DEF ResubmitOutputs
  <2>5. SameLevels(CompleteReturnedTask)
    BY <1>1, CompletionKeepsLevel DEF SameLevels
  <2> QED
    BY <1>1, <2>2, <2>4, <2>5, CompletionPrepared, EngineKeepsLevels
<1>6. CASE CommitCancel(c)
  <2>1. PICK out \in CaseCancelled(req[c].row) :
          PersistEngineOutput(out, req[c].row, req[c].version, tasks, {}, 0)
    BY <1>6 DEF CommitCancel
  <2>2. out \in Output
    BY <2>1, CaseCancelledTyped
  <2> QED
    BY <1>1, <2>1, <2>2, NothingPrepared, EngineKeepsLevels DEF SameLevels
<1>7. CASE CommitClaim(c)
  <2> DEFINE t == req[c].task
  <2>1. t \in TaskId /\ tasks[t].status # "absent" /\ req[c].user \in User
    BY <1>1, <1>7 DEF RequestSound, CommitClaim, At, Request
  <2>2. tasks' = ClaimCaseTask(tasks, t, req[c].user) /\ UNCHANGED <<timers, born>>
    BY <1>7 DEF CommitClaim
  <2>3. Keeps(tasks, tasks')
    BY <1>1, <2>1, <2>2, ClaimKeeps DEF StoreTypeOK
  <2>4. \A v \in TaskId : tasks'[v].level = tasks[v].level
    BY <1>1, <2>1, <2>2, ClaimKeepsLevel DEF StoreTypeOK
  <2> QED
    BY <1>1, <2>2, <2>3, <2>4, OldFromsAreZero DEF LevelsStay, Keeps
<1>8. CASE CommitDecide(c)
  <2> DEFINE t == req[c].task
  <2>0. req[c].op = "decide" /\ req[c].pc = "commit"
    BY <1>8 DEF CommitDecide, At
  <2>1. PICK who \in Directories : \E out \in DecideOutputs(c, who) :
          PersistEngineOutput(out, req[c].row, req[c].version, RecordTaskDecision(tasks, t), {t}, 0)
    BY <1>8 DEF CommitDecide
  <2>2. PICK out \in DecideOutputs(c, who) :
          PersistEngineOutput(out, req[c].row, req[c].version, RecordTaskDecision(tasks, t), {t}, 0)
    BY <2>1
  <2>3. IsContext(ContextOf(req[c].version, req[c].got, who))
    BY <1>1, <2>0, ContextOfIsContext DEF Request, RequestSound
  <2>4. out \in Output
    BY <1>1, <2>2, <2>3, TaskDecidedTyped DEF DecideOutputs, Request
  <2>5. t \in TaskId /\ tasks[t].status # "absent"
    BY <1>1, <2>0 DEF RequestSound
  <2>6. Prepared(RecordTaskDecision(tasks, t), {t})
    BY <1>1, <2>5, DecisionPrepared
  <2>7. SameLevels(RecordTaskDecision(tasks, t))
    BY <1>1, <2>5, DecisionKeepsLevel DEF StoreTypeOK, SameLevels
  <2> QED
    BY <1>1, <2>2, <2>4, <2>6, <2>7, EngineKeepsLevels
<1> QED
  BY <1>3, <1>4, <1>5, <1>6, <1>7, <1>8 DEF RequestStep

(* An escalation creates its task above the level it read.                 *)
LEMMA EscalationRaisesTheLevel ==
  ASSUME NEW ctx, NEW row, NEW level \in Level, NEW out \in EscalationTriggered(ctx, row, level),
         NEW spec \in out.tasks
  PROVE  spec.level > level /\ spec.timers = {}
<1> DEFINE step   == ctx.doc.steps[row.step]
           levels == ResolveEscalationLevel(ctx, step, level + 1)
<1>1. level \in Nat
  BY BoundsAssumption DEF Level
<1>2. \/ out = EnterUnassigned(row.step)
      \/ \E l \in levels :
           out = [moves |-> FALSE, status |-> row.status, step |-> row.step,
                  tasks |-> {[step |-> row.step,
                              assignee |-> ctx.who[step.escalation[l]],
                              level |-> l, timers |-> {}]},
                  event |-> "task.escalated"]
  BY DEF EscalationTriggered
<1>3. CASE out = EnterUnassigned(row.step)
  BY <1>3 DEF EnterUnassigned
<1>4. ASSUME NEW l \in levels,
             out = [moves |-> FALSE, status |-> row.status, step |-> row.step,
                    tasks |-> {[step |-> row.step,
                                assignee |-> ctx.who[step.escalation[l]],
                                level |-> l, timers |-> {}]},
                    event |-> "task.escalated"]
      PROVE  spec.level > level /\ spec.timers = {}
  <2>1. spec = [step |-> row.step, assignee |-> ctx.who[step.escalation[l]],
                level |-> l, timers |-> {}]
    BY <1>4
  <2>2. l \in (level + 1) .. Len(step.escalation)
    BY FirstIn DEF ResolveEscalationLevel
  <2> HIDE DEF step, levels
  <2>3. l > level
    BY <1>1, <2>2
  <2>4. spec.level = l /\ spec.timers = {}
    BY <2>1
  <2> QED
    BY <2>3, <2>4
<1> QED
  BY <1>2, <1>3, <1>4

(* An escalation whose tick read the level as it still is.                 *)
CreatesAbove(s) ==
  \A n, u \in TaskId :
    /\ sweep[s].level = tasks[TaskOf(s)].level
    /\ tasks[n].status = "absent" /\ tasks'[n].status # "absent"
    /\ born[u].from = TaskOf(s)
    => tasks[u].level < tasks'[n].level

LEMMA EscalationKeepsOrder ==
  ASSUME LevelsIInv, NEW s \in Sweeper, CommitEscalation(s)
  PROVE  EscalationsInOrder' /\ CreatesAbove(s)
<1> DEFINE f == TaskOf(s)
<1>1. /\ WorkIInv /\ IInv /\ TableWork /\ StoreTypeOK /\ TimersHaveTasks /\ EscalationsInOrder
      /\ sweep[s] \in Tick /\ TickSound(sweep[s], caseRow, timers)
      /\ sweep[s].pc = "commit"
  BY InvariantParts DEF LevelsIInv, WorkIInv, CommitEscalation, Doing
<1>2. sweep[s].row = caseRow
  BY <1>1, CommitEscalationIsSound DEF EngineCommit
<1>3. PICK who \in Directories : \E out \in EscalationOutputs(s, who) :
        PersistEngineOutput(out, sweep[s].row, sweep[s].row.version, tasks, {}, TaskOf(s))
  BY DEF CommitEscalation
<1>4. PICK out \in EscalationOutputs(s, who) :
        PersistEngineOutput(out, sweep[s].row, sweep[s].row.version, tasks, {}, TaskOf(s))
  BY <1>3
<1>5. /\ sweep[s].level \in Level /\ caseRow.version \in Version
      /\ caseRow.status \in CaseStatus
  BY <1>1 DEF Tick, StoreTypeOK, CaseRow
<1>6. IsContext(ContextOf(caseRow.version, values, who))
  BY <1>1, <1>5, ContextOfIsContext DEF StoreTypeOK
<1>7. out \in EscalationTriggered(ContextOf(caseRow.version, values, who), caseRow,
                                  sweep[s].level)
  BY <1>2, <1>4 DEF EscalationOutputs
<1>8. out \in Output
  BY <1>5, <1>6, <1>7, EscalationTriggeredTyped
<1>9. f \in TaskId /\ tasks[f].status # "absent" /\ born[f].from = 0
  <2>1. /\ sweep[s].timer \in TimerId /\ timers[sweep[s].timer] # "absent"
        /\ f = sweep[s].timer[1]
    BY <1>1 DEF TickSound, TaskOf
  <2>2. f \in TaskId /\ tasks[f].status # "absent"
    BY <1>1, <2>1 DEF TimerId, TimersHaveTasks
  <2>3. sweep[s].timer = <<f, sweep[s].timer[2]>> /\ sweep[s].timer[2] \in Level
    BY <2>1, TimerIsOfATask
  <2> QED
    BY <1>1, <2>1, <2>2, <2>3 DEF EscalationsInOrder, EscalatedInOrder
<1> HIDE DEF f
<1>10. \A spec \in out.tasks : spec.level > sweep[s].level /\ spec.timers = {}
  BY <1>1, <1>5, <1>7, EscalationRaisesTheLevel
<1>11. LevelsAfter(out, f)
  <2>1. PersistEngineOutput(out, sweep[s].row, sweep[s].row.version, tasks, {}, f)
    BY <1>4 DEF f
  <2>2. Prepared(tasks, {}) /\ SameLevels(tasks)
    BY <1>1, NothingPrepared DEF SameLevels
  <2> DEFINE row == sweep[s].row
             version == row.version
  <2>3. PersistEngineOutput(out, row, version, tasks, {}, f)
    BY <2>1
  <2>4. f \in TaskId \cup {0} /\ (f # 0 => tasks[f].status # "absent")
    BY <1>9
  <2> HIDE DEF row, version
  <2> QED
    BY <1>1, <1>8, <2>2, <2>3, <2>4, PersistLevels
<1>12. ASSUME born' = born, \A t \in TaskId : tasks'[t].level = tasks[t].level
       PROVE  EscalationsInOrder'
  <2>1. LevelsStay
    BY <1>1, <1>11, <1>12, OldFromsAreZero DEF LevelsStay, LevelsAfter
  <2> QED
    BY <1>1, <2>1, QuietLevels
<1>13. ASSUME NEW spec \in out.tasks, NEW n \in TaskId,
              tasks[n].status = "absent", tasks'[n].status = "pending",
              tasks'[n].level = spec.level, born'[n].from = f,
              \A l \in Level : timers'[<<n, l>>] # "absent" => l \in spec.timers,
              \A t \in TaskId \ {n} :
                /\ born'[t] = born[t]
                /\ tasks'[t].level = IF t = f /\ tasks[t].level < spec.level
                                     THEN spec.level ELSE tasks[t].level
       PROVE  EscalationsInOrder'
  <2>0. \A t \in TaskId : /\ tasks[t].level \in Nat /\ born[t].from \in TaskId \cup {0}
                          /\ EscalatedInOrder(t)
    BY <1>1, LevelsAreNumbers DEF StoreTypeOK, EscalationsInOrder
  <2>1. spec.level > sweep[s].level /\ spec.level \in Nat /\ spec.timers = {} /\ f # n
    <3>1. spec.level \in Level
      BY <1>8 DEF Output, TaskSpec
    <3> QED
      BY <1>9, <1>10, <1>13, <3>1, BoundsAssumption DEF Level
  <2>2. spec.level <= tasks'[f].level /\ tasks[f].level <= tasks'[f].level
    BY <1>9, <1>13, <2>0, <2>1
  <2>3. \A t \in TaskId \ {n} : born[t].from # 0 =>
          /\ t # f /\ tasks'[t].level = tasks[t].level /\ born[t].from \in TaskId \ {n}
          /\ tasks[t].status # "absent" /\ tasks[born[t].from].status # "absent"
          /\ tasks[t].level <= tasks[born[t].from].level
    BY <1>9, <1>13, <2>0 DEF EscalatedInOrder
  <2>5. ASSUME NEW t \in TaskId PROVE EscalatedInOrder(t)'
    <3>1. CASE t = n
      <4>1. \A l \in Level : timers'[<<t, l>>] = "absent"
        BY <1>13, <2>1, <3>1
      <4>2. tasks'[f].status # "absent" /\ tasks'[t].status # "absent"
        BY <1>9, <1>11, <1>13, <3>1 DEF LevelsAfter
      <4>3. tasks'[t].level <= tasks'[f].level
        BY <1>13, <2>1, <2>2, <3>1
      <4> QED
        BY <1>13, <3>1, <4>1, <4>2, <4>3 DEF EscalatedInOrder
    <3>2. CASE t # n /\ born'[t].from # 0
      <4>1. PICK g \in TaskId \ {n} : g = born[t].from
        BY <1>13, <2>3, <3>2
      <4>2. /\ born'[t].from = g /\ tasks[t].status # "absent" /\ tasks[g].status # "absent"
            /\ tasks'[t].level = tasks[t].level /\ tasks[t].level <= tasks[g].level
        BY <1>13, <2>3, <3>2, <4>1
      <4>3. tasks'[t].status # "absent" /\ tasks'[g].status # "absent"
        BY <1>11, <4>2 DEF LevelsAfter
      <4>4. tasks[g].level <= tasks'[g].level
        BY <1>13, <2>0, <2>1
      <4>5. tasks'[t].level <= tasks'[g].level
        <5>1. tasks'[g].level \in Nat
          BY <1>13, <2>0, <2>1
        <5> QED
          BY <2>0, <4>2, <4>4, <5>1
      <4>6. ASSUME NEW l \in Level PROVE timers'[<<t, l>>] = "absent"
        <5>1. <<t, l>> \in TimerId /\ <<t, l>>[1] = t
          BY DEF TimerId
        <5>2. timers[<<t, l>>] = "absent"
          BY <2>0, <4>1, <4>2, <3>2, <1>13 DEF EscalatedInOrder
        <5> QED
          BY <1>11, <4>2, <5>1, <5>2 DEF LevelsAfter
      <4> QED
        BY <4>2, <4>3, <4>5, <4>6 DEF EscalatedInOrder
    <3>3. CASE born'[t].from = 0
      BY <3>3 DEF EscalatedInOrder
    <3> QED
      BY <3>1, <3>2, <3>3
  <2> QED
    BY <2>5 DEF EscalationsInOrder
<1>14. EscalationsInOrder'
  <2>1. CASE out.tasks = {} /\ born' = born /\ \A t \in TaskId : tasks'[t].level = tasks[t].level
    BY <1>12, <2>1
  <2>2. ASSUME out.tasks # {} \/ born' # born \/ ~\A t \in TaskId : tasks'[t].level = tasks[t].level
        PROVE  EscalationsInOrder'
    <3>1. PICK spec \in out.tasks, n \in TaskId :
            /\ tasks[n].status = "absent" /\ tasks'[n].status = "pending"
            /\ tasks'[n].level = spec.level /\ born'[n].from = f
            /\ \A l \in Level : timers'[<<n, l>>] # "absent" => l \in spec.timers
            /\ \A t \in TaskId \ {n} :
                 /\ born'[t] = born[t]
                 /\ tasks'[t].level = IF t = f /\ tasks[t].level < spec.level
                                      THEN spec.level ELSE tasks[t].level
      BY <1>11, <2>2, Zenon DEF LevelsAfter
    <3> QED
      BY <1>13, <3>1
  <2> QED
    BY <2>1, <2>2
<1>15. ASSUME NEW n \in TaskId, NEW u \in TaskId,
              sweep[s].level = tasks[f].level, tasks[n].status = "absent",
              tasks'[n].status # "absent", born[u].from = f
       PROVE  tasks[u].level < tasks'[n].level
  <2>0. /\ tasks[u].level \in Nat /\ tasks[f].level \in Nat /\ EscalatedInOrder(u) /\ f # 0
    <3>1. \A t \in TaskId : tasks[t].level \in Nat
      BY <1>1, LevelsAreNumbers DEF StoreTypeOK
    <3>2. f # 0
      BY <1>9 DEF TaskId
    <3> QED
      BY <1>1, <1>9, <3>1, <3>2 DEF EscalationsInOrder
  <2>1. tasks[u].level <= tasks[f].level
    BY <1>15, <2>0 DEF EscalatedInOrder
  <2>2. Persisted(tasks, out, {})
    <3> DEFINE row == sweep[s].row
               version == row.version
    <3>1. PersistEngineOutput(out, row, version, tasks, {}, f)
      BY <1>4 DEF f
    <3>2. Keeps(tasks, tasks) /\ f \in TaskId \cup {0}
      BY <1>1, <1>9, NothingPrepared DEF Prepared
    <3> HIDE DEF row, version
    <3> QED
      BY <1>1, <1>8, <1>9, <3>1, <3>2, PersistTables
  <2>3. \A t \in TaskId : tasks[t].status = "absent" /\ StaysAs(tasks[t], tasks'[t], Ends(out))
          => tasks'[t].status = "absent"
    BY DEF StaysAs, OpenStatus
  <2>4. out.tasks # {} /\ \A t \in TaskId : tasks[t].status = "absent" /\ tasks'[t].status # "absent" => t = n
    BY <1>15, <2>2, <2>3 DEF Persisted
  <2>5. PICK spec \in out.tasks : tasks'[n].level = spec.level
    BY <1>11, <2>4 DEF LevelsAfter
  <2>6. spec.level \in Nat
    BY <1>8, BoundsAssumption DEF Output, TaskSpec, Level
  <2>7. sweep[s].level < spec.level
    BY <1>1, <1>10, <2>6 DEF Tick, Level
  <2> QED
    BY <1>15, <2>0, <2>1, <2>5, <2>6, <2>7
<1> QED
  BY <1>14, <1>15 DEF CreatesAbove, f


LEMMA OtherSweepStepsKeepLevels ==
  ASSUME WorkIInv, EscalationsInOrder, NEW s \in Sweeper,
         \/ StartTick(s) \/ TakeTimer(s) \/ ReadTask(s) \/ ReadEscalatedCase(s) \/ MarkFired(s)
         \/ PublishTimerEvent(s) \/ ProcessTimerThrows(s) \/ ProcessDies(s)
  PROVE  LevelsStay /\ tasks' = tasks
<1>1. /\ StoreTypeOK /\ sweep[s] \in Tick /\ TickSound(sweep[s], caseRow, timers)
  BY InvariantParts DEF WorkIInv
<1>2. ASSUME tasks' = tasks, born' = born,
             \A m \in TimerId : timers[m] = "absent" => timers'[m] = "absent"
      PROVE  LevelsStay /\ tasks' = tasks
  BY <1>1, <1>2, OldFromsAreZero DEF LevelsStay
<1>3. CASE MarkFired(s)
  <2>1. timers' = MarkTimerFired(timers, sweep[s].timer) /\ tasks' = tasks /\ born' = born
    BY <1>3 DEF MarkFired, history
  <2>2. \A m \in TimerId : timers[m] = "absent" => timers'[m] = "absent"
    BY <1>1, <2>1 DEF MarkTimerFired, StillScheduled, StoreTypeOK
  <2> QED
    BY <1>2, <2>1, <2>2
<1>4. CASE ~MarkFired(s)
  <2>1. tasks' = tasks /\ born' = born /\ timers' = timers
    BY <1>4 DEF StartTick, TakeTimer, ReadTask, ReadEscalatedCase, PublishTimerEvent,
       ProcessTimerThrows, ProcessDies, store
  <2> QED
    BY <1>2, <2>1
<1> QED
  BY <1>3, <1>4

LEMMA OtherTicksStay ==
  ASSUME sweep \in [Sweeper -> Tick], NEW s \in Sweeper, NEW u \in Sweeper \ {s},
         SweepStep(u) \/ ProcessDies(u)
  PROVE  sweep'[s] = sweep[s]
BY DEF SweepStep, StartTick, TakeTimer, ReadTask, ReadEscalatedCase, CommitEscalation, MarkFired,
   PublishTimerEvent, ProcessTimerThrows, ProcessDies, Processed, NextTimer

LEMMA NextKeepsLevels ==
  ASSUME LevelsIInv, [Next]_vars PROVE LevelsIInv'
<1>1. /\ WorkIInv /\ WorkIInv' /\ EscalationsInOrder /\ StoreTypeOK
  BY NextKeepsWorkInvariant, InvariantParts DEF LevelsIInv, WorkIInv
<1>2. ASSUME LevelsStay PROVE LevelsIInv'
  BY <1>1, <1>2, QuietLevels DEF LevelsIInv
<1>3. ASSUME UNCHANGED <<tasks, born>>,
             \A m \in TimerId : timers[m] = "absent" => timers'[m] = "absent"
      PROVE  LevelsIInv'
  BY <1>1, <1>2, <1>3, OldFromsAreZero DEF LevelsStay
<1>4. ASSUME NEW c \in Client, RequestStep(c) PROVE LevelsIInv'
  BY <1>1, <1>2, <1>4, RequestKeepsLevels
<1>5. ASSUME NEW s \in Sweeper, SweepStep(s) \/ ProcessDies(s) PROVE LevelsIInv'
  <2>1. CASE CommitEscalation(s)
    BY <1>1, <2>1, EscalationKeepsOrder DEF LevelsIInv
  <2>2. CASE ~CommitEscalation(s)
    BY <1>1, <1>2, <1>5, <2>2, OtherSweepStepsKeepLevels DEF SweepStep
  <2> QED
    BY <2>1, <2>2
<1>6. ASSUME NEW m \in TimerId, FallDue(m) PROVE LevelsIInv'
  <2>1. \A n \in TimerId : timers[n] = "absent" => timers'[n] = "absent"
    BY <1>1, <1>6 DEF FallDue, StoreTypeOK
  <2> QED
    BY <1>3, <1>6, <2>1 DEF FallDue, history
<1>7. CASE PublishVersion \/ UNCHANGED vars
  BY <1>3, <1>7 DEF PublishVersion, vars, store, history
<1> QED
  BY <1>4, <1>5, <1>6, <1>7 DEF Next

LEMMA InitialLevels == Init => LevelsIInv
<1> SUFFICES ASSUME Init PROVE LevelsIInv
  OBVIOUS
<1>1. \A t \in TaskId : born[t].from = 0
  BY DEF Init, StoreInit
<1> QED
  BY <1>1, InitialWork DEF LevelsIInv, EscalationsInOrder, EscalatedInOrder

(* persist-engine-output.ts:154, for any number of ticks, some of which    *)
(* die or fail between any two of their steps and start again: unless the  *)
(* level was raised since the tick read it, an escalation creates its task *)
(* above every task the same task was escalated to before.                 *)
THEOREM FreshEscalationsAreNew == Spec => FreshEscalationIsNew
<1>1. ASSUME LevelsIInv, [Next]_vars, NEW s \in Sweeper,
             sweep[s].pc = "commit", sweep'[s].pc # "commit"
      PROVE  CreatesAbove(s)
  <2>1. PICK u \in Sweeper : SweepStep(u) \/ ProcessDies(u)
    BY <1>1 DEF Next, vars
  <2>2. CASE CommitEscalation(s)
    BY <1>1, <2>2, EscalationKeepsOrder
  <2>3. CASE ~CommitEscalation(s) /\ u = s
    BY <1>1, <2>1, <2>3, OtherSweepStepsKeepLevels
    DEF SweepStep, CreatesAbove, LevelsIInv
  <2>4. CASE u # s
    <3>1. sweep'[s] = sweep[s]
      BY <1>1, <2>1, <2>4, OtherTicksStay DEF LevelsIInv, WorkIInv, IInv, TypeOK, SweepTypeOK
    <3> QED
      BY <1>1, <3>1
  <2> QED
    BY <2>2, <2>3, <2>4
<1>2. LevelsIInv /\ [Next]_vars => LevelsIInv'
  BY NextKeepsLevels
<1>3. LevelsIInv /\ [Next]_vars =>
        [\A s \in Sweeper, n, u \in TaskId :
           /\ sweep[s].pc = "commit" /\ sweep'[s].pc # "commit"
           /\ sweep[s].level = tasks[TaskOf(s)].level
           /\ tasks[n].status = "absent" /\ tasks'[n].status # "absent"
           /\ born[u].from = TaskOf(s)
           => tasks[u].level < tasks'[n].level]_vars
  BY <1>1 DEF CreatesAbove
<1> QED
  BY <1>2, <1>3, InitialLevels, PTL DEF Spec, FreshEscalationIsNew

-----------------------------------------------------------------------------
(* The case is CaseContract's sequential object.                           *)

(* The contract's engine is the engine: CaseContract extends the same      *)
(* module, so each of its operators has the definition it has here.        *)
LEMMA SameRun ==
  ASSUME NEW ctx, NEW k
  PROVE  Contract!RunFromStepKey(ctx, k) = RunFromStepKey(ctx, k)
BY DEF Contract!RunFromStepKey, RunFromStepKey, Contract!Key, Key, Contract!TerminalKey,
   TerminalKey, Contract!ReturnedKey, ReturnedKey, Contract!Arrive, Arrive,
   Contract!PassAutomatic, PassAutomatic, Contract!IsAutomatic, IsAutomatic,
   Contract!SelectNextStepKey, SelectNextStepKey, Contract!First, First,
   Contract!EnterTerminal, EnterTerminal, Contract!TerminalOutcome, TerminalOutcome,
   Contract!NoStep, NoStep, Contract!ReturnToRequester, ReturnToRequester,
   Contract!EnterUnassigned, EnterUnassigned, Contract!EnterStep, EnterStep,
   Contract!EntryAssignments, EntryAssignments, Contract!SelfApproval, SelfApproval,
   Contract!ResolveEscalationLevel, ResolveEscalationLevel,
   Contract!ComputeTimerSpecs, ComputeTimerSpecs

LEMMA SameSelection ==
  ASSUME NEW ctx, NEW step, NEW decision
  PROVE  Contract!SelectNextStepKey(ctx, step, decision) = SelectNextStepKey(ctx, step, decision)
BY DEF Contract!SelectNextStepKey, SelectNextStepKey, Contract!First, First

(* And it looks at nothing of a row but its status and step.               *)
LEMMA SameEntry ==
  ASSUME NEW ctx, NEW row, NEW seen, seen.status = row.status, seen.step = row.step
  PROVE  /\ Contract!CaseSubmitted(ctx, seen) = CaseSubmitted(ctx, row)
         /\ Contract!CaseResubmitted(ctx, seen) = CaseResubmitted(ctx, row)
BY SameRun DEF Contract!CaseSubmitted, CaseSubmitted, Contract!CaseResubmitted,
   CaseResubmitted, Contract!NoStep, NoStep

LEMMA SameCancellation ==
  ASSUME NEW row, NEW seen, seen.status = row.status
  PROVE  Contract!CaseCancelled(seen) = CaseCancelled(row)
BY DEF Contract!CaseCancelled, CaseCancelled, Contract!TerminalStatus, TerminalStatus,
   Contract!EnterTerminal, EnterTerminal, Contract!TerminalOutcome, TerminalOutcome,
   Contract!TerminalKey, TerminalKey, Contract!NoStep, NoStep

LEMMA SameDecision ==
  ASSUME NEW ctx, NEW row, NEW seen, seen.status = row.status, seen.step = row.step,
         NEW decision, NEW comment \in BOOLEAN
  PROVE  TaskDecided(ctx, row, decision, comment)
           \subseteq Contract!TaskDecided(ctx, seen, decision, TRUE)
<1>1. DecisionAccepted(ctx, row, decision, comment)
        => Contract!DecisionAccepted(ctx, seen, decision, TRUE)
  BY DEF DecisionAccepted, Contract!DecisionAccepted, Contract!TerminalStatus, TerminalStatus
<1>2. CASE ~DecisionAccepted(ctx, row, decision, comment)
  BY <1>2 DEF TaskDecided
<1> DEFINE step == ctx.doc.steps[row.step]
           next == SelectNextStepKey(ctx, step, decision)
<1>3. CASE DecisionAccepted(ctx, row, decision, comment)
  <2>1. Contract!SelectNextStepKey(ctx, ctx.doc.steps[seen.step], decision) = next
    BY SameSelection
  <2>2. Contract!EnterUnassigned(seen.step) = EnterUnassigned(row.step)
    BY DEF Contract!EnterUnassigned, EnterUnassigned
  <2>3. TaskDecided(ctx, row, decision, comment) =
          IF next = {} THEN {EnterUnassigned(row.step)}
          ELSE UNION {RunFromStepKey(ctx, k) : k \in next}
    BY <1>3 DEF TaskDecided
  <2>4. Contract!TaskDecided(ctx, seen, decision, TRUE) =
          IF next = {} THEN {EnterUnassigned(row.step)}
          ELSE UNION {RunFromStepKey(ctx, k) : k \in next}
    <3> HIDE DEF next
    <3> QED
      BY <1>1, <1>3, <2>1, <2>2, SameRun DEF Contract!TaskDecided
  <2> QED
    BY <2>3, <2>4
<1> QED
  BY <1>2, <1>3

LEMMA SameEscalation ==
  ASSUME NEW ctx, NEW row, NEW seen, seen.status = row.status, seen.step = row.step,
         NEW level
  PROVE  Contract!EscalationTriggered(ctx, seen, level) = EscalationTriggered(ctx, row, level)
BY DEF Contract!EscalationTriggered, EscalationTriggered, Contract!TerminalStatus,
   TerminalStatus, Contract!ResolveEscalationLevel, ResolveEscalationLevel,
   Contract!First, First, Contract!EnterUnassigned, EnterUnassigned


(* What the contract sees of a row.                                        *)
Seen(row) == [status |-> row.status, step |-> row.step, version |-> row.version]

LEMMA SeenFields ==
  ASSUME NEW row
  PROVE  /\ Seen(row).status = row.status /\ Seen(row).step = row.step
         /\ Seen(row).version = row.version
BY DEF Seen

(* The steps of the contract, in terms of the two rows.                    *)
LEMMA ContractMoves ==
  ASSUME NEW out, NEW version, out.moves,
         caseRow' = UpdatedCase(out, caseRow, version)
  PROVE  Contract!Moves(out, version)
BY DEF Contract!Moves, UpdatedCase

LEMMA ContextIsOffered ==
  ASSUME NEW version, NEW content \in Values, NEW who \in Directories
  PROVE  ContextOf(version, content, who) \in Contract!Contexts(version)
BY DEF ContextOf, Contract!Contexts

LEMMA SubmitIsContract ==
  ASSUME WorkIInv, NEW c \in Client, CommitSubmit(c)
  PROVE  Contract!Submit
<1>1. /\ IInv /\ req[c] \in Request /\ RequestSound(req[c], caseRow, tasks)
      /\ req[c].op = "submit" /\ req[c].pc = "commit"
  BY InvariantParts DEF WorkIInv, CommitSubmit, At
<1>2. PICK who \in Directories : \E out \in SubmitOutputs(c, who) :
        EngineCommit(req[c].row, req[c].version, out)
  BY <1>1, CommitSubmitIsSound
<1>3. PICK out \in SubmitOutputs(c, who) : EngineCommit(req[c].row, req[c].version, out)
  BY <1>2
<1> DEFINE version == req[c].version
           ctx == ContextOf(version, req[c].got, who)
<1>4. /\ version \in 1 .. MaxVersion /\ ctx \in Contract!Contexts(version)
      /\ IsContext(ctx)
  BY <1>1, ContextIsOffered, ContextOfIsContext DEF Request, RequestSound, Version
<1>5. out \in CaseSubmitted(ctx, caseRow) /\ caseRow' = UpdatedCase(out, caseRow, version)
  BY <1>3 DEF EngineCommit, SubmitOutputs
<1> HIDE DEF ctx, version
<1>6. out.moves
  BY <1>4, <1>5, SubmissionLands DEF LandsWell
<1>7. out \in Contract!CaseSubmitted(ctx, Seen(caseRow)) /\ Contract!Moves(out, version)
  BY <1>5, <1>6, SameEntry, SeenFields, ContractMoves
<1> QED
  BY <1>4, <1>7 DEF Contract!Submit, Seen

LEMMA ResubmitIsContract ==
  ASSUME WorkIInv, NEW c \in Client, CommitResubmit(c)
  PROVE  Contract!Resubmit
<1>1. /\ IInv /\ req[c] \in Request /\ RequestSound(req[c], caseRow, tasks)
      /\ req[c].op = "resubmit" /\ req[c].pc = "commit"
  BY InvariantParts DEF WorkIInv, CommitResubmit, At
<1>2. PICK who \in Directories : \E out \in ResubmitOutputs(c, who) :
        EngineCommit(req[c].row, req[c].version, out)
  BY <1>1, CommitResubmitIsSound
<1>3. PICK out \in ResubmitOutputs(c, who) : EngineCommit(req[c].row, req[c].version, out)
  BY <1>2
<1> DEFINE version == caseRow.version
           ctx == ContextOf(version, req[c].got, who)
<1>4. req[c].version = version
  BY <1>1, CommitResubmitIsSound
<1>5. ctx \in Contract!Contexts(version) /\ IsContext(ctx)
  BY <1>1, <1>4, ContextIsOffered, ContextOfIsContext DEF Request, RequestSound
<1>6. out \in CaseResubmitted(ctx, caseRow) /\ caseRow' = UpdatedCase(out, caseRow, version)
  BY <1>3, <1>4 DEF EngineCommit, ResubmitOutputs
<1> HIDE DEF ctx
<1>7. out.moves
  BY <1>5, <1>6, ResubmissionLands DEF LandsWell
<1>8. out \in Contract!CaseResubmitted(ctx, Seen(caseRow)) /\ Contract!Moves(out, version)
  BY <1>6, <1>7, SameEntry, SeenFields, ContractMoves
<1> QED
  BY <1>5, <1>8, SeenFields DEF Contract!Resubmit, Seen

LEMMA CancelIsContract ==
  ASSUME WorkIInv, NEW c \in Client, CommitCancel(c)
  PROVE  Contract!Cancel
<1>1. IInv
  BY DEF WorkIInv
<1>2. PICK out \in CaseCancelled(req[c].row) : EngineCommit(req[c].row, req[c].version, out)
  BY <1>1, CommitCancelIsSound
<1>3. req[c].version = caseRow.version
  BY <1>1, CommitCancelIsSound
<1>4. out \in CaseCancelled(caseRow) /\ caseRow' = UpdatedCase(out, caseRow, caseRow.version)
  BY <1>2, <1>3 DEF EngineCommit
<1>5. out.moves
  BY <1>4, CancellationLands DEF LandsWell
<1>6. out \in Contract!CaseCancelled(Seen(caseRow)) /\ Contract!Moves(out, caseRow.version)
  BY <1>4, <1>5, SameCancellation, SeenFields, ContractMoves
<1> QED
  BY <1>6, SeenFields DEF Contract!Cancel, Seen

LEMMA DecideIsContract ==
  ASSUME WorkIInv, NEW c \in Client, CommitDecide(c)
  PROVE  Contract!Decide
<1>1. /\ IInv /\ req[c] \in Request /\ RequestSound(req[c], caseRow, tasks)
      /\ req[c].op = "decide" /\ req[c].pc = "commit"
  BY InvariantParts DEF WorkIInv, CommitDecide, At
<1>2. PICK who \in Directories : \E out \in DecideOutputs(c, who) :
        EngineCommit(req[c].row, req[c].version, out)
  BY <1>1, CommitDecideIsSound
<1>3. PICK out \in DecideOutputs(c, who) : EngineCommit(req[c].row, req[c].version, out)
  BY <1>2
<1> DEFINE version == caseRow.version
           ctx == ContextOf(version, req[c].got, who)
           decision == req[c].decision
           comment == req[c].comment
<1>4. req[c].version = version
  BY <1>1, CommitDecideIsSound
<1>5. /\ ctx \in Contract!Contexts(version) /\ IsContext(ctx)
      /\ decision \in Decision /\ comment \in BOOLEAN
  BY <1>1, <1>4, ContextIsOffered, ContextOfIsContext DEF Request, RequestSound
<1>6. /\ out \in TaskDecided(ctx, caseRow, decision, comment)
      /\ caseRow' = UpdatedCase(out, caseRow, version)
  BY <1>3, <1>4 DEF EngineCommit, DecideOutputs
<1> HIDE DEF ctx, decision, comment
<1>7. out.moves
  BY <1>5, <1>6, DecisionLands DEF LandsWell
<1>8. out \in Contract!TaskDecided(ctx, Seen(caseRow), decision, TRUE)
      /\ Contract!Moves(out, version)
  <2>1. TaskDecided(ctx, caseRow, decision, comment)
          \subseteq Contract!TaskDecided(ctx, Seen(caseRow), decision, TRUE)
    BY <1>5, SameDecision, SeenFields
  <2> QED
    BY <1>6, <1>7, <2>1, ContractMoves
<1> QED
  BY <1>5, <1>8, SeenFields DEF Contract!Decide, Contract!Decision, Decision, Seen

(* An escalation leaves the row as the contract sees it alone, or finds    *)
(* nobody.                                                                 *)
LEMMA EscalationIsContract ==
  ASSUME WorkIInv, NEW s \in Sweeper, CommitEscalation(s)
  PROVE  Contract!Exhaust \/ Seen(caseRow)' = Seen(caseRow)
<1>1. /\ IInv /\ StoreTypeOK /\ sweep[s] \in Tick
      /\ sweep[s].pc = "commit" /\ sweep[s].row.status = "active"
  BY InvariantParts DEF WorkIInv, CommitEscalation, Doing, TicksReadActiveCases
<1>2. PICK who \in Directories : \E out \in EscalationOutputs(s, who) :
        EngineCommit(sweep[s].row, sweep[s].row.version, out)
  BY <1>1, CommitEscalationIsSound
<1>3. PICK out \in EscalationOutputs(s, who) :
        EngineCommit(sweep[s].row, sweep[s].row.version, out)
  BY <1>2
<1> DEFINE version == caseRow.version
           ctx == ContextOf(version, values, who)
           level == sweep[s].level
<1>4. /\ caseRow.status = "active" /\ out \in EscalationTriggered(ctx, caseRow, level)
      /\ caseRow' = UpdatedCase(out, caseRow, version)
  BY <1>1, <1>3 DEF EngineCommit, EscalationOutputs
<1>5. /\ values \in Values /\ version \in Version /\ level \in Level
  BY <1>1 DEF StoreTypeOK, CaseRow, Tick
<1>6. ctx \in Contract!Contexts(version) /\ IsContext(ctx)
  BY <1>5, ContextIsOffered, ContextOfIsContext
<1> HIDE DEF ctx, level
<1>7. CASE LandsWell(out)
  <2>1. out \in Contract!EscalationTriggered(ctx, Seen(caseRow), level)
        /\ Contract!Moves(out, version)
    BY <1>4, <1>7, SameEscalation, SeenFields, ContractMoves DEF LandsWell
  <2> QED
    BY <1>4, <1>5, <1>6, <2>1, SeenFields DEF Contract!Exhaust, Contract!Level, Level, Seen
<1>8. CASE StaysWithHelp(out, caseRow)
  BY <1>4, <1>8 DEF StaysWithHelp, UpdatedCase, Seen
<1> QED
  BY <1>4, <1>5, <1>6, <1>7, <1>8, EscalationLands

LEMMA NextIsContract ==
  ASSUME WorkIInv, [Next]_vars
  PROVE  Seen(caseRow)' = Seen(caseRow)
         \/ Contract!Submit \/ Contract!Resubmit \/ Contract!Decide \/ Contract!Cancel
         \/ Contract!Exhaust
<1>1. caseRow \in CaseRow
  BY DEF WorkIInv, IInv, TypeOK, StoreTypeOK
<1>2. ASSUME caseRow' = caseRow PROVE Seen(caseRow)' = Seen(caseRow)
  BY <1>2 DEF Seen
<1>3. ASSUME NEW c \in Client, CommitPatch(c) PROVE Seen(caseRow)' = Seen(caseRow)
  <2>1. caseRow' = [caseRow EXCEPT !.rowVersion = caseRow.rowVersion + 1]
    BY <1>3 DEF CommitPatch
  <2> QED
    BY <1>1, <2>1 DEF CaseRow, Seen
<1>4. ASSUME NEW c \in Client,
             \/ StartPatch(c) \/ StartSubmit(c) \/ StartResubmit(c) \/ StartCancel(c)
             \/ StartClaim(c) \/ StartDecide(c) \/ ReadCase(c) \/ ReadValues(c)
             \/ CommitClaim(c) \/ Refuse(c) \/ RollBack(c)
      PROVE  caseRow' = caseRow
  BY <1>4 DEF StartPatch, StartSubmit, StartResubmit, StartCancel, StartClaim, StartDecide,
       StartCaseRequest, ReadCase, ReadValues, CommitClaim, Refuse, RollBack, store
<1>5. ASSUME NEW s \in Sweeper,
             \/ StartTick(s) \/ TakeTimer(s) \/ ReadTask(s) \/ ReadEscalatedCase(s)
             \/ MarkFired(s) \/ PublishTimerEvent(s) \/ ProcessTimerThrows(s) \/ ProcessDies(s)
      PROVE  caseRow' = caseRow
  BY <1>5 DEF StartTick, TakeTimer, ReadTask, ReadEscalatedCase, MarkFired,
       PublishTimerEvent, ProcessTimerThrows, ProcessDies, store
<1>6. CASE PublishVersion \/ (\E m \in TimerId : FallDue(m)) \/ UNCHANGED vars
  BY <1>2, <1>6 DEF PublishVersion, FallDue, vars, store
<1> QED
  BY <1>2, <1>3, <1>4, <1>5, <1>6, SubmitIsContract, ResubmitIsContract, CancelIsContract,
     DecideIsContract, EscalationIsContract DEF Next, RequestStep, SweepStep

(* Whatever interleaving of handlers, ticks and publications: seen from    *)
(* its row, a case takes one submission, decision, resubmission,           *)
(* cancellation or exhausted escalation after another, each on the row the *)
(* previous one left and on the version the case is pinned to.             *)
THEOREM CaseIsOneObject == Spec => ImplementsContract
<1>1. Init => Contract!Init
  BY DEF Init, StoreInit, Contract!Init, Contract!NoStep, NoStep
<1>2. WorkIInv /\ [Next]_vars =>
        [Contract!Next]_[status |-> caseRow.status, step |-> caseRow.step,
                         version |-> caseRow.version]
  BY NextIsContract DEF Contract!Next, Seen
<1> QED
  BY <1>1, <1>2, WorkInvariance, PTL DEF Spec, ImplementsContract, Contract!Spec
=============================================================================
