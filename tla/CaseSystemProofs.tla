--------------------------- MODULE CaseSystemProofs ---------------------------
(***************************************************************************)
(* CaseSystem for every value of its constants.  First what the engine     *)
(* answers, for every document and every context: outputs that name steps, *)
(* statuses and assignees the tables have columns for.  Then the invariant *)
(* IInv, and from it that an ended case stays as it is and that a          *)
(* submitted case keeps its version.                                       *)
(***************************************************************************)
EXTENDS CaseSystem, TLAPS

-----------------------------------------------------------------------------
(* The engine.                                                             *)

(* The least element of a set is one of its elements.                      *)
LEMMA FirstIn == ASSUME NEW S PROVE First(S) \subseteq S
BY DEF First

(* selectNextStepKey names a key a rule of the step names.                 *)
LEMMA SelectIsKey ==
  ASSUME NEW ctx, NEW step \in Step, NEW decision \in Decision
  PROVE  SelectNextStepKey(ctx, step, decision) \subseteq Key
<1> DEFINE rules    == step.transitions[decision]
           matching == {i \in DOMAIN rules : rules[i].when \in ctx.facts \cup {Always}}
<1>1. rules \in Seq(Rule)
  BY DEF Step
<1>2. \A i \in DOMAIN rules : rules[i] \in Rule
  BY <1>1
<1>3. \A i \in First(matching) : rules[i].to \in Key
  BY <1>2, FirstIn DEF Rule
<1> QED
  BY <1>3 DEF SelectNextStepKey

(* A resolved escalation level exists, lies at or above the level asked    *)
(* for, and its strategy finds somebody.                                   *)
LEMMA ResolvedLevel ==
  ASSUME NEW ctx, IsContext(ctx), NEW step \in Step, Len(step.escalation) <= MaxLevel,
         NEW from \in Nat, NEW l \in ResolveEscalationLevel(ctx, step, from), from >= 1
  PROVE  /\ l \in Level
         /\ l >= from
         /\ ctx.who[step.escalation[l]] \in Assignee
<1>1. /\ l \in from .. Len(step.escalation)
      /\ ctx.who[step.escalation[l]] # Nobody
  BY FirstIn DEF ResolveEscalationLevel
<1>2. step.escalation \in Seq(Strategy)
  BY DEF Step
<1>3. l \in Nat /\ l >= from /\ l <= Len(step.escalation)
  BY <1>1, <1>2
<1>4. step.escalation[l] \in Strategy
  BY <1>2, <1>3
<1>5. ctx.who \in [Strategy -> Assignee \cup {Nobody}]
  BY DEF IsContext
<1> QED
  BY <1>1, <1>3, <1>4, <1>5, BoundsAssumption DEF Level

LEMMA TimerSpecsAreLevels ==
  ASSUME NEW step \in Step, Len(step.escalation) <= MaxLevel
  PROVE  ComputeTimerSpecs(step) \subseteq Level
<1>1. Len(step.escalation) \in Nat
  BY DEF Step
<1> QED
  BY <1>1, BoundsAssumption DEF ComputeTimerSpecs, Level

(* Whoever a step is assigned to on entry is somebody.                     *)
LEMMA EntryIsSomebody ==
  ASSUME NEW ctx, IsContext(ctx), NEW step \in Step, Len(step.escalation) <= MaxLevel,
         NEW e \in EntryAssignments(ctx, step)
  PROVE  e.assignee \in Assignee /\ e.level \in Level
<1>1. CASE SelfApproval(ctx, step)
  <2>1. PICK l \in ResolveEscalationLevel(ctx, step, 1) :
          e = [assignee |-> ctx.who[step.escalation[l]], level |-> l]
    BY <1>1 DEF EntryAssignments
  <2> QED
    BY <2>1, ResolvedLevel
<1>2. CASE ~SelfApproval(ctx, step)
  <2>1. PICK a \in {ctx.who[step.assignment]} \ {Nobody} :
          e = [assignee |-> a, level |-> 0]
    BY <1>2 DEF EntryAssignments
  <2>2. ctx.who[step.assignment] \in Assignee \cup {Nobody}
    BY DEF IsContext, Step
  <2> QED
    BY <2>1, <2>2, BoundsAssumption DEF Level
<1> QED
  BY <1>1, <1>2

-----------------------------------------------------------------------------
(* Typed outputs.                                                          *)

LEMMA EnterUnassignedTyped ==
  ASSUME NEW k \in Key PROVE EnterUnassigned(k) \in Output
BY DEF EnterUnassigned, Output, CaseStatus, EventType

LEMMA EnterTerminalTyped ==
  ASSUME NEW k \in TerminalKey PROVE EnterTerminal(k) \in Output
<1>1. TerminalOutcome[k] \in TerminalStatus
  BY DEF TerminalOutcome, TerminalKey, TerminalStatus
<1> QED
  BY <1>1 DEF EnterTerminal, Output, CaseStatus, EventType

LEMMA ReturnToRequesterTyped == ReturnToRequester \in Output
<1>1. [step |-> ReturnedKey, assignee |-> Submitter, level |-> 0, timers |-> {}]
        \in TaskSpec
  BY PeopleAssumption, BoundsAssumption DEF TaskSpec, Key, Assignee, Level
<1> QED
  BY <1>1 DEF ReturnToRequester, Output, CaseStatus, EventType

LEMMA EnterStepTyped ==
  ASSUME NEW ctx, IsContext(ctx), NEW k \in DOMAIN ctx.doc.steps
  PROVE  EnterStep(ctx, k) \subseteq Output
<1> DEFINE step    == ctx.doc.steps[k]
           entries == EntryAssignments(ctx, step)
           Task(e) == [step |-> k, assignee |-> e.assignee, level |-> e.level,
                       timers |-> ComputeTimerSpecs(step)]
<1>1. k \in Key /\ step \in Step /\ Len(step.escalation) <= MaxLevel
  BY DEF IsContext, IsDocument, Key
<1>2. CASE entries = {}
  BY <1>1, <1>2, EnterUnassignedTyped DEF EnterStep
<1>3. CASE entries # {}
  <2>1. \A e \in entries : Task(e) \in TaskSpec
    BY <1>1, EntryIsSomebody, TimerSpecsAreLevels DEF TaskSpec
  <2>2. EnterStep(ctx, k) =
          {[moves |-> TRUE, status |-> "active", step |-> k,
            tasks |-> {Task(e)}, event |-> "task.created"] : e \in entries}
    BY <1>3 DEF EnterStep
  <2> DEFINE Out(e) == [moves |-> TRUE, status |-> "active", step |-> k,
                        tasks |-> {Task(e)}, event |-> "task.created"]
  <2>3. \A e \in entries : Out(e) \in Output
    <3> HIDE DEF entries, Task
    <3> QED
      BY <1>1, <2>1 DEF Output, CaseStatus, EventType
  <2> HIDE DEF entries, Out
  <2> QED
    BY <2>2, <2>3 DEF Out
<1> QED
  BY <1>2, <1>3

LEMMA ArriveTyped ==
  ASSUME NEW ctx, IsContext(ctx), NEW k \in Key
  PROVE  Arrive(ctx, k) \subseteq Output
<1>1. CASE k \in TerminalKey
  <2>1. Arrive(ctx, k) = {EnterTerminal(k)}
    BY <1>1, KeysAssumption
       DEF Arrive, IsAutomatic, IsContext, IsDocument, TerminalKey, ReturnedKey
  <2> QED
    BY <1>1, <2>1, EnterTerminalTyped
<1>2. CASE k = ReturnedKey
  <2>1. Arrive(ctx, k) = {ReturnToRequester}
    BY <1>2, KeysAssumption
       DEF Arrive, IsAutomatic, IsContext, IsDocument, TerminalKey, ReturnedKey
  <2> QED
    BY <2>1, ReturnToRequesterTyped
<1>3. CASE k \in StepKey \ DOMAIN ctx.doc.steps
  <2>1. Arrive(ctx, k) = {EnterUnassigned(k)}
    BY <1>3, KeysAssumption
       DEF Arrive, IsAutomatic, TerminalKey, ReturnedKey
  <2> QED
    BY <2>1, EnterUnassignedTyped
<1>4. CASE k \in StepKey /\ IsAutomatic(ctx, k)
  <2>1. Arrive(ctx, k) = {EnterUnassigned(k)}
    BY <1>4, KeysAssumption
       DEF Arrive, IsAutomatic, TerminalKey, ReturnedKey
  <2> QED
    BY <2>1, EnterUnassignedTyped
<1>5. CASE k \in StepKey /\ k \in DOMAIN ctx.doc.steps /\ ~IsAutomatic(ctx, k)
  <2>1. Arrive(ctx, k) = EnterStep(ctx, k)
    BY <1>5, KeysAssumption
       DEF Arrive, TerminalKey, ReturnedKey
  <2> QED
    BY <1>5, <2>1, EnterStepTyped
<1> QED
  BY <1>1, <1>2, <1>3, <1>4, <1>5 DEF Key

(* Whatever automatic steps lie between, a case lands somewhere typed.     *)
LEMMA RunFromStepKeyTyped ==
  ASSUME NEW ctx, IsContext(ctx), NEW start
  PROVE  RunFromStepKey(ctx, start) \subseteq Output
BY ArriveTyped DEF RunFromStepKey

LEMMA CaseSubmittedTyped ==
  ASSUME NEW ctx, IsContext(ctx), NEW row
  PROVE  CaseSubmitted(ctx, row) \subseteq Output
BY RunFromStepKeyTyped DEF CaseSubmitted

LEMMA CaseResubmittedTyped ==
  ASSUME NEW ctx, IsContext(ctx), NEW row
  PROVE  CaseResubmitted(ctx, row) \subseteq Output
BY RunFromStepKeyTyped DEF CaseResubmitted

LEMMA CaseCancelledTyped ==
  ASSUME NEW row PROVE CaseCancelled(row) \subseteq Output
BY EnterTerminalTyped DEF CaseCancelled, TerminalKey

LEMMA TaskDecidedTyped ==
  ASSUME NEW ctx, IsContext(ctx), NEW row, NEW decision \in Decision,
         NEW comment \in BOOLEAN
  PROVE  TaskDecided(ctx, row, decision, comment) \subseteq Output
<1>1. CASE ~DecisionAccepted(ctx, row, decision, comment)
  BY <1>1 DEF TaskDecided
<1>2. CASE DecisionAccepted(ctx, row, decision, comment)
  <2>1. row.step \in Key
    BY <1>2 DEF DecisionAccepted, IsContext, IsDocument, Key
  <2> QED
    BY <1>2, <2>1, RunFromStepKeyTyped, EnterUnassignedTyped DEF TaskDecided
<1> QED
  BY <1>1, <1>2

LEMMA EscalationTriggeredTyped ==
  ASSUME NEW ctx, IsContext(ctx), NEW row, row.status \in CaseStatus,
         NEW level \in Level
  PROVE  EscalationTriggered(ctx, row, level) \subseteq Output
<1> DEFINE step   == ctx.doc.steps[row.step]
           levels == ResolveEscalationLevel(ctx, step, level + 1)
           Task(l) == [step |-> row.step, assignee |-> ctx.who[step.escalation[l]],
                       level |-> l, timers |-> {}]
<1>1. CASE row.status \in TerminalStatus \/ row.step \notin DOMAIN ctx.doc.steps
  BY <1>1 DEF EscalationTriggered
<1>2. CASE ~(row.status \in TerminalStatus \/ row.step \notin DOMAIN ctx.doc.steps)
  <2>1. row.step \in Key /\ step \in Step /\ Len(step.escalation) <= MaxLevel
    BY <1>2 DEF IsContext, IsDocument, Key
  <2>2. CASE levels = {}
    BY <1>2, <2>1, <2>2, EnterUnassignedTyped DEF EscalationTriggered
  <2>3. CASE levels # {}
    <3>1. level + 1 \in Nat /\ level + 1 >= 1
      BY DEF Level
    <3>2. \A l \in levels : Task(l) \in TaskSpec
      BY <2>1, <3>1, ResolvedLevel DEF TaskSpec
    <3>3. EscalationTriggered(ctx, row, level) =
            {[moves |-> FALSE, status |-> row.status, step |-> row.step,
              tasks |-> {Task(l)}, event |-> "task.escalated"] : l \in levels}
      BY <1>2, <2>3 DEF EscalationTriggered
    <3> DEFINE Out(l) == [moves |-> FALSE, status |-> row.status, step |-> row.step,
                          tasks |-> {Task(l)}, event |-> "task.escalated"]
    <3>4. \A l \in levels : Out(l) \in Output
      <4> HIDE DEF levels, Task
      <4> QED
        BY <2>1, <3>2 DEF Output, EventType
    <3> HIDE DEF levels, Out
    <3> QED
      BY <3>3, <3>4 DEF Out
  <2> QED
    BY <2>2, <2>3
<1> QED
  BY <1>1, <1>2


-----------------------------------------------------------------------------
(* What an output leaves to do.                                            *)

(* A case that moves is taken up: active with one task, at the step it     *)
(* entered or with its requester; or there is nobody to take it; or it has *)
(* ended, at no step.                                                      *)
LandsWell(out) ==
  /\ out.moves
  /\ out.status \in CaseStatus \ {"draft"}
  /\ out.status = "active" =>
       \E spec : /\ out.tasks = {spec}
                 /\ \/ out.step \in StepKey /\ spec.step = out.step
                    \/ /\ out.step = NoStep /\ spec.step = ReturnedKey
                       /\ spec.assignee = Submitter /\ spec.timers = {}
  /\ out.status # "active" => out.tasks = {}
  /\ out.status \in TerminalStatus => out.step = NoStep

(* Or it stays where it is and somebody else gets a task there as well.    *)
StaysWithHelp(out, row) ==
  /\ ~out.moves /\ row.step \in StepKey
  /\ \E spec : out.tasks = {spec} /\ spec.step = row.step /\ spec.timers = {}

LEMMA UnassignedLands ==
  ASSUME NEW k
  PROVE  LandsWell(EnterUnassigned(k)) /\ EnterUnassigned(k).status = "unassigned"
BY DEF LandsWell, EnterUnassigned, CaseStatus, TerminalStatus

LEMMA TerminalLands ==
  ASSUME NEW k \in TerminalKey
  PROVE  LandsWell(EnterTerminal(k)) /\ EnterTerminal(k).status \in TerminalStatus
<1>1. TerminalOutcome[k] \in TerminalStatus
  BY DEF TerminalOutcome, TerminalKey, TerminalStatus
<1>2. \A status \in TerminalStatus : status \in CaseStatus \ {"draft"} /\ status # "active"
  BY DEF TerminalStatus, CaseStatus
<1> QED
  BY <1>1, <1>2 DEF EnterTerminal, LandsWell

LEMMA ReturnLands == LandsWell(ReturnToRequester)
<1> DEFINE spec == [step |-> ReturnedKey, assignee |-> Submitter, level |-> 0, timers |-> {}]
<1>1. spec.step = ReturnedKey /\ spec.assignee = Submitter /\ spec.timers = {}
  OBVIOUS
<1>2. /\ ReturnToRequester.tasks = {spec} /\ ReturnToRequester.step = NoStep
      /\ ReturnToRequester.status = "active" /\ ReturnToRequester.moves
  BY DEF ReturnToRequester
<1> HIDE DEF spec
<1> QED
  BY <1>1, <1>2 DEF LandsWell, CaseStatus, TerminalStatus

LEMMA StepLands ==
  ASSUME NEW ctx, NEW k \in StepKey, NEW out \in EnterStep(ctx, k)
  PROVE  LandsWell(out)
<1> DEFINE step    == ctx.doc.steps[k]
           entries == EntryAssignments(ctx, step)
<1>1. CASE entries = {}
  BY <1>1, UnassignedLands DEF EnterStep
<1>2. CASE entries # {}
  <2>1. PICK e \in entries :
          out = [moves |-> TRUE, status |-> "active", step |-> k,
                 tasks |-> {[step |-> k, assignee |-> e.assignee, level |-> e.level,
                             timers |-> ComputeTimerSpecs(step)]},
                 event |-> "task.created"]
    BY <1>2 DEF EnterStep
  <2> DEFINE spec == [step |-> k, assignee |-> e.assignee, level |-> e.level,
                      timers |-> ComputeTimerSpecs(step)]
  <2>2. spec.step = k
    OBVIOUS
  <2>3. out.tasks = {spec} /\ out.step = k /\ out.status = "active" /\ out.moves
    BY <2>1
  <2> HIDE DEF spec
  <2> QED
    BY <2>2, <2>3 DEF LandsWell, CaseStatus, TerminalStatus
<1> QED
  BY <1>1, <1>2

LEMMA ArriveLands ==
  ASSUME NEW ctx, IsContext(ctx), NEW k \in Key, NEW out \in Arrive(ctx, k)
  PROVE  LandsWell(out)
<1>1. CASE k \in TerminalKey
  <2>1. Arrive(ctx, k) = {EnterTerminal(k)}
    BY <1>1, KeysAssumption
       DEF Arrive, IsAutomatic, IsContext, IsDocument, TerminalKey, ReturnedKey
  <2> QED
    BY <1>1, <2>1, TerminalLands
<1>2. CASE k = ReturnedKey
  <2>1. Arrive(ctx, k) = {ReturnToRequester}
    BY <1>2, KeysAssumption
       DEF Arrive, IsAutomatic, IsContext, IsDocument, TerminalKey, ReturnedKey
  <2> QED
    BY <2>1, ReturnLands
<1>3. CASE k \in StepKey \ DOMAIN ctx.doc.steps \/ (k \in StepKey /\ IsAutomatic(ctx, k))
  <2>1. Arrive(ctx, k) = {EnterUnassigned(k)}
    BY <1>3, KeysAssumption DEF Arrive, IsAutomatic, TerminalKey, ReturnedKey
  <2> QED
    BY <2>1, UnassignedLands
<1>4. CASE k \in StepKey /\ k \in DOMAIN ctx.doc.steps /\ ~IsAutomatic(ctx, k)
  <2>1. Arrive(ctx, k) = EnterStep(ctx, k)
    BY <1>4, KeysAssumption DEF Arrive, TerminalKey, ReturnedKey
  <2> QED
    BY <1>4, <2>1, StepLands
<1> QED
  BY <1>1, <1>2, <1>3, <1>4 DEF Key

LEMMA RunLands ==
  ASSUME NEW ctx, IsContext(ctx), NEW start, NEW out \in RunFromStepKey(ctx, start)
  PROVE  LandsWell(out)
BY ArriveLands DEF RunFromStepKey

LEMMA SubmissionLands ==
  ASSUME NEW ctx, IsContext(ctx), NEW row, NEW out \in CaseSubmitted(ctx, row)
  PROVE  LandsWell(out) /\ row.status = "draft"
BY RunLands DEF CaseSubmitted

LEMMA ResubmissionLands ==
  ASSUME NEW ctx, IsContext(ctx), NEW row, NEW out \in CaseResubmitted(ctx, row)
  PROVE  LandsWell(out) /\ row.status = "active" /\ row.step = NoStep
BY RunLands DEF CaseResubmitted

LEMMA CancellationLands ==
  ASSUME NEW row, NEW out \in CaseCancelled(row)
  PROVE  LandsWell(out) /\ out.status \in TerminalStatus /\ row.status \notin TerminalStatus
BY TerminalLands DEF CaseCancelled, TerminalKey

LEMMA DecisionLands ==
  ASSUME NEW ctx, IsContext(ctx), NEW row, NEW decision, NEW comment,
         NEW out \in TaskDecided(ctx, row, decision, comment)
  PROVE  LandsWell(out) /\ row.step \in StepKey /\ row.status \notin TerminalStatus
<1>1. DecisionAccepted(ctx, row, decision, comment)
  BY DEF TaskDecided
<1>2. row.step \in StepKey /\ row.status \notin TerminalStatus
  BY <1>1 DEF DecisionAccepted, IsContext, IsDocument
<1> DEFINE next == SelectNextStepKey(ctx, ctx.doc.steps[row.step], decision)
<1>3. CASE next = {}
  BY <1>1, <1>2, <1>3, UnassignedLands DEF TaskDecided
<1>4. CASE next # {}
  BY <1>1, <1>2, <1>4, RunLands DEF TaskDecided
<1> QED
  BY <1>3, <1>4

(* An escalation finds somebody above the level asked for, or takes the    *)
(* case out of the flow.                                                   *)
LEMMA EscalationLands ==
  ASSUME NEW ctx, IsContext(ctx), NEW row, NEW level \in Level,
         NEW out \in EscalationTriggered(ctx, row, level)
  PROVE  /\ row.step \in StepKey /\ row.status \notin TerminalStatus
         /\ \/ LandsWell(out) /\ out.status = "unassigned"
            \/ StaysWithHelp(out, row)
<1>1. row.status \notin TerminalStatus /\ row.step \in DOMAIN ctx.doc.steps
  BY DEF EscalationTriggered
<1>2. row.step \in StepKey
  BY <1>1 DEF IsContext, IsDocument
<1> DEFINE step   == ctx.doc.steps[row.step]
           levels == ResolveEscalationLevel(ctx, step, level + 1)
<1>3. CASE levels = {}
  BY <1>1, <1>2, <1>3, UnassignedLands DEF EscalationTriggered
<1>4. CASE levels # {}
  <2>1. PICK l \in levels :
          out = [moves |-> FALSE, status |-> row.status, step |-> row.step,
                 tasks |-> {[step |-> row.step,
                             assignee |-> ctx.who[step.escalation[l]],
                             level |-> l, timers |-> {}]},
                 event |-> "task.escalated"]
    BY <1>1, <1>4 DEF EscalationTriggered
  <2> DEFINE spec == [step |-> row.step, assignee |-> ctx.who[step.escalation[l]],
                      level |-> l, timers |-> {}]
  <2>2. spec.step = row.step /\ spec.timers = {}
    OBVIOUS
  <2>3. out.tasks = {spec} /\ ~out.moves
    BY <2>1
  <2> HIDE DEF spec
  <2> QED
    BY <1>1, <1>2, <2>2, <2>3 DEF StaysWithHelp
<1> QED
  BY <1>3, <1>4

-----------------------------------------------------------------------------
(* The case.                                                               *)

(* What a handler hands to the engine is a context.                        *)
LEMMA ContextOfIsContext ==
  ASSUME NEW version \in Version, NEW content \in Values, NEW who \in Directories
  PROVE  IsContext(ContextOf(version, content, who))
BY StoreAssumption DEF ContextOf, IsContext

LEMMA AbsentTaskIsRow == AbsentTask \in TaskRow
BY DEF TaskRow

(* A task that exists has a row of the table.                              *)
LEMMA RowOfPresentTask ==
  ASSUME NEW ts \in [TaskId -> TaskRow], NEW t \in TaskId, ts[t].status # "absent"
  PROVE  ts[t] \in PresentTask
BY DEF TaskRow, AbsentTask

(* And a row of the table is a task that exists.                           *)
LEMMA RowIsPresent ==
  ASSUME NEW r \in PresentTask
  PROVE  r \in TaskRow /\ r.status # "absent"
BY DEF TaskRow, PresentTask, TaskStatus, OpenStatus

-----------------------------------------------------------------------------
(* Repository functions keep the tables typed and lose no task.            *)

Keeps(ts, us) ==
  /\ us \in [TaskId -> TaskRow]
  /\ \A t \in TaskId : ts[t].status # "absent" => us[t].status # "absent"

LEMMA ClaimKeeps ==
  ASSUME NEW ts \in [TaskId -> TaskRow], NEW t \in TaskId, ts[t].status # "absent",
         NEW u \in User
  PROVE  Keeps(ts, ClaimCaseTask(ts, t, u))
<1> DEFINE n == ts[t].rowVersion + 1
           r == [ts[t] EXCEPT !.status = "claimed", !.assignee = u, !.rowVersion = n]
<1>0. ts[t] \in PresentTask /\ n \in Nat
  BY RowOfPresentTask DEF PresentTask
<1> HIDE DEF n
<1>1. r \in PresentTask
  BY <1>0 DEF PresentTask, TaskStatus, OpenStatus, Assignee
<1>2. r \in TaskRow /\ r.status # "absent"
  BY <1>1, RowIsPresent
<1>3. ClaimCaseTask(ts, t, u) = [ts EXCEPT ![t] = r]
  BY DEF ClaimCaseTask, n
<1> HIDE DEF r
<1> QED
  BY <1>2, <1>3 DEF Keeps

LEMMA DecisionKeeps ==
  ASSUME NEW ts \in [TaskId -> TaskRow], NEW t \in TaskId, ts[t].status # "absent"
  PROVE  Keeps(ts, RecordTaskDecision(ts, t))
<1> DEFINE n == ts[t].rowVersion + 1
           r == [ts[t] EXCEPT !.status = "completed", !.rowVersion = n]
<1>0. ts[t] \in PresentTask /\ n \in Nat
  BY RowOfPresentTask DEF PresentTask
<1> HIDE DEF n
<1>1. r \in PresentTask
  BY <1>0 DEF PresentTask, TaskStatus
<1>2. r \in TaskRow /\ r.status # "absent"
  BY <1>1, RowIsPresent
<1>3. RecordTaskDecision(ts, t) = [ts EXCEPT ![t] = r]
  BY DEF RecordTaskDecision, n
<1> HIDE DEF r
<1> QED
  BY <1>2, <1>3 DEF Keeps

LEMMA CancelKeeps ==
  ASSUME NEW ts \in [TaskId -> TaskRow]
  PROVE  Keeps(ts, CancelOpenTasksForCase(ts))
<1> DEFINE us == CancelOpenTasksForCase(ts)
<1>1. ASSUME NEW t \in TaskId
      PROVE  us[t] \in TaskRow /\ (ts[t].status # "absent" => us[t].status # "absent")
  <2>1. CASE ts[t].status \in OpenStatus
    <3> DEFINE r == [ts[t] EXCEPT !.status = "cancelled"]
    <3>0. ts[t] \in PresentTask
      BY <2>1, RowOfPresentTask DEF OpenStatus
    <3>1. r \in PresentTask
      BY <3>0 DEF PresentTask, TaskStatus
    <3>2. us[t] = r
      BY <2>1 DEF CancelOpenTasksForCase
    <3> HIDE DEF r, us
    <3> QED
      BY <3>1, <3>2, RowIsPresent
  <2>2. CASE ts[t].status \notin OpenStatus
    BY <2>2 DEF CancelOpenTasksForCase
  <2> QED
    BY <2>1, <2>2
<1> QED
  BY <1>1 DEF Keeps, CancelOpenTasksForCase

LEMMA EscalationKeeps ==
  ASSUME NEW ts \in [TaskId -> TaskRow], NEW t \in TaskId, ts[t].status # "absent",
         NEW level \in Level
  PROVE  Keeps(ts, MarkTaskEscalated(ts, t, level))
<1> DEFINE r == IF ts[t].level < level THEN [ts[t] EXCEPT !.level = level] ELSE ts[t]
<1>0. ts[t] \in PresentTask
  BY RowOfPresentTask
<1>1. r \in PresentTask
  BY <1>0 DEF PresentTask
<1>2. r \in TaskRow /\ r.status # "absent"
  BY <1>1, RowIsPresent
<1>3. MarkTaskEscalated(ts, t, level) = [ts EXCEPT ![t] = r]
  BY DEF MarkTaskEscalated
<1> HIDE DEF r
<1> QED
  BY <1>2, <1>3 DEF Keeps

LEMMA CreationKeeps ==
  ASSUME NEW ts \in [TaskId -> TaskRow], NEW t \in TaskId, NEW spec \in TaskSpec
  PROVE  /\ Keeps(ts, CreateCaseTask(ts, t, spec))
         /\ CreateCaseTask(ts, t, spec)[t].status # "absent"
<1> DEFINE r == [status |-> "pending", step |-> spec.step, assignee |-> spec.assignee,
                 level |-> spec.level, rowVersion |-> 1]
<1>1. r \in PresentTask
  BY DEF PresentTask, TaskSpec, TaskStatus, OpenStatus
<1>2. r \in TaskRow /\ r.status # "absent"
  BY <1>1, RowIsPresent
<1>3. CreateCaseTask(ts, t, spec) = [ts EXCEPT ![t] = r]
  BY DEF CreateCaseTask
<1> HIDE DEF r
<1> QED
  BY <1>2, <1>3 DEF Keeps

LEMMA KeepsTransitive ==
  ASSUME NEW ts, NEW us, NEW ws, Keeps(ts, us), Keeps(us, ws)
  PROVE  Keeps(ts, ws)
BY DEF Keeps

LEMMA TimerFunctionsTyped ==
  ASSUME NEW tm \in [TimerId -> TimerStatus], NEW gone, NEW t, NEW levels
  PROVE  /\ CancelTimersForTasks(tm, gone) \in [TimerId -> TimerStatus]
         /\ CreateSlaTimers(tm, t, levels) \in [TimerId -> TimerStatus]
         /\ \A m \in TimerId :
              /\ CancelTimersForTasks(tm, gone)[m] = "absent" <=> tm[m] = "absent"
              /\ CreateSlaTimers(tm, t, levels)[m] # "absent" => m[1] = t \/ tm[m] # "absent"
              /\ tm[m] # "absent" => CreateSlaTimers(tm, t, levels)[m] # "absent"
BY DEF CancelTimersForTasks, CreateSlaTimers, StillScheduled, TimerStatus

(* What every transaction does to the tables, whatever else it does.       *)
StoreStep ==
  /\ StoreTypeOK' /\ TimersHaveTasks'
  /\ caseRow' = caseRow \/ caseRow'.rowVersion = caseRow.rowVersion + 1
  /\ Keeps(tasks, tasks')
  /\ \A m \in TimerId : timers[m] # "absent" => timers'[m] # "absent"

LEMMA StoreUnchanged ==
  ASSUME StoreTypeOK, TimersHaveTasks, UNCHANGED store
  PROVE  StoreStep
BY DEF StoreStep, StoreTypeOK, TimersHaveTasks, store, history, Keeps

(* persistEngineOutput, for an engine output and rows that are typed.      *)
LEMMA PersistKeeps ==
  ASSUME StoreTypeOK, TimersHaveTasks, UNCHANGED <<current>>, values' \in Values,
         NEW out \in Output, NEW row \in CaseRow, NEW version \in Version,
         NEW ts, Keeps(tasks, ts), NEW decided, NEW from \in TaskId \cup {0},
         from # 0 => tasks[from].status # "absent",
         PersistEngineOutput(out, row, version, ts, decided, from)
  PROVE  /\ StoreStep
         /\ caseRow.rowVersion = row.rowVersion
         /\ caseRow' = UpdatedCase(out, row, version)
<1> DEFINE ends == out.moves /\ out.status \in TerminalStatus
           kept == CancelTimersForTasks(timers, IF ends THEN TaskId ELSE decided)
           base == IF ends THEN CancelOpenTasksForCase(ts) ELSE ts
           now  == IF out.moves THEN visit + 1 ELSE visit
<1>1. /\ caseRow.rowVersion = row.rowVersion
      /\ caseRow' = UpdatedCase(out, row, version)
      /\ visit' = now
      /\ \/ out.tasks = {} /\ tasks' = base /\ timers' = kept /\ born' = born
         \/ \E spec \in out.tasks, t \in First(Absent(ts)) :
              /\ tasks' = CreateCaseTask(IF from = 0 THEN base
                                  ELSE MarkTaskEscalated(base, from, spec.level),
                                  t, spec)
              /\ timers' = CreateSlaTimers(kept, t, spec.timers)
              /\ born' = [born EXCEPT ![t] = [visit |-> now, from |-> from]]
  BY DEF PersistEngineOutput, RowIsCurrent
<1>2. caseRow' \in CaseRow /\ caseRow'.rowVersion = caseRow.rowVersion + 1
  BY <1>1 DEF StoreTypeOK, CaseRow, UpdatedCase, Output
<1>3. now \in Nat /\ late' \subseteq TaskId
  BY DEF StoreTypeOK, PersistEngineOutput
<1>4. Keeps(tasks, base)
  BY CancelKeeps, KeepsTransitive DEF Keeps
<1>5. /\ kept \in [TimerId -> TimerStatus]
      /\ \A m \in TimerId : kept[m] = "absent" <=> timers[m] = "absent"
  BY TimerFunctionsTyped DEF StoreTypeOK
<1>6. \A m \in TimerId : m[1] \in TaskId
  BY DEF TimerId
<1> HIDE DEF base, kept, now, ends
<1>7. CASE out.tasks = {} /\ tasks' = base /\ timers' = kept /\ born' = born
  <2>1. TimersHaveTasks'
    BY <1>4, <1>5, <1>6, <1>7 DEF TimersHaveTasks, Keeps
  <2> QED
    BY <1>1, <1>2, <1>3, <1>4, <1>5, <1>7, <2>1 DEF StoreStep, StoreTypeOK, Keeps
<1>8. ASSUME NEW spec \in out.tasks, NEW t \in First(Absent(ts)),
             tasks' = CreateCaseTask(IF from = 0 THEN base
                                 ELSE MarkTaskEscalated(base, from, spec.level),
                                 t, spec),
             timers' = CreateSlaTimers(kept, t, spec.timers),
             born' = [born EXCEPT ![t] = [visit |-> now, from |-> from]]
      PROVE  StoreStep
  <2>1. spec \in TaskSpec /\ spec.level \in Level
    BY DEF Output, TaskSpec
  <2>2. t \in TaskId
    BY FirstIn DEF Absent
  <2> DEFINE marked == IF from = 0 THEN base ELSE MarkTaskEscalated(base, from, spec.level)
  <2>3. Keeps(base, marked)
    <3>1. CASE from = 0
      BY <3>1, <1>4 DEF Keeps
    <3>2. CASE from # 0
      BY <3>2, <1>4, <2>1, EscalationKeeps DEF Keeps
    <3> QED
      BY <3>1, <3>2
  <2>4. Keeps(tasks, marked)
    BY <1>4, <2>3, KeepsTransitive
  <2> HIDE DEF marked
  <2>5. Keeps(tasks, tasks') /\ tasks'[t].status # "absent"
    <3>1. tasks' = CreateCaseTask(marked, t, spec)
      BY <1>8 DEF marked
    <3>2. Keeps(marked, tasks') /\ tasks'[t].status # "absent"
      BY <2>1, <2>2, <2>4, <3>1, CreationKeeps DEF Keeps
    <3> QED
      BY <2>4, <3>2, KeepsTransitive
  <2>6. /\ timers' \in [TimerId -> TimerStatus]
        /\ \A m \in TimerId : /\ timers'[m] # "absent" => m[1] = t \/ timers[m] # "absent"
                              /\ timers[m] # "absent" => timers'[m] # "absent"
    BY <1>5, <1>8, TimerFunctionsTyped
  <2>7. TimersHaveTasks'
    BY <1>6, <2>5, <2>6 DEF TimersHaveTasks, Keeps
  <2>8. born' \in [TaskId -> [visit : Nat, from : TaskId \cup {0}]]
    BY <1>3, <1>8, <2>2 DEF StoreTypeOK
  <2> QED
    BY <1>1, <1>2, <1>3, <2>5, <2>6, <2>7, <2>8 DEF StoreStep, StoreTypeOK, Keeps
<1> QED
  BY <1>1, <1>7, <1>8

-----------------------------------------------------------------------------
(* What a handler or a tick holds stays sound while others commit.         *)

Coherent(row, now) ==
  row.rowVersion <= now.rowVersion /\ (row.rowVersion = now.rowVersion => row = now)

(* The parts of IInv about one request and about one tick, of the case row *)
(* now, the tasks ts and the timers tm.                                    *)
RequestSound(r, now, ts) ==
  /\ r.pc \in {"values", "commit"} /\ r.op # "claim" => Coherent(r.row, now)
  /\ r.op \in {"claim", "decide"} => r.task \in TaskId /\ ts[r.task].status # "absent"
  /\ r.pc = "commit" /\ r.op \in {"submit", "resubmit", "decide"} => r.got \in Values
  /\ r.op = "patch" => r.row.status = "draft"
  /\ r.op \in {"resubmit", "cancel"} => r.version = r.row.version
  /\ r.op = "decide" /\ r.pc # "case" => r.version = r.row.version

TickSound(k, now, tm) ==
  /\ k.pc = "commit" => Coherent(k.row, now)
  /\ k.pc \in {"task", "case", "commit", "mark", "publish"} =>
       k.timer \in TimerId /\ tm[k.timer] # "absent"
  /\ \A m \in k.batch : tm[m] # "absent"

LEMMA InvariantParts ==
  IInv <=> /\ StoreTypeOK /\ TimersHaveTasks
           /\ req \in [Client -> Request] /\ sweep \in [Sweeper -> Tick]
           /\ \A c \in Client : RequestSound(req[c], caseRow, tasks)
           /\ \A s \in Sweeper : TickSound(sweep[s], caseRow, timers)
BY DEF IInv, TypeOK, RequestTypeOK, SweepTypeOK, SnapshotsAreCoherent, SeenBefore,
       RequestsAreGrounded, TicksAreGrounded, InHand, RequestSound, TickSound, Coherent

LEMMA CoherentLater ==
  ASSUME NEW row \in CaseRow, NEW now \in CaseRow, NEW later \in CaseRow,
         Coherent(row, now), later = now \/ later.rowVersion = now.rowVersion + 1
  PROVE  Coherent(row, later)
BY DEF Coherent, CaseRow

LEMMA RequestSoundLater ==
  ASSUME NEW r \in Request, NEW now \in CaseRow, NEW later \in CaseRow,
         later = now \/ later.rowVersion = now.rowVersion + 1,
         NEW ts, NEW us, Keeps(ts, us), RequestSound(r, now, ts)
  PROVE  RequestSound(r, later, us)
<1>1. r.row \in CaseRow
  BY DEF Request
<1> QED
  BY <1>1, CoherentLater DEF RequestSound, Keeps

LEMMA TickSoundLater ==
  ASSUME NEW k \in Tick, NEW now \in CaseRow, NEW later \in CaseRow,
         later = now \/ later.rowVersion = now.rowVersion + 1,
         NEW tm, NEW um, \A m \in TimerId : tm[m] # "absent" => um[m] # "absent",
         TickSound(k, now, tm)
  PROVE  TickSound(k, later, um)
<1>1. k.row \in CaseRow /\ k.batch \subseteq TimerId
  BY DEF Tick
<1> QED
  BY <1>1, CoherentLater DEF TickSound

LEMMA UnreadRowTyped ==
  [status |-> "draft", step |-> NoStep, version |-> 1, rowVersion |-> 0] \in CaseRow
BY StoreAssumption DEF CaseRow, CaseStatus, Version

LEMMA BlankSound ==
  /\ Blank \in Request
  /\ \A now, ts : RequestSound(Blank, now, ts)
<1>1. Blank \in Request
  BY UnreadRowTyped, PeopleAssumption, StoreAssumption
  DEF Blank, Request, Stage, Operation, Version, Decision
<1>2. Blank.op = "none" /\ Blank.pc = "idle"
  BY DEF Blank
<1> QED
  BY <1>1, <1>2 DEF RequestSound

LEMMA NoTickSound ==
  /\ NoTick \in Tick
  /\ \A now, tm : TickSound(NoTick, now, tm)
<1>1. NoTick \in Tick
  BY UnreadRowTyped, BoundsAssumption DEF NoTick, Tick, NoTimer, Level, EventType
<1>2. NoTick.pc = "idle" /\ NoTick.batch = {}
  BY DEF NoTick
<1> QED
  BY <1>1, <1>2 DEF TickSound

LEMMA InitialInvariant == Init => IInv
<1> SUFFICES ASSUME Init PROVE IInv
  OBVIOUS
<1>1. StoreTypeOK /\ TimersHaveTasks
  <2>1. caseRow \in CaseRow
    BY StoreAssumption DEF Init, StoreInit, CaseRow, CaseStatus, Version
  <2>2. tasks \in [TaskId -> TaskRow]
    BY AbsentTaskIsRow DEF Init, StoreInit
  <2>3. timers \in [TimerId -> TimerStatus] /\ TimersHaveTasks
    BY DEF Init, StoreInit, TimerStatus, TimersHaveTasks
  <2> QED
    BY <2>1, <2>2, <2>3, StoreAssumption DEF Init, StoreInit, StoreTypeOK, Version
<1> QED
  BY <1>1, InvariantParts, BlankSound, NoTickSound
  DEF Init, RequestInit, SweepInit

-----------------------------------------------------------------------------
(* Each step of a handler leaves the tables typed and itself sound.        *)

RequestTo(c, r) ==
  /\ req' = [req EXCEPT ![c] = r]
  /\ r \in Request
  /\ RequestSound(r, caseRow', tasks')

LEMMA FinishIsSound ==
  ASSUME NEW c \in Client, Finish(c)
  PROVE  \E r : RequestTo(c, r)
BY BlankSound DEF Finish, RequestTo

(* Reading the case into a blank request.                                  *)
LEMMA StartIsSound ==
  ASSUME StoreTypeOK, NEW c \in Client,
         NEW op \in {"patch", "submit", "resubmit", "cancel"},
         NEW pc \in {"values", "commit"}, NEW version \in Version,
         NEW put \in Values \cup {NoValues},
         op = "patch" => caseRow.status = "draft",
         op \in {"resubmit", "cancel"} => version = caseRow.version,
         op \in {"submit", "resubmit"} => pc = "values",
         StartCaseRequest(c, op, pc, version, put)
  PROVE  UNCHANGED store /\ \E r : RequestTo(c, r)
<1> DEFINE r == [Blank EXCEPT !.pc = pc, !.op = op, !.row = caseRow,
                              !.version = version, !.put = put]
<1>1. UNCHANGED store /\ req' = [req EXCEPT ![c] = r]
  BY DEF StartCaseRequest
<1>2. caseRow' = caseRow /\ tasks' = tasks /\ caseRow \in CaseRow
  BY <1>1 DEF store, StoreTypeOK
<1>3. r \in Request
  BY <1>2, BlankSound DEF Request, Stage, Operation
<1>4. /\ r.pc = pc /\ r.op = op /\ r.row = caseRow /\ r.version = version
  BY BlankSound DEF Request
<1> HIDE DEF r
<1>5. RequestSound(r, caseRow, tasks)
  BY <1>2, <1>4 DEF RequestSound, Coherent, CaseRow
<1> QED
  BY <1>1, <1>2, <1>3, <1>5 DEF RequestTo

LEMMA StartClaimIsSound ==
  ASSUME StoreTypeOK, NEW c \in Client, StartClaim(c)
  PROVE  UNCHANGED store /\ \E r : RequestTo(c, r)
<1>1. PICK t \in TaskId, u \in User :
        /\ tasks[t].status = "pending"
        /\ req' = [req EXCEPT ![c] =
                     [Blank EXCEPT !.pc = "commit", !.op = "claim", !.user = u,
                        !.task = t, !.taskVersion = tasks[t].rowVersion]]
        /\ UNCHANGED store
  BY DEF StartClaim
<1> DEFINE n == tasks[t].rowVersion
           r == [Blank EXCEPT !.pc = "commit", !.op = "claim", !.user = u,
                              !.task = t, !.taskVersion = n]
<1>2. n \in Nat
  BY <1>1, RowOfPresentTask DEF StoreTypeOK, PresentTask
<1> HIDE DEF n
<1>3. r \in Request
  BY <1>2, BlankSound DEF Request, Stage, Operation
<1>4. r.pc = "commit" /\ r.op = "claim" /\ r.task = t
  BY BlankSound DEF Request
<1>5. req' = [req EXCEPT ![c] = r]
  BY <1>1 DEF n
<1> HIDE DEF r
<1>6. RequestSound(r, caseRow', tasks')
  BY <1>1, <1>4 DEF RequestSound, store
<1> QED
  BY <1>1, <1>3, <1>5, <1>6 DEF RequestTo

LEMMA StartDecideIsSound ==
  ASSUME StoreTypeOK, NEW c \in Client, StartDecide(c)
  PROVE  UNCHANGED store /\ \E r : RequestTo(c, r)
<1>1. PICK t \in OpenTasks, body \in Bodies :
        /\ req' = [req EXCEPT ![c] =
                     [Blank EXCEPT !.pc = "case", !.op = "decide",
                        !.task = t, !.taskVersion = tasks[t].rowVersion,
                        !.decision = body.decision, !.comment = body.comment,
                        !.put = body.put]]
        /\ UNCHANGED store
  BY DEF StartDecide
<1> DEFINE n == tasks[t].rowVersion
           r == [Blank EXCEPT !.pc = "case", !.op = "decide",
                              !.task = t, !.taskVersion = n,
                              !.decision = body.decision,
                              !.comment = body.comment, !.put = body.put]
<1>2. t \in TaskId /\ tasks[t].status # "absent"
  BY DEF OpenTasks, OpenStatus
<1>3. n \in Nat
  BY <1>2, RowOfPresentTask DEF StoreTypeOK, PresentTask
<1>4. /\ body.decision \in Decision /\ body.comment \in BOOLEAN
      /\ body.put \in Values \cup {NoValues}
  BY ClientAssumption DEF Body
<1> HIDE DEF n
<1>5. r \in Request
  BY <1>2, <1>3, <1>4, BlankSound DEF Request, Stage, Operation
<1>6. r.pc = "case" /\ r.op = "decide" /\ r.task = t
  BY BlankSound DEF Request
<1>7. req' = [req EXCEPT ![c] = r]
  BY <1>1 DEF n
<1> HIDE DEF r
<1>8. RequestSound(r, caseRow', tasks')
  BY <1>1, <1>2, <1>6 DEF RequestSound, store
<1> QED
  BY <1>1, <1>5, <1>7, <1>8 DEF RequestTo

LEMMA ReadCaseIsSound ==
  ASSUME IInv, NEW c \in Client, ReadCase(c)
  PROVE  UNCHANGED store /\ \E r : RequestTo(c, r)
<1>1. /\ req[c] \in Request /\ RequestSound(req[c], caseRow, tasks)
      /\ caseRow \in CaseRow
  BY InvariantParts DEF StoreTypeOK
<1>2. UNCHANGED store /\ req[c].op = "decide"
  BY DEF ReadCase, At
<1>3. CASE Finish(c)
  BY <1>2, <1>3, FinishIsSound
<1> DEFINE r == [req[c] EXCEPT !.pc = "values", !.row = caseRow,
                               !.version = caseRow.version]
<1>4. CASE req' = [req EXCEPT ![c] = r]
  <2>1. r \in Request
    BY <1>1 DEF Request, Stage, CaseRow
  <2>2. /\ r.pc = "values" /\ r.op = "decide" /\ r.row = caseRow
        /\ r.version = caseRow.version /\ r.task = req[c].task
    BY <1>1, <1>2 DEF Request
  <2> HIDE DEF r
  <2>3. RequestSound(r, caseRow, tasks)
    BY <1>1, <1>2, <2>2 DEF RequestSound, Coherent, CaseRow
  <2> QED
    BY <1>2, <1>4, <2>1, <2>3 DEF RequestTo, store
<1> QED
  BY <1>1, <1>3, <1>4 DEF ReadCase

LEMMA ReadValuesIsSound ==
  ASSUME IInv, NEW c \in Client, ReadValues(c)
  PROVE  StoreStep /\ \E r : RequestTo(c, r)
<1>1. /\ req[c] \in Request /\ RequestSound(req[c], caseRow, tasks)
      /\ StoreTypeOK /\ TimersHaveTasks
  BY InvariantParts
<1>2. /\ req[c].pc = "values"
      /\ values' = IF req[c].put = NoValues THEN values ELSE req[c].put
      /\ UNCHANGED <<caseRow, tasks, timers, current, history>>
  BY DEF ReadValues
<1>3. values' \in Values
  BY <1>1, <1>2 DEF Request, StoreTypeOK
<1>4. StoreStep
  BY <1>1, <1>2, <1>3 DEF StoreStep, StoreTypeOK, TimersHaveTasks, history, Keeps
<1> DEFINE r == [req[c] EXCEPT !.pc = "commit", !.put = NoValues, !.got = values']
<1>5. req' = [req EXCEPT ![c] = r]
  BY DEF ReadValues
<1>6. r \in Request
  BY <1>1, <1>3 DEF Request, Stage
<1>7. /\ r.pc = "commit" /\ r.got = values' /\ r.op = req[c].op /\ r.row = req[c].row
      /\ r.task = req[c].task /\ r.version = req[c].version
  BY <1>1 DEF Request
<1> HIDE DEF r
<1>8. RequestSound(r, caseRow, tasks)
  BY <1>1, <1>2, <1>3, <1>7 DEF RequestSound
<1> QED
  BY <1>2, <1>4, <1>5, <1>6, <1>8 DEF RequestTo

LEMMA CommitPatchIsSound ==
  ASSUME IInv, NEW c \in Client, CommitPatch(c)
  PROVE  StoreStep /\ \E r : RequestTo(c, r)
<1>1. StoreTypeOK /\ TimersHaveTasks
  BY InvariantParts
<1>2. /\ caseRow' = [caseRow EXCEPT !.rowVersion = caseRow.rowVersion + 1]
      /\ UNCHANGED <<tasks, timers, values, current, history>>
      /\ Finish(c)
  BY DEF CommitPatch
<1>3. caseRow' \in CaseRow /\ caseRow'.rowVersion = caseRow.rowVersion + 1
  BY <1>1, <1>2 DEF StoreTypeOK, CaseRow
<1> QED
  BY <1>1, <1>2, <1>3, FinishIsSound
  DEF StoreStep, StoreTypeOK, TimersHaveTasks, history, Keeps

LEMMA CommitClaimIsSound ==
  ASSUME IInv, NEW c \in Client, CommitClaim(c)
  PROVE  StoreStep /\ \E r : RequestTo(c, r)
<1>1. /\ req[c] \in Request /\ RequestSound(req[c], caseRow, tasks)
      /\ StoreTypeOK /\ TimersHaveTasks
  BY InvariantParts
<1>2. /\ req[c].op = "claim" /\ Finish(c)
      /\ tasks' = ClaimCaseTask(tasks, req[c].task, req[c].user)
      /\ late' = ClaimedNow(req[c].task)
      /\ UNCHANGED <<caseRow, timers, values, current, born, visit>>
  BY DEF CommitClaim, At
<1>3. Keeps(tasks, tasks')
  BY <1>1, <1>2, ClaimKeeps DEF RequestSound, Request, StoreTypeOK
<1>4. TimersHaveTasks'
  BY <1>1, <1>2, <1>3 DEF Keeps, TimersHaveTasks, TimerId
<1> QED
  BY <1>1, <1>2, <1>3, <1>4, FinishIsSound
  DEF StoreStep, StoreTypeOK, ClaimedNow, Keeps, RequestSound

(* What the transactions that persist an engine output have in common: the *)
(* output is the engine's for the row, the values and the version in hand, *)
(* and that row is the stored one.                                         *)
EngineCommit(row, version, out) ==
  /\ row = caseRow /\ out \in Output
  /\ caseRow' = UpdatedCase(out, caseRow, version)

LEMMA CurrentRowIsRead ==
  ASSUME NEW row \in CaseRow, Coherent(row, caseRow), caseRow.rowVersion = row.rowVersion
  PROVE  row = caseRow
BY DEF Coherent

LEMMA CommitSubmitIsSound ==
  ASSUME IInv, NEW c \in Client, CommitSubmit(c)
  PROVE  /\ StoreStep /\ \E r : RequestTo(c, r)
         /\ \E who \in Directories : \E out \in SubmitOutputs(c, who) :
              EngineCommit(req[c].row, req[c].version, out)
<1>1. /\ req[c] \in Request /\ RequestSound(req[c], caseRow, tasks)
      /\ StoreTypeOK /\ TimersHaveTasks
  BY InvariantParts
<1>2. req[c].op = "submit" /\ req[c].pc = "commit" /\ Finish(c)
      /\ UNCHANGED <<values, current>>
  BY DEF CommitSubmit, At
<1>3a. PICK who \in Directories : \E out \in SubmitOutputs(c, who) :
         PersistEngineOutput(out, req[c].row, req[c].version, tasks, {}, 0)
  BY DEF CommitSubmit
<1>3. PICK out \in SubmitOutputs(c, who) :
        PersistEngineOutput(out, req[c].row, req[c].version, tasks, {}, 0)
  BY <1>3a
<1>4. out \in Output
  <2>1. IsContext(ContextOf(req[c].version, req[c].got, who))
    BY <1>1, <1>2, ContextOfIsContext DEF Request, RequestSound
  <2> QED
    BY <1>3, <2>1, CaseSubmittedTyped DEF SubmitOutputs
<1>5. Keeps(tasks, tasks) /\ values' \in Values
  BY <1>1, <1>2 DEF Keeps, StoreTypeOK
<1>6. /\ StoreStep /\ caseRow.rowVersion = req[c].row.rowVersion
      /\ caseRow' = UpdatedCase(out, req[c].row, req[c].version)
  BY <1>1, <1>2, <1>3, <1>4, <1>5, PersistKeeps DEF Request
<1>7. req[c].row = caseRow
  BY <1>1, <1>2, <1>6, CurrentRowIsRead DEF RequestSound, Request
<1> QED
  BY <1>2, <1>3, <1>4, <1>6, <1>7, FinishIsSound DEF EngineCommit

LEMMA CompletingKeeps ==
  ASSUME StoreTypeOK
  PROVE  Keeps(tasks, CompleteReturnedTask)
<1> DEFINE returned == First({t \in OpenTasks : tasks[t].step = ReturnedKey})
<1>1. ASSUME NEW t \in TaskId
      PROVE  /\ CompleteReturnedTask[t] \in TaskRow
             /\ tasks[t].status # "absent" => CompleteReturnedTask[t].status # "absent"
  <2>1. CASE t \in returned
    <3>1. tasks[t].status # "absent"
      BY <2>1, FirstIn DEF OpenTasks, OpenStatus
    <3>2. Keeps(tasks, RecordTaskDecision(tasks, t))
      BY <3>1, DecisionKeeps DEF StoreTypeOK
    <3>3. CompleteReturnedTask[t] = RecordTaskDecision(tasks, t)[t]
      BY <2>1 DEF CompleteReturnedTask
    <3> QED
      BY <3>2, <3>3 DEF Keeps
  <2>2. CASE t \notin returned
    BY <2>2 DEF CompleteReturnedTask, StoreTypeOK
  <2> QED
    BY <2>1, <2>2
<1> QED
  BY <1>1 DEF Keeps, CompleteReturnedTask

LEMMA CommitResubmitIsSound ==
  ASSUME IInv, NEW c \in Client, CommitResubmit(c)
  PROVE  /\ StoreStep /\ \E r : RequestTo(c, r)
         /\ req[c].version = caseRow.version
         /\ \E who \in Directories : \E out \in ResubmitOutputs(c, who) :
              EngineCommit(req[c].row, req[c].version, out)
<1>1. /\ req[c] \in Request /\ RequestSound(req[c], caseRow, tasks)
      /\ StoreTypeOK /\ TimersHaveTasks
  BY InvariantParts
<1>2. req[c].op = "resubmit" /\ req[c].pc = "commit" /\ Finish(c)
      /\ UNCHANGED <<values, current>>
  BY DEF CommitResubmit, At
<1>3a. PICK who \in Directories : \E out \in ResubmitOutputs(c, who) :
         PersistEngineOutput(out, req[c].row, req[c].version, CompleteReturnedTask, {}, 0)
  BY DEF CommitResubmit
<1>3. PICK out \in ResubmitOutputs(c, who) :
        PersistEngineOutput(out, req[c].row, req[c].version, CompleteReturnedTask, {}, 0)
  BY <1>3a
<1>4. out \in Output
  <2>1. IsContext(ContextOf(req[c].version, req[c].got, who))
    BY <1>1, <1>2, ContextOfIsContext DEF Request, RequestSound
  <2> QED
    BY <1>3, <2>1, CaseResubmittedTyped DEF ResubmitOutputs
<1>5. Keeps(tasks, CompleteReturnedTask) /\ values' \in Values
  BY <1>1, <1>2, CompletingKeeps DEF StoreTypeOK
<1>6. /\ StoreStep /\ caseRow.rowVersion = req[c].row.rowVersion
      /\ caseRow' = UpdatedCase(out, req[c].row, req[c].version)
  BY <1>1, <1>2, <1>3, <1>4, <1>5, PersistKeeps DEF Request
<1>7. req[c].row = caseRow
  BY <1>1, <1>2, <1>6, CurrentRowIsRead DEF RequestSound, Request
<1> QED
  BY <1>1, <1>2, <1>3, <1>4, <1>6, <1>7, FinishIsSound DEF EngineCommit, RequestSound

LEMMA CommitCancelIsSound ==
  ASSUME IInv, NEW c \in Client, CommitCancel(c)
  PROVE  /\ StoreStep /\ \E r : RequestTo(c, r)
         /\ req[c].version = caseRow.version
         /\ \E out \in CaseCancelled(req[c].row) :
              EngineCommit(req[c].row, req[c].version, out)
<1>1. /\ req[c] \in Request /\ RequestSound(req[c], caseRow, tasks)
      /\ StoreTypeOK /\ TimersHaveTasks
  BY InvariantParts
<1>2. req[c].op = "cancel" /\ req[c].pc = "commit" /\ Finish(c)
      /\ UNCHANGED <<values, current>>
  BY DEF CommitCancel, At
<1>3. PICK out \in CaseCancelled(req[c].row) :
        PersistEngineOutput(out, req[c].row, req[c].version, tasks, {}, 0)
  BY DEF CommitCancel
<1>4. out \in Output
  BY CaseCancelledTyped
<1>5. Keeps(tasks, tasks) /\ values' \in Values
  BY <1>1, <1>2 DEF Keeps, StoreTypeOK
<1>6. /\ StoreStep /\ caseRow.rowVersion = req[c].row.rowVersion
      /\ caseRow' = UpdatedCase(out, req[c].row, req[c].version)
  BY <1>1, <1>2, <1>3, <1>4, <1>5, PersistKeeps DEF Request
<1>7. req[c].row = caseRow
  BY <1>1, <1>2, <1>6, CurrentRowIsRead DEF RequestSound, Request
<1> QED
  BY <1>1, <1>2, <1>3, <1>4, <1>6, <1>7, FinishIsSound DEF EngineCommit, RequestSound

LEMMA CommitDecideIsSound ==
  ASSUME IInv, NEW c \in Client, CommitDecide(c)
  PROVE  /\ StoreStep /\ \E r : RequestTo(c, r)
         /\ req[c].version = caseRow.version
         /\ \E who \in Directories : \E out \in DecideOutputs(c, who) :
              EngineCommit(req[c].row, req[c].version, out)
<1>1. /\ req[c] \in Request /\ RequestSound(req[c], caseRow, tasks)
      /\ StoreTypeOK /\ TimersHaveTasks
  BY InvariantParts
<1>2. req[c].op = "decide" /\ req[c].pc = "commit" /\ Finish(c)
      /\ UNCHANGED <<values, current>>
  BY DEF CommitDecide, At
<1> DEFINE t == req[c].task
<1>3a. PICK who \in Directories : \E out \in DecideOutputs(c, who) :
         PersistEngineOutput(out, req[c].row, req[c].version,
                            RecordTaskDecision(tasks, t), {t}, 0)
  BY DEF CommitDecide
<1>3. PICK out \in DecideOutputs(c, who) :
        PersistEngineOutput(out, req[c].row, req[c].version,
                            RecordTaskDecision(tasks, t), {t}, 0)
  BY <1>3a
<1>4. out \in Output
  <2>1. IsContext(ContextOf(req[c].version, req[c].got, who))
    BY <1>1, <1>2, ContextOfIsContext DEF Request, RequestSound
  <2>2. req[c].decision \in Decision /\ req[c].comment \in BOOLEAN
    BY <1>1 DEF Request
  <2> QED
    BY <1>3, <2>1, <2>2, TaskDecidedTyped DEF DecideOutputs
<1>5. Keeps(tasks, RecordTaskDecision(tasks, t)) /\ values' \in Values
  BY <1>1, <1>2, DecisionKeeps DEF StoreTypeOK, RequestSound
<1>6. /\ StoreStep /\ caseRow.rowVersion = req[c].row.rowVersion
      /\ caseRow' = UpdatedCase(out, req[c].row, req[c].version)
  BY <1>1, <1>2, <1>3, <1>4, <1>5, PersistKeeps DEF Request
<1>7. req[c].row = caseRow
  BY <1>1, <1>2, <1>6, CurrentRowIsRead DEF RequestSound, Request
<1> QED
  BY <1>1, <1>2, <1>3, <1>4, <1>6, <1>7, FinishIsSound DEF EngineCommit, RequestSound

LEMMA RequestStepIsSound ==
  ASSUME IInv, NEW c \in Client, RequestStep(c)
  PROVE  StoreStep /\ \E r : RequestTo(c, r)
<1> USE InvariantParts, StoreUnchanged
<1>1. CASE StartPatch(c)
  BY <1>1, StartIsSound DEF StartPatch, StoreTypeOK, CaseRow
<1>2. CASE StartSubmit(c)
  BY <1>2, StartIsSound DEF StartSubmit, StoreTypeOK, CaseRow
<1>3. CASE StartResubmit(c)
  BY <1>3, StartIsSound DEF StartResubmit, StoreTypeOK, CaseRow
<1>4. CASE StartCancel(c)
  BY <1>4, StartIsSound DEF StartCancel, StoreTypeOK, CaseRow
<1>5. CASE StartClaim(c)
  BY <1>5, StartClaimIsSound
<1>6. CASE StartDecide(c)
  BY <1>6, StartDecideIsSound
<1>7. CASE ReadCase(c)
  BY <1>7, ReadCaseIsSound
<1>8. CASE ReadValues(c)
  BY <1>8, ReadValuesIsSound
<1>9. CASE CommitPatch(c)
  BY <1>9, CommitPatchIsSound
<1>10. CASE CommitSubmit(c)
  BY <1>10, CommitSubmitIsSound
<1>11. CASE CommitResubmit(c)
  BY <1>11, CommitResubmitIsSound
<1>12. CASE CommitCancel(c)
  BY <1>12, CommitCancelIsSound
<1>13. CASE CommitClaim(c)
  BY <1>13, CommitClaimIsSound
<1>14. CASE CommitDecide(c)
  BY <1>14, CommitDecideIsSound
<1>15. CASE Refuse(c) \/ RollBack(c)
  BY <1>15, FinishIsSound DEF Refuse, RollBack
<1> QED
  BY <1>1, <1>2, <1>3, <1>4, <1>5, <1>6, <1>7, <1>8, <1>9, <1>10, <1>11, <1>12,
     <1>13, <1>14, <1>15 DEF RequestStep

-----------------------------------------------------------------------------
(* Each step of a tick does too.                                           *)

TickTo(s, k) ==
  /\ sweep' = [sweep EXCEPT ![s] = k]
  /\ k \in Tick
  /\ TickSound(k, caseRow', timers')

(* The next timer of the batch, once the tables are as they will be.       *)
LEMMA NextTimerIsSound ==
  ASSUME IInv, StoreStep, NEW s \in Sweeper, NextTimer(s)
  PROVE  \E k : TickTo(s, k)
<1>1. sweep[s] \in Tick /\ TickSound(sweep[s], caseRow, timers)
  BY InvariantParts
<1> DEFINE pc == IF sweep[s].batch = {} THEN "idle" ELSE "next"
           k == [NoTick EXCEPT !.pc = pc, !.batch = sweep[s].batch]
<1>2. sweep' = [sweep EXCEPT ![s] = k]
  BY DEF NextTimer
<1>3. pc \in {"idle", "next"}
  OBVIOUS
<1> HIDE DEF pc
<1>4. k \in Tick /\ k.pc = pc /\ k.batch = sweep[s].batch
  BY <1>1, <1>3, NoTickSound DEF Tick
<1> HIDE DEF k
<1>5. sweep[s].batch \subseteq TimerId
  BY <1>1 DEF Tick
<1>6. TickSound(k, caseRow', timers')
  BY <1>1, <1>3, <1>4, <1>5 DEF TickSound, StoreStep
<1> QED
  BY <1>2, <1>4, <1>6 DEF TickTo

LEMMA ProcessedIsSound ==
  ASSUME IInv, StoreStep, NEW s \in Sweeper, InHand(s),
         NEW event \in EventType \cup {"task.reminderDue"}, Processed(s, event)
  PROVE  \E k : TickTo(s, k)
<1>1. sweep[s] \in Tick /\ TickSound(sweep[s], caseRow, timers)
  BY InvariantParts
<1> DEFINE k == [NoTick EXCEPT !.pc = "mark", !.event = event,
                               !.batch = sweep[s].batch, !.timer = sweep[s].timer]
<1>2. sweep' = [sweep EXCEPT ![s] = k]
  BY DEF Processed
<1>3. /\ k \in Tick /\ k.pc = "mark" /\ k.batch = sweep[s].batch
      /\ k.timer = sweep[s].timer
  BY <1>1, NoTickSound DEF Tick
<1> HIDE DEF k
<1>4. sweep[s].batch \subseteq TimerId
  BY <1>1 DEF Tick
<1>5. TickSound(k, caseRow', timers')
  BY <1>1, <1>3, <1>4 DEF TickSound, StoreStep, InHand
<1> QED
  BY <1>2, <1>3, <1>5 DEF TickTo

LEMMA StartTickIsSound ==
  ASSUME NEW s \in Sweeper, StartTick(s)
  PROVE  UNCHANGED store /\ \E k : TickTo(s, k)
<1> DEFINE due == {m \in TimerId : timers[m] = "due"}
           k == [NoTick EXCEPT !.pc = "next", !.batch = due]
<1>1. sweep' = [sweep EXCEPT ![s] = k] /\ UNCHANGED store
  BY DEF StartTick
<1>2. due \subseteq TimerId /\ \A m \in due : timers[m] # "absent"
  OBVIOUS
<1> HIDE DEF due
<1>3. k \in Tick /\ k.pc = "next" /\ k.batch = due
  BY <1>2, NoTickSound DEF Tick
<1> HIDE DEF k
<1>4. TickSound(k, caseRow', timers')
  BY <1>1, <1>2, <1>3 DEF TickSound, store
<1> QED
  BY <1>1, <1>3, <1>4 DEF TickTo

LEMMA TakeTimerIsSound ==
  ASSUME IInv, NEW s \in Sweeper, TakeTimer(s)
  PROVE  UNCHANGED store /\ \E k : TickTo(s, k)
<1>1. sweep[s] \in Tick /\ TickSound(sweep[s], caseRow, timers)
  BY InvariantParts
<1>2. PICK m \in sweep[s].batch :
        sweep' = [sweep EXCEPT ![s] = [NoTick EXCEPT !.pc = "task", !.timer = m,
                                         !.batch = sweep[s].batch \ {m}]]
  BY DEF TakeTimer
<1> DEFINE rest == sweep[s].batch \ {m}
           k == [NoTick EXCEPT !.pc = "task", !.timer = m, !.batch = rest]
<1>3. /\ rest \subseteq TimerId /\ m \in TimerId /\ timers[m] # "absent"
      /\ \A n \in rest : timers[n] # "absent"
  BY <1>1 DEF Tick, TickSound
<1>4. sweep' = [sweep EXCEPT ![s] = k]
  BY <1>2
<1> HIDE DEF rest
<1>5. k \in Tick /\ k.pc = "task" /\ k.batch = rest /\ k.timer = m
  BY <1>3, NoTickSound DEF Tick
<1> HIDE DEF k
<1>6. UNCHANGED store
  BY DEF TakeTimer
<1>7. TickSound(k, caseRow', timers')
  BY <1>3, <1>5, <1>6 DEF TickSound, store
<1> QED
  BY <1>4, <1>5, <1>6, <1>7 DEF TickTo

LEMMA ReadTaskIsSound ==
  ASSUME IInv, NEW s \in Sweeper, ReadTask(s)
  PROVE  UNCHANGED store /\ \E k : TickTo(s, k)
<1>1. /\ sweep[s] \in Tick /\ TickSound(sweep[s], caseRow, timers)
      /\ StoreTypeOK /\ TimersHaveTasks
  BY InvariantParts
<1>2. sweep[s].pc = "task" /\ UNCHANGED store /\ InHand(s)
  BY DEF ReadTask, Doing, InHand
<1>3. StoreStep
  BY <1>1, <1>2, StoreUnchanged
<1>4. CASE Processed(s, "none") \/ Processed(s, "task.reminderDue")
  BY <1>2, <1>3, <1>4, ProcessedIsSound DEF EventType
<1> DEFINE level == tasks[TaskOf(s)].level
           k == [sweep[s] EXCEPT !.pc = "case", !.level = level]
<1>5. CASE tasks[TaskOf(s)].status = "pending" /\ sweep' = [sweep EXCEPT ![s] = k]
  <2>1. TaskOf(s) \in TaskId
    BY <1>1, <1>2 DEF TickSound, TaskOf, TimerId
  <2>2. level \in Level
    BY <1>1, <1>5, <2>1, RowOfPresentTask DEF StoreTypeOK, PresentTask
  <2> HIDE DEF level
  <2>3. /\ k \in Tick /\ k.pc = "case" /\ k.batch = sweep[s].batch
        /\ k.timer = sweep[s].timer
    BY <1>1, <2>2 DEF Tick
  <2> HIDE DEF k
  <2>4. TickSound(k, caseRow', timers')
    BY <1>1, <1>2, <2>3 DEF TickSound, store
  <2> QED
    BY <1>2, <1>5, <2>3, <2>4 DEF TickTo
<1> QED
  BY <1>4, <1>5 DEF ReadTask

LEMMA ReadEscalatedCaseIsSound ==
  ASSUME IInv, NEW s \in Sweeper, ReadEscalatedCase(s)
  PROVE  UNCHANGED store /\ \E k : TickTo(s, k)
<1>1. /\ sweep[s] \in Tick /\ TickSound(sweep[s], caseRow, timers)
      /\ StoreTypeOK /\ TimersHaveTasks
  BY InvariantParts
<1>2. sweep[s].pc = "case" /\ UNCHANGED store /\ InHand(s)
  BY DEF ReadEscalatedCase, Doing, InHand
<1>3. StoreStep
  BY <1>1, <1>2, StoreUnchanged
<1>4. CASE Processed(s, "none")
  BY <1>2, <1>3, <1>4, ProcessedIsSound DEF EventType
<1> DEFINE k == [sweep[s] EXCEPT !.pc = "commit", !.row = caseRow]
<1>5. CASE sweep' = [sweep EXCEPT ![s] = k]
  <2>1. caseRow \in CaseRow
    BY <1>1 DEF StoreTypeOK
  <2>2. /\ k \in Tick /\ k.pc = "commit" /\ k.batch = sweep[s].batch
        /\ k.timer = sweep[s].timer /\ k.row = caseRow
    BY <1>1, <2>1 DEF Tick
  <2> HIDE DEF k
  <2>3. TickSound(k, caseRow', timers')
    BY <1>1, <1>2, <2>1, <2>2 DEF TickSound, store, Coherent, CaseRow
  <2> QED
    BY <1>2, <1>5, <2>2, <2>3 DEF TickTo
<1> QED
  BY <1>4, <1>5 DEF ReadEscalatedCase

LEMMA CommitEscalationIsSound ==
  ASSUME IInv, NEW s \in Sweeper, CommitEscalation(s)
  PROVE  /\ StoreStep /\ \E k : TickTo(s, k)
         /\ \E who \in Directories : \E out \in EscalationOutputs(s, who) :
              EngineCommit(sweep[s].row, sweep[s].row.version, out)
<1>1. /\ sweep[s] \in Tick /\ TickSound(sweep[s], caseRow, timers)
      /\ StoreTypeOK /\ TimersHaveTasks
  BY InvariantParts
<1>2. sweep[s].pc = "commit" /\ InHand(s) /\ UNCHANGED <<values, current>>
  BY DEF CommitEscalation, Doing, InHand
<1>3. PICK who \in Directories : \E out \in EscalationOutputs(s, who) :
        /\ PersistEngineOutput(out, sweep[s].row, sweep[s].row.version, tasks,
                               {}, TaskOf(s))
        /\ Processed(s, out.event)
  BY DEF CommitEscalation
<1>4. PICK out \in EscalationOutputs(s, who) :
        /\ PersistEngineOutput(out, sweep[s].row, sweep[s].row.version, tasks,
                               {}, TaskOf(s))
        /\ Processed(s, out.event)
  BY <1>3
<1>5. /\ sweep[s].row \in CaseRow /\ sweep[s].level \in Level
      /\ sweep[s].row.version \in Version /\ sweep[s].row.status \in CaseStatus
  BY <1>1 DEF Tick, CaseRow
<1>6. out \in Output
  <2>1. IsContext(ContextOf(sweep[s].row.version, values, who))
    BY <1>1, <1>5, ContextOfIsContext DEF StoreTypeOK
  <2> QED
    BY <1>4, <1>5, <2>1, EscalationTriggeredTyped DEF EscalationOutputs
<1>7. TaskOf(s) \in TaskId /\ tasks[TaskOf(s)].status # "absent"
  BY <1>1, <1>2 DEF TickSound, TaskOf, TimerId, TimersHaveTasks
<1>8. Keeps(tasks, tasks) /\ values' \in Values
  BY <1>1, <1>2 DEF Keeps, StoreTypeOK
<1>9. /\ StoreStep /\ caseRow.rowVersion = sweep[s].row.rowVersion
      /\ caseRow' = UpdatedCase(out, sweep[s].row, sweep[s].row.version)
  BY <1>1, <1>2, <1>4, <1>5, <1>6, <1>7, <1>8, PersistKeeps
<1>10. sweep[s].row = caseRow
  BY <1>1, <1>2, <1>5, <1>9, CurrentRowIsRead DEF TickSound
<1>11. \E k : TickTo(s, k)
  BY <1>2, <1>4, <1>6, <1>9, ProcessedIsSound DEF Output
<1> QED
  BY <1>4, <1>6, <1>9, <1>10, <1>11 DEF EngineCommit

LEMMA MarkFiredIsSound ==
  ASSUME IInv, NEW s \in Sweeper, MarkFired(s)
  PROVE  StoreStep /\ \E k : TickTo(s, k)
<1>1. /\ sweep[s] \in Tick /\ TickSound(sweep[s], caseRow, timers)
      /\ StoreTypeOK /\ TimersHaveTasks
  BY InvariantParts
<1>2. /\ sweep[s].pc = "mark" /\ InHand(s)
      /\ timers' = MarkTimerFired(timers, sweep[s].timer)
      /\ UNCHANGED <<caseRow, tasks, values, current, history>>
  BY DEF MarkFired, Doing, InHand
<1>3. sweep[s].timer \in TimerId
  BY <1>1, <1>2 DEF TickSound
<1>4. /\ timers' \in [TimerId -> TimerStatus]
      /\ \A m \in TimerId : timers'[m] = "absent" <=> timers[m] = "absent"
  BY <1>1, <1>2, <1>3 DEF StoreTypeOK, MarkTimerFired, StillScheduled, TimerStatus
<1>5. StoreStep
  BY <1>1, <1>2, <1>4 DEF StoreStep, StoreTypeOK, TimersHaveTasks, history, Keeps
<1>6. CASE NextTimer(s)
  BY <1>5, <1>6, NextTimerIsSound
<1> DEFINE k == [sweep[s] EXCEPT !.pc = "publish"]
<1>7. CASE sweep' = [sweep EXCEPT ![s] = k]
  <2>1. /\ k \in Tick /\ k.pc = "publish" /\ k.batch = sweep[s].batch
        /\ k.timer = sweep[s].timer
    BY <1>1 DEF Tick
  <2> HIDE DEF k
  <2>2. sweep[s].batch \subseteq TimerId
    BY <1>1 DEF Tick
  <2>3. TickSound(k, caseRow', timers')
    BY <1>1, <1>2, <1>3, <1>4, <2>1, <2>2 DEF TickSound
  <2> QED
    BY <1>5, <1>7, <2>1, <2>3 DEF TickTo
<1>8. NextTimer(s) \/ sweep' = [sweep EXCEPT ![s] = k]
  BY DEF MarkFired
<1> HIDE DEF k
<1> QED
  BY <1>5, <1>6, <1>7, <1>8

LEMMA SweepStepIsSound ==
  ASSUME IInv, NEW s \in Sweeper, SweepStep(s) \/ ProcessDies(s)
  PROVE  StoreStep /\ \E k : TickTo(s, k)
<1>0. StoreTypeOK /\ TimersHaveTasks
  BY InvariantParts
<1>1. CASE StartTick(s)
  BY <1>0, <1>1, StartTickIsSound, StoreUnchanged
<1>2. CASE TakeTimer(s)
  BY <1>0, <1>2, TakeTimerIsSound, StoreUnchanged
<1>3. CASE ReadTask(s)
  BY <1>0, <1>3, ReadTaskIsSound, StoreUnchanged
<1>4. CASE ReadEscalatedCase(s)
  BY <1>0, <1>4, ReadEscalatedCaseIsSound, StoreUnchanged
<1>5. CASE CommitEscalation(s)
  BY <1>5, CommitEscalationIsSound
<1>6. CASE MarkFired(s)
  BY <1>6, MarkFiredIsSound
<1>7. CASE PublishTimerEvent(s) \/ ProcessTimerThrows(s)
  BY <1>0, <1>7, NextTimerIsSound, StoreUnchanged DEF PublishTimerEvent, ProcessTimerThrows
<1>8. CASE ProcessDies(s)
  <2>1. sweep' = [sweep EXCEPT ![s] = NoTick] /\ UNCHANGED store
    BY <1>8 DEF ProcessDies
  <2>2. TickTo(s, NoTick)
    BY <2>1, NoTickSound DEF TickTo
  <2> QED
    BY <1>0, <2>1, <2>2, StoreUnchanged
<1> QED
  BY <1>1, <1>2, <1>3, <1>4, <1>5, <1>6, <1>7, <1>8 DEF SweepStep

-----------------------------------------------------------------------------
(* IInv is inductive.                                                      *)

LEMMA NextKeepsInvariant == IInv /\ [Next]_vars => IInv'
<1> SUFFICES ASSUME IInv, [Next]_vars PROVE IInv'
  OBVIOUS
<1>1. /\ StoreTypeOK /\ TimersHaveTasks /\ caseRow \in CaseRow
      /\ req \in [Client -> Request] /\ sweep \in [Sweeper -> Tick]
      /\ \A c \in Client : RequestSound(req[c], caseRow, tasks)
      /\ \A s \in Sweeper : TickSound(sweep[s], caseRow, timers)
  BY InvariantParts DEF StoreTypeOK
<1> DEFINE RequestsLater == /\ req' \in [Client -> Request]
                            /\ \A c \in Client : RequestSound(req'[c], caseRow', tasks')
           TicksLater == /\ sweep' \in [Sweeper -> Tick]
                         /\ \A s \in Sweeper : TickSound(sweep'[s], caseRow', timers')
<1>2. ASSUME StoreStep, RequestsLater, TicksLater PROVE IInv'
  BY <1>2, InvariantParts
  DEF StoreStep, IInv, TypeOK, RequestTypeOK, SweepTypeOK, SnapshotsAreCoherent,
      SeenBefore, RequestsAreGrounded, TicksAreGrounded, InHand, RequestSound,
      TickSound, Coherent
<1>3. ASSUME StoreStep, NEW c \in Client
      PROVE  RequestSound(req[c], caseRow', tasks')
  BY <1>1, <1>3, RequestSoundLater DEF StoreStep, StoreTypeOK
<1>4. ASSUME StoreStep, NEW s \in Sweeper
      PROVE  TickSound(sweep[s], caseRow', timers')
  BY <1>1, <1>4, TickSoundLater DEF StoreStep, StoreTypeOK
<1>5. ASSUME NEW c \in Client, RequestStep(c), UNCHANGED sweep PROVE IInv'
  <2>1. PICK r : StoreStep /\ RequestTo(c, r)
    BY <1>5, RequestStepIsSound
  <2>2. RequestsLater
    BY <1>1, <1>3, <2>1 DEF RequestTo
  <2>3. TicksLater
    BY <1>1, <1>4, <1>5, <2>1
  <2> QED
    BY <1>2, <2>1, <2>2, <2>3
<1>6. ASSUME NEW s \in Sweeper, SweepStep(s) \/ ProcessDies(s), UNCHANGED req
      PROVE  IInv'
  <2>1. PICK k : StoreStep /\ TickTo(s, k)
    BY <1>6, SweepStepIsSound
  <2>2. TicksLater
    BY <1>1, <1>4, <2>1 DEF TickTo
  <2>3. RequestsLater
    BY <1>1, <1>3, <1>6, <2>1
  <2> QED
    BY <1>2, <2>1, <2>2, <2>3
<1>7. ASSUME StoreStep, UNCHANGED <<req, sweep>> PROVE IInv'
  <2>1. RequestsLater /\ TicksLater
    BY <1>1, <1>3, <1>4, <1>7
  <2> QED
    BY <1>2, <1>7, <2>1
<1>8. CASE \E m \in TimerId : FallDue(m) /\ UNCHANGED <<req, sweep>>
  <2>1. PICK m \in TimerId : FallDue(m) /\ UNCHANGED <<req, sweep>>
    BY <1>8
  <2>2. /\ timers' \in [TimerId -> TimerStatus]
        /\ \A n \in TimerId : timers'[n] = "absent" <=> timers[n] = "absent"
    BY <1>1, <2>1 DEF FallDue, StoreTypeOK, TimerStatus
  <2>3. StoreStep
    BY <1>1, <2>1, <2>2
    DEF FallDue, StoreStep, StoreTypeOK, TimersHaveTasks, history, Keeps
  <2> QED
    BY <1>7, <2>1, <2>3
<1>9. CASE PublishVersion /\ UNCHANGED <<req, sweep>>
  <2>1. current' \in Version
    BY <1>9 DEF PublishVersion
  <2>2. StoreStep
    BY <1>1, <1>9, <2>1
    DEF PublishVersion, StoreStep, StoreTypeOK, TimersHaveTasks, history, Keeps
  <2> QED
    BY <1>7, <1>9, <2>2
<1>10. CASE UNCHANGED vars
  <2>1. UNCHANGED store /\ UNCHANGED <<req, sweep>>
    BY <1>10 DEF vars
  <2> QED
    BY <1>1, <1>7, <2>1, StoreUnchanged
<1> QED
  BY <1>5, <1>6, <1>8, <1>9, <1>10 DEF Next

(* IInv holds throughout.                                                  *)
THEOREM Invariance == Spec => []IInv
<1>1. Init => IInv
  BY InitialInvariant
<1>2. IInv /\ [Next]_vars => IInv'
  BY NextKeepsInvariant
<1> QED
  BY <1>1, <1>2, PTL DEF Spec

(* The tables, what the handlers hold and what the ticks hold are typed:   *)
(* the engine only ever produces tasks with an assignee, at a key of the   *)
(* document and a level its escalation rules have, and no handler runs it  *)
(* on values or a version it has not read.                                 *)
THEOREM TypeCorrect == Spec => []TypeOK
<1>1. IInv => TypeOK
  BY DEF IInv
<1> QED
  BY <1>1, Invariance, PTL

(* Optimistic concurrency: a case row a handler or a tick holds is never   *)
(* newer than the stored one, and with the stored row_version it is the    *)
(* stored row, so a commit whose comparison succeeds acts on fresh data.   *)
THEOREM SnapshotsCoherent == Spec => []SnapshotsAreCoherent
<1>1. IInv => SnapshotsAreCoherent
  BY DEF IInv
<1> QED
  BY <1>1, Invariance, PTL

-----------------------------------------------------------------------------
(* What a step may never do to the case.                                   *)

(* The only steps that write the case row: a draft is patched, or an       *)
(* engine output for the stored row is persisted.                          *)
LEMMA WritersOfTheCase ==
  ASSUME IInv, [Next]_vars, caseRow' # caseRow
  PROVE  \/ caseRow.status = "draft"
         \/ /\ ~IsTerminal(caseRow)
            /\ caseRow'.version = caseRow.version
<1>1. ASSUME NEW c \in Client, RequestStep(c)
      PROVE  \/ caseRow.status = "draft"
             \/ ~IsTerminal(caseRow) /\ caseRow'.version = caseRow.version
  <2>1. CASE CommitPatch(c)
    <3>1. req[c] \in Request /\ RequestSound(req[c], caseRow, tasks)
      BY InvariantParts
    <3>2. req[c].row = caseRow /\ req[c].op = "patch"
      BY <2>1, <3>1, CurrentRowIsRead DEF CommitPatch, At, RowIsCurrent, RequestSound, Request
    <3> QED
      BY <3>1, <3>2 DEF RequestSound
  <2>2. CASE CommitSubmit(c)
    <3>1. PICK who \in Directories : \E out \in SubmitOutputs(c, who) :
            EngineCommit(req[c].row, req[c].version, out)
      BY <2>2, CommitSubmitIsSound
    <3> QED
      BY <3>1 DEF EngineCommit, SubmitOutputs, CaseSubmitted
  <2>3. CASE CommitResubmit(c)
    <3>1. PICK who \in Directories : \E out \in ResubmitOutputs(c, who) :
            EngineCommit(req[c].row, req[c].version, out)
      BY <2>3, CommitResubmitIsSound
    <3>2. req[c].version = caseRow.version
      BY <2>3, CommitResubmitIsSound
    <3> QED
      BY <3>1, <3>2 DEF EngineCommit, ResubmitOutputs, CaseResubmitted, UpdatedCase,
                        IsTerminal, TerminalStatus
  <2>4. CASE CommitCancel(c)
    <3>1. /\ req[c].version = caseRow.version
          /\ \E out \in CaseCancelled(req[c].row) :
               EngineCommit(req[c].row, req[c].version, out)
      BY <2>4, CommitCancelIsSound
    <3> QED
      BY <3>1 DEF EngineCommit, CaseCancelled, UpdatedCase, IsTerminal
  <2>5. CASE CommitDecide(c)
    <3>1. PICK who \in Directories : \E out \in DecideOutputs(c, who) :
            EngineCommit(req[c].row, req[c].version, out)
      BY <2>5, CommitDecideIsSound
    <3>2. req[c].version = caseRow.version
      BY <2>5, CommitDecideIsSound
    <3> QED
      BY <3>1, <3>2 DEF EngineCommit, DecideOutputs, TaskDecided, DecisionAccepted,
                        UpdatedCase, IsTerminal
  <2>6. CASE \/ StartPatch(c) \/ StartSubmit(c) \/ StartResubmit(c) \/ StartCancel(c)
             \/ StartClaim(c) \/ StartDecide(c) \/ ReadCase(c) \/ ReadValues(c)
             \/ CommitClaim(c) \/ Refuse(c) \/ RollBack(c)
    <3>1. caseRow' = caseRow
      BY <2>6 DEF StartPatch, StartSubmit, StartResubmit, StartCancel, StartClaim,
                  StartDecide, StartCaseRequest, ReadCase, ReadValues, CommitClaim,
                  Refuse, RollBack, store
    <3> QED
      BY <3>1
  <2> QED
    BY <1>1, <2>1, <2>2, <2>3, <2>4, <2>5, <2>6 DEF RequestStep
<1>2. ASSUME NEW s \in Sweeper, SweepStep(s) \/ ProcessDies(s)
      PROVE  ~IsTerminal(caseRow) /\ caseRow'.version = caseRow.version
  <2>1. CASE CommitEscalation(s)
    <3>1. PICK who \in Directories : \E out \in EscalationOutputs(s, who) :
            EngineCommit(sweep[s].row, sweep[s].row.version, out)
      BY <2>1, CommitEscalationIsSound
    <3>2. EscalationOutputs(s, who) # {} => sweep[s].row.status \notin TerminalStatus
      BY DEF EscalationOutputs, EscalationTriggered
    <3>3. sweep[s].row = caseRow /\ caseRow'.version = sweep[s].row.version
      BY <3>1 DEF EngineCommit, UpdatedCase
    <3> QED
      BY <3>1, <3>2, <3>3 DEF IsTerminal
  <2>2. CASE \/ StartTick(s) \/ TakeTimer(s) \/ ReadTask(s) \/ ReadEscalatedCase(s)
             \/ MarkFired(s) \/ PublishTimerEvent(s) \/ ProcessTimerThrows(s)
             \/ ProcessDies(s)
    <3>1. caseRow' = caseRow
      BY <2>2 DEF StartTick, TakeTimer, ReadTask, ReadEscalatedCase, MarkFired,
                  PublishTimerEvent, ProcessTimerThrows, ProcessDies, store
    <3> QED
      BY <3>1
  <2> QED
    BY <1>2, <2>1, <2>2 DEF SweepStep
<1>3. CASE \/ \E m \in TimerId : FallDue(m)
           \/ PublishVersion
           \/ UNCHANGED vars
  BY <1>3 DEF FallDue, PublishVersion, vars, store
<1> QED
  BY <1>1, <1>2, <1>3 DEF Next

(* Nothing that read a case before it ended changes its row afterwards: a  *)
(* decision, a resubmission, a cancellation, a patch or an escalation      *)
(* either finds another row_version or is refused by the engine.           *)
THEOREM EndedCasesStay == Spec => TerminalIsFinal
<1>1. IInv /\ [Next]_vars => [IsTerminal(caseRow) => caseRow' = caseRow]_caseRow
  BY WritersOfTheCase DEF IsTerminal, TerminalStatus
<1> QED
  BY <1>1, Invariance, PTL DEF Spec, TerminalIsFinal

(* Only the transaction that submits a draft writes version_id; whatever   *)
(* is published later, the case is decided by the version it was           *)
(* submitted with.                                                         *)
THEOREM SubmittedCasesArePinned == Spec => PinNeverChanges
<1>1. IInv /\ [Next]_vars =>
        [caseRow.status # "draft" => caseRow'.version = caseRow.version]_caseRow
  BY WritersOfTheCase
<1> QED
  BY <1>1, Invariance, PTL DEF Spec, PinNeverChanges
=============================================================================
