---------------------------- MODULE WorkflowEngine ----------------------------
(***************************************************************************)
(* The workflow engine of packages/core/src/engine: a pure function from   *)
(* the state of a case, its pinned definition document, its values and one *)
(* event to what has to happen.                                            *)
(*                                                                         *)
(* The engine answers with one output or refuses.  An operator below       *)
(* returns the SET of outputs the code may return for an input: a          *)
(* singleton, or {} for a refusal (EngineError entries and no case         *)
(* update).  Condition evaluation is reduced to the set of conditions that *)
(* hold for the case values, and assignment resolution to a function from  *)
(* strategies to the person or pool they resolve to.                       *)
(***************************************************************************)
EXTENDS Integers, Sequences

CONSTANTS
  StepKey,            \* keys a transition may name besides the reserved ones
  User, Pool,         \* people; roles and groups whose members may claim
  Submitter,          \* the requester of the case
  Strategy,           \* assignment strategies the documents use
  Condition,          \* conditions the transition rules test
  Nobody, Always,     \* unresolved assignment; the default rule (when: null)
  MaxLevel,           \* bound on the escalation rules of a step
  MaxAutomaticSteps   \* MAX_AUTOMATIC_STEPS, 20 in the code

TerminalKey == {"$completed", "$rejected", "$cancelled"}
ReturnedKey == "$returnedToRequester"
NoStep      == "null"
Key         == StepKey \cup TerminalKey \cup {ReturnedKey}

ASSUME KeysAssumption ==
  /\ NoStep \notin Key
  /\ StepKey \cap (TerminalKey \cup {ReturnedKey}) = {}

ASSUME PeopleAssumption ==
  /\ Submitter \in User
  /\ Nobody \notin User \cup Pool
  /\ User \cap Pool = {}

ASSUME BoundsAssumption == MaxLevel \in Nat /\ MaxAutomaticSteps \in Nat \ {0}

Decision       == {"approve", "reject", "return", "complete"}
StepType       == {"approval", "action", "acknowledgement", "automatic"}
TerminalStatus == {"completed", "rejected", "cancelled"}
CaseStatus     == {"draft", "active", "unassigned"} \cup TerminalStatus
Assignee       == User \cup Pool
Level          == 0 .. MaxLevel

Rule == [when : Condition \cup {Always}, to : Key]

(* sla.due says the step has a deadline (computeDueAt is not null), the    *)
(* escalation rules are listed in order and name a strategy each.          *)
Step ==
  [type : StepType, assignment : Strategy, allowSelfApproval : BOOLEAN,
   allowedDecisions : SUBSET Decision, requireCommentOn : SUBSET Decision,
   transitions : [Decision -> Seq(Rule)],
   due : BOOLEAN, reminder : BOOLEAN, escalation : Seq(Strategy)]

(* What the engine reads besides the case row: the pinned document, the    *)
(* conditions that hold for the values, whom each strategy resolves to.    *)
IsDocument(doc) ==
  /\ doc.start \in Key
  /\ DOMAIN doc.steps \subseteq StepKey
  /\ \A k \in DOMAIN doc.steps : /\ doc.steps[k] \in Step
                                 /\ Len(doc.steps[k].escalation) <= MaxLevel

IsContext(ctx) ==
  /\ IsDocument(ctx.doc)
  /\ ctx.facts \subseteq Condition
  /\ ctx.who \in [Strategy -> Assignee \cup {Nobody}]

(* timers holds 0 for the reminder and l for the escalation of level l.    *)
TaskSpec == [step : Key, assignee : Assignee, level : Level,
             timers : SUBSET Level]

EventType == {"none", "task.created", "task.escalated"}

Output == [moves : BOOLEAN, status : CaseStatus, step : Key \cup {NoStep},
           tasks : SUBSET TaskSpec, event : EventType]

(* The least element of a set of integers, as a singleton; {} for {}.      *)
First(S) == {i \in S : \A j \in S : i <= j}

-----------------------------------------------------------------------------
(* Selection and assignment.                                               *)

SelectNextStepKey(ctx, step, decision) ==
  LET rules    == step.transitions[decision]
      matching == {i \in DOMAIN rules : rules[i].when \in ctx.facts \cup {Always}}
  IN  {rules[i].to : i \in First(matching)}

(* The first level from `from` on whose strategy resolves to somebody.     *)
ResolveEscalationLevel(ctx, step, from) ==
  First({l \in from .. Len(step.escalation) :
           ctx.who[step.escalation[l]] # Nobody})

ComputeTimerSpecs(step) ==
  IF step.due
  THEN (IF step.reminder THEN {0} ELSE {}) \cup 1 .. Len(step.escalation)
  ELSE {}

SelfApproval(ctx, step) ==
  /\ ctx.who[step.assignment] = Submitter
  /\ step.type = "approval"
  /\ ~step.allowSelfApproval

(* Whom a step is assigned to on entry, after the self-approval guard;     *)
(* empty when nobody can take it.                                          *)
EntryAssignments(ctx, step) ==
  IF SelfApproval(ctx, step)
  THEN {[assignee |-> ctx.who[step.escalation[l]], level |-> l] :
          l \in ResolveEscalationLevel(ctx, step, 1)}
  ELSE {[assignee |-> a, level |-> 0] :
          a \in {ctx.who[step.assignment]} \ {Nobody}}

-----------------------------------------------------------------------------
(* Where a case lands.                                                     *)

EnterUnassigned(k) ==
  [moves |-> TRUE, status |-> "unassigned", step |-> k, tasks |-> {},
   event |-> "none"]

EnterStep(ctx, k) ==
  LET step    == ctx.doc.steps[k]
      entries == EntryAssignments(ctx, step)
  IN  IF entries = {}
      THEN {EnterUnassigned(k)}
      ELSE {[moves |-> TRUE, status |-> "active", step |-> k,
             tasks |-> {[step |-> k, assignee |-> e.assignee, level |-> e.level,
                         timers |-> ComputeTimerSpecs(step)]},
             event |-> "task.created"] : e \in entries}

TerminalOutcome == [k \in TerminalKey |->
                      CASE k = "$completed" -> "completed"
                        [] k = "$rejected"  -> "rejected"
                        [] k = "$cancelled" -> "cancelled"]

EnterTerminal(k) ==
  [moves |-> TRUE, status |-> TerminalOutcome[k], step |-> NoStep, tasks |-> {},
   event |-> "none"]

ReturnToNobody ==
  [moves |-> TRUE, status |-> "active", step |-> NoStep, tasks |-> {},
   event |-> "none"]
ReturnToRequester ==
  [moves |-> TRUE, status |-> "active", step |-> NoStep,
   tasks |-> {[step |-> ReturnedKey, assignee |-> Submitter, level |-> 0,
               timers |-> {}]},
   event |-> "none"]

IsAutomatic(ctx, k) ==
  k \in DOMAIN ctx.doc.steps /\ ctx.doc.steps[k].type = "automatic"

(* One pass through the loop of runFromStepKey: an automatic step hands    *)
(* over to the step its "complete" rules select; anything else stays put.  *)
PassAutomatic(ctx, k) ==
  LET next == IF IsAutomatic(ctx, k)
              THEN SelectNextStepKey(ctx, ctx.doc.steps[k], "complete")
              ELSE {}
  IN  IF next = {} THEN {k} ELSE next

(* An automatic step is only arrived at when no rule of it matches or when *)
(* the loop ran out of iterations; both leave the case unassigned there.   *)
Arrive(ctx, k) ==
  CASE k \in TerminalKey                        -> {EnterTerminal(k)}
    [] k = ReturnedKey                          -> {ReturnToRequester}
    [] k \in StepKey \ DOMAIN ctx.doc.steps     -> {EnterUnassigned(k)}
    [] IsAutomatic(ctx, k)                      -> {EnterUnassigned(k)}
    [] k \in DOMAIN ctx.doc.steps /\ ~IsAutomatic(ctx, k) -> EnterStep(ctx, k)

RunFromStepKey(ctx, start) ==
  LET current[n \in 0 .. MaxAutomaticSteps] ==
        IF n = 0
        THEN {start}
        ELSE UNION {PassAutomatic(ctx, k) : k \in current[n - 1]}
  IN  UNION {Arrive(ctx, k) : k \in Key \cap current[MaxAutomaticSteps - 1]}

-----------------------------------------------------------------------------
(* advance(), one operator per event.  row is the case state the caller    *)
(* read: [status, step, ...].                                              *)

CaseSubmitted(ctx, row) ==
  IF row.status = "draft" THEN RunFromStepKey(ctx, ctx.doc.start) ELSE {}

CaseResubmitted(ctx, row) ==
  IF row.status = "active" /\ row.step = NoStep
  THEN RunFromStepKey(ctx, ctx.doc.start)
  ELSE {}

CaseCancelled(row) ==
  IF row.status \in TerminalStatus THEN {} ELSE {EnterTerminal("$cancelled")}

DecisionAccepted(ctx, row, decision, comment) ==
  /\ row.status \notin TerminalStatus
  /\ row.step \in DOMAIN ctx.doc.steps
  /\ decision \in ctx.doc.steps[row.step].allowedDecisions
  /\ decision \in ctx.doc.steps[row.step].requireCommentOn => comment

TaskDecidedStuck(ctx, row, decision, comment) ==
  IF ~DecisionAccepted(ctx, row, decision, comment)
  THEN {}
  ELSE LET next == SelectNextStepKey(ctx, ctx.doc.steps[row.step], decision)
       IN  IF next = {}
           THEN {[moves |-> FALSE, status |-> row.status, step |-> row.step,
                  tasks |-> {}, event |-> "none"]}
           ELSE UNION {RunFromStepKey(ctx, k) : k \in next}
TaskDecided(ctx, row, decision, comment) ==
  IF ~DecisionAccepted(ctx, row, decision, comment)
  THEN {}
  ELSE LET next == SelectNextStepKey(ctx, ctx.doc.steps[row.step], decision)
       IN  IF next = {}
           THEN {EnterUnassigned(row.step)}
           ELSE UNION {RunFromStepKey(ctx, k) : k \in next}

(* level is the level the escalated task already sits at.                  *)
EscalationTriggered(ctx, row, level) ==
  IF row.status \in TerminalStatus \/ row.step \notin DOMAIN ctx.doc.steps
  THEN {}
  ELSE LET step   == ctx.doc.steps[row.step]
           levels == ResolveEscalationLevel(ctx, step, level + 1)
       IN  IF levels = {}
           THEN {EnterUnassigned(row.step)}
           ELSE {[moves |-> FALSE, status |-> row.status, step |-> row.step,
                  tasks |-> {[step |-> row.step,
                              assignee |-> ctx.who[step.escalation[l]],
                              level |-> l, timers |-> {}]},
                  event |-> "task.escalated"] : l \in levels}
=============================================================================
