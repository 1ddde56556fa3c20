------------------------------ MODULE Simulation ------------------------------
(***************************************************************************)
(* The simulator of the builder: the real engine driven in the browser,    *)
(* over a process as it is shipped or as a clone of it starts out, with a  *)
(* requester made up for the purpose.  Nothing is stored; what the page    *)
(* offers next is what the engine answered last.                           *)
(* Sources: apps/web/src/features/workflow-simulator.                      *)
(***************************************************************************)
EXTENDS ShippedTemplates, FiniteSets

CONSTANTS
  Manager,  \* SIMULATED_LINE_MANAGER
  Amount,   \* amounts that may be entered
  Unanswered  \* a question left open

VARIABLES
  definition,      \* the document being edited, saved or not
  answer,          \* to its question about money, if it has one
  hasLineManager,  \* of the requester
  run,             \* SimulationState, or the one before the first run
  trace            \* its entries: what was decided where, and whether accepted

simulationVars == <<definition, answer, hasLineManager, run, trace>>

(* What cloning makes of an assignment that names a group.                 *)
ResetGroup(s) ==
  IF s \in {"group security", "group hr", "group itSupport", "group facilities", "group payroll"}
  THEN "lineManager" ELSE s

ClonedStep(step) == [step EXCEPT !.assignment = ResetGroup(@)]

AsCloned(doc) ==
  [doc EXCEPT !.steps = [k \in DOMAIN doc.steps |-> ClonedStep(doc.steps[k])]]

Documents == SystemTemplates \cup {LaptopRequest} \cup {AsCloned(t) : t \in SystemTemplates}

(* What the theorems assume, and the instances check: the constants name   *)
(* what the documents do, and who is not a line manager is a pool.         *)
SimulationAssumption ==
  /\ \A doc \in Documents : IsDocument(doc)
  /\ Always \notin Condition
  /\ Manager \in User \ {Submitter}
  /\ Strategy \ {"lineManager", "lineManagerOfAssignee"} \subseteq Pool

(* gt compares numbers; without an answer it does not hold.                *)
Holds(c) ==
  /\ c.field \in DOMAIN definition.form /\ definition.form[c.field] = "currency"
  /\ answer # Unanswered /\ answer > c.value

(* Groups resolve, whichever the document mentions; roles always do; who   *)
(* the line manager of an assignee is, nobody knows here.                  *)
BuildContext ==
  [doc   |-> definition,
   facts |-> {c \in Condition : Holds(c)},
   who   |-> [s \in Strategy |->
                CASE s = "lineManager" -> IF hasLineManager THEN Manager ELSE Nobody
                  [] s = "lineManagerOfAssignee" -> Nobody
                  [] s \notin {"lineManager", "lineManagerOfAssignee"} -> s]]

DraftCase == [status |-> "draft", step |-> NoStep, open |-> {}]

SimulationInit ==
  /\ definition \in Documents
  /\ answer \in Amount \cup {Unanswered}
  /\ hasLineManager \in BOOLEAN
  /\ run = DraftCase /\ trace = <<>>

IsFinished == run.status \notin {"draft", "active"}

----------------------------------------------------------------------------

(* One task is open at a time, so the decided one stands for the list of   *)
(* those to close.  A refusal changes nothing of the case.                 *)
ApplyOutput(outputs, closed) ==
  IF outputs = {}
  THEN [run EXCEPT !.open = @ \ closed]
  ELSE LET o == CHOOSE out \in outputs : TRUE IN
       [status |-> IF o.moves THEN o.status ELSE run.status,
        step   |-> IF o.moves THEN o.step ELSE run.step,
        open   |-> (run.open \ closed) \cup o.tasks]

(* handleStart, which is disabled while there is a run.                    *)
StartSimulation ==
  /\ trace = <<>>
  /\ run' = ApplyOutput(CaseSubmitted(BuildContext, DraftCase), {})
  /\ trace' = <<[at |-> NoStep, decision |-> "submit", accepted |-> TRUE]>>
  /\ UNCHANGED <<definition, answer, hasLineManager>>

(* A button for each open task and allowed decision; no comment is sent.   *)
Buttons(task) ==
  IF task.step = ReturnedKey THEN {"complete"} ELSE definition.steps[task.step].allowedDecisions

Decide(task, decision) ==
  /\ trace # <<>> /\ ~IsFinished
  /\ task \in run.open /\ decision \in Buttons(task)
  /\ LET outputs == TaskDecided(BuildContext, run, decision, FALSE) IN
     /\ run' = ApplyOutput(outputs, {task})
     /\ trace' = Append(trace, [at |-> run.step, decision |-> decision,
                                accepted |-> outputs # {}])
  /\ UNCHANGED <<definition, answer, hasLineManager>>

Reset ==
  /\ trace # <<>>
  /\ run' = DraftCase /\ trace' = <<>>
  /\ UNCHANGED <<definition, answer, hasLineManager>>

(* Another answer or requester, between two runs.                          *)
EditInputs ==
  /\ trace = <<>>
  /\ answer' \in Amount \cup {Unanswered} /\ hasLineManager' \in BOOLEAN
  /\ UNCHANGED <<definition, run, trace>>

SimulationNext ==
  \/ StartSimulation \/ Reset \/ EditInputs
  \/ \E task \in run.open : \E decision \in Decision : Decide(task, decision)

SimulationSpec == SimulationInit /\ [][SimulationNext]_simulationVars

----------------------------------------------------------------------------

Refused == \E i \in DOMAIN trace : ~trace[i].accepted

Visited == {trace[i].at : i \in DOMAIN trace} \cap DOMAIN definition.steps

(* While it runs, one task is open, at the step the case is at, and one of *)
(* its buttons is not refused.  A refused decision closes its task all the *)
(* same and leaves a run with nothing to press.                            *)
WaitsOnOneTask ==
  run.status = "active" /\ ~Refused =>
    /\ Cardinality(run.open) = 1
    /\ \A task \in run.open :
         /\ task.step = run.step \/ task.step = ReturnedKey
         /\ task.step # ReturnedKey =>
              \E d \in Buttons(task) : TaskDecided(BuildContext, run, d, FALSE) # {}

(* Shipped processes end: no step comes twice, and none stalls but for     *)
(* want of a line manager.                                                 *)
StepsComeOnce ==
  /\ \A i, j \in DOMAIN trace :
       trace[i].accepted /\ trace[j].accepted /\ trace[i].at = trace[j].at => i = j
  /\ run.status = "unassigned" => ~hasLineManager

(* "The approval chain growing as the amount does": a completed run went   *)
(* through every step that a rule of a step on its way asks for with the   *)
(* amount entered, whichever rule matched first.                           *)
ThresholdsAreMet ==
  run.status = "completed" =>
    \A k \in Visited :
      \A i \in DOMAIN definition.steps[k].transitions["approve"] :
        LET rule == definition.steps[k].transitions["approve"][i] IN
        rule.when \in BuildContext.facts => rule.to \in Visited

(* The shipped processes, run by the engine: each run waits for one        *)
(* person, gets somewhere, and takes the approvals its amount asks for.    *)
SimulationsRunTheTemplates == WaitsOnOneTask /\ StepsComeOnce /\ ThresholdsAreMet
=============================================================================
