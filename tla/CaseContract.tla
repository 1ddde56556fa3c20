----------------------------- MODULE CaseContract -----------------------------
(***************************************************************************)
(* What a case promises whoever looks at its row: it is one sequential     *)
(* object.  Every submission, decision, resubmission, cancellation and     *)
(* escalation takes effect at once, on the row as it stands, as the pure   *)
(* engine answers for the version the case is pinned to; there is no       *)
(* request in flight, no stale read, no lock and no row_version here.      *)
(***************************************************************************)
EXTENDS WorkflowEngine

CONSTANTS Definition, MaxVersion, Values, FactsOf, Directories

VARIABLE state    \* status, step and version of the case

(* Values and directory are whatever the operation finds.                  *)
Contexts(version) ==
  {[doc |-> Definition[version], facts |-> FactsOf[content], who |-> who] :
     content \in Values, who \in Directories}

Init == state = [status |-> "draft", step |-> NoStep, version |-> 1]

Moves(out, version) ==
  /\ out.moves
  /\ state' = [status |-> out.status, step |-> out.step, version |-> version]

(* Pins a published version, and none later changes it.                    *)
Submit ==
  \E version \in 1 .. MaxVersion : \E ctx \in Contexts(version) :
    \E out \in CaseSubmitted(ctx, state) : Moves(out, version)

Resubmit ==
  \E ctx \in Contexts(state.version) :
    \E out \in CaseResubmitted(ctx, state) : Moves(out, state.version)

(* A comment never hinders a decision.                                     *)
Decide ==
  \E ctx \in Contexts(state.version), decision \in Decision :
    \E out \in TaskDecided(ctx, state, decision, TRUE) :
      Moves(out, state.version)

Cancel == \E out \in CaseCancelled(state) : Moves(out, state.version)

(* An escalation that finds nobody takes the case out of the flow; one     *)
(* that finds somebody leaves its row alone.                               *)
Exhaust ==
  \E ctx \in Contexts(state.version), level \in Level :
    /\ state.status = "active"
    /\ \E out \in EscalationTriggered(ctx, state, level) :
         Moves(out, state.version)

(* What leaves the row as it is cannot be told from nothing.               *)
Next ==
  /\ state' # state
  /\ Submit \/ Resubmit \/ Decide \/ Cancel \/ Exhaust

Spec == Init /\ [][Next]_state
=============================================================================
