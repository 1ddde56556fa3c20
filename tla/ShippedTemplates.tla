--------------------------- MODULE ShippedTemplates ---------------------------
(***************************************************************************)
(* The processes OrgFlow ships: the six templates of its catalogue and the *)
(* laptop request that a development sign-in publishes.  Of a form, the    *)
(* questions and their types; of a workflow, all the engine reads.         *)
(* Sources: packages/documents/src/seed.                                   *)
(***************************************************************************)
EXTENDS WorkflowEngine

(* A condition: the answer to this question is greater than that.          *)
Exceeds(field, value) == [field |-> field, value |-> value]

When(condition, to) == [when |-> condition, to |-> to]
To(k) == [when |-> Always, to |-> k]

Leads(rules) == [d \in Decision |-> IF d \in DOMAIN rules THEN rules[d] ELSE <<>>]

ApprovalStep(assignment, approve) ==
  [type |-> "approval", assignment |-> assignment, allowSelfApproval |-> FALSE,
   allowedDecisions |-> {"approve", "reject"}, requireCommentOn |-> {"reject"},
   transitions |-> Leads([approve |-> approve, reject |-> <<To("$rejected")>>]),
   due |-> FALSE, reminder |-> FALSE, escalation |-> <<>>]

ActionStep(assignment, to) ==
  [type |-> "action", assignment |-> assignment, allowSelfApproval |-> FALSE,
   allowedDecisions |-> {"complete"}, requireCommentOn |-> {},
   transitions |-> Leads([complete |-> <<To(to)>>]),
   due |-> FALSE, reminder |-> FALSE, escalation |-> <<>>]

Sla(step, reminder, escalation) ==
  [step EXCEPT !.due = TRUE, !.reminder = reminder, !.escalation = escalation]

----------------------------------------------------------------------------

EquipmentRequest ==
  [form  |-> [item |-> "text", cost |-> "currency", justification |-> "textarea"],
   start |-> "managerApproval",
   steps |-> [managerApproval |-> ApprovalStep("lineManager",
                <<When(Exceeds("cost", 1000), "financeApproval"), To("$completed")>>),
              financeApproval |-> ApprovalStep("role approver", <<To("$completed")>>)]]

AccessRequest ==
  [form  |-> [system |-> "text", accessLevel |-> "select", reason |-> "textarea"],
   start |-> "managerApproval",
   steps |-> [managerApproval  |-> ApprovalStep("lineManager", <<To("securityApproval")>>),
              securityApproval |-> ApprovalStep("group security", <<To("$completed")>>)]]

(* A slip: smallest first.                                                 *)
SmallestFirst ==
  <<When(Exceeds("amount", 500), "financeApproval"),
    When(Exceeds("amount", 5000), "directorApproval"), To("$completed")>>

(* "Ordered largest first: a 6,000 claim matches the first rule and stops  *)
(* there."                                                                 *)
ExpenseRules ==
  <<When(Exceeds("amount", 5000), "directorApproval"),
    When(Exceeds("amount", 500), "financeApproval"), To("$completed")>>

ExpenseClaim ==
  [form  |-> [purpose |-> "text", amount |-> "currency", incurredOn |-> "date", receipt |-> "file"],
   start |-> "managerApproval",
   steps |-> [managerApproval  |-> ApprovalStep("lineManager", ExpenseRules),
              financeApproval  |-> ApprovalStep("role approver", <<To("$completed")>>),
              directorApproval |-> ApprovalStep("role admin", <<To("financeApproval")>>)]]

Onboarding ==
  [form  |-> [starterName |-> "text", startDate |-> "date", jobTitle |-> "text", manager |-> "user"],
   start |-> "hrSetup",
   steps |-> [hrSetup         |-> ActionStep("group hr", "itSetup"),
              itSetup         |-> ActionStep("group itSupport", "facilitiesSetup"),
              facilitiesSetup |-> ActionStep("group facilities", "payrollSetup"),
              payrollSetup    |-> ActionStep("group payroll", "$completed")]]

AnnualLeave ==
  [form  |-> [firstDay |-> "date", lastDay |-> "date", reason |-> "text"],
   start |-> "managerApproval",
   steps |-> [managerApproval |->
                Sla(ApprovalStep("lineManager", <<To("$completed")>>), TRUE, <<>>)]]

PolicyException ==
  [form  |-> [policy |-> "text", rationale |-> "textarea", expiresOn |-> "date"],
   start |-> "riskOwnerApproval",
   steps |-> [riskOwnerApproval |->
                Sla(ApprovalStep("lineManager", <<To("securityAcceptance")>>), TRUE,
                    <<"lineManagerOfAssignee", "role admin">>),
              securityAcceptance |->
                Sla(ApprovalStep("group security", <<To("$completed")>>), FALSE, <<>>)]]

SystemTemplates ==
  {EquipmentRequest, AccessRequest, ExpenseClaim, Onboarding, AnnualLeave, PolicyException}

LaptopRequest ==
  [form  |-> [laptopModel |-> "select", otherModelDetail |-> "text", estimatedCost |-> "currency",
              justification |-> "textarea", requiredBy |-> "date", quote |-> "file"],
   start |-> "managerApproval",
   steps |-> [managerApproval |->
                [type |-> "approval", assignment |-> "lineManager", allowSelfApproval |-> FALSE,
                 allowedDecisions |-> {"approve", "reject", "return"},
                 requireCommentOn |-> {"reject", "return"},
                 transitions |-> Leads(
                   [approve |-> <<When(Exceeds("estimatedCost", 1000), "financeApproval"),
                                  To("itFulfilment")>>,
                    reject  |-> <<To("$rejected")>>,
                    return  |-> <<To("$returnedToRequester")>>]),
                 due |-> TRUE, reminder |-> TRUE,
                 escalation |-> <<"lineManagerOfAssignee", "role processOwner">>],
              financeApproval |->
                Sla(ApprovalStep("role approver", <<To("itFulfilment")>>), FALSE, <<>>),
              itFulfilment |->
                Sla(ActionStep("group itSupport", "$completed"), FALSE, <<>>)]]
=============================================================================
