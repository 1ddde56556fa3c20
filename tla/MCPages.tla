------------------------------- MODULE MCPages -------------------------------
(***************************************************************************)
(* The instances that TLC checks of what happens in the browser: building  *)
(* a process, keeping templates of it, trying it out in the simulator, and *)
(* filling in a request.  The four share no state, so each behaviour is    *)
(* about one of them.  Pages are interchangeable.                          *)
(***************************************************************************)
EXTENDS ProcessBuilder, TemplateLibrary, FormRuntime, Simulation, TLC

VARIABLE part  \* what this behaviour is about

----------------------------------------------------------------------------
(* Building: two steps at most, one of them to begin with.                 *)

MCDefaults == [approval |-> {"approve"}, automatic |-> {"complete"}]

Lead(w, t) == [when |-> w, to |-> t]

(* The document of a new definition, and an approval that sends some cases *)
(* to a second step, an automatic one.                                     *)
Bootstrap ==
  [start |-> "$completed", title |-> Unset, fields |-> {}, steps |-> <<>>]

TwoSteps ==
  [start |-> "step", title |-> Unset, fields |-> {"user"},
   steps |->
     [k \in {"step", "step_2"} |->
        IF k = "step"
          THEN [BlankStep EXCEPT !.rules["approve"] = <<Lead("user", "step_2"), Lead(Otherwise, "$completed")>>]
          ELSE [BlankStep EXCEPT !.type = "automatic", !.decisions = {"complete"},
                                 !.rules["complete"] = <<Lead(Otherwise, "$completed")>>]]]

MCStepKeys == <<"step", "step_2">>

MCFieldKeys == <<"user">>

MCDrafts == {Bootstrap, TwoSteps}

----------------------------------------------------------------------------
(* Templates: a process that names a group and, should it not answer, a    *)
(* person of its organisation; one that names nobody; a shipped one.       *)

Naming(kind, o) == [kind |-> kind, of |-> o]

MCContent(o) ==
  {<<[assignment |-> Naming("group", o), escalation |-> <<Naming("specificUser", o), Anonymous>>]>>,
   <<[assignment |-> Anonymous, escalation |-> <<>>]>>}

MCLibrary ==
  [t \in {0} |->
     [key   |-> <<>>,
      steps |-> <<[assignment |-> Naming("group", Placeholder), escalation |-> <<>>]>>]]

----------------------------------------------------------------------------
(* Filling in: a small form in two versions.                               *)

Standard == Text(<<1>>)
Special  == Text(<<2>>)

Asked(sectionWhen, visibleWhen) ==
  [sectionWhen |-> sectionWhen, visibleWhen |-> visibleWhen, required |-> TRUE, supported |-> TRUE,
   refuses |-> {}]

SpecialOnly == Where("kind", "eq", Special)

(* A file is asked for as long as no detail is given; then always.         *)
FirstForm ==
  [kind   |-> Asked(Default, Default),
   detail |-> [Asked(Default, SpecialOnly) EXCEPT !.refuses = {Standard}],
   quote  |-> Asked(Where("detail", "isEmpty", Null), Default)]

SecondForm ==
  [FirstForm EXCEPT !.quote = Asked(Default, Where("$submitter.department", "eq", Standard))]

MCForm == <<FirstForm, SecondForm>>

MCAnswer == [kind |-> {Standard, Special}, detail |-> {Special}]

(* Rules that compare texts with numbers and lists, name a reference       *)
(* nobody knows, and nest what cannot be compared on either side.          *)
MCRuleCondition ==
  LET late    == Where("$case.daysOpen", "gte", Number(0))
      special == Where("kind", "eq", Special)
      typo    == Where("$unknown", "isEmpty", Null)
      listed  == Where("kind", "notIn", Special)
      larger  == Where("detail", "gt", Number(1))
      letters == Where("kind", "startsWith", Text(<<2>>))
      roles   == Where("$submitter.roles", "notContains", Standard)
  IN  {Default, AllOf(<<special, typo>>), AnyOf(<<late, listed>>), AnyOf(<<letters, larger, special>>),
       NotOf(AllOf(<<special, roles>>)), AllOf(<<AnyOf(<<typo, late>>), NotOf(larger)>>),
       Where("kind", "notContains", Special), Where("detail", "notContains", Number(1)),
       AnyOf(<<Where("detail", "neq", Number(1)), special>>),
       AllOf(<<Where("kind", "eq", Number(2)), NotOf(Where("kind", "neq", Special))>>),
       AllOf(<<roles, Where("kind", "in", List(<<Special>>)), Where("detail", "lt", Text(<<2, 1>>))>>)}

MCRoles == List(<<>>)

MCFormField == {"kind", "detail", "quote"}
MCFileField == {"quote"}

ASSUME FormAssumption

----------------------------------------------------------------------------
(* Trying out: the shipped processes and clones of them, all of whose      *)
(* thresholds lie between the amounts.                                     *)

Groups ==
  {"group security", "group hr", "group itSupport", "group facilities", "group payroll"}
SimulatedRoles == {"role approver", "role admin", "role processOwner"}

MCStepKey ==
  {"managerApproval", "financeApproval", "securityApproval", "directorApproval", "hrSetup",
   "itSetup", "facilitiesSetup", "payrollSetup", "riskOwnerApproval", "securityAcceptance",
   "itFulfilment"}

Above(field, amount) == [field |-> field, value |-> amount]

MCCondition ==
  {Above("cost", 1000), Above("amount", 500), Above("amount", 5000), Above("estimatedCost", 1000)}

MCPool     == Groups \cup SimulatedRoles
MCStrategy == {"lineManager", "lineManagerOfAssignee"} \cup MCPool
MCUser     == {"manager", "submitter"}
MCAmount   == {400, 700, 2000, 6000}

ASSUME SimulationAssumption

----------------------------------------------------------------------------

MCInit ==
  /\ BuilderInit /\ LibraryInit /\ FormInit /\ SimulationInit
  /\ part \in {"building", "templates", "filling in", "trying out"}
  /\ part # "building" => stored = Bootstrap
  /\ part # "trying out" => definition = LaptopRequest /\ answer = Absent /\ hasLineManager

MCNext ==
  \/ /\ part = "building" /\ BuilderNext
     /\ UNCHANGED <<libraryVars, formVars, simulationVars, part>>
  \/ /\ part = "templates" /\ LibraryNext
     /\ UNCHANGED <<builderVars, formVars, simulationVars, part>>
  \/ /\ part = "filling in" /\ FormNext
     /\ UNCHANGED <<builderVars, libraryVars, simulationVars, part>>
  \/ /\ part = "trying out" /\ SimulationNext
     /\ UNCHANGED <<builderVars, libraryVars, formVars, part>>

MCSpec ==
  MCInit /\ [][MCNext]_<<builderVars, libraryVars, formVars, simulationVars, part>>

(* Of two edits, two clicks and a lost answer of a builder, two are left   *)
(* out, and one of the clicks and the lost answer of a form; and past the  *)
(* first doubt no property of the answers says anything.                   *)
Bounds ==
  /\ edits + clicks + faults <= 3 /\ formClicks + formFaults <= 2
  /\ doubt \in {"none", "kept"}

PageSymmetry == Permutations(Page)
=============================================================================
