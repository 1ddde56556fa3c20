---------------------------- MODULE ProcessBuilder ----------------------------
(***************************************************************************)
(* The builder in the browser: pages that edit the same process, what they *)
(* find wrong with it, and the saves and publications they ask the API     *)
(* for.  A page holds the whole document; nothing but the order of the     *)
(* requests decides whose document is the draft.                           *)
(* Sources: apps/web/src/features form-builder and workflow-builder,       *)
(* apps/api/src/processes/document-schema.ts and                           *)
(* routes/process-definitions.ts, whose own steps are in DefinitionStore.  *)
(*                                                                         *)
(* The order of steps has no meaning and their keys are unique, so steps   *)
(* are a function of the key.  Names, hints, timers and the layout of the  *)
(* form are left out.                                                      *)
(***************************************************************************)
EXTENDS Naturals, Sequences, SequencesExt

CONSTANTS
  Page,       \* pages with the builder open
  StepKeys,   \* keys stepKeyFrom gives, in the order it tries them
  FieldKeys,  \* likewise keyFrom, for the questions that name a person
  DecisionAction, \* what a step may allow
  Defaults,   \* DEFAULT_DECISIONS_BY_TYPE, by step type
  Terminal,   \* TERMINAL_KEYS
  Drafts,     \* documents a page may first be opened on
  MaxRules,   \* bound: rules of one decision
  MaxEdits,   \* bound: edits in all pages together
  MaxClicks,  \* bound: saves and publications asked for
  MaxFaults   \* bound: requests and answers lost

BuilderStep == ToSet(StepKeys)
Field       == ToSet(FieldKeys)

(* Stands for a select nobody has made a choice in.                        *)
Unset == ""

Otherwise == "default"

(* AUTOMATIC_STEP_TRANSITION_KEY: the decision an automatic step takes.    *)
AutomaticKey == "complete"

(* A rule of a decision, a step and a document, as the editors hold them.  *)
TransitionRule ==
  [when : Field \cup {Unset, Otherwise}, to : BuilderStep \cup Terminal \cup {Unset}]

StepDocument ==
  [type : DOMAIN Defaults, decisions : SUBSET DecisionAction,
   rules : [DecisionAction -> Seq(TransitionRule)], assignee : Field \cup {"manager", Unset}]

DocumentOf(keys) ==
  [start : BuilderStep \cup Terminal, title : Field \cup {Unset}, fields : SUBSET Field,
   steps : [keys -> StepDocument]]

IsDraftDocument(doc) == \E keys \in SUBSET BuilderStep : doc \in DocumentOf(keys)

ASSUME BuilderAssumption ==
  /\ "approval" \in DOMAIN Defaults /\ AutomaticKey \in DecisionAction
  /\ StepKeys \in Seq(BuilderStep) /\ FieldKeys \in Seq(Field)
  /\ \A type \in DOMAIN Defaults : Defaults[type] \subseteq DecisionAction
  /\ BuilderStep \cap Terminal = {} /\ Unset \notin BuilderStep \cup Field \cup Terminal
  /\ {MaxRules, MaxEdits, MaxClicks, MaxFaults} \subseteq Nat

VARIABLES
  stored,  \* the document saved last
  open,    \* whether it is a draft, or published already
  live,    \* the document published last, or the first one
  mixed,   \* history: another page saved between the save and the
           \* publication of one publishing click
  page, edits, clicks, faults

builderVars == <<stored, open, live, mixed, page, edits, clicks, faults>>

(* call: what a click has under way.  late: the document has changed since *)
(* the save it calls saved, or its settings, which no edit marks.  behind: *)
(* another page has saved since this one did.                              *)
Opened(document) ==
  [document |-> document, dirty |-> FALSE, call |-> "none", publishing |-> FALSE,
   sent |-> Unset, late |-> FALSE, behind |-> FALSE]

BuilderInit ==
  /\ stored \in Drafts /\ open = TRUE /\ live = stored /\ mixed = FALSE
  /\ page = [p \in Page |-> Opened(stored)]
  /\ edits = 0 /\ clicks = 0 /\ faults = 0

----------------------------------------------------------------------------
(* Operations on a document: [start, title, fields, steps], a step being   *)
(* [type, decisions, rules, assignee].                                     *)

(* keyFrom, stepKeyFrom: the first key that no sibling has.                *)
KeyFrom(keys, existing) ==
  keys[CHOOSE i \in DOMAIN keys :
         keys[i] \notin existing /\ \A j \in 1 .. (i - 1) : keys[j] \in existing]

StepsOf(doc) == DOMAIN doc.steps

(* blankStep.                                                              *)
BlankStep ==
  [type |-> "approval", decisions |-> Defaults["approval"],
   rules |-> [d \in DecisionAction |-> <<>>], assignee |-> "manager"]

AddStep(doc) ==
  LET key == KeyFrom(StepKeys, StepsOf(doc)) IN
  [doc EXCEPT !.start = IF StepsOf(doc) = {} THEN key ELSE @,
              !.steps = [k \in StepsOf(doc) \cup {key} |-> IF k = key THEN BlankStep ELSE doc.steps[k]]]

RemoveStep(doc, key) ==
  [doc EXCEPT !.steps = [k \in StepsOf(doc) \ {key} |-> doc.steps[k]]]

AddField(doc) == [doc EXCEPT !.fields = @ \cup {KeyFrom(FieldKeys, doc.fields)}]

RemoveField(doc, f) == [doc EXCEPT !.fields = @ \ {f}]

IsDefault(rule) == rule.when = Otherwise

EndsWithDefault(rules) == rules # <<>> /\ IsDefault(Last(rules))

(* A new default goes last, a new condition before a default that is last. *)
AddTransitionRule(rules, rule) ==
  IF IsDefault(rule) \/ ~EndsWithDefault(rules) THEN Append(rules, rule)
  ELSE Append(Front(rules), rule) \o <<Last(rules)>>

Swapped(rules, i, j) == [rules EXCEPT ![i] = rules[j], ![j] = rules[i]]

(* The select of a rule offers the other steps and the outcomes.           *)
Target(doc, key) == (StepsOf(doc) \ {key}) \cup Terminal \cup {Unset}

(* DecisionTransitions: a click on one decision of a step.                 *)
DecisionEdits(doc, key, rules) ==
  (IF Len(rules) < MaxRules
     THEN {AddTransitionRule(rules, [when |-> w, to |-> t]) :
             w \in {Unset} \cup (IF EndsWithDefault(rules) THEN {} ELSE {Otherwise}),
             t \in Target(doc, key) \ {Unset}}
     ELSE {})
  \cup {RemoveAt(rules, i) : i \in DOMAIN rules}
  \cup {Swapped(rules, i, i + 1) : i \in 1 .. (Len(rules) - 1)}
  \cup {[rules EXCEPT ![i].to = t] : i \in DOMAIN rules, t \in Target(doc, key)}
  \cup {[rules EXCEPT ![i].when = w] :
          i \in {j \in DOMAIN rules : ~IsDefault(rules[j])}, w \in doc.fields \cup {Unset}}

(* AssignmentEditor: the other strategies count as the manager.            *)
AssigneeEdits(doc) ==
  {"manager"} \cup (IF doc.fields = {} THEN {Unset} ELSE doc.fields)

(* StepPanel: a click on one step.  Changing the type resets the decisions *)
(* and leaves their rules alone; each decision is ticked and unticked      *)
(* whatever the type, and shows its rules while it is ticked.              *)
StepEdits(doc, key) ==
  LET step == doc.steps[key] IN
  {[step EXCEPT !.type = type, !.decisions = Defaults[type]] : type \in DOMAIN Defaults}
  \cup {[step EXCEPT !.decisions = (@ \ {d}) \cup ({d} \ @)] : d \in DecisionAction}
  \cup {[step EXCEPT !.assignee = a] : a \in AssigneeEdits(doc)}
  \cup UNION {{[step EXCEPT !.rules[d] = r] : r \in DecisionEdits(doc, key, step.rules[d])} :
                d \in step.decisions}

(* The documents one click away.                                           *)
Edits(doc) ==
  (IF StepsOf(doc) # BuilderStep THEN {AddStep(doc)} ELSE {})
  \cup (IF doc.fields # Field THEN {AddField(doc)} ELSE {})
  \cup {RemoveStep(doc, key) : key \in StepsOf(doc)}
  \cup {RemoveField(doc, f) : f \in doc.fields}
  \cup {[doc EXCEPT !.start = key] : key \in StepsOf(doc)}
  \cup UNION {{[doc EXCEPT !.steps[key] = s] : s \in StepEdits(doc, key)} : key \in StepsOf(doc)}

----------------------------------------------------------------------------
(* What the panel finds.                                                   *)

Known(doc) == StepsOf(doc) \cup Terminal

(* The decisions whose rules may all fail to match.                        *)
Warned(doc) ==
  {w \in StepsOf(doc) \X DecisionAction :
     w[2] \in doc.steps[w[1]].decisions /\ ~EndsWithDefault(doc.steps[w[1]].rules[w[2]])}

(* A slip the runs must catch: only the last rule's target is looked up.   *)
BlockingByLast(doc) ==
  \/ doc.start \notin Known(doc)
  \/ \E key \in StepsOf(doc) : \E d \in doc.steps[key].decisions :
       LET rules == doc.steps[key].rules[d] IN
       rules = <<>> \/ Last(rules).to \notin Known(doc)

(* hasBlockingIssues(validateWorkflow(document)).                          *)
Blocking(doc) ==
  \/ doc.start \notin Known(doc)
  \/ \E key \in StepsOf(doc) : \E d \in doc.steps[key].decisions :
       LET rules == doc.steps[key].rules[d] IN
       rules = <<>> \/ \E i \in DOMAIN rules : rules[i].to \notin Known(doc)

(* What a page is first opened on is taken to run, as the document of a    *)
(* new definition does.                                                    *)
ASSUME DraftsAssumption == \A doc \in Drafts : IsDraftDocument(doc) /\ ~Blocking(doc)

(* definitionDocumentBodySchema: a condition names a field, a reference to *)
(* an answer too; whether the form has it nobody asks.                     *)
Accepted(doc) ==
  \A key \in StepsOf(doc) :
    /\ doc.steps[key].assignee # Unset
    /\ \A d \in DecisionAction : \A i \in DOMAIN doc.steps[key].rules[d] :
         doc.steps[key].rules[d][i].when # Unset

----------------------------------------------------------------------------
(* The pages.                                                              *)

(* A slip: an edit does not mark the page.                                 *)
EditUnmarked(p) ==
  /\ edits < MaxEdits /\ edits' = edits + 1
  /\ \E doc \in Edits(page[p].document) \ {page[p].document} :
       page' = [page EXCEPT ![p].document = doc]
  /\ UNCHANGED <<stored, open, live, mixed, clicks, faults>>

(* withSections and the workflow's onChange, while saving too.             *)
Edit(p) ==
  /\ edits < MaxEdits /\ edits' = edits + 1
  /\ \E doc \in Edits(page[p].document) \ {page[p].document} :
       page' = [page EXCEPT ![p].document = doc, ![p].dirty = TRUE]
  /\ UNCHANGED <<stored, open, live, mixed, clicks, faults>>

(* DocumentProperties: the title, the name; setSettings marks nothing.     *)
EditSettings(p) ==
  /\ edits < MaxEdits /\ edits' = edits + 1
  /\ \E f \in (page[p].document.fields \cup {Unset}) \ {page[p].document.title} :
       page' = [page EXCEPT ![p].document.title = f, ![p].late = TRUE]
  /\ UNCHANGED <<stored, open, live, mixed, clicks, faults>>

(* GET draft: 409 when there is none.                                      *)
Load(p) ==
  /\ page[p].call = "none" /\ open
  /\ page' = [page EXCEPT ![p] = Opened(stored)]
  /\ UNCHANGED <<stored, open, live, mixed, edits, clicks, faults>>

Call(p, publishing) ==
  /\ page[p].call = "none" /\ clicks < MaxClicks
  /\ clicks' = clicks + 1
  /\ page' = [page EXCEPT ![p].call = "saving", ![p].sent = page[p].document,
                          ![p].publishing = publishing]
  /\ UNCHANGED <<stored, open, live, mixed, edits, faults>>

(* handleSave, and what is done before a template is taken from a draft.   *)
ClickSave(p) == Call(p, FALSE)

(* handlePublish, when the button is enabled: nothing it shows blocks.     *)
ClickPublish(p) == ~Blocking(page[p].document) /\ Call(p, TRUE)

(* An answer that changes nothing of the page but an alert above the form. *)
Over(p) ==
  page' = [page EXCEPT ![p].call = "none", ![p].sent = Unset, ![p].publishing = FALSE]

(* PATCH /process-definitions/:definitionId/draft.                         *)
SaveDraft(p) ==
  /\ page[p].call = "saving"
  /\ IF Accepted(page[p].sent)
       THEN /\ stored' = page[p].sent /\ open' = TRUE
            /\ page' = [q \in Page |->
                 IF q = p THEN [page[p] EXCEPT !.call = "saved", !.behind = FALSE]
                 ELSE [page[q] EXCEPT !.behind = TRUE]]
       ELSE Over(p) /\ UNCHANGED <<stored, open>>
  /\ UNCHANGED <<live, mixed, edits, clicks, faults>>

(* The rest of handleSave after the await: the page calls itself saved,    *)
(* whatever has been edited meanwhile.                                     *)
Saved(p) ==
  /\ page[p].call = "saved"
  /\ page' = [page EXCEPT ![p].dirty = FALSE, ![p].late = (page[p].document # page[p].sent),
                          ![p].sent = Unset, ![p].publishing = FALSE,
                          ![p].call = IF page[p].publishing THEN "publishing" ELSE "none"]
  /\ UNCHANGED <<stored, open, live, mixed, edits, clicks, faults>>

(* POST .../draft/publish: the draft there is, unread; 409 without one.    *)
PublishDraft(p) ==
  /\ page[p].call = "publishing"
  /\ IF open THEN /\ live' = stored /\ open' = FALSE
                  /\ mixed' = page[p].behind
             ELSE UNCHANGED <<live, open, mixed>>
  /\ Over(p)
  /\ UNCHANGED <<stored, edits, clicks, faults>>

(* A request that does not arrive, or the answer to one that does.         *)
Lose(p) ==
  /\ page[p].call \in {"saving", "saved", "publishing"}
  /\ faults < MaxFaults /\ faults' = faults + 1
  /\ Over(p)
  /\ UNCHANGED <<stored, open, live, mixed, edits, clicks>>

BuilderNext ==
  \E p \in Page :
    \/ Edit(p) \/ EditSettings(p) \/ Load(p) \/ ClickSave(p) \/ ClickPublish(p)
    \/ SaveDraft(p) \/ Saved(p) \/ PublishDraft(p) \/ Lose(p)

BuilderSpec == BuilderInit /\ [][BuilderNext]_builderVars

----------------------------------------------------------------------------
(* The reference: what the engine makes of a document.  It takes the first *)
(* rule that matches, and nothing is known of which conditions do.         *)

Tried(rules) == {i \in DOMAIN rules : \A j \in 1 .. (i - 1) : ~IsDefault(rules[j])}

Outcomes(rules) == {rules[i].to : i \in Tried(rules)}

MayNotMatch(rules) == \A i \in Tried(rules) : ~IsDefault(rules[i])

(* The decisions whose rules the engine looks up: those of a task, and the *)
(* one an automatic step takes, allowed or not.                            *)
Taken(step) == IF step.type = "automatic" THEN {AutomaticKey} ELSE step.decisions

After(doc, key) ==
  UNION {Outcomes(doc.steps[key].rules[d]) : d \in Taken(doc.steps[key])}

Places(doc) ==
  Known(doc) \cup {doc.start} \cup UNION {After(doc, key) : key \in StepsOf(doc)}

(* Where a case may get to: the start, and what decisions lead to from any *)
(* step it gets to; this is in every set that is closed in this way.       *)
Closed(doc, S) ==
  doc.start \in S /\ \A key \in S \cap StepsOf(doc) : After(doc, key) \subseteq S

Reached(doc) ==
  LET places == Places(doc)
      closed == {S \in SUBSET places : Closed(doc, S)}
  IN  {k \in places : \A S \in closed : k \in S}

(* Automatic steps a case gets to although their one decision is unticked: *)
(* the panel looks at the rules of ticked decisions only.                  *)
Unchecked(doc) ==
  {key \in Reached(doc) \cap StepsOf(doc) :
     ~(Taken(doc.steps[key]) \subseteq doc.steps[key].decisions)}

(* "What stands between a draft and a document the engine can actually     *)
(* run" stands in the page: whatever is published takes its cases only to  *)
(* steps and outcomes that exist, and leaves them at a decision without a  *)
(* matching rule only where the panel warned.  With two exceptions.  An    *)
(* automatic step whose decision is unticked may lead anywhere and nowhere *)
(* and nobody is told.  And another page's save may come between the save  *)
(* and the publication of a publishing click: the API checks neither the   *)
(* document nor whose it is.  (Steps that allow no decision, and rings of  *)
(* automatic steps, which the engine leaves after twenty, are not in it.)  *)
PublishedWorkflowsRun ==
  \/ mixed
  \/ LET reached == Reached(live)  unchecked == Unchecked(live) IN
     /\ reached \subseteq Known(live) \cup UNION {After(live, key) : key \in unchecked}
     /\ \A key \in (reached \cap StepsOf(live)) \ unchecked :
          \A d \in Taken(live.steps[key]) :
            MayNotMatch(live.steps[key].rules[d]) => <<key, d>> \in Warned(live)

(* A page without unsaved changes shows what is saved: unless the document *)
(* changed while it was being saved, or its settings, or another page has  *)
(* saved since.                                                            *)
CleanMeansSaved ==
  \A p \in Page :
    page[p].call = "none" /\ ~page[p].dirty /\ ~page[p].late /\ ~page[p].behind =>
      page[p].document = stored
=============================================================================
