------------------------------ MODULE FormRuntime ------------------------------
(***************************************************************************)
(* One request being filled in: the browser's pages that show its form,    *)
(* the answers they keep, hide, validate and send, and what the API makes  *)
(* of the sends.  A page goes on while its requests are under way, the     *)
(* same case may be open in several pages, a new version of the process    *)
(* may be published meanwhile, and answers of the API may be lost.         *)
(* Sources: apps/web/src/features/cases (form-runtime.tsx, visibility.ts,  *)
(* validate.ts, field-input.tsx, file-field-control.tsx),                  *)
(* apps/api/src/routes/cases.ts.                                           *)
(***************************************************************************)
EXTENDS Conditions, FiniteSets, Functions

CONSTANTS
  FormField,     \* keys of the form's fields that hold an answer
  FileField,     \* those of them of type 'file'
  Form,          \* of each version: field -> its question
  Answer,        \* what can be entered into each field that is not a file
  RuleCondition, \* conditions of the transitions out of the first step
  FormPage,      \* pages of the requester open on the case
  Roles,         \* $submitter.roles, from the session
  Department,    \* $submitter.department, which the browser does not know
  MaxFormClicks, \* bound: clicks on save and submit
  MaxFormFaults  \* bound: requests and answers lost

(* A question: whether an answer is required, its own and its section's    *)
(* condition, whether the runtime can collect it at all, and the answers   *)
(* its length, pattern, range or options refuse.                           *)
Version == DOMAIN Form

(* What the theorems assume, and the instances check.                      *)
FormAssumption ==
  /\ 1 \in Version /\ FileField \subseteq FormField
  /\ \A rule \in RuleCondition : IsCondition(rule)
  /\ MaxFormClicks \in Nat /\ MaxFormFaults \in Nat

VARIABLES
  published,  \* the definition's current version
  case,       \* the cases row: status and version
  values,     \* case_values
  files,      \* file fields with a confirmed attachment
  formPage,   \* the pages
  request,    \* each page's request for saving and for submitting
  formFaults, formClicks,
  doubt       \* history: the first thing that came between answers being
              \* validated and their case being submitted, or "none"

formVars == <<published, case, values, files, formPage, request, formFaults, formClicks, doubt>>

NoAnswers == <<>>

ClosedForm == [at |-> "closed", mode |-> "draft", version |-> 1, values |-> NoAnswers,
               files |-> {}, status |-> "editing"]

NoRequest == [pc |-> "none", kind |-> "patch", payload |-> NoAnswers,
              base |-> NoAnswers, stale |-> FALSE, form |-> 1, version |-> 1]

FormInit ==
  /\ published = 1
  /\ case = [status |-> "none", version |-> 1]
  /\ values = NoAnswers /\ files = {}
  /\ formPage = [p \in FormPage |-> ClosedForm]
  /\ request = [p \in FormPage |-> [lane \in {"save", "submit"} |-> NoRequest]]
  /\ formFaults = 0 /\ formClicks = 0 /\ doubt = "none"

----------------------------------------------------------------------------
(* What is shown.                                                          *)

Mentions(c, f) == \E l \in Leaves(c) : l.field = f

(* The moment of an evaluation, an ISO date.                               *)
Today == Text(<<1>>)

(* What the references of a condition stand for, up to the submission.     *)
Context(department) ==
  [r \in Reference \ {"$unknown"} |->
     CASE r = "$submitter.roles"      -> Roles
       [] r = "$submitter.department" -> department
       [] r = "$now"                  -> Today
       [] OTHER                       -> Number(0)]

(* The browser knows every reference but one; a condition that mentions it *)
(* is taken to hold.                                                       *)
IsVisible(c, answers) ==
  \/ Mentions(c, "$submitter.department")
  \/ Matched(c, [values |-> answers, context |-> Context(Null)])

VisibleFields(v, answers) ==
  {f \in FormField : /\ IsVisible(Form[v][f].sectionWhen, answers)
                     /\ IsVisible(Form[v][f].visibleWhen, answers)}

Empty(answers, f) == f \notin DOMAIN answers \/ IsEmptyValue(answers[f])

(* validateField.                                                          *)
Problem(v, f, answers, attached) ==
  LET question == Form[v][f] IN
  IF ~question.supported THEN question.required
  ELSE IF f \in FileField THEN question.required /\ f \notin attached
  ELSE IF Empty(answers, f) THEN question.required
  ELSE answers[f] \in question.refuses

(* validateFields, for the visible ones.                                   *)
ValidateFields(v, answers, attached) ==
  {f \in VisibleFields(v, answers) : Problem(v, f, answers, attached)}

(* A slip: every answer the page still holds is sent.                      *)
WholePayload(p) == formPage[p].values

VisiblePayload(p) ==
  Restrict(formPage[p].values,
           DOMAIN formPage[p].values \cap VisibleFields(formPage[p].version, formPage[p].values))

(* The first doubt counts; that answers were kept is the least of them.    *)
Doubting(why) == IF doubt \in {"none", "kept"} THEN why ELSE doubt

----------------------------------------------------------------------------
(* The pages.                                                              *)

Editable == case.status \in {"draft", "returned"}

(* The first page creates the draft; later ones continue it on the version *)
(* the draft refers to, or amend the returned case on its pinned one.      *)
Open(p) ==
  LET new == case.status = "none"
      v   == IF new THEN published ELSE case.version
  IN
  /\ formPage[p].at # "form" /\ (new \/ Editable)
  /\ \A lane \in {"save", "submit"} : request[p][lane] = NoRequest
  /\ case' = IF new THEN [status |-> "draft", version |-> v] ELSE case
  /\ formPage' = [formPage EXCEPT ![p] =
       [at |-> "form", version |-> v, values |-> values,
        mode |-> IF case.status = "returned" THEN "resubmit" ELSE "draft",
        files |-> files, status |-> "editing"]]
  /\ UNCHANGED <<published, values, files, request, formFaults, formClicks, doubt>>

(* The questions on the page: what follows is done with one of them.       *)
Shown(p) ==
  IF formPage[p].at = "form" THEN VisibleFields(formPage[p].version, formPage[p].values) ELSE {}

(* A keystroke or a choice, while nothing or a request is under way.       *)
SetValue(p, f, answer) ==
  LET now == [g \in DOMAIN formPage[p].values \cup {f} |->
                IF g = f THEN answer ELSE formPage[p].values[g]] IN
  /\ now # formPage[p].values
  /\ formPage' = [formPage EXCEPT ![p].values = now]
  /\ UNCHANGED <<published, case, values, files, request, formFaults, formClicks, doubt>>

Submitting(q) == request[q]["submit"] # NoRequest

(* Presigned, uploaded and confirmed; the page counts its own list.        *)
AddAttachment(p, f) ==
  /\ f \notin files /\ Editable
  /\ files' = files \cup {f}
  /\ formPage' = [formPage EXCEPT ![p].files = @ \cup {f}]
  /\ UNCHANGED <<published, case, values, request, formFaults, formClicks, doubt>>

RemoveAttachment(p, f) ==
  /\ f \in formPage[p].files \cap files /\ Editable
  /\ files' = files \ {f}
  /\ formPage' = [formPage EXCEPT ![p].files = @ \ {f}]
  /\ doubt' = IF \E q \in FormPage : Submitting(q) \/ (q # p /\ f \in formPage[q].files)
                THEN Doubting("file") ELSE doubt
  /\ UNCHANGED <<published, case, values, request, formFaults, formClicks>>

Send(p, lane, kind, payload, form) ==
  request' = [request EXCEPT ![p][lane] =
                [NoRequest EXCEPT !.pc = "sent", !.kind = kind, !.payload = payload, !.form = form]]

Click(p) == formPage[p].at = "form" /\ formClicks < MaxFormClicks /\ formClicks' = formClicks + 1

(* onSaveDraft: whatever has been answered so far.                         *)
OnSaveDraft(p) ==
  /\ Click(p) /\ formPage[p].mode # "resubmit" /\ formPage[p].status # "submitting"
  /\ request[p]["save"] = NoRequest
  /\ Send(p, "save", "patch", VisiblePayload(p), formPage[p].version)
  /\ UNCHANGED <<published, case, values, files, formPage, formFaults, doubt>>

(* Sends that leave fields hidden by an answer that is itself hidden: what *)
(* the page asked is not what the answers it sends ask.                    *)
HiddenAnswerCounts(p) ==
  VisibleFields(formPage[p].version, VisiblePayload(p))
    # VisibleFields(formPage[p].version, formPage[p].values)

(* onSubmit, when it finds nothing wrong; saving does not disable it.      *)
Submit(p) ==
  /\ Click(p) /\ formPage[p].status # "submitting"
  /\ ValidateFields(formPage[p].version, formPage[p].values, formPage[p].files) = {}
  /\ formPage' = [formPage EXCEPT ![p].status = "submitting"]
  /\ Send(p, "submit", IF formPage[p].mode = "resubmit" THEN "resubmit" ELSE "patch",
          VisiblePayload(p), formPage[p].version)
  /\ doubt' = IF HiddenAnswerCounts(p) THEN Doubting("hidden") ELSE doubt
  /\ UNCHANGED <<published, case, values, files, formFaults>>

(* The answer to a save: away to the list, or an error beside the form.    *)
SaveAnswered(p) ==
  /\ request[p]["save"].pc \in {"ok", "failed"}
  /\ formPage' = IF request[p]["save"].pc = "ok"
                   THEN [formPage EXCEPT ![p] = ClosedForm] ELSE formPage
  /\ request' = [request EXCEPT ![p]["save"] = NoRequest]
  /\ UNCHANGED <<published, case, values, files, formFaults, formClicks, doubt>>

(* The answer to the patch or the submission; the handler goes on even     *)
(* when its page has been left.                                            *)
SubmitAnswered(p) ==
  LET r == request[p]["submit"] IN
  /\ r.pc \in {"ok", "failed"}
  /\ IF r.pc = "ok" /\ r.kind = "patch"
       THEN Send(p, "submit", "submit", NoAnswers, r.form) /\ UNCHANGED formPage
       ELSE /\ request' = [request EXCEPT ![p]["submit"] = NoRequest]
            /\ formPage' = [formPage EXCEPT ![p] = IF r.pc = "ok" \/ @.at = "closed" THEN ClosedForm
                                                   ELSE [@ EXCEPT !.status = "editing"]]
  /\ UNCHANGED <<published, case, values, files, formFaults, formClicks, doubt>>

Leave(p) ==
  /\ formPage[p].at = "form"
  /\ formPage' = [formPage EXCEPT ![p] = ClosedForm]
  /\ UNCHANGED <<published, case, values, files, request, formFaults, formClicks, doubt>>

----------------------------------------------------------------------------
(* The API.  The answers are written to MongoDB between the reads and the  *)
(* commit, whatever becomes of the commit.                                 *)

At(p, lane, kinds, pc) == request[p][lane].pc = pc /\ request[p][lane].kind \in kinds

Required(kind) == IF kind = "resubmit" THEN "returned" ELSE "draft"

ReadCase(p, lane) ==
  LET r == request[p][lane] IN
  /\ r.pc = "sent"
  /\ request' = [request EXCEPT ![p][lane] =
       IF case.status # Required(r.kind)
         THEN [NoRequest EXCEPT !.pc = "failed", !.kind = r.kind, !.form = r.form]
       ELSE [r EXCEPT !.pc = "read", !.base = IF r.kind = "resubmit" THEN values ELSE @,
                      !.version = IF r.kind = "submit" THEN published ELSE case.version]]
  /\ UNCHANGED <<published, case, values, files, formPage, formFaults, formClicks, doubt>>

(* A PATCH replaces the answers, a resubmission is laid over them.         *)
UpsertCaseValues(p, lane) ==
  LET r == request[p][lane]
      written == IF r.kind = "resubmit"
                   THEN [f \in DOMAIN r.base \cup DOMAIN r.payload |->
                           IF f \in DOMAIN r.payload THEN r.payload[f] ELSE r.base[f]]
                   ELSE r.payload
  IN
  /\ At(p, lane, {"patch", "resubmit"}, "read")
  /\ values' = written
  /\ request' = [request EXCEPT ![p][lane].pc = "wrote", ![p][lane].payload = NoAnswers,
                                ![p][lane].base = NoAnswers]
  /\ doubt' = IF case.status # Required(r.kind)
                  \/ \E q \in FormPage : <<q, lane>> # <<p, "submit">> /\ Submitting(q)
                THEN Doubting("overlap")
              ELSE IF VisibleFields(r.form, written) # VisibleFields(r.form, r.payload)
                THEN Doubting("hidden")
              ELSE IF written # r.payload THEN Doubting("kept") ELSE doubt
  /\ UNCHANGED <<published, case, files, formPage, formFaults, formClicks>>

(* A commit bumps the row version, which is only ever compared with the one *)
(* read: whoever else has read the row holds a stale one.                  *)
Answered(p, lane, pc) ==
  [request EXCEPT ![p][lane] = [NoRequest EXCEPT !.pc = pc, !.kind = request[p][lane].kind,
                                                 !.form = request[p][lane].form]]

Staled(requests) ==
  [q \in FormPage |-> [lane \in {"save", "submit"} |->
     IF requests[q][lane].pc \in {"read", "wrote"}
       THEN [requests[q][lane] EXCEPT !.stale = TRUE] ELSE requests[q][lane]]]

Succeed(p, lane) ==
  LET r == request[p][lane] IN
  /\ case' = [status |-> IF r.kind = "patch" THEN case.status ELSE "active", version |-> r.version]
  /\ request' = Staled(Answered(p, lane, "ok"))
  /\ doubt' = IF r.kind # "patch" /\ r.version # r.form THEN Doubting("republished") ELSE doubt

Written(p, lane) ==
  request[p][lane].pc = IF request[p][lane].kind = "submit" THEN "read" ELSE "wrote"

(* updateCaseState on the row version read.                                *)
Commit(p, lane) ==
  /\ Written(p, lane)
  /\ IF request[p][lane].stale
       THEN request' = Answered(p, lane, "failed") /\ UNCHANGED <<case, doubt>>
       ELSE Succeed(p, lane)
  /\ UNCHANGED <<published, values, files, formPage, formFaults, formClicks>>

(* A request that does not arrive, or an answer that does not.             *)
LoseRequest(p, lane) ==
  /\ request[p][lane].pc \in {"sent", "ok"} /\ formFaults < MaxFormFaults
  /\ formFaults' = formFaults + 1
  /\ request' = Answered(p, lane, "failed")
  /\ UNCHANGED <<published, case, values, files, formPage, formClicks, doubt>>

(* An approver returns the case; somebody publishes another version.       *)
ReturnCase ==
  /\ case.status = "active"
  /\ case' = [case EXCEPT !.status = "returned"]
  /\ request' = Staled(request)
  /\ UNCHANGED <<published, values, files, formPage, formFaults, formClicks, doubt>>

Publish ==
  /\ published + 1 \in Version
  /\ published' = published + 1
  /\ UNCHANGED <<case, values, files, formPage, request, formFaults, formClicks, doubt>>

----------------------------------------------------------------------------

PageStep(p) ==
  \/ Open(p) \/ Leave(p) \/ OnSaveDraft(p) \/ Submit(p) \/ SaveAnswered(p) \/ SubmitAnswered(p)
  \/ \E f \in Shown(p) \ FileField : \E answer \in Answer[f] : SetValue(p, f, answer)
  \/ \E f \in Shown(p) \cap FileField : AddAttachment(p, f) \/ RemoveAttachment(p, f)

ApiStep(p, lane) == ReadCase(p, lane) \/ UpsertCaseValues(p, lane) \/ Commit(p, lane)

FormNext ==
  \/ \E p \in FormPage : PageStep(p)
  \/ \E p \in FormPage, lane \in {"save", "submit"} : ApiStep(p, lane) \/ LoseRequest(p, lane)
  \/ ReturnCase \/ Publish

FormSpec == FormInit /\ [][FormNext]_formVars

----------------------------------------------------------------------------

(* Types: a page's answers belong to its form, one request per lane.       *)
TypeOK ==
  LET answers(a) == /\ DOMAIN a \subseteq FormField \ FileField
                    /\ \A f \in DOMAIN a : a[f] \in Answer[f]
  IN
  /\ published \in Version /\ case.version \in Version
  /\ case.status \in {"none", "draft", "active", "returned"}
  /\ answers(values) /\ files \subseteq FileField
  /\ formFaults \in 0 .. MaxFormFaults /\ formClicks \in 0 .. MaxFormClicks
  /\ doubt \in {"none", "kept", "overlap", "republished", "file", "hidden"}
  /\ \A p \in FormPage :
       /\ formPage[p].at \in {"closed", "form"}
       /\ formPage[p].status \in {"editing", "submitting"}
       /\ answers(formPage[p].values) /\ formPage[p].files \subseteq FileField
       /\ request[p]["save"].kind = "patch"
       /\ \A lane \in {"save", "submit"} :
            /\ request[p][lane].pc \in {"none", "sent", "read", "wrote", "ok", "failed"}
            /\ answers(request[p][lane].payload)
            /\ request[p][lane].version \in Version

(* A case under way holds a complete and valid set of answers to the form  *)
(* it is pinned to, although only the browser ever checks: unless another  *)
(* write overtook the submission's own or came after the case had moved    *)
(* on, a version came out after the form was opened, a file went in        *)
(* another page, or an answer that was hidden, or kept by a resubmission,  *)
(* made the form ask for something else.                                   *)
SubmittedAnswersAreValid ==
  doubt \in {"none", "kept"} => ValidateFields(case.version, values, files) = {}

(* "Only visible answers are ever sent": nothing the form, answered like   *)
(* that, would not have asked is stored with the case.  With the same      *)
(* exceptions, and one: a resubmission keeps the answers it did not send.  *)
NothingHiddenIsStored ==
  doubt = "none" => DOMAIN values \subseteq VisibleFields(case.version, values)

(* Types, and what a case under way was submitted with: all its form asks, *)
(* and no more.                                                            *)
SubmissionsAreSound ==
  /\ TypeOK
  /\ case.status = "active" => SubmittedAnswersAreValid /\ NothingHiddenIsStored

(* What the engine evaluates a rule against when the case is submitted.    *)
EngineScope == [values |-> values, context |-> Context(Department)]

(* A comparison that cannot be made never lets a rule through by itself:   *)
(* without a negation a rule matches exactly when it is true in the three- *)
(* valued reading, with one it does so wherever that reading decides.      *)
(* Unless the rule asks whether values of two types differ, which the code *)
(* takes to be so.  And what the timeline shows of a decision has every    *)
(* warning, whichever branch settled it; equalities between types and      *)
(* orders with nothing have none.                                          *)
UnusableNeverMatches ==
  case.status = "active" => \A rule \in RuleCondition :
    LET truth == Truth(rule, EngineScope) IN
    /\ ~Differs(rule, EngineScope) /\ (~Negated(rule) \/ truth # "unusable")
         => (Matched(rule, EngineScope) = (truth = "true"))
    /\ {l \in Leaves(rule) : LeafWarns(l, EngineScope)}
         = EvaluateCondition(rule, EngineScope).warnings

(* "When the underlying comparison is unevaluable they return false, not   *)
(* true" (operators.ts:79, of neq, notIn and notContains; PRD.md:803 lists *)
(* "Type mismatch (string vs number)" as false): no comparison of a text   *)
(* with a number is ever met.                                              *)
MismatchesAreFalse ==
  case.status = "active" => \A rule \in RuleCondition : \A l \in Leaves(rule) :
    LET actual == ResolveFieldValue(l.field, EngineScope).value IN
    {actual.type, l.value.type} = {"string", "number"} => ~LeafMatches(l, EngineScope)
=============================================================================
