----------------------------- MODULE PagesProofs -----------------------------
(***************************************************************************)
(* What holds of the pages of the web application for any number of them,  *)
(* of steps, rules, edits and clicks: a clean page shows what is saved and *)
(* a published workflow runs (ProcessBuilder); templates hold what was     *)
(* shown and copies stay within their organisation (TemplateLibrary).      *)
(***************************************************************************)
EXTENDS ProcessBuilder, TemplateLibrary, SequenceTheorems, WellFoundedInduction, TLAPS

----------------------------------------------------------------------------
(* Helpers.                                                                *)

LEMMA LeastIndex ==
  ASSUME NEW S, S \subseteq Nat, S # {}
  PROVE  \E n \in S : \A m \in S : n <= m
<1>1. PICK n \in S : \A m \in S : <<m, n>> \notin OpToRel(<, Nat)
  BY WFMin, NatLessThanWellFounded
<1>2. ASSUME NEW m \in S PROVE n <= m
  <2>1. n \in Nat /\ m \in Nat
    BY <1>1
  <2>2. <<m, n>> \in Nat \X Nat
    BY <2>1
  <2>3. ~(m < n)
    BY <1>1, <2>2 DEF OpToRel
  <2> QED
    BY <2>1, <2>3
<1> QED
  BY <1>1, <1>2

(* keyFrom and stepKeyFrom give a key that no sibling has.                 *)
LEMMA KeyIsFree ==
  ASSUME NEW K, NEW keys \in Seq(K), NEW existing, \E i \in DOMAIN keys : keys[i] \notin existing
  PROVE  KeyFrom(keys, existing) \in ToSet(keys) \ existing
<1> DEFINE S == {i \in DOMAIN keys : keys[i] \notin existing}
<1>1. DOMAIN keys = 1 .. Len(keys) /\ Len(keys) \in Nat
  OBVIOUS
<1>2. S \subseteq Nat /\ S # {}
  BY <1>1
<1>3. PICK n \in S : \A m \in S : n <= m
  BY <1>2, LeastIndex
<1>4. \A j \in 1 .. (n - 1) : keys[j] \in existing
  <2> SUFFICES ASSUME NEW j \in 1 .. (n - 1), keys[j] \notin existing
               PROVE  FALSE
    OBVIOUS
  <2>1. n \in 1 .. Len(keys)
    BY <1>1
  <2>2. j \in S
    BY <1>1, <2>1
  <2> QED
    BY <1>3, <2>1, <2>2
<1>5. \E i \in DOMAIN keys : keys[i] \notin existing /\ \A j \in 1 .. (i - 1) : keys[j] \in existing
  BY <1>3, <1>4
<1>6. PICK i \in DOMAIN keys : keys[i] \notin existing /\ KeyFrom(keys, existing) = keys[i]
  BY <1>5 DEF KeyFrom
<1> QED
  BY <1>6 DEF ToSet

----------------------------------------------------------------------------
(* Documents stay documents, whatever is clicked.                          *)

LEMMA AddedRuleIsThere ==
  ASSUME NEW rules \in Seq(TransitionRule), NEW rule \in TransitionRule
  PROVE  AddTransitionRule(rules, rule) \in Seq(TransitionRule)
<1>1. CASE IsDefault(rule) \/ ~EndsWithDefault(rules)
  BY <1>1 DEF AddTransitionRule
<1>2. CASE ~(IsDefault(rule) \/ ~EndsWithDefault(rules))
  <2>1. rules # <<>>
    BY <1>2 DEF EndsWithDefault
  <2>2. Last(rules) \in TransitionRule
    BY <2>1 DEF Last
  <2>3. Front(rules) \in Seq(TransitionRule)
    BY <2>1 DEF Front
  <2> QED
    BY <1>2, <2>2, <2>3 DEF AddTransitionRule
<1> QED
  BY <1>1, <1>2

LEMMA TargetIsAPlace ==
  ASSUME NEW keys \in SUBSET BuilderStep, NEW doc \in DocumentOf(keys), NEW key
  PROVE  Target(doc, key) \subseteq BuilderStep \cup Terminal \cup {Unset}
BY DEF Target, StepsOf, DocumentOf

LEMMA DecisionEditIsThere ==
  ASSUME NEW keys \in SUBSET BuilderStep, NEW doc \in DocumentOf(keys), NEW key,
         NEW rules \in Seq(TransitionRule), NEW r \in DecisionEdits(doc, key, rules)
  PROVE  r \in Seq(TransitionRule)
<1>1. Target(doc, key) \subseteq BuilderStep \cup Terminal \cup {Unset}
  BY TargetIsAPlace
<1>2. doc.fields \subseteq Field
  BY DEF DocumentOf
<1>3. DOMAIN rules = 1 .. Len(rules) /\ Len(rules) \in Nat
  OBVIOUS
<1>4. ASSUME NEW w \in {Unset} \cup (IF EndsWithDefault(rules) THEN {} ELSE {Otherwise}),
             NEW t \in Target(doc, key) \ {Unset},
             r = AddTransitionRule(rules, [when |-> w, to |-> t])
      PROVE  r \in Seq(TransitionRule)
  <2>1. [when |-> w, to |-> t] \in TransitionRule
    <3>1. w \in {Unset, Otherwise}
      OBVIOUS
    <3> QED
      BY <1>1, <3>1 DEF TransitionRule
  <2> QED
    BY <1>4, <2>1, AddedRuleIsThere
<1>5. ASSUME NEW i \in DOMAIN rules, r = RemoveAt(rules, i)
      PROVE  r \in Seq(TransitionRule)
  <2>1. SubSeq(rules, 1, i - 1) \in Seq(TransitionRule) /\ SubSeq(rules, i + 1, Len(rules)) \in Seq(TransitionRule)
    BY <1>3
  <2> QED
    BY <1>5, <2>1 DEF RemoveAt
<1>6. ASSUME NEW i \in 1 .. (Len(rules) - 1), r = Swapped(rules, i, i + 1)
      PROVE  r \in Seq(TransitionRule)
  <2>1. i \in DOMAIN rules /\ i + 1 \in DOMAIN rules
    BY <1>3
  <2>2. rules[i] \in TransitionRule /\ rules[i + 1] \in TransitionRule
    BY <2>1
  <2> QED
    BY <1>6, <2>1, <2>2 DEF Swapped
<1>7. ASSUME NEW i \in DOMAIN rules, NEW t \in Target(doc, key), r = [rules EXCEPT ![i].to = t]
      PROVE  r \in Seq(TransitionRule)
  <2>1. [rules[i] EXCEPT !.to = t] \in TransitionRule
    <3>1. rules[i] \in TransitionRule
      BY <1>3
    <3> QED
      BY <1>1, <3>1 DEF TransitionRule
  <2>2. r = [rules EXCEPT ![i] = [rules[i] EXCEPT !.to = t]]
    BY <1>7
  <2> HIDE DEF TransitionRule
  <2> QED
    BY <2>1, <2>2
<1>8. ASSUME NEW i \in DOMAIN rules, NEW w \in doc.fields \cup {Unset}, r = [rules EXCEPT ![i].when = w]
      PROVE  r \in Seq(TransitionRule)
  <2>1. [rules[i] EXCEPT !.when = w] \in TransitionRule
    <3>1. rules[i] \in TransitionRule
      BY <1>3
    <3> QED
      BY <1>2, <3>1 DEF TransitionRule
  <2>2. r = [rules EXCEPT ![i] = [rules[i] EXCEPT !.when = w]]
    BY <1>8
  <2> QED
    BY <2>1, <2>2
<1> DEFINE subjects == {Unset} \cup (IF EndsWithDefault(rules) THEN {} ELSE {Otherwise})
           targets == Target(doc, key) \ {Unset}
           Added(w, t) == AddTransitionRule(rules, [when |-> w, to |-> t])
           added == {Added(w, t) : w \in subjects, t \in targets}
           removed == {RemoveAt(rules, i) : i \in DOMAIN rules}
           moved == {Swapped(rules, i, i + 1) : i \in 1 .. (Len(rules) - 1)}
           led == {[rules EXCEPT ![i].to = t] : i \in DOMAIN rules, t \in Target(doc, key)}
           conditional == {j \in DOMAIN rules : ~IsDefault(rules[j])}
           asking == doc.fields \cup {Unset}
           Asked(i, w) == [rules EXCEPT ![i].when = w]
           asked == {Asked(i, w) : i \in conditional, w \in asking}
<1>9. r \in added => r \in Seq(TransitionRule)
  <2>1. \A w \in subjects, t \in targets : r = Added(w, t) => r \in Seq(TransitionRule)
    BY <1>4
  <2> HIDE DEF subjects, targets, Added
  <2> QED
    BY <2>1
<1>10. r \in removed => r \in Seq(TransitionRule)
  BY <1>5
<1>11. r \in moved => r \in Seq(TransitionRule)
  BY <1>6
<1>12. r \in led => r \in Seq(TransitionRule)
  <2> DEFINE Led(i, t) == [rules EXCEPT ![i].to = t]
  <2>1. \A i \in DOMAIN rules, t \in Target(doc, key) : r = Led(i, t) => r \in Seq(TransitionRule)
    BY <1>7
  <2>2. r \in led => \E i \in DOMAIN rules, t \in Target(doc, key) : r = Led(i, t)
    OBVIOUS
  <2> HIDE DEF led, Led
  <2> QED
    BY <2>1, <2>2
<1>13. r \in asked => r \in Seq(TransitionRule)
  <2>1. \A i \in conditional, w \in asking : r = Asked(i, w) => r \in Seq(TransitionRule)
    BY <1>8
  <2> HIDE DEF conditional, asking, Asked
  <2> QED
    BY <2>1
<1>14. DecisionEdits(doc, key, rules) =
        (IF Len(rules) < MaxRules THEN added ELSE {}) \cup removed \cup moved \cup led \cup asked
  BY DEF DecisionEdits
<1> HIDE DEF subjects, targets, added, removed, moved, led, asked
<1>15. r \in added \cup removed \cup moved \cup led \cup asked
  BY <1>14
<1> QED
  BY <1>9, <1>10, <1>11, <1>12, <1>13, <1>15

LEMMA BlankStepIsThere == BlankStep \in StepDocument
<1>1. "approval" \in DOMAIN Defaults /\ Defaults["approval"] \subseteq DecisionAction
  BY BuilderAssumption
<1>2. [d \in DecisionAction |-> <<>>] \in [DecisionAction -> Seq(TransitionRule)]
  OBVIOUS
<1> QED
  BY <1>1, <1>2 DEF BlankStep, StepDocument

LEMMA StepEditIsThere ==
  ASSUME NEW keys \in SUBSET BuilderStep, NEW doc \in DocumentOf(keys), NEW key \in keys,
         NEW s \in StepEdits(doc, key)
  PROVE  s \in StepDocument
<1> DEFINE step == doc.steps[key]
<1>1. step \in StepDocument
  BY DEF DocumentOf
<1>2. ASSUME NEW type \in DOMAIN Defaults, s = [step EXCEPT !.type = type, !.decisions = Defaults[type]]
      PROVE  s \in StepDocument
  BY <1>1, <1>2, BuilderAssumption DEF StepDocument
<1>3. ASSUME NEW d \in DecisionAction, s = [step EXCEPT !.decisions = (@ \ {d}) \cup ({d} \ @)]
      PROVE  s \in StepDocument
  <2>1. (step.decisions \ {d}) \cup ({d} \ step.decisions) \in SUBSET DecisionAction
    BY <1>1 DEF StepDocument
  <2>2. s = [step EXCEPT !.decisions = (step.decisions \ {d}) \cup ({d} \ step.decisions)]
    BY <1>3
  <2> QED
    BY <1>1, <2>1, <2>2 DEF StepDocument
<1>4. ASSUME NEW a \in AssigneeEdits(doc), s = [step EXCEPT !.assignee = a]
      PROVE  s \in StepDocument
  <2>1. a \in Field \cup {"manager", Unset}
    BY DEF AssigneeEdits, DocumentOf
  <2> QED
    BY <1>1, <1>4, <2>1 DEF StepDocument
<1>5. ASSUME NEW d \in step.decisions, NEW r \in DecisionEdits(doc, key, step.rules[d]),
             s = [step EXCEPT !.rules[d] = r]
      PROVE  s \in StepDocument
  <2>1. d \in DecisionAction /\ step.rules \in [DecisionAction -> Seq(TransitionRule)]
    BY <1>1 DEF StepDocument
  <2>2. step.rules[d] \in Seq(TransitionRule)
    BY <2>1
  <2>3. r \in Seq(TransitionRule)
    BY <2>2, DecisionEditIsThere
  <2>4. [step.rules EXCEPT ![d] = r] \in [DecisionAction -> Seq(TransitionRule)]
    BY <2>1, <2>3
  <2>5. s = [step EXCEPT !.rules = [step.rules EXCEPT ![d] = r]]
    BY <1>5
  <2> QED
    BY <1>1, <2>4, <2>5 DEF StepDocument
<1> QED
  BY <1>2, <1>3, <1>4, <1>5 DEF StepEdits

LEMMA NewKeyIsFree ==
  ASSUME NEW keys \in SUBSET BuilderStep, keys # BuilderStep
  PROVE  KeyFrom(StepKeys, keys) \in BuilderStep \ keys
<1>1. StepKeys \in Seq(BuilderStep)
  BY BuilderAssumption
<1>2. \E i \in DOMAIN StepKeys : StepKeys[i] \notin keys
  BY DEF BuilderStep, ToSet
<1>3. KeyFrom(StepKeys, keys) \in ToSet(StepKeys) \ keys
  BY <1>1, <1>2, KeyIsFree
<1> QED
  BY <1>3 DEF BuilderStep

LEMMA NewFieldIsFree ==
  ASSUME NEW fields \in SUBSET Field, fields # Field
  PROVE  KeyFrom(FieldKeys, fields) \in Field \ fields
<1>1. FieldKeys \in Seq(Field)
  BY BuilderAssumption
<1>2. \E i \in DOMAIN FieldKeys : FieldKeys[i] \notin fields
  BY DEF Field, ToSet
<1>3. KeyFrom(FieldKeys, fields) \in ToSet(FieldKeys) \ fields
  BY <1>1, <1>2, KeyIsFree
<1> QED
  BY <1>3 DEF Field

(* A click leaves a document whose steps have keys and whose rules are     *)
(* rules, and nothing else is one click away (document-ops.ts).            *)
LEMMA EditsGiveDocuments ==
  ASSUME NEW doc, IsDraftDocument(doc), NEW e \in Edits(doc)
  PROVE  IsDraftDocument(e)
<1>1. PICK keys \in SUBSET BuilderStep : doc \in DocumentOf(keys)
  BY DEF IsDraftDocument
<1>2. /\ doc = [start |-> doc.start, title |-> doc.title, fields |-> doc.fields, steps |-> doc.steps]
      /\ doc.start \in BuilderStep \cup Terminal /\ doc.title \in Field \cup {Unset}
      /\ doc.fields \in SUBSET Field /\ doc.steps \in [keys -> StepDocument]
  BY <1>1, Zenon DEF DocumentOf
<1>3. StepsOf(doc) = keys
  BY <1>2 DEF StepsOf
<1>4. CASE keys # BuilderStep /\ e = AddStep(doc)
  <2> DEFINE key == KeyFrom(StepKeys, keys)
             steps == [k \in keys \cup {key} |-> IF k = key THEN BlankStep ELSE doc.steps[k]]
  <2>1. key \in BuilderStep
    BY <1>4, NewKeyIsFree
  <2>2. keys \cup {key} \in SUBSET BuilderStep
    BY <2>1
  <2>3. steps \in [keys \cup {key} -> StepDocument]
    BY <1>2, BlankStepIsThere
  <2>4. e = [doc EXCEPT !.start = IF keys = {} THEN key ELSE doc.start, !.steps = steps]
    BY <1>2, <1>3, <1>4 DEF AddStep
  <2>5. (IF keys = {} THEN key ELSE doc.start) \in BuilderStep \cup Terminal
    BY <1>2, <2>1
  <2> HIDE DEF key, steps
  <2>6. e \in DocumentOf(keys \cup {key})
    BY <1>2, <2>3, <2>4, <2>5 DEF DocumentOf
  <2> QED
    BY <2>2, <2>6 DEF IsDraftDocument
<1>5. CASE doc.fields # Field /\ e = AddField(doc)
  <2>1. KeyFrom(FieldKeys, doc.fields) \in Field
    BY <1>2, <1>5, NewFieldIsFree
  <2>2. e = [doc EXCEPT !.fields = doc.fields \cup {KeyFrom(FieldKeys, doc.fields)}]
    BY <1>2, <1>5 DEF AddField
  <2>3. e \in DocumentOf(keys)
    BY <1>2, <2>1, <2>2 DEF DocumentOf
  <2> QED
    BY <2>3 DEF IsDraftDocument
<1>6. ASSUME NEW key \in keys, e = RemoveStep(doc, key)
      PROVE  IsDraftDocument(e)
  <2> DEFINE steps == [k \in keys \ {key} |-> doc.steps[k]]
  <2>1. steps \in [keys \ {key} -> StepDocument]
    BY <1>2
  <2>2. e = [doc EXCEPT !.steps = steps]
    BY <1>3, <1>6 DEF RemoveStep
  <2>3. keys \ {key} \in SUBSET BuilderStep
    OBVIOUS
  <2> HIDE DEF steps
  <2>4. e \in DocumentOf(keys \ {key})
    BY <1>2, <2>1, <2>2 DEF DocumentOf
  <2> QED
    BY <2>3, <2>4 DEF IsDraftDocument
<1>7. ASSUME NEW f \in doc.fields, e = RemoveField(doc, f)
      PROVE  IsDraftDocument(e)
  <2>1. e = [doc EXCEPT !.fields = doc.fields \ {f}]
    BY <1>2, <1>7 DEF RemoveField
  <2>2. e \in DocumentOf(keys)
    BY <1>2, <2>1 DEF DocumentOf
  <2> QED
    BY <2>2 DEF IsDraftDocument
<1>8. ASSUME NEW key \in keys, e = [doc EXCEPT !.start = key]
      PROVE  IsDraftDocument(e)
  <2>1. e \in DocumentOf(keys)
    BY <1>2, <1>8 DEF DocumentOf
  <2> QED
    BY <2>1 DEF IsDraftDocument
<1>9. ASSUME NEW key \in keys, NEW s \in StepEdits(doc, key), e = [doc EXCEPT !.steps[key] = s]
      PROVE  IsDraftDocument(e)
  <2>1. s \in StepDocument
    BY <1>1, StepEditIsThere
  <2>2. e = [doc EXCEPT !.steps = [doc.steps EXCEPT ![key] = s]]
    BY <1>9
  <2>3. [doc.steps EXCEPT ![key] = s] \in [keys -> StepDocument]
    BY <1>2, <2>1
  <2>4. e \in DocumentOf(keys)
    BY <1>2, <2>2, <2>3 DEF DocumentOf
  <2> QED
    BY <2>4 DEF IsDraftDocument
<1>10. CASE e \in (IF keys # BuilderStep THEN {AddStep(doc)} ELSE {})
            \/ e \in (IF doc.fields # Field THEN {AddField(doc)} ELSE {})
  BY <1>4, <1>5, <1>10
<1>11. CASE e \in {RemoveStep(doc, key) : key \in keys}
  BY <1>6, <1>11, Zenon
<1>12. CASE e \in {RemoveField(doc, f) : f \in doc.fields}
  BY <1>7, <1>12, Zenon
<1>13. CASE e \in {[doc EXCEPT !.start = key] : key \in keys}
  BY <1>8, <1>13, Zenon
<1>14. CASE e \in UNION {{[doc EXCEPT !.steps[key] = s] : s \in StepEdits(doc, key)} : key \in keys}
  <2>1. PICK key \in keys : e \in {[doc EXCEPT !.steps[key] = s] : s \in StepEdits(doc, key)}
    BY <1>14, Zenon
  <2>2. PICK s \in StepEdits(doc, key) : e = [doc EXCEPT !.steps[key] = s]
    BY <2>1, Zenon
  <2> QED
    BY <1>9, <2>2
<1> QED
  BY <1>3, <1>10, <1>11, <1>12, <1>13, <1>14, Zenon DEF Edits

LEMMA TitleGivesDocument ==
  ASSUME NEW doc, IsDraftDocument(doc), NEW f \in doc.fields \cup {Unset}
  PROVE  IsDraftDocument([doc EXCEPT !.title = f])
<1>1. PICK keys \in SUBSET BuilderStep : doc \in DocumentOf(keys)
  BY DEF IsDraftDocument
<1>2. [doc EXCEPT !.title = f] \in DocumentOf(keys)
  BY <1>1 DEF DocumentOf
<1> QED
  BY <1>2 DEF IsDraftDocument

----------------------------------------------------------------------------
(* The pages of a process.                                                 *)

Document == UNION {DocumentOf(keys) : keys \in SUBSET BuilderStep}

LEMMA DocumentsAreDocuments ==
  ASSUME NEW doc
  PROVE  doc \in Document <=> IsDraftDocument(doc)
BY DEF Document, IsDraftDocument

PageState ==
  [document : Document, dirty : BOOLEAN, call : {"none", "saving", "saved", "publishing"},
   publishing : BOOLEAN, sent : Document \cup {Unset}, late : BOOLEAN, behind : BOOLEAN]

IsPage(r) == r \in PageState /\ (r.call \in {"saving", "saved"} => r.sent \in Document)

(* What a page without changes shows, what its save sends and what its     *)
(* save has left there are the same, unless another page has saved.        *)
ShowsSaved(r, draft) ==
  /\ ~r.dirty /\ ~r.late /\ ~r.behind => r.document = draft
  /\ r.call \in {"saving", "saved"} /\ ~r.dirty /\ ~r.late => r.sent = r.document
  /\ r.call = "saved" /\ ~r.behind => r.sent = draft

(* What a publishing click saves runs, and is what it will publish, unless *)
(* another page has saved.                                                 *)
PublishesWhatRuns(r, draft) ==
  /\ r.call \in {"saving", "saved"} /\ r.publishing => ~Blocking(r.sent)
  /\ r.call = "publishing" /\ ~r.behind => ~Blocking(draft)

InOrder(r, draft) == IsPage(r) /\ ShowsSaved(r, draft) /\ PublishesWhatRuns(r, draft)

BuilderIInv ==
  /\ stored \in Document /\ live \in Document
  /\ mixed \/ ~Blocking(live)
  /\ page \in [Page -> PageState]
  /\ \A p \in Page : InOrder(page[p], stored)

LEMMA OpenedInOrder ==
  ASSUME NEW doc \in Document
  PROVE  InOrder(Opened(doc), doc)
BY DEF InOrder, IsPage, ShowsSaved, PublishesWhatRuns, Opened, PageState

LEMMA EditedInOrder ==
  ASSUME NEW draft, NEW r, InOrder(r, draft), NEW doc \in Document
  PROVE  /\ InOrder([r EXCEPT !.document = doc, !.dirty = TRUE], draft)
         /\ InOrder([r EXCEPT !.document = doc, !.late = TRUE], draft)
<1> DEFINE e == [r EXCEPT !.document = doc, !.dirty = TRUE]
           l == [r EXCEPT !.document = doc, !.late = TRUE]
<1>1. /\ e \in PageState
      /\ e.document = doc /\ e.dirty = TRUE /\ e.call = r.call /\ e.publishing = r.publishing
      /\ e.sent = r.sent /\ e.late = r.late /\ e.behind = r.behind
  BY DEF InOrder, IsPage, PageState
<1>2. /\ l \in PageState
      /\ l.document = doc /\ l.dirty = r.dirty /\ l.call = r.call /\ l.publishing = r.publishing
      /\ l.sent = r.sent /\ l.late = TRUE /\ l.behind = r.behind
  BY DEF InOrder, IsPage, PageState
<1> HIDE DEF e, l
<1>3. InOrder(e, draft)
  BY <1>1 DEF InOrder, IsPage, ShowsSaved, PublishesWhatRuns, PageState
<1>4. InOrder(l, draft)
  BY <1>2 DEF InOrder, IsPage, ShowsSaved, PublishesWhatRuns, PageState
<1> QED
  BY <1>3, <1>4 DEF e, l

LEMMA CalledInOrder ==
  ASSUME NEW draft, NEW r, InOrder(r, draft), r.call = "none", NEW publishing \in BOOLEAN,
         publishing => ~Blocking(r.document)
  PROVE  InOrder([r EXCEPT !.call = "saving", !.sent = r.document, !.publishing = publishing], draft)
<1> DEFINE e == [r EXCEPT !.call = "saving", !.sent = r.document, !.publishing = publishing]
<1>1. /\ e \in PageState
      /\ e.document = r.document /\ e.dirty = r.dirty /\ e.call = "saving" /\ e.publishing = publishing
      /\ e.sent = r.document /\ e.late = r.late /\ e.behind = r.behind
  BY DEF InOrder, IsPage, PageState
<1> HIDE DEF e
<1>2. InOrder(e, draft)
  BY <1>1 DEF InOrder, IsPage, ShowsSaved, PublishesWhatRuns, PageState
<1> QED
  BY <1>2 DEF e

LEMMA OverInOrder ==
  ASSUME NEW draft, NEW r, InOrder(r, draft)
  PROVE  InOrder([r EXCEPT !.call = "none", !.sent = Unset, !.publishing = FALSE], draft)
<1> DEFINE e == [r EXCEPT !.call = "none", !.sent = Unset, !.publishing = FALSE]
<1>1. /\ e \in PageState
      /\ e.document = r.document /\ e.dirty = r.dirty /\ e.call = "none" /\ e.publishing = FALSE
      /\ e.sent = Unset /\ e.late = r.late /\ e.behind = r.behind
  BY DEF InOrder, IsPage, PageState
<1> HIDE DEF e
<1>2. InOrder(e, draft)
  BY <1>1 DEF InOrder, IsPage, ShowsSaved, PublishesWhatRuns, PageState
<1> QED
  BY <1>2 DEF e

LEMMA SentInOrder ==
  ASSUME NEW draft, NEW r, InOrder(r, draft), r.call = "saving"
  PROVE  InOrder([r EXCEPT !.call = "saved", !.behind = FALSE], r.sent)
<1> DEFINE e == [r EXCEPT !.call = "saved", !.behind = FALSE]
<1>1. /\ e \in PageState
      /\ e.document = r.document /\ e.dirty = r.dirty /\ e.call = "saved" /\ e.publishing = r.publishing
      /\ e.sent = r.sent /\ e.late = r.late /\ e.behind = FALSE
  BY DEF InOrder, IsPage, PageState
<1> HIDE DEF e
<1>2. InOrder(e, r.sent)
  BY <1>1 DEF InOrder, IsPage, ShowsSaved, PublishesWhatRuns, PageState
<1> QED
  BY <1>2 DEF e

LEMMA LeftBehindInOrder ==
  ASSUME NEW draft, NEW r, InOrder(r, draft), NEW other
  PROVE  InOrder([r EXCEPT !.behind = TRUE], other)
<1> DEFINE e == [r EXCEPT !.behind = TRUE]
<1>1. /\ e \in PageState
      /\ e.document = r.document /\ e.dirty = r.dirty /\ e.call = r.call /\ e.publishing = r.publishing
      /\ e.sent = r.sent /\ e.late = r.late /\ e.behind = TRUE
  BY DEF InOrder, IsPage, PageState
<1> HIDE DEF e
<1>2. InOrder(e, other)
  BY <1>1 DEF InOrder, IsPage, ShowsSaved, PublishesWhatRuns, PageState
<1> QED
  BY <1>2 DEF e

LEMMA SavedInOrder ==
  ASSUME NEW draft, NEW r, InOrder(r, draft), r.call = "saved"
  PROVE  InOrder([r EXCEPT !.dirty = FALSE, !.late = (r.document # r.sent), !.sent = Unset,
                           !.publishing = FALSE,
                           !.call = IF r.publishing THEN "publishing" ELSE "none"], draft)
<1> DEFINE next == IF r.publishing THEN "publishing" ELSE "none"
           e == [r EXCEPT !.dirty = FALSE, !.late = (r.document # r.sent), !.sent = Unset,
                          !.publishing = FALSE, !.call = next]
<1>1. /\ e \in PageState
      /\ e.document = r.document /\ e.dirty = FALSE /\ e.call = next /\ e.publishing = FALSE
      /\ e.sent = Unset /\ e.late = (r.document # r.sent) /\ e.behind = r.behind
  BY DEF InOrder, IsPage, PageState
<1>2. next \in {"publishing", "none"} /\ (next = "publishing" => r.publishing)
  OBVIOUS
<1> HIDE DEF e, next
<1>3. IsPage(e)
  BY <1>1, <1>2 DEF InOrder, IsPage, PageState
<1>4. ShowsSaved(e, draft)
  BY <1>1, <1>2 DEF InOrder, ShowsSaved
<1>5. PublishesWhatRuns(e, draft)
  BY <1>1, <1>2 DEF InOrder, ShowsSaved, PublishesWhatRuns
<1>6. InOrder(e, draft)
  BY <1>3, <1>4, <1>5 DEF InOrder
<1> QED
  BY <1>6 DEF e, next

LEMMA OnePageMoves ==
  ASSUME BuilderIInv, NEW p \in Page, NEW e, InOrder(e, stored),
         page' = [page EXCEPT ![p] = e], UNCHANGED stored
  PROVE  page' \in [Page -> PageState] /\ \A q \in Page : InOrder(page'[q], stored')
<1>1. e \in PageState
  BY DEF InOrder, IsPage
<1>2. page' \in [Page -> PageState]
  BY <1>1 DEF BuilderIInv
<1>3. ASSUME NEW q \in Page PROVE InOrder(page'[q], stored)
  <2>1. page'[q] = IF q = p THEN e ELSE page[q]
    BY DEF BuilderIInv
  <2>2. InOrder(page[q], stored)
    BY DEF BuilderIInv
  <2> QED
    BY <2>1, <2>2
<1> QED
  BY <1>2, <1>3

LEMMA BuildersStartInOrder == BuilderInit => BuilderIInv
<1> SUFFICES ASSUME BuilderInit PROVE BuilderIInv
  OBVIOUS
<1>1. IsDraftDocument(stored) /\ ~Blocking(stored) /\ live = stored
  BY DraftsAssumption DEF BuilderInit
<1>2. stored \in Document
  BY <1>1, DocumentsAreDocuments
<1>3. InOrder(Opened(stored), stored)
  BY <1>2, OpenedInOrder
<1>4. Opened(stored) \in PageState
  BY <1>3 DEF InOrder, IsPage
<1>5. page = [p \in Page |-> Opened(stored)]
  BY DEF BuilderInit
<1>6. page \in [Page -> PageState] /\ \A p \in Page : InOrder(page[p], stored)
  BY <1>3, <1>4, <1>5
<1> QED
  BY <1>1, <1>2, <1>6 DEF BuilderIInv

LEMMA EditStep ==
  ASSUME BuilderIInv, NEW p \in Page, Edit(p) \/ EditSettings(p)
  PROVE  BuilderIInv'
<1>1. InOrder(page[p], stored) /\ page \in [Page -> PageState]
  BY DEF BuilderIInv
<1>2. page[p].document \in Document
  BY <1>1 DEF PageState
<1>3. UNCHANGED <<stored, live, mixed>>
  BY DEF Edit, EditSettings
<1>4. \E e : InOrder(e, stored) /\ page' = [page EXCEPT ![p] = e]
  <2>1. CASE Edit(p)
    <3>1. PICK doc \in Edits(page[p].document) :
            page' = [page EXCEPT ![p].document = doc, ![p].dirty = TRUE]
      BY <2>1 DEF Edit
    <3>2. IsDraftDocument(page[p].document)
      BY <1>2, DocumentsAreDocuments
    <3>3. doc \in Document
      BY <3>2, EditsGiveDocuments, DocumentsAreDocuments
    <3> DEFINE e == [page[p] EXCEPT !.document = doc, !.dirty = TRUE]
    <3>4. page' = [page EXCEPT ![p] = e]
      BY <3>1, <1>1
    <3>5. InOrder(e, stored)
      BY <1>1, <3>3, EditedInOrder
    <3> QED
      BY <3>4, <3>5
  <2>2. CASE EditSettings(p)
    <3>1. PICK f \in page[p].document.fields \cup {Unset} :
            page' = [page EXCEPT ![p].document.title = f, ![p].late = TRUE]
      BY <2>2 DEF EditSettings
    <3> DEFINE doc == [page[p].document EXCEPT !.title = f]
    <3>2. IsDraftDocument(page[p].document)
      BY <1>2, DocumentsAreDocuments
    <3>3. doc \in Document
      BY <3>2, TitleGivesDocument, DocumentsAreDocuments
    <3> DEFINE e == [page[p] EXCEPT !.document = doc, !.late = TRUE]
    <3>4. page' = [page EXCEPT ![p] = e]
      BY <3>1, <1>1
    <3>5. InOrder(e, stored)
      <4> HIDE DEF doc
      <4> QED
        BY <1>1, <3>3, EditedInOrder
    <3> QED
      BY <3>4, <3>5
  <2> QED
    BY <2>1, <2>2
<1>5. page' \in [Page -> PageState] /\ \A q \in Page : InOrder(page'[q], stored')
  BY <1>3, <1>4, OnePageMoves
<1> QED
  BY <1>3, <1>5 DEF BuilderIInv

LEMMA LoadStep ==
  ASSUME BuilderIInv, NEW p \in Page, Load(p)
  PROVE  BuilderIInv'
<1>1. page' = [page EXCEPT ![p] = Opened(stored)] /\ UNCHANGED <<stored, live, mixed>>
  BY DEF Load
<1>2. InOrder(Opened(stored), stored)
  BY OpenedInOrder DEF BuilderIInv
<1>3. page' \in [Page -> PageState] /\ \A q \in Page : InOrder(page'[q], stored')
  BY <1>1, <1>2, OnePageMoves
<1> QED
  BY <1>1, <1>3 DEF BuilderIInv

LEMMA CallStep ==
  ASSUME BuilderIInv, NEW p \in Page, ClickSave(p) \/ ClickPublish(p)
  PROVE  BuilderIInv'
<1>1. PICK publishing \in BOOLEAN : Call(p, publishing) /\ (publishing => ~Blocking(page[p].document))
  BY DEF ClickSave, ClickPublish
<1>2. InOrder(page[p], stored) /\ page \in [Page -> PageState]
  BY DEF BuilderIInv
<1> DEFINE e == [page[p] EXCEPT !.call = "saving", !.sent = page[p].document, !.publishing = publishing]
<1>3. page' = [page EXCEPT ![p] = e] /\ UNCHANGED <<stored, live, mixed>>
  BY <1>1, <1>2 DEF Call
<1>4. InOrder(e, stored)
  BY <1>1, <1>2, CalledInOrder DEF Call
<1>5. page' \in [Page -> PageState] /\ \A q \in Page : InOrder(page'[q], stored')
  <2> HIDE DEF e
  <2> QED
    BY <1>3, <1>4, OnePageMoves
<1> QED
  BY <1>3, <1>5 DEF BuilderIInv

LEMMA OverStep ==
  ASSUME BuilderIInv, NEW p \in Page, Over(p), UNCHANGED stored
  PROVE  page' \in [Page -> PageState] /\ \A q \in Page : InOrder(page'[q], stored')
<1>1. InOrder(page[p], stored) /\ page \in [Page -> PageState]
  BY DEF BuilderIInv
<1> DEFINE e == [page[p] EXCEPT !.call = "none", !.sent = Unset, !.publishing = FALSE]
<1>2. page' = [page EXCEPT ![p] = e]
  BY <1>1 DEF Over
<1>3. InOrder(e, stored)
  BY <1>1, OverInOrder
<1> HIDE DEF e
<1> QED
  BY <1>2, <1>3, OnePageMoves

(* A save makes every other page one that has been overtaken.              *)
LEMMA SaveDraftStep ==
  ASSUME BuilderIInv, NEW p \in Page, SaveDraft(p)
  PROVE  BuilderIInv'
<1>1. InOrder(page[p], stored) /\ page \in [Page -> PageState] /\ page[p].call = "saving"
  BY DEF BuilderIInv, SaveDraft
<1>2. UNCHANGED <<live, mixed>>
  BY DEF SaveDraft
<1>3. CASE Accepted(page[p].sent)
  <2>1. /\ stored' = page[p].sent
        /\ page' = [q \in Page |->
                      IF q = p THEN [page[p] EXCEPT !.call = "saved", !.behind = FALSE]
                      ELSE [page[q] EXCEPT !.behind = TRUE]]
    BY <1>3 DEF SaveDraft
  <2>2. page[p].sent \in Document
    BY <1>1 DEF InOrder, IsPage
  <2>3. ASSUME NEW q \in Page PROVE InOrder(page'[q], page[p].sent)
    <3>1. CASE q = p
      <4>1. page'[q] = [page[p] EXCEPT !.call = "saved", !.behind = FALSE]
        BY <2>1, <3>1
      <4> QED
        BY <1>1, <4>1, SentInOrder
    <3>2. CASE q # p
      <4>1. page'[q] = [page[q] EXCEPT !.behind = TRUE]
        BY <2>1, <3>2
      <4>2. InOrder(page[q], stored)
        BY DEF BuilderIInv
      <4> QED
        BY <4>1, <4>2, LeftBehindInOrder
    <3> QED
      BY <3>1, <3>2
  <2>4. \A q \in Page : page'[q] \in PageState
    BY <2>3 DEF InOrder, IsPage
  <2>5. page' \in [Page -> PageState]
    BY <2>1, <2>4
  <2> QED
    BY <1>2, <2>1, <2>2, <2>3, <2>5 DEF BuilderIInv
<1>4. CASE ~Accepted(page[p].sent)
  <2>1. Over(p) /\ UNCHANGED stored
    BY <1>4 DEF SaveDraft
  <2>2. page' \in [Page -> PageState] /\ \A q \in Page : InOrder(page'[q], stored')
    BY <2>1, OverStep
  <2> QED
    BY <1>2, <2>1, <2>2 DEF BuilderIInv
<1> QED
  BY <1>3, <1>4

LEMMA SavedStep ==
  ASSUME BuilderIInv, NEW p \in Page, Saved(p)
  PROVE  BuilderIInv'
<1>1. InOrder(page[p], stored) /\ page \in [Page -> PageState] /\ page[p].call = "saved"
  BY DEF BuilderIInv, Saved
<1> DEFINE e == [page[p] EXCEPT !.dirty = FALSE, !.late = (page[p].document # page[p].sent),
                                !.sent = Unset, !.publishing = FALSE,
                                !.call = IF page[p].publishing THEN "publishing" ELSE "none"]
<1>2. page' = [page EXCEPT ![p] = e] /\ UNCHANGED <<stored, live, mixed>>
  BY <1>1, Zenon DEF Saved
<1>3. InOrder(e, stored)
  BY <1>1, SavedInOrder
<1>4. page' \in [Page -> PageState] /\ \A q \in Page : InOrder(page'[q], stored')
  <2> HIDE DEF e
  <2> QED
    BY <1>2, <1>3, OnePageMoves
<1> QED
  BY <1>2, <1>4 DEF BuilderIInv

(* What is published runs, or is another page's.                           *)
LEMMA PublishDraftStep ==
  ASSUME BuilderIInv, NEW p \in Page, PublishDraft(p)
  PROVE  BuilderIInv'
<1>1. InOrder(page[p], stored) /\ page[p].call = "publishing"
  BY DEF BuilderIInv, PublishDraft
<1>2. Over(p) /\ UNCHANGED stored
  BY DEF PublishDraft
<1>3. page' \in [Page -> PageState] /\ \A q \in Page : InOrder(page'[q], stored')
  BY <1>2, OverStep
<1>4. \/ live' = stored /\ mixed' = page[p].behind
      \/ UNCHANGED <<live, mixed>>
  BY DEF PublishDraft
<1>5. page[p].behind \/ ~Blocking(stored)
  BY <1>1 DEF InOrder, PublishesWhatRuns
<1>6. live' \in Document /\ (mixed' \/ ~Blocking(live'))
  <2>1. CASE live' = stored /\ mixed' = page[p].behind
    BY <1>5, <2>1 DEF BuilderIInv
  <2>2. CASE UNCHANGED <<live, mixed>>
    BY <2>2 DEF BuilderIInv
  <2> QED
    BY <1>4, <2>1, <2>2
<1>7. stored' \in Document
  BY <1>2 DEF BuilderIInv
<1> QED
  BY <1>3, <1>6, <1>7 DEF BuilderIInv, Blocking, Known, StepsOf

LEMMA LoseStep ==
  ASSUME BuilderIInv, NEW p \in Page, Lose(p)
  PROVE  BuilderIInv'
<1>1. Over(p) /\ UNCHANGED <<stored, live, mixed>>
  BY DEF Lose
<1>2. page' \in [Page -> PageState] /\ \A q \in Page : InOrder(page'[q], stored')
  BY <1>1, OverStep
<1> QED
  BY <1>1, <1>2 DEF BuilderIInv

LEMMA BuilderInvIsInductive ==
  ASSUME BuilderIInv, [BuilderNext]_builderVars
  PROVE  BuilderIInv'
<1>1. CASE UNCHANGED builderVars
  BY <1>1 DEF builderVars, BuilderIInv
<1>2. ASSUME NEW p \in Page,
             \/ Edit(p) \/ EditSettings(p) \/ Load(p) \/ ClickSave(p) \/ ClickPublish(p)
             \/ SaveDraft(p) \/ Saved(p) \/ PublishDraft(p) \/ Lose(p)
      PROVE  BuilderIInv'
  BY <1>2, EditStep, LoadStep, CallStep, SaveDraftStep, SavedStep, PublishDraftStep, LoseStep
<1> QED
  BY <1>1, <1>2 DEF BuilderNext

(* Documents stay documents; what a clean page shows, what its save sends  *)
(* and what is then the draft are one, and what a publishing click saved   *)
(* runs, as long as no other page has saved.                               *)
THEOREM BuilderInvariance == BuilderSpec => []BuilderIInv
<1> QED
  BY BuildersStartInOrder, BuilderInvIsInductive, PTL DEF BuilderSpec

(* However many pages edit, save and publish one process and whatever is   *)
(* lost: a page without unsaved changes shows what is saved, unless the    *)
(* document changed while it was being saved, or its settings, or another  *)
(* page has saved since (builder.tsx).                                     *)
THEOREM CleanPagesShowWhatIsSaved == BuilderSpec => []CleanMeansSaved
<1>1. BuilderIInv => CleanMeansSaved
  BY DEF BuilderIInv, InOrder, ShowsSaved, CleanMeansSaved
<1> QED
  BY <1>1, BuilderInvariance, PTL

(* Where cases get to is closed: what a step leads to, they get to.        *)
LEMMA ReachedIsClosed ==
  ASSUME NEW doc
  PROVE  Closed(doc, Reached(doc))
<1>1. doc.start \in Reached(doc)
  BY DEF Reached, Places, Closed
<1>2. ASSUME NEW key \in Reached(doc) \cap StepsOf(doc) PROVE After(doc, key) \subseteq Reached(doc)
  <2>1. After(doc, key) \subseteq Places(doc)
    BY DEF Places
  <2>2. ASSUME NEW S \in SUBSET Places(doc), Closed(doc, S) PROVE After(doc, key) \subseteq S
    <3>1. key \in S
      BY <2>2 DEF Reached
    <3> QED
      BY <2>2, <3>1 DEF Closed
  <2> QED
    BY <2>1, <2>2 DEF Reached
<1> QED
  BY <1>1, <1>2 DEF Closed

(* Where cases get to in a document the panel does not block.              *)
LEMMA UnblockedCasesStayKnown ==
  ASSUME NEW doc, ~Blocking(doc)
  PROVE  Reached(doc) \subseteq Known(doc) \cup UNION {After(doc, key) : key \in Unchecked(doc)}
<1> DEFINE S == Reached(doc) \cap (Known(doc) \cup UNION {After(doc, key) : key \in Unchecked(doc)})
<1>1. S \in SUBSET Places(doc)
  BY DEF Reached
<1>2. doc.start \in S
  BY ReachedIsClosed DEF Blocking, Closed
<1>3. ASSUME NEW key \in S \cap StepsOf(doc) PROVE After(doc, key) \subseteq S
  <2>1. After(doc, key) \subseteq Reached(doc)
    BY ReachedIsClosed DEF Closed
  <2>2. CASE key \in Unchecked(doc)
    BY <2>1, <2>2
  <2>3. CASE key \notin Unchecked(doc)
    <3>1. Taken(doc.steps[key]) \subseteq doc.steps[key].decisions
      BY <2>3 DEF Unchecked
    <3>2. ASSUME NEW d \in Taken(doc.steps[key])
          PROVE  Outcomes(doc.steps[key].rules[d]) \subseteq Known(doc)
      <4>1. \A i \in DOMAIN doc.steps[key].rules[d] : doc.steps[key].rules[d][i].to \in Known(doc)
        BY <3>1, <3>2 DEF Blocking
      <4> QED
        BY <4>1 DEF Outcomes, Tried
    <3>3. After(doc, key) \subseteq Known(doc)
      BY <3>2 DEF After
    <3> QED
      BY <2>1, <3>3
  <2> QED
    BY <2>2, <2>3
<1>4. Closed(doc, S)
  BY <1>2, <1>3 DEF Closed
<1>5. Reached(doc) \subseteq S
  BY <1>1, <1>4 DEF Reached
<1> QED
  BY <1>5

(* Rules that end with a default match: the first default is tried.        *)
LEMMA DefaultMatches ==
  ASSUME NEW rules \in Seq(TransitionRule), EndsWithDefault(rules)
  PROVE  ~MayNotMatch(rules)
<1> DEFINE S == {i \in DOMAIN rules : IsDefault(rules[i])}
<1>1. DOMAIN rules = 1 .. Len(rules) /\ Len(rules) \in Nat /\ Len(rules) # 0
  BY DEF EndsWithDefault
<1>2. Len(rules) \in S
  BY <1>1 DEF EndsWithDefault, Last
<1>3. S \subseteq Nat /\ S # {}
  BY <1>1, <1>2
<1>4. PICK n \in S : \A m \in S : n <= m
  BY <1>3, LeastIndex
<1>5. n \in 1 .. Len(rules)
  BY <1>1
<1>6. \A j \in 1 .. (n - 1) : ~IsDefault(rules[j])
  <2> SUFFICES ASSUME NEW j \in 1 .. (n - 1), IsDefault(rules[j])
               PROVE  FALSE
    OBVIOUS
  <2>1. j \in S
    BY <1>1, <1>5
  <2> QED
    BY <1>4, <1>5, <2>1
<1>7. n \in Tried(rules) /\ IsDefault(rules[n])
  BY <1>6 DEF Tried
<1> QED
  BY <1>7 DEF MayNotMatch

(* Whatever is published takes its cases only to steps and outcomes that   *)
(* exist, and leaves them at a decision without a matching rule only where *)
(* the panel warned; except from an automatic step whose decision is       *)
(* unticked, and unless another page's save came between the save and the  *)
(* publication of a publishing click (workflow-builder/validation.ts).     *)
THEOREM PublishedWorkflowsAreSound == BuilderSpec => []PublishedWorkflowsRun
<1>1. BuilderIInv => PublishedWorkflowsRun
  <2> SUFFICES ASSUME BuilderIInv, ~mixed PROVE PublishedWorkflowsRun
    BY DEF PublishedWorkflowsRun
  <2>1. ~Blocking(live) /\ IsDraftDocument(live)
    BY DocumentsAreDocuments DEF BuilderIInv
  <2>2. Reached(live) \subseteq Known(live) \cup UNION {After(live, key) : key \in Unchecked(live)}
    BY <2>1, UnblockedCasesStayKnown
  <2>3. PICK keys \in SUBSET BuilderStep : live \in DocumentOf(keys)
    BY <2>1 DEF IsDraftDocument
  <2>4. ASSUME NEW key \in (Reached(live) \cap StepsOf(live)) \ Unchecked(live),
               NEW d \in Taken(live.steps[key]), MayNotMatch(live.steps[key].rules[d])
        PROVE  <<key, d>> \in Warned(live)
    <3>1. live.steps[key] \in StepDocument
      BY <2>3 DEF DocumentOf, StepsOf
    <3>2. d \in live.steps[key].decisions
      BY DEF Unchecked
    <3>3. d \in DecisionAction /\ live.steps[key].rules[d] \in Seq(TransitionRule)
      BY <3>1, <3>2 DEF StepDocument
    <3>4. ~EndsWithDefault(live.steps[key].rules[d])
      BY <3>3, <2>4, DefaultMatches
    <3> QED
      BY <3>2, <3>3, <3>4 DEF Warned
  <2> QED
    BY <2>2, <2>4 DEF PublishedWorkflowsRun
<1> QED
  BY <1>1, BuilderInvariance, PTL

----------------------------------------------------------------------------
(* Templates: blueprints and what cloning makes of them.                   *)

Owner == Tenant \cup {Placeholder}

AnyBlueprint == BlueprintNaming(Owner)

LEMMA StepsNameMore ==
  ASSUME NEW A, NEW B, A \subseteq B
  PROVE  StepsNaming(A) \subseteq StepsNaming(B)
<1>1. StrategyNaming(A) \subseteq StrategyNaming(B)
  BY DEF StrategyNaming
<1>2. Seq(StrategyNaming(A)) \subseteq Seq(StrategyNaming(B))
  BY <1>1
<1> DEFINE StepA == [assignment : StrategyNaming(A), escalation : Seq(StrategyNaming(A))]
           StepB == [assignment : StrategyNaming(B), escalation : Seq(StrategyNaming(B))]
<1>3. StepA \subseteq StepB
  BY <1>1, <1>2
<1> HIDE DEF StepA, StepB
<1>4. Seq(StepA) \subseteq Seq(StepB)
  BY <1>3
<1> QED
  BY <1>4 DEF StepsNaming, StepA, StepB

LEMMA BlueprintsNameMore ==
  ASSUME NEW A, NEW B, A \subseteq B
  PROVE  BlueprintNaming(A) \subseteq BlueprintNaming(B)
BY StepsNameMore DEF BlueprintNaming

(* uniqueKey gives a key in every case.                                    *)
LEMMA UniqueKeyIsAKey ==
  ASSUME NEW base \in Seq(Int), NEW existing
  PROVE  UniqueKey(base, existing) \in Seq(Int)
<1>1. Now \in Nat /\ 2 <= Now
  BY DEF Now
<1> DEFINE S == {n \in 2 .. Now : n = Now \/ Append(base, n) \notin existing}
<1>2. S \subseteq Nat /\ Now \in S
  BY <1>1
<1>3. PICK n \in S : \A m \in S : n <= m
  BY <1>2, LeastIndex
<1>4. \A m \in 2 .. (n - 1) : Append(base, m) \in existing
  <2> SUFFICES ASSUME NEW m \in 2 .. (n - 1), Append(base, m) \notin existing
               PROVE  FALSE
    OBVIOUS
  <2>1. n \in 2 .. Now
    OBVIOUS
  <2>2. m \in S
    BY <1>1, <2>1
  <2> QED
    BY <1>1, <1>3, <2>1, <2>2
<1>5. Suffix(base, existing) \in 2 .. Now
  BY <1>3, <1>4 DEF Suffix
<1>6. Suffix(base, existing) \in Int
  BY <1>1, <1>5
<1>7. Append(base, Suffix(base, existing)) \in Seq(Int)
  BY <1>6
<1> QED
  BY <1>7 DEF UniqueKey

LEMMA ResetStrategyNamesNobody ==
  ASSUME NEW A, NEW s \in StrategyNaming(A)
  PROVE  ResetStrategy(s) \in StrategyNaming({})
<1>1. s \in [kind : StrategyKind, of : A \cup {Absent}] /\ (Names(s) \/ s.of = Absent)
  BY DEF StrategyNaming
<1>2. Anonymous \in StrategyNaming({})
  <2>1. Anonymous.of = Absent
    BY DEF Anonymous
  <2>2. Anonymous \in [kind : StrategyKind, of : {} \cup {Absent}]
    BY DEF Anonymous, StrategyKind
  <2> QED
    BY <2>1, <2>2, Zenon DEF StrategyNaming
<1>3. CASE Names(s)
  BY <1>2, <1>3 DEF ResetStrategy
<1>4. CASE ~Names(s)
  <2>1. s \in [kind : StrategyKind, of : {} \cup {Absent}] /\ s.of = Absent
    BY <1>1, <1>4
  <2> QED
    BY <1>4, <2>1 DEF ResetStrategy, StrategyNaming
<1> QED
  BY <1>3, <1>4

(* A copy names nobody, whomever the blueprint names (clone.ts).           *)
LEMMA CopiesNameNobody ==
  ASSUME NEW A, NEW b \in BlueprintNaming(A), NEW existing
  PROVE  CloneTemplate(b, existing) \in BlueprintNaming({})
<1> DEFINE StepA == [assignment : StrategyNaming(A), escalation : Seq(StrategyNaming(A))]
           Step0 == [assignment : StrategyNaming({}), escalation : Seq(StrategyNaming({}))]
<1>1. b.key \in Seq(Int) /\ b.steps \in Seq(StepA)
  BY DEF BlueprintNaming, StepsNaming
<1>2. ASSUME NEW step \in StepA PROVE ResetStep(step) \in Step0
  <2>1. step.assignment \in StrategyNaming(A) /\ step.escalation \in Seq(StrategyNaming(A))
    OBVIOUS
  <2>2. ResetStrategy(step.assignment) \in StrategyNaming({})
    BY <2>1, ResetStrategyNamesNobody
  <2>3. \A l \in DOMAIN step.escalation : ResetStrategy(step.escalation[l]) \in StrategyNaming({})
    BY <2>1, ResetStrategyNamesNobody
  <2> DEFINE levels == [l \in DOMAIN step.escalation |-> ResetStrategy(step.escalation[l])]
  <2>4. DOMAIN step.escalation = 1 .. Len(step.escalation) /\ Len(step.escalation) \in Nat
    BY <2>1
  <2>5. levels \in Seq(StrategyNaming({}))
    BY <2>3, <2>4, IsASeq
  <2> HIDE DEF levels
  <2>6. ResetStep(step) = [assignment |-> ResetStrategy(step.assignment), escalation |-> levels]
    BY Zenon DEF ResetStep, levels
  <2> QED
    BY <2>2, <2>5, <2>6
<1> DEFINE steps == [i \in DOMAIN b.steps |-> ResetStep(b.steps[i])]
<1> HIDE DEF StepA, Step0
<1>3. DOMAIN b.steps = 1 .. Len(b.steps) /\ Len(b.steps) \in Nat
  BY <1>1
<1>4. \A i \in DOMAIN b.steps : ResetStep(b.steps[i]) \in Step0
  BY <1>1, <1>2
<1>5. steps \in Seq(Step0)
  BY <1>3, <1>4, IsASeq
<1>6. UniqueKey(b.key, existing) \in Seq(Int)
  BY <1>1, UniqueKeyIsAKey
<1> HIDE DEF steps
<1>7. CloneTemplate(b, existing) = [key |-> UniqueKey(b.key, existing), steps |-> steps]
  BY DEF CloneTemplate, steps
<1> QED
  BY <1>5, <1>6, <1>7 DEF BlueprintNaming, StepsNaming, Step0

(* allocateDefinitionKey gives a key that is free, when there is one.      *)
LEMMA AllocatedKeyIsFree ==
  ASSUME NEW existing, FreeKeys(existing) # {}
  PROVE  AllocateDefinitionKey(existing) \in Seq(Int) \ existing
<1>1. FreeKeys(existing) \subseteq Nat
  BY DEF FreeKeys
<1>2. \E n \in FreeKeys(existing) : \A m \in FreeKeys(existing) : n <= m
  BY <1>1, LeastIndex
<1>3. PICK n \in FreeKeys(existing) : AllocateDefinitionKey(existing) = Candidate(n)
  BY <1>2 DEF AllocateDefinitionKey
<1>4. n \in 1 .. 99 /\ Candidate(n) \notin existing
  BY DEF FreeKeys
<1>5. Candidate(n) \in Seq(Int)
  <2>1. <<-n>> \in Seq(Int)
    BY <1>4
  <2> QED
    BY <2>1 DEF Candidate
<1> QED
  BY <1>3, <1>4, <1>5

----------------------------------------------------------------------------
(* What the rows and the requests of the library know.                     *)

TemplateRow ==
  [of : Tenant, key : Seq(Int), scope : {"organisation", "published"}, name : {"given", "patched"},
   shown : AnyBlueprint, excused : BOOLEAN]

DeskState ==
  [pc : {"idle", "save", "post", "row", "clone", "define", "document", "version"},
   of : Tenant \cup {Absent}, process : Process \cup {Absent},
   template : Template \cup DOMAIN SystemLibrary \cup {Absent}, stored : DocumentId \cup {Absent},
   shown : AnyBlueprint, excused : BOOLEAN]

(* A document names people of its organisation, which is the one of the    *)
(* row it belongs to, as its key is.                                       *)
DocumentsInOrder(rows, docs) ==
  /\ docs \in [DocumentId -> StoredDocument \cup {Absent}]
  /\ \A i \in DocumentId : docs[i] # Absent =>
       /\ docs[i].steps \in StepsNaming({docs[i].of})
       /\ rows[docs[i].process] # Absent =>
            docs[i].of = rows[docs[i].process].of /\ docs[i].key = rows[docs[i].process].key

(* A row that is committed has versions, each with its document.           *)
RowsInOrder(rows, docs) ==
  /\ rows \in [Process -> DefinitionRow \cup {Absent}]
  /\ \A p \in Process : rows[p] # Absent =>
       /\ rows[p].committed <=> rows[p].versions # <<>>
       /\ \A n \in DOMAIN rows[p].versions :
            /\ docs[rows[p].versions[n]] # Absent
            /\ docs[rows[p].versions[n]].process = p /\ docs[rows[p].versions[n]].version = n

(* Every template has its blueprint.                                       *)
TemplatesInOrder ==
  /\ template \in [Template -> TemplateRow \cup {Absent}]
  /\ blueprint \in [Template -> AnyBlueprint \cup {Absent}]
  /\ \A t \in Template : template[t] # Absent =>
       blueprint[t] # Absent /\ (~template[t].excused => blueprint[t] = template[t].shown)

(* A request that makes a template works on a process of its organisation. *)
Saves(r) ==
  r.pc \in {"save", "post", "row"} =>
    /\ r.of \in Tenant /\ r.process \in Process /\ Committed(r.process)
    /\ process[r.process].of = r.of /\ process[r.process].key = r.shown.key
    /\ r.shown.steps \in StepsNaming({r.of})

(* What it has saved is the latest document until it posts, or a leftover  *)
(* is, unless another tab saves; then it is what it has written.           *)
Holds(r) ==
  /\ r.pc = "post" /\ ~r.excused =>
       \A i \in Latest(r.process) : Orphan(i) \/ document[i].steps = r.shown.steps
  /\ r.pc = "row" => /\ r.template \in Template /\ blueprint[r.template] # Absent
                     /\ ~r.excused => blueprint[r.template] = r.shown

(* A request that makes a definition names nobody, and its row is its own  *)
(* until it is committed.                                                  *)
Owns(r) == r.pc \in {"document", "version"}

Defines(r) ==
  /\ r.pc \in {"clone", "define", "document", "version"} => r.of \in Tenant
  /\ r.pc \in {"define", "document", "version"} => r.shown \in BlueprintNaming({})
  /\ Owns(r) => /\ r.process \in Process /\ process[r.process] # Absent
                /\ ~process[r.process].committed
                /\ process[r.process].of = r.of /\ process[r.process].key = r.shown.key
  /\ r.pc = "version" => /\ r.stored \in DocumentsOf(r.process)
                         /\ document[r.stored].version = 1

Knows(r) == r \in DeskState /\ Saves(r) /\ Holds(r) /\ Defines(r)

RequestsInOrder ==
  /\ desk \in [Desk -> DeskState]
  /\ \A d \in Desk : Knows(desk[d])
  /\ \A d, e \in Desk : d # e /\ Owns(desk[d]) /\ Owns(desk[e]) => desk[d].process # desk[e].process

LibraryIInv ==
  /\ DocumentsInOrder(process, document) /\ RowsInOrder(process, document)
  /\ TemplatesInOrder /\ LibraryKeysAreUnique /\ RequestsInOrder

----------------------------------------------------------------------------
(* Requests of other tabs.                                                 *)

(* A step leaves the row of a process alone, but for whether it is open.   *)
RowKept(p) ==
  /\ process'[p] # Absent
  /\ process'[p].of = process[p].of /\ process'[p].key = process[p].key
  /\ process'[p].versions = process[p].versions /\ process'[p].committed = process[p].committed

(* It leaves the documents of a process alone.                             *)
DocumentsKept(p) ==
  \A i \in DocumentId : i \in DocumentsOf(p) \/ i \in DocumentsOf(p)' => document'[i] = document[i]

BlueprintsKept == \A t \in Template : blueprint[t] # Absent => blueprint'[t] = blueprint[t]

Undisturbed(r) ==
  r.pc \in {"save", "post", "row", "document", "version"} =>
    RowKept(r.process) /\ DocumentsKept(r.process)

LEMMA UndisturbedKnows ==
  ASSUME NEW r, Knows(r), Undisturbed(r), BlueprintsKept
  PROVE  Knows(r)'
<1> DEFINE p == r.process
<1>1. Saves(r)'
  BY DEF Knows, Saves, Undisturbed, RowKept, Committed
<1>2. r.pc \in {"post", "version"} => DocumentsOf(p)' = DocumentsOf(p)
  BY DEF Undisturbed, DocumentsKept, DocumentsOf
<1>3. r.pc \in {"post", "version"} => \A i \in DocumentsOf(p) : document'[i] = document[i]
  BY DEF Undisturbed, DocumentsKept, DocumentsOf
<1>4. Holds(r)'
  <2>1. ASSUME r.pc = "post", ~r.excused, NEW i \in Latest(p)'
        PROVE  Orphan(i)' \/ document'[i].steps = r.shown.steps
    <3>1. i \in Latest(p)
      BY <1>2, <1>3, <2>1 DEF Latest
    <3>2. i \in DocumentsOf(p) /\ document'[i] = document[i] /\ document[i].process = p
      BY <1>3, <2>1, <3>1 DEF Latest, DocumentsOf
    <3>3. process'[p].versions = process[p].versions
      BY <2>1 DEF Undisturbed, RowKept
    <3>4. Orphan(i)' <=> Orphan(i)
      BY <3>2, <3>3 DEF Orphan
    <3> QED
      BY <2>1, <3>1, <3>2, <3>4 DEF Knows, Holds
  <2>2. ASSUME r.pc = "row"
        PROVE  /\ r.template \in Template /\ blueprint'[r.template] # Absent
               /\ ~r.excused => blueprint'[r.template] = r.shown
    BY <2>2 DEF Knows, Holds, BlueprintsKept
  <2> QED
    BY <2>1, <2>2 DEF Holds
<1>5. Defines(r)'
  BY <1>2, <1>3 DEF Knows, Defines, Owns, Undisturbed, RowKept
<1> QED
  BY <1>1, <1>4, <1>5 DEF Knows

(* A step of one tab that leaves the work of the others alone.             *)
LEMMA OneDeskMoves ==
  ASSUME RequestsInOrder, NEW d \in Desk, NEW r, desk' = [desk EXCEPT ![d] = r], Knows(r)',
         BlueprintsKept, \A e \in Desk : e # d => Undisturbed(desk[e]),
         Owns(r) => \/ Owns(desk[d]) /\ desk[d].process = r.process
                    \/ \A e \in Desk : Owns(desk[e]) => desk[e].process # r.process
  PROVE  RequestsInOrder'
<1>1. desk \in [Desk -> DeskState] /\ r \in DeskState
  BY DEF RequestsInOrder, Knows
<1>2. \A e \in Desk : desk'[e] = IF e = d THEN r ELSE desk[e]
  BY <1>1
<1>3. ASSUME NEW e \in Desk PROVE Knows(desk[e])'
  <2>1. CASE e = d
    <3>1. desk'[e] = r
      BY <1>2, <2>1
    <3> QED
      BY <3>1 DEF Knows, Saves, Holds, Defines, Owns
  <2>2. CASE e # d
    <3>0. PICK k : k = desk[e]
      OBVIOUS
    <3>1. desk'[e] = k /\ Knows(k) /\ Undisturbed(k)
      BY <1>2, <2>2, <3>0 DEF RequestsInOrder
    <3>2. Knows(k)'
      BY <3>1, UndisturbedKnows
    <3> QED
      BY <3>1, <3>2 DEF Knows, Saves, Holds, Defines, Owns
  <2> QED
    BY <2>1, <2>2
<1>4. desk' \in [Desk -> DeskState]
  BY <1>1
<1>5. ASSUME NEW e \in Desk, NEW f \in Desk, e # f, Owns(desk'[e]), Owns(desk'[f])
      PROVE  desk'[e].process # desk'[f].process
  <2>1. \A g, h \in Desk : g # h /\ Owns(desk[g]) /\ Owns(desk[h]) => desk[g].process # desk[h].process
    BY DEF RequestsInOrder
  <2> QED
    BY <1>2, <1>5, <2>1
<1>6. \A e, f \in Desk : e # f /\ Owns(desk[e])' /\ Owns(desk[f])' => desk'[e].process # desk'[f].process
  BY <1>5 DEF Owns
<1> QED
  BY <1>3, <1>4, <1>6 DEF RequestsInOrder

(* A statement of its own that leaves every tab's work alone.              *)
LEMMA NoDeskMoves ==
  ASSUME RequestsInOrder, UNCHANGED desk, BlueprintsKept, \A e \in Desk : Undisturbed(desk[e])
  PROVE  RequestsInOrder'
<1>1. ASSUME NEW e \in Desk PROVE Knows(desk[e])'
  <2>0. PICK k : k = desk[e]
    OBVIOUS
  <2>1. desk'[e] = k /\ Knows(k) /\ Undisturbed(k)
    BY <2>0 DEF RequestsInOrder
  <2>2. Knows(k)'
    BY <2>1, UndisturbedKnows
  <2> QED
    BY <2>1, <2>2 DEF Knows, Saves, Holds, Defines, Owns
<1> QED
  BY <1>1 DEF RequestsInOrder, Owns

(* What changes neither rows nor documents disturbs nobody.                *)
LEMMA NothingIsDisturbed ==
  ASSUME LibraryIInv, UNCHANGED <<process, document>>, NEW e \in Desk
  PROVE  Undisturbed(desk[e])
<1>0. PICK k : k = desk[e]
  OBVIOUS
<1>1. Knows(k)
  BY <1>0 DEF LibraryIInv, RequestsInOrder
<1>2. k.pc \in {"save", "post", "row", "document", "version"} => process[k.process] # Absent
  BY <1>1 DEF Knows, Saves, Defines, Owns, Committed
<1> QED
  BY <1>0, <1>2 DEF Undisturbed, RowKept, DocumentsKept

(* Nor what touches one process that no other tab works on.                *)
LEMMA OthersAreUndisturbed ==
  ASSUME LibraryIInv, NEW e \in Desk, NEW p,
         \A q \in Process : q # p => process'[q] = process[q] /\ DocumentsKept(q),
         desk[e].pc \in {"save", "post", "row", "document", "version"} => desk[e].process # p
  PROVE  Undisturbed(desk[e])
<1>0. PICK k : k = desk[e]
  OBVIOUS
<1>1. Knows(k)
  BY <1>0 DEF LibraryIInv, RequestsInOrder
<1>2. k.pc \in {"save", "post", "row", "document", "version"} =>
        k.process \in Process /\ process[k.process] # Absent /\ k.process # p
  BY <1>0, <1>1 DEF Knows, Saves, Defines, Owns, Committed
<1> QED
  BY <1>0, <1>2 DEF Undisturbed, RowKept

(* The process a tab is about to commit is no other tab's.                 *)
LEMMA OwnedByOne ==
  ASSUME LibraryIInv, NEW d \in Desk, Owns(desk[d]), NEW e \in Desk, e # d,
         desk[e].pc \in {"save", "post", "row", "document", "version"}
  PROVE  desk[e].process # desk[d].process
<1>0. PICK k, r : k = desk[e] /\ r = desk[d]
  OBVIOUS
<1>1. Knows(k) /\ Knows(r)
  BY <1>0 DEF LibraryIInv, RequestsInOrder
<1>2. ~process[r.process].committed
  BY <1>0, <1>1 DEF Knows, Defines
<1>3. k.pc \in {"save", "post", "row"} => process[k.process].committed
  BY <1>1 DEF Knows, Saves, Committed
<1>4. Owns(k) => k.process # r.process
  BY <1>0 DEF LibraryIInv, RequestsInOrder
<1> QED
  BY <1>0, <1>2, <1>3, <1>4 DEF Owns

LEMMA BlankIsABlueprint ==
  ASSUME NEW A
  PROVE  Blank \in BlueprintNaming(A)
BY DEF Blank, BlueprintNaming, StepsNaming

LEMMA IdleKnows == Knows(Idle) /\ Knows(Idle)' /\ ~Owns(Idle)
<1>1. Blank \in AnyBlueprint
  BY BlankIsABlueprint DEF AnyBlueprint
<1>2. Idle \in DeskState
  BY <1>1 DEF Idle, DeskState
<1>3. Idle.pc = "idle"
  BY DEF Idle
<1> QED
  BY <1>2, <1>3 DEF Knows, Saves, Holds, Defines, Owns

LEMMA LibraryStartsInOrder == LibraryInit => LibraryIInv
<1> SUFFICES ASSUME LibraryInit PROVE LibraryIInv
  OBVIOUS
<1>1. RequestsInOrder
  <2>1. \A d \in Desk : desk[d] = Idle
    BY DEF LibraryInit
  <2>2. Idle \in DeskState
    BY IdleKnows DEF Knows
  <2>3. desk \in [Desk -> DeskState]
    BY <2>2 DEF LibraryInit
  <2> QED
    BY <2>1, <2>3, IdleKnows DEF RequestsInOrder
<1>2. LibraryKeysAreUnique
  BY DEF LibraryInit, LibraryKeysAreUnique
<1>3. DocumentsInOrder(process, document) /\ RowsInOrder(process, document) /\ TemplatesInOrder
  BY DEF LibraryInit, DocumentsInOrder, RowsInOrder, TemplatesInOrder
<1> QED
  BY <1>1, <1>2, <1>3 DEF LibraryIInv

(* A tab that changes nothing but its own request.                         *)
LEMMA OnlyTheDeskMoves ==
  ASSUME LibraryIInv, NEW d \in Desk, NEW r, desk' = [desk EXCEPT ![d] = r], Knows(r)', ~Owns(r),
         UNCHANGED <<process, document, template, blueprint>>
  PROVE  LibraryIInv'
<1>1. RequestsInOrder'
  BY NothingIsDisturbed, OneDeskMoves DEF LibraryIInv, BlueprintsKept
<1> QED
  BY <1>1 DEF LibraryIInv, TemplatesInOrder, LibraryKeysAreUnique

LEMMA CreateProcessStep ==
  ASSUME LibraryIInv, NEW d \in Desk, NEW o \in Tenant, CreateProcess(d, o)
  PROVE  LibraryIInv'
<1> DEFINE key == AllocateDefinitionKey(Keys(o))
           shown == [key |-> key, steps |-> <<>>]
<1>0. PICK r : r = [Idle EXCEPT !.pc = "define", !.of = o, !.shown = shown]
  OBVIOUS
<1>1. /\ desk' = [desk EXCEPT ![d] = r] /\ UNCHANGED <<process, document, template, blueprint>>
      /\ FreeKeys(Keys(o)) # {}
  BY <1>0 DEF CreateProcess, Ask
<1>2. key \in Seq(Int)
  BY <1>1, AllocatedKeyIsFree
<1>3. shown \in BlueprintNaming({}) /\ shown \in AnyBlueprint
  <2>1. shown \in BlueprintNaming({})
    BY <1>2 DEF BlueprintNaming, StepsNaming
  <2> QED
    BY <2>1, BlueprintsNameMore DEF AnyBlueprint
<1> HIDE DEF shown
<1>4. r \in DeskState /\ r.pc = "define" /\ r.of = o /\ r.shown \in BlueprintNaming({})
  BY <1>0, <1>3 DEF Idle, DeskState
<1>5. Knows(r)' /\ ~Owns(r)
  BY <1>4 DEF Knows, Saves, Holds, Defines, Owns
<1> QED
  BY <1>1, <1>5, OnlyTheDeskMoves

(* The document of the last version is there, and names its own people.    *)
LEMMA CurrentIsThere ==
  ASSUME LibraryIInv, NEW p \in Process, Committed(p)
  PROVE  /\ Current(p) \in DocumentsOf(p) /\ document[Current(p)].version = Len(process[p].versions)
         /\ process[p].of \in Tenant /\ document[Current(p)].of = process[p].of
         /\ document[Current(p)].steps \in StepsNaming({process[p].of})
         /\ Len(process[p].versions) \in DOMAIN process[p].versions
<1>1. process[p] \in DefinitionRow
  BY DEF LibraryIInv, RowsInOrder, Committed
<1>2. process[p].versions \in Seq(DocumentId) /\ process[p].versions # <<>> /\ process[p].of \in Tenant
  BY <1>1 DEF LibraryIInv, RowsInOrder, Committed, DefinitionRow
<1>3. /\ Len(process[p].versions) \in DOMAIN process[p].versions
      /\ process[p].versions[Len(process[p].versions)] \in DocumentId
  BY <1>2
<1>4. Current(p) \in DocumentsOf(p) /\ document[Current(p)].version = Len(process[p].versions)
  BY <1>3 DEF LibraryIInv, RowsInOrder, Committed, Current, DocumentsOf
<1>5. /\ document[Current(p)].of = process[p].of
      /\ document[Current(p)].steps \in StepsNaming({process[p].of})
  BY <1>4 DEF LibraryIInv, DocumentsInOrder, DocumentsOf, Committed
<1> QED
  BY <1>2, <1>3, <1>4, <1>5

LEMMA SaveAsTemplateStep ==
  ASSUME LibraryIInv, NEW d \in Desk, NEW p \in Process, SaveAsTemplate(d, p)
  PROVE  LibraryIInv'
<1>1. Committed(p) /\ UNCHANGED <<process, document, template, blueprint>>
  BY DEF SaveAsTemplate
<1> DEFINE o == process[p].of
<1>2. PICK steps \in Content(o) \cup {document[Current(p)].steps} :
        Ask(d, [Idle EXCEPT !.pc = "save", !.of = o, !.process = p,
                            !.shown = [key |-> process[p].key, steps |-> steps]])
  BY DEF SaveAsTemplate
<1> DEFINE shown == [key |-> process[p].key, steps |-> steps]
<1>0. PICK r : r = [Idle EXCEPT !.pc = "save", !.of = o, !.process = p, !.shown = shown]
  OBVIOUS
<1>3. desk' = [desk EXCEPT ![d] = r]
  BY <1>0, <1>2 DEF Ask
<1>4. o \in Tenant /\ steps \in StepsNaming({o})
  BY <1>1, CurrentIsThere, LibraryAssumption
<1>5. process[p].key \in Seq(Int)
  BY <1>1 DEF LibraryIInv, RowsInOrder, Committed, DefinitionRow
<1>6. shown \in AnyBlueprint
  <2>1. shown \in BlueprintNaming({o})
    BY <1>4, <1>5 DEF BlueprintNaming
  <2> QED
    BY <1>4, <2>1, BlueprintsNameMore DEF AnyBlueprint, Owner
<1>7. shown.key = process[p].key /\ shown.steps = steps
  OBVIOUS
<1> HIDE DEF shown
<1>8. /\ r \in DeskState /\ r.pc = "save" /\ r.of = o /\ r.process = p
      /\ r.shown.key = process[p].key /\ r.shown.steps \in StepsNaming({o})
  BY <1>0, <1>4, <1>6, <1>7 DEF Idle, DeskState
<1>9. Knows(r)' /\ ~Owns(r)
  BY <1>1, <1>4, <1>8 DEF Knows, Saves, Holds, Defines, Owns, Committed
<1> QED
  BY <1>1, <1>3, <1>9, OnlyTheDeskMoves

LEMMA ReadBlueprintStep ==
  ASSUME LibraryIInv, NEW d \in Desk, NEW o \in Tenant,
         NEW t \in Template \cup DOMAIN SystemLibrary, ReadBlueprint(d, o, t)
  PROVE  LibraryIInv'
<1> DEFINE shown == FindSharedTemplateDocument(t)
<1>0. PICK r : r = [Idle EXCEPT !.pc = "clone", !.of = o, !.template = t, !.shown = shown]
  OBVIOUS
<1>1. UNCHANGED <<process, document, template, blueprint>> /\ shown # Absent
  BY DEF ReadBlueprint
<1>2. desk' = [desk EXCEPT ![d] = r]
  BY <1>0 DEF ReadBlueprint, Ask
<1>3. shown \in AnyBlueprint
  <2>1. CASE t \in Template
    BY <1>1, <2>1 DEF LibraryIInv, TemplatesInOrder, FindSharedTemplateDocument
  <2>2. CASE t \notin Template
    <3>1. shown \in BlueprintNaming({Placeholder})
      BY <2>2, LibraryAssumption DEF FindSharedTemplateDocument
    <3> QED
      BY <3>1, BlueprintsNameMore DEF AnyBlueprint, Owner
  <2> QED
    BY <2>1, <2>2
<1> HIDE DEF shown
<1>4. r \in DeskState /\ r.pc = "clone" /\ r.of = o
  BY <1>0, <1>3 DEF Idle, DeskState
<1>5. Knows(r)' /\ ~Owns(r)
  BY <1>4 DEF Knows, Saves, Holds, Defines, Owns
<1> QED
  BY <1>1, <1>2, <1>5, OnlyTheDeskMoves

LEMMA ChooseKeyStep ==
  ASSUME LibraryIInv, NEW d \in Desk, ChooseKey(d)
  PROVE  LibraryIInv'
<1>0. PICK r : r = desk[d]
  OBVIOUS
<1> DEFINE copy == CloneTemplate(r.shown, Keys(r.of))
<1>a. PICK s : s = [r EXCEPT !.pc = "define", !.shown = copy]
  OBVIOUS
<1>1. /\ r.pc = "clone" /\ UNCHANGED <<process, document, template, blueprint>>
      /\ desk' = [desk EXCEPT ![d] = s]
  BY <1>0, <1>a, Zenon DEF ChooseKey, Proceed
<1>2. Knows(r) /\ r \in DeskState
  BY <1>0 DEF LibraryIInv, RequestsInOrder, Knows
<1>3. r.of \in Tenant /\ r.shown \in AnyBlueprint
  BY <1>1, <1>2 DEF Knows, Defines, DeskState
<1>4. copy \in BlueprintNaming({})
  BY <1>3, CopiesNameNobody DEF AnyBlueprint
<1>5. copy \in AnyBlueprint
  BY <1>4, BlueprintsNameMore DEF AnyBlueprint
<1> HIDE DEF copy
<1>6. s \in DeskState /\ s.pc = "define" /\ s.of = r.of /\ s.shown \in BlueprintNaming({})
  BY <1>a, <1>2, <1>4, <1>5 DEF DeskState
<1>7. Knows(s)' /\ ~Owns(s)
  BY <1>3, <1>6 DEF Knows, Saves, Holds, Defines, Owns
<1> QED
  BY <1>1, <1>7, OnlyTheDeskMoves

----------------------------------------------------------------------------
(* Steps that write.                                                       *)

(* A document that is new, or in the place of one of the same version.     *)
LEMMA WrittenInOrder ==
  ASSUME NEW rows, NEW docs, DocumentsInOrder(rows, docs), RowsInOrder(rows, docs),
         NEW i \in DocumentId, NEW doc \in StoredDocument, doc.steps \in StepsNaming({doc.of}),
         rows[doc.process] # Absent => doc.of = rows[doc.process].of /\ doc.key = rows[doc.process].key,
         docs[i] # Absent => docs[i].process = doc.process /\ docs[i].version = doc.version,
         NEW docs2, docs2 = [docs EXCEPT ![i] = doc]
  PROVE  DocumentsInOrder(rows, docs2) /\ RowsInOrder(rows, docs2)
<1>1. docs2 \in [DocumentId -> StoredDocument \cup {Absent}]
  BY DEF DocumentsInOrder
<1>2. \A j \in DocumentId : docs2[j] = IF j = i THEN doc ELSE docs[j]
  BY DEF DocumentsInOrder
<1>3. DocumentsInOrder(rows, docs2)
  BY <1>1, <1>2 DEF DocumentsInOrder
<1>4. ASSUME NEW p \in Process, rows[p] # Absent, NEW n \in DOMAIN rows[p].versions
      PROVE  /\ docs2[rows[p].versions[n]] # Absent
             /\ docs2[rows[p].versions[n]].process = p /\ docs2[rows[p].versions[n]].version = n
  <2>1. rows[p].versions \in Seq(DocumentId)
    BY <1>4 DEF RowsInOrder, DefinitionRow
  <2>2. PICK j \in DocumentId : j = rows[p].versions[n]
    BY <1>4, <2>1
  <2>3. docs[j] # Absent /\ docs[j].process = p /\ docs[j].version = n
    BY <1>4, <2>2 DEF RowsInOrder
  <2>4. doc # Absent
    BY LibraryAssumption
  <2> QED
    BY <1>2, <2>2, <2>3, <2>4
<1> QED
  BY <1>3, <1>4 DEF RowsInOrder

(* What a save puts into MongoDB.                                          *)
LEMMA SavedDocument ==
  ASSUME LibraryIInv, NEW d \in Desk, desk[d].pc = "save", NEW i \in DocumentId, SavedInto(d, i)
  PROVE  \E doc \in StoredDocument :
           /\ document' = [document EXCEPT ![i] = doc]
           /\ DocumentsInOrder(process, document') /\ RowsInOrder(process, document')
           /\ doc.process = desk[d].process /\ doc.steps = desk[d].shown.steps
           /\ LET row == process[desk[d].process] IN
              /\ row.open => i = Current(desk[d].process) /\ doc.version = Len(row.versions)
              /\ ~row.open => document[i] = Absent /\ doc.version = Len(row.versions) + 1
<1>0. PICK r : r = desk[d]
  OBVIOUS
<1> DEFINE row == process[r.process]
<1>1. Knows(r) /\ r.pc = "save"
  BY <1>0 DEF LibraryIInv, RequestsInOrder
<1>2. /\ r.of \in Tenant /\ r.process \in Process /\ Committed(r.process) /\ row.of = r.of
      /\ r.shown.steps \in StepsNaming({r.of})
  BY <1>1 DEF Knows, Saves
<1>3. row \in DefinitionRow /\ row # Absent
  BY <1>2 DEF LibraryIInv, RowsInOrder, Committed
<1> DEFINE version == IF row.open THEN Len(row.versions) ELSE Len(row.versions) + 1
<1>4. PICK doc : doc = [of |-> row.of, process |-> r.process, key |-> row.key,
                        steps |-> r.shown.steps, version |-> version]
  OBVIOUS
<1>5. document' = [document EXCEPT ![i] = doc]
  BY <1>0, <1>4 DEF SavedInto
<1>6. IF row.open THEN i = Current(r.process) ELSE document[i] = Absent
  BY <1>0 DEF SavedInto, NextDocument
<1>7. row.key \in Seq(Int) /\ version \in Nat
  BY <1>3 DEF DefinitionRow
<1>8. r.shown.steps \in StepsNaming(Tenant)
  BY <1>2, StepsNameMore
<1> HIDE DEF version
<1>9. /\ doc \in StoredDocument /\ doc.of = row.of /\ doc.process = r.process /\ doc.key = row.key
      /\ doc.steps = r.shown.steps /\ doc.version = version
  BY <1>2, <1>4, <1>7, <1>8 DEF StoredDocument
<1>10. document[i] # Absent => document[i].process = r.process /\ document[i].version = version
  <2>1. Current(r.process) \in DocumentsOf(r.process) /\ document[Current(r.process)].version = Len(row.versions)
    BY <1>2, CurrentIsThere
  <2> QED
    BY <1>6, <2>1 DEF DocumentsOf, version
<1>11. DocumentsInOrder(process, document) /\ RowsInOrder(process, document)
  BY DEF LibraryIInv
<1>12. DocumentsInOrder(process, document') /\ RowsInOrder(process, document')
  BY <1>2, <1>5, <1>9, <1>10, <1>11, WrittenInOrder
<1> QED
  BY <1>0, <1>5, <1>6, <1>9, <1>12 DEF version

(* The tab that has saved finds its document, or a leftover, the latest;   *)
(* another that has saved before is excused.                               *)
LEMMA SavedRequests ==
  ASSUME LibraryIInv, NEW d \in Desk, desk[d].pc = "save", NEW i \in DocumentId, SavedInto(d, i),
         NEW p, p = desk[d].process,
         \A q \in Process : process[q] # Absent => process'[q] # Absent /\ process'[q].of = process[q].of
           /\ process'[q].key = process[q].key /\ process'[q].committed = process[q].committed,
         \A q \in Process : q # p => process'[q] = process[q],
         \A j \in Latest(p)' : Orphan(j)' \/ j = i,
         UNCHANGED blueprint
  PROVE  RequestsInOrder'
<1>0. PICK r : r = desk[d]
  OBVIOUS
<1>1. Knows(r) /\ r.pc = "save" /\ r \in DeskState
  BY <1>0 DEF LibraryIInv, RequestsInOrder, Knows
<1>2. PICK doc \in StoredDocument :
        document' = [document EXCEPT ![i] = doc] /\ doc.process = r.process /\ doc.steps = r.shown.steps
  BY <1>0, SavedDocument
<1>3. \A j \in DocumentId : document'[j] = IF j = i THEN doc ELSE document[j]
  BY <1>2 DEF LibraryIInv, DocumentsInOrder
<1>4. document[i] # Absent => document[i].process = r.process
  <2>1. Committed(r.process) /\ r.process \in Process
    BY <1>1 DEF Knows, Saves
  <2>2. Current(r.process) \in DocumentsOf(r.process)
    BY <2>1, CurrentIsThere
  <2> QED
    BY <1>0, <2>2 DEF SavedInto, NextDocument, DocumentsOf
<1>5. \A q : q # r.process => DocumentsKept(q)
  BY <1>2, <1>3, <1>4 DEF DocumentsKept, DocumentsOf
<1>6. desk' = [e \in Desk |->
        IF e = d THEN [r EXCEPT !.pc = "post"]
        ELSE [desk[e] EXCEPT !.excused = @ \/ (desk[e].pc = "post" /\ desk[e].process = r.process)]]
  BY <1>0 DEF SavedInto
<1>7. ASSUME NEW e \in Desk
      PROVE  /\ desk'[e].pc = (IF e = d THEN "post" ELSE desk[e].pc)
             /\ desk'[e].process = desk[e].process /\ desk'[e] \in DeskState /\ Knows(desk[e])'
  <2>1. CASE e = d
    <3>0. PICK s : s = [r EXCEPT !.pc = "post"]
      OBVIOUS
    <3>1. desk'[e] = s
      BY <1>6, <2>1, <3>0
    <3>2. /\ s \in DeskState /\ s.pc = "post" /\ s.of = r.of /\ s.process = r.process /\ s.shown = r.shown
      BY <1>1, <3>0 DEF DeskState
    <3>3. Saves(s)'
      BY <1>1, <3>2 DEF Knows, Saves, Committed
    <3>4. \A j \in Latest(s.process)' : Orphan(j)' \/ document'[j].steps = s.shown.steps
      BY <1>0, <1>2, <1>3, <3>2
    <3>5. Holds(s)' /\ Defines(s)'
      BY <3>2, <3>4 DEF Holds, Defines, Owns
    <3>6. Knows(s)'
      BY <3>2, <3>3, <3>5 DEF Knows
    <3> QED
      BY <1>0, <2>1, <3>1, <3>2, <3>6 DEF Knows, Saves, Holds, Defines, Owns
  <2>2. CASE e # d
    <3>0. PICK k : k = desk[e]
      OBVIOUS
    <3>a. PICK s : s = [k EXCEPT !.excused = @ \/ (k.pc = "post" /\ k.process = r.process)]
      OBVIOUS
    <3>1. desk'[e] = s
      BY <1>6, <2>2, <3>0, <3>a
    <3>2. Knows(k) /\ k \in DeskState
      BY <3>0 DEF LibraryIInv, RequestsInOrder, Knows
    <3>3. /\ s \in DeskState /\ s.pc = k.pc /\ s.of = k.of /\ s.process = k.process
          /\ s.template = k.template /\ s.stored = k.stored /\ s.shown = k.shown
          /\ s.excused = (k.excused \/ (k.pc = "post" /\ k.process = r.process))
      BY <3>a, <3>2 DEF DeskState
    <3>4. Saves(s)'
      BY <3>2, <3>3 DEF Knows, Saves, Committed
    <3>5. Owns(k) => k.process # r.process /\ k.process \in Process
      BY <1>1, <3>2 DEF Knows, Saves, Defines, Owns, Committed
    <3>6. CASE k.process # r.process /\ k.pc \in {"post", "row", "document", "version"}
      <4>1. k.process \in Process /\ process[k.process] # Absent
        BY <3>2, <3>6 DEF Knows, Saves, Defines, Owns, Committed
      <4>2. RowKept(k.process)
        BY <1>0, <3>6, <4>1 DEF RowKept
      <4>3. Undisturbed(k) /\ BlueprintsKept
        BY <1>5, <3>6, <4>2 DEF Undisturbed, BlueprintsKept
      <4>4. Knows(k)'
        BY <3>2, <4>3, UndisturbedKnows
      <4>5. s.excused = k.excused
        BY <3>2, <3>3, <3>6 DEF DeskState
      <4>6. Holds(s)' /\ Defines(s)'
        BY <3>3, <4>4, <4>5 DEF Knows, Holds, Defines, Owns
      <4> QED
        BY <2>2, <3>0, <3>1, <3>3, <3>4, <4>6 DEF Knows, Saves, Holds, Defines, Owns
    <3>7. CASE k.process = r.process \/ k.pc \notin {"post", "row", "document", "version"}
      <4>1. ~Owns(k)
        BY <3>5, <3>7 DEF Owns
      <4>2. Holds(s)'
        BY <3>2, <3>3, <3>7 DEF Knows, Holds
      <4>3. Defines(s)'
        BY <3>2, <3>3, <4>1 DEF Knows, Defines, Owns
      <4> QED
        BY <2>2, <3>0, <3>1, <3>3, <3>4, <4>2, <4>3 DEF Knows, Saves, Holds, Defines, Owns
    <3> QED
      BY <3>6, <3>7
  <2> QED
    BY <2>1, <2>2
<1>8. desk' \in [Desk -> DeskState]
  BY <1>6, <1>7
<1>9. \A e, f \in Desk : e # f /\ Owns(desk[e])' /\ Owns(desk[f])' => desk'[e].process # desk'[f].process
  <2>1. \A e \in Desk : Owns(desk[e])' => Owns(desk[e])
    BY <1>7 DEF Owns
  <2> QED
    BY <1>7, <2>1 DEF LibraryIInv, RequestsInOrder
<1> QED
  BY <1>7, <1>8, <1>9 DEF RequestsInOrder

(* The document of a version's row is the only one of that version that is *)
(* no leftover.                                                            *)
LEMMA LatestIsCurrent ==
  ASSUME NEW rows, NEW docs, RowsInOrder(rows, docs), NEW p \in Process, rows[p] # Absent,
         NEW i \in DocumentId, docs[i].version \in {Len(rows[p].versions), Len(rows[p].versions) + 1},
         docs[i].version \in DOMAIN rows[p].versions => rows[p].versions[docs[i].version] = i,
         NEW j, docs[i].version <= docs[j].version, docs[j].version \in Nat,
         docs[j].version \in DOMAIN rows[p].versions, rows[p].versions[docs[j].version] = j
  PROVE  j = i
<1>1. rows[p].versions \in Seq(DocumentId)
  BY DEF RowsInOrder, DefinitionRow
<1>2. DOMAIN rows[p].versions = 1 .. Len(rows[p].versions) /\ Len(rows[p].versions) \in Nat
  BY <1>1
<1>3. docs[j].version = docs[i].version
  BY <1>2
<1> QED
  BY <1>3

LEMMA BeforeSaveStep ==
  ASSUME LibraryIInv, NEW d \in Desk, NEW i \in DocumentId, BeforeSave(d, i)
  PROVE  LibraryIInv'
<1>0. PICK r : r = desk[d]
  OBVIOUS
<1>p. PICK p : p = r.process
  OBVIOUS
<1>r. PICK row : row = process[p]
  OBVIOUS
<1>1. r.pc = "save" /\ UNCHANGED <<template, blueprint>>
  BY <1>0 DEF BeforeSave
<1>2. Knows(r) /\ r \in DeskState
  BY <1>0 DEF LibraryIInv, RequestsInOrder, Knows
<1>3. p \in Process /\ Committed(p) /\ row # Absent /\ row \in DefinitionRow
  BY <1>1, <1>2, <1>p, <1>r DEF Knows, Saves, Committed, LibraryIInv, RowsInOrder
<1>4. row.versions \in Seq(DocumentId) /\ Len(row.versions) \in Nat
  BY <1>3 DEF DefinitionRow
<1>5. Len(row.versions) \in DOMAIN row.versions
  BY <1>3, <1>r, CurrentIsThere
<1>6. CASE SavedInto(d, i) /\ (UNCHANGED process \/ ~row.open)
      /\ process' \in {process, [process EXCEPT ![p].open = TRUE, ![p].versions = Append(@, i)]}
  <2>1. PICK doc \in StoredDocument :
          /\ document' = [document EXCEPT ![i] = doc]
          /\ DocumentsInOrder(process, document') /\ RowsInOrder(process, document')
          /\ doc.process = p
          /\ row.open => i = Current(p) /\ doc.version = Len(row.versions)
          /\ ~row.open => document[i] = Absent /\ doc.version = Len(row.versions) + 1
    BY <1>0, <1>1, <1>6, <1>p, <1>r, SavedDocument
  <2>2. document'[i] = doc /\ doc # Absent
    BY <2>1, LibraryAssumption DEF LibraryIInv, DocumentsInOrder
  <2>3. \A q \in Process : q # p => process'[q] = process[q]
    BY <1>6 DEF LibraryIInv, RowsInOrder
  <2>4. CASE UNCHANGED process
    <3>1. ASSUME NEW j \in Latest(p)' PROVE Orphan(j)' \/ j = i
      <4>1. j \in DocumentsOf(p)' /\ i \in DocumentsOf(p)'
        BY <2>1, <2>2, <3>1 DEF Latest, DocumentsOf
      <4>2. document'[i].version <= document'[j].version
        BY <3>1, <4>1 DEF Latest
      <4>3. document'[j].version \in Nat /\ document'[j].process = p
        BY <2>1, <4>1 DEF DocumentsOf, DocumentsInOrder, StoredDocument
      <4>4. Orphan(j)' \/ (document'[j].version \in DOMAIN row.versions /\ row.versions[document'[j].version] = j)
        BY <1>r, <2>4, <4>3 DEF Orphan
      <4>5. /\ document'[i].version \in {Len(row.versions), Len(row.versions) + 1}
            /\ document'[i].version \in DOMAIN row.versions => row.versions[document'[i].version] = i
        BY <1>4, <1>r, <2>1, <2>2 DEF Current
      <4> QED
        BY <1>3, <2>1, <4>2, <4>3, <4>4, <4>5, <1>r, LatestIsCurrent
    <3>2. \A q \in Process : process[q] # Absent => process'[q] # Absent /\ process'[q].of = process[q].of
            /\ process'[q].key = process[q].key /\ process'[q].committed = process[q].committed
      BY <2>4
    <3>3. RequestsInOrder'
      BY <1>0, <1>1, <1>6, <1>p, <2>3, <3>1, <3>2, SavedRequests
    <3>4. DocumentsInOrder(process, document)' /\ RowsInOrder(process, document)'
      BY <2>1, <2>4
    <3> QED
      BY <1>1, <2>4, <3>3, <3>4 DEF LibraryIInv, TemplatesInOrder, LibraryKeysAreUnique
  <2>5. CASE process' = [process EXCEPT ![p].open = TRUE, ![p].versions = Append(@, i)] /\ ~row.open
    <3> DEFINE new == [row EXCEPT !.open = TRUE, !.versions = Append(@, i)]
    <3>1. process' = [process EXCEPT ![p] = new]
      <4>1. process \in [Process -> DefinitionRow \cup {Absent}]
        BY DEF LibraryIInv, RowsInOrder
      <4> QED
        BY <1>3, <1>r, <2>5, <4>1
    <3>2. /\ new \in DefinitionRow /\ new.of = row.of /\ new.key = row.key
          /\ new.committed = row.committed /\ new.versions = Append(row.versions, i)
      <4>1. Append(row.versions, i) \in Seq(DocumentId)
        BY <1>4
      <4> QED
        BY <1>3, <4>1 DEF DefinitionRow
    <3> HIDE DEF new
    <3>3. new # Absent
      BY <3>2, LibraryAssumption
    <3>4. \A q \in Process : process'[q] = IF q = p THEN new ELSE process[q]
      BY <3>1 DEF LibraryIInv, RowsInOrder
    <3>5. /\ Len(new.versions) = Len(row.versions) + 1 /\ new.versions # <<>>
          /\ DOMAIN new.versions = 1 .. (Len(row.versions) + 1)
          /\ new.versions[Len(row.versions) + 1] = i
          /\ \A n \in 1 .. Len(row.versions) : new.versions[n] = row.versions[n]
      BY <1>4, <3>2
    <3>6. RowsInOrder(process', document')
      <4>1. process' \in [Process -> DefinitionRow \cup {Absent}]
        BY <3>1, <3>2 DEF LibraryIInv, RowsInOrder
      <4>2. ASSUME NEW n \in DOMAIN new.versions
            PROVE  /\ document'[new.versions[n]] # Absent
                   /\ document'[new.versions[n]].process = p /\ document'[new.versions[n]].version = n
        <5>1. CASE n = Len(row.versions) + 1
          BY <2>1, <2>2, <2>5, <3>5, <5>1
        <5>2. CASE n \in 1 .. Len(row.versions)
          BY <1>3, <1>4, <1>r, <2>1, <3>5, <5>2 DEF RowsInOrder
        <5>3. n \in 1 .. (Len(row.versions) + 1)
          BY <3>5
        <5> QED
          BY <1>4, <5>1, <5>2, <5>3
      <4>3. new.committed
        BY <1>3, <1>r, <3>2 DEF Committed
      <4> QED
        BY <2>1, <3>4, <3>5, <4>1, <4>2, <4>3 DEF RowsInOrder
    <3>7. DocumentsInOrder(process', document')
      <4>1. \A q \in Process : process'[q] # Absent =>
              process[q] # Absent /\ process'[q].of = process[q].of /\ process'[q].key = process[q].key
        BY <1>3, <1>r, <3>2, <3>4
      <4>2. \A j \in DocumentId : document'[j] # Absent => document'[j].process \in Process
        BY <2>1 DEF DocumentsInOrder, StoredDocument
      <4> QED
        BY <2>1, <4>1, <4>2 DEF DocumentsInOrder
    <3>8. ASSUME NEW j \in Latest(p)' PROVE Orphan(j)' \/ j = i
      <4>1. j \in DocumentsOf(p)' /\ i \in DocumentsOf(p)'
        BY <2>1, <2>2, <3>8 DEF Latest, DocumentsOf
      <4>2. document'[i].version <= document'[j].version
        BY <3>8, <4>1 DEF Latest
      <4>3. document'[j].version \in Nat /\ document'[j].process = p
        BY <2>1, <4>1 DEF DocumentsOf, DocumentsInOrder, StoredDocument
      <4>4. process'[p] = new
        BY <1>3, <3>4
      <4>5. Orphan(j)' \/ (document'[j].version \in DOMAIN new.versions /\ new.versions[document'[j].version] = j)
        BY <4>3, <4>4 DEF Orphan
      <4>6. document'[i].version = Len(new.versions) /\ new.versions[document'[i].version] = i
        BY <2>1, <2>2, <2>5, <3>5
      <4>7. process'[p].versions = new.versions /\ process'[p] # Absent
        BY <3>3, <4>4
      <4> QED
        BY <1>3, <3>6, <4>2, <4>3, <4>5, <4>6, <4>7, LatestIsCurrent
    <3>9. \A q \in Process : process[q] # Absent => process'[q] # Absent /\ process'[q].of = process[q].of
            /\ process'[q].key = process[q].key /\ process'[q].committed = process[q].committed
      BY <1>r, <3>2, <3>3, <3>4
    <3>10. RequestsInOrder'
      BY <1>0, <1>1, <1>6, <1>p, <2>3, <3>8, <3>9, SavedRequests
    <3>11. LibraryKeysAreUnique'
      <4>1. \A q \in Process : process'[q] # Absent => process[q] # Absent
        BY <1>3, <1>r, <3>4
      <4>2. \A q \in Process : process'[q] # Absent =>
              /\ process[q] # Absent /\ process'[q].of = process[q].of /\ process'[q].key = process[q].key
        BY <3>9, <4>1
      <4>3. LibraryKeysAreUnique
        BY DEF LibraryIInv
      <4> QED
        BY <1>1, <4>2, <4>3 DEF LibraryKeysAreUnique
    <3> QED
      BY <1>1, <3>6, <3>7, <3>10, <3>11 DEF LibraryIInv, TemplatesInOrder
  <2> QED
    BY <1>6, <2>4, <2>5
<1>7. CASE UNCHANGED <<process, document>> /\ Proceed(d, [r EXCEPT !.pc = "post", !.excused = TRUE])
  <2>0. PICK s : s = [r EXCEPT !.pc = "post", !.excused = TRUE]
    OBVIOUS
  <2>1. /\ s \in DeskState /\ s.pc = "post" /\ s.of = r.of /\ s.process = r.process
        /\ s.shown = r.shown /\ s.excused = TRUE
    BY <1>2, <2>0 DEF DeskState
  <2>2. desk' = [desk EXCEPT ![d] = s]
    BY <1>7, <2>0 DEF Proceed
  <2>3. Knows(s)' /\ ~Owns(s)
    BY <1>1, <1>2, <1>7, <2>1 DEF Knows, Saves, Holds, Defines, Owns, Committed
  <2> QED
    BY <1>1, <1>7, <2>2, <2>3, OnlyTheDeskMoves
<1> QED
  <2>1. \/ SavedInto(d, i) /\ process' = IF row.open THEN process
             ELSE [process EXCEPT ![p].open = TRUE, ![p].versions = Append(@, i)]
        \/ SavedInto(d, i) /\ UNCHANGED process
        \/ UNCHANGED <<process, document>> /\ Proceed(d, [r EXCEPT !.pc = "post", !.excused = TRUE])
    BY <1>0, <1>p, <1>r, Zenon DEF BeforeSave
  <2> QED
    BY <1>6, <1>7, <2>1

LEMMA InsertTemplateDocumentStep ==
  ASSUME LibraryIInv, NEW d \in Desk, NEW t \in Template, InsertTemplateDocument(d, t)
  PROVE  LibraryIInv'
<1>0. PICK r, p : r = desk[d] /\ p = r.process
  OBVIOUS
<1>1. r.pc = "post" /\ blueprint[t] = Absent /\ UNCHANGED <<process, document, template>>
  BY <1>0 DEF InsertTemplateDocument, NextTemplate
<1>2. Knows(r) /\ r \in DeskState
  BY <1>0 DEF LibraryIInv, RequestsInOrder, Knows
<1>3. /\ r.of \in Tenant /\ p \in Process /\ Committed(p) /\ process[p].key = r.shown.key
      /\ r.shown \in AnyBlueprint
  BY <1>0, <1>1, <1>2 DEF Knows, Saves, DeskState
<1>4. PICK i \in Latest(p) :
        blueprint' = [blueprint EXCEPT ![t] = [key |-> document[i].key, steps |-> document[i].steps]]
  BY <1>0 DEF InsertTemplateDocument
<1>5. i \in DocumentId /\ document[i] \in StoredDocument /\ document[i].key = r.shown.key
  <2>1. i \in DocumentId /\ document[i] # Absent /\ document[i].process = p
    BY <1>4 DEF Latest, DocumentsOf
  <2> QED
    BY <1>3, <2>1 DEF LibraryIInv, DocumentsInOrder, Committed
<1>6. PICK b : b = [key |-> document[i].key, steps |-> document[i].steps]
  OBVIOUS
<1>7. b \in AnyBlueprint
  <2>1. b \in BlueprintNaming(Tenant)
    BY <1>5, <1>6 DEF BlueprintNaming, StoredDocument
  <2> QED
    BY <2>1, BlueprintsNameMore DEF AnyBlueprint, Owner
<1>8. PICK s : s = [r EXCEPT !.pc = "row", !.template = t,
                             !.excused = @ \/ \E j \in Latest(p) : Orphan(j)]
  OBVIOUS
<1>9. desk' = [desk EXCEPT ![d] = s]
  BY <1>0, <1>8, Zenon DEF InsertTemplateDocument, Proceed
<1>10. /\ s \in DeskState /\ s.pc = "row" /\ s.of = r.of /\ s.process = p /\ s.template = t
       /\ s.shown = r.shown /\ s.excused = (r.excused \/ \E j \in Latest(p) : Orphan(j))
  BY <1>0, <1>2, <1>8 DEF DeskState
<1>11. ~s.excused => b = r.shown
  <2>1. ~s.excused => document[i].steps = r.shown.steps
    BY <1>0, <1>1, <1>2, <1>4, <1>10 DEF Knows, Holds
  <2>2. r.shown = [key |-> r.shown.key, steps |-> r.shown.steps]
    BY <1>3 DEF AnyBlueprint, BlueprintNaming
  <2> QED
    BY <1>5, <1>6, <2>1, <2>2
<1>12. /\ blueprint' \in [Template -> AnyBlueprint \cup {Absent}]
       /\ \A u \in Template : blueprint'[u] = IF u = t THEN b ELSE blueprint[u]
  BY <1>4, <1>6, <1>7 DEF LibraryIInv, TemplatesInOrder
<1>13. b # Absent
  BY <1>7, LibraryAssumption DEF AnyBlueprint, Owner
<1>14. BlueprintsKept
  BY <1>1, <1>12 DEF BlueprintsKept
<1>15. Knows(s)' /\ ~Owns(s)
  <2>1. Saves(s)'
    BY <1>0, <1>1, <1>2, <1>10 DEF Knows, Saves, Committed
  <2>2. Holds(s)'
    BY <1>10, <1>11, <1>12, <1>13 DEF Holds
  <2> QED
    BY <1>10, <2>1, <2>2 DEF Knows, Defines, Owns
<1>16. RequestsInOrder'
  BY <1>1, <1>9, <1>14, <1>15, NothingIsDisturbed, OneDeskMoves DEF LibraryIInv
<1>17. TemplatesInOrder'
  BY <1>1, <1>12 DEF LibraryIInv, TemplatesInOrder
<1> QED
  BY <1>1, <1>16, <1>17 DEF LibraryIInv, LibraryKeysAreUnique

LEMMA CreateTemplateStep ==
  ASSUME LibraryIInv, NEW d \in Desk, CreateTemplate(d)
  PROVE  LibraryIInv'
<1>0. PICK r : r = desk[d]
  OBVIOUS
<1> DEFINE row == [of |-> r.of, key |-> r.shown.key, scope |-> "organisation", name |-> "given",
                   shown |-> r.shown, excused |-> r.excused]
<1>1. /\ r.pc = "row" /\ r.shown.key \notin TemplateKeys(r.of)
      /\ UNCHANGED <<process, document, blueprint>>
      /\ template' = [template EXCEPT ![r.template] = row]
      /\ desk' = [desk EXCEPT ![d] = Idle]
  BY <1>0, Zenon DEF CreateTemplate, Proceed
<1>2. Knows(r) /\ r \in DeskState
  BY <1>0 DEF LibraryIInv, RequestsInOrder, Knows
<1>3. /\ r.of \in Tenant /\ r.shown \in AnyBlueprint /\ r.excused \in BOOLEAN
      /\ r.template \in Template /\ blueprint[r.template] # Absent
      /\ ~r.excused => blueprint[r.template] = r.shown
  BY <1>1, <1>2 DEF Knows, Saves, Holds, DeskState
<1>4. r.shown.key \in Seq(Int)
  BY <1>3 DEF AnyBlueprint, BlueprintNaming
<1>5. row \in TemplateRow
  BY <1>3, <1>4 DEF TemplateRow
<1>6. row.of = r.of /\ row.key = r.shown.key /\ row.shown = r.shown /\ row.excused = r.excused
  OBVIOUS
<1> HIDE DEF row
<1>7. /\ template' \in [Template -> TemplateRow \cup {Absent}]
      /\ \A t \in Template : template'[t] = IF t = r.template THEN row ELSE template[t]
  BY <1>1, <1>5 DEF LibraryIInv, TemplatesInOrder
<1>8. TemplatesInOrder'
  BY <1>1, <1>3, <1>6, <1>7 DEF LibraryIInv, TemplatesInOrder
<1>9. \A t \in Template : template[t] # Absent /\ template[t].of = r.of =>
        template[t].key # r.shown.key
  BY <1>1 DEF TemplateKeys, Own
<1>10. LibraryKeysAreUnique'
  <2>1. LibraryKeysAreUnique
    BY DEF LibraryIInv
  <2> QED
    BY <1>1, <1>6, <1>7, <1>9, <2>1 DEF LibraryKeysAreUnique
<1>11. RequestsInOrder'
  BY <1>1, IdleKnows, NothingIsDisturbed, OneDeskMoves DEF LibraryIInv, BlueprintsKept
<1> QED
  BY <1>1, <1>8, <1>10, <1>11 DEF LibraryIInv

LEMMA CreateDefinitionStep ==
  ASSUME LibraryIInv, NEW d \in Desk, NEW p \in Process, CreateDefinition(d, p)
  PROVE  LibraryIInv'
<1>0. PICK r : r = desk[d]
  OBVIOUS
<1>1. PICK row : row = [of |-> r.of, key |-> r.shown.key, versions |-> <<>>, open |-> FALSE,
                        committed |-> FALSE]
  OBVIOUS
<1>2. /\ r.pc = "define" /\ process[p] = Absent /\ DocumentsOf(p) = {}
      /\ r.shown.key \notin ReservedKeys(r.of)
      /\ process' = [process EXCEPT ![p] = row] /\ UNCHANGED <<document, template, blueprint>>
  BY <1>0, <1>1, Zenon DEF CreateDefinition, NextProcess, Unused
<1>3. Knows(r) /\ r \in DeskState
  BY <1>0 DEF LibraryIInv, RequestsInOrder, Knows
<1>4. r.of \in Tenant /\ r.shown \in BlueprintNaming({})
  BY <1>2, <1>3 DEF Knows, Defines
<1>5. /\ row \in DefinitionRow /\ row.of = r.of /\ row.key = r.shown.key /\ row.versions = <<>>
      /\ ~row.committed
  BY <1>1, <1>4 DEF DefinitionRow, BlueprintNaming
<1>6. row # Absent
  BY <1>5, LibraryAssumption
<1>7. /\ process' \in [Process -> DefinitionRow \cup {Absent}]
      /\ \A q \in Process : process'[q] = IF q = p THEN row ELSE process[q]
  BY <1>2, <1>5 DEF LibraryIInv, RowsInOrder
<1>8. RowsInOrder(process', document)
  BY <1>5, <1>7 DEF LibraryIInv, RowsInOrder
<1>9. DocumentsInOrder(process', document)
  <2>1. \A i \in DocumentId : document[i] # Absent => document[i].process \in Process \ {p}
    BY <1>2 DEF LibraryIInv, DocumentsInOrder, DocumentsOf, StoredDocument
  <2> QED
    BY <1>7, <2>1 DEF LibraryIInv, DocumentsInOrder
<1>10. LibraryKeysAreUnique'
  <2>1. LibraryKeysAreUnique
    BY DEF LibraryIInv
  <2>2. \A q \in Process : process[q] # Absent /\ process[q].of = r.of => process[q].key # r.shown.key
    BY <1>2 DEF ReservedKeys
  <2> QED
    BY <1>2, <1>5, <1>7, <2>1, <2>2 DEF LibraryKeysAreUnique
<1>11. PICK s : s = [r EXCEPT !.pc = "document", !.process = p]
  OBVIOUS
<1>12. desk' = [desk EXCEPT ![d] = s]
  BY <1>0, <1>11, Zenon DEF CreateDefinition, Proceed
<1>13. s \in DeskState /\ s.pc = "document" /\ s.of = r.of /\ s.process = p /\ s.shown = r.shown
  BY <1>3, <1>11 DEF DeskState
<1>14. Knows(s)'
  BY <1>4, <1>5, <1>6, <1>7, <1>13 DEF Knows, Saves, Holds, Defines, Owns
<1>15. ASSUME NEW e \in Desk, desk[e].pc \in {"save", "post", "row", "document", "version"}
       PROVE  desk[e].process # p
  <2>1. PICK k : k = desk[e]
    OBVIOUS
  <2>2. Knows(k)
    BY <2>1 DEF LibraryIInv, RequestsInOrder
  <2> QED
    BY <1>2, <1>15, <2>1, <2>2 DEF Knows, Saves, Defines, Owns, Committed
<1>16. \A q \in Process : q # p => process'[q] = process[q] /\ DocumentsKept(q)
  BY <1>2, <1>7 DEF DocumentsKept
<1>17. \A e \in Desk : Undisturbed(desk[e])
  BY <1>15, <1>16, OthersAreUndisturbed
<1>18. \A e \in Desk : Owns(desk[e]) => desk[e].process # s.process
  BY <1>13, <1>15 DEF Owns
<1>19. RequestsInOrder'
  BY <1>2, <1>12, <1>14, <1>17, <1>18, OneDeskMoves DEF LibraryIInv, BlueprintsKept
<1> QED
  BY <1>2, <1>8, <1>9, <1>10, <1>19 DEF LibraryIInv, TemplatesInOrder

LEMMA InsertDefinitionDocumentStep ==
  ASSUME LibraryIInv, NEW d \in Desk, NEW i \in DocumentId, InsertDefinitionDocument(d, i)
  PROVE  LibraryIInv'
<1>0. PICK r, p : r = desk[d] /\ p = r.process
  OBVIOUS
<1>1. PICK doc : doc = [of |-> r.of, process |-> p, key |-> r.shown.key, steps |-> r.shown.steps,
                        version |-> 1]
  OBVIOUS
<1>2. /\ r.pc = "document" /\ document[i] = Absent /\ document' = [document EXCEPT ![i] = doc]
      /\ UNCHANGED <<process, template, blueprint>>
  BY <1>0, <1>1, Zenon DEF InsertDefinitionDocument, NextDocument
<1>3. Knows(r) /\ r \in DeskState
  BY <1>0 DEF LibraryIInv, RequestsInOrder, Knows
<1>4. /\ r.of \in Tenant /\ r.shown \in BlueprintNaming({}) /\ p \in Process
      /\ process[p] # Absent /\ process[p].of = r.of /\ process[p].key = r.shown.key
  BY <1>0, <1>2, <1>3 DEF Knows, Defines, Owns
<1>5. /\ r.shown.key \in Seq(Int) /\ r.shown.steps \in StepsNaming(Tenant)
      /\ r.shown.steps \in StepsNaming({r.of})
  <2>1. r.shown.key \in Seq(Int) /\ r.shown.steps \in StepsNaming({})
    BY <1>4 DEF BlueprintNaming
  <2> QED
    BY <2>1, StepsNameMore
<1>6. /\ doc \in StoredDocument /\ doc.of = r.of /\ doc.process = p /\ doc.key = r.shown.key
      /\ doc.steps = r.shown.steps /\ doc.version = 1
  BY <1>1, <1>4, <1>5 DEF StoredDocument
<1>7. DocumentsInOrder(process, document') /\ RowsInOrder(process, document')
  BY <1>2, <1>4, <1>5, <1>6, WrittenInOrder DEF LibraryIInv
<1>8. \A j \in DocumentId : document'[j] = IF j = i THEN doc ELSE document[j]
  BY <1>2 DEF LibraryIInv, DocumentsInOrder
<1>9. PICK s : s = [r EXCEPT !.pc = "version", !.stored = i]
  OBVIOUS
<1>10. desk' = [desk EXCEPT ![d] = s]
  BY <1>0, <1>9, Zenon DEF InsertDefinitionDocument, Proceed
<1>11. /\ s \in DeskState /\ s.pc = "version" /\ s.of = r.of /\ s.process = p /\ s.shown = r.shown
       /\ s.stored = i
  BY <1>0, <1>3, <1>9 DEF DeskState
<1>12. i \in DocumentsOf(p)' /\ document'[i].version = 1
  BY <1>6, <1>8, LibraryAssumption DEF DocumentsOf
<1>13. Knows(s)'
  BY <1>0, <1>2, <1>3, <1>11, <1>12 DEF Knows, Saves, Holds, Defines, Owns
<1>14. \A q \in Process : q # p => process'[q] = process[q] /\ DocumentsKept(q)
  BY <1>2, <1>6, <1>8 DEF DocumentsKept, DocumentsOf
<1>15. \A e \in Desk : e # d => Undisturbed(desk[e])
  BY <1>0, <1>2, <1>14, OwnedByOne, OthersAreUndisturbed DEF Owns
<1>16. Owns(desk[d]) /\ desk[d].process = s.process
  BY <1>0, <1>2, <1>11 DEF Owns
<1>17. RequestsInOrder'
  BY <1>2, <1>10, <1>13, <1>15, <1>16, OneDeskMoves DEF LibraryIInv, BlueprintsKept
<1> QED
  BY <1>2, <1>7, <1>17 DEF LibraryIInv, TemplatesInOrder, LibraryKeysAreUnique

LEMMA CreateVersionStep ==
  ASSUME LibraryIInv, NEW d \in Desk, CreateVersion(d)
  PROVE  LibraryIInv'
<1>0. PICK r, p : r = desk[d] /\ p = r.process
  OBVIOUS
<1>1. /\ r.pc = "version" /\ desk' = [desk EXCEPT ![d] = Idle]
      /\ UNCHANGED <<document, template, blueprint>>
      /\ process' = [process EXCEPT ![p].versions = <<r.stored>>, ![p].open = TRUE, ![p].committed = TRUE]
  BY <1>0, Zenon DEF CreateVersion, Proceed
<1>2. Knows(r)
  BY <1>0 DEF LibraryIInv, RequestsInOrder
<1>3. /\ p \in Process /\ process[p] # Absent /\ r.stored \in DocumentsOf(p)
      /\ document[r.stored].version = 1
  BY <1>0, <1>1, <1>2 DEF Knows, Defines, Owns
<1>4. process[p] \in DefinitionRow /\ r.stored \in DocumentId
  BY <1>3 DEF LibraryIInv, RowsInOrder, DocumentsOf
<1>5. PICK row : row = [process[p] EXCEPT !.versions = <<r.stored>>, !.open = TRUE, !.committed = TRUE]
  OBVIOUS
<1>6. /\ row \in DefinitionRow /\ row.of = process[p].of /\ row.key = process[p].key
      /\ row.versions = <<r.stored>> /\ row.committed
  <2>1. <<r.stored>> \in Seq(DocumentId)
    BY <1>4
  <2> QED
    BY <1>4, <1>5, <2>1 DEF DefinitionRow
<1>7. /\ process' \in [Process -> DefinitionRow \cup {Absent}]
      /\ \A q \in Process : process'[q] = IF q = p THEN row ELSE process[q]
  <2>1. process \in [Process -> DefinitionRow \cup {Absent}]
    BY DEF LibraryIInv, RowsInOrder
  <2>2. process' = [process EXCEPT ![p] = row]
    BY <1>1, <1>3, <1>5, <2>1
  <2> QED
    BY <1>6, <2>1, <2>2
<1>8. RowsInOrder(process', document)
  <2>1. row.versions # <<>> /\ DOMAIN row.versions = {1} /\ row.versions[1] = r.stored
    BY <1>6
  <2>2. document[r.stored] # Absent /\ document[r.stored].process = p
    BY <1>3 DEF DocumentsOf
  <2> QED
    BY <1>3, <1>6, <1>7, <2>1, <2>2 DEF LibraryIInv, RowsInOrder
<1>9. \A q \in Process : process'[q] # Absent =>
        process[q] # Absent /\ process'[q].of = process[q].of /\ process'[q].key = process[q].key
  BY <1>3, <1>6, <1>7
<1>10. DocumentsInOrder(process', document)
  <2>1. \A i \in DocumentId : document[i] # Absent => document[i].process \in Process
    BY DEF LibraryIInv, DocumentsInOrder, StoredDocument
  <2> QED
    BY <1>9, <2>1 DEF LibraryIInv, DocumentsInOrder
<1>11. LibraryKeysAreUnique'
  <2>1. LibraryKeysAreUnique
    BY DEF LibraryIInv
  <2>2. UNCHANGED template
    BY <1>1
  <2> QED
    BY <1>9, <2>1, <2>2 DEF LibraryKeysAreUnique
<1>12. \A q \in Process : q # p => process'[q] = process[q] /\ DocumentsKept(q)
  BY <1>1, <1>7 DEF DocumentsKept
<1>13. \A e \in Desk : e # d => Undisturbed(desk[e])
  BY <1>0, <1>1, <1>12, OwnedByOne, OthersAreUndisturbed DEF Owns
<1>14. RequestsInOrder'
  BY <1>1, <1>13, IdleKnows, OneDeskMoves DEF LibraryIInv, BlueprintsKept
<1> QED
  BY <1>1, <1>8, <1>10, <1>11, <1>14 DEF LibraryIInv, TemplatesInOrder

(* Rolling back takes nobody else's row away.                              *)
LEMMA GiveUpStep ==
  ASSUME LibraryIInv, NEW d \in Desk, GiveUp(d)
  PROVE  LibraryIInv'
<1>0. PICK r, p : r = desk[d] /\ p = r.process
  OBVIOUS
<1>1. desk' = [desk EXCEPT ![d] = Idle] /\ UNCHANGED <<document, template, blueprint>>
  BY DEF GiveUp, Proceed
<1>2. CASE ~Owns(r)
  <2>1. UNCHANGED process
    BY <1>0, <1>2 DEF GiveUp, Owns
  <2> QED
    BY <1>1, <2>1, IdleKnows, OnlyTheDeskMoves
<1>3. CASE Owns(r)
  <2>1. process' = [process EXCEPT ![p] = Absent]
    BY <1>0, <1>3 DEF GiveUp, Owns
  <2>2. /\ process' \in [Process -> DefinitionRow \cup {Absent}]
        /\ \A q \in Process : process'[q] = IF q = p THEN Absent ELSE process[q]
    BY <2>1 DEF LibraryIInv, RowsInOrder
  <2>3. RowsInOrder(process', document)
    BY <2>2 DEF LibraryIInv, RowsInOrder
  <2>4. DocumentsInOrder(process', document)
    <3>1. \A i \in DocumentId : document[i] # Absent => document[i].process \in Process
      BY DEF LibraryIInv, DocumentsInOrder, StoredDocument
    <3> QED
      BY <2>2, <3>1 DEF LibraryIInv, DocumentsInOrder
  <2>5. LibraryKeysAreUnique'
    <3>1. LibraryKeysAreUnique
      BY DEF LibraryIInv
    <3> QED
      BY <1>1, <2>2, <3>1 DEF LibraryKeysAreUnique
  <2>6. \A q \in Process : q # p => process'[q] = process[q] /\ DocumentsKept(q)
    BY <1>1, <2>2 DEF DocumentsKept
  <2>7. \A e \in Desk : e # d => Undisturbed(desk[e])
    BY <1>0, <1>3, <2>6, OwnedByOne, OthersAreUndisturbed
  <2>8. RequestsInOrder'
    BY <1>1, <2>7, IdleKnows, OneDeskMoves DEF LibraryIInv, BlueprintsKept
  <2> QED
    BY <1>1, <2>3, <2>4, <2>5, <2>8 DEF LibraryIInv, TemplatesInOrder
<1> QED
  BY <1>2, <1>3

LEMMA PublishVersionStep ==
  ASSUME LibraryIInv, NEW p \in Process, PublishVersion(p)
  PROVE  LibraryIInv'
<1>1. /\ process[p] # Absent /\ process' = [process EXCEPT ![p].open = FALSE]
      /\ UNCHANGED <<document, template, blueprint, desk>>
  BY DEF PublishVersion, Committed, Quick
<1>2. process \in [Process -> DefinitionRow \cup {Absent}] /\ process[p] \in DefinitionRow
  BY <1>1 DEF LibraryIInv, RowsInOrder
<1>3. PICK row : row = [process[p] EXCEPT !.open = FALSE]
  OBVIOUS
<1>4. /\ row \in DefinitionRow /\ row.of = process[p].of /\ row.key = process[p].key
      /\ row.versions = process[p].versions /\ row.committed = process[p].committed
  BY <1>2, <1>3 DEF DefinitionRow
<1>5. process' = [process EXCEPT ![p] = row]
  BY <1>1, <1>2, <1>3
<1>6. /\ process' \in [Process -> DefinitionRow \cup {Absent}]
      /\ \A q \in Process : process'[q] = IF q = p THEN row ELSE process[q]
  BY <1>2, <1>4, <1>5
<1>7. row # Absent
  BY <1>4, LibraryAssumption
<1>8. \A q \in Process : process[q] # Absent => RowKept(q)
  BY <1>4, <1>6, <1>7 DEF RowKept
<1>9. \A q \in Process : process'[q] # Absent => process[q] # Absent
  BY <1>1, <1>6
<1>10. RowsInOrder(process', document)
  BY <1>6, <1>8, <1>9 DEF LibraryIInv, RowsInOrder, RowKept
<1>11. DocumentsInOrder(process', document)
  <2>1. \A i \in DocumentId : document[i] # Absent => document[i].process \in Process
    BY DEF LibraryIInv, DocumentsInOrder, StoredDocument
  <2> QED
    BY <1>8, <1>9, <2>1 DEF LibraryIInv, DocumentsInOrder, RowKept
<1>12. LibraryKeysAreUnique'
  <2>1. LibraryKeysAreUnique
    BY DEF LibraryIInv
  <2> QED
    BY <1>1, <1>8, <1>9, <2>1 DEF LibraryKeysAreUnique, RowKept
<1>13. ASSUME NEW e \in Desk PROVE Undisturbed(desk[e])
  <2>0. PICK k : k = desk[e]
    OBVIOUS
  <2>1. Knows(k)
    BY <2>0 DEF LibraryIInv, RequestsInOrder
  <2>2. k.pc \in {"save", "post", "row", "document", "version"} =>
          k.process \in Process /\ process[k.process] # Absent
    BY <2>1 DEF Knows, Saves, Defines, Owns, Committed
  <2>3. \A q : DocumentsKept(q)
    BY <1>1 DEF DocumentsKept
  <2> QED
    BY <1>8, <2>0, <2>2, <2>3 DEF Undisturbed
<1>14. RequestsInOrder'
  BY <1>1, <1>13, NoDeskMoves DEF LibraryIInv, BlueprintsKept
<1> QED
  BY <1>1, <1>10, <1>11, <1>12, <1>14 DEF LibraryIInv, TemplatesInOrder

(* Renaming, sharing and withdrawing leave what a template holds alone.    *)
LEMMA TemplateStep ==
  ASSUME LibraryIInv, NEW o \in Tenant, NEW t \in Template,
         UpdateTemplate(o, t) \/ SetTemplateScope(o, t) \/ DeleteTemplate(o, t)
  PROVE  LibraryIInv'
<1>1. UNCHANGED <<process, document, blueprint, desk>> /\ template[t] # Absent
  BY DEF UpdateTemplate, SetTemplateScope, DeleteTemplate, Quick, Own
<1>2. template \in [Template -> TemplateRow \cup {Absent}] /\ template[t] \in TemplateRow
  BY <1>1 DEF LibraryIInv, TemplatesInOrder
<1>3. PICK row :
        /\ template' = [template EXCEPT ![t] = row] /\ row \in TemplateRow \cup {Absent}
        /\ row # Absent => /\ row.of = template[t].of /\ row.key = template[t].key
                           /\ row.excused = template[t].excused /\ row.shown = template[t].shown
  <2>1. CASE DeleteTemplate(o, t)
    BY <2>1 DEF DeleteTemplate
  <2>2. CASE UpdateTemplate(o, t)
    <3> DEFINE row == [template[t] EXCEPT !.name = "patched"]
    <3>1. template' = [template EXCEPT ![t] = row]
      BY <1>2, <2>2 DEF UpdateTemplate
    <3>2. /\ row \in TemplateRow /\ row.of = template[t].of /\ row.key = template[t].key
          /\ row.excused = template[t].excused /\ row.shown = template[t].shown
      BY <1>2 DEF TemplateRow
    <3> HIDE DEF row
    <3> QED
      BY <3>1, <3>2
  <2>3. CASE SetTemplateScope(o, t)
    <3>1. PICK scope \in {"organisation", "published"} : template' = [template EXCEPT ![t].scope = scope]
      BY <2>3 DEF SetTemplateScope
    <3> DEFINE row == [template[t] EXCEPT !.scope = scope]
    <3>2. template' = [template EXCEPT ![t] = row]
      BY <1>2, <3>1
    <3>3. /\ row \in TemplateRow /\ row.of = template[t].of /\ row.key = template[t].key
          /\ row.excused = template[t].excused /\ row.shown = template[t].shown
      BY <1>2 DEF TemplateRow
    <3> HIDE DEF row
    <3> QED
      BY <3>2, <3>3
  <2> QED
    BY <2>1, <2>2, <2>3
<1>4. /\ template' \in [Template -> TemplateRow \cup {Absent}]
      /\ \A u \in Template : template'[u] = IF u = t THEN row ELSE template[u]
  BY <1>2, <1>3
<1>5. \A u \in Template : template'[u] # Absent =>
        /\ template[u] # Absent /\ template'[u].of = template[u].of /\ template'[u].key = template[u].key
        /\ template'[u].excused = template[u].excused /\ template'[u].shown = template[u].shown
  BY <1>1, <1>3, <1>4
<1>6. TemplatesInOrder'
  BY <1>1, <1>4, <1>5 DEF LibraryIInv, TemplatesInOrder
<1>7. LibraryKeysAreUnique'
  <2>1. LibraryKeysAreUnique
    BY DEF LibraryIInv
  <2> QED
    BY <1>1, <1>5, <2>1 DEF LibraryKeysAreUnique
<1>8. RequestsInOrder'
  BY <1>1, NothingIsDisturbed, NoDeskMoves DEF LibraryIInv, BlueprintsKept
<1> QED
  BY <1>1, <1>6, <1>7, <1>8 DEF LibraryIInv

LEMMA LibraryInvIsInductive == LibraryIInv /\ [LibraryNext]_libraryVars => LibraryIInv'
<1> SUFFICES ASSUME LibraryIInv, [LibraryNext]_libraryVars PROVE LibraryIInv'
  OBVIOUS
<1>1. CASE UNCHANGED libraryVars
  <2>1. UNCHANGED <<process, document, template, blueprint, desk>>
    BY <1>1 DEF libraryVars
  <2>2. RequestsInOrder'
    BY <2>1, NothingIsDisturbed, NoDeskMoves DEF LibraryIInv, BlueprintsKept
  <2> QED
    BY <2>1, <2>2 DEF LibraryIInv, TemplatesInOrder, LibraryKeysAreUnique
<1>2. ASSUME NEW d \in Desk, DeskStep(d) PROVE LibraryIInv'
  BY <1>2, SaveAsTemplateStep, CreateDefinitionStep, BeforeSaveStep, InsertDefinitionDocumentStep,
     InsertTemplateDocumentStep, CreateProcessStep, ReadBlueprintStep, CreateTemplateStep,
     ChooseKeyStep, CreateVersionStep, GiveUpStep DEF DeskStep
<1>3. ASSUME NEW p \in Process, PublishVersion(p) PROVE LibraryIInv'
  BY <1>3, PublishVersionStep
<1>4. ASSUME NEW o \in Tenant, NEW t \in Template,
             UpdateTemplate(o, t) \/ SetTemplateScope(o, t) \/ DeleteTemplate(o, t)
      PROVE  LibraryIInv'
  BY <1>4, TemplateStep
<1> QED
  BY <1>1, <1>2, <1>3, <1>4 DEF LibraryNext

(* Documents name their own organisation's people and belong to its rows,  *)
(* whatever was rolled back; rows have their documents and templates their *)
(* blueprints; requests know the process they save, what they have saved   *)
(* and what is theirs until it is committed; keys name one process and one *)
(* template of an organisation.                                            *)
THEOREM LibraryInvariance == LibrarySpec => []LibraryIInv
<1> QED
  BY LibraryStartsInOrder, LibraryInvIsInductive, PTL DEF LibrarySpec

(* "Saving the draft first is what makes 'save as template' mean what it   *)
(* looks like it means" (save-as-template.tsx:57), for any number of tabs: *)
(* but for a save that failed before it wrote its document, another tab's  *)
(* save in between, and a leftover of a save that was rolled back.         *)
THEOREM TemplatesAreWhatWasShown == LibrarySpec => []TemplatesHoldWhatWasShown
<1>1. LibraryIInv => TemplatesHoldWhatWasShown
  BY DEF LibraryIInv, TemplatesInOrder, TemplatesHoldWhatWasShown
<1> QED
  BY <1>1, LibraryInvariance, PTL

LEMMA AssignmentsNameTheirOwner ==
  ASSUME NEW A, NEW steps \in StepsNaming(A), NEW s \in Assignments(steps)
  PROVE  s.of \in A \cup {Absent}
<1> DEFINE StepA == [assignment : StrategyNaming(A), escalation : Seq(StrategyNaming(A))]
<1>1. steps \in Seq(StepA)
  BY DEF StepsNaming
<1>2. PICK i \in DOMAIN steps :
        \/ s = steps[i].assignment
        \/ \E l \in DOMAIN steps[i].escalation : s = steps[i].escalation[l]
  BY DEF Assignments
<1>3. steps[i] \in StepA
  <2> HIDE DEF StepA
  <2> QED
    BY <1>1
<1>4. steps[i].assignment \in StrategyNaming(A) /\ steps[i].escalation \in Seq(StrategyNaming(A))
  BY <1>3
<1>5. s \in StrategyNaming(A)
  BY <1>2, <1>4
<1> QED
  BY <1>5 DEF StrategyNaming

(* "The row never points at a blueprint that does not exist"               *)
(* (routes/templates.ts:200), nor a version at another's document; keys    *)
(* are unique, and nobody of another organisation is named in a process:   *)
(* across any number of organisations, tabs and requests cut short.        *)
THEOREM LibraryIsSound == LibrarySpec => []LibraryInv
<1>1. ASSUME LibraryIInv PROVE RowsHaveDocuments
  <2>1. \A t \in Template : template[t] # Absent => blueprint[t] # Absent
    BY <1>1 DEF LibraryIInv, TemplatesInOrder
  <2>2. ASSUME NEW p \in Process, Committed(p)
        PROVE  /\ process[p].versions # <<>>
               /\ \A n \in DOMAIN process[p].versions :
                    /\ process[p].versions[n] \in DocumentsOf(p)
                    /\ document[process[p].versions[n]].version = n
    <3>1. process[p].versions \in Seq(DocumentId)
      BY <1>1, <2>2 DEF LibraryIInv, RowsInOrder, Committed, DefinitionRow
    <3>2. \A n \in DOMAIN process[p].versions : process[p].versions[n] \in DocumentId
      BY <3>1
    <3> QED
      BY <1>1, <2>2, <3>2 DEF LibraryIInv, RowsInOrder, Committed, DocumentsOf
  <2> QED
    BY <2>1, <2>2 DEF RowsHaveDocuments
<1>2. ASSUME LibraryIInv PROVE NobodyFromElsewhere
  <2> SUFFICES ASSUME NEW p \in Process, Committed(p), NEW i \in DocumentsOf(p),
                      NEW s \in Assignments(document[i].steps)
               PROVE  s.of \in {Absent, process[p].of}
    BY DEF NobodyFromElsewhere
  <2>1. document[i].steps \in StepsNaming({process[p].of})
    BY <1>2 DEF LibraryIInv, DocumentsInOrder, DocumentsOf, Committed
  <2>2. s.of \in {process[p].of} \cup {Absent}
    BY <2>1, AssignmentsNameTheirOwner
  <2> QED
    BY <2>2
<1>3. LibraryIInv => LibraryInv
  BY <1>1, <1>2 DEF LibraryInv, LibraryIInv
<1> QED
  BY <1>3, LibraryInvariance, PTL
=============================================================================
