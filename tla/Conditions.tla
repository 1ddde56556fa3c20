------------------------------ MODULE Conditions ------------------------------
(***************************************************************************)
(* The conditions tenants write on questions and transitions, and the pure *)
(* evaluator every process shares: the engine in the API, the form runtime *)
(* and the simulator in the browser.                                       *)
(* Sources: packages/core/src/conditions.                                  *)
(*                                                                         *)
(* A value carries its JavaScript type.  Texts are sequences over a small  *)
(* alphabet of numbers, ordered like their letters.                        *)
(***************************************************************************)
EXTENDS Naturals, Sequences, SequencesExt

Null      == [type |-> "null"]
Number(n) == [type |-> "number", is |-> n]
Flag(b)   == [type |-> "boolean", is |-> b]
Text(s)   == [type |-> "string", is |-> s]
List(s)   == [type |-> "array", is |-> s]

(* A condition is the sequence of its parts, each of them after those it   *)
(* consists of: null, a connective, or a comparison.  The last part is the *)
(* whole.                                                                  *)
Connective == {"all", "any", "not"}

Default         == <<[kind |-> "null"]>>
Where(f, op, v) == <<[kind |-> "leaf", field |-> f, operator |-> op, value |-> v]>>

(* The parts of a condition, as they are after n others.                   *)
Behind(c, n) ==
  [i \in DOMAIN c |->
     IF c[i].kind \in Connective THEN [c[i] EXCEPT !.of = {n + j : j \in @}] ELSE c[i]]

Connect(kind, children) ==
  LET before(i) == Len(FlattenSeq(SubSeq(children, 1, i - 1))) IN
  Append(FlattenSeq([i \in DOMAIN children |-> Behind(children[i], before(i))]),
         [kind |-> kind, of |-> {before(i) + Len(children[i]) : i \in DOMAIN children}])

AllOf(children) == Connect("all", children)
AnyOf(children) == Connect("any", children)
NotOf(child)    == Connect("not", <<child>>)

Leaves(c) == {c[i] : i \in {k \in DOMAIN c : c[k].kind = "leaf"}}

Negated(c) == \E i \in DOMAIN c : c[i].kind = "not"

(* What the schema of documents accepts, whatever is nested in what: no    *)
(* part contains itself, and each but the whole belongs to another.        *)
IsCondition(c) ==
  /\ c \in Seq(Range(c)) /\ c # <<>>
  /\ \A i \in DOMAIN c :
       /\ c[i].kind \in {"null", "leaf"} \cup Connective
       /\ c[i].kind \in Connective => c[i].of \subseteq 1 .. (i - 1)
       /\ c[i].kind = "not" => \E j \in 1 .. (i - 1) : c[i].of = {j}
       /\ i # Len(c) => \E k \in DOMAIN c : c[k].kind \in Connective /\ i \in c[k].of

----------------------------------------------------------------------------

IsEmptyValue(v) ==
  v = Null \/ (v.type \in {"string", "array"} /\ v.is = <<>>)

(* s comes before t: the shorter of two that agree, or the smaller letter. *)
Before(s, t) ==
  \/ IsStrictPrefix(s, t)
  \/ \E i \in DOMAIN s \cap DOMAIN t :
       s[i] < t[i] /\ \A j \in 1 .. (i - 1) : s[j] = t[j]

Less(a, b) == IF a.type = "number" THEN a.is < b.is ELSE Before(a.is, b.is)

Ordered == {"gt", "gte", "lt", "lte"}

(* Both numbers or both texts: whatever else makes no sense.               *)
Comparable(a, b) == a.type = b.type /\ a.type \in {"number", "string"}

CompareOrdered(operator, actual, expected) ==
  /\ Comparable(actual, expected)
  /\ CASE operator = "gt"  -> Less(expected, actual)
       [] operator = "gte" -> ~Less(actual, expected)
       [] operator = "lt"  -> Less(actual, expected)
       [] operator = "lte" -> ~Less(expected, actual)

Includes(text, part) ==
  \E i \in 0 .. Len(text) : IsPrefix(part, SubSeq(text, i + 1, Len(text)))

Found(operator, actual, expected) ==
  CASE operator \in {"in", "notIn"} -> \E i \in DOMAIN expected.is : expected.is[i] = actual
    [] operator \in {"contains", "notContains"} ->
         IF actual.type = "array" THEN \E i \in DOMAIN actual.is : actual.is[i] = expected
         ELSE Includes(actual.is, expected.is)
    [] operator = "startsWith" -> IsPrefix(expected.is, actual.is)
    [] operator = "endsWith"   -> IsSuffix(expected.is, actual.is)

(* The comparison cannot be made: its operands have the wrong types.       *)
Mismatch(operator, actual, expected) ==
  CASE operator \in Ordered -> Null \notin {actual, expected} /\ ~Comparable(actual, expected)
    [] operator \in {"in", "notIn"} -> expected.type # "array"
    [] operator \in {"contains", "notContains"} ->
         actual.type # "array" /\ ~(actual.type = "string" /\ expected.type = "string")
    [] operator \in {"startsWith", "endsWith"} -> ~(actual.type = "string" /\ expected.type = "string")
    [] OTHER -> FALSE

(* A slip the runs must catch: the negating operators negate the outcome,  *)
(* not the search, so that an unusable comparison succeeds.                *)
ApplyByNegation(operator, actual, expected) ==
  CASE operator = "eq"  -> actual = expected
    [] operator = "neq" -> actual # expected
    [] operator \in Ordered -> CompareOrdered(operator, actual, expected)
    [] operator \in {"notIn", "notContains"} ->
         ~(~Mismatch(operator, actual, expected) /\ Found(operator, actual, expected))
    [] operator = "isEmpty"    -> IsEmptyValue(actual)
    [] operator = "isNotEmpty" -> ~IsEmptyValue(actual)
    [] operator = "isTrue"     -> actual = Flag(TRUE)
    [] operator = "isFalse"    -> actual = Flag(FALSE)
    [] OTHER -> ~Mismatch(operator, actual, expected) /\ Found(operator, actual, expected)

(* applyOperator, matched.                                                 *)
ApplyOperator(operator, actual, expected) ==
  CASE operator = "eq"  -> actual = expected
    [] operator = "neq" -> actual # expected
    [] operator \in Ordered -> CompareOrdered(operator, actual, expected)
    [] operator = "isEmpty"    -> IsEmptyValue(actual)
    [] operator = "isNotEmpty" -> ~IsEmptyValue(actual)
    [] operator = "isTrue"     -> actual = Flag(TRUE)
    [] operator = "isFalse"    -> actual = Flag(FALSE)
    [] OTHER -> /\ ~Mismatch(operator, actual, expected)
                /\ Found(operator, actual, expected) = (operator \notin {"notIn", "notContains"})

----------------------------------------------------------------------------
(* The evaluator.  A scope holds the answers and the context references;   *)
(* a $ reference nobody documents is unknown, a missing answer is null.    *)

Reference == {"$submitter.department", "$submitter.roles", "$case.daysOpen",
              "$step.escalationLevel", "$now", "$unknown"}

ResolveFieldValue(f, scope) ==
  IF f \in Reference
    THEN IF f \in DOMAIN scope.context
           THEN [known |-> TRUE, value |-> scope.context[f]]
           ELSE [known |-> FALSE, value |-> Null]
    ELSE [known |-> TRUE, value |-> IF f \in DOMAIN scope.values THEN scope.values[f] ELSE Null]

LeafWarns(l, scope) ==
  LET resolved == ResolveFieldValue(l.field, scope) IN
  ~resolved.known \/ Mismatch(l.operator, resolved.value, l.value)

LeafMatches(l, scope) ==
  LET resolved == ResolveFieldValue(l.field, scope) IN
  resolved.known /\ ApplyOperator(l.operator, resolved.value, l.value)

(* Every branch is evaluated, and an unusable comparison is plain false,   *)
(* whatever is made of it above.                                           *)
EvaluateInto(part, done, scope) ==
  [matched |->
     CASE part.kind = "null" -> TRUE
       [] part.kind = "all"  -> \A j \in part.of : done[j].matched
       [] part.kind = "any"  -> \E j \in part.of : done[j].matched
       [] part.kind = "not"  -> \A j \in part.of : ~done[j].matched
       [] part.kind = "leaf" -> LeafMatches(part, scope),
   warnings |->
     CASE part.kind = "null" -> {}
       [] part.kind \in Connective -> UNION {done[j].warnings : j \in part.of}
       [] part.kind = "leaf" -> {l \in {part} : LeafWarns(l, scope)}]

EvaluateCondition(c, scope) ==
  LET done[i \in DOMAIN c] == EvaluateInto(c[i], done, scope) IN done[Len(c)]

Matched(c, scope) == EvaluateCondition(c, scope).matched

----------------------------------------------------------------------------
(* The reference: three truth values, after the table of PRD.md 5.3.  An   *)
(* ordered comparison with nothing is unusable too, only not worth a       *)
(* warning; so is an equality between types, of which the code does not    *)
(* warn.                                                                   *)

Unlike(l, scope) ==
  LET actual == ResolveFieldValue(l.field, scope).value IN
  /\ l.operator \in {"eq", "neq"} /\ Null \notin {actual, l.value}
  /\ actual.type # l.value.type

Unusable(l, scope) ==
  LET actual == ResolveFieldValue(l.field, scope).value IN
  \/ LeafWarns(l, scope) \/ Unlike(l, scope)
  \/ l.operator \in Ordered /\ Null \in {actual, l.value}

(* Values of two types are not equal, and neq says so.                     *)
Differs(c, scope) == \E l \in Leaves(c) : l.operator = "neq" /\ Unlike(l, scope)

TruthOf(part, done, scope) ==
  LET some(t) == \E j \in part.of : done[j] = t IN
  CASE part.kind = "null" -> "true"
    [] part.kind = "all"  -> IF some("false") THEN "false"
                             ELSE IF some("unusable") THEN "unusable" ELSE "true"
    [] part.kind = "any"  -> IF some("true") THEN "true"
                             ELSE IF some("unusable") THEN "unusable" ELSE "false"
    [] part.kind = "not"  -> IF some("true") THEN "false"
                             ELSE IF some("false") THEN "true" ELSE "unusable"
    [] part.kind = "leaf" -> IF Unusable(part, scope) THEN "unusable"
                             ELSE IF LeafMatches(part, scope) THEN "true" ELSE "false"

Truth(c, scope) ==
  LET done[i \in DOMAIN c] == TruthOf(c[i], done, scope) IN done[Len(c)]
=============================================================================
