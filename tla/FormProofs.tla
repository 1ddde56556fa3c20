------------------------------ MODULE FormProofs ------------------------------
(***************************************************************************)
(* Theorems about Conditions and FormRuntime: for conditions of any shape  *)
(* and any scope, for any forms in any number of versions, any answers,    *)
(* any number of pages open on the request, and any number of clicks and   *)
(* lost messages.                                                          *)
(***************************************************************************)
EXTENDS FormRuntime, WellFoundedInduction, TLAPS

LEMMA SmallestNumber ==
  ASSUME NEW S, S \subseteq Nat, S # {}
  PROVE  \E n \in S : \A m \in S : n <= m
<1>1. PICK n \in S : \A m \in S : <<m, n>> \notin OpToRel(<, Nat)
  BY WFMin, NatLessThanWellFounded
<1>2. ASSUME NEW m \in S PROVE n <= m
  <2>1. n \in Nat /\ m \in Nat /\ <<m, n>> \in Nat \X Nat
    BY <1>1
  <2>2. ~(m < n)
    BY <1>1, <2>1 DEF OpToRel
  <2> QED
    BY <2>1, <2>2
<1> QED
  BY <1>1, <1>2

----------------------------------------------------------------------------
(* The evaluation of a condition.                                          *)

(* The parts of a condition are numbered, and each consists of earlier     *)
(* ones.                                                                   *)
LEMMA PartsAreNumbered ==
  ASSUME NEW c, IsCondition(c)
  PROVE  /\ Len(c) \in Nat \ {0} /\ DOMAIN c = 1 .. Len(c)
         /\ \A i \in DOMAIN c :
              /\ c[i].kind \in {"null", "leaf", "all", "any", "not"}
              /\ c[i].kind \in Connective => c[i].of \subseteq 1 .. (i - 1)
              /\ c[i].kind = "not" => \E j \in 1 .. (i - 1) : c[i].of = {j}
              /\ i # Len(c) => \E k \in DOMAIN c : c[k].kind \in Connective /\ i \in c[k].of
<1>1. c \in Seq(Range(c)) /\ c # <<>>
  BY DEF IsCondition
<1>2. Len(c) \in Nat /\ DOMAIN c = 1 .. Len(c)
  BY <1>1
<1>3. Len(c) # 0
  BY <1>1, <1>2
<1> QED
  BY <1>2, <1>3 DEF IsCondition, Connective

(* The outcomes of a condition's first n parts, and the whole evaluation.  *)
Evaluates(e, n, c, scope) == e = [i \in 1 .. n |-> EvaluateInto(c[i], e, scope)]

Outcomes(c, scope) == CHOOSE e : Evaluates(e, Len(c), c, scope)

(* A part depends on the outcomes of what it consists of only.             *)
LEMMA OutcomeDependsOnParts ==
  ASSUME NEW part, NEW e, NEW f, NEW scope,
         part.kind \in Connective => \A j \in part.of : e[j] = f[j]
  PROVE  EvaluateInto(part, e, scope) = EvaluateInto(part, f, scope)
<1>1. CASE part.kind \in Connective
  <2>1. {e[j].warnings : j \in part.of} = {f[j].warnings : j \in part.of}
    BY <1>1
  <2>2. /\ (\A j \in part.of : e[j].matched) = (\A j \in part.of : f[j].matched)
        /\ (\E j \in part.of : e[j].matched) = (\E j \in part.of : f[j].matched)
        /\ (\A j \in part.of : ~e[j].matched) = (\A j \in part.of : ~f[j].matched)
    BY <1>1
  <2> QED
    BY <2>1, <2>2 DEF EvaluateInto
<1>2. CASE part.kind \notin Connective
  BY <1>2 DEF EvaluateInto, Connective
<1> QED
  BY <1>1, <1>2

LEMMA EvaluationExists ==
  ASSUME NEW c, NEW scope, IsCondition(c), NEW n \in 0 .. Len(c)
  PROVE  \E e : Evaluates(e, n, c, scope)
<1> DEFINE missing == {m \in 0 .. Len(c) : ~ \E e : Evaluates(e, m, c, scope)}
<1>1. SUFFICES ASSUME missing # {} PROVE FALSE
  OBVIOUS
<1>2. PICK m \in missing : \A j \in missing : m <= j
  <2>1. missing \subseteq Nat
    BY PartsAreNumbered
  <2> HIDE DEF missing
  <2> QED
    BY <1>1, <2>1, SmallestNumber
<1>3. m \in 0 .. Len(c) /\ Len(c) \in Nat /\ ~ \E e : Evaluates(e, m, c, scope)
  BY PartsAreNumbered
<1>4. CASE m = 0
  <2> DEFINE e == [i \in 1 .. 0 |-> Null]
  <2>1. Evaluates(e, 0, c, scope)
    BY DEF Evaluates
  <2> QED
    BY <1>3, <1>4, <2>1
<1>5. CASE m # 0
  <2>1. m - 1 \in 0 .. Len(c) /\ m - 1 \notin missing
    BY <1>2, <1>3, <1>5
  <2>2. PICK e : Evaluates(e, m - 1, c, scope)
    BY <2>1
  <2>3. \A i \in 1 .. (m - 1) : e[i] = EvaluateInto(c[i], e, scope)
    BY <2>2 DEF Evaluates
  <2> DEFINE f == [i \in 1 .. m |-> IF i = m THEN EvaluateInto(c[m], e, scope) ELSE e[i]]
  <2>4. ASSUME NEW i \in 1 .. m PROVE f[i] = EvaluateInto(c[i], f, scope)
    <3>1. i \in DOMAIN c /\ 1 .. (i - 1) \subseteq 1 .. (m - 1)
      BY <1>3, PartsAreNumbered
    <3>2. c[i].kind \in Connective => \A j \in c[i].of : e[j] = f[j]
      BY <3>1, PartsAreNumbered
    <3>3. EvaluateInto(c[i], e, scope) = EvaluateInto(c[i], f, scope)
      BY <3>2, OutcomeDependsOnParts
    <3>4. f[i] = EvaluateInto(c[i], e, scope)
      BY <1>3, <1>5, <2>3
    <3> HIDE DEF f
    <3> QED
      BY <3>3, <3>4
  <2>5. f = [i \in 1 .. m |-> f[i]]
    OBVIOUS
  <2> HIDE DEF f
  <2>6. Evaluates(f, m, c, scope)
    BY <2>4, <2>5 DEF Evaluates
  <2> QED
    BY <1>3, <2>6
<1> QED
  BY <1>4, <1>5

LEMMA EvaluationOfParts ==
  ASSUME NEW c, NEW scope, IsCondition(c)
  PROVE  /\ EvaluateCondition(c, scope) = Outcomes(c, scope)[Len(c)]
         /\ \A i \in DOMAIN c :
              Outcomes(c, scope)[i] = EvaluateInto(c[i], Outcomes(c, scope), scope)
<1> DEFINE e == Outcomes(c, scope)
<1>1. DOMAIN c = 1 .. Len(c) /\ Len(c) \in 0 .. Len(c)
  BY PartsAreNumbered
<1>2. EvaluateCondition(c, scope) = e[Len(c)]
  BY <1>1 DEF EvaluateCondition, Outcomes, Evaluates
<1>3. Evaluates(e, Len(c), c, scope)
  BY <1>1, EvaluationExists DEF Outcomes
<1> HIDE DEF e
<1>4. \A i \in DOMAIN c : e[i] = EvaluateInto(c[i], e, scope)
  BY <1>1, <1>3 DEF Evaluates
<1> QED
  BY <1>2, <1>4 DEF e

(* The same of the three-valued reading.                                   *)
Reads(t, n, c, scope) == t = [i \in 1 .. n |-> TruthOf(c[i], t, scope)]

Readings(c, scope) == CHOOSE t : Reads(t, Len(c), c, scope)

LEMMA TruthDependsOnParts ==
  ASSUME NEW part, NEW t, NEW u, NEW scope,
         part.kind \in Connective => \A j \in part.of : t[j] = u[j]
  PROVE  TruthOf(part, t, scope) = TruthOf(part, u, scope)
<1>1. CASE part.kind \in Connective
  <2>1. \A x : (\E j \in part.of : t[j] = x) = (\E j \in part.of : u[j] = x)
    BY <1>1
  <2> QED
    BY <2>1 DEF TruthOf
<1>2. CASE part.kind \notin Connective
  BY <1>2 DEF TruthOf, Connective
<1> QED
  BY <1>1, <1>2

LEMMA ReadingExists ==
  ASSUME NEW c, NEW scope, IsCondition(c), NEW n \in 0 .. Len(c)
  PROVE  \E t : Reads(t, n, c, scope)
<1> DEFINE missing == {m \in 0 .. Len(c) : ~ \E t : Reads(t, m, c, scope)}
<1>1. SUFFICES ASSUME missing # {} PROVE FALSE
  OBVIOUS
<1>2. PICK m \in missing : \A j \in missing : m <= j
  <2>1. missing \subseteq Nat
    BY PartsAreNumbered
  <2> HIDE DEF missing
  <2> QED
    BY <1>1, <2>1, SmallestNumber
<1>3. m \in 0 .. Len(c) /\ Len(c) \in Nat /\ ~ \E t : Reads(t, m, c, scope)
  BY PartsAreNumbered
<1>4. CASE m = 0
  <2> DEFINE t == [i \in 1 .. 0 |-> Null]
  <2>1. Reads(t, 0, c, scope)
    BY DEF Reads
  <2> QED
    BY <1>3, <1>4, <2>1
<1>5. CASE m # 0
  <2>1. m - 1 \in 0 .. Len(c) /\ m - 1 \notin missing
    BY <1>2, <1>3, <1>5
  <2>2. PICK t : Reads(t, m - 1, c, scope)
    BY <2>1
  <2>3. \A i \in 1 .. (m - 1) : t[i] = TruthOf(c[i], t, scope)
    BY <2>2 DEF Reads
  <2> DEFINE u == [i \in 1 .. m |-> IF i = m THEN TruthOf(c[m], t, scope) ELSE t[i]]
  <2>4. ASSUME NEW i \in 1 .. m PROVE u[i] = TruthOf(c[i], u, scope)
    <3>1. i \in DOMAIN c /\ 1 .. (i - 1) \subseteq 1 .. (m - 1)
      BY <1>3, PartsAreNumbered
    <3>2. c[i].kind \in Connective => \A j \in c[i].of : t[j] = u[j]
      BY <3>1, PartsAreNumbered
    <3>3. TruthOf(c[i], t, scope) = TruthOf(c[i], u, scope)
      BY <3>2, TruthDependsOnParts
    <3>4. u[i] = TruthOf(c[i], t, scope)
      BY <1>3, <1>5, <2>3
    <3> HIDE DEF u
    <3> QED
      BY <3>3, <3>4
  <2>5. u = [i \in 1 .. m |-> u[i]]
    OBVIOUS
  <2> HIDE DEF u
  <2>6. Reads(u, m, c, scope)
    BY <2>4, <2>5 DEF Reads
  <2> QED
    BY <1>3, <2>6
<1> QED
  BY <1>4, <1>5

LEMMA ReadingOfParts ==
  ASSUME NEW c, NEW scope, IsCondition(c)
  PROVE  /\ Truth(c, scope) = Readings(c, scope)[Len(c)]
         /\ \A i \in DOMAIN c :
              Readings(c, scope)[i] = TruthOf(c[i], Readings(c, scope), scope)
<1> DEFINE t == Readings(c, scope)
<1>1. DOMAIN c = 1 .. Len(c) /\ Len(c) \in 0 .. Len(c)
  BY PartsAreNumbered
<1>2. Truth(c, scope) = t[Len(c)]
  BY <1>1 DEF Truth, Readings, Reads
<1>3. Reads(t, Len(c), c, scope)
  BY <1>1, ReadingExists DEF Readings
<1> HIDE DEF t
<1>4. \A i \in DOMAIN c : t[i] = TruthOf(c[i], t, scope)
  BY <1>1, <1>3 DEF Reads
<1> QED
  BY <1>2, <1>4 DEF t

----------------------------------------------------------------------------
(* A comparison that cannot be made.                                       *)

LEMMA UnusableIsFalse ==
  ASSUME NEW l, NEW scope, Unusable(l, scope), ~(l.operator = "neq" /\ Unlike(l, scope))
  PROVE  ~LeafMatches(l, scope)
<1> DEFINE resolved == ResolveFieldValue(l.field, scope)
           v == resolved.value
<1>1. SUFFICES ASSUME resolved.known
               PROVE  ~ApplyOperator(l.operator, v, l.value)
  BY DEF LeafMatches
<1>2. \/ Mismatch(l.operator, v, l.value)
      \/ l.operator \in Ordered /\ Null \in {v, l.value}
      \/ l.operator = "eq" /\ v.type # l.value.type
  BY <1>1 DEF Unusable, LeafWarns, Unlike
<1> HIDE DEF resolved, v
<1>3. CASE l.operator \in Ordered
  <2>1. ~Comparable(v, l.value)
    BY <1>2, <1>3 DEF Mismatch, Comparable, Null, Ordered
  <2>2. ApplyOperator(l.operator, v, l.value) = CompareOrdered(l.operator, v, l.value)
    BY <1>3 DEF ApplyOperator, Ordered
  <2> QED
    BY <2>1, <2>2 DEF CompareOrdered
<1>4. CASE l.operator = "eq"
  <2>1. v # l.value
    BY <1>2, <1>4 DEF Mismatch, Ordered
  <2> QED
    BY <1>4, <2>1 DEF ApplyOperator, Ordered
<1>5. CASE l.operator \notin Ordered \cup {"eq"}
  <2>1. Mismatch(l.operator, v, l.value)
    BY <1>2, <1>5
  <2>2. l.operator \in {"in", "notIn", "contains", "notContains", "startsWith", "endsWith"}
    BY <1>5, <2>1 DEF Mismatch
  <2> QED
    BY <2>1, <2>2 DEF ApplyOperator, Ordered
<1> QED
  BY <1>3, <1>4, <1>5

(* What can be said of a part's outcome when the three-valued reading of   *)
(* it is t.                                                                *)
FollowsReading(c, outcome, t) ==
  /\ outcome.matched \in BOOLEAN
  /\ t \in {"true", "false", "unusable"}
  /\ t = "true" => outcome.matched
  /\ t = "false" => ~outcome.matched
  /\ ~Negated(c) /\ t = "unusable" => ~outcome.matched

LEMMA PartFollowsReading ==
  ASSUME NEW c, NEW scope, IsCondition(c), ~Differs(c, scope), NEW e, NEW t, NEW i \in DOMAIN c,
         c[i].kind \in Connective =>
           \A j \in c[i].of : FollowsReading(c, e[j], t[j])
  PROVE  FollowsReading(c, EvaluateInto(c[i], e, scope), TruthOf(c[i], t, scope))
<1> DEFINE outcome == EvaluateInto(c[i], e, scope)
           truth   == TruthOf(c[i], t, scope)
<1>1. c[i].kind \in {"null", "leaf", "all", "any", "not"}
  BY PartsAreNumbered
<1>2. CASE c[i].kind = "null"
  <2>1. outcome.matched = TRUE /\ truth = "true"
    BY <1>2 DEF EvaluateInto, TruthOf
  <2> QED
    BY <2>1 DEF FollowsReading
<1>3. CASE c[i].kind = "leaf"
  <2>1. outcome.matched = LeafMatches(c[i], scope)
    BY <1>3 DEF EvaluateInto
  <2>2. truth = IF Unusable(c[i], scope) THEN "unusable"
                ELSE IF LeafMatches(c[i], scope) THEN "true" ELSE "false"
    BY <1>3 DEF TruthOf
  <2>3. LeafMatches(c[i], scope) \in BOOLEAN
    BY DEF LeafMatches
  <2>a. Unusable(c[i], scope) => ~LeafMatches(c[i], scope)
    BY <1>3, UnusableIsFalse DEF Differs, Leaves
  <2> HIDE DEF outcome, truth
  <2>4. FollowsReading(c, outcome, truth)
    BY <2>1, <2>2, <2>3, <2>a DEF FollowsReading
  <2> QED
    BY <2>4 DEF outcome, truth
<1>4. CASE c[i].kind = "all"
  <2>1. outcome.matched = \A j \in c[i].of : e[j].matched
    BY <1>4 DEF EvaluateInto
  <2>2. truth = IF \E j \in c[i].of : t[j] = "false" THEN "false"
                ELSE IF \E j \in c[i].of : t[j] = "unusable" THEN "unusable" ELSE "true"
    BY <1>4 DEF TruthOf
  <2>3. \A j \in c[i].of : FollowsReading(c, e[j], t[j])
    BY <1>4 DEF Connective
  <2> HIDE DEF outcome, truth
  <2>4. FollowsReading(c, outcome, truth)
    BY <2>1, <2>2, <2>3 DEF FollowsReading
  <2> QED
    BY <2>4 DEF outcome, truth
<1>5. CASE c[i].kind = "any"
  <2>1. outcome.matched = \E j \in c[i].of : e[j].matched
    BY <1>5 DEF EvaluateInto
  <2>2. truth = IF \E j \in c[i].of : t[j] = "true" THEN "true"
                ELSE IF \E j \in c[i].of : t[j] = "unusable" THEN "unusable" ELSE "false"
    BY <1>5 DEF TruthOf
  <2>3. \A j \in c[i].of : FollowsReading(c, e[j], t[j])
    BY <1>5 DEF Connective
  <2> HIDE DEF outcome, truth
  <2>4. FollowsReading(c, outcome, truth)
    BY <2>1, <2>2, <2>3 DEF FollowsReading
  <2> QED
    BY <2>4 DEF outcome, truth
<1>6. CASE c[i].kind = "not"
  <2>1. outcome.matched = \A j \in c[i].of : ~e[j].matched
    BY <1>6 DEF EvaluateInto
  <2>2. truth = IF \E j \in c[i].of : t[j] = "true" THEN "false"
                ELSE IF \E j \in c[i].of : t[j] = "false" THEN "true" ELSE "unusable"
    BY <1>6 DEF TruthOf
  <2>3. \A j \in c[i].of : FollowsReading(c, e[j], t[j])
    BY <1>6 DEF Connective
  <2>4. PICK j \in 1 .. (i - 1) : c[i].of = {j}
    BY <1>6, PartsAreNumbered
  <2>5. Negated(c)
    BY <1>6 DEF Negated
  <2> HIDE DEF outcome, truth
  <2>6. FollowsReading(c, outcome, truth)
    BY <2>1, <2>2, <2>3, <2>4, <2>5 DEF FollowsReading
  <2> QED
    BY <2>6 DEF outcome, truth
<1> QED
  BY <1>1, <1>2, <1>3, <1>4, <1>5, <1>6

LEMMA WholeFollowsReading ==
  ASSUME NEW c, NEW scope, IsCondition(c), ~Differs(c, scope)
  PROVE  FollowsReading(c, EvaluateCondition(c, scope), Truth(c, scope))
<1> DEFINE e == Outcomes(c, scope)
           t == Readings(c, scope)
           wrong == {i \in DOMAIN c : ~FollowsReading(c, e[i], t[i])}
<1>1. /\ EvaluateCondition(c, scope) = e[Len(c)] /\ Truth(c, scope) = t[Len(c)]
      /\ \A i \in DOMAIN c :
           e[i] = EvaluateInto(c[i], e, scope) /\ t[i] = TruthOf(c[i], t, scope)
  BY EvaluationOfParts, ReadingOfParts
<1>2. Len(c) \in DOMAIN c /\ Len(c) \in Nat /\ DOMAIN c = 1 .. Len(c)
  BY PartsAreNumbered
<1> HIDE DEF e, t
<1>3. wrong = {}
  <2>1. SUFFICES ASSUME wrong # {} PROVE FALSE
    OBVIOUS
  <2>2. PICK i \in wrong : \A j \in wrong : i <= j
    <3>1. wrong \subseteq Nat
      BY <1>2
    <3> HIDE DEF wrong
    <3> QED
      BY <2>1, <3>1, SmallestNumber
  <2>3. i \in DOMAIN c /\ i \in Nat
    BY <1>2
  <2>4. \A j \in 1 .. (i - 1) : FollowsReading(c, e[j], t[j])
    BY <1>2, <2>2, <2>3
  <2>5. c[i].kind \in Connective => \A j \in c[i].of : FollowsReading(c, e[j], t[j])
    BY <2>3, <2>4, PartsAreNumbered
  <2>6. FollowsReading(c, e[i], t[i])
    BY <1>1, <2>3, <2>5, PartFollowsReading
  <2> QED
    BY <2>2, <2>6
<1> QED
  BY <1>1, <1>2, <1>3

LEMMA MatchedAsRead ==
  ASSUME NEW c, NEW scope, IsCondition(c), ~Differs(c, scope),
         ~Negated(c) \/ Truth(c, scope) # "unusable"
  PROVE  Matched(c, scope) = (Truth(c, scope) = "true")
BY WholeFollowsReading DEF FollowsReading, Matched

LEMMA WarningsOfAPart ==
  ASSUME NEW part, NEW e, NEW scope
  PROVE  LET w == EvaluateInto(part, e, scope).warnings IN
         /\ part.kind = "null" => w = {}
         /\ part.kind \in Connective => w = UNION {e[j].warnings : j \in part.of}
         /\ part.kind = "leaf" => w = {l \in {part} : LeafWarns(l, scope)}
<1>1. part.kind = "null" => EvaluateInto(part, e, scope).warnings = {}
  BY DEF EvaluateInto, Connective
<1>2. part.kind \in Connective =>
        EvaluateInto(part, e, scope).warnings = UNION {e[j].warnings : j \in part.of}
  BY DEF EvaluateInto, Connective
<1>3. part.kind = "leaf" =>
        EvaluateInto(part, e, scope).warnings = {l \in {part} : LeafWarns(l, scope)}
  BY DEF EvaluateInto, Connective
<1> QED
  BY <1>1, <1>2, <1>3

(* The warnings of a condition are those of its comparisons: each part     *)
(* hands on what its own parts warn of, and each but the whole is one of   *)
(* another's.                                                              *)
LEMMA WarningsAreComplete ==
  ASSUME NEW c, NEW scope, IsCondition(c)
  PROVE  EvaluateCondition(c, scope).warnings = {l \in Leaves(c) : LeafWarns(l, scope)}
<1> DEFINE e == Outcomes(c, scope)
           n == Len(c)
           warning == {l \in Leaves(c) : LeafWarns(l, scope)}
           strange == {i \in DOMAIN c : ~(e[i].warnings \subseteq warning)}
           lost == {d \in Nat : \E i \in DOMAIN c : d = n - i /\ ~(e[i].warnings \subseteq e[n].warnings)}
<1>1. /\ EvaluateCondition(c, scope) = e[n]
      /\ \A i \in DOMAIN c : e[i] = EvaluateInto(c[i], e, scope)
  BY EvaluationOfParts
<1>2. n \in DOMAIN c /\ n \in Nat /\ DOMAIN c = 1 .. n
  BY PartsAreNumbered
<1>3. ASSUME NEW i \in DOMAIN c
      PROVE  /\ c[i].kind = "null" => e[i].warnings = {}
             /\ c[i].kind \in Connective => e[i].warnings = UNION {e[j].warnings : j \in c[i].of}
             /\ c[i].kind = "leaf" => e[i].warnings = {l \in {c[i]} : LeafWarns(l, scope)}
             /\ c[i].kind \in {"null", "leaf"} \/ c[i].kind \in Connective
  <2>1. e[i] = EvaluateInto(c[i], e, scope)
    BY <1>1
  <2> HIDE DEF e
  <2>2. c[i].kind \in {"null", "leaf"} \/ c[i].kind \in Connective
    BY PartsAreNumbered DEF Connective
  <2> QED
    BY <2>1, <2>2, WarningsOfAPart
<1> HIDE DEF e, n
<1>4. strange = {}
  <2>1. SUFFICES ASSUME strange # {} PROVE FALSE
    OBVIOUS
  <2>2. PICK i \in strange : \A j \in strange : i <= j
    <3>1. strange \subseteq Nat
      BY <1>2
    <3> HIDE DEF strange
    <3> QED
      BY <2>1, <3>1, SmallestNumber
  <2>3. i \in DOMAIN c /\ i \in Nat /\ ~(e[i].warnings \subseteq warning)
    BY <1>2
  <2>4. \A j \in 1 .. (i - 1) : e[j].warnings \subseteq warning
    BY <1>2, <2>2, <2>3
  <2>5. c[i].kind # "null"
    BY <1>3, <2>3
  <2>6. c[i].kind \notin Connective
    <3>1. SUFFICES ASSUME c[i].kind \in Connective PROVE FALSE
      OBVIOUS
    <3>2. c[i].of \subseteq 1 .. (i - 1)
      BY <2>3, <3>1, PartsAreNumbered
    <3>3. \A j \in c[i].of : e[j].warnings \subseteq warning
      BY <2>4, <3>2
    <3>4. e[i].warnings = UNION {e[j].warnings : j \in c[i].of}
      BY <1>3, <2>3, <3>1
    <3> HIDE DEF warning
    <3>5. e[i].warnings \subseteq warning
      BY <3>3, <3>4
    <3> QED
      BY <2>3, <3>5
  <2>7. c[i].kind = "leaf" => e[i].warnings \subseteq warning
    BY <1>3, <2>3 DEF Leaves
  <2> QED
    BY <1>3, <2>3, <2>5, <2>6, <2>7
<1>5. lost = {}
  <2>1. SUFFICES ASSUME lost # {} PROVE FALSE
    OBVIOUS
  <2>2. PICK d \in lost : \A x \in lost : d <= x
    <3>1. lost \subseteq Nat
      OBVIOUS
    <3> HIDE DEF lost
    <3> QED
      BY <2>1, <3>1, SmallestNumber
  <2>3. PICK i \in DOMAIN c : d = n - i /\ ~(e[i].warnings \subseteq e[n].warnings)
    BY <2>2
  <2>4. i # n
    BY <2>3
  <2>5. PICK k \in DOMAIN c : c[k].kind \in Connective /\ i \in c[k].of
    BY <2>4, PartsAreNumbered DEF n
  <2>6. c[k].of \subseteq 1 .. (k - 1)
    BY <2>5, PartsAreNumbered
  <2>7. i < k /\ i \in Nat /\ k \in Nat /\ k <= n
    BY <1>2, <2>5, <2>6
  <2>8. n - k \in Nat /\ ~(d <= n - k)
    BY <1>2, <2>3, <2>7
  <2>9. e[k].warnings \subseteq e[n].warnings
    BY <2>2, <2>8
  <2>10. e[i].warnings \subseteq e[k].warnings
    BY <1>3, <2>5
  <2> QED
    BY <2>3, <2>9, <2>10
<1>6. \A i \in DOMAIN c : e[i].warnings \subseteq e[n].warnings
  <2>1. ASSUME NEW i \in DOMAIN c PROVE n - i \in Nat
    BY <1>2
  <2> QED
    BY <1>5, <2>1
<1>7. ASSUME NEW l \in warning PROVE l \in e[n].warnings
  <2>1. PICK i \in DOMAIN c : c[i].kind = "leaf" /\ l = c[i]
    BY DEF Leaves
  <2>2. l \in e[i].warnings
    BY <1>3, <2>1
  <2> QED
    BY <1>6, <2>2
<1>8. e[n].warnings \subseteq warning
  BY <1>2, <1>4
<1>9. e[n].warnings = warning
  <2> HIDE DEF warning
  <2> QED
    BY <1>7, <1>8
<1> QED
  BY <1>1, <1>9

(* Whatever the answers, the roles and the department are, a rule that is  *)
(* evaluated for a submitted case matches exactly when it is true, unless  *)
(* a negation meets a comparison that cannot be made, or neq values of two *)
(* types; and its warnings are those of all its comparisons.               *)
THEOREM UnusableComparisons ==
  ASSUME FormAssumption
  PROVE  FormSpec => []UnusableNeverMatches
<1>1. UnusableNeverMatches
  BY FormAssumption, MatchedAsRead, WarningsAreComplete DEF FormAssumption, UnusableNeverMatches
<1> QED
  BY <1>1, PTL

----------------------------------------------------------------------------
(* The types of the pages and their requests.                              *)

Lane == {"save", "submit"}

IsAnswers(a) ==
  DOMAIN a \subseteq FormField \ FileField /\ \A f \in DOMAIN a : a[f] \in Answer[f]

Entered == UNION {Answer[f] : f \in FormField}

Answers == {a \in UNION {[D -> Entered] : D \in SUBSET (FormField \ FileField)} : IsAnswers(a)}

PageRow ==
  [at : {"closed", "form"}, mode : {"draft", "resubmit"}, version : Version, values : Answers,
   files : SUBSET FileField, status : {"editing", "submitting"}]

RequestRow ==
  [pc : {"none", "sent", "read", "wrote", "ok", "failed"}, kind : {"patch", "submit", "resubmit"},
   payload : Answers, base : Answers, stale : BOOLEAN, form : Version, version : Version]

CaseRow == [status : {"none", "draft", "active", "returned"}, version : Version]

Doubts == {"none", "kept", "overlap", "republished", "file", "hidden"}

Typed ==
  /\ published \in Version /\ case \in CaseRow
  /\ values \in Answers /\ files \in SUBSET FileField
  /\ formPage \in [FormPage -> PageRow] /\ request \in [FormPage -> [Lane -> RequestRow]]
  /\ formFaults \in 0 .. MaxFormFaults /\ formClicks \in 0 .. MaxFormClicks /\ doubt \in Doubts

(* What is said of every request of a page.                                *)
OfItsLane(lane, r) ==
  /\ r.pc = "none" => r = NoRequest
  /\ lane = "save" => r.kind = "patch"

PageIInv ==
  /\ Typed
  /\ \A p \in FormPage, lane \in Lane : OfItsLane(lane, request[p][lane])

LEMMA AnswersAreTyped ==
  /\ \A a \in Answers : IsAnswers(a)
  /\ \A D \in SUBSET (FormField \ FileField) : \A a \in [D -> Entered] :
       (\A f \in D : a[f] \in Answer[f]) => a \in Answers
<1>1. \A a \in Answers : IsAnswers(a)
  BY DEF Answers
<1>2. ASSUME NEW D \in SUBSET (FormField \ FileField), NEW a \in [D -> Entered],
             \A f \in D : a[f] \in Answer[f]
      PROVE  a \in Answers
  <2>1. IsAnswers(a)
    BY <1>2 DEF IsAnswers
  <2>2. a \in UNION {[E -> Entered] : E \in SUBSET (FormField \ FileField)}
    OBVIOUS
  <2> QED
    BY <2>1, <2>2 DEF Answers
<1> QED
  BY <1>1, <1>2

LEMMA AnswersFrom ==
  ASSUME NEW a, a = [f \in DOMAIN a |-> a[f]], IsAnswers(a)
  PROVE  a \in Answers
<1>1. DOMAIN a \in SUBSET (FormField \ FileField) /\ \A f \in DOMAIN a : a[f] \in Answer[f]
  BY DEF IsAnswers
<1>2. \A f \in DOMAIN a : a[f] \in Entered
  BY <1>1 DEF Entered
<1> DEFINE D == DOMAIN a
<1>3. a \in [D -> Entered]
  BY <1>2
<1>4. D \in SUBSET (FormField \ FileField) /\ \A f \in D : a[f] \in Answer[f]
  BY <1>1
<1> HIDE DEF D
<1> QED
  BY <1>3, <1>4, AnswersAreTyped

LEMMA NoAnswersTyped == NoAnswers \in Answers
<1>1. NoAnswers = [f \in DOMAIN NoAnswers |-> NoAnswers[f]] /\ DOMAIN NoAnswers = {}
  BY DEF NoAnswers
<1> QED
  BY <1>1, AnswersFrom DEF IsAnswers

LEMMA ConstantRows ==
  ASSUME FormAssumption
  PROVE  ClosedForm \in PageRow /\ NoRequest \in RequestRow
BY NoAnswersTyped DEF FormAssumption, ClosedForm, NoRequest, PageRow, RequestRow

LEMMA PayloadIsTyped ==
  ASSUME Typed, NEW p \in FormPage
  PROVE  VisiblePayload(p) \in Answers
<1> DEFINE a == formPage[p].values
           D == DOMAIN a \cap VisibleFields(formPage[p].version, a)
           s == VisiblePayload(p)
<1>1. IsAnswers(a)
  BY AnswersAreTyped DEF Typed, PageRow
<1>2. s = [f \in D |-> a[f]]
  BY DEF VisiblePayload, Restrict
<1>3. D \subseteq DOMAIN a
  OBVIOUS
<1> HIDE DEF a, D, s
<1>4. s = [f \in DOMAIN s |-> s[f]] /\ IsAnswers(s)
  BY <1>1, <1>2, <1>3 DEF IsAnswers
<1>5. s \in Answers
  BY <1>4, AnswersFrom
<1> QED
  BY <1>5 DEF s

LEMMA OnePage ==
  ASSUME Typed, NEW p \in FormPage, NEW g \in PageRow, formPage' = [formPage EXCEPT ![p] = g]
  PROVE  /\ formPage' \in [FormPage -> PageRow]
         /\ formPage'[p] = g
         /\ \A q \in FormPage \ {p} : formPage'[q] = formPage[q]
BY DEF Typed

LEMMA OneRequest ==
  ASSUME Typed, NEW p \in FormPage, NEW lane \in Lane, NEW r \in RequestRow,
         request' = [request EXCEPT ![p][lane] = r]
  PROVE  /\ request' \in [FormPage -> [Lane -> RequestRow]]
         /\ request'[p][lane] = r
         /\ \A q \in FormPage, l \in Lane : q # p \/ l # lane => request'[q][l] = request[q][l]
BY DEF Typed

(* A request whose row was overtaken is the same, only stale.              *)
Overtaken(r, s) ==
  /\ s.pc = r.pc /\ s.kind = r.kind /\ s.payload = r.payload /\ s.base = r.base
  /\ s.form = r.form /\ s.version = r.version
  /\ r.pc \notin {"read", "wrote"} => s = r

LEMMA StaledRequests ==
  ASSUME NEW requests \in [FormPage -> [Lane -> RequestRow]]
  PROVE  /\ Staled(requests) \in [FormPage -> [Lane -> RequestRow]]
         /\ \A q \in FormPage, l \in Lane : Overtaken(requests[q][l], Staled(requests)[q][l])
<1>1. ASSUME NEW q \in FormPage, NEW l \in Lane
      PROVE  Staled(requests)[q][l] \in RequestRow /\ Overtaken(requests[q][l], Staled(requests)[q][l])
  <2>1. Staled(requests)[q][l] = IF requests[q][l].pc \in {"read", "wrote"}
                                   THEN [requests[q][l] EXCEPT !.stale = TRUE] ELSE requests[q][l]
    BY DEF Staled, Lane
  <2>2. requests[q][l] \in RequestRow
    OBVIOUS
  <2> QED
    BY <2>1, <2>2 DEF RequestRow, Overtaken
<1>2. Staled(requests) = [q \in FormPage |-> [l \in Lane |-> Staled(requests)[q][l]]]
  BY DEF Staled, Lane
<1> QED
  BY <1>1, <1>2

(* What a page that shows its form may change to.                          *)
LEMMA PageMoves ==
  ASSUME PageIInv, NEW p \in FormPage, NEW g \in PageRow,
         formPage' = [formPage EXCEPT ![p] = g],
         published' \in Version, case' \in CaseRow, values' \in Answers, files' \in SUBSET FileField,
         request' \in [FormPage -> [Lane -> RequestRow]],
         \A q \in FormPage, l \in Lane : OfItsLane(l, request'[q][l]),
         formFaults' \in 0 .. MaxFormFaults, formClicks' \in 0 .. MaxFormClicks, doubt' \in Doubts
  PROVE  PageIInv'
<1>1. formPage' \in [FormPage -> PageRow] /\ formPage'[p] = g /\ \A q \in FormPage \ {p} : formPage'[q] = formPage[q]
  BY OnePage DEF PageIInv
<1>3. \A q \in FormPage, l \in Lane : OfItsLane(l, request[q][l])'
  BY DEF OfItsLane
<1>4. Typed'
  BY <1>1 DEF Typed
<1> QED
  BY <1>3, <1>4 DEF PageIInv

(* The same of a request, which leaves the pages alone.                    *)
LEMMA RequestMoves ==
  ASSUME PageIInv, UNCHANGED formPage,
         published' \in Version, case' \in CaseRow, values' \in Answers, files' \in SUBSET FileField,
         request' \in [FormPage -> [Lane -> RequestRow]],
         \A q \in FormPage, l \in Lane : OfItsLane(l, request'[q][l]),
         formFaults' \in 0 .. MaxFormFaults, formClicks' \in 0 .. MaxFormClicks, doubt' \in Doubts
  PROVE  PageIInv'
<1>2. \A q \in FormPage, l \in Lane : OfItsLane(l, request[q][l])'
  BY DEF OfItsLane
<1>3. Typed'
  BY DEF PageIInv, Typed
<1> QED
  BY <1>2, <1>3 DEF PageIInv

LEMMA OneRequestMoves ==
  ASSUME PageIInv, NEW p \in FormPage, NEW lane \in Lane, NEW r \in RequestRow, OfItsLane(lane, r),
         request' = [request EXCEPT ![p][lane] = r]
  PROVE  /\ request' \in [FormPage -> [Lane -> RequestRow]]
         /\ \A q \in FormPage, l \in Lane : OfItsLane(l, request'[q][l])
<1>1. /\ request' \in [FormPage -> [Lane -> RequestRow]]
      /\ request'[p][lane] = r
      /\ \A q \in FormPage, l \in Lane : q # p \/ l # lane => request'[q][l] = request[q][l]
  BY OneRequest DEF PageIInv
<1> QED
  BY <1>1 DEF PageIInv

LEMMA DoubtsAreTyped ==
  ASSUME doubt \in Doubts, NEW why \in Doubts
  PROVE  Doubting(why) \in Doubts
BY DEF Doubting

LEMMA OpenIsTyped ==
  ASSUME FormAssumption, PageIInv, NEW p \in FormPage, Open(p)
  PROVE  PageIInv'
<1> DEFINE new == case.status = "none"
           v == IF new THEN published ELSE case.version
           g == [at |-> "form", version |-> v, values |-> values,
                 mode |-> IF case.status = "returned" THEN "resubmit" ELSE "draft",
                 files |-> files, status |-> "editing"]
<1>1. Typed
  BY DEF PageIInv
<1>2. v \in Version
  BY <1>1 DEF Typed, CaseRow
<1>3. formPage' = [formPage EXCEPT ![p] = g] /\ UNCHANGED <<published, values, files, request, formFaults, formClicks, doubt>>
  BY DEF Open
<1>4. case' \in CaseRow
  BY <1>1, <1>2 DEF Open, Typed, CaseRow
<1>6. g \in PageRow
  BY <1>1, <1>2 DEF Typed, PageRow
<1> HIDE DEF g
<1> QED
  BY <1>1, <1>3, <1>4, <1>6, PageMoves DEF Typed, PageIInv

LEMMA SetValueIsTyped ==
  ASSUME FormAssumption, PageIInv, NEW p \in FormPage, NEW f \in Shown(p) \ FileField,
         NEW answer \in Answer[f], SetValue(p, f, answer)
  PROVE  PageIInv'
<1> DEFINE now == [g \in DOMAIN formPage[p].values \cup {f} |->
                     IF g = f THEN answer ELSE formPage[p].values[g]]
           g == [formPage[p] EXCEPT !.values = now]
<1>1. Typed /\ formPage[p] \in PageRow
  BY DEF PageIInv, Typed
<1>2. f \in FormField \ FileField
  BY DEF Shown, VisibleFields
<1>3. now \in Answers
  <2>1. formPage[p].values \in Answers
    BY <1>1 DEF PageRow
  <2>2. IsAnswers(formPage[p].values)
    BY <2>1, AnswersAreTyped
  <2>3. DOMAIN now = DOMAIN formPage[p].values \cup {f} /\ now = [x \in DOMAIN now |-> now[x]]
    OBVIOUS
  <2>4. \A x \in DOMAIN now : now[x] = IF x = f THEN answer ELSE formPage[p].values[x]
    OBVIOUS
  <2> HIDE DEF now
  <2>5. IsAnswers(now)
    BY <1>2, <2>2, <2>3, <2>4 DEF IsAnswers
  <2> QED
    BY <2>3, <2>5, AnswersFrom
<1>4. /\ formPage' = [formPage EXCEPT ![p].values = now]
      /\ UNCHANGED <<published, case, values, files, request, formFaults, formClicks, doubt>>
  BY DEF SetValue
<1> HIDE DEF now
<1>5. formPage[p].version \in Version
  BY <1>1 DEF PageRow
<1>7. formPage' = [formPage EXCEPT ![p] = g]
  BY <1>1, <1>4 DEF Typed, PageRow
<1>8. g \in PageRow
  BY <1>1, <1>3 DEF PageRow
<1> HIDE DEF g
<1> QED
  BY <1>1, <1>4, <1>7, <1>8, PageMoves DEF Typed, PageIInv

LEMMA AttachmentsAreTyped ==
  ASSUME FormAssumption, PageIInv, NEW p \in FormPage, NEW f \in Shown(p) \cap FileField,
         AddAttachment(p, f) \/ RemoveAttachment(p, f)
  PROVE  PageIInv'
<1> DEFINE after == IF AddAttachment(p, f) THEN formPage[p].files \cup {f} ELSE formPage[p].files \ {f}
           g == [formPage[p] EXCEPT !.files = after]
<1>1. Typed /\ formPage[p] \in PageRow
  BY DEF PageIInv, Typed
<1>2. formPage' = [formPage EXCEPT ![p] = g] /\ files' \in SUBSET FileField
  BY <1>1 DEF AddAttachment, RemoveAttachment, Typed
<1>3. g \in PageRow
  <2>1. after \in SUBSET FileField
    BY <1>1 DEF PageRow
  <2> HIDE DEF after
  <2>2. /\ g \in PageRow /\ g.at = formPage[p].at /\ g.version = formPage[p].version
        /\ g.values = formPage[p].values
    BY <1>1, <2>1 DEF PageRow
  <2> QED
    BY <2>2 DEF PageIInv
<1>4. UNCHANGED <<published, case, values, request, formFaults, formClicks>>
  BY DEF AddAttachment, RemoveAttachment
<1>5. doubt' \in Doubts
  BY <1>1, DoubtsAreTyped DEF AddAttachment, RemoveAttachment, Typed, Doubts
<1> HIDE DEF g
<1> QED
  BY <1>1, <1>2, <1>3, <1>4, <1>5, PageMoves DEF Typed, PageIInv

LEMMA LeaveIsTyped ==
  ASSUME FormAssumption, PageIInv, NEW p \in FormPage, Leave(p)
  PROVE  PageIInv'
<1>1. ClosedForm \in PageRow
  BY ConstantRows
<1>2. /\ formPage' = [formPage EXCEPT ![p] = ClosedForm]
      /\ UNCHANGED <<published, case, values, files, request, formFaults, formClicks, doubt>>
  BY DEF Leave
<1> QED
  BY <1>1, <1>2, PageMoves DEF Typed, PageIInv

(* A request that is sent.                                                 *)
SentRow(kind, payload, form) ==
  [NoRequest EXCEPT !.pc = "sent", !.kind = kind, !.payload = payload, !.form = form]

LEMMA SentIsTyped ==
  ASSUME FormAssumption, NEW kind \in {"patch", "submit", "resubmit"}, NEW payload \in Answers,
         NEW form \in Version
  PROVE  LET r == SentRow(kind, payload, form) IN
         /\ r \in RequestRow /\ r.pc = "sent" /\ r.kind = kind
         /\ r.payload = payload /\ r.form = form
BY ConstantRows DEF SentRow, RequestRow

LEMMA SaveDraftIsTyped ==
  ASSUME FormAssumption, PageIInv, NEW p \in FormPage, OnSaveDraft(p)
  PROVE  PageIInv'
<1> DEFINE r == SentRow("patch", VisiblePayload(p), formPage[p].version)
<1>1. Typed /\ formPage[p] \in PageRow
  BY DEF PageIInv, Typed
<1>2. /\ request' = [request EXCEPT ![p]["save"] = r]
      /\ UNCHANGED <<published, case, values, files, formPage, formFaults, doubt>>
      /\ formClicks < MaxFormClicks /\ formClicks' = formClicks + 1
  BY DEF OnSaveDraft, Send, SentRow, Click
<1>3. formPage[p].version \in Version
  BY <1>1 DEF PageRow
<1>4. r \in RequestRow /\ OfItsLane("save", r)
  BY <1>1, <1>3, PayloadIsTyped, SentIsTyped DEF OfItsLane
<1> HIDE DEF r
<1>5. /\ request' \in [FormPage -> [Lane -> RequestRow]]
      /\ \A q \in FormPage, l \in Lane : OfItsLane(l, request'[q][l])
  BY <1>2, <1>4, OneRequestMoves DEF Lane
<1>6. formClicks' \in 0 .. MaxFormClicks
  BY <1>1, <1>2 DEF Typed, FormAssumption
<1> QED
  BY <1>1, <1>2, <1>5, <1>6, RequestMoves DEF Typed

LEMMA SubmitIsTyped ==
  ASSUME FormAssumption, PageIInv, NEW p \in FormPage, Submit(p)
  PROVE  PageIInv'
<1> DEFINE kind == IF formPage[p].mode = "resubmit" THEN "resubmit" ELSE "patch"
           r == SentRow(kind, VisiblePayload(p), formPage[p].version)
           g == [formPage[p] EXCEPT !.status = "submitting"]
<1>1. Typed /\ formPage[p] \in PageRow
  BY DEF PageIInv, Typed
<1>2. /\ request' = [request EXCEPT ![p]["submit"] = r]
      /\ formPage' = [formPage EXCEPT ![p] = g]
      /\ UNCHANGED <<published, case, values, files, formFaults>>
      /\ formClicks < MaxFormClicks /\ formClicks' = formClicks + 1
      /\ doubt' = IF HiddenAnswerCounts(p) THEN Doubting("hidden") ELSE doubt
  BY <1>1 DEF Submit, Send, SentRow, Click, Typed
<1>3. formPage[p].version \in Version
  BY <1>1 DEF PageRow
<1>4. r \in RequestRow /\ OfItsLane("submit", r)
  BY <1>1, <1>3, PayloadIsTyped, SentIsTyped DEF OfItsLane
<1>5. g \in PageRow
  <2>1. /\ g \in PageRow /\ g.at = formPage[p].at /\ g.version = formPage[p].version
        /\ g.values = formPage[p].values
    BY <1>1 DEF PageRow
  <2> QED
    BY <2>1 DEF PageIInv
<1> HIDE DEF r, g
<1>6. /\ request' \in [FormPage -> [Lane -> RequestRow]]
      /\ \A q \in FormPage, l \in Lane : OfItsLane(l, request'[q][l])
  BY <1>2, <1>4, OneRequestMoves DEF Lane
<1>7. formClicks' \in 0 .. MaxFormClicks
  BY <1>1, <1>2 DEF Typed, FormAssumption
<1>8. doubt' \in Doubts
  BY <1>1, <1>2, DoubtsAreTyped DEF Typed, Doubts
<1> QED
  BY <1>1, <1>2, <1>5, <1>6, <1>7, <1>8, PageMoves DEF Typed

LEMMA SaveAnsweredIsTyped ==
  ASSUME FormAssumption, PageIInv, NEW p \in FormPage, SaveAnswered(p)
  PROVE  PageIInv'
<1> DEFINE g == IF request[p]["save"].pc = "ok" THEN ClosedForm ELSE formPage[p]
<1>1. Typed /\ formPage[p] \in PageRow
  BY DEF PageIInv, Typed
<1>2. /\ request' = [request EXCEPT ![p]["save"] = NoRequest]
      /\ formPage' = [formPage EXCEPT ![p] = g]
      /\ UNCHANGED <<published, case, values, files, formFaults, formClicks, doubt>>
  BY <1>1 DEF SaveAnswered, Typed
<1>3. NoRequest \in RequestRow /\ OfItsLane("save", NoRequest)
  BY ConstantRows DEF OfItsLane, NoRequest
<1>4. g \in PageRow
  BY <1>1, ConstantRows DEF PageIInv
<1> HIDE DEF g
<1>5. /\ request' \in [FormPage -> [Lane -> RequestRow]]
      /\ \A q \in FormPage, l \in Lane : OfItsLane(l, request'[q][l])
  BY <1>2, <1>3, OneRequestMoves DEF Lane
<1> QED
  BY <1>1, <1>2, <1>4, <1>5, PageMoves DEF Typed

(* What the answer to the submit button's request makes of the page.       *)
LEMMA PageEditsAgain ==
  ASSUME FormAssumption, PageIInv, NEW p \in FormPage
  PROVE  LET g == [formPage[p] EXCEPT !.status = "editing"] IN
         /\ g \in PageRow
         /\ g.at = formPage[p].at /\ g.version = formPage[p].version
         /\ g.values = formPage[p].values /\ g.files = formPage[p].files
<1> DEFINE g == [formPage[p] EXCEPT !.status = "editing"]
<1>1. formPage[p] \in PageRow
  BY DEF PageIInv, Typed
<1>2. /\ g \in PageRow /\ g.at = formPage[p].at /\ g.version = formPage[p].version
      /\ g.values = formPage[p].values /\ g.files = formPage[p].files
  BY <1>1 DEF PageRow
<1> QED
  BY <1>1, <1>2

LEMMA SubmitAnsweredIsTyped ==
  ASSUME FormAssumption, PageIInv, NEW p \in FormPage, SubmitAnswered(p)
  PROVE  PageIInv'
<1> DEFINE r == request[p]["submit"]
           goesOn == r.pc = "ok" /\ r.kind = "patch"
           next == IF goesOn THEN SentRow("submit", NoAnswers, r.form) ELSE NoRequest
           g == IF goesOn THEN formPage[p]
                ELSE IF r.pc = "ok" \/ formPage[p].at = "closed" THEN ClosedForm
                ELSE [formPage[p] EXCEPT !.status = "editing"]
<1>1. Typed /\ formPage[p] \in PageRow /\ r \in RequestRow
  BY DEF PageIInv, Typed, Lane
<1>2. UNCHANGED <<published, case, values, files, formFaults, formClicks, doubt>>
  BY DEF SubmitAnswered
<1>3. request' = [request EXCEPT ![p]["submit"] = next] /\ formPage' = [formPage EXCEPT ![p] = g]
  <2>1. CASE goesOn
    BY <1>1, <2>1 DEF SubmitAnswered, Send, SentRow, Typed
  <2>2. CASE ~goesOn
    BY <1>1, <2>2 DEF SubmitAnswered, Typed
  <2> QED
    BY <2>1, <2>2
<1>4. next \in RequestRow /\ OfItsLane("submit", next)
  <2>1. r.form \in Version
    BY <1>1 DEF RequestRow
  <2> QED
    BY <2>1, ConstantRows, NoAnswersTyped, SentIsTyped DEF OfItsLane
<1>5. g \in PageRow
  BY <1>1, ConstantRows, PageEditsAgain DEF PageIInv
<1> HIDE DEF g, next
<1>6. /\ request' \in [FormPage -> [Lane -> RequestRow]]
      /\ \A q \in FormPage, l \in Lane : OfItsLane(l, request'[q][l])
  BY <1>3, <1>4, OneRequestMoves DEF Lane
<1> QED
  BY <1>1, <1>2, <1>3, <1>5, <1>6, PageMoves DEF Typed

----------------------------------------------------------------------------
(* The same of the API's steps.                                            *)

(* A request that has been read.                                           *)
ReadRow(r) ==
  [r EXCEPT !.pc = "read", !.base = IF r.kind = "resubmit" THEN values ELSE @,
            !.version = IF r.kind = "submit" THEN published ELSE case.version]

LEMMA ReadRowIsTyped ==
  ASSUME Typed, NEW r \in RequestRow
  PROVE  /\ ReadRow(r) \in RequestRow /\ ReadRow(r).pc = "read" /\ ReadRow(r).kind = r.kind
         /\ ReadRow(r).form = r.form /\ ReadRow(r).payload = r.payload
         /\ ReadRow(r).base = IF r.kind = "resubmit" THEN values ELSE r.base
         /\ ReadRow(r).version = IF r.kind = "submit" THEN published ELSE case.version
<1>1. published \in Version /\ case.version \in Version /\ values \in Answers
  BY DEF Typed, CaseRow
<1> QED
  BY <1>1 DEF ReadRow, RequestRow

(* What reading the case makes of a request: it goes on, or it fails.      *)
LEMMA ReadCaseCases ==
  ASSUME FormAssumption, PageIInv, NEW p \in FormPage, NEW lane \in Lane, ReadCase(p, lane)
  PROVE  LET r == request[p][lane] IN
         /\ r.pc = "sent"
         /\ UNCHANGED <<published, case, values, files, formPage, formFaults, formClicks, doubt>>
         /\ request' = IF case.status # Required(r.kind) THEN Answered(p, lane, "failed")
                       ELSE [request EXCEPT ![p][lane] = ReadRow(r)]
<1> DEFINE r == request[p][lane]
<1>1. CASE case.status # Required(r.kind)
  <2>1. request' = [request EXCEPT ![p][lane] =
          [NoRequest EXCEPT !.pc = "failed", !.kind = r.kind, !.form = r.form]]
    BY <1>1 DEF ReadCase
  <2>2. request' = Answered(p, lane, "failed")
    BY <2>1 DEF Answered
  <2> QED
    BY <1>1, <2>2 DEF ReadCase
<1>2. CASE case.status = Required(r.kind)
  BY <1>2 DEF ReadCase, ReadRow
<1> QED
  BY <1>1, <1>2

LEMMA AnsweredIsTyped ==
  ASSUME FormAssumption, PageIInv, NEW p \in FormPage, NEW lane \in Lane, NEW pc \in {"ok", "failed"}
  PROVE  LET R == Answered(p, lane, pc) IN
         /\ R \in [FormPage -> [Lane -> RequestRow]]
         /\ \A q \in FormPage, l \in Lane : OfItsLane(l, R[q][l])
         /\ R[p][lane].pc = pc /\ R[p][lane].kind = request[p][lane].kind
         /\ R[p][lane].form = request[p][lane].form
         /\ \A q \in FormPage, l \in Lane : q # p \/ l # lane => R[q][l] = request[q][l]
<1> DEFINE r == request[p][lane]
           a == [NoRequest EXCEPT !.pc = pc, !.kind = r.kind, !.form = r.form]
           R == Answered(p, lane, pc)
<1>1. Typed /\ \A q \in FormPage, l \in Lane : OfItsLane(l, request[q][l])
  BY DEF PageIInv
<1>2. R = [request EXCEPT ![p][lane] = a]
  BY DEF Answered
<1>3. /\ a \in RequestRow /\ OfItsLane(lane, a)
      /\ a.pc = pc /\ a.kind = r.kind /\ a.form = r.form
  <2>1. r \in RequestRow /\ OfItsLane(lane, r)
    BY <1>1 DEF Typed
  <2> QED
    BY <2>1, ConstantRows DEF RequestRow, NoRequest, OfItsLane
<1> HIDE DEF R, a
<1>4. /\ R \in [FormPage -> [Lane -> RequestRow]] /\ R[p][lane] = a
      /\ \A q \in FormPage, l \in Lane : q # p \/ l # lane => R[q][l] = request[q][l]
  BY <1>1, <1>2, <1>3 DEF Typed
<1>5. \A q \in FormPage, l \in Lane : OfItsLane(l, R[q][l])
  BY <1>1, <1>3, <1>4
<1> QED
  BY <1>3, <1>4, <1>5 DEF R

LEMMA ReadCaseIsTyped ==
  ASSUME FormAssumption, PageIInv, NEW p \in FormPage, NEW lane \in Lane, ReadCase(p, lane)
  PROVE  PageIInv'
<1> DEFINE r == request[p][lane]
<1>1. Typed /\ r \in RequestRow /\ OfItsLane(lane, r)
  BY DEF PageIInv, Typed
<1>2. /\ UNCHANGED <<published, case, values, files, formPage, formFaults, formClicks, doubt>>
      /\ request' = IF case.status # Required(r.kind) THEN Answered(p, lane, "failed")
                    ELSE [request EXCEPT ![p][lane] = ReadRow(r)]
  BY ReadCaseCases
<1>3. ReadRow(r) \in RequestRow /\ OfItsLane(lane, ReadRow(r))
  BY <1>1, ReadRowIsTyped DEF OfItsLane
<1>4. /\ request' \in [FormPage -> [Lane -> RequestRow]]
      /\ \A q \in FormPage, l \in Lane : OfItsLane(l, request'[q][l])
  <2>1. CASE case.status # Required(r.kind)
    BY <1>2, <2>1, AnsweredIsTyped
  <2>2. CASE case.status = Required(r.kind)
    BY <1>2, <1>3, <2>2, OneRequestMoves
  <2> QED
    BY <2>1, <2>2
<1> QED
  BY <1>1, <1>2, <1>4, RequestMoves DEF Typed

(* What a request writes: its answers, or its answers over those read.     *)
WrittenBy(r) ==
  IF r.kind = "resubmit"
    THEN [f \in DOMAIN r.base \cup DOMAIN r.payload |->
            IF f \in DOMAIN r.payload THEN r.payload[f] ELSE r.base[f]]
    ELSE r.payload

WroteRow(r) == [r EXCEPT !.pc = "wrote", !.payload = NoAnswers, !.base = NoAnswers]

LEMMA WrittenIsTyped ==
  ASSUME NEW r \in RequestRow
  PROVE  WrittenBy(r) \in Answers
<1> DEFINE w == WrittenBy(r)
<1>1. r.payload \in Answers /\ r.base \in Answers /\ IsAnswers(r.payload) /\ IsAnswers(r.base)
  BY AnswersAreTyped DEF RequestRow
<1>2. CASE r.kind = "resubmit"
  <2>1. w = [f \in DOMAIN r.base \cup DOMAIN r.payload |->
               IF f \in DOMAIN r.payload THEN r.payload[f] ELSE r.base[f]]
    BY <1>2 DEF WrittenBy
  <2> HIDE DEF w
  <2>2. w = [f \in DOMAIN w |-> w[f]] /\ IsAnswers(w)
    BY <1>1, <2>1 DEF IsAnswers
  <2>3. w \in Answers
    BY <2>2, AnswersFrom
  <2> QED
    BY <2>3 DEF w
<1>3. CASE r.kind # "resubmit"
  BY <1>1, <1>3 DEF WrittenBy
<1> QED
  BY <1>2, <1>3

LEMMA UpsertCases ==
  ASSUME FormAssumption, PageIInv, NEW p \in FormPage, NEW lane \in Lane, UpsertCaseValues(p, lane)
  PROVE  LET r == request[p][lane] IN
         /\ r.pc = "read" /\ r.kind \in {"patch", "resubmit"}
         /\ values' = WrittenBy(r) /\ request' = [request EXCEPT ![p][lane] = WroteRow(r)]
         /\ WroteRow(r) \in RequestRow /\ WroteRow(r).pc = "wrote" /\ WroteRow(r).kind = r.kind
         /\ WroteRow(r).form = r.form /\ WroteRow(r).version = r.version
         /\ doubt' =
              IF case.status # Required(r.kind)
                   \/ \E q \in FormPage : <<q, lane>> # <<p, "submit">> /\ Submitting(q)
                THEN Doubting("overlap")
              ELSE IF VisibleFields(r.form, WrittenBy(r)) # VisibleFields(r.form, r.payload)
                THEN Doubting("hidden")
              ELSE IF WrittenBy(r) # r.payload THEN Doubting("kept") ELSE doubt
         /\ UNCHANGED <<published, case, files, formPage, formFaults, formClicks>>
<1> DEFINE r == request[p][lane]
<1>1. Typed /\ r \in RequestRow
  BY DEF PageIInv, Typed
<1>2. /\ r.pc = "read" /\ r.kind \in {"patch", "resubmit"} /\ values' = WrittenBy(r)
      /\ UNCHANGED <<published, case, files, formPage, formFaults, formClicks>>
  BY DEF UpsertCaseValues, At, WrittenBy
<1>3. request' = [request EXCEPT ![p][lane] = WroteRow(r)]
  BY <1>1 DEF UpsertCaseValues, WroteRow, Typed, RequestRow
<1>4. /\ WroteRow(r) \in RequestRow /\ WroteRow(r).pc = "wrote" /\ WroteRow(r).kind = r.kind
      /\ WroteRow(r).form = r.form /\ WroteRow(r).version = r.version
  BY <1>1, NoAnswersTyped DEF WroteRow, RequestRow
<1>5. doubt' =
        IF case.status # Required(r.kind)
             \/ \E q \in FormPage : <<q, lane>> # <<p, "submit">> /\ Submitting(q)
          THEN Doubting("overlap")
        ELSE IF VisibleFields(r.form, WrittenBy(r)) # VisibleFields(r.form, r.payload)
          THEN Doubting("hidden")
        ELSE IF WrittenBy(r) # r.payload THEN Doubting("kept") ELSE doubt
  BY DEF UpsertCaseValues, WrittenBy
<1> QED
  BY <1>2, <1>3, <1>4, <1>5

LEMMA UpsertIsTyped ==
  ASSUME FormAssumption, PageIInv, NEW p \in FormPage, NEW lane \in Lane, UpsertCaseValues(p, lane)
  PROVE  PageIInv'
<1> DEFINE r == request[p][lane]
<1>1. Typed /\ r \in RequestRow /\ OfItsLane(lane, r)
  BY DEF PageIInv, Typed
<1>2. /\ values' = WrittenBy(r) /\ request' = [request EXCEPT ![p][lane] = WroteRow(r)]
      /\ WroteRow(r) \in RequestRow /\ WroteRow(r).pc = "wrote" /\ WroteRow(r).kind = r.kind
      /\ UNCHANGED <<published, case, files, formPage, formFaults, formClicks>>
  BY UpsertCases
<1>3. OfItsLane(lane, WroteRow(r))
  BY <1>1, <1>2 DEF OfItsLane
<1>4. /\ request' \in [FormPage -> [Lane -> RequestRow]]
      /\ \A q \in FormPage, l \in Lane : OfItsLane(l, request'[q][l])
  BY <1>2, <1>3, OneRequestMoves
<1>5. doubt' \in Doubts
  BY <1>1, UpsertCases, DoubtsAreTyped DEF Typed, Doubts
<1>6. values' \in Answers
  BY <1>1, <1>2, WrittenIsTyped
<1> QED
  BY <1>1, <1>2, <1>4, <1>5, <1>6, RequestMoves DEF Typed

LEMMA StaledIsTyped ==
  ASSUME NEW R \in [FormPage -> [Lane -> RequestRow]],
         \A q \in FormPage, l \in Lane : OfItsLane(l, R[q][l])
  PROVE  /\ Staled(R) \in [FormPage -> [Lane -> RequestRow]]
         /\ \A q \in FormPage, l \in Lane : OfItsLane(l, Staled(R)[q][l])
<1>1. Staled(R) \in [FormPage -> [Lane -> RequestRow]]
  BY StaledRequests
<1>2. ASSUME NEW q \in FormPage, NEW l \in Lane PROVE OfItsLane(l, Staled(R)[q][l])
  <2>1. Overtaken(R[q][l], Staled(R)[q][l]) /\ OfItsLane(l, R[q][l])
    BY StaledRequests
  <2> QED
    BY <2>1 DEF Overtaken, OfItsLane
<1> QED
  BY <1>1, <1>2

LEMMA CommitIsTyped ==
  ASSUME FormAssumption, PageIInv, NEW p \in FormPage, NEW lane \in Lane, Commit(p, lane)
  PROVE  PageIInv'
<1> DEFINE r == request[p][lane]
<1>1. Typed /\ r \in RequestRow
  BY DEF PageIInv, Typed
<1>2. UNCHANGED <<published, values, files, formPage, formFaults, formClicks>>
  BY DEF Commit
<1>3. CASE r.stale
  <2>1. request' = Answered(p, lane, "failed") /\ UNCHANGED <<case, doubt>>
    BY <1>3 DEF Commit
  <2>2. /\ request' \in [FormPage -> [Lane -> RequestRow]]
        /\ \A q \in FormPage, l \in Lane : OfItsLane(l, request'[q][l])
    BY <2>1, AnsweredIsTyped
  <2> QED
    BY <1>1, <1>2, <2>1, <2>2, RequestMoves DEF Typed
<1>4. CASE ~r.stale
  <2>1. /\ case' = [status |-> IF r.kind = "patch" THEN case.status ELSE "active", version |-> r.version]
        /\ request' = Staled(Answered(p, lane, "ok"))
        /\ doubt' = IF r.kind # "patch" /\ r.version # r.form THEN Doubting("republished") ELSE doubt
    BY <1>4 DEF Commit, Succeed
  <2>2. /\ request' \in [FormPage -> [Lane -> RequestRow]]
        /\ \A q \in FormPage, l \in Lane : OfItsLane(l, request'[q][l])
    BY <2>1, AnsweredIsTyped, StaledIsTyped
  <2>3. case' \in CaseRow
    BY <1>1, <2>1 DEF Typed, CaseRow, RequestRow
  <2>4. doubt' \in Doubts
    BY <1>1, <2>1, DoubtsAreTyped DEF Typed, Doubts
  <2> QED
    BY <1>1, <1>2, <2>2, <2>3, <2>4, RequestMoves DEF Typed
<1> QED
  BY <1>3, <1>4

LEMMA LoseIsTyped ==
  ASSUME FormAssumption, PageIInv, NEW p \in FormPage, NEW lane \in Lane, LoseRequest(p, lane)
  PROVE  PageIInv'
<1>1. Typed
  BY DEF PageIInv
<1>2. /\ request' = Answered(p, lane, "failed")
      /\ UNCHANGED <<published, case, values, files, formPage, formClicks, doubt>>
      /\ formFaults < MaxFormFaults /\ formFaults' = formFaults + 1
  BY DEF LoseRequest
<1>3. /\ request' \in [FormPage -> [Lane -> RequestRow]]
      /\ \A q \in FormPage, l \in Lane : OfItsLane(l, request'[q][l])
  BY <1>2, AnsweredIsTyped
<1>4. formFaults' \in 0 .. MaxFormFaults
  BY <1>1, <1>2 DEF Typed, FormAssumption
<1> QED
  BY <1>1, <1>2, <1>3, <1>4, RequestMoves DEF Typed

LEMMA ReturnCaseIsTyped ==
  ASSUME FormAssumption, PageIInv, ReturnCase
  PROVE  PageIInv'
<1>1. Typed /\ \A q \in FormPage, l \in Lane : OfItsLane(l, request[q][l])
  BY DEF PageIInv
<1>2. /\ case' = [case EXCEPT !.status = "returned"] /\ request' = Staled(request)
      /\ UNCHANGED <<published, values, files, formPage, formFaults, formClicks, doubt>>
  BY DEF ReturnCase
<1>3. /\ request' \in [FormPage -> [Lane -> RequestRow]]
      /\ \A q \in FormPage, l \in Lane : OfItsLane(l, request'[q][l])
  BY <1>1, <1>2, StaledIsTyped DEF Typed
<1>4. case' \in CaseRow
  BY <1>1, <1>2 DEF Typed, CaseRow
<1> QED
  BY <1>1, <1>2, <1>3, <1>4, RequestMoves DEF Typed

LEMMA PublishIsTyped ==
  ASSUME FormAssumption, PageIInv, Publish
  PROVE  PageIInv'
<1>1. Typed /\ \A q \in FormPage, l \in Lane : OfItsLane(l, request[q][l])
  BY DEF PageIInv
<1>2. published' \in Version /\ UNCHANGED <<case, values, files, formPage, request, formFaults, formClicks, doubt>>
  BY DEF Publish
<1> QED
  BY <1>1, <1>2, RequestMoves DEF Typed

LEMMA PagesStartTyped ==
  ASSUME FormAssumption, FormInit
  PROVE  PageIInv
<1>1. published \in Version /\ case \in CaseRow /\ values \in Answers /\ files \in SUBSET FileField
  BY NoAnswersTyped DEF FormInit, FormAssumption, CaseRow
<1>2. formPage \in [FormPage -> PageRow]
  BY ConstantRows DEF FormInit
<1>3. /\ request \in [FormPage -> [Lane -> RequestRow]]
      /\ \A p \in FormPage, lane \in Lane : OfItsLane(lane, request[p][lane])
  BY ConstantRows DEF FormInit, Lane, OfItsLane, NoRequest
<1>4. formFaults \in 0 .. MaxFormFaults /\ formClicks \in 0 .. MaxFormClicks /\ doubt \in Doubts
  BY DEF FormInit, FormAssumption, Doubts
<1> QED
  BY <1>1, <1>2, <1>3, <1>4 DEF PageIInv, Typed

LEMMA PagesStayTyped ==
  ASSUME FormAssumption, PageIInv, [FormNext]_formVars
  PROVE  PageIInv'
<1>1. CASE UNCHANGED formVars
  <2>1. Typed'
    BY <1>1 DEF PageIInv, Typed, formVars
  <2>3. \A p \in FormPage, lane \in Lane : OfItsLane(lane, request[p][lane])'
    BY <1>1 DEF PageIInv, OfItsLane, formVars
  <2> QED
    BY <2>1, <2>3 DEF PageIInv
<1>2. ASSUME NEW p \in FormPage, PageStep(p) PROVE PageIInv'
  BY <1>2, OpenIsTyped, LeaveIsTyped, SaveDraftIsTyped, SubmitIsTyped, SaveAnsweredIsTyped,
     SubmitAnsweredIsTyped, SetValueIsTyped, AttachmentsAreTyped DEF PageStep
<1>3. ASSUME NEW p \in FormPage, NEW lane \in Lane, ApiStep(p, lane) \/ LoseRequest(p, lane) PROVE PageIInv'
  BY <1>3, ReadCaseIsTyped, UpsertIsTyped, CommitIsTyped, LoseIsTyped DEF ApiStep
<1>4. CASE ReturnCase \/ Publish
  BY <1>4, ReturnCaseIsTyped, PublishIsTyped
<1> QED
  BY <1>1, <1>2, <1>3, <1>4 DEF FormNext, Lane

LEMMA PagesAreTyped ==
  ASSUME PageIInv
  PROVE  TypeOK
<1>1. Typed
  BY DEF PageIInv
<1>2. IsAnswers(values) /\ published \in Version /\ case \in CaseRow /\ files \subseteq FileField
  BY <1>1, AnswersAreTyped DEF Typed
<1>3. ASSUME NEW p \in FormPage
      PROVE  /\ formPage[p] \in PageRow /\ IsAnswers(formPage[p].values)
             /\ request[p]["save"].kind = "patch"
  <2>1. formPage[p] \in PageRow
    BY <1>1 DEF Typed
  <2>2. formPage[p].values \in Answers
    BY <2>1 DEF PageRow
  <2> QED
    BY <2>1, <2>2, AnswersAreTyped DEF PageIInv, OfItsLane, Lane
<1>4. ASSUME NEW p \in FormPage, NEW lane \in Lane
      PROVE  request[p][lane] \in RequestRow /\ IsAnswers(request[p][lane].payload)
  <2>1. request[p][lane] \in RequestRow
    BY <1>1 DEF Typed
  <2>2. request[p][lane].payload \in Answers
    BY <2>1 DEF RequestRow
  <2> QED
    BY <2>1, <2>2, AnswersAreTyped
<1> QED
  BY <1>1, <1>2, <1>3, <1>4 DEF TypeOK, Typed, CaseRow, Doubts, IsAnswers, PageRow, RequestRow, Lane

(* The inductive invariant of the pages and of what their requests carry.  *)
LEMMA PageInvariance ==
  ASSUME FormAssumption
  PROVE  FormSpec => []PageIInv
<1>1. FormInit => PageIInv
  BY PagesStartTyped
<1>2. PageIInv /\ [FormNext]_formVars => PageIInv'
  BY PagesStayTyped
<1> QED
  BY <1>1, <1>2, PTL DEF FormSpec

----------------------------------------------------------------------------
(* What the answers are worth.                                             *)

Valid(v, a, attached) == ValidateFields(v, a, attached) = {}

AsAsked(v, a) == DOMAIN a \subseteq VisibleFields(v, a)

(* No answer is one its question refuses, whether it is asked or not.      *)
Clean(v, a) ==
  \A f \in DOMAIN a :
    Form[v][f].supported /\ ~IsEmptyValue(a[f]) => a[f] \notin Form[v][f].refuses

LEMMA ValidityOfFields ==
  ASSUME NEW v, NEW a, NEW attached
  PROVE  Valid(v, a, attached) <=> \A f \in VisibleFields(v, a) : ~Problem(v, f, a, attached)
BY DEF Valid, ValidateFields

LEMMA MoreFilesAreFine ==
  ASSUME NEW v, NEW a, NEW attached, NEW more, attached \subseteq more, Valid(v, a, attached)
  PROVE  Valid(v, a, more)
<1>1. \A f \in VisibleFields(v, a) : ~Problem(v, f, a, attached)
  BY ValidityOfFields
<1>2. \A f \in VisibleFields(v, a) : ~Problem(v, f, a, more)
  BY <1>1 DEF Problem
<1> QED
  BY <1>2, ValidityOfFields

LEMMA ValidIsClean ==
  ASSUME NEW v, NEW a, NEW attached, IsAnswers(a), Valid(v, a, attached), AsAsked(v, a)
  PROVE  Clean(v, a)
<1>1. \A f \in VisibleFields(v, a) : ~Problem(v, f, a, attached)
  BY ValidityOfFields
<1>2. \A f \in DOMAIN a : f \in VisibleFields(v, a) /\ f \notin FileField
  BY DEF AsAsked, IsAnswers
<1> QED
  BY <1>1, <1>2 DEF Clean, Problem, Empty

(* What a page sends is as good as what it holds, if it asks for the same. *)
LEMMA PayloadIsValid ==
  ASSUME NEW p \in FormPage, Typed, ~HiddenAnswerCounts(p),
         Valid(formPage[p].version, formPage[p].values, formPage[p].files)
  PROVE  /\ Valid(formPage[p].version, VisiblePayload(p), formPage[p].files)
         /\ AsAsked(formPage[p].version, VisiblePayload(p))
<1> DEFINE v == formPage[p].version
           a == formPage[p].values
           s == VisiblePayload(p)
<1>1. VisibleFields(v, s) = VisibleFields(v, a)
  BY DEF HiddenAnswerCounts
<1>2. s = [f \in DOMAIN a \cap VisibleFields(v, a) |-> a[f]]
  BY DEF VisiblePayload, Restrict
<1>3. \A f \in VisibleFields(v, a) : ~Problem(v, f, a, formPage[p].files)
  BY ValidityOfFields
<1> HIDE DEF v, a, s
<1>4. ASSUME NEW f \in VisibleFields(v, a)
      PROVE  (f \in DOMAIN s <=> f \in DOMAIN a) /\ (f \in DOMAIN s => s[f] = a[f])
  BY <1>2
<1>5. ASSUME NEW f \in VisibleFields(v, s) PROVE ~Problem(v, f, s, formPage[p].files)
  <2>1. ~Problem(v, f, a, formPage[p].files) /\ Empty(s, f) = Empty(a, f)
    BY <1>1, <1>3, <1>4 DEF Empty
  <2>2. ~Empty(s, f) => s[f] = a[f]
    BY <1>1, <1>4 DEF Empty
  <2> QED
    BY <2>1, <2>2 DEF Problem
<1>6. Valid(v, s, formPage[p].files)
  BY <1>5, ValidityOfFields
<1>7. AsAsked(v, s)
  BY <1>1, <1>2 DEF AsAsked
<1> QED
  BY <1>6, <1>7 DEF v, s

(* A resubmission that asks for the same with the answers it keeps is as   *)
(* good as without them.                                                   *)
LEMMA OverlayIsValid ==
  ASSUME NEW r \in RequestRow, r.kind = "resubmit", NEW v, NEW attached,
         Valid(v, r.payload, attached), AsAsked(v, r.payload), Clean(v, r.base),
         VisibleFields(v, WrittenBy(r)) = VisibleFields(v, r.payload)
  PROVE  Valid(v, WrittenBy(r), attached) /\ Clean(v, WrittenBy(r))
<1> DEFINE w == WrittenBy(r)
           s == r.payload
           b == r.base
<1>1. /\ DOMAIN w = DOMAIN b \cup DOMAIN s
      /\ \A f \in DOMAIN w : w[f] = IF f \in DOMAIN s THEN s[f] ELSE b[f]
  BY DEF WrittenBy
<1>2. Clean(v, s)
  <2>1. s \in Answers
    BY DEF RequestRow
  <2> QED
    BY <2>1, AnswersAreTyped, ValidIsClean
<1>3. VisibleFields(v, w) = VisibleFields(v, s) /\ Clean(v, b)
  OBVIOUS
<1>4. \A f \in VisibleFields(v, s) : ~Problem(v, f, s, attached)
  BY ValidityOfFields
<1> HIDE DEF w, s, b
<1>5. Clean(v, w)
  BY <1>1, <1>2, <1>3 DEF Clean
<1>6. ASSUME NEW f \in VisibleFields(v, w) PROVE ~Problem(v, f, w, attached)
  <2>1. ~Problem(v, f, s, attached)
    BY <1>3, <1>4
  <2>2. CASE ~Form[v][f].supported \/ f \in FileField
    BY <2>1, <2>2 DEF Problem
  <2>3. CASE Form[v][f].supported /\ f \notin FileField /\ f \in DOMAIN s
    BY <1>1, <2>1, <2>3 DEF Problem, Empty
  <2>4. CASE Form[v][f].supported /\ f \notin FileField /\ f \notin DOMAIN s
    <3>1. ~Form[v][f].required
      BY <2>1, <2>4 DEF Problem, Empty
    <3>2. ~Empty(w, f) => w[f] \notin Form[v][f].refuses
      BY <1>5, <2>4 DEF Empty, Clean
    <3> QED
      BY <2>4, <3>1, <3>2 DEF Problem
  <2> QED
    BY <2>2, <2>3, <2>4
<1>7. Valid(v, w, attached)
  BY <1>6, ValidityOfFields
<1> QED
  BY <1>5, <1>7 DEF w

----------------------------------------------------------------------------
(* The invariant behind the submissions.  As long as nothing doubtful came *)
(* between, every page and every request is about the version the case     *)
(* refers to; what is sent, or written for a submission, is valid; and     *)
(* nobody else has written since.                                          *)

Current(g, v, attached) ==
  g.at = "form" => g.version = v /\ g.files \subseteq attached

Aligned(r, v) ==
  /\ r # NoRequest => r.form = v
  /\ r.pc \in {"read", "wrote"} /\ r.kind # "submit" => r.version = v

Backed(r, v, a, attached, sure) ==
  /\ r.pc \in {"sent", "read"} /\ r.kind # "submit" =>
       Valid(v, r.payload, attached) /\ AsAsked(v, r.payload)
  /\ r.pc = "read" /\ r.kind = "resubmit" => r.base = a
  /\ \/ r.kind = "patch" /\ r.pc \in {"wrote", "ok"}
     \/ r.kind = "submit" /\ r.pc \in {"sent", "read"}
     => Valid(v, a, attached) /\ AsAsked(v, a)
  /\ r.pc = "wrote" /\ r.kind = "resubmit" =>
       Valid(v, a, attached) /\ Clean(v, a) /\ (sure => AsAsked(v, a))

(* What is stored with a case that was submitted, or returned since.       *)
Stored(status, v, a, attached, sure) ==
  /\ status = "active" => Valid(v, a, attached) /\ (sure => AsAsked(v, a))
  /\ status \in {"active", "returned"} => Clean(v, a)

Certain == doubt \in {"none", "kept"}

Sure == doubt = "none"

Sound ==
  /\ \A p \in FormPage : Current(formPage[p], case.version, files)
  /\ \A p \in FormPage, lane \in Lane : Aligned(request[p][lane], case.version)
  /\ \A p \in FormPage : Backed(request[p]["submit"], case.version, values, files, Sure)
  /\ Stored(case.status, case.version, values, files, Sure)

(* Nothing happens before there is a case.                                 *)
Fresh ==
  case.status = "none" =>
    \A p \in FormPage : formPage[p].at = "closed" /\ \A lane \in Lane : request[p][lane] = NoRequest

SoundIInv == Fresh /\ (Certain => Sound)

(* A doubt stays.                                                          *)
LEMMA DoubtStays ==
  ASSUME NEW why \in {"overlap", "republished", "file", "hidden"}, doubt' = Doubting(why)
  PROVE  ~Certain'
BY DEF Doubting, Certain

LEMMA KeptIsNotSure ==
  ASSUME doubt' = Doubting("kept")
  PROVE  (Certain' => Certain) /\ ~Sure'
BY DEF Doubting, Certain, Sure

LEMMA IdleIsBacked ==
  ASSUME NEW r, r.pc \in {"none", "failed"} \/ (r.pc = "ok" /\ r.kind # "patch"),
         NEW v, NEW a, NEW attached, NEW sure
  PROVE  Backed(r, v, a, attached, sure)
BY DEF Backed

LEMMA BackedStill ==
  ASSUME NEW r, NEW s, NEW v, NEW a, NEW attached, NEW more, NEW sure, NEW surer,
         Backed(r, v, a, attached, sure), attached \subseteq more, surer => sure,
         Overtaken(r, s)
  PROVE  Backed(s, v, a, more, surer)
BY MoreFilesAreFine DEF Backed, Overtaken

LEMMA SameIsOvertaken == \A r : Overtaken(r, r)
BY DEF Overtaken

LEMMA OvertakenIsAligned ==
  ASSUME NEW r, NEW s, NEW v, Overtaken(r, s), Aligned(r, v)
  PROVE  Aligned(s, v)
<1>1. NoRequest.pc = "none"
  BY DEF NoRequest
<1>2. s # NoRequest => r # NoRequest
  BY <1>1 DEF Overtaken
<1> QED
  BY <1>2 DEF Overtaken, Aligned

LEMMA ConstantRowsAreSound ==
  /\ \A v, attached : Current(ClosedForm, v, attached)
  /\ \A v : Aligned(NoRequest, v)
  /\ \A v, a, attached, sure : Backed(NoRequest, v, a, attached, sure)
BY DEF Current, ClosedForm, Aligned, NoRequest, Backed

(* A step that leaves the doubt alone keeps what is certain.               *)
LEMMA SoundFrom ==
  ASSUME SoundIInv, Fresh', Certain' => Certain, Certain /\ Certain' => Sound'
  PROVE  SoundIInv'
<1>1. (Certain => Sound)'
  OBVIOUS
<1> QED
  BY <1>1 DEF SoundIInv

LEMMA StartIsSound ==
  ASSUME FormInit
  PROVE  SoundIInv
<1>1. Fresh
  BY DEF FormInit, Fresh, Lane, ClosedForm
<1>2. Sound
  BY ConstantRowsAreSound DEF FormInit, Sound, Lane, Stored
<1> QED
  BY <1>1, <1>2 DEF SoundIInv

(* Before there is a case a page can only be opened.                       *)
LEMMA NothingBeforeTheCase ==
  ASSUME Fresh, NEW p \in FormPage
  PROVE  /\ formPage[p].at = "form" => case.status # "none"
         /\ \A lane \in Lane : request[p][lane] # NoRequest => case.status # "none"
BY DEF Fresh

LEMMA StillACase ==
  ASSUME case.status # "none", case'.status = "none" => case.status = "none"
  PROVE  Fresh'
BY DEF Fresh

LEMMA OpenIsSound ==
  ASSUME FormAssumption, PageIInv, SoundIInv, NEW p \in FormPage, Open(p)
  PROVE  SoundIInv'
<1> DEFINE new == case.status = "none"
           v == IF new THEN published ELSE case.version
           g == [at |-> "form", version |-> v, values |-> values,
                 mode |-> IF case.status = "returned" THEN "resubmit" ELSE "draft",
                 files |-> files, status |-> "editing"]
<1>1. Typed /\ Fresh
  BY DEF PageIInv, SoundIInv
<1>2. /\ formPage' = [formPage EXCEPT ![p] = g]
      /\ case' = IF new THEN [status |-> "draft", version |-> v] ELSE case
      /\ UNCHANGED <<published, values, files, request, formFaults, formClicks, doubt>>
      /\ new \/ case.status \in {"draft", "returned"}
  BY DEF Open, Editable
<1>3. case'.status # "none" /\ case'.version = v
  BY <1>2
<1>4. Fresh'
  BY <1>3 DEF Fresh
<1>5. ASSUME Certain, Certain' PROVE Sound'
  <2>1. Sound
    BY <1>5 DEF SoundIInv
  <2>2. /\ formPage'[p] = g /\ \A q \in FormPage \ {p} : formPage'[q] = formPage[q]
        /\ Current(g, v, files)
    BY <1>1, <1>2 DEF Typed, Current
  <2> HIDE DEF g
  <2>3. \A q \in FormPage : Current(formPage'[q], v, files')
    <3>1. ASSUME NEW q \in FormPage \ {p} PROVE Current(formPage[q], v, files)
      BY <1>1, <2>1, NothingBeforeTheCase DEF Sound, Current
    <3> QED
      BY <1>2, <2>2, <3>1 DEF Current
  <2>4. \A q \in FormPage, lane \in Lane : Aligned(request[q][lane], v)
    <3>1. CASE new
      BY <1>1, <3>1, ConstantRowsAreSound DEF Fresh
    <3>2. CASE ~new
      BY <2>1, <3>2 DEF Sound
    <3> QED
      BY <3>1, <3>2
  <2>5. \A q \in FormPage : Backed(request[q]["submit"], v, values, files, Sure)
    <3>1. CASE new
      BY <1>1, <3>1, ConstantRowsAreSound DEF Fresh, Lane
    <3>2. CASE ~new
      BY <2>1, <3>2 DEF Sound
    <3> QED
      BY <3>1, <3>2
  <2>6. Stored(case'.status, v, values, files, Sure)
    BY <1>2, <2>1 DEF Sound, Stored
  <2>7. Sure' = Sure
    BY <1>2 DEF Sure
  <2> HIDE DEF v
  <2> QED
    BY <1>2, <1>3, <2>3, <2>4, <2>5, <2>6, <2>7 DEF Sound
<1>6. Certain' => Certain
  BY <1>2 DEF Certain
<1> QED
  BY <1>4, <1>5, <1>6, SoundFrom

(* A page does something to itself alone.                                  *)
LEMMA PageMoveIsSound ==
  ASSUME PageIInv, SoundIInv, NEW p \in FormPage, NEW g, formPage' = [formPage EXCEPT ![p] = g],
         UNCHANGED <<case, values, request, doubt>>, case.status # "none",
         files \subseteq files', files' # files => case.status \in {"draft", "returned"},
         Current(formPage[p], case.version, files) => Current(g, case.version, files')
  PROVE  SoundIInv'
<1>1. Typed
  BY DEF PageIInv
<1>2. Fresh'
  BY StillACase
<1>3. Certain' = Certain /\ Sure' = Sure
  BY DEF Certain, Sure
<1>4. ASSUME Certain PROVE Sound'
  <2>1. Sound
    BY <1>4 DEF SoundIInv
  <2>2. formPage'[p] = g /\ \A q \in FormPage \ {p} : formPage'[q] = formPage[q]
    BY <1>1 DEF Typed
  <2>3. \A q \in FormPage : Current(formPage'[q], case.version, files')
    BY <2>1, <2>2 DEF Sound, Current
  <2>4. \A q \in FormPage : Backed(request[q]["submit"], case.version, values, files', Sure)
    BY <2>1, BackedStill, SameIsOvertaken DEF Sound
  <2>5. Stored(case.status, case.version, values, files', Sure)
    BY <2>1 DEF Sound, Stored
  <2> QED
    BY <1>3, <2>1, <2>3, <2>4, <2>5 DEF Sound
<1> QED
  BY <1>2, <1>3, <1>4, SoundFrom

LEMMA SetValueIsSound ==
  ASSUME FormAssumption, PageIInv, SoundIInv, NEW p \in FormPage, NEW f \in Shown(p) \ FileField,
         NEW answer \in Answer[f], SetValue(p, f, answer)
  PROVE  SoundIInv'
<1> DEFINE now == [g \in DOMAIN formPage[p].values \cup {f} |->
                     IF g = f THEN answer ELSE formPage[p].values[g]]
           g == [formPage[p] EXCEPT !.values = now]
<1>1. Typed /\ formPage[p] \in PageRow /\ Fresh
  BY DEF PageIInv, Typed, SoundIInv
<1>2. /\ formPage' = [formPage EXCEPT ![p].values = now]
      /\ UNCHANGED <<case, values, files, request, doubt>>
  BY DEF SetValue
<1>3. formPage[p].at = "form"
  BY DEF Shown
<1> HIDE DEF now
<1>4. formPage' = [formPage EXCEPT ![p] = g]
  BY <1>1, <1>2 DEF Typed, PageRow
<1>5. g.at = formPage[p].at /\ g.version = formPage[p].version /\ g.files = formPage[p].files
  BY <1>1 DEF PageRow
<1> HIDE DEF g
<1>6. Current(formPage[p], case.version, files) => Current(g, case.version, files')
  BY <1>2, <1>5 DEF Current
<1> QED
  BY <1>1, <1>2, <1>3, <1>4, <1>6, PageMoveIsSound, NothingBeforeTheCase

LEMMA AddAttachmentIsSound ==
  ASSUME FormAssumption, PageIInv, SoundIInv, NEW p \in FormPage, NEW f \in Shown(p) \cap FileField,
         AddAttachment(p, f)
  PROVE  SoundIInv'
<1> DEFINE g == [formPage[p] EXCEPT !.files = formPage[p].files \cup {f}]
<1>1. Typed /\ formPage[p] \in PageRow /\ Fresh
  BY DEF PageIInv, Typed, SoundIInv
<1>2. /\ files' = files \cup {f} /\ case.status \in {"draft", "returned"}
      /\ UNCHANGED <<case, values, request, doubt>>
  BY DEF AddAttachment, Editable
<1>3. formPage' = [formPage EXCEPT ![p] = g]
  BY <1>1 DEF AddAttachment, Typed
<1>4. g.at = formPage[p].at /\ g.version = formPage[p].version /\ g.files = formPage[p].files \cup {f}
  BY <1>1 DEF PageRow
<1> HIDE DEF g
<1>5. Current(formPage[p], case.version, files) => Current(g, case.version, files')
  BY <1>2, <1>4 DEF Current
<1> QED
  BY <1>1, <1>2, <1>3, <1>5, PageMoveIsSound

LEMMA RemoveAttachmentIsSound ==
  ASSUME FormAssumption, PageIInv, SoundIInv, NEW p \in FormPage, NEW f \in Shown(p) \cap FileField,
         RemoveAttachment(p, f)
  PROVE  SoundIInv'
<1> DEFINE g == [formPage[p] EXCEPT !.files = formPage[p].files \ {f}]
           risky == \E q \in FormPage : Submitting(q) \/ (q # p /\ f \in formPage[q].files)
<1>1. Typed /\ formPage[p] \in PageRow /\ Fresh
  BY DEF PageIInv, Typed, SoundIInv
<1>2. /\ files' = files \ {f} /\ case.status \in {"draft", "returned"}
      /\ UNCHANGED <<case, values, request>>
      /\ doubt' = IF risky THEN Doubting("file") ELSE doubt
  BY DEF RemoveAttachment, Editable
<1>3. formPage' = [formPage EXCEPT ![p] = g]
  BY <1>1 DEF RemoveAttachment, Typed
<1>4. g.at = formPage[p].at /\ g.version = formPage[p].version /\ g.files = formPage[p].files \ {f}
  BY <1>1 DEF PageRow
<1> HIDE DEF g, risky
<1>5. Fresh'
  BY <1>2, StillACase
<1>6. Certain' => ~risky /\ doubt' = doubt
  BY <1>2, DoubtStays
<1>7. ASSUME Certain, Certain' PROVE Sound'
  <2>1. Sound /\ Sure' = Sure
    BY <1>6, <1>7 DEF SoundIInv, Sure
  <2>2. /\ \A q \in FormPage : request[q]["submit"] = NoRequest
        /\ \A q \in FormPage : q # p => f \notin formPage[q].files
    BY <1>6, <1>7 DEF risky, Submitting
  <2>3. formPage'[p] = g /\ \A q \in FormPage \ {p} : formPage'[q] = formPage[q]
    BY <1>1, <1>3 DEF Typed
  <2>4. \A q \in FormPage : Current(formPage'[q], case.version, files')
    BY <1>2, <1>4, <2>1, <2>2, <2>3 DEF Sound, Current
  <2>5. \A q \in FormPage : Backed(request[q]["submit"], case.version, values, files', Sure)
    BY <2>2, ConstantRowsAreSound
  <2>6. Stored(case.status, case.version, values, files', Sure)
    BY <1>2, <2>1 DEF Sound, Stored
  <2> QED
    BY <1>2, <2>1, <2>4, <2>5, <2>6 DEF Sound
<1>8. Certain' => Certain
  BY <1>6 DEF Certain
<1> QED
  BY <1>5, <1>7, <1>8, SoundFrom

LEMMA LeaveIsSound ==
  ASSUME FormAssumption, PageIInv, SoundIInv, NEW p \in FormPage, Leave(p)
  PROVE  SoundIInv'
<1>1. /\ formPage' = [formPage EXCEPT ![p] = ClosedForm] /\ formPage[p].at = "form"
      /\ UNCHANGED <<case, values, files, request, doubt>>
  BY DEF Leave
<1>2. case.status # "none"
  BY <1>1, NothingBeforeTheCase DEF SoundIInv
<1>3. Current(ClosedForm, case.version, files')
  BY ConstantRowsAreSound
<1> QED
  BY <1>1, <1>2, <1>3, PageMoveIsSound

(* A page, or none, and one of its requests change.                        *)
LEMMA RequestMoveIsSound ==
  ASSUME PageIInv, SoundIInv, NEW p \in FormPage, NEW lane \in Lane, NEW r, NEW g,
         request' = [request EXCEPT ![p][lane] = r], formPage' = [formPage EXCEPT ![p] = g],
         UNCHANGED <<case, values, files>>, case.status # "none",
         Certain' => Certain /\ Sure' = Sure,
         Certain' /\ Sound => /\ Current(g, case.version, files)
                              /\ Aligned(r, case.version)
                              /\ lane = "submit" => Backed(r, case.version, values, files, Sure)
  PROVE  SoundIInv'
<1>1. Typed
  BY DEF PageIInv
<1>2. Fresh'
  BY StillACase
<1>3. ASSUME Certain, Certain' PROVE Sound'
  <2>1. Sound /\ Sure' = Sure
    BY <1>3 DEF SoundIInv
  <2>2. formPage'[p] = g /\ \A q \in FormPage \ {p} : formPage'[q] = formPage[q]
    BY <1>1 DEF Typed
  <2>3. /\ request'[p][lane] = r
        /\ \A q \in FormPage, l \in Lane : q # p \/ l # lane => request'[q][l] = request[q][l]
    BY <1>1 DEF Typed
  <2>4. \A q \in FormPage : Current(formPage'[q], case.version, files)
    BY <1>3, <2>1, <2>2 DEF Sound
  <2>5. \A q \in FormPage, l \in Lane : Aligned(request'[q][l], case.version)
    BY <1>3, <2>1, <2>3 DEF Sound
  <2>6. \A q \in FormPage : Backed(request'[q]["submit"], case.version, values, files, Sure)
    BY <1>3, <2>1, <2>3 DEF Sound, Lane
  <2> QED
    BY <2>1, <2>4, <2>5, <2>6 DEF Sound
<1> QED
  BY <1>2, <1>3, SoundFrom

LEMMA RequestAloneIsSound ==
  ASSUME PageIInv, SoundIInv, NEW p \in FormPage, NEW lane \in Lane, NEW r,
         request' = [request EXCEPT ![p][lane] = r],
         UNCHANGED <<case, values, files, formPage, doubt>>, case.status # "none",
         Sound => /\ Aligned(r, case.version)
                  /\ lane = "submit" => Backed(r, case.version, values, files, Sure)
  PROVE  SoundIInv'
<1> DEFINE g == formPage[p]
<1>1. formPage' = [formPage EXCEPT ![p] = g]
  BY DEF PageIInv, Typed
<1>2. Certain' = Certain /\ Sure' = Sure
  BY DEF Certain, Sure
<1>3. Sound => Current(g, case.version, files)
  BY DEF Sound
<1> HIDE DEF g
<1> QED
  BY <1>1, <1>2, <1>3, RequestMoveIsSound

LEMMA SaveDraftIsSound ==
  ASSUME FormAssumption, PageIInv, SoundIInv, NEW p \in FormPage, OnSaveDraft(p)
  PROVE  SoundIInv'
<1> DEFINE r == SentRow("patch", VisiblePayload(p), formPage[p].version)
<1>1. Typed /\ formPage[p] \in PageRow
  BY DEF PageIInv, Typed
<1>2. /\ request' = [request EXCEPT ![p]["save"] = r] /\ formPage[p].at = "form"
      /\ UNCHANGED <<case, values, files, formPage, doubt>>
  BY DEF OnSaveDraft, Send, SentRow, Click
<1>3. r.form = formPage[p].version /\ r.pc = "sent"
  <2>1. formPage[p].version \in Version /\ VisiblePayload(p) \in Answers
    BY <1>1, PayloadIsTyped DEF PageRow
  <2> QED
    BY <2>1, SentIsTyped
<1> HIDE DEF r
<1>4. case.status # "none"
  BY <1>2, NothingBeforeTheCase DEF SoundIInv
<1>5. Sound => Aligned(r, case.version)
  BY <1>2, <1>3 DEF Sound, Aligned, Current
<1> QED
  BY <1>2, <1>4, <1>5, RequestAloneIsSound DEF Lane

LEMMA SubmitIsSound ==
  ASSUME FormAssumption, PageIInv, SoundIInv, NEW p \in FormPage, Submit(p)
  PROVE  SoundIInv'
<1> DEFINE kind == IF formPage[p].mode = "resubmit" THEN "resubmit" ELSE "patch"
           s == VisiblePayload(p)
           r == SentRow(kind, s, formPage[p].version)
           g == [formPage[p] EXCEPT !.status = "submitting"]
<1>1. Typed /\ formPage[p] \in PageRow
  BY DEF PageIInv, Typed
<1>2. /\ request' = [request EXCEPT ![p]["submit"] = r]
      /\ formPage' = [formPage EXCEPT ![p] = g]
      /\ UNCHANGED <<case, values, files>>
      /\ formPage[p].at = "form"
      /\ Valid(formPage[p].version, formPage[p].values, formPage[p].files)
      /\ doubt' = IF HiddenAnswerCounts(p) THEN Doubting("hidden") ELSE doubt
  BY <1>1 DEF Submit, Send, SentRow, Click, Typed, Valid
<1>3. /\ r.form = formPage[p].version /\ r.pc = "sent" /\ r.payload = s
      /\ r.kind \in {"patch", "resubmit"}
  <2>1. formPage[p].version \in Version /\ s \in Answers /\ kind \in {"patch", "submit", "resubmit"}
    BY <1>1, PayloadIsTyped DEF PageRow
  <2>2. kind # "submit"
    OBVIOUS
  <2> HIDE DEF kind, s
  <2>3. /\ r.form = formPage[p].version /\ r.pc = "sent" /\ r.payload = s /\ r.kind = kind
    BY <2>1, SentIsTyped
  <2> QED
    BY <2>1, <2>2, <2>3
<1>4. g.at = formPage[p].at /\ g.version = formPage[p].version /\ g.files = formPage[p].files
  BY <1>1 DEF PageRow
<1> HIDE DEF r, g
<1>5. case.status # "none"
  BY <1>2, NothingBeforeTheCase DEF SoundIInv
<1>6. Certain' => ~HiddenAnswerCounts(p) /\ Certain /\ Sure' = Sure
  BY <1>2, DoubtStays DEF Certain, Sure
<1>7. ASSUME Certain', Sound
      PROVE  /\ Current(g, case.version, files) /\ Aligned(r, case.version)
             /\ Backed(r, case.version, values, files, Sure)
  <2>1. formPage[p].version = case.version /\ formPage[p].files \subseteq files
    BY <1>2, <1>7 DEF Sound, Current
  <2>2. Valid(case.version, s, formPage[p].files) /\ AsAsked(case.version, s)
    BY <1>1, <1>2, <1>6, <1>7, <2>1, PayloadIsValid
  <2> HIDE DEF s
  <2>3. Valid(case.version, s, files)
    BY <2>1, <2>2, MoreFilesAreFine
  <2> QED
    BY <1>3, <1>4, <2>1, <2>2, <2>3 DEF Current, Aligned, Backed
<1> QED
  BY <1>2, <1>5, <1>6, <1>7, RequestMoveIsSound DEF Lane

LEMMA SaveAnsweredIsSound ==
  ASSUME FormAssumption, PageIInv, SoundIInv, NEW p \in FormPage, SaveAnswered(p)
  PROVE  SoundIInv'
<1> DEFINE g == IF request[p]["save"].pc = "ok" THEN ClosedForm ELSE formPage[p]
<1>1. Typed
  BY DEF PageIInv
<1>2. /\ request' = [request EXCEPT ![p]["save"] = NoRequest]
      /\ formPage' = [formPage EXCEPT ![p] = g]
      /\ UNCHANGED <<case, values, files, doubt>>
      /\ request[p]["save"].pc \in {"ok", "failed"}
  BY <1>1 DEF SaveAnswered, Typed
<1>3. Sound => Current(g, case.version, files)
  BY ConstantRowsAreSound DEF Sound
<1> HIDE DEF g
<1>4. case.status # "none"
  <2>1. request[p]["save"] # NoRequest
    BY <1>2 DEF NoRequest
  <2> QED
    BY <2>1, NothingBeforeTheCase DEF SoundIInv, Lane
<1>5. Certain' = Certain /\ Sure' = Sure
  BY <1>2 DEF Certain, Sure
<1> QED
  BY <1>2, <1>3, <1>4, <1>5, RequestMoveIsSound, ConstantRowsAreSound DEF Lane

LEMMA SubmitAnsweredIsSound ==
  ASSUME FormAssumption, PageIInv, SoundIInv, NEW p \in FormPage, SubmitAnswered(p)
  PROVE  SoundIInv'
<1> DEFINE r == request[p]["submit"]
           goesOn == r.pc = "ok" /\ r.kind = "patch"
           next == IF goesOn THEN SentRow("submit", NoAnswers, r.form) ELSE NoRequest
           g == IF goesOn THEN formPage[p]
                ELSE IF r.pc = "ok" \/ formPage[p].at = "closed" THEN ClosedForm
                ELSE [formPage[p] EXCEPT !.status = "editing"]
<1>1. Typed /\ r \in RequestRow
  BY DEF PageIInv, Typed, Lane
<1>2. UNCHANGED <<case, values, files, doubt>> /\ r.pc \in {"ok", "failed"}
  BY DEF SubmitAnswered
<1>3. request' = [request EXCEPT ![p]["submit"] = next] /\ formPage' = [formPage EXCEPT ![p] = g]
  <2>1. CASE goesOn
    BY <1>1, <2>1 DEF SubmitAnswered, Send, SentRow, Typed
  <2>2. CASE ~goesOn
    BY <1>1, <2>2 DEF SubmitAnswered, Typed
  <2> QED
    BY <2>1, <2>2
<1>4. r # NoRequest
  BY <1>2 DEF NoRequest
<1>5. case.status # "none"
  BY <1>4, NothingBeforeTheCase DEF SoundIInv, Lane
<1>6. Certain' = Certain /\ Sure' = Sure
  BY <1>2 DEF Certain, Sure
<1>7. Sound => Current(g, case.version, files)
  BY ConstantRowsAreSound, PageEditsAgain DEF Sound, Current
<1>8. ASSUME Sound
      PROVE  Aligned(next, case.version) /\ Backed(next, case.version, values, files, Sure)
  <2>1. CASE ~goesOn
    BY <2>1, ConstantRowsAreSound
  <2>2. CASE goesOn
    <3>1. Valid(case.version, values, files) /\ AsAsked(case.version, values)
      BY <1>8, <2>2 DEF Sound, Backed
    <3>2. r.form = case.version
      BY <1>4, <1>8 DEF Sound, Aligned, Lane
    <3>3. r.form \in Version
      BY <1>1 DEF RequestRow
    <3>4. next.pc = "sent" /\ next.kind = "submit" /\ next.form = r.form
      BY <2>2, <3>3, NoAnswersTyped, SentIsTyped
    <3> HIDE DEF next
    <3> QED
      BY <3>1, <3>2, <3>4 DEF Aligned, Backed
  <2> QED
    BY <2>1, <2>2
<1> HIDE DEF g, next
<1> QED
  BY <1>2, <1>3, <1>5, <1>6, <1>7, <1>8, RequestMoveIsSound DEF Lane

(* A request is answered, in time or not at all: what has failed, or is    *)
(* through, has nothing left to back, but for the save that comes before a *)
(* submission.                                                             *)
LEMMA FailureIsSound ==
  ASSUME FormAssumption, PageIInv, SoundIInv, NEW p \in FormPage, NEW lane \in Lane,
         request[p][lane].pc \in {"sent", "read", "wrote", "ok"},
         request' = Answered(p, lane, "failed"),
         UNCHANGED <<case, values, files, formPage, doubt>>
  PROVE  SoundIInv'
<1> DEFINE r == request[p][lane]
           a == [NoRequest EXCEPT !.pc = "failed", !.kind = r.kind, !.form = r.form]
<1>1. request' = [request EXCEPT ![p][lane] = a]
  BY DEF Answered
<1>2. a.pc = "failed" /\ a.form = r.form
  BY DEF NoRequest
<1>3. r # NoRequest
  BY DEF NoRequest
<1> HIDE DEF a
<1>4. case.status # "none"
  BY <1>3, NothingBeforeTheCase DEF SoundIInv
<1>5. Sound => Aligned(a, case.version) /\ Backed(a, case.version, values, files, Sure)
  BY <1>2, <1>3, IdleIsBacked DEF Sound, Aligned
<1> QED
  BY <1>1, <1>4, <1>5, RequestAloneIsSound

LEMMA ReadCaseIsSound ==
  ASSUME FormAssumption, PageIInv, SoundIInv, NEW p \in FormPage, NEW lane \in Lane, ReadCase(p, lane)
  PROVE  SoundIInv'
<1> DEFINE r == request[p][lane]
           s == ReadRow(r)
<1>1. Typed /\ r \in RequestRow
  BY DEF PageIInv, Typed
<1>2. /\ r.pc = "sent" /\ UNCHANGED <<published, case, values, files, formPage, formFaults, formClicks, doubt>>
      /\ request' = IF case.status # Required(r.kind) THEN Answered(p, lane, "failed")
                    ELSE [request EXCEPT ![p][lane] = s]
  BY ReadCaseCases
<1>3. CASE case.status # Required(r.kind)
  BY <1>2, <1>3, FailureIsSound
<1>4. CASE case.status = Required(r.kind)
  <2>1. /\ s.pc = "read" /\ s.kind = r.kind /\ s.form = r.form /\ s.payload = r.payload
        /\ s.base = IF r.kind = "resubmit" THEN values ELSE r.base
        /\ s.version = IF r.kind = "submit" THEN published ELSE case.version
    BY <1>1, ReadRowIsTyped
  <2> HIDE DEF s
  <2>2. request' = [request EXCEPT ![p][lane] = s]
    BY <1>2, <1>4
  <2>3. r # NoRequest
    BY <1>2 DEF NoRequest
  <2>4. case.status # "none"
    BY <1>4 DEF Required
  <2>5. Sound => Aligned(s, case.version)
    BY <2>1, <2>3 DEF Sound, Aligned
  <2>6. Sound /\ lane = "submit" => Backed(s, case.version, values, files, Sure)
    BY <1>2, <2>1 DEF Sound, Backed
  <2> QED
    BY <1>2, <2>2, <2>4, <2>5, <2>6, RequestAloneIsSound
<1> QED
  BY <1>3, <1>4

LEMMA UpsertIsSound ==
  ASSUME FormAssumption, PageIInv, SoundIInv, NEW p \in FormPage, NEW lane \in Lane,
         UpsertCaseValues(p, lane)
  PROVE  SoundIInv'
<1> DEFINE r == request[p][lane]
           w == WrittenBy(r)
           s == WroteRow(r)
           hurried == \/ case.status # Required(r.kind)
                      \/ \E q \in FormPage : <<q, lane>> # <<p, "submit">> /\ Submitting(q)
           other == VisibleFields(r.form, w) # VisibleFields(r.form, r.payload)
<1>1. Typed /\ r \in RequestRow /\ OfItsLane(lane, r)
  BY DEF PageIInv, Typed
<1>2. /\ r.pc = "read" /\ r.kind \in {"patch", "resubmit"}
      /\ values' = w /\ request' = [request EXCEPT ![p][lane] = s]
      /\ s.pc = "wrote" /\ s.kind = r.kind /\ s.form = r.form /\ s.version = r.version
      /\ doubt' = IF hurried THEN Doubting("overlap") ELSE IF other THEN Doubting("hidden")
                  ELSE IF w # r.payload THEN Doubting("kept") ELSE doubt
      /\ UNCHANGED <<published, case, files, formPage, formFaults, formClicks>>
  BY UpsertCases
<1>3. r # NoRequest
  BY <1>2 DEF NoRequest
<1>4. case.status # "none"
  BY <1>3, NothingBeforeTheCase DEF SoundIInv
<1>5. Fresh'
  BY <1>2, <1>4, StillACase
<1>6. Certain' => Certain /\ ~hurried /\ ~other /\ (Sure' => Sure /\ w = r.payload)
  <2> HIDE DEF hurried, other, w, s
  <2>1. CASE hurried
    BY <1>2, <2>1, DoubtStays
  <2>2. CASE ~hurried /\ other
    BY <1>2, <2>2, DoubtStays
  <2>3. CASE ~hurried /\ ~other /\ w # r.payload
    BY <1>2, <2>3, KeptIsNotSure
  <2>4. CASE ~hurried /\ ~other /\ w = r.payload
    BY <1>2, <2>4 DEF Certain, Sure
  <2> QED
    BY <2>1, <2>2, <2>3, <2>4
<1>7. r.kind = "patch" => w = r.payload
  BY DEF WrittenBy
<1>8. ASSUME Certain, Certain' PROVE Sound'
  <2>1. Sound /\ ~hurried /\ ~other /\ (Sure' => Sure /\ w = r.payload)
    BY <1>6, <1>8 DEF SoundIInv
  <2>2. /\ case.status = Required(r.kind)
        /\ \A q \in FormPage : q # p \/ lane = "save" => request[q]["submit"] = NoRequest
    BY <2>1 DEF Submitting, Lane
  <2> HIDE DEF hurried, s
  <2>3. /\ request'[p][lane] = s
        /\ \A q \in FormPage, l \in Lane : q # p \/ l # lane => request'[q][l] = request[q][l]
    BY <1>1, <1>2 DEF Typed
  <2>4. r.form = case.version /\ r.version = case.version
    BY <1>2, <1>3, <2>1 DEF Sound, Aligned
  <2>5. \A q \in FormPage, l \in Lane : Aligned(request'[q][l], case.version)
    BY <1>2, <2>1, <2>3, <2>4 DEF Sound, Aligned
  <2>6. ASSUME lane = "submit"
        PROVE  /\ Valid(case.version, w, files)
               /\ r.kind = "resubmit" => Clean(case.version, w)
               /\ r.kind = "patch" \/ Sure' => AsAsked(case.version, w)
    <3>1. /\ Valid(case.version, r.payload, files) /\ AsAsked(case.version, r.payload)
          /\ r.kind = "resubmit" => r.base = values
      BY <1>2, <2>1, <2>6 DEF Sound, Backed
    <3>2. CASE r.kind = "patch"
      BY <1>7, <3>1, <3>2
    <3>3. CASE r.kind = "resubmit"
      <4>1. Clean(case.version, r.base)
        BY <2>1, <2>2, <3>1, <3>3 DEF Sound, Stored, Required
      <4>2. VisibleFields(case.version, w) = VisibleFields(case.version, r.payload)
        BY <2>1, <2>4
      <4>3. Valid(case.version, w, files) /\ Clean(case.version, w)
        BY <1>1, <3>1, <3>3, <4>1, <4>2, OverlayIsValid
      <4> HIDE DEF w
      <4> QED
        BY <2>1, <3>1, <3>3, <4>3
    <3> QED
      BY <1>2, <3>2, <3>3
  <2> HIDE DEF w, other
  <2>7. \A q \in FormPage : Backed(request'[q]["submit"], case.version, w, files, Sure')
    <3>1. ASSUME NEW q \in FormPage, q # p \/ lane = "save"
          PROVE  request'[q]["submit"] = NoRequest
      BY <2>2, <2>3, <3>1 DEF Lane
    <3>2. ASSUME lane = "submit"
          PROVE  Backed(s, case.version, w, files, Sure')
      BY <1>2, <2>6, <3>2 DEF Backed
    <3> QED
      BY <2>3, <3>1, <3>2, ConstantRowsAreSound DEF Lane
  <2>8. Stored(case.status, case.version, w, files, Sure')
    <3>1. CASE case.status = "draft"
      BY <3>1 DEF Stored
    <3>2. CASE case.status # "draft"
      <4>1. r.kind = "resubmit" /\ case.status = "returned"
        BY <1>2, <2>2, <3>2 DEF Required
      <4>2. lane = "submit"
        BY <1>1, <4>1 DEF Lane, OfItsLane
      <4> QED
        BY <2>6, <4>1, <4>2 DEF Stored
    <3> QED
      BY <3>1, <3>2
  <2> QED
    BY <1>2, <2>1, <2>5, <2>7, <2>8 DEF Sound
<1>9. Certain' => Certain
  BY <1>6
<1> QED
  BY <1>5, <1>8, <1>9, SoundFrom

(* A commit makes stale whatever else has been read, and nothing else of   *)
(* the other requests changes.                                             *)
LEMMA CommitIsSound ==
  ASSUME FormAssumption, PageIInv, SoundIInv, NEW p \in FormPage, NEW lane \in Lane, Commit(p, lane)
  PROVE  SoundIInv'
<1> DEFINE r == request[p][lane]
           R == Answered(p, lane, "ok")
           status == IF r.kind = "patch" THEN case.status ELSE "active"
<1>1. Typed /\ r \in RequestRow /\ OfItsLane(lane, r)
  BY DEF PageIInv, Typed
<1>2. /\ UNCHANGED <<published, values, files, formPage, formFaults, formClicks>>
      /\ r.pc = IF r.kind = "submit" THEN "read" ELSE "wrote"
  BY DEF Commit, Written
<1>3. r # NoRequest
  BY <1>2 DEF NoRequest
<1>4. case.status # "none"
  BY <1>3, NothingBeforeTheCase DEF SoundIInv
<1>5. CASE r.stale
  <2>1. request' = Answered(p, lane, "failed") /\ UNCHANGED <<case, doubt>>
    BY <1>5 DEF Commit
  <2> QED
    BY <1>2, <2>1, FailureIsSound
<1>6. CASE ~r.stale
  <2>1. /\ case' = [status |-> status, version |-> r.version]
        /\ request' = Staled(R)
        /\ doubt' = IF r.kind # "patch" /\ r.version # r.form THEN Doubting("republished") ELSE doubt
    BY <1>6 DEF Commit, Succeed
  <2>2. /\ R \in [FormPage -> [Lane -> RequestRow]]
        /\ R[p][lane].pc = "ok" /\ R[p][lane].kind = r.kind /\ R[p][lane].form = r.form
        /\ \A q \in FormPage, l \in Lane : q # p \/ l # lane => R[q][l] = request[q][l]
    BY AnsweredIsTyped
  <2> HIDE DEF R
  <2>3. \A q \in FormPage, l \in Lane : Overtaken(R[q][l], request'[q][l])
    BY <2>1, <2>2, StaledRequests
  <2>4. Fresh'
    BY <1>4, <2>1, StillACase
  <2>5. Certain' => (r.kind # "patch" => r.version = r.form) /\ doubt' = doubt
    BY <2>1, DoubtStays
  <2>6. ASSUME Certain, Certain' PROVE Sound'
    <3>1. Sound /\ Sure' = Sure
      BY <2>5, <2>6 DEF SoundIInv, Sure
    <3>2. r.form = case.version /\ r.version = case.version
      BY <1>1, <1>2, <1>3, <2>5, <2>6, <3>1 DEF Sound, Aligned, RequestRow
    <3>3. case'.version = case.version /\ case'.status = status
      BY <2>1, <3>2
    <3>4. \A q \in FormPage, l \in Lane : Aligned(request'[q][l], case.version)
      <4>1. Aligned(R[p][lane], case.version)
        BY <2>2, <3>2 DEF Aligned
      <4>2. \A q \in FormPage, l \in Lane : Aligned(R[q][l], case.version)
        BY <2>2, <3>1, <4>1 DEF Sound
      <4> QED
        BY <2>3, <4>2, OvertakenIsAligned
    <3>5. \A q \in FormPage : Backed(request'[q]["submit"], case.version, values, files, Sure)
      <4>1. lane = "submit" => Backed(R[p][lane], case.version, values, files, Sure)
        BY <1>2, <2>2, <3>1 DEF Sound, Backed
      <4>2. \A q \in FormPage : Backed(R[q]["submit"], case.version, values, files, Sure)
        BY <2>2, <3>1, <4>1 DEF Sound, Lane
      <4> QED
        BY <2>3, <4>2, BackedStill DEF Lane
    <3>6. Stored(status, case.version, values, files, Sure)
      <4>1. CASE r.kind = "patch"
        BY <3>1, <4>1 DEF Sound
      <4>2. CASE r.kind # "patch"
        <5>1. lane = "submit"
          BY <1>1, <4>2 DEF Lane, OfItsLane
        <5>2. Backed(r, case.version, values, files, Sure)
          BY <3>1, <5>1 DEF Sound
        <5>3. IsAnswers(values)
          BY <1>1, AnswersAreTyped DEF Typed
        <5>4. r.kind \in {"submit", "resubmit"}
          BY <1>1, <4>2 DEF RequestRow
        <5>5. CASE r.kind = "submit"
          <6>1. Valid(case.version, values, files) /\ AsAsked(case.version, values)
            BY <1>2, <5>2, <5>5 DEF Backed
          <6> QED
            BY <5>3, <6>1, ValidIsClean DEF Stored
        <5>6. CASE r.kind = "resubmit"
          BY <1>2, <5>2, <5>6 DEF Backed, Stored
        <5> QED
          BY <5>4, <5>5, <5>6
      <4> QED
        BY <4>1, <4>2
    <3> HIDE DEF status
    <3> QED
      BY <1>2, <3>1, <3>3, <3>4, <3>5, <3>6 DEF Sound
  <2>7. Certain' => Certain
    BY <2>5 DEF Certain
  <2> QED
    BY <2>4, <2>6, <2>7, SoundFrom
<1> QED
  BY <1>5, <1>6

LEMMA LoseIsSound ==
  ASSUME FormAssumption, PageIInv, SoundIInv, NEW p \in FormPage, NEW lane \in Lane, LoseRequest(p, lane)
  PROVE  SoundIInv'
<1>1. /\ request' = Answered(p, lane, "failed") /\ request[p][lane].pc \in {"sent", "ok"}
      /\ UNCHANGED <<case, values, files, formPage, doubt>>
  BY DEF LoseRequest
<1> QED
  BY <1>1, FailureIsSound

LEMMA ReturnCaseIsSound ==
  ASSUME FormAssumption, PageIInv, SoundIInv, ReturnCase
  PROVE  SoundIInv'
<1>1. Typed
  BY DEF PageIInv
<1>2. /\ case.status = "active" /\ case'.status = "returned" /\ case'.version = case.version
      /\ request' = Staled(request) /\ UNCHANGED <<values, files, formPage, doubt>>
  BY <1>1 DEF ReturnCase, Typed, CaseRow
<1>3. \A q \in FormPage, l \in Lane : Overtaken(request[q][l], request'[q][l])
  BY <1>1, <1>2, StaledRequests DEF Typed
<1>4. Fresh'
  BY <1>2, StillACase
<1>5. Certain' = Certain /\ Sure' = Sure
  BY <1>2 DEF Certain, Sure
<1>6. ASSUME Certain PROVE Sound'
  <2>1. Sound
    BY <1>6 DEF SoundIInv
  <2>2. \A q \in FormPage, l \in Lane : Aligned(request'[q][l], case.version)
    BY <1>3, <2>1, OvertakenIsAligned DEF Sound
  <2>3. \A q \in FormPage : Backed(request'[q]["submit"], case.version, values, files, Sure)
    BY <1>3, <2>1, BackedStill DEF Sound, Lane
  <2>4. Stored("returned", case.version, values, files, Sure)
    BY <1>2, <2>1 DEF Sound, Stored
  <2> QED
    BY <1>2, <1>5, <2>1, <2>2, <2>3, <2>4 DEF Sound
<1> QED
  BY <1>4, <1>5, <1>6, SoundFrom

LEMMA SubmissionsStaySound ==
  ASSUME FormAssumption, PageIInv, SoundIInv, [FormNext]_formVars
  PROVE  SoundIInv'
<1>1. ASSUME UNCHANGED <<case, values, files, formPage, request, doubt>> PROVE SoundIInv'
  BY <1>1 DEF SoundIInv, Fresh, Certain, Sound, Sure
<1>2. ASSUME NEW p \in FormPage, PageStep(p) PROVE SoundIInv'
  BY <1>2, OpenIsSound, LeaveIsSound, SaveDraftIsSound, SubmitIsSound, SaveAnsweredIsSound,
     SubmitAnsweredIsSound, SetValueIsSound, AddAttachmentIsSound, RemoveAttachmentIsSound
     DEF PageStep
<1>3. ASSUME NEW p \in FormPage, NEW lane \in Lane, ApiStep(p, lane) \/ LoseRequest(p, lane) PROVE SoundIInv'
  BY <1>3, ReadCaseIsSound, UpsertIsSound, CommitIsSound, LoseIsSound DEF ApiStep
<1>4. CASE ReturnCase
  BY <1>4, ReturnCaseIsSound
<1>5. CASE Publish \/ UNCHANGED formVars
  BY <1>1, <1>5 DEF Publish, formVars
<1> QED
  BY <1>2, <1>3, <1>4, <1>5 DEF FormNext, Lane

(* The inductive invariant of submissions: what is stored is valid and was *)
(* asked for, and what each request is about to write is so as well, or is *)
(* going to be refused, or is counted as a doubt.                          *)
THEOREM SubmissionInvariance ==
  ASSUME FormAssumption
  PROVE  FormSpec => []SoundIInv
<1>1. FormInit => SoundIInv
  BY StartIsSound
<1>2. PageIInv /\ SoundIInv /\ [FormNext]_formVars => SoundIInv'
  BY SubmissionsStaySound
<1> QED
  BY <1>1, <1>2, PageInvariance, PTL DEF FormSpec

(* Whatever the forms, the answers and the pages are, a case under way     *)
(* holds valid answers to all that its pinned form asks, and no others,    *)
(* unless one of the doubts the model counts came between.                 *)
THEOREM SubmittedAnswersAreSound ==
  ASSUME FormAssumption
  PROVE  FormSpec => []SubmissionsAreSound
<1>1. SoundIInv /\ TypeOK => SubmissionsAreSound
  BY DEF SoundIInv, Certain, Sure, Sound, Stored, Valid, AsAsked, SubmissionsAreSound,
         SubmittedAnswersAreValid, NothingHiddenIsStored
<1>2. PageIInv => TypeOK
  BY PagesAreTyped
<1> QED
  BY <1>1, <1>2, PageInvariance, SubmissionInvariance, PTL
=============================================================================
