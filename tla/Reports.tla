-------------------------------- MODULE Reports --------------------------------
(***************************************************************************)
(* The reports: what the aggregate queries make of the rows that           *)
(* submissions, decisions, returns, escalations and cancellations leave in *)
(* cases, case_transitions and case_tasks.  Which step follows which is    *)
(* the definition's business (WorkflowEngine); here it is any of what a    *)
(* constant lists, and what counts is the rows each transaction writes and *)
(* the instant they bear.                                                  *)
(* Sources: packages/db/src/repositories/reports.ts,                       *)
(* apps/api/src/routes/reports.ts, apps/api/src/cases/persist-engine-      *)
(* output.ts and packages/db/src/repositories/case-transitions.ts.         *)
(***************************************************************************)
EXTENDS Integers, SequencesExt

CONSTANTS
  Filing,         \* cases
  Approver,       \* who decides
  Requester,      \* who asked
  Runs,           \* what the engine passes when a decision is made at a step
  FirstRuns,      \* and when a case is submitted: automatic steps, then
                  \* where it comes to rest
  Bucket,         \* lengths of a day, a week and a month
  SuppressBelow,  \* groups smaller than this are not reported
  MaxInstant,     \* bound: transactions
  MaxRaised       \* bound: escalation levels a step has

Closing  == {"$completed", "$rejected", "$cancelled"}
Returned == "$returnedToRequester"
NoWhere  == "null"
Outcome  == {"approved", "rejected", "returned", "completed"}

AllRuns == FirstRuns \cup UNION {UNION Range(Runs[k]) : k \in DOMAIN Runs}

ASSUME ReportsAssumption ==
  /\ IsFiniteSet(Filing)
  /\ Bucket \subseteq Nat \ {0} /\ SuppressBelow \in Nat
  /\ MaxInstant \in Nat \ {0} /\ MaxRaised \in Nat
  /\ DOMAIN Runs \cap (Closing \cup {Returned, NoWhere}) = {}
  /\ \A k \in DOMAIN Runs : DOMAIN Runs[k] \subseteq Outcome \ {"completed"}
  /\ \A run \in AllRuns :
       /\ run \in Seq(Range(run)) /\ run # <<>>
       /\ Last(run) \in DOMAIN Runs \cup Closing \cup {Returned}

VARIABLES
  filing,   \* cases: status, current step, submitted_at, completed_at
  trail,    \* case_transitions, in the order a query sorts them
  work,     \* case_tasks
  instant   \* now() of the next transaction

reportVars == <<filing, trail, work, instant>>

Never == 0

ReportsInit ==
  /\ filing = [c \in Filing |-> [status |-> "draft", step |-> NoWhere,
                                 submitted |-> Never, completed |-> Never]]
  /\ trail = [c \in Filing |-> <<>>] /\ work = [c \in Filing |-> <<>>]
  /\ instant = 1

----------------------------------------------------------------------------
(* What a transaction writes.                                              *)

(* occurred_at is the now() of the transaction, the same for every row of  *)
(* it: ORDER BY occurred_at may put them in any order.                     *)
Ordered(run) ==
  {order \in [DOMAIN run -> Range(run)] : Range(order) = Range(run)}

Timed(keys) == [i \in DOMAIN keys |-> [to |-> keys[i], at |-> instant]]

NewWork(k, level) ==
  [step |-> k, status |-> "open", decision |-> NoWhere, level |-> level,
   by |-> NoWhere, created |-> instant, completed |-> Never]

Decided(w, outcome, by) ==
  [w EXCEPT !.status = "completed", !.decision = outcome, !.by = by, !.completed = instant]

CancelOpenWork(ws) ==
  [i \in DOMAIN ws |-> IF ws[i].status = "open" THEN [ws[i] EXCEPT !.status = "cancelled"] ELSE ws[i]]

StatusAt(k, found) ==
  CASE k = "$completed" -> "completed"
    [] k = "$rejected"  -> "rejected"
    [] k = "$cancelled" -> "cancelled"
    [] k = Returned     -> "active"
    [] OTHER            -> IF found THEN "active" ELSE "unassigned"

(* completed_at is set with every status that is terminal.                 *)
Stamp(row, k) == IF k \in Closing THEN [row EXCEPT !.completed = instant] ELSE row

(* persistEngineOutput: the case row, the open tasks of a case that ends,  *)
(* the task of a step somebody was found for, a transition for each step   *)
(* passed.  run is never empty; its last key is where the case now is.     *)
Persist(c, row, ws, run, found) ==
  LET k == Last(run) IN
  /\ instant < MaxInstant /\ instant' = instant + 1
  /\ \E order \in Ordered(run) : trail' = [trail EXCEPT ![c] = @ \o Timed(order)]
  /\ filing' = [filing EXCEPT ![c] =
       [Stamp(row, k) EXCEPT !.status = StatusAt(k, found),
                             !.step = IF k \in Closing \cup {Returned} THEN NoWhere ELSE k]]
  /\ work' = [work EXCEPT ![c] =
       IF k \in Closing THEN CancelOpenWork(ws)
       ELSE IF found \/ k = Returned THEN Append(ws, NewWork(k, 0)) ELSE ws]

SubmitFiling(c) ==
  /\ filing[c].status = "draft"
  /\ \E run \in FirstRuns, found \in BOOLEAN :
       Persist(c, [filing[c] EXCEPT !.submitted = instant], work[c], run, found)

(* A decision at the step the case is at; no rule may match it, which      *)
(* records the step once more.                                             *)
DecideWork(c, i, by) ==
  LET w == work[c][i] IN
  /\ w.status = "open" /\ w.step = filing[c].step
  /\ \E outcome \in DOMAIN Runs[w.step] :
       LET ws == [work[c] EXCEPT ![i] = Decided(w, outcome, by)] IN
       \/ \E run \in Runs[w.step][outcome], found \in BOOLEAN :
            Persist(c, filing[c], ws, run, found)
       \/ Persist(c, filing[c], ws, <<w.step>>, FALSE)

(* completeReturnedTask, then from the start.                              *)
ResubmitFiling(c) ==
  /\ filing[c].status = "active" /\ filing[c].step = NoWhere
  /\ \E run \in FirstRuns, found \in BOOLEAN :
       Persist(c, filing[c],
               [i \in DOMAIN work[c] |->
                  IF work[c][i].status = "open" /\ work[c][i].step = Returned
                  THEN Decided(work[c][i], "completed", Requester) ELSE work[c][i]],
               run, found)

CancelFiling(c) ==
  /\ filing[c].status \in {"draft", "active", "unassigned"}
  /\ Persist(c, filing[c], work[c], <<"$cancelled">>, FALSE)

(* The task stays open at a raised level beside the new one, or there is   *)
(* no level left; the transition leads to the step the case is at.         *)
EscalateWork(c, i) ==
  LET w == work[c][i] IN
  /\ w.status = "open" /\ w.step = filing[c].step /\ filing[c].status = "active"
  /\ IF w.level < MaxRaised
     THEN /\ instant < MaxInstant /\ instant' = instant + 1
          /\ trail' = [trail EXCEPT ![c] = @ \o Timed(<<w.step>>)]
          /\ work' = [work EXCEPT ![c] =
               Append([@ EXCEPT ![i].level = w.level + 1], NewWork(w.step, w.level + 1))]
          /\ UNCHANGED filing
     ELSE Persist(c, filing[c], work[c], <<w.step>>, FALSE)

ReportsNext ==
  \E c \in Filing :
    \/ SubmitFiling(c) \/ ResubmitFiling(c) \/ CancelFiling(c)
    \/ \E i \in DOMAIN work[c] :
         EscalateWork(c, i) \/ \E by \in Approver : DecideWork(c, i, by)

ReportsSpec == ReportsInit /\ [][ReportsNext]_reportVars

----------------------------------------------------------------------------
(* The queries, over the cases submitted from one instant on and before    *)
(* another.                                                                *)

InPeriod(from, to) ==
  {c \in Filing : filing[c].submitted # Never
                    /\ from <= filing[c].submitted /\ filing[c].submitted < to}

(* Grouped into periods of a length, which the caller of the API chooses.  *)
FindVolume(from, to, length) ==
  [p \in 0 .. MaxInstant \div length |->
     {c \in InPeriod(from, to) : filing[c].submitted \div length = p}]

FindTurnaround(from, to) ==
  LET cs == InPeriod(from, to) IN
  [completed |-> {c \in cs : filing[c].status = "completed"},
   rejected  |-> {c \in cs : filing[c].status = "rejected"},
   cancelled |-> {c \in cs : filing[c].status = "cancelled"},
   hours     |-> [c \in {d \in cs : filing[d].completed # Never} |->
                    filing[c].completed - filing[c].submitted]]

(* lead(occurred_at) within the case; the last transition has none.        *)
LeadToSameStep(c, i) ==
  {j \in DOMAIN trail[c] : i < j /\ trail[c][j].to = trail[c][i].to}

Lead(c, i) == {j \in DOMAIN trail[c] : i < j}

Visits(c) == {i \in DOMAIN trail[c] : Lead(c, i) # {}}

VisitTime(c, i) == trail[c][Min(Lead(c, i))].at - trail[c][i].at

(* The join puts every visit of a step beside every task of that step in   *)
(* the case, for the sake of its name.                                     *)
StepSamples(k, from, to) ==
  UNION {{<<c, i, t>> : i \in {j \in Visits(c) : trail[c][j].to = k},
                        t \in {u \in DOMAIN work[c] : work[c][u].step = k}} :
           c \in InPeriod(from, to)}

StepsNamed == DOMAIN Runs \cup {Returned}

Reported(groups) == {k \in DOMAIN groups : Cardinality(groups[k]) >= SuppressBelow}

FindStepDurations(from, to) ==
  Reported([k \in StepsNamed |-> StepSamples(k, from, to)])

Rows(from, to) == UNION {{<<c, i>> : i \in DOMAIN work[c]} : c \in InPeriod(from, to)}

FindRejectionCounts(from, to) ==
  Reported([k \in StepsNamed |->
    {r \in Rows(from, to) : /\ work[r[1]][r[2]].step = k
                            /\ work[r[1]][r[2]].decision = "rejected"}])

(* Of cases, not tasks; by what was decided, wherever the rule then led.   *)
FindRates(from, to) ==
  LET Somewhere(Is(_)) == {c \in InPeriod(from, to) : \E i \in DOMAIN work[c] : Is(work[c][i])} IN
  [escalated |-> Somewhere(LAMBDA w : w.level > 0),
   returned  |-> Somewhere(LAMBDA w : w.decision = "returned")]

(* By when the task was completed, whenever its case was submitted.        *)
Handled(who, from, to) ==
  {r \in UNION {{<<c, i>> : i \in DOMAIN work[c]} : c \in Filing} :
     LET w == work[r[1]][r[2]] IN
     w.status = "completed" /\ w.by = who /\ from <= w.completed /\ w.completed < to}

(* The report of one definition: its volume is of the cases that ended.    *)
DefinitionReport(from, to) ==
  LET t == FindTurnaround(from, to) IN
  [volume |-> t.completed \cup t.rejected \cup t.cancelled, rejected |-> t.rejected,
   cancelled |-> t.cancelled, rates |-> FindRates(from, to), steps |-> FindStepDurations(from, to),
   rejections |-> FindRejectionCounts(from, to)]

----------------------------------------------------------------------------

(* Rows are of their kinds, and have their times when they should.         *)
ReportsTypeOK ==
  /\ instant \in 1 .. MaxInstant
  /\ \A c \in Filing :
       /\ filing[c].status \in {"draft", "active", "unassigned", "completed", "rejected", "cancelled"}
       /\ filing[c].submitted \in 0 .. instant /\ filing[c].completed \in 0 .. instant
       /\ \A i \in DOMAIN work[c] : work[c][i].level \in 0 .. MaxRaised

(* Up to now; nothing bears a later instant.                               *)
Periods == {p \in (0 .. instant) \X (0 .. instant) : p[1] < p[2]}

(* The bottleneck view and the turnaround agree: the times a case spent at *)
(* its steps, with its requester and in between add up to the time from    *)
(* its submission to its end, in whatever order the transitions of one     *)
(* transaction are sorted.                                                 *)
SumUpTo(ns, k) ==
  LET upTo[n \in 0 .. k] == IF n = 0 THEN 0 ELSE upTo[n - 1] + ns[n] IN upTo[k]

TimeAtSteps(c) ==
  SumUpTo([i \in DOMAIN trail[c] |-> IF i \in Visits(c) THEN VisitTime(c, i) ELSE 0],
          Len(trail[c]))

TimesAddUp ==
  \A c \in Filing : filing[c].submitted # Never /\ filing[c].completed # Never =>
    TimeAtSteps(c) = filing[c].completed - filing[c].submitted

(* The turnaround is over every case that was submitted in the period and  *)
(* has ended, however it ended, and over no other; those and the cases     *)
(* still open are the volume.                                              *)
TurnaroundCoversTheEnded ==
  \A p \in Periods :
    LET t     == FindTurnaround(p[1], p[2])
        ended == t.completed \cup t.rejected \cup t.cancelled IN
    /\ DOMAIN t.hours = ended
    /\ \A l \in Bucket :
         UNION Range(FindVolume(p[1], p[2], l)) =
           ended \cup {c \in InPeriod(p[1], p[2]) : filing[c].status \in {"active", "unassigned"}}

(* Where no case came to a step twice, nor to two tasks of it, the samples *)
(* of the step are its visits, and a step that is reported was visited as  *)
(* often as the rule against small groups wants.                           *)
Plain(c, k) ==
  /\ Cardinality({i \in DOMAIN trail[c] : trail[c][i].to = k}) <= 1
  /\ Cardinality({i \in DOMAIN work[c] : work[c][i].step = k}) <= 1

PlainVisitsAreSampledOnce ==
  \A p \in Periods : \A k \in FindStepDurations(p[1], p[2]) :
    (\A c \in InPeriod(p[1], p[2]) : Plain(c, k)) =>
      /\ Cardinality(StepSamples(k, p[1], p[2])) =
           Cardinality({c \in InPeriod(p[1], p[2]) : \E i \in Visits(c) :
                          trail[c][i].to = k /\ \E t \in DOMAIN work[c] : work[c][t].step = k})
      /\ \A s \in StepSamples(k, p[1], p[2]) : VisitTime(s[1], s[2]) >= 0

(* What one part of a definition's report counts the others account for:   *)
(* where only a return leads back to the requester, every case that waits  *)
(* there is in the return rate; where only a rejection rejects, every      *)
(* rejected case is behind a reason, which is withheld only of few; and    *)
(* whoever ended a case has the task in the load of the period it ended.   *)
OnlyBy(outcome, k) ==
  /\ \A run \in FirstRuns : Last(run) # k
  /\ \A s \in DOMAIN Runs : \A o \in DOMAIN Runs[s] \ {outcome} :
       \A run \in Runs[s][o] : Last(run) # k

PartsAgree ==
  \A p \in Periods :
    LET r == DefinitionReport(p[1], p[2])
        reasons(c) == {i \in DOMAIN work[c] : work[c][i].decision = "rejected"} IN
    /\ OnlyBy("returned", Returned) =>
         {c \in InPeriod(p[1], p[2]) : filing[c].status = "active" /\ filing[c].step = NoWhere}
           \subseteq r.rates.returned
    /\ OnlyBy("rejected", "$rejected") =>
         \A c \in r.rejected :
           \E i \in reasons(c) :
             \/ work[c][i].step \in r.rejections
             \/ Cardinality({d \in r.rejected : \E j \in reasons(d) : work[d][j].step = work[c][i].step})
                  < SuppressBelow
    /\ (\A run \in FirstRuns : Last(run) \notin Closing) =>
         \A c \in r.volume \ r.cancelled :
           \E who \in Approver :
             \E h \in Handled(who, filing[c].completed, filing[c].completed + 1) : h[1] = c

(* What the report pages show is coherent with the rows it is made of.     *)
ReportsInv ==
  /\ ReportsTypeOK /\ TimesAddUp /\ TurnaroundCoversTheEnded /\ PlainVisitsAreSampledOnce
  /\ PartsAgree
=============================================================================
