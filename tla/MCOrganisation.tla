---------------------------- MODULE MCOrganisation ----------------------------
(***************************************************************************)
(* The instances that TLC checks of what an organisation administers: its  *)
(* people, its calendar, how they sign in, the queues they work from and   *)
(* the reports on their work.  The five share no state, so each behaviour  *)
(* is about one of them.                                                   *)
(* Groups, invitations and clients (browsers) are interchangeable, and     *)
(* there is nothing temporal to check.                                     *)
(***************************************************************************)
EXTENDS Organisation, WorkingCalendar, SignIn, TaskQueue, Reports, TLC

VARIABLE part  \* what this behaviour is about

vars == <<organisationVars, calendarVars, signInVars, queueVars, reportVars, part>>

MCInit ==
  /\ OrganisationInit /\ CalendarInit /\ SignInInit /\ QueueInit /\ ReportsInit
  /\ part \in {"people", "calendar", "sign-in", "queues", "reports"}
  /\ part # "sign-in" => ~isLocal
  /\ part # "queues" => within = [u \in User |-> {}]

MCNext ==
  \/ /\ part = "people" /\ OrganisationNext
     /\ UNCHANGED <<calendarVars, signInVars, queueVars, reportVars, part>>
  \/ /\ part = "calendar" /\ CalendarNext
     /\ UNCHANGED <<organisationVars, signInVars, queueVars, reportVars, part>>
  \/ /\ part = "sign-in" /\ SignInNext
     /\ UNCHANGED <<organisationVars, calendarVars, queueVars, reportVars, part>>
  \/ /\ part = "queues" /\ QueueNext
     /\ UNCHANGED <<organisationVars, calendarVars, signInVars, reportVars, part>>
  \/ /\ part = "reports" /\ ReportsNext
     /\ UNCHANGED <<organisationVars, calendarVars, signInVars, queueVars, part>>

MCSpec == MCInit /\ [][MCNext]_vars

MCSymmetry == Permutations(Group) \cup Permutations(Client) \cup Permutations(Invitation)

(* Of three tasks at most one is over: a list loses one row by a decision. *)
Bounds == Cardinality({t \in TaskId : ~Open(t)}) <= 1

(* One reader, to whom all others are a row that goes.                     *)
MCSubmitter == [c \in Case |-> CHOOSE u \in User : TRUE]

(* Days of four ticks in weeks of three; every clock but two changes at    *)
(* instant 9, forwards or backwards, in working hours or outside them.     *)
Clock(before, after) == [before |-> before, after |-> after, shift |-> 9]

WeekOf(days, from, to, zone) == [workdays |-> days, start |-> from, end |-> to, zone |-> zone]

MCWeek ==
  {WeekOf({0, 2}, 1, 3, Clock(1, 2)), WeekOf({1}, 1, 3, Clock(2, 1)),
   WeekOf({0, 1}, 0, 2, Clock(-1, 0)), WeekOf({0, 1, 2}, 1, 2, Clock(2, 3)),
   WeekOf({0, 1, 2}, 1, 2, Clock(-1, -2)), WeekOf({1, 2}, 2, 4, Clock(0, 1))}

MCDefault == WeekOf({0, 1}, 1, 3, Clock(0, 0))
(* Four accounts: two with one email, two of one domain, one not verified. *)
Of(email, domain, verified) == [email |-> email, domain |-> domain, verified |-> verified]

MCProfile(a) ==
  [a1 |-> Of("e", "x", TRUE), a2 |-> Of("e", "x", TRUE),
   a3 |-> Of("f", "y", TRUE), a4 |-> Of("g", "x", FALSE)][a]
(* Review, then, through an automatic step, finance.                       *)
MCFirstRuns == {<<"review">>}

MCRuns ==
  [review  |-> [approved |-> {<<"route", "finance">>}, returned |-> {<<"$returnedToRequester">>},
                rejected |-> {<<"$rejected">>}],
   finance |-> [approved |-> {<<"$completed">>}, returned |-> {<<"$returnedToRequester">>}]]
=============================================================================
