---------------------------- MODULE WorkingCalendar ----------------------------
(***************************************************************************)
(* An organisation's working calendar, and the deadlines counted on it:    *)
(* the settings an administrator edits while tasks are being created, and  *)
(* the arithmetic that turns hours of work into an instant.                *)
(* Sources: packages/core/src/engine/calendar.ts and sla.ts,               *)
(* packages/db/src/repositories/working-calendar.ts,                       *)
(* apps/api/src/routes/working-calendar.ts.                                *)
(*                                                                         *)
(* Time is counted in ticks: an instant is a tick of UTC, a wall clock a   *)
(* tick of local time, a day has DayLength of them.                        *)
(***************************************************************************)
EXTENDS Integers, FiniteSets, FiniteSetsExt

CONSTANTS
  DayLength,        \* minutes of a day
  WeekLength,       \* days of a week
  MaxDaysSearched,  \* MAX_DAYS_SEARCHED
  Week,             \* what PUT accepts: [workdays, start, end, zone],
                    \* a zone being [before, after : offsets, shift : instant]
  DefaultWeek,      \* DEFAULT_CALENDAR
  Holiday,          \* days that may be declared a holiday
  Created,          \* instants at which a task may be created
  Duration,         \* durationHours of the steps
  NoDeadline

ASSUME CalendarAssumption ==
  /\ {DayLength, WeekLength, MaxDaysSearched} \subseteq Nat \ {0}
  /\ Created \subseteq Nat /\ Duration \subseteq Nat /\ NoDeadline \notin Int
  /\ \A w \in Week \cup {DefaultWeek} :
       /\ w.workdays \subseteq 0 .. (WeekLength - 1) /\ w.workdays # {}
       /\ {w.start, w.end} \subseteq 0 .. DayLength /\ w.start < w.end
       /\ {w.zone.before, w.zone.after, w.zone.shift} \subseteq Int

VARIABLES
  configured,  \* organisation_calendars: the row's week, or DefaultWeek
  hasRow,      \* whether there is such a row
  holidays,    \* organisation_holidays
  task         \* the task created last: the calendar and start it was
               \* given, and the deadline persisted with it

calendarVars == <<configured, hasRow, holidays, task>>

NoTask == [there |-> FALSE]

----------------------------------------------------------------------------
(* Clocks.                                                                 *)

Offset(zone, instant) == IF instant < zone.shift THEN zone.before ELSE zone.after

ToWallClock(instant, zone) == instant + Offset(zone, instant)

(* Guess that the wall clock is UTC, and correct by the drift, twice.      *)
Correct(instant, wall, zone) == instant + (wall - ToWallClock(instant, zone))

(* A slip the runs must catch: corrected once only.                        *)
ToInstantOnce(wall, zone) == Correct(wall, wall, zone)

ToInstant(wall, zone) == Correct(Correct(wall, wall, zone), wall, zone)

Day(wall) == wall \div DayLength
MinuteOfDay(wall) == wall % DayLength

IsWorkingDay(day, calendar) ==
  day % WeekLength \in calendar.workdays /\ day \notin calendar.holidays

WorkingTime(wall, calendar) ==
  /\ IsWorkingDay(Day(wall), calendar)
  /\ calendar.start <= MinuteOfDay(wall) /\ MinuteOfDay(wall) < calendar.end

(* The first working minute at or after this wall clock.                   *)
AdvanceToWorkingTime(wall, calendar) ==
  LET fits(d) == /\ IsWorkingDay(Day(wall) + d, calendar)
                 /\ d = 0 => MinuteOfDay(wall) < calendar.end
      within == {d \in 0 .. MaxDaysSearched : fits(d)}
      found == Min(within)
  IN  IF within = {} THEN NoDeadline
      ELSE IF found = 0 /\ MinuteOfDay(wall) >= calendar.start THEN wall
      ELSE (Day(wall) + found) * DayLength + calendar.start

(* Day after day, until what remains fits into the day.                    *)
LeftToday(cursor, calendar) == calendar.end - MinuteOfDay(cursor)

Fits(at, calendar) == at.remaining <= LeftToday(at.cursor, calendar)

WorkOneDay(at, calendar) ==
  IF at.cursor = NoDeadline \/ Fits(at, calendar) THEN at
  ELSE [cursor    |-> AdvanceToWorkingTime((Day(at.cursor) + 1) * DayLength, calendar),
        remaining |-> at.remaining - LeftToday(at.cursor, calendar)]

Consume(cursor, remaining, calendar) ==
  LET after[days \in 0 .. MaxDaysSearched] ==
        IF days = 0 THEN [cursor |-> cursor, remaining |-> remaining]
        ELSE WorkOneDay(after[days - 1], calendar)
      at == after[MaxDaysSearched]
  IN  IF at.cursor # NoDeadline /\ Fits(at, calendar) THEN at.cursor + at.remaining
      ELSE NoDeadline

AddWorkingHours(start, duration, calendar) ==
  LET cursor == AdvanceToWorkingTime(ToWallClock(start, calendar.zone), calendar) IN
  IF cursor = NoDeadline THEN NoDeadline
  ELSE LET due == Consume(cursor, duration, calendar) IN
       IF due = NoDeadline THEN due ELSE ToInstant(due, calendar.zone)

(* businessHoursOnly: false counts whole hours.                            *)
ComputeDueAt(business, start, duration, calendar) ==
  IF business THEN AddWorkingHours(start, duration, calendar) ELSE start + duration

----------------------------------------------------------------------------
(* Settings and tasks.                                                     *)

WithHolidays(week, days) ==
  [workdays |-> week.workdays, start |-> week.start, end |-> week.end,
   zone |-> week.zone, holidays |-> days]

(* The holidays apply to the default week as well.                         *)
ResolveWorkingCalendar == WithHolidays(configured, holidays)

CalendarInit ==
  /\ configured = DefaultWeek /\ hasRow = FALSE
  /\ holidays = {} /\ task = NoTask

UpsertOrganisationCalendar(week) ==
  /\ configured' = week /\ hasRow' = TRUE
  /\ UNCHANGED <<holidays, task>>

AddHoliday(day) ==
  /\ holidays' = holidays \cup {day}
  /\ UNCHANGED <<configured, hasRow, task>>

RemoveHoliday(day) ==
  /\ day \in holidays
  /\ holidays' = holidays \ {day}
  /\ UNCHANGED <<configured, hasRow, task>>

(* persistEngineOutput stores what the engine computed; nothing recomputes *)
(* it.                                                                     *)
CreateTask(business, start, duration) ==
  LET calendar == ResolveWorkingCalendar IN
  /\ task' = [there |-> TRUE, business |-> business, start |-> start, duration |-> duration,
              calendar |-> calendar, holidays |-> holidays,
              dueAt |-> ComputeDueAt(business, start, duration, calendar)]
  /\ UNCHANGED <<configured, hasRow, holidays>>

CalendarNext ==
  \/ \E week \in Week : UpsertOrganisationCalendar(week)
  \/ \E day \in Holiday : AddHoliday(day) \/ RemoveHoliday(day)
  \/ \E business \in BOOLEAN, s \in Created, d \in Duration :
       CreateTask(business, s, d)

CalendarSpec == CalendarInit /\ [][CalendarNext]_calendarVars

----------------------------------------------------------------------------
(* The reference: minutes counted one by one on the clock of UTC.          *)

WorkedBetween(start, end, calendar) ==
  Cardinality({i \in start .. (end - 1) : WorkingTime(ToWallClock(i, calendar.zone), calendar)})

(* The wall clocks a zone skips or repeats when it shifts.                 *)
Irregular(zone) ==
  LET a == zone.shift + zone.before  b == zone.shift + zone.after IN
  IF a <= b THEN a .. (b - 1) ELSE b .. (a - 1)

(* Clocks are put forward and back outside working hours, and not as they  *)
(* end.                                                                    *)
ShiftsAtRest(calendar) ==
  \A wall \in Irregular(calendar.zone) :
    ~WorkingTime(wall, calendar) /\ ~WorkingTime(wall - 1, calendar)

(* A deadline in working hours is the instant at which exactly that much   *)
(* working time has passed, and the first one: whatever the weekends, the  *)
(* zone and the day its clocks change, and with every holiday declared     *)
(* before the task was created, for a week of one's own and without.       *)
DeadlineIsTheLastWorkingMinute ==
  task.there /\ task.business /\ task.dueAt # NoDeadline /\ ShiftsAtRest(task.calendar) =>
    LET due == task.dueAt  calendar == [task.calendar EXCEPT !.holidays = task.holidays] IN
    /\ WorkedBetween(task.start, due, calendar) = task.duration
    /\ IF task.duration = 0
         THEN WorkingTime(ToWallClock(due, calendar.zone), calendar)
         ELSE WorkedBetween(task.start, due - 1, calendar) = task.duration - 1
=============================================================================
