---------------------------- MODULE WorkCalendar ----------------------------
(***************************************************************************)
(* Which days of a project are worked. A date is a day number, and day d   *)
(* falls on weekday d % 7; a calendar is the weekdays worked and the days  *)
(* that are holidays.                                                      *)
(***************************************************************************)
EXTENDS Integers, FiniteSets

CONSTANT MaxScheduleDays   \* how many dates a search or a count looks at

ASSUME ScheduleAssumption == MaxScheduleDays \in Nat \ {0}

IsWorkingDay(day, calendar) ==
    day % 7 \in calendar.workingWeekdays /\ day \notin calendar.holidays

\* The search gives up after MaxScheduleDays steps, on the day it has got to.
NextWorkingDay(day, calendar) ==
    LET found == {d \in day .. day + MaxScheduleDays - 1 : IsWorkingDay(d, calendar)}
    IN  IF found = {} THEN day + MaxScheduleDays
        ELSE CHOOSE d \in found : \A e \in found : d <= e

\* The count-th working day, the first one on or after from being the first.
AddWorkingDays(from, count, calendar) ==
    LET date[n \in 0 .. count] ==
            IF n <= 1 THEN NextWorkingDay(from, calendar)
            ELSE NextWorkingDay(date[n - 1] + 1, calendar)
    IN  IF count <= 0 THEN NextWorkingDay(from, calendar) ELSE date[count]

\* Both ends counted, and no more than MaxScheduleDays dates looked at.
WorkingDaysBetween(from, to, calendar) ==
    Cardinality({d \in from .. to : d < from + MaxScheduleDays /\ IsWorkingDay(d, calendar)})

\* A month is 4.345 weeks.
WorkingDaysInWeeks(thousandths, calendar) ==
    (thousandths * Cardinality(calendar.workingWeekdays)) \div 1000

Unmeasurable == -1
TimelineWorkingDays(timeline, calendar, startDate) ==
    CASE timeline.mode = "WORKING_DAYS" -> timeline.amount
      [] timeline.mode = "WEEKS" -> WorkingDaysInWeeks(1000 * timeline.amount, calendar)
      [] timeline.mode = "MONTHS" -> WorkingDaysInWeeks(4345 * timeline.amount, calendar)
      [] timeline.mode = "FIXED_DEADLINE" ->
           IF startDate = Unmeasurable THEN Unmeasurable
           ELSE WorkingDaysBetween(startDate, timeline.amount, calendar)
=============================================================================
