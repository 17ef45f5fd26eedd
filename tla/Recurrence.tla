----------------------------- MODULE Recurrence -----------------------------
(***************************************************************************)
(* next_occurrence of src/app/routers/schedules.py: the date a maintenance *)
(* schedule is rolled forward to.  A behaviour is one schedule whose date  *)
(* is rolled again and again, as each generated job does.                  *)
(***************************************************************************)
EXTENDS Integers, Sequences, FiniteSets

CONSTANTS
    Recurrences,   \* the recurrence columns a schedule may have
    FirstDates,    \* dates a schedule may first be due
    LastYear       \* bound: dates rolled to

RecurrenceTypes ==
    {"daily", "weekly", "biweekly", "monthly", "quarterly", "yearly", "custom"}
CalendarDate == [year : Nat, month : 1 .. 12, day : 1 .. 31]

ASSUME RecurrenceAssumption ==
    \A s \in Recurrences :
        /\ s.type \in RecurrenceTypes /\ s.dom \in Nat
        /\ s.months \in Seq(0 .. 11)       \* counted from 0, as the page does
        /\ s.dates \subseteq CalendarDate
ASSUME FirstDateAssumption == FirstDates \subseteq CalendarDate

VARIABLES schedule, due

recurrence_vars == <<schedule, due>>

-----------------------------------------------------------------------------
(* datetime.date *)

IsLeap(year) == year % 4 = 0 /\ (year % 100 # 0 \/ year % 400 = 0)
DaysIn(year, month) ==
    CASE month = 2 -> IF IsLeap(year) THEN 29 ELSE 28
      [] month \in {4, 6, 9, 11} -> 30
      [] OTHER -> 31

OnDay(year, month, day) == [year |-> year, month |-> month, day |-> day]

Before(a, b) ==
    \/ a.year < b.year
    \/ a.year = b.year /\ a.month < b.month
    \/ a.year = b.year /\ a.month = b.month /\ a.day < b.day

\* frm + timedelta(days=n), for less than a month.
PlusDays(frm, n) ==
    LET rest == DaysIn(frm.year, frm.month) - frm.day IN
    IF n <= rest THEN [frm EXCEPT !.day = @ + n]
    ELSE IF frm.month = 12 THEN OnDay(frm.year + 1, 1, n - rest)
    ELSE OnDay(frm.year, frm.month + 1, n - rest)

FarFutureDate == OnDay(9999, 1, 1)

-----------------------------------------------------------------------------
(* next_occurrence *)

\* A mutant: the day is not pulled back.
clamp_nothing(year, month, dom) ==
    IF month > 12 THEN OnDay(year + 1, month - 12, dom) ELSE OnDay(year, month, dom)

\* The day is pulled back to the last of the month; month 13 is next January.
_clamp_dom(year, month, dom) ==
    LET y == IF month > 12 THEN year + 1 ELSE year
        m == IF month > 12 THEN month - 12 ELSE month
    IN OnDay(y, m, IF dom <= DaysIn(y, m) THEN dom ELSE DaysIn(y, m))

\* recurrence_dom, where 0 and NULL are the first.
DayOfMonth(s) == IF s.dom = 0 THEN 1 ELSE s.dom

\* recurrence_months, where an empty list stands for a default.
QuarterMonths(s) ==
    IF s.months = <<>> THEN {0, 3, 6, 9} ELSE {s.months[i] : i \in DOMAIN s.months}
YearMonth(s) == IF s.months = <<>> THEN 0 ELSE s.months[1]

Least(S) == CHOOSE x \in S : \A y \in S : x <= y

\* The first listed month after this one, or the first of next year's.
NextQuarter(s, frm) ==
    LET later == {m \in QuarterMonths(s) : m > frm.month - 1} IN
    IF later # {} THEN _clamp_dom(frm.year, Least(later) + 1, DayOfMonth(s))
    ELSE _clamp_dom(frm.year + 1, Least(QuarterMonths(s)) + 1, DayOfMonth(s))

NextSpecific(s, frm) ==
    LET future == {d \in s.dates : Before(frm, d)} IN
    IF future = {} THEN FarFutureDate
    ELSE CHOOSE d \in future : \A e \in future : ~Before(e, d)

next_occurrence(s, frm) ==
    CASE s.type = "daily" -> PlusDays(frm, 1)
      [] s.type = "weekly" -> PlusDays(frm, 7)
      [] s.type = "biweekly" -> PlusDays(frm, 14)
      [] s.type = "monthly" -> _clamp_dom(frm.year, frm.month + 1, DayOfMonth(s))
      [] s.type = "quarterly" -> NextQuarter(s, frm)
      [] s.type = "yearly" -> _clamp_dom(frm.year + 1, YearMonth(s) + 1, DayOfMonth(s))
      [] s.type = "custom" -> NextSpecific(s, frm)

-----------------------------------------------------------------------------
RecurrenceInit ==
    /\ schedule \in Recurrences
    /\ due \in FirstDates

\* _generate_one rolls the schedule from its due date.
RollForward ==
    /\ due.year < LastYear
    /\ due' = next_occurrence(schedule, due)
    /\ UNCHANGED schedule

RecurrenceSpec == RecurrenceInit /\ [][RollForward]_recurrence_vars

-----------------------------------------------------------------------------
(* What the recurrence columns describe, said without rolling anything *)

InMonth(s, month) ==
    CASE s.type = "monthly" -> TRUE
      [] s.type = "quarterly" -> month - 1 \in QuarterMonths(s)
      [] s.type = "yearly" -> month - 1 = YearMonth(s)
      [] OTHER -> FALSE

\* The day asked for, or the last of a month too short for it.
OnItsDay(s, d) ==
    \/ d.day = DayOfMonth(s)
    \/ d.day = DaysIn(d.year, d.month) /\ d.day < DayOfMonth(s)

Describes(s, d) == (InMonth(s, d.month) /\ OnItsDay(s, d)) \/ (s.type = "custom" /\ d \in s.dates)

IsDate(d) == d.month \in 1 .. 12 /\ d.day \in 1 .. DaysIn(d.year, d.month)

\* "The next due date strictly after frm" of a recurrence by month or by list:
\* every roll lands on a real date the columns describe, later than the one
\* before; from a date they describe it passes none of them over, so "a
\* 31st-of-the-month schedule must still fire in February".
RollsToTheNextDate ==
    [][/\ IsDate(due') /\ Before(due, due')
       /\ schedule.type \in {"monthly", "quarterly", "yearly"} => Describes(schedule, due')
       /\ Describes(schedule, due) =>
             ~ \E y \in due.year .. due.year + 1, m \in 1 .. 12 : \E day \in 1 .. DaysIn(y, m) :
                   LET d == OnDay(y, m, day) IN
                   Describes(schedule, d) /\ Before(due, d) /\ Before(d, due')
      ]_recurrence_vars
=============================================================================
