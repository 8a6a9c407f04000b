--------------------------- MODULE HalvingSchedule ---------------------------
(***************************************************************************)
(* The distribution schedule of x/distro: period n of a schedule releases  *)
(* MaxSupply / 2^n, day by day.                                            *)
(*                                                                         *)
(* A date is a day number.  MonthStart(m) is the first day of month m, so  *)
(* time.AddDate, which adds to the month and then lets days beyond its end *)
(* run over into the next one, is MonthStart(m) + the day of the month.    *)
(*                                                                         *)
(* schedule = [month, dayOfMonth, months, maxSupply]: start date, months   *)
(*            per period and maximal supply.                               *)
(***************************************************************************)
EXTENDS Integers, FiniteSets, FiniteSetsExt, Functions

CONSTANTS MonthStart(_),   \* day number of the first of a month
          MaxMonth,        \* bound: the last month of the calendar
          MaxPeriod,       \* CurrentPeriod gives up after it (1000)
          ShiftWidth,      \* bits of the shifted integer (64)
          MaxSpan          \* days in the longest time.Duration (106751)

ASSUME CalendarAssumption ==
    /\ MaxMonth \in Nat /\ MaxPeriod \in Nat /\ ShiftWidth \in Nat
    /\ MaxSpan \in Nat
    /\ \A m \in 0 .. MaxMonth + 1 : MonthStart(m) \in Nat
    /\ \A m, n \in 0 .. MaxMonth + 1 : m < n => MonthStart(m) < MonthStart(n)

\* The powers of two that the schedule shifts to.
ASSUME PowerAssumption ==
    /\ 2^0 = 1
    /\ \A n \in 0 .. MaxPeriod + ShiftWidth : 2^(n + 1) = 2 * 2^n

StartDate(h) == MonthStart(h.month) + h.dayOfMonth

PeriodStart(h, period) ==
    MonthStart(h.month + (period - 1) * h.months) + h.dayOfMonth

\* A faulty PeriodBounds whose last day is the next period's first.
PeriodEnd_Overlap(h, period) ==
    MonthStart(h.month + period * h.months) + h.dayOfMonth

PeriodEnd(h, period) ==
    MonthStart(h.month + period * h.months) + h.dayOfMonth - 1

\* 1 << period in a uint64; Quo panics when it is zero.
Divisor(period) == 2^period % 2^ShiftWidth

PeriodAllocation(h, period) ==
    IF period = 0 THEN 0 ELSE h.maxSupply \div Divisor(period)

InPeriod(h, period, date) ==
    PeriodStart(h, period) <= date /\ date <= PeriodEnd(h, period)

\* The first period that contains the date; MaxPeriod + 1 if none does.
CurrentPeriod(h, date) ==
    LET found == {p \in 1 .. MaxPeriod : InPeriod(h, p, date)}
    IN  IF found = {} THEN MaxPeriod + 1 ELSE Min(found)

\* time.Time.Sub stops at the longest duration.
DaysBetween(start, end) == Min({end - start, MaxSpan})

\* A faulty daysInRange that counts the days between the two dates.
DaysInRange_Exclusive(start, end) == DaysBetween(start, end)

DaysInRange(start, end) == DaysBetween(start, end) + 1

DaysSinceStart(start, target) == Max({DaysBetween(start, target), 0})

\* The two ways in which TotalDistributableAt has no answer.
BeforeStart(h, date) == date < StartDate(h)
Panics(h, date) == \E p \in 1 .. CurrentPeriod(h, date) : Divisor(p) = 0

\* A faulty TotalDistributableAt in which the current day does not count yet.
TotalDistributableAt_Yesterday(h, date) ==
    LET current == CurrentPeriod(h, date)
        start   == PeriodStart(h, current)
        days    == DaysInRange(start, PeriodEnd(h, current))
        full    == SumFunction([p \in 1 .. current - 1 |-> PeriodAllocation(h, p)])
    IN  IF days <= 0 THEN full
        ELSE full + (PeriodAllocation(h, current) * DaysSinceStart(start, date))
                        \div days

TotalDistributableAt(h, date) ==
    LET current == CurrentPeriod(h, date)
        start   == PeriodStart(h, current)
        days    == DaysInRange(start, PeriodEnd(h, current))
        elapsed == DaysSinceStart(start, date) + 1
        full    == SumFunction([p \in 1 .. current - 1 |-> PeriodAllocation(h, p)])
    IN  IF days <= 0 THEN full
        ELSE full + (PeriodAllocation(h, current) * elapsed) \div days
==============================================================================
