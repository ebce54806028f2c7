------------------------------ MODULE Calendar ------------------------------
(***************************************************************************)
(* The date arithmetic of klaviyo_analytics/service.py.  A day is its      *)
(* proleptic Gregorian ordinal, as in datetime.date.toordinal; Years       *)
(* bounds the calendar that TLC searches to turn an ordinal into a date.   *)
(***************************************************************************)
EXTENDS Integers

CONSTANT Years

ASSUME YearsAssumption == Years \subseteq Nat \ {0}

Leap(y) == y % 4 = 0 /\ (y % 100 # 0 \/ y % 400 = 0)

MonthDays(y, m) ==
    CASE m \in {4, 6, 9, 11} -> 30
      [] m = 2 -> IF Leap(y) THEN 29 ELSE 28
      [] OTHER -> 31

\* The days of year y before month m.
DaysBeforeMonth(y, m) ==
    LET long == IF m > 2 THEN (IF Leap(y) THEN 1 ELSE 0) ELSE 0
    IN  <<0, 31, 59, 90, 120, 151, 181, 212, 243, 273, 304, 334>>[m] + long

DaysBeforeYear(y) == 365 * (y - 1) + (y - 1) \div 4 - (y - 1) \div 100
                                   + (y - 1) \div 400

Ordinal(y, m, d) == DaysBeforeYear(y) + DaysBeforeMonth(y, m) + d

YearOf(n) == CHOOSE y \in Years : DaysBeforeYear(y) < n /\ n <= DaysBeforeYear(y + 1)

MonthOf(n) ==
    LET y == YearOf(n)
    IN  CHOOSE m \in 1 .. 12 : /\ Ordinal(y, m, 1) <= n
                               /\ n <= Ordinal(y, m, MonthDays(y, m))

DayOf(n) == n - Ordinal(YearOf(n), MonthOf(n), 1) + 1

-----------------------------------------------------------------------------
FirstOfMonth(n) == Ordinal(YearOf(n), MonthOf(n), 1)

\* A weekly bucket spans seven days from its first.
WeekEnd_Short(n) == n + 5
WeekEnd(n) == n + 6

\* _month_end: the day before the first of the next month.
MonthEnd(n) ==
    IF MonthOf(n) = 12 THEN Ordinal(YearOf(n) + 1, 1, 1) - 1
                       ELSE Ordinal(YearOf(n), MonthOf(n) + 1, 1) - 1

\* _one_year_cap: the day before next year's anniversary; an anchor on 29
\* February, which has none, uses 1 March.
OneYearCap_Nominal(n) == n + 365
OneYearCap(n) ==
    IF MonthOf(n) = 2 /\ DayOf(n) = 29
    THEN Ordinal(YearOf(n) + 1, 3, 1) - 1
    ELSE Ordinal(YearOf(n) + 1, MonthOf(n), DayOf(n)) - 1

\* _resolve_preset, a window per name.
Presets == {"today", "yesterday", "last_7_days", "last_30_days", "last_90_days",
            "last_365_days", "this_month", "last_month", "year_to_date"}

Window(from, to) == [start |-> from, end |-> to]

PresetWindow_ThroughToday(name, today) == Window(today - 365, today)
PresetWindow(name, today) ==
    CASE name = "today"         -> Window(today, today)
      [] name = "yesterday"     -> Window(today - 1, today - 1)
      [] name = "last_7_days"   -> Window(today - 7, today - 1)
      [] name = "last_30_days"  -> Window(today - 30, today - 1)
      [] name = "last_90_days"  -> Window(today - 90, today - 1)
      [] name = "last_365_days" -> Window(today - 365, today - 1)
      [] name = "this_month"    -> Window(FirstOfMonth(today), today)
      [] name = "last_month"    -> Window(FirstOfMonth(FirstOfMonth(today) - 1),
                                          FirstOfMonth(today) - 1)
      [] name = "year_to_date"  -> Window(Ordinal(YearOf(today), 1, 1), today)
=============================================================================
