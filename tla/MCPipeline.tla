----------------------------- MODULE MCPipeline -----------------------------
(***************************************************************************)
(* Pipeline over the Gregorian calendar around the leap year 2024: presets *)
(* on the days where months, years and leap days begin and end; periods    *)
(* that begin on every day near such a boundary, with the lengths at which *)
(* the number of windows changes, up to the overall cap and past it.       *)
(***************************************************************************)
EXTENDS Pipeline, FiniteSets

Day(y, m, d) == Ordinal(y, m, d)

CalendarYears == 2015 .. 2031

BoundaryDays ==
    {Day(2024, 2, 28), Day(2024, 2, 29), Day(2024, 3, 1), Day(2024, 12, 31),
     Day(2025, 1, 1), Day(2025, 2, 28), Day(2025, 3, 1), Day(2025, 3, 31)}

Begins == (Day(2023, 2, 27) .. Day(2023, 3, 2)) \cup (Day(2023, 12, 30) .. Day(2024, 1, 2))
          \cup (Day(2024, 2, 27) .. Day(2024, 3, 2)) \cup {Day(2024, 7, 15)}

\* _MAX_TOTAL_PERIOD_DAYS is 366 * 5.
Spans == {-1, 0, 1, 6, 7, 27, 31, 363, 364, 365, 366, 729, 730, 731, 1094, 1095, 1460,
          1461, 1825, 1826, 1829, 1830, 1831}

Dashed(n) == [form |-> "dashed", day |-> n]
Compact(n) == [form |-> "compact", day |-> n]

\* Explicit baselines: a year apart, adjacent, backwards, and malformed ones.
Baselines == {Dashed(Day(2022, 12, 31)), Dashed(Day(2024, 1, 1)), EmptyDate, NoDate, JunkDate}

Ask(today, timeframe, from, to) ==
    [today |-> today, timeframe |-> timeframe, start |-> from, end |-> to]

PresetAsks ==
    {Ask(n, name, d, NoDate) : n \in BoundaryDays, d \in {NoDate, Dashed(Day(2023, 3, 1))},
                               name \in Presets \cup {"last_14_days"}}

DateAsks ==
    {Ask(Day(2025, 3, 1), NoTimeframe, Dashed(b), Dashed(b + n)) : b \in Begins, n \in Spans}
    \cup {Ask(Day(2025, 3, 1), NoTimeframe, d, e) : d, e \in Baselines}

AllAsks == PresetAsks \cup DateAsks

\* One date in each of the two forms that date.fromisoformat accepts.
MixedAsks ==
    {Ask(Day(2025, 3, 1), NoTimeframe, d, e) :
        d, e \in {Dashed(Day(2021, 12, 31)), Compact(Day(2021, 1, 1)), Dashed(Day(2020, 12, 30))}}

AllKinds == {"year", "daily", "weekly", "monthly"}

DayRange == Day(2015, 1, 1) .. Day(2029, 12, 31)

CalendarCap ==
    [year |-> [n \in DayRange |-> LastDay("year", n)],
     daily |-> [n \in DayRange |-> LastDay("daily", n)],
     weekly |-> [n \in DayRange |-> LastDay("weekly", n)],
     monthly |-> [n \in DayRange |-> LastDay("monthly", n)]]

\* What Windows is asked to cut: the periods accepted and their baselines.
Accepted == {w \in {Window(b, b + n) : b \in Begins, n \in Spans}
                   \cup {PresetWindow(name, n) : name \in Presets, n \in BoundaryDays} :
                w.start <= w.end /\ w.end - w.start <= MaxSpan}

MCRequests ==
    {[kind |-> "year", start |-> w.start, end |-> w.end] :
        w \in Accepted \cup {P!PriorWindow(v) : v \in Accepted}}
    \cup {[kind |-> kd, start |-> w.start, end |-> w.end] :
             w \in {v \in Accepted : v.end - v.start <= MaxBucketed}, kd \in AllKinds \ {"year"}}
=============================================================================
