------------------------------ MODULE Pipeline ------------------------------
(***************************************************************************)
(* From a tool call's date arguments to the windows its reports are asked  *)
(* for: Periods resolves the period, and for compare_periods the one to    *)
(* compare with, and Windows then cuts up each of them, the current period *)
(* first.  The windows are those that Report and Series fetch one by one.  *)
(***************************************************************************)
EXTENDS Windows, Calendar

CONSTANTS
    Asks, Dates, NoDate, EmptyDate, JunkDate, NoTimeframe,   \* of Periods
    MaxSpan,
    MaxBucketed     \* for TLC: the longest span cut into trend buckets, in days

VARIABLES
    stage, ask, period, prior,   \* of Periods
    leg,                         \* the period being cut: "none", "current" or "prior"
    current                      \* the windows of the current period, once cut

P == INSTANCE Periods

\* The last day of a window that begins on day n, were its period longer.
LastDay(kd, n) ==
    CASE kd = "year"    -> OneYearCap(n)
      [] kd = "daily"   -> n
      [] kd = "weekly"  -> WeekEnd(n)
      [] kd = "monthly" -> MonthEnd(n)

\* The days that YearOf can find.
IsDay(n) == n \in Int /\ \E y \in Years : DaysBeforeYear(y) < n /\ n <= DaysBeforeYear(y + 1)

\* Windows gets the caps of the calendar.
ASSUME CalendarAssumption ==
    /\ "year" \in Kinds
    /\ Kinds \subseteq {"year", "daily", "weekly", "monthly"}
    /\ \A kd \in Kinds : \A n \in DOMAIN Cap[kd] : IsDay(n) /\ Cap[kd][n] = LastDay(kd, n)

Reaches(from, to) == \A kd \in Kinds : from .. to \subseteq DOMAIN Cap[kd]

\* The span cap leaves room for every preset.
ASSUME SpanAssumption == MaxSpan \in Nat /\ MaxSpan >= 365 /\ MaxBucketed \in Nat

\* What is asked lies in the calendar, along with the default baseline before it.
ASSUME ArgumentsAssumption ==
    /\ \A a \in Asks :
          /\ \A d \in {a.start, a.end} :
                P!IsAbsoluteDate(d) => d.form \in P!Forms /\ IsDay(d.day)
          /\ P!IsAbsoluteDate(a.start) /\ P!IsAbsoluteDate(a.end)
                => Reaches(a.start.day - 1 - MaxSpan, a.end.day)
          /\ IsDay(a.today) /\ Reaches(a.today - 731, a.today)
    /\ \A d \in Dates : P!IsAbsoluteDate(d) => d.form \in P!Forms /\ IsDay(d.day)
    /\ \A a, b \in Dates :
          P!IsAbsoluteDate(a) /\ P!IsAbsoluteDate(b) => Reaches(a.day, b.day)

arguments == <<stage, ask, period, prior>>
cutting == <<kind, start, end, cursor, windows, leg, current>>
pipeline == <<arguments, cutting>>

PipelineInit ==
    /\ P!Init
    /\ kind = "year" /\ start = 1 /\ end = 0 /\ cursor = 1 /\ windows = <<>>
    /\ leg = "none" /\ current = <<>>

-----------------------------------------------------------------------------
\* Both periods of a comparison are resolved before anything is fetched.
Resolve ==
    /\ leg = "none"
    /\ \/ P!ResolvePreset \/ P!ResolveDates
       \/ P!CompareDefault
       \/ \E a, b \in Dates : P!CompareExplicit(a, b)
    /\ UNCHANGED cutting

\* The loop of Windows begins on period w.
Enter(kd, w) ==
    /\ kind' = kd
    /\ start' = w.start /\ end' = w.end
    /\ cursor' = w.start
    /\ windows' = <<>>
    /\ UNCHANGED arguments

\* A report is cut into year chunks, a campaign trend into buckets.
CutCurrent(kd) ==
    /\ leg = "none"
    /\ stage \in (IF kd = "year" THEN {"resolved", "compared"} ELSE {"resolved"})
    /\ kd # "year" => period.end - period.start <= MaxBucketed
    /\ Enter(kd, period)
    /\ leg' = "current"
    /\ UNCHANGED current

CutPrior ==
    /\ leg = "current" /\ stage = "compared" /\ cursor > end
    /\ current' = windows
    /\ Enter("year", prior)
    /\ leg' = "prior"

CutWindow == Cut /\ UNCHANGED <<arguments, leg, current>>

Rejected == stage = "rejected" /\ UNCHANGED pipeline

Fetched ==
    /\ leg # "none" /\ cursor > end
    /\ stage = "compared" => leg = "prior"
    /\ UNCHANGED pipeline

PipelineNext ==
    \/ Resolve
    \/ \E kd \in Kinds : CutCurrent(kd)
    \/ CutPrior
    \/ CutWindow
    \/ Rejected \/ Fetched

PipelineSpec == PipelineInit /\ [][PipelineNext]_pipeline

-----------------------------------------------------------------------------
\* Dates in the order of their (year, month, day).
LexBefore(a, b) == \/ a[1] < b[1]
                   \/ a[1] = b[1] /\ a[2] < b[2]
                   \/ a[1] = b[1] /\ a[2] = b[2] /\ a[3] < b[3]

Civil(n) == <<YearOf(n), MonthOf(n), DayOf(n)>>

\* The date a year after the first day of a chunk is after its last: no chunk is
\* wider than a calendar year, leap or not, which Klaviyo would reject
\* (service.py:271-273).
ChunkWithinYear ==
    kind = "year" =>
      \A i \in 1 .. Len(windows) :
        LET a == Civil(windows[i].from)
        IN  LexBefore(Civil(windows[i].to), <<a[1] + 1, a[2], a[3]>>)

\* A monthly bucket stays inside one month, and only the first and the last
\* bucket may be shorter than theirs; a year of weeks, leap years included, fits
\* the trend cap of 53 buckets (service.py:118-121).
BucketsFit ==
    /\ kind = "monthly" =>
          \A i \in 1 .. Len(windows) :
              LET w == windows[i]
              IN  /\ Civil(w.from)[1] = Civil(w.to)[1] /\ Civil(w.from)[2] = Civil(w.to)[2]
                  /\ i > 1 => Civil(w.from)[3] = 1
                  /\ w.to < end => Civil(w.to + 1)[3] = 1
    /\ kind = "weekly" /\ end - start <= 365 => Len(windows) <= 53

\* A preset names a window that one report request can carry: it is in order,
\* never past today, and never cut up, on any day of the calendar; the trailing
\* ones are whole days that end yesterday (service.py:162-165).
PresetsFit ==
    ask.timeframe # NoTimeframe /\ stage # "rejected" =>
        /\ leg = "current" /\ kind = "year" /\ cursor > end => Len(windows) = 1
        /\ stage # "asked" => period.end <= ask.today
        /\ stage # "asked" /\ ask.timeframe \in {"last_7_days", "last_30_days",
                                                 "last_90_days", "last_365_days"}
              => period.end = ask.today - 1

\* What is accepted is a proper period, so that Windows cuts it into at least
\* one window and a report is never silently empty (service.py:415-417).
AcceptedInOrder == P!AcceptedInOrder

\* The default baseline is counted beside the current period: it is as long, and
\* the windows of both are one unbroken run of days, across month, year and
\* leap-day boundaries, so that no day is in both totals or in neither
\* (service.py:1334-1335).
BaselineMeets ==
    leg = "prior" /\ cursor > end /\ prior = P!PriorWindow(period) =>
        LET both == windows \o current
        IN  /\ \A i \in 1 .. Len(both) - 1 : both[i + 1].from = both[i].to + 1
            /\ both[1].from = prior.start /\ both[Len(both)].to = period.end
            /\ prior.end - prior.start = period.end - period.start
=============================================================================
