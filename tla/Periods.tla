------------------------------ MODULE Periods ------------------------------
(***************************************************************************)
(* How a tool call's date arguments become a reporting period, and how     *)
(* compare_periods finds the period to compare it with: _resolve_period,   *)
(* _validated_period and _resolve_prior_period in service.py.  The period  *)
(* is what Windows then cuts up.                                           *)
(***************************************************************************)
EXTENDS Calendar

CONSTANTS
    Asks,         \* what is asked: [today, timeframe, start, end], with the day
                  \* the call is made on and a preset, an unknown name, or none
    Dates,        \* the dates given for a baseline, as in Asks: [form, day]
                  \* records, or one of the three below
    NoDate,       \* the argument is absent (None)
    EmptyDate,    \* the empty string
    JunkDate,     \* a string that date.fromisoformat rejects
    NoTimeframe,
    MaxSpan       \* _MAX_TOTAL_PERIOD_DAYS

Forms == {"dashed", "compact"}      \* YYYY-MM-DD, and YYYYMMDD

VARIABLES
    stage,    \* "asked", "resolved", "compared", or "rejected"
    ask,      \* the arguments of the call, and the day it is made
    period,   \* the period resolved
    prior     \* the period it is compared with

NoPeriod == Window(0, 0)

Init ==
    /\ stage = "asked"
    /\ ask \in Asks
    /\ period = NoPeriod
    /\ prior = NoPeriod

-----------------------------------------------------------------------------
(* _validated_period                                                       *)

\* date.fromisoformat accepts both forms.
IsAbsoluteDate(d) == d \notin {NoDate, EmptyDate, JunkDate}

\* `start_date > end_date` compares the strings: by year, then, "-" sorting
\* before any digit, by form, and only then by day.
TextAfter(a, b) ==
    \/ YearOf(a.day) > YearOf(b.day)
    \/ /\ YearOf(a.day) = YearOf(b.day)
       /\ \/ a.form = "compact" /\ b.form = "dashed"
          \/ a.form = b.form /\ a.day > b.day

TooWide_Late(a, b) == b.day - a.day > MaxSpan + 1
TooWide(a, b) == b.day - a.day > MaxSpan

Valid(a, b) ==
    /\ IsAbsoluteDate(a) /\ IsAbsoluteDate(b)
    /\ ~TextAfter(a, b)
    /\ ~TooWide(a, b)

-----------------------------------------------------------------------------
Reject == stage' = "rejected" /\ UNCHANGED <<ask, period, prior>>

Accept(w) == stage' = "resolved" /\ period' = w /\ UNCHANGED <<ask, prior>>

\* _resolve_period with a timeframe: no date may come with it, and the name
\* must be a preset.
ResolvePreset ==
    /\ stage = "asked"
    /\ ask.timeframe # NoTimeframe
    /\ IF ask.start = NoDate /\ ask.end = NoDate /\ ask.timeframe \in Presets
       THEN Accept(PresetWindow(ask.timeframe, ask.today))
       ELSE Reject

\* _resolve_period with dates: both are required and validated.
ResolveDates ==
    /\ stage = "asked"
    /\ ask.timeframe = NoTimeframe
    /\ IF /\ ask.start \notin {NoDate, EmptyDate}
          /\ ask.end \notin {NoDate, EmptyDate}
          /\ Valid(ask.start, ask.end)
       THEN Accept(Window(ask.start.day, ask.end.day))
       ELSE Reject

\* _resolve_prior_period without prior dates: the window of equal length that
\* ends the day before the current one.
PriorWindow_Touching(w) == Window(w.start - (w.end - w.start), w.start)
PriorWindow(w) == Window(w.start - 1 - (w.end - w.start), w.start - 1)

CompareDefault ==
    /\ stage = "resolved"
    /\ stage' = "compared"
    /\ prior' = PriorWindow(period)
    /\ UNCHANGED <<ask, period>>

CompareExplicit(a, b) ==
    /\ stage = "resolved"
    /\ a # NoDate \/ b # NoDate
    /\ IF a # NoDate /\ b # NoDate /\ Valid(a, b)
       THEN /\ stage' = "compared"
            /\ prior' = Window(a.day, b.day)
            /\ UNCHANGED <<ask, period>>
       ELSE Reject

-----------------------------------------------------------------------------
InOrder(w) == w.start <= w.end /\ w.end - w.start <= MaxSpan

\* What is accepted is a proper period: Windows cuts it into at least one window
\* that ends where it ends, so a report is never silently empty.
AcceptedInOrder ==
    /\ stage \in {"resolved", "compared"} => InOrder(period)
    /\ stage = "compared" => InOrder(prior)
=============================================================================
