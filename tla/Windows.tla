------------------------------ MODULE Windows ------------------------------
(***************************************************************************)
(* The loop of _period_chunks and _build_buckets in service.py: a period   *)
(* is cut into consecutive windows, each of which ends at the cap of its   *)
(* first day or at the end of the period.  The cap of a kind of window is  *)
(* a parameter; MCPipeline gives the calendar's caps.                      *)
(***************************************************************************)
EXTENDS Integers, Sequences

CONSTANTS
    Kinds,      \* "year" for _period_chunks, and the bucket intervals
    Cap,        \* Cap[kind][d]: the last day of a window that begins on d
    Requests    \* what is asked for: a kind of window, and the period's first and last day

\* No window is empty.
ASSUME CapAssumption ==
    \A kind \in Kinds : \A d \in DOMAIN Cap[kind] : Cap[kind][d] \in Int /\ d <= Cap[kind][d]

ASSUME RequestsAssumption ==
    \A r \in Requests :
        /\ r.kind \in Kinds
        /\ r.start \in Int /\ r.end \in Int
        /\ r.start .. r.end \subseteq DOMAIN Cap[r.kind]

VARIABLES
    kind,      \* which caps apply
    start, end,
    cursor,    \* the first day not yet in a window
    windows    \* the windows cut so far

vars == <<kind, start, end, cursor, windows>>

Init ==
    /\ \E r \in Requests : kind = r.kind /\ start = r.start /\ end = r.end
    /\ cursor = start
    /\ windows = <<>>

Earlier(m, n) == IF m <= n THEN m ELSE n

CutEnd(d) == Earlier(Cap[kind][d], end)

Advance_Overlap(last) == last
Advance(last) == last + 1

Cut ==
    /\ cursor <= end
    /\ windows' = Append(windows, [from |-> cursor, to |-> CutEnd(cursor)])
    /\ cursor' = Advance(CutEnd(cursor))
    /\ UNCHANGED <<kind, start, end>>

Done == cursor > end /\ UNCHANGED vars

Next == Cut \/ Done

Spec == Init /\ [][Next]_vars

-----------------------------------------------------------------------------
TypeOK ==
    /\ kind \in Kinds
    /\ start \in Int /\ end \in Int /\ cursor \in Int
    /\ windows \in Seq([from : Int, to : Int])
    /\ start <= end => cursor \in start .. end + 1

\* The windows cut so far leave no day out and count none twice: the first
\* begins the period, each begins the day after the one before it, and the
\* cursor is the day after the last (service.py:285-287, "contiguous and
\* inclusive").
Contiguous ==
    /\ windows = <<>> => cursor = start
    /\ windows # <<>> => /\ windows[1].from = start
                         /\ windows[Len(windows)].to = cursor - 1
    /\ \A i \in 1 .. Len(windows) - 1 : windows[i + 1].from = windows[i].to + 1

\* Each window is a non-empty part of the period and within the cap of its
\* first day.
WithinCap ==
    \A i \in 1 .. Len(windows) :
        /\ start <= windows[i].from
        /\ windows[i].from <= windows[i].to
        /\ windows[i].to <= end
        /\ windows[i].to <= Cap[kind][windows[i].from]

\* Once the loop has ended, every day of the period is in exactly one window: the
\* last one ends the day before the cursor, and not past the period.
Partition == Contiguous /\ WithinCap

\* Every round of the loop moves the cursor on, so the loop ends: a cap that
\* stood still would ask Klaviyo for the same window for ever.
Progress == [][cursor < cursor']_vars
=============================================================================
