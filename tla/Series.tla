------------------------------- MODULE Series -------------------------------
(***************************************************************************)
(* _flow_series of service.py: a flow's over-time report, fetched in year  *)
(* chunks and concatenated.  A chunk has its dates and, for each group, an *)
(* array per statistic; groups and statistics may be missing from a chunk, *)
(* and an array may not match the dates.  The loop that fetches the chunks *)
(* is the one of Report, its pauses included; here only its order matters. *)
(***************************************************************************)
EXTENDS Naturals, Sequences, SequencesExt

CONSTANTS
    Groups,     \* the [id, part] groupings: a flow and one of its messages
    Stats,      \* the statistics asked for
    Worlds,     \* what Klaviyo may have: a sequence of chunks, each with the
                \* number of its dates and the lengths of the arrays in it
    Filters, NoFilter

ASSUME WorldsAssumption ==
    \A w \in Worlds :
        /\ Len(w) \in Nat /\ DOMAIN w = 1 .. Len(w)
        /\ \A i \in DOMAIN w :
              /\ w[i].dates \in Nat
              /\ DOMAIN w[i].lengths \subseteq Groups
              /\ \A g \in DOMAIN w[i].lengths :
                    /\ DOMAIN w[i].lengths[g] \subseteq Stats
                    /\ \A s \in DOMAIN w[i].lengths[g] : w[i].lengths[g][s] \in Nat

VARIABLES
    world,      \* the chunks of the period, as Klaviyo has them
    filter,     \* the flow asked for, or NoFilter
    stage,      \* "fetching", "done" or "failed"
    chunks,     \* per_chunk: the chunks fetched
    dates,      \* the date_times of the answer
    series      \* the groups of the answer, each with its arrays

vars == <<world, filter, stage, chunks, dates, series>>

Nothing == [g \in {} |-> {}]

\* A value of an array says where it comes from; Zero is the padding.
Zero_None == <<>>
Zero == <<0, 0>>
Array(i, n) == [j \in 1 .. n |-> <<i, j>>]

\* Chunk i as a report body.
Body(i) ==
    [dates |-> Array(i, world[i].dates),
     series |-> [g \in DOMAIN world[i].lengths |->
                    [s \in DOMAIN world[i].lengths[g] |->
                        Array(i, world[i].lengths[g][s])]]]

Init ==
    /\ world \in Worlds
    /\ filter \in Filters
    /\ stage = "fetching"
    /\ chunks = <<>>
    /\ dates = <<>>
    /\ series = Nothing

-----------------------------------------------------------------------------
\* _shape_series: the groups of the flow asked for.
Shape(body) ==
    [body EXCEPT !.series =
        [g \in {g \in DOMAIN @ : filter \in {NoFilter, g.id}} |-> @[g]]]

\* _index_series_chunks: the groups and the statistics of all chunks.
GroupsOf(cs) == UNION {DOMAIN cs[i].series : i \in DOMAIN cs}

StatsOf_First(cs) ==
    IF cs = <<>> THEN {} ELSE UNION {DOMAIN cs[1].series[g] : g \in DOMAIN cs[1].series}
StatsOf(cs) ==
    UNION {UNION {DOMAIN cs[i].series[g] : g \in DOMAIN cs[i].series} : i \in DOMAIN cs}

Zeros(n) == [j \in 1 .. n |-> Zero]

Fits_Always(array, n) == TRUE
Fits(array, n) == Len(array) = n

\* A chunk's part of an array: its values, or zeros when it has none that fit.
Padded(c, g, s) ==
    IF g \in DOMAIN c.series /\ s \in DOMAIN c.series[g] /\ Fits(c.series[g][s], Len(c.dates))
    THEN c.series[g][s] ELSE Zeros(Len(c.dates))

\* _merge_series_chunks.
DatesOf(cs) == FlattenSeq([i \in DOMAIN cs |-> cs[i].dates])

Merged(cs) ==
    [g \in GroupsOf(cs) |->
        [s \in StatsOf(cs) |-> FlattenSeq([i \in DOMAIN cs |-> Padded(cs[i], g, s)])]]

-----------------------------------------------------------------------------
More == stage = "fetching" /\ Len(chunks) < Len(world)

Post ==
    /\ More
    /\ chunks' = Append(chunks, Shape(Body(Len(chunks) + 1)))
    /\ UNCHANGED <<world, filter, stage, dates, series>>

\* The report of a chunk fails and nothing catches the error.
PostFails ==
    /\ More
    /\ stage' = "failed"
    /\ UNCHANGED <<world, filter, chunks, dates, series>>

\* One chunk is the answer as it is; several are concatenated.
Answer ==
    /\ stage = "fetching" /\ Len(chunks) = Len(world)
    /\ stage' = "done"
    /\ IF Len(chunks) = 1
       THEN dates' = chunks[1].dates /\ series' = chunks[1].series
       ELSE dates' = DatesOf(chunks) /\ series' = Merged(chunks)
    /\ UNCHANGED <<world, filter, chunks>>

Ended == stage \in {"done", "failed"} /\ UNCHANGED vars

Next == Post \/ PostFails \/ Answer \/ Ended

Spec == Init /\ [][Next]_vars

-----------------------------------------------------------------------------
Cell == Nat \X Nat

TypeOK ==
    /\ stage \in {"fetching", "done", "failed"}
    /\ Len(chunks) <= Len(world)
    /\ dates \in Seq(Cell)
    /\ DOMAIN series \subseteq Groups
    /\ \A g \in DOMAIN series :
          /\ DOMAIN series[g] \subseteq Stats
          /\ \A s \in DOMAIN series[g] : series[g][s] \in Seq(Cell)

Stitched == stage = "done" /\ Len(world) # 1

\* The arrays of a stitched answer are positionally aligned to its dates: the
\* value at a position is the one Klaviyo gave for that very date, or a zero
\* (service.py:994-995, 1087-1089).
Aligned ==
    Stitched =>
        \A g \in DOMAIN series : \A s \in DOMAIN series[g] :
            /\ Len(series[g][s]) = Len(dates)
            /\ \A j \in DOMAIN dates : series[g][s][j] \in {dates[j], Zero}

\* Nothing Klaviyo aligned is lost: each value of an array that fits the dates
\* of its chunk is in the answer, for every group of the flow asked for, and all
\* groups have the same statistics.
NothingDropped ==
    Stitched =>
        \A i \in DOMAIN world :
            \A g \in {g \in DOMAIN world[i].lengths : filter \in {NoFilter, g.id}} :
                \A s \in DOMAIN world[i].lengths[g] :
                    /\ \A h \in DOMAIN series : s \in DOMAIN series[h]
                    /\ world[i].lengths[g][s] = world[i].dates =>
                          \A j \in 1 .. world[i].dates :
                              \E k \in DOMAIN series[g][s] : series[g][s][k] = <<i, j>>
=============================================================================
