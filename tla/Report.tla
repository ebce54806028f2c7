------------------------------- MODULE Report -------------------------------
(***************************************************************************)
(* One tool call that needs values reports, as service.py makes it: the    *)
(* performance tools fetch one period, compare_periods two, and a campaign *)
(* trend one per bucket.  Each of these legs is one report request per     *)
(* year chunk (Windows says how many), and the chunks' rows are merged.    *)
(* A row is a group with one count, which stands for its statistics.       *)
(***************************************************************************)
EXTENDS Sums, Sequences

CONSTANTS
    Groups,      \* the [id, part] groups of a report: a campaign and a channel,
                 \* or a flow and one of its messages on a channel
    Counts,      \* the counts a row may have
    Plans,       \* [tool, entity, legs]; legs[i] is the number of year chunks
                 \* of the i-th period fetched
    Filters,     \* the ids to narrow the rows to, and NoFilter
    NoFilter,
    Null,        \* no fraction of a total of zero
    Whole,       \* the part of a row that several groups were merged into
    MaxBuckets   \* _MAX_TREND_BUCKETS

ASSUME GroupsAssumption == IsFiniteSet(Groups)
ASSUME NullAssumption == Null \notin Int \X Int
ASSUME CountsAssumption == Counts \subseteq Nat \ {0}
ASSUME MaxBucketsAssumption == MaxBuckets \in Nat
ASSUME WholeAssumption == \A g \in Groups : g.part # Whole
ASSUME PlansAssumption ==
    \A p \in Plans : /\ p.tool \in {"performance", "rollup", "compare", "trend"}
                     /\ p.entity \in {"campaign", "flow"}
                     /\ p.tool = "trend" => p.entity = "campaign"
                     /\ p.tool = "rollup" => p.entity = "flow"
                     /\ p.legs \in Seq(Nat)
                     /\ p.tool \in {"performance", "rollup"} => Len(p.legs) = 1
                     /\ p.tool = "compare" => Len(p.legs) = 2
                     /\ p.tool = "trend" => \A i \in DOMAIN p.legs : p.legs[i] = 1

VARIABLES
    plan, filter,
    world,     \* world[i][j]: the report Klaviyo has for chunk j of leg i
    stage,     \* "asked", "fetching", "done", "failed" or "refused"
    rested,    \* no report was posted since the last pause
    chunks,    \* per_chunk: the reports fetched for the current leg
    rows,      \* rows[i]: the merged rows of leg i
    slots,     \* the trend's accumulator: slots[id][i] is id's count in bucket i
    change     \* the delta of a comparison

vars == <<plan, filter, world, stage, rested, chunks, rows, slots, change>>

NoRows == [g \in {} |-> 0]
NoChange == [absolute |-> 0, fraction |-> Null]

Reports == UNION {[S -> Counts] : S \in SUBSET Groups}

\* Every sequence of n reports for each leg of n chunks.
Worlds(legs) ==
    LET all == UNION {[1 .. legs[i] -> Reports] : i \in DOMAIN legs}
    IN  {w \in [DOMAIN legs -> all] : \A i \in DOMAIN legs : Len(w[i]) = legs[i]}

Init ==
    /\ plan \in Plans
    /\ filter \in Filters
    /\ world \in Worlds(plan.legs)
    /\ stage = "asked"
    /\ rested = TRUE
    /\ chunks = <<>>
    /\ rows = <<>>
    /\ slots = NoRows
    /\ change = NoChange

Legs == Len(plan.legs)
Leg == Len(rows) + 1

Idents(f) == {g.id : g \in DOMAIN f}

-----------------------------------------------------------------------------
(* Shaping and merging                                                     *)

\* _shape_results and _shape_flow_results: the rows of the asked id, or all.
Narrow(body) ==
    [g \in {g \in DOMAIN body : filter \in {NoFilter, g.id}} |-> body[g]]

\* _merge_campaign_chunks sums by campaign, whatever the channel;
\* _merge_flow_chunks by flow, message and channel.
MergeKey_ById(g) == [id |-> g.id, part |-> Whole]
MergeKey(g) == IF plan.entity = "campaign" THEN [id |-> g.id, part |-> Whole] ELSE g

\* The rows of all chunks, each with the number of its chunk.
RowsOf(cs) == UNION {{<<i, g>> : g \in DOMAIN cs[i]} : i \in DOMAIN cs}

Merged(cs) ==
    [k \in {MergeKey(r[2]) : r \in RowsOf(cs)} |->
        Sum([r \in {r \in RowsOf(cs) : MergeKey(r[2]) = k} |-> cs[r[1]][r[2]]])]

\* A period within a year is one report, whose rows stay as they are.
LegRows(cs) == IF Len(cs) = 1 THEN cs[1] ELSE Merged(cs)

\* _rollup_flows: one row for each flow.
RolledUp(f) ==
    [k \in {[id |-> g.id, part |-> Whole] : g \in DOMAIN f} |->
        SumOver(f, {g \in DOMAIN f : g.id = k.id})]

\* _aggregate_totals, and metrics.delta_block on the totals of the current and the
\* prior period: a fraction of nothing is undefined, not zero.
Total(f) == Sum(f)

Delta(c, p) == [absolute |-> c - p, fraction |-> IF p = 0 THEN Null ELSE <<c - p, p>>]

\* The rows of one bucket that are written last, one for each campaign in it.
LastRows(f) ==
    {last \in [Idents(f) -> DOMAIN f] : \A c \in Idents(f) : last[c].id = c}

SlotsWith_Appended(f, last) ==
    [c \in DOMAIN slots \cup Idents(f) |->
        (IF c \in DOMAIN slots THEN slots[c] ELSE <<>>)
            \o (IF c \in Idents(f) THEN <<f[last[c]]>> ELSE <<>>)]

SlotsWith_Everywhere(f, last) ==
    [c \in DOMAIN slots \cup Idents(f) |->
        [i \in 1 .. Legs |->
            IF c \in Idents(f) /\ (i = Leg \/ c \notin DOMAIN slots) THEN f[last[c]]
            ELSE IF c \in DOMAIN slots THEN slots[c][i] ELSE 0]]
\* _campaign_trend: a bucket's rows go to its slot in the series of their
\* campaign; a campaign seen for the first time gets zeros everywhere else.
SlotsWith(f, last) ==
    [c \in DOMAIN slots \cup Idents(f) |->
        [i \in 1 .. Legs |->
            IF i = Leg /\ c \in Idents(f) THEN f[last[c]]
            ELSE IF c \in DOMAIN slots THEN slots[c][i] ELSE 0]]

-----------------------------------------------------------------------------
TooMany == Legs > MaxBuckets

\* _trend_buckets counts the buckets before anything is fetched.
Begin ==
    /\ stage = "asked"
    /\ stage' = IF plan.tool = "trend" /\ TooMany THEN "refused" ELSE "fetching"
    /\ UNCHANGED <<plan, filter, world, rested, chunks, rows, slots, change>>

\* The loops sleep before every chunk of a leg but the first, and before every
\* bucket of a trend but the first; compare_periods goes straight from the
\* current period to the prior one.
PauseDue_InLeg == chunks # <<>>
PauseDue == chunks # <<>> \/ (plan.tool = "trend" /\ Leg > 1)

PostDue == stage = "fetching" /\ Leg <= Legs /\ Len(chunks) < plan.legs[Leg]

Pause ==
    /\ PostDue /\ PauseDue /\ ~rested
    /\ rested' = TRUE
    /\ UNCHANGED <<plan, filter, world, stage, chunks, rows, slots, change>>

Post ==
    /\ PostDue /\ (PauseDue => rested)
    /\ chunks' = Append(chunks, Narrow(world[Leg][Len(chunks) + 1]))
    /\ rested' = FALSE
    /\ UNCHANGED <<plan, filter, world, stage, rows, slots, change>>

PostFails_Skips ==
    /\ PostDue /\ (PauseDue => rested)
    /\ chunks' = Append(chunks, NoRows)
    /\ rested' = FALSE
    /\ UNCHANGED <<plan, filter, world, stage, rows, slots, change>>

\* The client gives up on a report; nothing catches its error.
PostFails ==
    /\ PostDue /\ (PauseDue => rested)
    /\ stage' = "failed"
    /\ rested' = FALSE
    /\ UNCHANGED <<plan, filter, world, chunks, rows, slots, change>>

\* The leg has all its chunks, be they none: merge them.
Merge ==
    /\ stage = "fetching"
    /\ Leg <= Legs /\ Len(chunks) = plan.legs[Leg]
    /\ LET new == LegRows(chunks)
       IN  /\ rows' = Append(rows, new)
           /\ IF plan.tool = "trend"
              THEN \E last \in LastRows(new) : slots' = SlotsWith(new, last)
              ELSE UNCHANGED slots
    /\ chunks' = <<>>
    /\ UNCHANGED <<plan, filter, world, stage, rested, change>>

Answer ==
    /\ stage = "fetching" /\ Leg > Legs
    /\ stage' = "done"
    /\ rows' = IF plan.tool = "rollup" THEN <<RolledUp(rows[1])>> ELSE rows
    /\ change' = IF plan.tool = "compare" THEN Delta(Total(rows[1]), Total(rows[2])) ELSE change
    /\ UNCHANGED <<plan, filter, world, rested, chunks, slots>>

Ended == stage \in {"done", "failed", "refused"} /\ UNCHANGED vars

Next == Begin \/ Pause \/ Post \/ PostFails \/ Merge \/ Answer \/ Ended

Spec == Init /\ [][Next]_vars

-----------------------------------------------------------------------------
TypeOK ==
    /\ plan \in Plans /\ filter \in Filters
    /\ stage \in {"asked", "fetching", "done", "failed", "refused"}
    /\ rested \in BOOLEAN
    /\ \A i \in DOMAIN chunks : chunks[i] \in Reports
    /\ Leg \in 1 .. Legs + 1
    /\ \A i \in DOMAIN rows : \A k \in DOMAIN rows[i] : rows[i][k] \in Nat \ {0}
    /\ \A c \in DOMAIN slots : slots[c] \in [1 .. Legs -> Nat]

Asked(g) == filter \in {NoFilter, g.id}

\* What Klaviyo has of an id over a leg's whole period.
InWorld(c, i) ==
    Sum([r \in {r \in RowsOf(world[i]) : r[2].id = c /\ Asked(r[2])} |-> world[i][r[1]][r[2]]])

InRows(c, i) == SumOver(rows[i], {k \in DOMAIN rows[i] : k.id = c})

AllIn(i) == Sum([c \in {g.id : g \in Groups} |-> InWorld(c, i)])

\* An answer carries, for each campaign or flow, all that Klaviyo has of it over
\* the whole of each period, once: no chunk is missing, doubled or credited to
\* the other period, however the period was cut and though requests may fail.  So
\* the change of a comparison is from all that Klaviyo has of the prior period, and
\* a fraction of it unless that is nothing (service.py:1560-1678, metrics.py:89-91).
NothingLost ==
    stage = "done" =>
        /\ Len(rows) = Legs
        /\ \A i \in 1 .. Legs : \A c \in {g.id : g \in Groups} : InRows(c, i) = InWorld(c, i)
        /\ plan.tool = "compare" =>
              /\ AllIn(2) + change.absolute = AllIn(1)
              /\ change.fraction = Null <=> AllIn(2) = 0

\* Cutting a period into chunks does not change the shape of a flow report:
\* each flow, message and channel keeps a row of its own (service.py:1635-1636).
FlowGroupsKept ==
    plan.entity = "flow" /\ plan.tool # "rollup" =>
        \A i \in DOMAIN rows :
            DOMAIN rows[i] = {r[2] : r \in {r \in RowsOf(world[i]) : Asked(r[2])}}

\* The series of a trend are aligned: each has a slot for every bucket, and a
\* zero exactly where the campaign is absent (service.py:1151-1152).
SlotsAligned ==
    stage = "done" /\ plan.tool = "trend" =>
        \A i \in 1 .. Legs :
            {c \in DOMAIN slots : slots[c][i] # 0}
                = {g.id : g \in {g \in DOMAIN world[i][1] : Asked(g)}}

\* Reports of one period, and the buckets of a trend, are never posted back to
\* back: there is a pause in between (service.py:134-136).  compare_periods
\* has none between its two periods, and is left out.
Paced == [][(Post \/ PostFails) /\ plan.tool # "compare" => rested]_vars

\* A slot of a trend holds all the campaign has in that bucket, over all the
\* channels it was sent on.
TrendWhole ==
    stage = "done" /\ plan.tool = "trend" =>
        \A i \in 1 .. Legs : \A c \in DOMAIN slots : slots[c][i] = InWorld(c, i)
=============================================================================
