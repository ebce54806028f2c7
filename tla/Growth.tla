------------------------------- MODULE Growth -------------------------------
(***************************************************************************)
(* List growth in service.py: get_list_growth, get_list_growth_by_list and *)
(* get_list_breakdown.  A call discovers the account's metrics, sums each  *)
(* growth metric over the year chunks of the period, and, for the          *)
(* breakdown, asks for the size of every list.  Some failures end the      *)
(* call, others only blank a figure.                                       *)
(***************************************************************************)
EXTENDS Sums, Sequences, Functions

CONSTANTS
    Worlds,      \* what Klaviyo may have: [tool, present, events, lists]
    Categories,  \* _GROWTH_METRICS: the sequence of channels
    Null         \* None

VARIABLES
    world,       \* the tool asked for, and what Klaviyo has
    stage,       \* "lists", "sizes", "discover", "metrics", "done" or "failed"
    chunk,       \* the chunks of the current metric that are summed
    merged,      \* their sum: a count per list name
    counts,      \* the counts of the metrics done so far, in order
    unresolved,  \* the metrics the account does not have
    health       \* the rows of the lists, each with its size

vars == <<world, stage, chunk, merged, counts, unresolved, health>>

ASSUME CategoriesAssumption ==
    Categories \in Seq(Range(Categories)) /\ "list" \in Range(Categories)
ASSUME WorldsAssumption ==
    \A w \in Worlds :
        /\ w.tool \in {"growth", "by_list", "breakdown"}
        /\ w.lists \in Seq(Range(w.lists))
        /\ \A m \in w.present :
              /\ w.events[m] \in Seq(Range(w.events[m]))
              /\ \A e \in Range(w.events[m]) :
                    IsFiniteSet(DOMAIN e) /\ \A n \in DOMAIN e : e[n] \in Nat
ASSUME NullAssumption == Null \notin Int

Sub(category) == <<category, "subscribed">>
Unsub(category) == <<category, "unsubscribed">>

\* The metrics of the call, in the order in which they are summed; only
\* get_list_growth asks for every channel.
Metrics ==
    IF world.tool = "growth"
    THEN [i \in 1 .. 2 * Len(Categories) |->
             IF i % 2 = 1 THEN Sub(Categories[(i + 1) \div 2])
                          ELSE Unsub(Categories[i \div 2])]
    ELSE <<Sub("list"), Unsub("list")>>

NoCounts == [n \in {} |-> 0]

\* The calls a tool makes, one stage after the other.
Stages == [growth    |-> <<"discover", "metrics", "done">>,
           by_list   |-> <<"discover", "metrics", "lists", "done">>,
           breakdown |-> <<"lists", "sizes", "discover", "metrics", "done">>]

Init ==
    /\ world \in Worlds
    /\ stage = Stages[world.tool][1]
    /\ chunk = 0
    /\ merged = NoCounts
    /\ counts = <<>>
    /\ unresolved = {}
    /\ health = <<>>

After(s) ==
    LET path == Stages[world.tool]
        at == CHOOSE i \in DOMAIN path : path[i] = s
    IN  path[at + 1]

At(f, n) == IF n \in DOMAIN f THEN f[n] ELSE 0

Plus(f, g) == [n \in DOMAIN f \cup DOMAIN g |-> At(f, n) + At(g, n)]

-----------------------------------------------------------------------------
(* Requests whose failure ends the call                                    *)

\* _discover_metric_ids.
Discover ==
    /\ stage = "discover"
    /\ stage' = After(stage)
    /\ UNCHANGED <<world, chunk, merged, counts, unresolved, health>>

\* _list_name_to_id, or the listing that _all_list_health enriches.
ListLists ==
    /\ stage = "lists"
    /\ stage' = After(stage)
    /\ UNCHANGED <<world, chunk, merged, counts, unresolved, health>>

ListingFails ==
    /\ stage \in {"discover", "lists"}
    /\ stage' = "failed"
    /\ UNCHANGED <<world, chunk, merged, counts, unresolved, health>>

-----------------------------------------------------------------------------
(* _metric_total and _grouped_metric_counts                                *)

Metric == Metrics[Len(counts) + 1]

Summing == stage = "metrics" /\ Len(counts) < Len(Metrics)

\* The metric is done, with counts c, and the next one starts from zero.
Close(c) ==
    /\ counts' = Append(counts, c)
    /\ chunk' = 0
    /\ merged' = NoCounts

Absent ==
    /\ Summing /\ Metric \notin world.present
    /\ Close(Null)
    /\ unresolved' = unresolved \cup {Metric}
    /\ UNCHANGED <<world, stage, health>>

ChunksLeft == chunk < Len(world.events[Metric])

Aggregate ==
    /\ Summing /\ Metric \in world.present /\ ChunksLeft
    /\ chunk' = chunk + 1
    /\ merged' = Plus(merged, world.events[Metric][chunk + 1])
    /\ UNCHANGED <<world, stage, counts, unresolved, health>>

AggregateFails_Partial ==
    /\ Summing /\ Metric \in world.present /\ ChunksLeft
    /\ Close(merged)
    /\ UNCHANGED <<world, stage, unresolved, health>>
AggregateFails_Unresolved ==
    /\ Summing /\ Metric \in world.present /\ ChunksLeft
    /\ Close(Null)
    /\ unresolved' = unresolved \cup {Metric}
    /\ UNCHANGED <<world, stage, health>>
AggregateFails_NoReturn ==
    /\ Summing /\ Metric \in world.present /\ ChunksLeft
    /\ counts' = counts \o <<Null, merged>>
    /\ chunk' = 0
    /\ merged' = NoCounts
    /\ UNCHANGED <<world, stage, unresolved, health>>
\* A failed chunk blanks the metric, whatever was summed before, and the call
\* goes on with the next metric.
AggregateFails ==
    /\ Summing /\ Metric \in world.present /\ ChunksLeft
    /\ Close(Null)
    /\ UNCHANGED <<world, stage, unresolved, health>>

Total ==
    /\ Summing /\ Metric \in world.present /\ ~ChunksLeft
    /\ Close(merged)
    /\ UNCHANGED <<world, stage, unresolved, health>>

MetricsDone ==
    /\ stage = "metrics" /\ Len(counts) = Len(Metrics)
    /\ stage' = After(stage)
    /\ UNCHANGED <<world, chunk, merged, counts, unresolved, health>>

-----------------------------------------------------------------------------
(* _list_health_with_count                                                 *)

Sizing == stage = "sizes" /\ Len(health) < Len(world.lists)

Row(l, size) == [id |-> l.id, name |-> l.name, size |-> size]

Size ==
    /\ Sizing
    /\ LET l == world.lists[Len(health) + 1]
       IN  health' = Append(health, Row(l, l.size))
    /\ UNCHANGED <<world, stage, chunk, merged, counts, unresolved>>

SizeFails_Stops ==
    /\ Sizing
    /\ stage' = After(stage)
    /\ UNCHANGED <<world, chunk, merged, counts, unresolved, health>>
\* The lookup fails: the row of the listing stands in, without a size.
SizeFails ==
    /\ Sizing
    /\ health' = Append(health, Row(world.lists[Len(health) + 1], Null))
    /\ UNCHANGED <<world, stage, chunk, merged, counts, unresolved>>

SizesDone ==
    /\ stage = "sizes" /\ Len(health) = Len(world.lists)
    /\ stage' = After(stage)
    /\ UNCHANGED <<world, chunk, merged, counts, unresolved, health>>

Ended == stage \in {"done", "failed"} /\ UNCHANGED vars

Next ==
    \/ Discover \/ ListLists \/ ListingFails
    \/ Absent \/ Aggregate \/ AggregateFails \/ Total \/ MetricsDone
    \/ Size \/ SizeFails \/ SizesDone
    \/ Ended

Spec == Init /\ [][Next]_vars

-----------------------------------------------------------------------------
(* The answer                                                              *)

\* _count_for: a list without events counts 0, a blank metric is blank for all.
CountFor(c, n) == IF c = Null THEN Null ELSE At(c, n)

\* _net_growth.
Net(subscribed, unsubscribed) ==
    IF subscribed = Null \/ unsubscribed = Null THEN Null ELSE subscribed - unsubscribed

Cell_Gross(n) ==
    LET s == CountFor(counts[1], n)
    IN  [subscribed |-> s, unsubscribed |-> CountFor(counts[2], n), net |-> s]
\* _growth_cell.
Cell(n) ==
    LET s == CountFor(counts[1], n)
        u == CountFor(counts[2], n)
    IN  [subscribed |-> s, unsubscribed |-> u, net |-> Net(s, u)]

SumOf(c) == IF c = Null THEN Null ELSE Sum(c)

\* _growth_totals.
Totals ==
    LET s == SumOf(counts[1])
        u == SumOf(counts[2])
    IN  [subscribed |-> s, unsubscribed |-> u, net |-> Net(s, u)]

\* The rows of get_list_growth_by_list: the lists with events of either kind.
NamesOf(c) == IF c = Null THEN {} ELSE DOMAIN c
RowNames == NamesOf(counts[1]) \cup NamesOf(counts[2])

-----------------------------------------------------------------------------
TypeOK ==
    /\ world \in Worlds
    /\ stage \in {Stages[world.tool][i] : i \in DOMAIN Stages[world.tool]} \cup {"failed"}
    /\ Len(counts) <= Len(Metrics) /\ Len(health) <= Len(world.lists)
    /\ \A n \in DOMAIN merged : merged[n] \in Nat
    /\ \A i \in DOMAIN counts :
          counts[i] # Null => \A n \in DOMAIN counts[i] : counts[i][n] \in Nat
    /\ unresolved \subseteq {Metrics[i] : i \in DOMAIN Metrics}

\* What Klaviyo counted of a metric over the whole period, for one list name.
InWorld(m, n) ==
    Sum([i \in DOMAIN world.events[m] |-> At(world.events[m][i], n)])

\* A count is that of the whole period or it is null, never the part that was
\* summed before a chunk failed or what another metric left behind
\* (service.py:570-571, 651-656).
WholeOrNull ==
    \A i \in DOMAIN counts :
        counts[i] # Null =>
            /\ Metrics[i] \in world.present
            /\ DOMAIN counts[i] = UNION {DOMAIN e : e \in Range(world.events[Metrics[i]])}
            /\ \A n \in DOMAIN counts[i] : counts[i][n] = InWorld(Metrics[i], n)

\* The warning "not found for this account" names the metrics that are absent,
\* all of them, and none that merely could not be fetched (service.py:601-605).
\* README.md:1137-1140 can be read as asking for a warning in both cases, which
\* would make this one untrue of a metric that exists; that a figure that could
\* not be fetched has no warning of any kind is what NullExplained shows.
WarningsTrue ==
    stage = "done" =>
        unresolved = {Metrics[i] : i \in DOMAIN Metrics} \ world.present

\* A null figure of get_list_growth is explained: a warning names its metric
\* (README.md:1137-1140).
NullExplained ==
    stage = "done" /\ world.tool = "growth" =>
        \A i \in DOMAIN counts : counts[i] = Null => Metrics[i] \in unresolved

\* Rows add up to totals, subscribed, unsubscribed and net, for lists with
\* events of one kind only too.
AddsUp(cell(_), rows) ==
    \A figure \in {"subscribed", "unsubscribed", "net"} :
        Totals[figure] # Null =>
            Totals[figure] = Sum([r \in rows |-> cell(r)[figure]])

\* The breakdown has every list once, in the order of the listing, whichever
\* lookups failed; a size is the list's or null (service.py:745-747, 499-501).
EveryListKept ==
    world.tool = "breakdown" /\ (stage = "done" \/ counts # <<>>) =>
        /\ Len(health) = Len(world.lists)
        /\ \A i \in DOMAIN health : \E size \in {world.lists[i].size, Null} :
              health[i] = Row(world.lists[i], size)

NamesDecide ==
    /\ \A i, j \in DOMAIN world.lists : world.lists[i].name = world.lists[j].name => i = j
    /\ RowNames \subseteq {world.lists[i].name : i \in DOMAIN world.lists}

\* The rows of get_list_growth_by_list add up to its totals, "the account-wide
\* sums" (service.py:691-692).  Those of the breakdown are joined to lists by name,
\* and add up where each list has a name of its own and each event belongs to a
\* list that still exists.
RowsAddUp ==
    stage = "done" =>
        /\ world.tool = "by_list" => AddsUp(Cell, RowNames)
        /\ world.tool = "breakdown" /\ NamesDecide =>
              AddsUp(LAMBDA i : Cell(health[i].name), DOMAIN health)
=============================================================================
