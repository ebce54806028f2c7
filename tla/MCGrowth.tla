------------------------------ MODULE MCGrowth ------------------------------
(***************************************************************************)
(* Growth on small instances: two channels, periods of one and two chunks, *)
(* any metric absent, and two list names that no list, one list or two     *)
(* lists may have.                                                         *)
(***************************************************************************)
EXTENDS Growth

CONSTANTS red, blue, all, l1, l2

TwoChannels == <<"list", "sms">>

\* Chunk i counts i for each name it has.
EventsOf(ms, names, n) ==
    LET bodies(i) == {[m \in S |-> i] : S \in SUBSET names}
    IN  [ms -> {<<x>> : x \in IF n = 1 THEN bodies(1) ELSE {}}
                \cup {<<x, y>> : x, y \in IF n = 2 THEN bodies(1) \cup bodies(2) ELSE {}}]

MetricsOf(channels) == {Sub(c) : c \in channels} \cup {Unsub(c) : c \in channels}

WorldsOf(tool, channels, names, sizes, ls) ==
    [tool : {tool}, present : SUBSET MetricsOf(channels),
     events : UNION {EventsOf(MetricsOf(channels), names, n) : n \in sizes}, lists : ls]

Listed(id, name) == [id |-> id, name |-> name, size |-> 7]

Listings == {<<>>, <<Listed(l1, red)>>, <<Listed(l1, red), Listed(l2, blue)>>,
             <<Listed(l1, red), Listed(l2, red)>>}

MCWorlds ==
    WorldsOf("growth", {"list", "sms"}, {all}, {1}, {<<>>})
    \cup WorldsOf("by_list", {"list"}, {red, blue}, {1, 2}, {<<>>})
    \cup WorldsOf("breakdown", {"list"}, {red, blue}, {1}, Listings)
=============================================================================
