------------------------------ MODULE MCSeries ------------------------------
(***************************************************************************)
(* Series on small instances: two groups and two statistics, over one or   *)
(* two chunks of one or two dates in which any group or statistic may be   *)
(* missing or an array may be one value short, and over three chunks of    *)
(* one group and one statistic.                                            *)
(***************************************************************************)
EXTENDS Series

CONSTANTS f, h, p, sent, opens

TwoGroups == {[id |-> f, part |-> p], [id |-> h, part |-> p]}

\* The chunks of n dates over groups gs and statistics ss.
ChunksOf(n, gs, ss) ==
    LET arrays == UNION {[T -> {n - 1, n}] : T \in SUBSET ss}
    IN  {[dates |-> n, lengths |-> l] : l \in UNION {[S -> arrays] : S \in SUBSET gs}}

Wide == ChunksOf(1, TwoGroups, Stats) \cup ChunksOf(2, TwoGroups, {opens})
Narrow == ChunksOf(1, TwoGroups, {sent}) \cup {[dates |-> 0, lengths |-> Nothing]}

MCWorlds == {<<c>> : c \in Wide} \cup (Wide \X Wide) \cup (Narrow \X Narrow \X Narrow)
              \cup {<<>>}
=============================================================================
