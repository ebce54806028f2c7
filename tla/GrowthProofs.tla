--------------------------- MODULE GrowthProofs ---------------------------
(***************************************************************************)
(* Proofs about Growth for any channels, lists and periods: its types,     *)
(* that its warnings are true, that the breakdown keeps every list, that a *)
(* count is whole or null, and that rows add up to totals.                 *)
(***************************************************************************)
EXTENDS Growth, SumsProofs, SequenceTheorems

\* The stage that comes after each.
LEMMA Course ==
    /\ Stages["growth"] = <<"discover", "metrics", "done">>
    /\ Stages["by_list"] = <<"discover", "metrics", "lists", "done">>
    /\ Stages["breakdown"] = <<"lists", "sizes", "discover", "metrics", "done">>
    /\ world.tool = "growth" =>
          After("discover") = "metrics" /\ After("metrics") = "done"
    /\ world.tool = "by_list" =>
          /\ After("discover") = "metrics" /\ After("metrics") = "lists"
          /\ After("lists") = "done"
    /\ world.tool = "breakdown" =>
          /\ After("lists") = "sizes" /\ After("sizes") = "discover"
          /\ After("discover") = "metrics" /\ After("metrics") = "done"
<1>1. /\ Stages["growth"] = <<"discover", "metrics", "done">>
      /\ Stages["by_list"] = <<"discover", "metrics", "lists", "done">>
      /\ Stages["breakdown"] = <<"lists", "sizes", "discover", "metrics", "done">>
  BY DEF Stages
<1>2. ASSUME NEW s, NEW i \in DOMAIN Stages[world.tool], Stages[world.tool][i] = s,
             \A j \in DOMAIN Stages[world.tool] : Stages[world.tool][j] = s => j = i
      PROVE  After(s) = Stages[world.tool][i + 1]
  <2>1. (CHOOSE j \in DOMAIN Stages[world.tool] : Stages[world.tool][j] = s) = i
    BY <1>2
  <2> QED  BY <2>1 DEF After
<1>3. CASE world.tool = "growth"
  <2> DEFINE p == <<"discover", "metrics", "done">>
  <2>1. Stages[world.tool] = p  BY <1>1, <1>3
  <2>2. After("discover") = p[2]  BY <1>2, <2>1
  <2>3. After("metrics") = p[3]  BY <1>2, <2>1
  <2> QED  BY <1>1, <1>3, <2>2, <2>3
<1>4. CASE world.tool = "by_list"
  <2> DEFINE p == <<"discover", "metrics", "lists", "done">>
  <2>1. Stages[world.tool] = p  BY <1>1, <1>4
  <2>2. After("discover") = p[2]  BY <1>2, <2>1
  <2>3. After("metrics") = p[3]  BY <1>2, <2>1
  <2>4. After("lists") = p[4]  BY <1>2, <2>1
  <2> QED  BY <1>1, <1>4, <2>2, <2>3, <2>4
<1>5. CASE world.tool = "breakdown"
  <2> DEFINE p == <<"lists", "sizes", "discover", "metrics", "done">>
  <2>1. Stages[world.tool] = p  BY <1>1, <1>5
  <2>2. After("lists") = p[2]  BY <1>2, <2>1
  <2>3. After("sizes") = p[3]  BY <1>2, <2>1
  <2>4. After("discover") = p[4]  BY <1>2, <2>1
  <2>5. After("metrics") = p[5]  BY <1>2, <2>1
  <2> QED  BY <1>1, <1>5, <2>2, <2>3, <2>4, <2>5
<1> QED  BY <1>1, <1>3, <1>4, <1>5

-----------------------------------------------------------------------------
LEMMA MetricsLen ==
    /\ Len(Metrics) \in Nat
    /\ DOMAIN Metrics = 1 .. Len(Metrics)
<1>1. CASE world.tool = "growth"
  <2> DEFINE n == 2 * Len(Categories)
  <2>1. n \in Nat  BY CategoriesAssumption, LenProperties
  <2>2. Metrics = [k \in 1 .. n |-> IF k % 2 = 1 THEN Sub(Categories[(k + 1) \div 2])
                                    ELSE Unsub(Categories[k \div 2])]
    BY <1>1 DEF Metrics
  <2> HIDE DEF n
  <2>3. Metrics \in [1 .. n -> Range(Metrics)]
    BY <2>2 DEF Range
  <2>4. Metrics \in Seq(Range(Metrics))
    BY <2>1, <2>3, SeqDef
  <2> QED  BY <2>4, LenProperties
<1>2. CASE world.tool # "growth"
  <2>1. Metrics = <<Sub("list"), Unsub("list")>>  BY <1>2 DEF Metrics
  <2> QED  BY <2>1
<1> QED  BY <1>1, <1>2

LEMMA AppendOne ==
    ASSUME NEW S, NEW q \in Seq(S), NEW T, NEW e \in T, S \subseteq T
    PROVE  /\ Append(q, e) \in Seq(T)
           /\ Len(q) \in Nat /\ Len(Append(q, e)) = Len(q) + 1
           /\ Append(q, e) # <<>>
           /\ DOMAIN q = 1 .. Len(q)
           /\ DOMAIN Append(q, e) = 1 .. Len(q) + 1
           /\ \A i \in 1 .. Len(q) : Append(q, e)[i] = q[i]
           /\ Append(q, e)[Len(q) + 1] = e
<1>1. q \in Seq(T)  BY SeqMonotonic
<1>2. Len(q) \in Nat /\ DOMAIN q = 1 .. Len(q)  BY LenProperties
<1>3. Append(q, e) \in Seq(T) /\ Len(Append(q, e)) = Len(q) + 1
  BY <1>1, AppendProperties
<1>4. Append(q, e) # <<>>  BY <1>2, <1>3, EmptySeq
<1>5. DOMAIN Append(q, e) = 1 .. Len(q) + 1  BY <1>3, LenProperties
<1> QED  BY <1>1, <1>2, <1>3, <1>4, <1>5, AppendProperties

\* A count per list name, of finitely many.
Tally(f) == IsFiniteSet(DOMAIN f) /\ \A n \in DOMAIN f : f[n] \in Nat

LEMMA NoTally == Tally(NoCounts)
<1>1. DOMAIN NoCounts = {}  BY DEF NoCounts
<1> QED  BY <1>1, FS_EmptySet DEF Tally

LEMMA PlusTally ==
    ASSUME NEW f, NEW g, Tally(f), Tally(g)
    PROVE  Tally(Plus(f, g))
<1>1. DOMAIN Plus(f, g) = DOMAIN f \cup DOMAIN g  BY DEF Plus
<1>2. IsFiniteSet(DOMAIN f \cup DOMAIN g)  BY FS_Union DEF Tally
<1>3. \A n : At(f, n) \in Nat /\ At(g, n) \in Nat  BY DEF At, Tally
<1>4. \A n \in DOMAIN Plus(f, g) : Plus(f, g)[n] \in Nat  BY <1>3 DEF Plus
<1> QED  BY <1>1, <1>2, <1>4 DEF Tally

HealthRows == UNION {{Row(l, l.size), Row(l, Null)} : l \in Range(world.lists)}

\* The rows of health are those of the first lists, in order; the breakdown goes
\* on when they are all there.
Kept ==
    /\ health \in Seq(HealthRows) /\ Len(health) <= Len(world.lists)
    /\ \A i \in 1 .. Len(health) :
          health[i] \in {Row(world.lists[i], world.lists[i].size), Row(world.lists[i], Null)}
    /\ world.tool = "breakdown" /\ stage \in {"discover", "metrics", "done"} =>
          Len(health) = Len(world.lists)

\* The metrics before the current one have their count, and those of them that are
\* absent are the unresolved.
Counted ==
    /\ counts \in Seq(Range(counts)) /\ Len(counts) <= Len(Metrics)
    /\ \A i \in 1 .. Len(counts) : counts[i] # Null => Tally(counts[i])
    /\ chunk \in Nat /\ Tally(merged)
    /\ world.tool = "breakdown" /\ counts # <<>> => stage \in {"metrics", "done"}
    /\ stage = "done" \/ (world.tool = "by_list" /\ stage = "lists") =>
          Len(counts) = Len(Metrics)
    /\ stage = "discover" \/ (world.tool = "breakdown" /\ stage \in {"lists", "sizes"}) =>
          counts = <<>>
    /\ unresolved = {Metrics[i] : i \in 1 .. Len(counts)} \ world.present

GrowthInv ==
    /\ world \in Worlds
    /\ stage \in {Stages[world.tool][i] : i \in DOMAIN Stages[world.tool]} \cup {"failed"}
    /\ Kept
    /\ Counted

LEMMA InvInit == Init => GrowthInv
<1> SUFFICES ASSUME Init PROVE GrowthInv
  OBVIOUS
<1>1. world \in Worlds /\ world.tool \in {"growth", "by_list", "breakdown"}
      /\ world.lists \in Seq(Range(world.lists))
  BY WorldsAssumption DEF Init
<1>2. stage = Stages[world.tool][1]  BY DEF Init
<1>3. /\ stage \in {Stages[world.tool][i] : i \in DOMAIN Stages[world.tool]}
      /\ stage \in {"discover", "lists"}
      /\ world.tool = "breakdown" => stage = "lists"
      /\ world.tool # "breakdown" => stage = "discover"
  <2>1. CASE world.tool = "growth"  BY <1>2, <2>1, Course
  <2>2. CASE world.tool = "by_list"  BY <1>2, <2>2, Course
  <2>3. CASE world.tool = "breakdown"  BY <1>2, <2>3, Course
  <2> QED  BY <1>1, <2>1, <2>2, <2>3
<1>4. Len(world.lists) \in Nat /\ Len(Metrics) \in Nat
  BY <1>1, LenProperties, MetricsLen
<1>5. Kept
  BY <1>3, <1>4, EmptySeq DEF Init, Kept
<1>6. Counted
  BY <1>3, <1>4, EmptySeq, NoTally DEF Init, Counted
<1> QED  BY <1>1, <1>3, <1>5, <1>6 DEF GrowthInv

\* The stages a call goes through, and where they lead.
LEMMA Onward ==
    ASSUME GrowthInv
    PROVE  /\ world.tool \in {"growth", "by_list", "breakdown"}
           /\ stage \in {"lists", "sizes", "discover", "metrics", "done", "failed"}
           /\ stage = "sizes" => world.tool = "breakdown"
           /\ stage = "lists" => world.tool \in {"by_list", "breakdown"}
           /\ stage \in {"lists", "sizes", "discover", "metrics"} =>
                 After(stage) \in {Stages[world.tool][i] : i \in DOMAIN Stages[world.tool]}
           /\ stage = "discover" => After(stage) = "metrics"
           /\ stage = "sizes" => After(stage) = "discover"
           /\ stage = "lists" => After(stage) = IF world.tool = "breakdown" THEN "sizes" ELSE "done"
           /\ stage = "metrics" => After(stage) = IF world.tool = "by_list" THEN "lists" ELSE "done"
<1>1. world.tool \in {"growth", "by_list", "breakdown"}
  BY WorldsAssumption DEF GrowthInv
<1>2. CASE world.tool = "growth"
  <2>1. {Stages[world.tool][i] : i \in DOMAIN Stages[world.tool]} = {"discover", "metrics", "done"}
    BY <1>2, Course
  <2> QED  BY <1>2, <2>1, Course DEF GrowthInv
<1>3. CASE world.tool = "by_list"
  <2>1. {Stages[world.tool][i] : i \in DOMAIN Stages[world.tool]}
          = {"discover", "metrics", "lists", "done"}
    BY <1>3, Course
  <2> QED  BY <1>3, <2>1, Course DEF GrowthInv
<1>4. CASE world.tool = "breakdown"
  <2>1. {Stages[world.tool][i] : i \in DOMAIN Stages[world.tool]}
          = {"lists", "sizes", "discover", "metrics", "done"}
    BY <1>4, Course
  <2> QED  BY <1>4, <2>1, Course DEF GrowthInv
<1> QED  BY <1>1, <1>2, <1>3, <1>4

\* One more metric is done, with a count or none.
LEMMA CloseCounted ==
    ASSUME GrowthInv, Summing, NEW c, c # Null => Tally(c), Close(c),
           UNCHANGED <<world, stage, health>>,
           unresolved' = unresolved \cup (IF Metric \in world.present THEN {} ELSE {Metric})
    PROVE  GrowthInv'
<1> DEFINE n == Len(counts)
<1>1. /\ stage = "metrics" /\ n < Len(Metrics)
      /\ counts' = Append(counts, c) /\ chunk' = 0 /\ merged' = NoCounts
  BY DEF Summing, Close
<1>2. /\ n \in Nat /\ Len(counts') = n + 1 /\ DOMAIN counts = 1 .. n
      /\ DOMAIN counts' = 1 .. n + 1
      /\ \A i \in 1 .. n : counts'[i] = counts[i]
      /\ counts'[n + 1] = c
  BY <1>1, AppendOne DEF GrowthInv, Counted
<1>3. counts' \in Seq(Range(counts'))
  <2>1. Range(counts) \subseteq Range(counts') /\ c \in Range(counts')
    BY <1>2 DEF Range
  <2> QED  BY <1>1, <2>1, AppendOne DEF GrowthInv, Counted
<1>4. Metrics' = Metrics  BY DEF Metrics
<1>5. n + 1 <= Len(Metrics)  BY <1>1, <1>2, MetricsLen
<1>6. \A i \in 1 .. n + 1 : i \in 1 .. n \/ i = n + 1  BY <1>2
<1>7. \A i \in 1 .. n + 1 : counts'[i] # Null => Tally(counts'[i])
  BY <1>2, <1>6 DEF GrowthInv, Counted
<1>8. Tally(merged')  BY <1>1, NoTally
<1>9. unresolved' = {Metrics[i] : i \in 1 .. n + 1} \ world.present
  <2>1. {Metrics[i] : i \in 1 .. n + 1} = {Metrics[i] : i \in 1 .. n} \cup {Metric}
    BY <1>2, <1>6 DEF Metric
  <2>2. unresolved = {Metrics[i] : i \in 1 .. n} \ world.present
    BY DEF GrowthInv, Counted
  <2> QED  BY <2>1, <2>2
<1> HIDE DEF n
<1>10. Counted'
  BY <1>1, <1>2, <1>3, <1>4, <1>5, <1>7, <1>8, <1>9 DEF Counted, n
<1>11. Kept'  BY DEF GrowthInv, Kept, HealthRows
<1> QED  BY <1>10, <1>11 DEF GrowthInv

\* One more list has its row.
LEMMA SizedKept ==
    ASSUME GrowthInv, Sizing, NEW size,
           size \in {world.lists[Len(health) + 1].size, Null},
           health' = Append(health, Row(world.lists[Len(health) + 1], size)),
           UNCHANGED <<world, stage, chunk, merged, counts, unresolved>>
    PROVE  GrowthInv'
<1> DEFINE n == Len(health)
           l == world.lists[n + 1]
<1>1. stage = "sizes" /\ n < Len(world.lists)  BY DEF Sizing
<1>2. /\ world.lists \in Seq(Range(world.lists)) /\ Len(world.lists) \in Nat
      /\ DOMAIN world.lists = 1 .. Len(world.lists)
  BY WorldsAssumption, LenProperties DEF GrowthInv
<1>3. n \in Nat  BY LenProperties DEF GrowthInv, Kept
<1>4. l \in Range(world.lists)
  BY <1>1, <1>2, <1>3 DEF Range
<1>5. Row(l, size) \in HealthRows  BY <1>4 DEF HealthRows
<1>6. /\ health' \in Seq(HealthRows) /\ Len(health') = n + 1
      /\ \A i \in 1 .. n : health'[i] = health[i]
      /\ health'[n + 1] = Row(l, size)
  BY <1>5, AppendOne DEF GrowthInv, Kept
<1>7. n + 1 <= Len(world.lists)  BY <1>1, <1>2, <1>3
<1>8. \A i \in 1 .. n + 1 : i \in 1 .. n \/ i = n + 1  BY <1>3
<1>9. \A i \in 1 .. n + 1 :
         health'[i] \in {Row(world.lists[i], world.lists[i].size), Row(world.lists[i], Null)}
  BY <1>6, <1>8 DEF GrowthInv, Kept
<1> HIDE DEF n, l
<1>10. Kept'
  BY <1>1, <1>6, <1>7, <1>9 DEF Kept, HealthRows
<1>11. Counted'  BY DEF GrowthInv, Counted, Metrics
<1> QED  BY <1>10, <1>11 DEF GrowthInv
LEMMA InvStep == GrowthInv /\ [Next]_vars => GrowthInv'
<1> SUFFICES ASSUME GrowthInv, [Next]_vars PROVE GrowthInv'
  OBVIOUS
<1>1. CASE UNCHANGED vars \/ Ended
  BY <1>1 DEF vars, Ended, GrowthInv, Kept, HealthRows, Counted, Metrics
\* A stage that follows another takes over what that one has done.
<1>2. ASSUME stage' = After(stage),
             UNCHANGED <<world, chunk, merged, counts, unresolved, health>>,
             \/ stage \in {"discover", "lists"}
             \/ stage = "metrics" /\ Len(counts) = Len(Metrics)
             \/ stage = "sizes" /\ Len(health) = Len(world.lists)
      PROVE  GrowthInv'
  <2>1. Kept'
    BY <1>2, Onward DEF GrowthInv, Kept, HealthRows
  <2>2. Counted'
    <3>1. Metrics' = Metrics  BY <1>2 DEF Metrics
    <3>2. /\ counts # <<>> /\ world.tool = "breakdown" => stage' \in {"metrics", "done"}
          /\ stage' = "done" \/ (world.tool = "by_list" /\ stage' = "lists") =>
                Len(counts) = Len(Metrics)
          /\ stage' = "discover" \/ (world.tool = "breakdown" /\ stage' \in {"lists", "sizes"}) =>
                counts = <<>>
      BY <1>2, Onward DEF GrowthInv, Counted
    <3> QED  BY <1>2, <3>1, <3>2 DEF GrowthInv, Counted
  <2> QED  BY <1>2, <2>1, <2>2, Onward DEF GrowthInv
<1>3. CASE Discover \/ ListLists \/ MetricsDone \/ SizesDone
  BY <1>2, <1>3 DEF Discover, ListLists, MetricsDone, SizesDone
<1>4. CASE ListingFails
  <2>1. Kept'  BY <1>4 DEF ListingFails, GrowthInv, Kept, HealthRows
  <2>2. Counted'
    <3>1. world.tool = "breakdown" => counts = <<>>
      BY <1>4 DEF ListingFails, GrowthInv, Counted
    <3> QED  BY <1>4, <3>1 DEF ListingFails, GrowthInv, Counted, Metrics
  <2> QED  BY <1>4, <2>1, <2>2 DEF ListingFails, GrowthInv
<1>5. CASE Absent
  <2>1. Summing /\ Close(Null) /\ UNCHANGED <<world, stage, health>>
        /\ unresolved' = unresolved \cup (IF Metric \in world.present THEN {} ELSE {Metric})
    BY <1>5 DEF Absent
  <2> QED  BY <2>1, CloseCounted
<1>6. CASE AggregateFails
  BY <1>6, CloseCounted DEF AggregateFails
<1>7. CASE Total
  BY <1>7, CloseCounted DEF Total, GrowthInv, Counted
<1>8. CASE Aggregate
  <2> DEFINE e == world.events[Metric][chunk + 1]
  <2>1. /\ Metric \in world.present /\ chunk < Len(world.events[Metric])
        /\ chunk' = chunk + 1 /\ merged' = Plus(merged, e)
        /\ UNCHANGED <<world, stage, counts, unresolved, health>>
    BY <1>8 DEF Aggregate, ChunksLeft
  <2>2. e \in Range(world.events[Metric])
    <3>1. world.events[Metric] \in Seq(Range(world.events[Metric]))
      BY <2>1, WorldsAssumption DEF GrowthInv
    <3>2. chunk + 1 \in DOMAIN world.events[Metric]
      BY <2>1, <3>1, LenProperties DEF GrowthInv, Counted
    <3> QED  BY <3>2 DEF Range
  <2>3. Tally(e)
    BY <2>1, <2>2, WorldsAssumption DEF GrowthInv, Tally
  <2> HIDE DEF e
  <2>4. Tally(merged') /\ chunk' \in Nat
    BY <2>1, <2>3, PlusTally DEF GrowthInv, Counted
  <2>5. Kept' BY <2>1 DEF GrowthInv, Kept, HealthRows
  <2>6. Counted'  BY <2>1, <2>4 DEF GrowthInv, Counted, Metrics
  <2> QED  BY <2>1, <2>5, <2>6 DEF GrowthInv
<1>9. CASE Size
  BY <1>9, SizedKept DEF Size
<1>10. CASE SizeFails
  BY <1>10, SizedKept DEF SizeFails
<1> QED  BY <1>1, <1>3, <1>4, <1>5, <1>6, <1>7, <1>8, <1>9, <1>10 DEF Next

LEMMA GrowthInvariant == Spec => []GrowthInv
  BY InvInit, InvStep, PTL DEF Spec

\* The state stays well-typed, and no loop runs past its metrics or lists.
THEOREM GrowthTyped == Spec => []TypeOK
<1>1. GrowthInv => TypeOK
  <2> SUFFICES ASSUME GrowthInv PROVE TypeOK
    OBVIOUS
  <2>1. DOMAIN counts = 1 .. Len(counts) /\ Len(counts) \in Nat
    BY LenProperties DEF GrowthInv, Counted
  <2>2. \A i \in DOMAIN counts : counts[i] # Null => \A n \in DOMAIN counts[i] : counts[i][n] \in Nat
    BY <2>1 DEF GrowthInv, Counted, Tally
  <2>3. unresolved \subseteq {Metrics[i] : i \in DOMAIN Metrics}
    <3>1. \A i \in 1 .. Len(counts) : i \in DOMAIN Metrics
      <4>1. Len(counts) <= Len(Metrics)  BY DEF GrowthInv, Counted
      <4> QED  BY <2>1, <4>1, MetricsLen
    <3>2. unresolved \subseteq {Metrics[i] : i \in 1 .. Len(counts)}
      BY DEF GrowthInv, Counted
    <3> QED  BY <3>1, <3>2
  <2> QED  BY <2>2, <2>3 DEF GrowthInv, Kept, Counted, Tally, TypeOK
<1> QED  BY <1>1, GrowthInvariant, PTL

\* Whatever fails and however many channels there are, a call warns of the metrics
\* that are absent, all of them and no other (service.py:601-605).
THEOREM WarnsOfAbsent == Spec => []WarningsTrue
<1>1. GrowthInv => WarningsTrue
  BY MetricsLen DEF GrowthInv, Counted, WarningsTrue
<1> QED  BY <1>1, GrowthInvariant, PTL

\* However many of its lists cannot be sized, the breakdown has them all, in order
\* (service.py:499-501, 745-747).
THEOREM KeepsEveryList == Spec => []EveryListKept
<1>1. GrowthInv => EveryListKept
  <2> SUFFICES ASSUME GrowthInv, world.tool = "breakdown", stage = "done" \/ counts # <<>>
               PROVE  /\ Len(health) = Len(world.lists)
                      /\ \A i \in DOMAIN health : \E size \in {world.lists[i].size, Null} :
                            health[i] = Row(world.lists[i], size)
    BY DEF EveryListKept
  <2>1. Len(health) = Len(world.lists)
    BY DEF GrowthInv, Kept, Counted
  <2>2. DOMAIN health = 1 .. Len(health)
    BY LenProperties DEF GrowthInv, Kept
  <2> QED  BY <2>1, <2>2 DEF GrowthInv, Kept
<1> QED  BY <1>1, GrowthInvariant, PTL

-----------------------------------------------------------------------------
(* What the counts amount to.                                              *)

\* What Klaviyo counted of metric m in its first k chunks, for each list name in
\* them.
ChunkCounts(m, n) == [i \in DOMAIN world.events[m] |-> At(world.events[m][i], n)]

PartOf(m, k) ==
    [n \in UNION {DOMAIN world.events[m][i] : i \in 1 .. k} |->
        SumOver(ChunkCounts(m, n), 1 .. k)]

\* The count of each metric done is that of all its chunks, and what is merged so
\* far is that of the chunks of the current metric which are summed.
Summed ==
    /\ \A i \in 1 .. Len(counts) :
          counts[i] # Null =>
              /\ Metrics[i] \in world.present
              /\ counts[i] = PartOf(Metrics[i], Len(world.events[Metrics[i]]))
    /\ chunk = 0 => merged = NoCounts
    /\ chunk # 0 => /\ Summing /\ Metric \in world.present
                    /\ chunk <= Len(world.events[Metric])
                    /\ merged = PartOf(Metric, chunk)

LEMMA NothingOfNoChunks ==
    ASSUME NEW m
    PROVE  PartOf(m, 0) = NoCounts
<1>1. 1 .. 0 = {}  OBVIOUS
<1>2. UNION {DOMAIN world.events[m][i] : i \in 1 .. 0} = {}  BY <1>1
<1> QED  BY <1>2 DEF PartOf, NoCounts

\* What a chunk of a metric is.
LEMMA EventsShape ==
    ASSUME world \in Worlds, NEW m \in world.present
    PROVE  /\ Len(world.events[m]) \in Nat
           /\ DOMAIN world.events[m] = 1 .. Len(world.events[m])
           /\ \A i \in 1 .. Len(world.events[m]) : Tally(world.events[m][i])
           /\ \A n : \A i \in 1 .. Len(world.events[m]) : ChunkCounts(m, n)[i] \in Nat
           /\ \A n : \A i \in 1 .. Len(world.events[m]) :
                 ChunkCounts(m, n)[i] = At(world.events[m][i], n)
<1> DEFINE es == world.events[m]
<1>1. es \in Seq(Range(es))  BY WorldsAssumption
<1>2. Len(es) \in Nat /\ DOMAIN es = 1 .. Len(es)  BY <1>1, LenProperties
<1>3. \A i \in 1 .. Len(es) : Tally(es[i])
  BY <1>2, WorldsAssumption DEF Tally, Range
<1>4. \A n : \A i \in 1 .. Len(es) : At(es[i], n) \in Nat
  BY <1>3 DEF Tally, At
<1>5. \A n : \A i \in 1 .. Len(es) : ChunkCounts(m, n)[i] = At(es[i], n)
  BY <1>2 DEF ChunkCounts
<1> QED  BY <1>2, <1>3, <1>4, <1>5

\* A chunk more, merged into those before it.
LEMMA OneChunkMore ==
    ASSUME world \in Worlds, NEW m \in world.present,
           NEW k \in Nat, k < Len(world.events[m])
    PROVE  Plus(PartOf(m, k), world.events[m][k + 1]) = PartOf(m, k + 1)
<1> DEFINE es == world.events[m]
           f == PartOf(m, k)
           D == UNION {DOMAIN es[i] : i \in 1 .. k}
           E == UNION {DOMAIN es[i] : i \in 1 .. k + 1}
<1>1. 1 .. k + 1 = 1 .. k \cup {k + 1} /\ k + 1 \notin 1 .. k  OBVIOUS
<1>2. E = D \cup DOMAIN es[k + 1]  BY <1>1
<1>3. DOMAIN f = D  BY DEF PartOf
<1>4. ASSUME NEW n \in E
      PROVE  At(f, n) + At(es[k + 1], n) = SumOver(ChunkCounts(m, n), 1 .. k + 1)
  <2> DEFINE c == ChunkCounts(m, n)
  <2>1. \A i \in 1 .. k + 1 : c[i] \in Int /\ c[i] = At(es[i], n)
    <3>1. \A i \in 1 .. k + 1 : i \in 1 .. Len(es)  BY EventsShape
    <3> QED  BY <3>1, EventsShape
  <2>2. IsFiniteSet(1 .. k)  BY FS_Interval
  <2>3. \A i \in 1 .. k : c[i] \in Int  BY <1>1, <2>1
  <2>4. c[k + 1] \in Int /\ c[k + 1] = At(es[k + 1], n)  BY <2>1
  <2>5. At(f, n) = SumOver(c, 1 .. k)
    <3>1. CASE n \in D
      BY <3>1, <1>3 DEF At, PartOf
    <3>2. CASE n \notin D
      <4>1. \A i \in 1 .. k : c[i] = 0
        BY <1>1, <2>1, <3>2 DEF At
      <4> HIDE DEF c, f
      <4>2. SumOver(c, 1 .. k) = 0  BY <2>2, <4>1, SumZero
      <4>3. At(f, n) = 0  BY <1>3, <3>2 DEF At
      <4> QED  BY <4>2, <4>3
    <3> QED  BY <3>1, <3>2
  <2> HIDE DEF c, f
  <2>6. SumOver(c, 1 .. k \cup {k + 1}) = SumOver(c, 1 .. k) + c[k + 1]
    <3> DEFINE I == 1 .. k
               j == k + 1
    <3>1. j \notin I /\ IsFiniteSet(I) /\ (\A i \in I : c[i] \in Int) /\ c[j] \in Int
      BY <1>1, <2>2, <2>3, <2>4
    <3> HIDE DEF I, j
    <3>2. SumOver(c, I \cup {j}) = SumOver(c, I) + c[j]
      BY <3>1, SumAdd
    <3> QED  BY <3>2 DEF I, j
  <2> QED  BY <1>1, <2>4, <2>5, <2>6 DEF c
<1>5. Plus(f, es[k + 1]) = [n \in E |-> At(f, n) + At(es[k + 1], n)]
  BY <1>2, <1>3 DEF Plus
<1>6. PartOf(m, k + 1) = [n \in E |-> SumOver(ChunkCounts(m, n), 1 .. k + 1)]
  BY DEF PartOf
<1> HIDE DEF E, f
<1> QED  BY <1>4, <1>5, <1>6 DEF f

LEMMA SummedInit == Init => Summed
<1>1. Init => Len(counts) = 0 /\ chunk = 0 /\ merged = NoCounts  BY DEF Init
<1> QED  BY <1>1 DEF Summed

\* One more metric is done, with a count that is whole or with none.
LEMMA CloseSummed ==
    ASSUME GrowthInv, Summed, Summing, NEW c, Close(c), UNCHANGED world,
           c # Null => /\ Metric \in world.present
                       /\ c = PartOf(Metric, Len(world.events[Metric]))
    PROVE  Summed'
<1> DEFINE n == Len(counts)
<1>1. counts' = Append(counts, c) /\ chunk' = 0 /\ merged' = NoCounts
  BY DEF Close
<1>2. /\ n \in Nat /\ Len(counts') = n + 1
      /\ \A i \in 1 .. n : counts'[i] = counts[i]
      /\ counts'[n + 1] = c
  BY <1>1, AppendOne DEF GrowthInv, Counted
<1>3. Metrics' = Metrics /\ NoCounts' = NoCounts /\ \A m, k : PartOf(m, k)' = PartOf(m, k)
  BY DEF Metrics, PartOf, ChunkCounts, NoCounts
<1>4. ASSUME NEW i \in 1 .. n + 1, counts'[i] # Null
      PROVE  /\ Metrics[i] \in world.present
             /\ counts'[i] = PartOf(Metrics[i], Len(world.events[Metrics[i]]))
  <2>1. CASE i = n + 1  BY <1>2, <1>4, <2>1 DEF Metric
  <2>2. CASE i # n + 1
    <3>1. i \in 1 .. n  BY <1>2, <2>2
    <3> QED  BY <1>2, <1>4, <3>1 DEF Summed
  <2> QED  BY <2>1, <2>2
<1> HIDE DEF n
<1> QED  BY <1>1, <1>2, <1>3, <1>4 DEF Summed

LEMMA SummedStep == GrowthInv /\ Summed /\ [Next]_vars => Summed'
<1> SUFFICES ASSUME GrowthInv, Summed, [Next]_vars PROVE Summed'
  OBVIOUS
<1>0. UNCHANGED world
  BY DEF Next, Discover, ListLists, ListingFails, Absent, Aggregate, AggregateFails, Total,
         MetricsDone, Size, SizeFails, SizesDone, Ended, vars
<1>a. Metrics' = Metrics /\ NoCounts' = NoCounts /\ \A m, k : PartOf(m, k)' = PartOf(m, k)
  BY <1>0 DEF Metrics, PartOf, ChunkCounts, NoCounts
<1>1. ASSUME UNCHANGED <<chunk, merged, counts>>, Summing => stage' = stage
      PROVE  Summed'
  <2>1. Metric' = Metric  BY <1>1, <1>a DEF Metric
  <2>2. Summing => Summing'  BY <1>1, <1>a DEF Summing
  <2> QED  BY <1>0, <1>1, <1>a, <2>1, <2>2 DEF Summed
<1>2. CASE UNCHANGED vars \/ Ended
  BY <1>1, <1>2 DEF Ended, vars
<1>3. CASE Discover \/ ListLists \/ ListingFails \/ MetricsDone \/ SizesDone
  BY <1>1, <1>3 DEF Discover, ListLists, ListingFails, MetricsDone, SizesDone, Summing
<1>4. CASE Size \/ SizeFails
  BY <1>1, <1>4 DEF Size, SizeFails
<1>5. CASE Absent
  BY <1>0, <1>5, CloseSummed DEF Absent
<1>6. CASE AggregateFails
  BY <1>0, <1>6, CloseSummed DEF AggregateFails
<1>7. CASE Total
  <2>1. /\ Summing /\ Metric \in world.present /\ Close(merged)
        /\ ~(chunk < Len(world.events[Metric])) /\ chunk \in Nat
        /\ Len(world.events[Metric]) \in Nat
    BY <1>7, EventsShape DEF Total, ChunksLeft, GrowthInv, Counted
  <2>2. merged = PartOf(Metric, Len(world.events[Metric]))
    <3>1. CASE chunk = 0
      <4>1. Len(world.events[Metric]) = 0  BY <2>1, <3>1
      <4> QED  BY <3>1, <4>1, NothingOfNoChunks DEF Summed
    <3>2. CASE chunk # 0
      <4>1. chunk = Len(world.events[Metric])  BY <2>1, <3>2 DEF Summed
      <4> QED  BY <3>2, <4>1 DEF Summed
    <3> QED  BY <3>1, <3>2
  <2> QED  BY <1>0, <2>1, <2>2, CloseSummed
<1>8. CASE Aggregate
  <2>1. /\ Summing /\ Metric \in world.present /\ chunk < Len(world.events[Metric])
        /\ chunk' = chunk + 1 /\ merged' = Plus(merged, world.events[Metric][chunk + 1])
        /\ UNCHANGED <<stage, counts>>
    BY <1>8 DEF Aggregate, ChunksLeft
  <2>2. chunk \in Nat /\ world \in Worlds /\ Len(world.events[Metric]) \in Nat
    BY <2>1, EventsShape DEF GrowthInv, Counted
  <2>3. merged = PartOf(Metric, chunk)
    BY NothingOfNoChunks DEF Summed
  <2>4. merged' = PartOf(Metric, chunk + 1)
    BY <2>1, <2>2, <2>3, OneChunkMore
  <2>5. Metric' = Metric /\ Summing'
    BY <1>a, <2>1 DEF Metric, Summing
  <2>6. chunk' # 0 /\ chunk' <= Len(world.events[Metric])
    BY <2>1, <2>2
  <2> QED  BY <1>0, <1>a, <2>1, <2>4, <2>5, <2>6 DEF Summed
<1> QED  BY <1>2, <1>3, <1>4, <1>5, <1>6, <1>7, <1>8 DEF Next

LEMMA SummedInvariant == Spec => []Summed
  BY InvInit, InvStep, SummedInit, SummedStep, PTL DEF Spec

\* However a period is cut into chunks and whichever of them fail, a metric's
\* counts are those of the whole period or null: never the part summed before a
\* failure, nor anything of another metric (service.py:570-571, 651-656).
THEOREM CountsWholeOrNull == Spec => []WholeOrNull
<1>1. GrowthInv /\ Summed => WholeOrNull
  <2> SUFFICES ASSUME GrowthInv, Summed, NEW i \in DOMAIN counts, counts[i] # Null
               PROVE  /\ Metrics[i] \in world.present
                      /\ DOMAIN counts[i] = UNION {DOMAIN e : e \in Range(world.events[Metrics[i]])}
                      /\ \A n \in DOMAIN counts[i] : counts[i][n] = InWorld(Metrics[i], n)
    BY DEF WholeOrNull
  <2> DEFINE m == Metrics[i]
             es == world.events[m]
  <2>1. i \in 1 .. Len(counts)
    BY LenProperties DEF GrowthInv, Counted
  <2>2. m \in world.present /\ counts[i] = PartOf(m, Len(es))
    BY <2>1 DEF Summed
  <2>3. DOMAIN es = 1 .. Len(es)
    BY <2>2, EventsShape DEF GrowthInv
  <2>4. UNION {DOMAIN e : e \in Range(es)} = UNION {DOMAIN es[j] : j \in 1 .. Len(es)}
    BY <2>3 DEF Range
  <2>5. \A n : InWorld(m, n) = SumOver(ChunkCounts(m, n), 1 .. Len(es))
    <3> TAKE n
    <3>1. InWorld(m, n) = Sum(ChunkCounts(m, n))  BY DEF InWorld, ChunkCounts
    <3>2. DOMAIN ChunkCounts(m, n) = 1 .. Len(es)  BY <2>3 DEF ChunkCounts
    <3> QED  BY <3>1, <3>2 DEF Sum
  <2> QED  BY <2>2, <2>4, <2>5 DEF PartOf
<1> QED  BY <1>1, GrowthInvariant, SummedInvariant, PTL

-----------------------------------------------------------------------------
(* Rows and totals.                                                        *)

\* A count spread over any rows that include all its names adds up to its sum.
LEMMA SpreadOver ==
    ASSUME NEW c, Tally(c), NEW R, IsFiniteSet(R), DOMAIN c \subseteq R,
           NEW h, \A n \in R : h[n] = At(c, n)
    PROVE  SumOver(h, R) = Sum(c)
<1> DEFINE D == DOMAIN c
<1>1. \A n \in D : h[n] = c[n] /\ h[n] \in Int /\ c[n] \in Int
  BY DEF Tally, At
<1>2. \A n \in R \ D : h[n] = 0  BY DEF At
<1>3. IsFiniteSet(D)  BY DEF Tally
<1>4. SumOver(h, R) = SumOver(h, D)  BY <1>1, <1>2, SumSupport
<1>5. SumOver(h, D) = SumOver(c, D)  BY <1>1, <1>3, SumEqual
<1> QED  BY <1>4, <1>5 DEF Sum

\* The cells of any rows that include all names of either count add up.
LEMMA CellsAddUp ==
    ASSUME NEW R, IsFiniteSet(R), RowNames \subseteq R,
           counts[1] # Null => Tally(counts[1]),
           counts[2] # Null => Tally(counts[2]),
           NEW figure \in {"subscribed", "unsubscribed", "net"}, Totals[figure] # Null
    PROVE  /\ \A n \in R : Cell(n)[figure] \in Int
           /\ Totals[figure] = SumOver([n \in R |-> Cell(n)[figure]], R)
<1> DEFINE s == [n \in R |-> At(counts[1], n)]
           u == [n \in R |-> At(counts[2], n)]
<1>1. ASSUME counts[1] # Null
      PROVE  /\ \A n \in R : s[n] \in Int /\ CountFor(counts[1], n) = s[n]
             /\ SumOver(s, R) = Sum(counts[1]) /\ SumOf(counts[1]) = Sum(counts[1])
  <2>1. Tally(counts[1]) /\ DOMAIN counts[1] \subseteq R  BY <1>1 DEF RowNames, NamesOf
  <2>2. SumOver(s, R) = Sum(counts[1])  BY <2>1, SpreadOver
  <2> QED  BY <1>1, <2>1, <2>2 DEF CountFor, SumOf, Tally, At
<1>2. ASSUME counts[2] # Null
      PROVE  /\ \A n \in R : u[n] \in Int /\ CountFor(counts[2], n) = u[n]
             /\ SumOver(u, R) = Sum(counts[2]) /\ SumOf(counts[2]) = Sum(counts[2])
  <2>1. Tally(counts[2]) /\ DOMAIN counts[2] \subseteq R  BY <1>2 DEF RowNames, NamesOf
  <2>2. SumOver(u, R) = Sum(counts[2])  BY <2>1, SpreadOver
  <2> QED  BY <1>2, <2>1, <2>2 DEF CountFor, SumOf, Tally, At
<1>3. CASE figure = "subscribed"
  <2>1. counts[1] # Null  BY <1>3 DEF Totals, SumOf
  <2>2. [n \in R |-> Cell(n)[figure]] = s
    BY <1>1, <1>3, <2>1 DEF Cell
  <2>3. Totals[figure] = Sum(counts[1])  BY <1>1, <1>3, <2>1 DEF Totals
  <2>4. \A n \in R : Cell(n)[figure] = s[n]  BY <1>1, <1>3, <2>1 DEF Cell
  <2> HIDE DEF s
  <2> QED  BY <1>1, <2>1, <2>2, <2>3, <2>4
<1>4. CASE figure = "unsubscribed"
  <2>1. counts[2] # Null  BY <1>4 DEF Totals, SumOf
  <2>2. [n \in R |-> Cell(n)[figure]] = u
    BY <1>2, <1>4, <2>1 DEF Cell
  <2>3. Totals[figure] = Sum(counts[2])  BY <1>2, <1>4, <2>1 DEF Totals
  <2>4. \A n \in R : Cell(n)[figure] = u[n]  BY <1>2, <1>4, <2>1 DEF Cell
  <2> HIDE DEF u
  <2> QED  BY <1>2, <2>1, <2>2, <2>3, <2>4
<1>5. CASE figure = "net"
  <2> DEFINE d == [n \in R |-> Cell(n)[figure]]
  <2>1. counts[1] # Null /\ counts[2] # Null  BY <1>5 DEF Totals, SumOf, Net
  <2>2. Totals[figure] = Sum(counts[1]) - Sum(counts[2])
    BY <1>1, <1>2, <1>5, <2>1 DEF Totals, Net
  <2>3. \A n \in R : s[n] \in Int /\ u[n] \in Int  BY <1>1, <1>2, <2>1
  <2>4. \A n \in R : Cell(n)[figure] = s[n] - u[n]
    <3> SUFFICES ASSUME NEW n \in R PROVE Cell(n)[figure] = s[n] - u[n]
      OBVIOUS
    <3>1. CountFor(counts[1], n) = s[n] /\ CountFor(counts[2], n) = u[n]
      BY <1>1, <1>2, <2>1
    <3> HIDE DEF s, u
    <3>2. s[n] # Null /\ u[n] # Null  BY <2>3, NullAssumption
    <3> QED  BY <1>5, <3>1, <3>2 DEF Cell, Net
  <2>5. \A n \in R : d[n] \in Int /\ u[n] \in Int /\ s[n] = d[n] + u[n]
    <3>1. \A n \in R : d[n] = s[n] - u[n]  BY <2>4
    <3> HIDE DEF d, s, u
    <3> QED  BY <2>3, <3>1
  <2> HIDE DEF d, s, u
  <2>6. SumOver(s, R) = SumOver(d, R) + SumOver(u, R)
    BY <2>5, SumPlus
  <2>7. SumOver(d, R) \in Int /\ SumOver(u, R) \in Int
    BY <2>5, SumInt
  <2>8. SumOver(s, R) = Sum(counts[1]) /\ SumOver(u, R) = Sum(counts[2])
    BY <1>1, <1>2, <2>1
  <2>9. Totals[figure] = SumOver(d, R)
    BY <2>2, <2>6, <2>7, <2>8
  <2>10. \A n \in R : Cell(n)[figure] \in Int  BY <2>5 DEF d
  <2> QED  BY <2>9, <2>10 DEF d
<1> QED  BY <1>3, <1>4, <1>5

\* The rows of get_list_growth_by_list add up to its totals, "the account-wide
\* sums", and so do those of the breakdown where names tell the lists apart, for
\* any lists and any counts (service.py:691-692).
THEOREM RowsMakeTotals == Spec => []RowsAddUp
<1>1. GrowthInv => RowsAddUp
  <2> SUFFICES ASSUME GrowthInv, stage = "done", world.tool \in {"by_list", "breakdown"}
               PROVE  /\ world.tool = "by_list" => AddsUp(Cell, RowNames)
                      /\ world.tool = "breakdown" /\ NamesDecide =>
                            AddsUp(LAMBDA i : Cell(health[i].name), DOMAIN health)
    BY DEF RowsAddUp
  <2>1. Len(counts) = 2
    <3>1. Metrics = <<Sub("list"), Unsub("list")>>  BY DEF Metrics
    <3>2. Len(counts) = Len(Metrics)  BY DEF GrowthInv, Counted
    <3> QED  BY <3>1, <3>2
  <2>2. \A i \in {1, 2} : counts[i] # Null => Tally(counts[i])
    BY <2>1 DEF GrowthInv, Counted
  <2>3. IsFiniteSet(RowNames)
    <3>1. \A i \in {1, 2} : IsFiniteSet(NamesOf(counts[i]))
      BY <2>2, FS_EmptySet DEF NamesOf, Tally
    <3> QED  BY <3>1, FS_Union DEF RowNames
  <2>4. AddsUp(Cell, RowNames)
    <3> SUFFICES ASSUME NEW figure \in {"subscribed", "unsubscribed", "net"},
                        Totals[figure] # Null
                 PROVE  Totals[figure] = Sum([n \in RowNames |-> Cell(n)[figure]])
      BY DEF AddsUp
    <3> QED  BY <2>2, <2>3, CellsAddUp DEF Sum
  <2>5. ASSUME world.tool = "breakdown", NamesDecide
        PROVE  AddsUp(LAMBDA i : Cell(health[i].name), DOMAIN health)
    <3> SUFFICES ASSUME NEW figure \in {"subscribed", "unsubscribed", "net"},
                        Totals[figure] # Null
                 PROVE  Totals[figure]
                          = Sum([i \in DOMAIN health |-> Cell(health[i].name)[figure]])
      BY DEF AddsUp
    <3> DEFINE D == DOMAIN health
               name == [i \in D |-> health[i].name]
               R == {name[i] : i \in D}
               f == [n \in R |-> Cell(n)[figure]]
               g == [i \in D |-> Cell(health[i].name)[figure]]
    <3>1. /\ Len(health) = Len(world.lists) /\ Len(health) \in Nat
          /\ D = 1 .. Len(health) /\ DOMAIN world.lists = 1 .. Len(health)
      <4>1. Len(health) = Len(world.lists)  BY <2>5 DEF GrowthInv, Kept
      <4>2. world.lists \in Seq(Range(world.lists))  BY WorldsAssumption DEF GrowthInv
      <4> QED  BY <4>1, <4>2, LenProperties DEF GrowthInv, Kept
    <3>2. \A i \in D : name[i] = world.lists[i].name
      BY <3>1 DEF GrowthInv, Kept, Row
    <3>3. IsFiniteSet(D)  BY <3>1, FS_Interval
    <3>4. \A i, j \in D : name[i] = name[j] => i = j
      BY <2>5, <3>1, <3>2 DEF NamesDecide
    <3>5. R = {world.lists[i].name : i \in DOMAIN world.lists}
      BY <3>1, <3>2
    <3>6. RowNames \subseteq R  BY <2>5, <3>5 DEF NamesDecide
    <3>7. IsFiniteSet(R)
      <4>1. name \in Surjection(D, R)  BY DEF Surjection
      <4> QED  BY <3>3, <4>1, FS_Surjection
    <3>8. /\ \A n \in R : Cell(n)[figure] \in Int
          /\ Totals[figure] = SumOver(f, R)
      BY <2>2, <3>6, <3>7, CellsAddUp
    <3>9. \A i \in D : name[i] \in R /\ g[i] = f[name[i]] /\ f[name[i]] \in Int
      BY <3>8
    <3> HIDE DEF f, g, name
    <3>10. SumOver(g, D) = SumOver(f, R)
      BY <3>3, <3>4, <3>9, SumRenamed
    <3>11. DOMAIN g = D  BY DEF g
    <3>12. Totals[figure] = Sum(g)  BY <3>8, <3>10, <3>11 DEF Sum
    <3> QED  BY <3>12 DEF g
  <2> QED  BY <2>4, <2>5
<1> QED  BY <1>1, GrowthInvariant, PTL
=============================================================================
