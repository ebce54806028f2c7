--------------------------- MODULE ReportProofs ---------------------------
(***************************************************************************)
(* Proofs about Report for any groups, counts and plans: its requests are  *)
(* paced, the series of a trend are aligned to their buckets, and merging  *)
(* the chunks of a period neither loses a count nor credits it twice.      *)
(***************************************************************************)
EXTENDS Report, SumsProofs, SequenceTheorems

LEMMA AppendAny ==
    ASSUME NEW s, \E S : s \in Seq(S), NEW e
    PROVE  /\ \E S : Append(s, e) \in Seq(S)
           /\ Len(Append(s, e)) = Len(s) + 1 /\ Len(s) \in Nat
           /\ Append(s, e) # <<>>
<1>1. PICK S : s \in Seq(S)  OBVIOUS
<1>2. s \in Seq(S \cup {e})
  BY <1>1, LenProperties, ElementOfSeq, SeqDef
<1>3. e \in S \cup {e}  OBVIOUS
<1>4. /\ Append(s, e) \in Seq(S \cup {e})
      /\ Len(Append(s, e)) = Len(s) + 1 /\ Append(s, e) # <<>>
  BY <1>2, <1>3, AppendProperties, EmptySeq
<1> QED  BY <1>1, <1>4, LenProperties

-----------------------------------------------------------------------------
(* Pauses.                                                                 *)

\* A call that has just posted is inside a leg, or past its first one.
Resting ==
    /\ plan \in Plans
    /\ \E S : rows \in Seq(S)
    /\ \E S : chunks \in Seq(S)
    /\ stage = "asked" => rested
    /\ stage = "fetching" /\ ~rested => chunks # <<>> \/ Leg > 1

LEMMA RestingInit == Init => Resting
<1>1. <<>> \in Seq({})  BY EmptySeq
<1> QED  BY <1>1 DEF Init, Resting

LEMMA RestingStep == Resting /\ [Next]_vars => Resting'
<1> SUFFICES ASSUME Resting, [Next]_vars PROVE Resting'
  OBVIOUS
<1>1. CASE UNCHANGED vars \/ Ended  BY <1>1 DEF Ended, vars, Resting, Leg
<1>2. CASE Begin  BY <1>2 DEF Begin, Resting, Leg
<1>3. CASE Pause  BY <1>3 DEF Pause, PostDue, Resting
<1>4. CASE Post
  <2> DEFINE c == Narrow(world[Leg][Len(chunks) + 1])
  <2>1. /\ stage = "fetching" /\ chunks' = Append(chunks, c)
        /\ UNCHANGED <<plan, stage, rows>>
    BY <1>4 DEF Post, PostDue
  <2> HIDE DEF c
  <2>2. chunks' # <<>> /\ \E S : chunks' \in Seq(S)
    BY <2>1, AppendAny DEF Resting
  <2> QED  BY <2>1, <2>2 DEF Resting
<1>5. CASE PostFails  BY <1>5 DEF PostFails, Resting
<1>6. CASE Merge
  <2> DEFINE r == LegRows(chunks)
  <2>1. /\ stage = "fetching" /\ rows' = Append(rows, r) /\ chunks' = <<>>
        /\ UNCHANGED <<plan, stage, rested>>
    BY <1>6 DEF Merge
  <2> HIDE DEF r
  <2>2. /\ \E S : Append(rows, r) \in Seq(S)
        /\ Len(Append(rows, r)) = Len(rows) + 1 /\ Len(rows) \in Nat
    BY AppendAny DEF Resting
  <2>3. Leg' > 1 /\ \E S : rows' \in Seq(S)
    BY <2>1, <2>2 DEF Leg
  <2>4. <<>> \in Seq({})  BY EmptySeq
  <2> QED  BY <2>1, <2>4, <2>3 DEF Resting
<1>7. CASE Answer
  <2> DEFINE r == RolledUp(rows[1])
  <2>1. rows' \in {rows, <<r>>} /\ stage' = "done" /\ UNCHANGED <<plan, chunks>>
    BY <1>7 DEF Answer
  <2> HIDE DEF r
  <2>2. <<r>> \in Seq({r})  OBVIOUS
  <2> QED  BY <2>1, <2>2 DEF Resting
<1> QED  BY <1>1, <1>2, <1>3, <1>4, <1>5, <1>6, <1>7 DEF Next

\* No two reports of one period, nor two buckets of a trend, are posted without a
\* pause in between, however many there are (service.py:134-136, 1572-1576).
THEOREM ReportsPaced == Spec => Paced
<1>1. Resting /\ [Next]_vars
         => [(Post \/ PostFails) /\ plan.tool # "compare" => rested]_vars
  <2> SUFFICES ASSUME Resting, Post \/ PostFails, plan.tool # "compare", ~rested
               PROVE  FALSE
    BY DEF vars
  <2>1. /\ stage = "fetching" /\ Leg <= Legs /\ chunks = <<>>
        /\ plan.tool = "trend" => ~(Leg > 1)
    BY DEF Post, PostFails, PostDue, PauseDue
  <2>2. Leg > 1  BY <2>1 DEF Resting
  <2>3. plan.tool \in {"performance", "rollup"}
    BY <2>1, <2>2, PlansAssumption DEF Resting
  <2>4. Legs = 1  BY <2>3, PlansAssumption DEF Resting, Legs
  <2>5. Leg \in Nat
    BY AppendAny DEF Resting, Leg
  <2> QED  BY <2>1, <2>2, <2>4, <2>5
<1> QED  BY <1>1, RestingInit, RestingStep, PTL DEF Spec, Paced

-----------------------------------------------------------------------------
(* Trends.                                                                 *)

AskedIds(i) == {g.id : g \in {g \in DOMAIN world[i][1] : Asked(g)}}

\* The slots written so far, those of the first n buckets, are not zero for the
\* campaigns of their bucket, and all others are zero.
WrittenTo(n) ==
    \A i \in 1 .. Legs : \A c :
        (c \in DOMAIN slots /\ slots[c][i] # 0) <=> (i <= n /\ c \in AskedIds(i))

\* A bucket is one chunk, and it is written when it has come.
Slotting ==
    /\ Resting
    /\ world \in Worlds(plan.legs)
    /\ plan.tool = "trend" =>
          /\ stage = "asked" => chunks = <<>> /\ Len(rows) = 0
          /\ stage \in {"asked", "fetching"} => WrittenTo(Len(rows))
          /\ stage = "done" => WrittenTo(Legs)
          /\ stage = "fetching" =>
                /\ Leg <= Legs + 1
                /\ Leg <= Legs => chunks \in {<<>>, <<Narrow(world[Leg][1])>>}

LEMMA TrendLegs ==
    ASSUME Slotting, plan.tool = "trend"
    PROVE  /\ Legs \in Nat /\ DOMAIN plan.legs = 1 .. Legs
           /\ \A i \in 1 .. Legs : /\ plan.legs[i] = 1
                                   /\ world[i][1] \in [DOMAIN world[i][1] -> Counts]
<1>1. plan.legs \in Seq(Nat) /\ \A i \in DOMAIN plan.legs : plan.legs[i] = 1
  BY PlansAssumption DEF Slotting, Resting
<1>2. Legs \in Nat /\ DOMAIN plan.legs = 1 .. Legs
  BY <1>1, LenProperties DEF Legs
<1>3. ASSUME NEW i \in 1 .. Legs
      PROVE  world[i][1] \in [DOMAIN world[i][1] -> Counts]
  <2> DEFINE all == UNION {[1 .. plan.legs[j] -> Reports] : j \in DOMAIN plan.legs}
  <2>0. world \in [DOMAIN plan.legs -> all]
    BY DEF Slotting, Worlds
  <2>1. PICK j \in DOMAIN plan.legs : world[i] \in [1 .. plan.legs[j] -> Reports]
    <3>1. i \in DOMAIN plan.legs  BY <1>2, <1>3
    <3>2. world[i] \in all
      <4> HIDE DEF all
      <4> QED  BY <2>0, <3>1
    <3> QED  BY <3>2
  <2>2. world[i][1] \in Reports
    BY <1>1, <2>1
  <2> QED  BY <2>2 DEF Reports
<1> QED  BY <1>1, <1>2, <1>3

\* The one report of a bucket, once narrowed.
LEMMA NarrowIds ==
    ASSUME Slotting, plan.tool = "trend", NEW i \in 1 .. Legs
    PROVE  /\ Idents(Narrow(world[i][1])) = AskedIds(i)
           /\ \A g \in DOMAIN Narrow(world[i][1]) : Narrow(world[i][1])[g] # 0
<1>1. DOMAIN Narrow(world[i][1]) = {g \in DOMAIN world[i][1] : Asked(g)}
  BY DEF Narrow, Asked
<1>2. ASSUME NEW g \in DOMAIN Narrow(world[i][1])
      PROVE  Narrow(world[i][1])[g] # 0
  <2>1. Narrow(world[i][1])[g] \in Counts
    BY <1>1, TrendLegs DEF Narrow
  <2> QED  BY <2>1, CountsAssumption
<1> QED  BY <1>1, <1>2 DEF Idents, AskedIds

LEMMA SlottingMerge ==
    ASSUME Slotting, plan.tool = "trend", Merge
    PROVE  WrittenTo(Len(rows))'
<1> DEFINE n == Len(rows)
           new == Narrow(world[Leg][1])
<1>1. /\ stage = "fetching" /\ Leg <= Legs /\ Len(chunks) = plan.legs[Leg]
      /\ rows' = Append(rows, LegRows(chunks))
      /\ \E last \in LastRows(LegRows(chunks)) : slots' = SlotsWith(LegRows(chunks), last)
      /\ UNCHANGED <<plan, filter, world>>
  BY DEF Merge
<1>2. n \in Nat /\ Leg = n + 1 /\ Leg \in 1 .. Legs
  <2>1. n \in Nat  BY AppendAny DEF Slotting, Resting
  <2> QED  BY <1>1, <2>1, TrendLegs DEF Leg
<1>3. LegRows(chunks) = new
  <2>1. Len(chunks) = 1  BY <1>1, <1>2, TrendLegs
  <2>2. chunks \in {<<>>, <<new>>}  BY <1>1 DEF Slotting
  <2>3. chunks = <<new>>  BY <2>1, <2>2
  <2> QED  BY <2>1, <2>3 DEF LegRows
<1>4. /\ Idents(new) = AskedIds(n + 1)
      /\ \A g \in DOMAIN new : new[g] # 0
  BY <1>2, NarrowIds
<1> HIDE DEF new
<1>5. PICK last \in LastRows(new) : slots' = SlotsWith(new, last)
  BY <1>1, <1>3
<1>6. \A c \in Idents(new) : last[c] \in DOMAIN new
  BY DEF LastRows
<1>7. Len(rows') = n + 1
  BY <1>1, AppendAny DEF Slotting, Resting
<1>8. Legs' = Legs /\ \A i : AskedIds(i)' = AskedIds(i)
  BY <1>1 DEF Legs, AskedIds, Asked
<1>9. ASSUME NEW i \in 1 .. Legs, NEW c
      PROVE  (c \in DOMAIN slots' /\ slots'[c][i] # 0) <=> (i <= n + 1 /\ c \in AskedIds(i))
  <2>1. (c \in DOMAIN slots /\ slots[c][i] # 0) <=> (i <= n /\ c \in AskedIds(i))
    BY <1>1 DEF Slotting, WrittenTo
  <2>2. /\ DOMAIN slots' = DOMAIN slots \cup Idents(new)
        /\ c \in DOMAIN slots' =>
              slots'[c][i] = IF i = Leg /\ c \in Idents(new) THEN new[last[c]]
                             ELSE IF c \in DOMAIN slots THEN slots[c][i] ELSE 0
    BY <1>5 DEF SlotsWith
  <2>3. CASE i = n + 1
    BY <1>2, <1>4, <1>6, <2>1, <2>2, <2>3
  <2>4. CASE i # n + 1
    <3>1. i <= n + 1 <=> i <= n  BY <1>2, <2>4
    <3> QED  BY <1>2, <1>4, <2>1, <2>2, <2>4, <3>1
  <2> QED  BY <2>3, <2>4
<1> QED  BY <1>7, <1>8, <1>9 DEF WrittenTo

LEMMA SlottingInit == Init => Slotting
<1> SUFFICES ASSUME Init PROVE Slotting
  OBVIOUS
<1>1. Resting /\ world \in Worlds(plan.legs)
  BY RestingInit DEF Init
<1>2. Len(rows) = 0 /\ chunks = <<>> /\ stage = "asked"
  BY DEF Init
<1>3. WrittenTo(0)
  BY DEF Init, NoRows, WrittenTo
<1> QED  BY <1>1, <1>2, <1>3 DEF Slotting

LEMMA SlottingStep == Slotting /\ [Next]_vars => Slotting'
<1> SUFFICES ASSUME Slotting, [Next]_vars PROVE Slotting'
  OBVIOUS
<1>1. Resting' /\ (world \in Worlds(plan.legs))' /\ UNCHANGED <<plan, filter, world>>
  <2>1. UNCHANGED <<plan, filter, world>>
    BY DEF Next, Begin, Pause, Post, PostFails, Merge, Answer, Ended, vars
  <2> QED  BY <2>1, RestingStep DEF Slotting
<1>2. CASE plan.tool # "trend"
  BY <1>1, <1>2 DEF Slotting
<1>3. CASE plan.tool = "trend"
  <2>0. /\ Legs' = Legs
        /\ UNCHANGED slots => \A n : WrittenTo(n)' = WrittenTo(n)
        /\ UNCHANGED rows => Leg' = Leg
        /\ \A i : Narrow(world[i][1])' = Narrow(world[i][1])
    BY <1>1 DEF Legs, Leg, WrittenTo, AskedIds, Asked, Narrow
  <2>1. CASE UNCHANGED vars \/ Ended \/ Pause
    BY <1>1, <1>3, <2>0, <2>1 DEF vars, Ended, Pause, Slotting
  <2>2. CASE Begin
    <3>1. Leg = 1  BY <2>2, <1>3 DEF Begin, Slotting, Leg
    <3>2. Legs \in Nat  BY <1>3, TrendLegs
    <3> QED  BY <1>1, <1>3, <2>0, <2>2, <3>1, <3>2 DEF Begin, Slotting
  <2>3. CASE Post
    <3>1. /\ stage = "fetching" /\ Leg <= Legs /\ Len(chunks) < plan.legs[Leg]
          /\ chunks' = Append(chunks, Narrow(world[Leg][Len(chunks) + 1]))
          /\ UNCHANGED <<stage, rows, slots>>
      BY <2>3 DEF Post, PostDue
    <3>2. Leg \in 1 .. Legs
      <4>1. Leg \in Nat /\ Leg > 0  BY AppendAny DEF Slotting, Resting, Leg
      <4> QED  BY <1>3, <3>1, <4>1, TrendLegs
    <3>3. chunks = <<>>
      <4>1. Len(chunks) < 1  BY <1>3, <3>1, <3>2, TrendLegs
      <4> QED  BY <1>3, <3>1, <4>1 DEF Slotting
    <3>4. chunks' = <<Narrow(world[Leg][1])>>
      BY <3>1, <3>3
    <3> QED  BY <1>1, <1>3, <2>0, <3>1, <3>4 DEF Slotting
  <2>4. CASE PostFails
    BY <1>1, <1>3, <2>4 DEF PostFails, Slotting
  <2>5. CASE Merge
    <3>1. /\ stage' = "fetching" /\ chunks' = <<>> /\ Leg <= Legs
          /\ rows' = Append(rows, LegRows(chunks))
      BY <2>5 DEF Merge
    <3>2. Len(rows') = Len(rows) + 1 /\ Len(rows) \in Nat
      BY <3>1, AppendAny DEF Slotting, Resting
    <3>3. Leg' <= Legs' + 1
      BY <1>3, <2>0, <3>1, <3>2, TrendLegs DEF Leg
    <3> QED  BY <1>1, <1>3, <2>5, <3>1, <3>3, SlottingMerge DEF Slotting
  <2>6. CASE Answer
    <3>1. stage = "fetching" /\ Leg > Legs /\ stage' = "done" /\ UNCHANGED slots
      BY <2>6 DEF Answer
    <3>2. Len(rows) = Legs
      <4>1. Len(rows) \in Nat /\ Legs \in Nat
        BY <1>3, AppendAny, TrendLegs DEF Slotting, Resting
      <4> QED  BY <1>3, <3>1, <4>1 DEF Slotting, Leg
    <3>3. WrittenTo(Legs)'
      BY <1>3, <2>0, <3>1, <3>2 DEF Slotting
    <3> QED  BY <1>1, <3>1, <3>3 DEF Slotting
  <2> QED  BY <2>1, <2>2, <2>3, <2>4, <2>5, <2>6 DEF Next
<1> QED  BY <1>2, <1>3

\* However many buckets a trend has and whichever campaigns are missing from some
\* of them, each count stands at its bucket and zeros everywhere else
\* (service.py:1151-1152, 1170-1180).
THEOREM TrendAligned == Spec => []SlotsAligned
<1>1. Slotting => SlotsAligned
  BY DEF Slotting, WrittenTo, SlotsAligned, AskedIds
<1> QED  BY <1>1, SlottingInit, SlottingStep, PTL DEF Spec

-----------------------------------------------------------------------------
(* What merging keeps.                                                     *)

\* The count of each row of the chunks cs.
ValueOf(cs) == [r \in RowsOf(cs) |-> cs[r[1]][r[2]]]

LEMMA RowsShape ==
    ASSUME NEW n \in Nat, NEW cs \in [1 .. n -> Reports]
    PROVE  /\ IsFiniteSet(RowsOf(cs))
           /\ RowsOf(cs) = {r \in (1 .. n) \X Groups : r[2] \in DOMAIN cs[r[1]]}
           /\ \A r \in RowsOf(cs) : ValueOf(cs)[r] \in Nat \ {0}
           /\ \A r \in RowsOf(cs) : ValueOf(cs)[r] = cs[r[1]][r[2]]
<1>1. \A i \in 1 .. n : DOMAIN cs[i] \subseteq Groups /\ cs[i] \in [DOMAIN cs[i] -> Counts]
  BY DEF Reports
<1>2. DOMAIN cs = 1 .. n  OBVIOUS
<1>3. RowsOf(cs) = {r \in (1 .. n) \X Groups : r[2] \in DOMAIN cs[r[1]]}
  <2>1. ASSUME NEW r \in RowsOf(cs)
        PROVE  r \in (1 .. n) \X Groups /\ r[2] \in DOMAIN cs[r[1]]
    <3>1. PICK i \in 1 .. n : r \in {<<i, g>> : g \in DOMAIN cs[i]}
      BY <1>2 DEF RowsOf
    <3> QED  BY <1>1, <3>1
  <2>2. ASSUME NEW r \in (1 .. n) \X Groups, r[2] \in DOMAIN cs[r[1]]
        PROVE  r \in RowsOf(cs)
    <3>1. r[1] \in 1 .. n /\ r = <<r[1], r[2]>>  OBVIOUS
    <3>2. r \in {<<r[1], g>> : g \in DOMAIN cs[r[1]]}  BY <2>2, <3>1
    <3> QED  BY <1>2, <3>1, <3>2 DEF RowsOf
  <2> QED  BY <2>1, <2>2
<1>4. IsFiniteSet((1 .. n) \X Groups)
  <2>1. IsFiniteSet(1 .. n)  BY FS_Interval
  <2> DEFINE I == 1 .. n
  <2> HIDE DEF I
  <2>2. IsFiniteSet(I \X Groups)  BY <2>1, GroupsAssumption, FS_Product DEF I
  <2> QED  BY <2>2 DEF I
<1>5. IsFiniteSet(RowsOf(cs))  BY <1>3, <1>4, FS_Subset
<1>6. \A r \in RowsOf(cs) : ValueOf(cs)[r] = cs[r[1]][r[2]]  BY DEF ValueOf
<1>7. \A r \in RowsOf(cs) : ValueOf(cs)[r] \in Nat \ {0}
  BY <1>1, <1>3, <1>6, CountsAssumption
<1> QED  BY <1>3, <1>5, <1>6, <1>7

LEMMA KeyKeepsId == \A g \in Groups : MergeKey(g).id = g.id
  BY DEF MergeKey

LEMMA MergedRows ==
    ASSUME NEW n \in Nat, NEW cs \in [1 .. n -> Reports]
    PROVE  /\ DOMAIN Merged(cs) = {MergeKey(r[2]) : r \in RowsOf(cs)}
           /\ IsFiniteSet(DOMAIN Merged(cs))
           /\ \A k \in DOMAIN Merged(cs) :
                 /\ Merged(cs)[k] \in Nat \ {0}
                 /\ Merged(cs)[k] = SumOver(ValueOf(cs), {r \in RowsOf(cs) : MergeKey(r[2]) = k})
<1>1. DOMAIN Merged(cs) = {MergeKey(r[2]) : r \in RowsOf(cs)}  BY DEF Merged
<1>2. IsFiniteSet({MergeKey(r[2]) : r \in RowsOf(cs)})
  <2> DEFINE key == [r \in RowsOf(cs) |-> MergeKey(r[2])]
  <2>1. key \in Surjection(RowsOf(cs), {MergeKey(r[2]) : r \in RowsOf(cs)})
    BY DEF Surjection
  <2> QED  BY <2>1, RowsShape, FS_Surjection
<1>3. ASSUME NEW k \in DOMAIN Merged(cs)
      PROVE  /\ Merged(cs)[k] \in Nat \ {0}
             /\ Merged(cs)[k] = SumOver(ValueOf(cs), {r \in RowsOf(cs) : MergeKey(r[2]) = k})
  <2> DEFINE R == {r \in RowsOf(cs) : MergeKey(r[2]) = k}
             f == [r \in R |-> cs[r[1]][r[2]]]
  <2>1. Merged(cs)[k] = SumOver(f, R)  BY <1>1 DEF Merged, Sum
  <2>2. IsFiniteSet(R) /\ R # {} /\ R \subseteq RowsOf(cs)
    BY <1>1, RowsShape, FS_Subset
  <2>3. \A r \in R : f[r] = ValueOf(cs)[r] /\ f[r] \in Nat \ {0}
    BY RowsShape
  <2> HIDE DEF R, f
  <2>4. SumOver(f, R) \in Nat \ {0}  BY <2>2, <2>3, SumPositive
  <2>5. SumOver(f, R) = SumOver(ValueOf(cs), R)  BY <2>2, <2>3, SumEqual
  <2> QED  BY <2>1, <2>4, <2>5 DEF R
<1> QED  BY <1>1, <1>2, <1>3

\* Merging keeps the sum of each id.
LEMMA MergedSum ==
    ASSUME NEW n \in Nat, NEW cs \in [1 .. n -> Reports], NEW c
    PROVE  SumOver(Merged(cs), {k \in DOMAIN Merged(cs) : k.id = c})
             = SumOver(ValueOf(cs), {r \in RowsOf(cs) : r[2].id = c})
<1> DEFINE K == {k \in DOMAIN Merged(cs) : k.id = c}
           R == {r \in RowsOf(cs) : r[2].id = c}
           key == [r \in RowsOf(cs) |-> MergeKey(r[2])]
           f == ValueOf(cs)
           g == Merged(cs)
<1>1. IsFiniteSet(K) /\ IsFiniteSet(R)
  BY MergedRows, RowsShape, FS_Subset
<1>2. \A r \in RowsOf(cs) : r[2] \in Groups /\ f[r] \in Int
  BY RowsShape
<1>3. \A r \in R : key[r] \in K /\ f[r] \in Int
  BY <1>2, KeyKeepsId, MergedRows
<1>4. \A k \in K : Fibre(key, R, k) = {r \in RowsOf(cs) : MergeKey(r[2]) = k}
  BY <1>2, KeyKeepsId DEF Fibre
<1>5. \A k \in K : g[k] = SumOver(f, Fibre(key, R, k))
  BY <1>4, MergedRows
<1> HIDE DEF K, R, key, f, g
<1>6. SumOver(f, R) = SumOver(g, K)
  BY <1>1, <1>3, <1>5, SumByKey
<1> QED  BY <1>6 DEF K, R, f, g

\* So does leaving the rows of a single report as they are.
LEMMA SingleSum ==
    ASSUME NEW cs \in [1 .. 1 -> Reports], NEW c
    PROVE  SumOver(cs[1], {k \in DOMAIN cs[1] : k.id = c})
             = SumOver(ValueOf(cs), {r \in RowsOf(cs) : r[2].id = c})
<1> DEFINE K == {k \in DOMAIN cs[1] : k.id = c}
           R == {r \in RowsOf(cs) : r[2].id = c}
           name == [k \in K |-> <<1, k>>]
           f == ValueOf(cs)
           g == cs[1]
<1>1. DOMAIN cs[1] \subseteq Groups  BY DEF Reports
<1>2. IsFiniteSet(K)  BY <1>1, GroupsAssumption, FS_Subset
<1>3. RowsOf(cs) = {<<1, k>> : k \in DOMAIN cs[1]}
  <2>1. RowsOf(cs) = {r \in (1 .. 1) \X Groups : r[2] \in DOMAIN cs[r[1]]}  BY RowsShape
  <2>2. \A r \in (1 .. 1) \X Groups : r = <<1, r[2]>> /\ r[1] = 1  OBVIOUS
  <2>3. \A k \in DOMAIN cs[1] : <<1, k>> \in (1 .. 1) \X Groups  BY <1>1
  <2> QED  BY <2>1, <2>2, <2>3
<1>4. R = {name[k] : k \in K}
  <2>1. \A r \in R : r[2] \in K /\ r = name[r[2]]  BY <1>3
  <2>2. \A k \in K : name[k] \in R  BY <1>3
  <2> QED  BY <2>1, <2>2
<1>5. \A k \in K : name[k] \in RowsOf(cs) /\ name[k][1] = 1 /\ name[k][2] = k  BY <1>3
<1>6. \A k \in K : f[name[k]] \in Int /\ g[k] = f[name[k]]
  <2>1. \A r \in RowsOf(cs) : f[r] \in Nat \ {0}  BY RowsShape
  <2>2. \A r \in RowsOf(cs) : f[r] = cs[r[1]][r[2]]  BY DEF ValueOf
  <2> HIDE DEF f
  <2> SUFFICES ASSUME NEW k \in K PROVE f[name[k]] \in Int /\ g[k] = f[name[k]]
    OBVIOUS
  <2> DEFINE r == name[k]
  <2>3. r \in RowsOf(cs) /\ r[1] = 1 /\ r[2] = k  BY <1>5
  <2> HIDE DEF r
  <2>4. f[r] \in Int /\ f[r] = cs[1][k]  BY <2>1, <2>2, <2>3
  <2> QED  BY <2>4 DEF r
<1>7. \A j, k \in K : name[j] = name[k] => j = k  OBVIOUS
<1> HIDE DEF K, R, name, f, g
<1>8. SumOver(g, K) = SumOver(f, {name[k] : k \in K})
  BY <1>2, <1>6, <1>7, SumRenamed
<1> QED  BY <1>4, <1>8 DEF K, R, f, g

Ids == {g.id : g \in Groups}

\* The rows of a leg: as many for each id as its chunks have.
LEMMA LegRowsSum ==
    ASSUME NEW n \in Nat, NEW cs \in [1 .. n -> Reports]
    PROVE  /\ IsFiniteSet(DOMAIN LegRows(cs))
           /\ \A k \in DOMAIN LegRows(cs) : LegRows(cs)[k] \in Nat \ {0} /\ k.id \in Ids
           /\ \A c : SumOver(LegRows(cs), {k \in DOMAIN LegRows(cs) : k.id = c})
                       = SumOver(ValueOf(cs), {r \in RowsOf(cs) : r[2].id = c})
<1>0. Len(cs) = n
  <2>1. cs \in Seq(Reports)  BY SeqDef
  <2>2. DOMAIN cs = 1 .. Len(cs) /\ Len(cs) \in Nat  BY <2>1, LenProperties
  <2> QED  BY <2>2
<1>1. CASE n = 1
  <2>1. LegRows(cs) = cs[1]  BY <1>0, <1>1 DEF LegRows
  <2>2. cs[1] \in Reports  BY <1>1
  <2>3. DOMAIN cs[1] \subseteq Groups /\ cs[1] \in [DOMAIN cs[1] -> Counts]
    BY <2>2 DEF Reports
  <2>4. IsFiniteSet(DOMAIN cs[1])  BY <2>3, GroupsAssumption, FS_Subset
  <2>5. \A k \in DOMAIN cs[1] : cs[1][k] \in Nat \ {0} /\ k.id \in Ids
    BY <2>3, CountsAssumption DEF Ids
  <2> QED  BY <1>1, <2>1, <2>4, <2>5, SingleSum
<1>2. CASE n # 1
  <2>1. LegRows(cs) = Merged(cs)  BY <1>0, <1>2 DEF LegRows
  <2>2. \A k \in DOMAIN Merged(cs) : k.id \in Ids
    <3>1. DOMAIN Merged(cs) = {MergeKey(r[2]) : r \in RowsOf(cs)}  BY MergedRows
    <3>2. \A r \in RowsOf(cs) : r[2] \in Groups  BY RowsShape
    <3> QED  BY <3>1, <3>2, KeyKeepsId DEF Ids
  <2>3. /\ IsFiniteSet(DOMAIN Merged(cs))
        /\ \A k \in DOMAIN Merged(cs) : Merged(cs)[k] \in Nat \ {0}
    BY MergedRows
  <2>4. \A c : SumOver(Merged(cs), {k \in DOMAIN Merged(cs) : k.id = c})
                 = SumOver(ValueOf(cs), {r \in RowsOf(cs) : r[2].id = c})
    BY MergedSum
  <2> QED  BY <2>1, <2>2, <2>3, <2>4
<1> QED  BY <1>1, <1>2

\* Rolling up keeps the sum of each id too.
LEMMA RolledUpSum ==
    ASSUME NEW f, IsFiniteSet(DOMAIN f),
           \A g \in DOMAIN f : f[g] \in Nat \ {0} /\ g.id \in Ids
    PROVE  /\ IsFiniteSet(DOMAIN RolledUp(f))
           /\ \A k \in DOMAIN RolledUp(f) : RolledUp(f)[k] \in Nat \ {0} /\ k.id \in Ids
           /\ \A c : SumOver(RolledUp(f), {k \in DOMAIN RolledUp(f) : k.id = c})
                       = SumOver(f, {g \in DOMAIN f : g.id = c})
<1> DEFINE key == [g \in DOMAIN f |-> [id |-> g.id, part |-> Whole]]
           h == RolledUp(f)
<1>1. DOMAIN h = {key[g] : g \in DOMAIN f}  BY DEF RolledUp
<1>2. IsFiniteSet(DOMAIN h)
  <2>1. key \in Surjection(DOMAIN f, DOMAIN h)  BY <1>1 DEF Surjection
  <2> QED  BY <2>1, FS_Surjection
<1>3. \A k \in DOMAIN h : h[k] = SumOver(f, {g \in DOMAIN f : g.id = k.id})
  BY <1>1 DEF RolledUp
<1>4. ASSUME NEW k \in DOMAIN h PROVE h[k] \in Nat \ {0} /\ k.id \in Ids
  <2> DEFINE G == {g \in DOMAIN f : g.id = k.id}
  <2>1. PICK g \in DOMAIN f : k = key[g]  BY <1>1
  <2>2. k.id = g.id  BY <2>1
  <2>3. IsFiniteSet(G) /\ G # {} /\ \A x \in G : f[x] \in Nat \ {0}
    BY <2>2, FS_Subset
  <2>4. SumOver(f, G) \in Nat \ {0}
    <3> HIDE DEF G
    <3> QED  BY <2>3, SumPositive
  <2> QED  BY <1>3, <2>2, <2>4
<1>5. ASSUME NEW c
      PROVE  SumOver(h, {k \in DOMAIN h : k.id = c}) = SumOver(f, {g \in DOMAIN f : g.id = c})
  <2> DEFINE K == {k \in DOMAIN h : k.id = c}
             G == {g \in DOMAIN f : g.id = c}
  <2>1. IsFiniteSet(K) /\ IsFiniteSet(G)  BY <1>2, FS_Subset
  <2>2. \A g \in G : key[g] \in K /\ f[g] \in Int  BY <1>1
  <2>3. \A k \in K : Fibre(key, G, k) = G /\ {g \in DOMAIN f : g.id = k.id} = G
    BY <1>1 DEF Fibre
  <2>4. \A k \in K : h[k] = SumOver(f, Fibre(key, G, k))
    BY <1>3, <2>3
  <2> HIDE DEF K, G, key, h
  <2>5. SumOver(f, G) = SumOver(h, K)
    BY <2>1, <2>2, <2>4, SumByKey
  <2> QED  BY <2>5 DEF K, G
<1> QED  BY <1>2, <1>4, <1>5

-----------------------------------------------------------------------------
(* What an answer carries.                                                 *)

\* The first n reports of leg i, narrowed.
Fetched(i, n) == [j \in 1 .. n |-> Narrow(world[i][j])]

AllFetched(i) == Fetched(i, plan.legs[i])

RowsFor(i) ==
    IF stage = "done" /\ plan.tool = "rollup" THEN RolledUp(LegRows(AllFetched(i)))
    ELSE LegRows(AllFetched(i))

\* The chunks of the current leg are its first reports, and the rows of each leg
\* before it those of all its reports.
Gathered ==
    /\ plan \in Plans /\ filter \in Filters /\ world \in Worlds(plan.legs)
    /\ stage \in {"asked", "fetching", "done", "failed", "refused"}
    /\ rested \in BOOLEAN
    /\ \E S : chunks \in Seq(S)
    /\ \E S : rows \in Seq(S)
    /\ stage = "asked" => chunks = <<>> /\ rows = <<>>
    /\ stage = "done" => Len(rows) = Legs
    /\ Len(rows) <= Legs
    /\ Leg > Legs => chunks = <<>>
    /\ Leg <= Legs => Len(chunks) <= plan.legs[Leg] /\ chunks = Fetched(Leg, Len(chunks))
    /\ \A i \in 1 .. Len(rows) : rows[i] = RowsFor(i)
    /\ \A c \in DOMAIN slots : slots[c] \in [1 .. Legs -> Nat]
    /\ stage = "done" /\ plan.tool = "compare" => change = Delta(Total(rows[1]), Total(rows[2]))

\* What Klaviyo has for a leg is a report per chunk.
LEMMA LegShape ==
    ASSUME plan \in Plans, world \in Worlds(plan.legs)
    PROVE  /\ Legs \in Nat /\ DOMAIN plan.legs = 1 .. Legs
           /\ \A i \in 1 .. Legs : plan.legs[i] \in Nat /\ world[i] \in [1 .. plan.legs[i] -> Reports]
<1>1. plan.legs \in Seq(Nat)  BY PlansAssumption
<1>2. Legs \in Nat /\ DOMAIN plan.legs = 1 .. Legs /\ \A i \in 1 .. Legs : plan.legs[i] \in Nat
  BY <1>1, LenProperties, ElementOfSeq DEF Legs
<1>3. ASSUME NEW i \in 1 .. Legs
      PROVE  world[i] \in [1 .. plan.legs[i] -> Reports]
  <2> DEFINE all == UNION {[1 .. plan.legs[j] -> Reports] : j \in DOMAIN plan.legs}
  <2>1. /\ world \in [DOMAIN plan.legs -> all]
        /\ \A j \in DOMAIN plan.legs : Len(world[j]) = plan.legs[j]
    BY DEF Worlds
  <2>2. world[i] \in all
    <3> HIDE DEF all
    <3> QED  BY <1>2, <2>1
  <2>3. PICK j \in DOMAIN plan.legs : world[i] \in [1 .. plan.legs[j] -> Reports]
    BY <2>2
  <2>4. world[i] \in Seq(Reports) /\ DOMAIN world[i] = 1 .. plan.legs[j] /\ plan.legs[j] \in Nat
    BY <1>2, <2>3, SeqDef
  <2>5. Len(world[i]) = plan.legs[j]  BY <2>4, LenProperties
  <2>6. Len(world[i]) = plan.legs[i]  BY <1>2, <2>1
  <2> QED  BY <2>3, <2>5, <2>6
<1> QED  BY <1>2, <1>3

LEMMA NarrowReport ==
    ASSUME NEW body \in Reports
    PROVE  /\ Narrow(body) \in Reports
           /\ DOMAIN Narrow(body) = {g \in DOMAIN body : Asked(g)}
           /\ \A g \in DOMAIN Narrow(body) : Narrow(body)[g] = body[g]
<1>1. DOMAIN body \subseteq Groups /\ body \in [DOMAIN body -> Counts]  BY DEF Reports
<1>2. /\ DOMAIN Narrow(body) = {g \in DOMAIN body : Asked(g)}
      /\ \A g \in DOMAIN Narrow(body) : Narrow(body)[g] = body[g]
  BY DEF Narrow, Asked
<1> DEFINE D == {g \in DOMAIN body : Asked(g)}
<1>3. Narrow(body) = [g \in D |-> body[g]]  BY DEF Narrow, Asked
<1>4. Narrow(body) \in [D -> Counts]  BY <1>1, <1>3
<1>5. D \in SUBSET Groups  BY <1>1
<1>6. Narrow(body) \in Reports
  <2> HIDE DEF D
  <2> QED  BY <1>4, <1>5 DEF Reports
<1> QED  BY <1>2, <1>6

\* Fetching one report more.
LEMMA FetchedMore ==
    ASSUME NEW i, NEW n \in Nat, NEW S, Fetched(i, n) \in Seq(S)
    PROVE  Append(Fetched(i, n), Narrow(world[i][n + 1])) = Fetched(i, n + 1)
<1> DEFINE q == Fetched(i, n)
           e == Narrow(world[i][n + 1])
<1>1. DOMAIN q = 1 .. n  BY DEF Fetched
<1>2. Len(q) = n  BY <1>1, LenProperties
<1>3. Append(q, e) = [j \in 1 .. n + 1 |-> IF j = n + 1 THEN e ELSE q[j]]
  <2> HIDE DEF q, e
  <2>1. q \in Seq(S)  BY DEF q
  <2>2. q \in Seq(S \cup {e})  BY <2>1, SeqMonotonic
  <2>3. e \in S \cup {e}  OBVIOUS
  <2>4. /\ DOMAIN Append(q, e) = 1 .. n + 1
        /\ Append(q, e) \in Seq(S \cup {e})
        /\ \A j \in 1 .. n : Append(q, e)[j] = q[j]
        /\ Append(q, e)[n + 1] = e
    BY <1>2, <2>2, <2>3, AppendProperties, LenProperties
  <2>5. Append(q, e) = [j \in 1 .. n + 1 |-> Append(q, e)[j]]
    <3> DEFINE T == S \cup {e}
    <3>1. Seq(T) = UNION {[1 .. m -> T] : m \in Nat}  BY SeqDef, Zenon
    <3> HIDE DEF T
    <3>2. Append(q, e) \in UNION {[1 .. m -> T] : m \in Nat}  BY <2>4, <3>1 DEF T
    <3>3. PICK m \in Nat : Append(q, e) \in [1 .. m -> T]  BY <3>2
    <3> QED  BY <2>4, <3>3
  <2>6. \A j \in 1 .. n + 1 : j # n + 1 => j \in 1 .. n  OBVIOUS
  <2> QED  BY <2>4, <2>5, <2>6
<1>4. Fetched(i, n + 1) = [j \in 1 .. n + 1 |-> Narrow(world[i][j])]  BY DEF Fetched
<1>5. \A j \in 1 .. n + 1 : (IF j = n + 1 THEN e ELSE q[j]) = Narrow(world[i][j])
  <2>1. \A j \in 1 .. n + 1 : j # n + 1 => j \in 1 .. n  OBVIOUS
  <2> QED  BY <2>1 DEF Fetched
<1> HIDE DEF q, e
<1>6. Append(q, e) = Fetched(i, n + 1)  BY <1>3, <1>4, <1>5
<1> QED  BY <1>6 DEF q, e

LEMMA FetchedReports ==
    ASSUME plan \in Plans, world \in Worlds(plan.legs), NEW i \in 1 .. Legs
    PROVE  AllFetched(i) \in [1 .. plan.legs[i] -> Reports]
<1>1. \A j \in 1 .. plan.legs[i] : world[i][j] \in Reports  BY LegShape
<1>2. \A j \in 1 .. plan.legs[i] : Narrow(world[i][j]) \in Reports  BY <1>1, NarrowReport
<1> QED  BY <1>2 DEF AllFetched, Fetched

\* The rows fetched for a leg are those Klaviyo has that are asked for, unchanged.
LEMMA FetchedRows ==
    ASSUME plan \in Plans, world \in Worlds(plan.legs), NEW i \in 1 .. Legs
    PROVE  /\ RowsOf(AllFetched(i)) = {r \in RowsOf(world[i]) : Asked(r[2])}
           /\ \A r \in RowsOf(AllFetched(i)) :
                 ValueOf(AllFetched(i))[r] = world[i][r[1]][r[2]]
<1> DEFINE n == plan.legs[i]
           cs == AllFetched(i)
           w == world[i]
<1>1. n \in Nat /\ w \in [1 .. n -> Reports]  BY LegShape
<1>2. cs \in [1 .. n -> Reports]  BY FetchedReports
<1>3. \A j \in 1 .. n : cs[j] = Narrow(w[j])  BY DEF AllFetched, Fetched
<1> HIDE DEF n, cs, w
<1>4. RowsOf(cs) = {r \in (1 .. n) \X Groups : r[2] \in DOMAIN cs[r[1]]}
  BY <1>1, <1>2, RowsShape
<1>5. RowsOf(w) = {r \in (1 .. n) \X Groups : r[2] \in DOMAIN w[r[1]]}
  BY <1>1, RowsShape
<1>6. ASSUME NEW r \in (1 .. n) \X Groups
      PROVE  /\ r[2] \in DOMAIN cs[r[1]] <=> r[2] \in DOMAIN w[r[1]] /\ Asked(r[2])
             /\ r[2] \in DOMAIN cs[r[1]] => cs[r[1]][r[2]] = w[r[1]][r[2]]
  <2>1. r[1] \in 1 .. n  OBVIOUS
  <2> DEFINE body == w[r[1]]
             mine == cs[r[1]]
  <2>2. body \in Reports /\ mine = Narrow(body)  BY <1>1, <1>3, <2>1
  <2> HIDE DEF body, mine
  <2>3. /\ DOMAIN mine = {g \in DOMAIN body : Asked(g)}
        /\ \A g \in DOMAIN mine : mine[g] = body[g]
    BY <2>2, NarrowReport
  <2> QED  BY <2>3 DEF body, mine
<1>7. RowsOf(cs) = {r \in RowsOf(w) : Asked(r[2])}
  BY <1>4, <1>5, <1>6
<1>8. \A r \in RowsOf(cs) : ValueOf(cs)[r] = w[r[1]][r[2]]
  BY <1>4, <1>6 DEF ValueOf
<1> QED  BY <1>7, <1>8 DEF cs, w

\* The rows of a leg: their groups, and all that Klaviyo has of each id.
LEMMA RowsForLeg ==
    ASSUME plan \in Plans, world \in Worlds(plan.legs), NEW i \in 1 .. Legs
    PROVE  /\ IsFiniteSet(DOMAIN RowsFor(i))
           /\ \A k \in DOMAIN RowsFor(i) : RowsFor(i)[k] \in Nat \ {0} /\ k.id \in Ids
           /\ \A c : SumOver(RowsFor(i), {k \in DOMAIN RowsFor(i) : k.id = c}) = InWorld(c, i)
<1> DEFINE n == plan.legs[i]
           cs == AllFetched(i)
           leg == LegRows(cs)
<1>1. n \in Nat /\ cs \in [1 .. n -> Reports]  BY LegShape, FetchedReports
<1>2. /\ IsFiniteSet(DOMAIN leg)
      /\ \A k \in DOMAIN leg : leg[k] \in Nat \ {0} /\ k.id \in Ids
      /\ \A c : SumOver(leg, {k \in DOMAIN leg : k.id = c})
                  = SumOver(ValueOf(cs), {r \in RowsOf(cs) : r[2].id = c})
  <2> HIDE DEF cs
  <2> QED  BY <1>1, LegRowsSum
<1>3. ASSUME NEW c
      PROVE  SumOver(ValueOf(cs), {r \in RowsOf(cs) : r[2].id = c}) = InWorld(c, i)
  <2> DEFINE R == {r \in RowsOf(world[i]) : r[2].id = c /\ Asked(r[2])}
             h == [r \in R |-> world[i][r[1]][r[2]]]
             f == ValueOf(cs)
  <2>1. R = {r \in RowsOf(cs) : r[2].id = c}  BY FetchedRows
  <2>2. IsFiniteSet(RowsOf(cs)) /\ \A r \in RowsOf(cs) : f[r] \in Int
    <3> HIDE DEF cs
    <3> QED  BY <1>1, RowsShape
  <2>3. IsFiniteSet(R)  BY <2>1, <2>2, FS_Subset
  <2>4. \A r \in R : f[r] \in Int /\ f[r] = h[r]
    BY <2>1, <2>2, FetchedRows
  <2>5. InWorld(c, i) = SumOver(h, R)  BY DEF InWorld, Sum
  <2> HIDE DEF R, h, f
  <2>6. SumOver(f, R) = SumOver(h, R)  BY <2>3, <2>4, SumEqual
  <2> QED  BY <2>1, <2>5, <2>6 DEF f
<1> HIDE DEF cs
<1>4. \A c : SumOver(leg, {k \in DOMAIN leg : k.id = c}) = InWorld(c, i)
  BY <1>2, <1>3
<1> HIDE DEF leg
<1>5. CASE stage = "done" /\ plan.tool = "rollup"
  <2>1. RowsFor(i) = RolledUp(leg)  BY <1>5 DEF RowsFor, leg, cs
  <2>2. /\ IsFiniteSet(DOMAIN RolledUp(leg))
        /\ \A k \in DOMAIN RolledUp(leg) : RolledUp(leg)[k] \in Nat \ {0} /\ k.id \in Ids
        /\ \A c : SumOver(RolledUp(leg), {k \in DOMAIN RolledUp(leg) : k.id = c})
                    = SumOver(leg, {g \in DOMAIN leg : g.id = c})
    BY <1>2, RolledUpSum
  <2> QED  BY <1>4, <2>1, <2>2
<1>6. CASE ~(stage = "done" /\ plan.tool = "rollup")
  <2>1. RowsFor(i) = leg  BY <1>6 DEF RowsFor, leg, cs
  <2> QED  BY <1>2, <1>4, <2>1
<1> QED  BY <1>5, <1>6

LEMMA GatheredInit == Init => Gathered
<1> SUFFICES ASSUME Init PROVE Gathered
  OBVIOUS
<1>1. plan \in Plans /\ filter \in Filters /\ world \in Worlds(plan.legs)  BY DEF Init
<1>2. Legs \in Nat /\ \A i \in 1 .. Legs : plan.legs[i] \in Nat  BY <1>1, LegShape
<1>3. chunks = <<>> /\ rows = <<>> /\ stage = "asked" /\ rested = TRUE /\ slots = NoRows
  BY DEF Init
<1>4. <<>> \in Seq({}) /\ Len(rows) = 0 /\ Len(chunks) = 0  BY <1>3, EmptySeq
<1>5. Leg = 1  BY <1>4 DEF Leg
<1>6. Fetched(Leg, 0) = <<>>  BY DEF Fetched
<1>7. DOMAIN slots = {}  BY <1>3 DEF NoRows
<1>8. Leg <= Legs => Len(chunks) <= plan.legs[Leg] /\ chunks = Fetched(Leg, Len(chunks))
  BY <1>2, <1>3, <1>4, <1>5, <1>6
<1> QED  BY <1>1, <1>2, <1>3, <1>4, <1>7, <1>8 DEF Gathered

LEMMA GatheredCounts ==
    ASSUME Gathered
    PROVE  /\ Legs \in Nat /\ Len(rows) \in Nat /\ Len(chunks) \in Nat /\ Leg = Len(rows) + 1
           /\ Leg <= Legs => Leg \in 1 .. Legs /\ plan.legs[Leg] \in Nat
           /\ DOMAIN rows = 1 .. Len(rows) /\ DOMAIN chunks = 1 .. Len(chunks)
<1>1. Legs \in Nat  BY LegShape DEF Gathered
<1>2. /\ Len(rows) \in Nat /\ Len(chunks) \in Nat
      /\ DOMAIN rows = 1 .. Len(rows) /\ DOMAIN chunks = 1 .. Len(chunks)
  BY LenProperties DEF Gathered
<1>3. Leg = Len(rows) + 1  BY DEF Leg
<1>4. Leg <= Legs => Leg \in 1 .. Legs  BY <1>1, <1>2, <1>3
<1> QED  BY <1>1, <1>2, <1>3, <1>4, LegShape DEF Gathered

\* The slots of a trend stay a count per bucket.
LEMMA SlotsTyped ==
    ASSUME Legs \in Nat, \A c \in DOMAIN slots : slots[c] \in [1 .. Legs -> Nat],
           NEW f, \A k \in DOMAIN f : f[k] \in Nat \ {0}, NEW last \in LastRows(f)
    PROVE  \A c \in DOMAIN SlotsWith(f, last) : SlotsWith(f, last)[c] \in [1 .. Legs -> Nat]
<1> DEFINE new == SlotsWith(f, last)
<1>1. \A c \in Idents(f) : f[last[c]] \in Nat  BY DEF LastRows
<1>2. DOMAIN new = DOMAIN slots \cup Idents(f)  BY DEF SlotsWith
<1>3. ASSUME NEW c \in DOMAIN new
      PROVE  new[c] \in [1 .. Legs -> Nat]
  <2>1. new[c] = [i \in 1 .. Legs |-> IF i = Leg /\ c \in Idents(f) THEN f[last[c]]
                                      ELSE IF c \in DOMAIN slots THEN slots[c][i] ELSE 0]
    BY <1>2 DEF SlotsWith
  <2>2. \A i \in 1 .. Legs : c \in DOMAIN slots => slots[c][i] \in Nat  OBVIOUS
  <2> HIDE DEF new
  <2> QED  BY <1>1, <2>1, <2>2
<1> QED  BY <1>3

LEMMA GatheredStep == Gathered /\ [Next]_vars => Gathered'
<1> SUFFICES ASSUME Gathered, [Next]_vars PROVE Gathered'
  OBVIOUS
<1>0. UNCHANGED <<plan, filter, world>>
  BY DEF Next, Begin, Pause, Post, PostFails, Merge, Answer, Ended, vars
<1>a. /\ Legs' = Legs /\ (world \in Worlds(plan.legs))'
      /\ plan' \in Plans /\ filter' \in Filters
      /\ \A i, n : Fetched(i, n)' = Fetched(i, n)
      /\ \A i : LegRows(AllFetched(i))' = LegRows(AllFetched(i))
      /\ \A f : RolledUp(f)' = RolledUp(f)
  <2>1. Legs' = Legs /\ (world \in Worlds(plan.legs))' /\ plan' \in Plans /\ filter' \in Filters
    BY <1>0 DEF Gathered, Legs
  <2>2. \A i, n : Fetched(i, n)' = Fetched(i, n)
    BY <1>0 DEF Fetched, Narrow
  <2>3. \A i : LegRows(AllFetched(i))' = LegRows(AllFetched(i))
    BY <1>0 DEF AllFetched, Fetched, Narrow, LegRows, Merged, RowsOf, MergeKey
  <2>4. \A f : RolledUp(f)' = RolledUp(f)
    BY DEF RolledUp
  <2> QED  BY <2>1, <2>2, <2>3, <2>4
\* Steps that gather nothing.
<1>1. ASSUME UNCHANGED <<chunks, rows, slots>>, rested' \in BOOLEAN,
             stage' \in {"fetching", "failed", "refused"}, stage # "done"
      PROVE  Gathered'
  <2>1. Leg' = Leg  BY <1>1 DEF Leg
  <2>2. \A i : RowsFor(i)' = RowsFor(i)  BY <1>0, <1>1, <1>a DEF RowsFor
  <2> QED  BY <1>0, <1>1, <1>a, <2>1, <2>2 DEF Gathered
<1>2. CASE UNCHANGED vars \/ Ended
  <2>1. UNCHANGED vars  BY <1>2 DEF Ended
  <2>2. Leg' = Leg /\ \A i : RowsFor(i)' = RowsFor(i)
    BY <1>a, <2>1 DEF Leg, RowsFor, vars
  <2> QED  BY <1>0, <1>a, <2>1, <2>2 DEF Gathered, vars
<1>3. CASE Begin
  BY <1>1, <1>3 DEF Begin, Gathered
<1>4. CASE Pause
  BY <1>1, <1>4 DEF Pause, PostDue
<1>5. CASE PostFails
  BY <1>1, <1>5 DEF PostFails, PostDue
<1>6. CASE Post
  <2> DEFINE n == Len(chunks)
             c == Narrow(world[Leg][n + 1])
  <2>1. /\ stage = "fetching" /\ Leg <= Legs /\ n < plan.legs[Leg]
        /\ chunks' = Append(chunks, c) /\ rested' = FALSE
        /\ UNCHANGED <<stage, rows, slots>>
    BY <1>6 DEF Post, PostDue
  <2>2. chunks = Fetched(Leg, n) /\ n \in Nat /\ plan.legs[Leg] \in Nat
    BY <2>1, GatheredCounts DEF Gathered
  <2>3. PICK S : chunks \in Seq(S)  BY DEF Gathered
  <2>4. chunks' = Fetched(Leg, n + 1)
    BY <2>1, <2>2, <2>3, FetchedMore
  <2>5. /\ \E T : chunks' \in Seq(T)
        /\ Len(chunks') = n + 1
    <3> HIDE DEF c
    <3> QED  BY <2>1, <2>3, AppendAny
  <2>6. Leg' = Leg /\ \A i : RowsFor(i)' = RowsFor(i)
    BY <1>0, <1>a, <2>1 DEF Leg, RowsFor
  <2>7. Len(chunks') <= plan.legs[Leg] /\ chunks' = Fetched(Leg, Len(chunks'))
    BY <2>1, <2>2, <2>4, <2>5
  <2>8. ~(Leg > Legs)  BY <2>1, GatheredCounts
  <2> HIDE DEF n, c
  <2> QED  BY <1>0, <1>a, <2>1, <2>5, <2>6, <2>7, <2>8 DEF Gathered
<1>7. CASE Merge
  <2> DEFINE new == LegRows(chunks)
             n == Len(rows)
  <2>1. /\ stage = "fetching" /\ Leg <= Legs /\ Len(chunks) = plan.legs[Leg]
        /\ rows' = Append(rows, new) /\ chunks' = <<>>
        /\ \/ \E last \in LastRows(new) : slots' = SlotsWith(new, last)
           \/ UNCHANGED slots
        /\ UNCHANGED <<stage, rested>>
    BY <1>7 DEF Merge
  <2>2. n \in Nat /\ Leg = n + 1 /\ Leg \in 1 .. Legs /\ Legs \in Nat
    BY <2>1, GatheredCounts
  <2>3. new = RowsFor(Leg)
    BY <2>1 DEF Gathered, RowsFor, AllFetched
  <2>4. \A k \in DOMAIN new : new[k] \in Nat \ {0}
    BY <2>2, <2>3, RowsForLeg DEF Gathered
  <2> HIDE DEF new
  <2>5. PICK S : rows \in Seq(S)  BY DEF Gathered
  <2>6. /\ rows' \in Seq(S \cup {new}) /\ Len(rows') = n + 1
        /\ \A i \in 1 .. n : rows'[i] = rows[i]
        /\ rows'[n + 1] = new
    <3>1. rows \in Seq(S \cup {new}) /\ new \in S \cup {new}  BY <2>5, SeqMonotonic
    <3> QED  BY <2>1, <3>1, AppendProperties
  <2>7. \A i : RowsFor(i)' = RowsFor(i)
    BY <1>0, <1>a, <2>1 DEF RowsFor
  <2>8. \A i \in 1 .. n + 1 : rows'[i] = RowsFor(i)
    <3>1. \A i \in 1 .. n + 1 : i \in 1 .. n \/ i = n + 1  BY <2>2
    <3> QED  BY <2>2, <2>3, <2>6, <3>1 DEF Gathered
  <2>9. Leg' = n + 2 /\ n + 1 <= Legs  BY <2>2, <2>6 DEF Leg
  <2>10. \A c \in DOMAIN slots' : slots'[c] \in [1 .. Legs -> Nat]
    <3>1. \A c \in DOMAIN slots : slots[c] \in [1 .. Legs -> Nat]  BY DEF Gathered
    <3> QED  BY <2>1, <2>2, <2>4, <3>1, SlotsTyped
  <2>11. Leg' <= Legs => Len(chunks') <= plan.legs[Leg'] /\ chunks' = Fetched(Leg', Len(chunks'))
    <3>1. Len(chunks') = 0 /\ \A i : Fetched(i, 0) = <<>>  BY <2>1, EmptySeq DEF Fetched
    <3>2. Leg' <= Legs => plan.legs[Leg'] \in Nat
      BY <2>2, <2>9, LegShape DEF Gathered
    <3> QED  BY <2>1, <3>1, <3>2
  <2>12. <<>> \in Seq({})  BY EmptySeq
  <2>13. \A i \in 1 .. Len(rows') : rows'[i] = RowsFor(i)'  BY <2>6, <2>7, <2>8
  <2>14. Len(rows') <= Legs  BY <2>6, <2>9
  <2> QED
    BY <1>0, <1>a, <2>1, <2>6, <2>10, <2>11, <2>12, <2>13, <2>14 DEF Gathered
<1>8. CASE Answer
  <2>1. /\ stage = "fetching" /\ Leg > Legs /\ stage' = "done"
        /\ rows' = IF plan.tool = "rollup" THEN <<RolledUp(rows[1])>> ELSE rows
        /\ change' = IF plan.tool = "compare" THEN Delta(Total(rows[1]), Total(rows[2])) ELSE change
        /\ UNCHANGED <<rested, chunks, slots>>
    BY <1>8 DEF Answer
  <2>2. Len(rows) = Legs /\ chunks = <<>> /\ Legs \in Nat
    BY <2>1, GatheredCounts DEF Gathered
  <2>3. \A i \in 1 .. Legs : rows[i] = LegRows(AllFetched(i))
    BY <2>1, <2>2 DEF Gathered, RowsFor
  <2>4. /\ \E S : rows' \in Seq(S)
        /\ Len(rows') = Legs
        /\ \A i \in 1 .. Legs : rows'[i] = RowsFor(i)'
    <3>1. CASE plan.tool = "rollup"
      <4>1. Legs = 1  BY <3>1, PlansAssumption DEF Gathered, Legs
      <4> DEFINE r == RolledUp(rows[1])
      <4>2. rows' = <<r>>  BY <2>1, <3>1
      <4>3. r = RowsFor(1)'
        BY <1>0, <1>a, <2>1, <2>3, <3>1, <4>1 DEF RowsFor
      <4> HIDE DEF r
      <4>4. rows' \in Seq({r}) /\ Len(rows') = 1 /\ rows'[1] = r  BY <4>2
      <4> QED  BY <4>1, <4>3, <4>4
    <3>2. CASE plan.tool # "rollup"
      <4>1. rows' = rows  BY <2>1, <3>2
      <4>2. \A i : RowsFor(i)' = LegRows(AllFetched(i))  BY <1>0, <1>a, <3>2 DEF RowsFor
      <4> QED  BY <2>2, <2>3, <4>1, <4>2 DEF Gathered
    <3> QED  BY <3>1, <3>2
  <2>5. plan.tool = "compare" => rows' = rows /\ change' = Delta(Total(rows[1]), Total(rows[2]))
    BY <2>1
  <2>6. ~(Leg' <= Legs)  BY <2>2, <2>4 DEF Leg
  <2>7. \A c \in DOMAIN slots' : slots'[c] \in [1 .. Legs -> Nat]
    BY <2>1 DEF Gathered
  <2>8. plan.tool = "compare" => change' = Delta(Total(rows'[1]), Total(rows'[2]))
    BY <2>5
  <2>9. \E S : chunks' \in Seq(S)  BY <2>1 DEF Gathered
  <2>10. \A f, g : Delta(f, g)' = Delta(f, g) /\ Total(f)' = Total(f)  BY DEF Delta, Total
  <2>11. \A i \in 1 .. Len(rows') : rows'[i] = RowsFor(i)'  BY <2>4
  <2>12. rested' \in BOOLEAN /\ chunks' = <<>> /\ Len(rows') <= Legs
    BY <2>1, <2>2, <2>4 DEF Gathered
  <2>13. (stage = "done" /\ plan.tool = "compare" => change = Delta(Total(rows[1]), Total(rows[2])))'
    BY <1>0, <2>8
  <2> QED
    BY <1>0, <1>a, <2>1, <2>4, <2>6, <2>7, <2>9, <2>11, <2>12, <2>13 DEF Gathered
<1> QED  BY <1>2, <1>3, <1>4, <1>5, <1>6, <1>7, <1>8 DEF Next

LEMMA GatheredInvariant == Spec => []Gathered
  BY GatheredInit, GatheredStep, PTL DEF Spec

\* The state stays well-typed, and every row of an answer has a count that is not
\* zero, however many rows were merged into it.
THEOREM ReportTyped == Spec => []TypeOK
<1>1. Gathered => TypeOK
  <2> SUFFICES ASSUME Gathered PROVE TypeOK
    OBVIOUS
  <2>1. /\ Legs \in Nat /\ Len(rows) \in Nat /\ Leg = Len(rows) + 1
        /\ Leg <= Legs => Leg \in 1 .. Legs /\ plan.legs[Leg] \in Nat
        /\ DOMAIN rows = 1 .. Len(rows) /\ DOMAIN chunks = 1 .. Len(chunks)
        /\ Len(chunks) \in Nat
    BY GatheredCounts
  <2>0. /\ Len(rows) <= Legs /\ (Leg > Legs => chunks = <<>>)
        /\ \A i \in 1 .. Len(rows) : rows[i] = RowsFor(i)
    BY DEF Gathered
  <2>2. Leg \in 1 .. Legs + 1  BY <2>0, <2>1
  <2>3. ASSUME NEW j \in DOMAIN chunks PROVE chunks[j] \in Reports
    <3>1. Leg <= Legs
      <4>1. chunks # <<>>  BY <2>3
      <4> QED  BY <2>0, <2>1, <4>1
    <3>2. /\ Leg \in 1 .. Legs /\ plan.legs[Leg] \in Nat /\ j \in 1 .. plan.legs[Leg]
          /\ chunks[j] = Narrow(world[Leg][j])
      <4>1. Len(chunks) <= plan.legs[Leg] /\ chunks = Fetched(Leg, Len(chunks))
        BY <3>1 DEF Gathered
      <4>2. j \in 1 .. Len(chunks)  BY <2>1
      <4>3. Fetched(Leg, Len(chunks))[j] = Narrow(world[Leg][j])  BY <4>2 DEF Fetched
      <4>4. chunks[j] = Narrow(world[Leg][j])  BY <4>1, <4>3
      <4> QED  BY <2>1, <3>1, <4>1, <4>2, <4>4
    <3>3. world[Leg][j] \in Reports  BY <3>2, LegShape DEF Gathered
    <3> QED  BY <3>2, <3>3, NarrowReport
  <2>4. ASSUME NEW i \in DOMAIN rows, NEW k \in DOMAIN rows[i]
        PROVE  rows[i][k] \in Nat \ {0}
    <3>1. i \in 1 .. Legs /\ rows[i] = RowsFor(i)  BY <2>0, <2>1, <2>4
    <3> QED  BY <3>1, RowsForLeg DEF Gathered
  <2> QED  BY <2>2, <2>3, <2>4 DEF Gathered, TypeOK
<1> QED  BY <1>1, GatheredInvariant, PTL

\* However a period is cut into chunks, which groups they have and which requests
\* fail, an answer carries for each campaign or flow all that Klaviyo has of it over
\* the whole of each period, once; and a comparison is of those totals
\* (service.py:1560-1678, metrics.py:89-91).
THEOREM AnswerIsWhole == Spec => []NothingLost
<1>1. Gathered => NothingLost
  <2> SUFFICES ASSUME Gathered, stage = "done"
               PROVE  /\ Len(rows) = Legs
                      /\ \A i \in 1 .. Legs : \A c \in Ids : InRows(c, i) = InWorld(c, i)
                      /\ plan.tool = "compare" =>
                            /\ AllIn(2) + change.absolute = AllIn(1)
                            /\ change.fraction = Null <=> AllIn(2) = 0
    BY DEF NothingLost, Ids
  <2>1. Len(rows) = Legs /\ \A i \in 1 .. Legs : rows[i] = RowsFor(i)  BY DEF Gathered
  <2>2. ASSUME NEW i \in 1 .. Legs, NEW c PROVE InRows(c, i) = InWorld(c, i)
    BY <2>1, RowsForLeg DEF Gathered, InRows
  <2>3. ASSUME NEW i \in 1 .. Legs
        PROVE  AllIn(i) = Sum(rows[i]) /\ AllIn(i) \in Int
    <3> DEFINE f == rows[i]
               D == DOMAIN f
               key == [k \in D |-> k.id]
               g == [c \in Ids |-> InWorld(c, i)]
    <3>1. IsFiniteSet(D) /\ \A k \in D : f[k] \in Int /\ key[k] \in Ids
      BY <2>1, RowsForLeg DEF Gathered
    <3>2. IsFiniteSet(Ids)
      <4> DEFINE ident == [x \in Groups |-> x.id]
      <4>1. ident \in Surjection(Groups, Ids)  BY DEF Surjection, Ids
      <4> QED  BY <4>1, GroupsAssumption, FS_Surjection
    <3>3. \A c \in Ids : g[c] = SumOver(f, Fibre(key, D, c))
      <4> SUFFICES ASSUME NEW c \in Ids PROVE g[c] = SumOver(f, Fibre(key, D, c))
        OBVIOUS
      <4>1. Fibre(key, D, c) = {k \in D : k.id = c}  BY DEF Fibre
      <4> QED  BY <2>2, <4>1 DEF InRows
    <3>4. AllIn(i) = SumOver(g, Ids)  BY DEF AllIn, Sum, Ids
    <3> HIDE DEF D, key, g, f
    <3>5. SumOver(f, D) = SumOver(g, Ids)  BY <3>1, <3>2, <3>3, SumByKey
    <3>6. SumOver(f, D) \in Int  BY <3>1, SumInt
    <3> QED  BY <3>4, <3>5, <3>6 DEF Sum, D, f
  <2>4. ASSUME plan.tool = "compare"
        PROVE  /\ AllIn(2) + change.absolute = AllIn(1)
               /\ change.fraction = Null <=> AllIn(2) = 0
    <3>1. Legs = 2  BY <2>4, PlansAssumption DEF Gathered, Legs
    <3>2. change = Delta(Sum(rows[1]), Sum(rows[2]))  BY <2>4 DEF Gathered, Total
    <3>3. 1 \in 1 .. Legs /\ 2 \in 1 .. Legs  BY <3>1
    <3> DEFINE c == AllIn(1)
               p == AllIn(2)
    <3>4. c \in Int /\ p \in Int /\ change = Delta(c, p)  BY <2>3, <3>2, <3>3
    <3> HIDE DEF c, p
    <3>5. change.absolute = c - p /\ change.fraction = IF p = 0 THEN Null ELSE <<c - p, p>>
      BY <3>4 DEF Delta
    <3>6. <<c - p, p>> \in Int \X Int  BY <3>4
    <3>7. <<c - p, p>> # Null  BY <3>6, NullAssumption
    <3>8. p + change.absolute = c  BY <3>4, <3>5
    <3> QED  BY <3>5, <3>7, <3>8 DEF c, p
  <2> QED  BY <2>1, <2>2, <2>4
<1> QED  BY <1>1, GatheredInvariant, PTL

\* Cutting a period into chunks never changes the shape of a flow report: each
\* flow, message and channel that any chunk has keeps a row of its own, and there
\* are no others (service.py:1635-1636).
THEOREM FlowRowsKept == Spec => []FlowGroupsKept
<1>1. Gathered => FlowGroupsKept
  <2> SUFFICES ASSUME Gathered, plan.entity = "flow", plan.tool # "rollup", NEW i \in DOMAIN rows
               PROVE  DOMAIN rows[i] = {r[2] : r \in {r \in RowsOf(world[i]) : Asked(r[2])}}
    BY DEF FlowGroupsKept
  <2> DEFINE n == plan.legs[i]
             cs == AllFetched(i)
  <2>1. i \in 1 .. Legs /\ i \in 1 .. Len(rows)  BY GatheredCounts DEF Gathered
  <2>2. rows[i] = LegRows(cs)  BY <2>1 DEF Gathered, RowsFor
  <2>3. n \in Nat /\ cs \in [1 .. n -> Reports]
    BY <2>1, LegShape, FetchedReports DEF Gathered
  <2>4. RowsOf(cs) = {r \in RowsOf(world[i]) : Asked(r[2])}
    BY <2>1, FetchedRows DEF Gathered
  <2> HIDE DEF n, cs
  <2>5. \A g : MergeKey(g) = g  BY DEF MergeKey
  <2>6. DOMAIN Merged(cs) = {r[2] : r \in RowsOf(cs)}
    BY <2>5 DEF Merged
  <2>7. Len(cs) = 1 => DOMAIN cs[1] = {r[2] : r \in RowsOf(cs)}
    <3> SUFFICES ASSUME Len(cs) = 1 PROVE DOMAIN cs[1] = {r[2] : r \in RowsOf(cs)}
      OBVIOUS
    <3>1. n = 1
      <4>1. cs \in Seq(Reports) /\ DOMAIN cs = 1 .. n  BY <2>3, SeqDef
      <4> QED  BY <2>3, <4>1, LenProperties
    <3>2. DOMAIN cs = {1}  BY <2>3, <3>1
    <3>3. RowsOf(cs) = {<<1, g>> : g \in DOMAIN cs[1]}  BY <3>2 DEF RowsOf
    <3>4. \A g : <<1, g>>[2] = g  OBVIOUS
    <3>5. \A g \in DOMAIN cs[1] : \E r \in RowsOf(cs) : r[2] = g
      <4> TAKE g \in DOMAIN cs[1]
      <4>1. <<1, g>> \in RowsOf(cs)  BY <3>3
      <4> QED  BY <3>4, <4>1
    <3>6. \A r \in RowsOf(cs) : r[2] \in DOMAIN cs[1]  BY <3>3, <3>4
    <3> QED  BY <3>5, <3>6
  <2> QED  BY <2>2, <2>4, <2>6, <2>7 DEF LegRows
<1> QED  BY <1>1, GatheredInvariant, PTL
=============================================================================
