---------------------------- MODULE SeriesProofs ----------------------------
(***************************************************************************)
(* Proofs about Series for any period, groups and statistics: the arrays   *)
(* of a stitched report are aligned to its dates, and lose nothing.        *)
(***************************************************************************)
EXTENDS Series, SumsProofs, SequenceTheorems

-----------------------------------------------------------------------------
(* Concatenation: what FlattenSeq makes of any number of sequences.        *)

Grows(g, q, n) == g = [i \in 1 .. n |-> IF i = 1 THEN q[i] ELSE g[i - 1] \o q[i]]

LEMMA GrowthExists ==
    ASSUME NEW q
    PROVE  \A n \in Nat : \E g : Grows(g, q, n)
<1> DEFINE Bad == {n \in Nat : ~\E g : Grows(g, q, n)}
<1>1. SUFFICES ASSUME Bad # {} PROVE FALSE
  OBVIOUS
<1>2. PICK n \in Bad : \A m \in Bad : n <= m
  <2>1. Bad \in SUBSET Nat  OBVIOUS
  <2> HIDE DEF Bad
  <2> QED  BY <1>1, <2>1, LeastNat
<1>3. CASE n = 0
  <2> DEFINE g == [i \in 1 .. 0 |-> q[i]]
  <2>1. Grows(g, q, 0)  BY DEF Grows
  <2> QED  BY <1>3, <2>1
<1>4. CASE n # 0
  <2>1. n \in Nat /\ n - 1 \in Nat /\ n - 1 \notin Bad  BY <1>2, <1>4
  <2>2. PICK h : Grows(h, q, n - 1)  BY <2>1
  <2> DEFINE g == [i \in 1 .. n |-> IF i = 1 THEN q[i] ELSE h[i - 1] \o q[i]]
  <2>3. \A i \in 1 .. n : i # 1 => g[i - 1] = h[i - 1]
    <3> SUFFICES ASSUME NEW i \in 1 .. n, i # 1 PROVE g[i - 1] = h[i - 1]
      OBVIOUS
    <3>1. i - 1 \in 1 .. n /\ i - 1 \in 1 .. n - 1  BY <2>1
    <3>2. g[i - 1] = IF i - 1 = 1 THEN q[i - 1] ELSE h[(i - 1) - 1] \o q[i - 1]
      BY <3>1
    <3>3. h[i - 1] = IF i - 1 = 1 THEN q[i - 1] ELSE h[(i - 1) - 1] \o q[i - 1]
      BY <2>2, <3>1 DEF Grows
    <3> QED  BY <3>2, <3>3
  <2>4. g = [i \in 1 .. n |-> IF i = 1 THEN q[i] ELSE g[i - 1] \o q[i]]
    <3>1. g = [i \in 1 .. n |-> IF i = 1 THEN q[i] ELSE h[i - 1] \o q[i]]  OBVIOUS
    <3> HIDE DEF g
    <3> QED  BY <2>3, <3>1
  <2> HIDE DEF g
  <2>5. Grows(g, q, n)  BY <2>4 DEF Grows
  <2> QED  BY <2>5
<1> QED  BY <1>3, <1>4

\* The concatenation is the last of a chain, each of which adds one sequence.
LEMMA FlattenChain ==
    ASSUME NEW q, Len(q) \in Nat \ {0}
    PROVE  \E g : /\ FlattenSeq(q) = g[Len(q)]
                  /\ g[1] = q[1]
                  /\ \A i \in 2 .. Len(q) : g[i] = g[i - 1] \o q[i]
<1> DEFINE n == Len(q)
           g == CHOOSE g : Grows(g, q, n)
<1>1. Grows(g, q, n)  BY GrowthExists
<1>2. FlattenSeq(q) = g[n]  BY DEF FlattenSeq, Grows
<1> HIDE DEF g
<1>3. 1 \in 1 .. n /\ \A i \in 2 .. n : i \in 1 .. n /\ i # 1  OBVIOUS
<1>4. \A i \in 1 .. n : g[i] = IF i = 1 THEN q[i] ELSE g[i - 1] \o q[i]
  BY <1>1 DEF Grows
<1>5. g[1] = q[1] /\ \A i \in 2 .. n : g[i] = g[i - 1] \o q[i]
  BY <1>3, <1>4
<1> QED  BY <1>2, <1>5

\* A position k of part i in the concatenations a and b of parts p and q.
At(a, b, j, p, q, i, k) == a[j] = p[i][k] /\ b[j] = q[i][k]

\* Two concatenations whose first m parts have the same lengths are aligned.
InStep(a, b, p, q, T, m) ==
    /\ a \in Seq(T) /\ b \in Seq(T) /\ Len(a) = Len(b)
    /\ \A j \in 1 .. Len(a) :
          \E i \in 1 .. m : \E k \in 1 .. Len(p[i]) : At(a, b, j, p, q, i, k)
    /\ \A i \in 1 .. m : \A k \in 1 .. Len(p[i]) :
          \E j \in 1 .. Len(a) : At(a, b, j, p, q, i, k)

LEMMA InStepOne ==
    ASSUME NEW T, NEW p, NEW q, p[1] \in Seq(T), q[1] \in Seq(T), Len(p[1]) = Len(q[1])
    PROVE  InStep(p[1], q[1], p, q, T, 1)
<1>1. 1 \in 1 .. 1 /\ \A i \in 1 .. 1 : i = 1  OBVIOUS
<1> QED  BY <1>1 DEF InStep, At

LEMMA InStepMore ==
    ASSUME NEW T, NEW p, NEW q, NEW a, NEW b, NEW m \in Nat,
           InStep(a, b, p, q, T, m),
           p[m + 1] \in Seq(T), q[m + 1] \in Seq(T), Len(p[m + 1]) = Len(q[m + 1])
    PROVE  InStep(a \o p[m + 1], b \o q[m + 1], p, q, T, m + 1)
<1> DEFINE x == p[m + 1]
           y == q[m + 1]
           l == Len(a)
           r == Len(x)
<1>1. /\ a \in Seq(T) /\ b \in Seq(T) /\ x \in Seq(T) /\ y \in Seq(T)
      /\ Len(b) = l /\ Len(y) = r /\ l \in Nat /\ r \in Nat
  BY LenProperties DEF InStep
<1>2. /\ a \o x \in Seq(T) /\ Len(a \o x) = l + r
      /\ \A j \in 1 .. l + r : (a \o x)[j] = IF j <= l THEN a[j] ELSE x[j - l]
  BY <1>1, ConcatProperties
<1>3. /\ b \o y \in Seq(T) /\ Len(b \o y) = l + r
      /\ \A j \in 1 .. l + r : (b \o y)[j] = IF j <= l THEN b[j] ELSE y[j - l]
  <2>1. /\ b \o y \in Seq(T) /\ Len(b \o y) = Len(b) + Len(y)
        /\ \A j \in 1 .. Len(b) + Len(y) :
              (b \o y)[j] = IF j <= Len(b) THEN b[j] ELSE y[j - Len(b)]
    BY <1>1, ConcatProperties
  <2> HIDE DEF y, l, r
  <2> QED  BY <1>1, <2>1
<1> DEFINE ax == a \o x
           by == b \o y
<1>4. ASSUME NEW j \in 1 .. l + r
      PROVE  \E i \in 1 .. m + 1 : \E k \in 1 .. Len(p[i]) : At(ax, by, j, p, q, i, k)
  <2>1. CASE j <= l
    <3>1. j \in 1 .. l  BY <1>1, <2>1
    <3>2. PICK i \in 1 .. m : \E k \in 1 .. Len(p[i]) : At(a, b, j, p, q, i, k)
      BY <3>1 DEF InStep
    <3>3. PICK k \in 1 .. Len(p[i]) : At(a, b, j, p, q, i, k)  BY <3>2
    <3>4. At(ax, by, j, p, q, i, k)  BY <1>2, <1>3, <2>1, <3>3 DEF At
    <3>5. i \in 1 .. m + 1  OBVIOUS
    <3> HIDE DEF ax, by
    <3> QED  BY <3>4, <3>5
  <2>2. CASE j > l
    <3>1. j - l \in 1 .. r /\ ~(j <= l)  BY <1>1, <2>2
    <3>2. At(ax, by, j, p, q, m + 1, j - l)  BY <1>2, <1>3, <3>1 DEF At
    <3>3. m + 1 \in 1 .. m + 1  OBVIOUS
    <3> HIDE DEF ax, by
    <3> QED  BY <3>1, <3>2, <3>3
  <2> QED  BY <1>1, <2>1, <2>2
<1>5. ASSUME NEW i \in 1 .. m + 1, NEW k \in 1 .. Len(p[i])
      PROVE  \E j \in 1 .. l + r : At(ax, by, j, p, q, i, k)
  <2>1. CASE i # m + 1
    <3>1. i \in 1 .. m  BY <2>1
    <3>2. PICK j \in 1 .. l : At(a, b, j, p, q, i, k)  BY <3>1 DEF InStep
    <3>3. j \in 1 .. l + r /\ j <= l  BY <1>1
    <3>4. At(ax, by, j, p, q, i, k)  BY <1>2, <1>3, <3>2, <3>3 DEF At
    <3> HIDE DEF ax, by
    <3> QED  BY <3>3, <3>4
  <2>2. CASE i = m + 1
    <3>1. k \in 1 .. r  BY <2>2
    <3>2. l + k \in 1 .. l + r /\ ~(l + k <= l) /\ (l + k) - l = k  BY <1>1, <3>1
    <3>3. At(ax, by, l + k, p, q, i, k)  BY <1>2, <1>3, <2>2, <3>2 DEF At
    <3> HIDE DEF ax, by
    <3> QED  BY <3>2, <3>3
  <2> QED  BY <2>1, <2>2
<1> HIDE DEF ax, by
<1>6. ax \in Seq(T) /\ by \in Seq(T) /\ Len(ax) = l + r /\ Len(by) = l + r
  BY <1>2, <1>3 DEF ax, by
<1> HIDE DEF x, y, l, r
<1>7. InStep(ax, by, p, q, T, m + 1)
  BY <1>4, <1>5, <1>6 DEF InStep
<1> QED  BY <1>7 DEF ax, by, x, y

\* Concatenations of parts of the same lengths are aligned, part by part.
LEMMA FlattenInStep ==
    ASSUME NEW T, NEW n \in Nat, NEW p \in [1 .. n -> Seq(T)], NEW q \in [1 .. n -> Seq(T)],
           \A i \in 1 .. n : Len(p[i]) = Len(q[i])
    PROVE  InStep(FlattenSeq(p), FlattenSeq(q), p, q, T, n)
<1>1. Len(p) = n /\ Len(q) = n
  <2>1. p \in Seq(Seq(T)) /\ q \in Seq(Seq(T))  BY SeqDef
  <2>2. DOMAIN p = 1 .. n /\ DOMAIN q = 1 .. n  OBVIOUS
  <2> QED  BY <2>1, <2>2, LenProperties
<1>2. CASE n = 0
  <2>1. FlattenSeq(p) = p /\ FlattenSeq(q) = q  BY <1>1, <1>2 DEF FlattenSeq
  <2>2. p = <<>> /\ q = <<>>  BY <1>2
  <2>3. <<>> \in Seq(T) /\ Len(<<>>) = 0  BY EmptySeq
  <2> QED  BY <1>2, <2>1, <2>2, <2>3 DEF InStep
<1>3. CASE n # 0
  <2>1. PICK g : /\ FlattenSeq(p) = g[n] /\ g[1] = p[1]
                 /\ \A i \in 2 .. n : g[i] = g[i - 1] \o p[i]
    <3>1. Len(p) \in Nat \ {0}  BY <1>1, <1>3
    <3>2. \E g : /\ FlattenSeq(p) = g[Len(p)] /\ g[1] = p[1]
                 /\ \A i \in 2 .. Len(p) : g[i] = g[i - 1] \o p[i]
      BY <3>1, FlattenChain
    <3> QED  BY <1>1, <3>2
  <2>2. PICK h : /\ FlattenSeq(q) = h[n] /\ h[1] = q[1]
                 /\ \A i \in 2 .. n : h[i] = h[i - 1] \o q[i]
    <3>1. Len(q) \in Nat \ {0}  BY <1>1, <1>3
    <3>2. \E h : /\ FlattenSeq(q) = h[Len(q)] /\ h[1] = q[1]
                 /\ \A i \in 2 .. Len(q) : h[i] = h[i - 1] \o q[i]
      BY <3>1, FlattenChain
    <3> QED  BY <1>1, <3>2
  <2> DEFINE Bad == {m \in Nat : m \in 1 .. n /\ ~InStep(g[m], h[m], p, q, T, m)}
  <2>3. Bad = {}
    <3> SUFFICES ASSUME Bad # {} PROVE FALSE
      OBVIOUS
    <3>1. PICK m \in Bad : \A k \in Bad : m <= k
      <4>1. Bad \in SUBSET Nat  OBVIOUS
      <4> HIDE DEF Bad
      <4> QED  BY <4>1, LeastNat
    <3>2. CASE m = 1
      <4>1. InStep(p[1], q[1], p, q, T, 1)  BY <1>3, InStepOne
      <4> QED  BY <2>1, <2>2, <3>1, <3>2, <4>1
    <3>3. CASE m # 1
      <4>1. m - 1 \in Nat /\ m - 1 \in 1 .. n /\ m \in 2 .. n /\ m \in 1 .. n /\ (m - 1) + 1 = m
        BY <3>3
      <4>2. m - 1 \notin Bad  BY <3>1, <4>1
      <4>3. InStep(g[m - 1], h[m - 1], p, q, T, m - 1)  BY <4>1, <4>2
      <4>4. InStep(g[m - 1] \o p[m], h[m - 1] \o q[m], p, q, T, m)
        <5> DEFINE k == m - 1
        <5>1. k \in Nat /\ m = k + 1  BY <4>1
        <5>2. p[m] \in Seq(T) /\ q[m] \in Seq(T) /\ Len(p[m]) = Len(q[m])  BY <4>1
        <5>3. InStep(g[k], h[k], p, q, T, k)  BY <4>3
        <5> HIDE DEF k
        <5>4. InStep(g[k] \o p[k + 1], h[k] \o q[k + 1], p, q, T, k + 1)
          BY <5>1, <5>2, <5>3, InStepMore
        <5> QED  BY <5>1, <5>4 DEF k
      <4>5. g[m] = g[m - 1] \o p[m] /\ h[m] = h[m - 1] \o q[m]
        BY <2>1, <2>2, <4>1
      <4> QED  BY <4>4, <4>5
    <3> QED  BY <3>2, <3>3
  <2>4. InStep(g[n], h[n], p, q, T, n)  BY <1>3, <2>3
  <2> QED  BY <2>1, <2>2, <2>4
<1> QED  BY <1>2, <1>3

-----------------------------------------------------------------------------
(* The chunks, and the answer that is made of them.                        *)

FetchedTo(n) == [i \in 1 .. n |-> Shape(Body(i))]

\* The chunks fetched are the first of the period, in order; the answer is made of
\* all of them.
Collected ==
    /\ world \in Worlds
    /\ stage \in {"fetching", "done", "failed"}
    /\ \E T : chunks \in Seq(T)
    /\ Len(chunks) <= Len(world)
    /\ chunks = FetchedTo(Len(chunks))
    /\ stage # "done" => dates = <<>> /\ series = Nothing
    /\ stage = "done" =>
          /\ Len(chunks) = Len(world)
          /\ IF Len(chunks) = 1
             THEN dates = chunks[1].dates /\ series = chunks[1].series
             ELSE dates = DatesOf(chunks) /\ series = Merged(chunks)

LEMMA AppendTo ==
    ASSUME NEW n \in Nat, NEW T, NEW q \in Seq(T), Len(q) = n, NEW f, q = [i \in 1 .. n |-> f[i]],
           NEW m, m = n + 1
    PROVE  /\ Append(q, f[m]) = [i \in 1 .. m |-> f[i]]
           /\ Append(q, f[m]) \in Seq(T \cup {f[m]})
           /\ Len(Append(q, f[m])) = m
<1> DEFINE e == f[m]
           U == T \cup {e}
           a == Append(q, e)
<1>1. q \in Seq(U) /\ e \in U  BY SeqMonotonic
<1>2. /\ a \in Seq(U) /\ Len(a) = m /\ a[m] = e
      /\ \A i \in 1 .. n : a[i] = q[i]
  <2> HIDE DEF e, U
  <2> QED  BY <1>1, AppendProperties
<1>3. DOMAIN a = 1 .. m  BY <1>2, LenProperties
<1>4. \A i \in 1 .. m : a[i] = f[i]
  <2>1. \A i \in 1 .. m : i \in 1 .. n \/ i = m  OBVIOUS
  <2>2. \A i \in 1 .. n : q[i] = f[i]  OBVIOUS
  <2> HIDE DEF a
  <2> QED  BY <1>2, <2>1, <2>2
<1>5. a = [i \in 1 .. m |-> a[i]]
  <2>1. Seq(U) = UNION {[1 .. k -> U] : k \in Nat}  BY SeqDef, Zenon
  <2> HIDE DEF a, U
  <2>2. a \in UNION {[1 .. k -> U] : k \in Nat}  BY <1>2, <2>1
  <2>3. PICK k \in Nat : a \in [1 .. k -> U]  BY <2>2
  <2> QED  BY <1>3, <2>3
<1> HIDE DEF a
<1>6. a = [i \in 1 .. m |-> f[i]]  BY <1>4, <1>5
<1> QED  BY <1>2, <1>6 DEF a

LEMMA CollectedInit == Init => Collected
<1> SUFFICES ASSUME Init PROVE Collected
  OBVIOUS
<1>1. world \in Worlds /\ stage = "fetching" /\ chunks = <<>> /\ dates = <<>> /\ series = Nothing
  BY DEF Init
<1>2. <<>> \in Seq({}) /\ Len(<<>>) = 0 /\ FetchedTo(0) = <<>>  BY EmptySeq DEF FetchedTo
<1>3. Len(world) \in Nat  BY <1>1, WorldsAssumption
<1> QED  BY <1>1, <1>2, <1>3 DEF Collected

LEMMA CollectedStep == Collected /\ [Next]_vars => Collected'
<1> SUFFICES ASSUME Collected, [Next]_vars PROVE Collected'
  OBVIOUS
<1>0. UNCHANGED <<world, filter>>
  BY DEF Next, Post, PostFails, Answer, Ended, vars
<1>a. \A n : FetchedTo(n)' = FetchedTo(n)
  BY <1>0 DEF FetchedTo, Shape, Body
<1>1. CASE UNCHANGED vars \/ Ended
  <2>1. UNCHANGED <<stage, chunks, dates, series>>  BY <1>1 DEF Ended, vars
  <2>2. DatesOf(chunks)' = DatesOf(chunks) /\ Merged(chunks)' = Merged(chunks)
    BY <2>1 DEF DatesOf, Merged, GroupsOf, StatsOf, Padded, Fits
  <2> QED  BY <1>0, <1>a, <2>1, <2>2 DEF Collected, Nothing
<1>2. CASE PostFails
  BY <1>0, <1>2, <1>a DEF PostFails, More, Collected
<1>3. CASE Post
  <2> DEFINE n == Len(chunks)
             f == [i \in 1 .. n + 1 |-> Shape(Body(i))]
  <2>1. /\ stage = "fetching" /\ n < Len(world)
        /\ chunks' = Append(chunks, Shape(Body(n + 1)))
        /\ UNCHANGED <<stage, dates, series>>
    BY <1>3 DEF Post, More
  <2>2. PICK T : chunks \in Seq(T)  BY DEF Collected
  <2>3. n \in Nat /\ Len(world) \in Nat  BY <2>2, LenProperties, WorldsAssumption DEF Collected
  <2>4. f[n + 1] = Shape(Body(n + 1))  BY <2>3
  <2>5. chunks = [i \in 1 .. n |-> f[i]]  BY <2>3 DEF Collected, FetchedTo
  <2>6. FetchedTo(n + 1) = [i \in 1 .. n + 1 |-> f[i]]  BY DEF FetchedTo
  <2> DEFINE m == n + 1
  <2> HIDE DEF f
  <2>7. /\ Append(chunks, f[m]) = [i \in 1 .. m |-> f[i]]
        /\ Append(chunks, f[m]) \in Seq(T \cup {f[m]})
        /\ Len(Append(chunks, f[m])) = m
    <3> HIDE DEF n, m
    <3>1. m = n + 1  BY DEF m
    <3>2. Len(chunks) = n  BY DEF n
    <3> QED  BY <2>2, <2>3, <2>5, <3>1, <3>2, AppendTo
  <2>8. chunks' = FetchedTo(n + 1) /\ Len(chunks') = n + 1 /\ \E U : chunks' \in Seq(U)
    BY <2>1, <2>4, <2>6, <2>7
  <2>9. Len(chunks') <= Len(world)  BY <2>1, <2>3, <2>8
  <2> HIDE DEF n
  <2>10. stage # "done" /\ dates = <<>> /\ series = Nothing  BY <2>1 DEF Collected
  <2> QED  BY <1>0, <1>a, <2>1, <2>8, <2>9, <2>10 DEF Collected, Nothing
<1>4. CASE Answer
  <2>1. /\ stage = "fetching" /\ Len(chunks) = Len(world) /\ stage' = "done"
        /\ IF Len(chunks) = 1
           THEN dates' = chunks[1].dates /\ series' = chunks[1].series
           ELSE dates' = DatesOf(chunks) /\ series' = Merged(chunks)
        /\ UNCHANGED chunks
    BY <1>4 DEF Answer
  <2>2. DatesOf(chunks)' = DatesOf(chunks) /\ Merged(chunks)' = Merged(chunks)
    BY <2>1 DEF DatesOf, Merged, GroupsOf, StatsOf, Padded, Fits
  <2> QED  BY <1>0, <1>a, <2>1, <2>2 DEF Collected
<1> QED  BY <1>1, <1>2, <1>3, <1>4 DEF Next

LEMMA CollectedInvariant == Spec => []Collected
  BY CollectedInit, CollectedStep, PTL DEF Spec

-----------------------------------------------------------------------------
(* A chunk, and what each group has of it.                                 *)

Asked(g) == filter \in {NoFilter, g.id}

LEMMA ArraySeq ==
    ASSUME NEW i \in Nat, NEW n \in Nat
    PROVE  /\ Array(i, n) \in Seq(Cell) /\ Len(Array(i, n)) = n
           /\ \A k \in 1 .. n : Array(i, n)[k] = <<i, k>>
<1>1. \A k \in 1 .. n : <<i, k>> \in Cell  BY DEF Cell
<1>2. Array(i, n) \in [1 .. n -> Cell]  BY <1>1 DEF Array
<1>3. Array(i, n) \in Seq(Cell) /\ DOMAIN Array(i, n) = 1 .. n  BY <1>2, SeqDef
<1>4. Len(Array(i, n)) = n  BY <1>3, LenProperties
<1> QED  BY <1>3, <1>4 DEF Array

LEMMA ZerosSeq ==
    ASSUME NEW n \in Nat
    PROVE  /\ Zeros(n) \in Seq(Cell) /\ Len(Zeros(n)) = n
           /\ \A k \in 1 .. n : Zeros(n)[k] = Zero
<1>1. Zero \in Cell  BY DEF Cell, Zero
<1>2. Zeros(n) \in [1 .. n -> Cell]  BY <1>1 DEF Zeros
<1>3. Zeros(n) \in Seq(Cell) /\ DOMAIN Zeros(n) = 1 .. n  BY <1>2, SeqDef
<1>4. Len(Zeros(n)) = n  BY <1>3, LenProperties
<1> QED  BY <1>3, <1>4 DEF Zeros

\* Chunk i, once shaped.
LEMMA ChunkShape ==
    ASSUME world \in Worlds, NEW i \in 1 .. Len(world)
    PROVE  /\ world[i].dates \in Nat
           /\ Shape(Body(i)).dates = Array(i, world[i].dates)
           /\ DOMAIN Shape(Body(i)).series = {g \in DOMAIN world[i].lengths : Asked(g)}
           /\ \A g \in DOMAIN Shape(Body(i)).series :
                 /\ g \in Groups
                 /\ DOMAIN Shape(Body(i)).series[g] = DOMAIN world[i].lengths[g]
                 /\ \A s \in DOMAIN Shape(Body(i)).series[g] :
                       /\ s \in Stats /\ world[i].lengths[g][s] \in Nat
                       /\ Shape(Body(i)).series[g][s] = Array(i, world[i].lengths[g][s])
<1> DEFINE w == world[i]
           all == [g \in DOMAIN w.lengths |->
                      [s \in DOMAIN w.lengths[g] |-> Array(i, w.lengths[g][s])]]
           mine == [g \in {g \in DOMAIN all : Asked(g)} |-> all[g]]
<1>1. i \in DOMAIN world  BY WorldsAssumption
<1>2. /\ w.dates \in Nat
      /\ DOMAIN w.lengths \subseteq Groups
      /\ \A g \in DOMAIN w.lengths :
            /\ DOMAIN w.lengths[g] \subseteq Stats
            /\ \A s \in DOMAIN w.lengths[g] : w.lengths[g][s] \in Nat
  BY <1>1, WorldsAssumption
<1>3. Body(i) = [dates |-> Array(i, w.dates), series |-> all]  BY DEF Body
<1>4. Shape(Body(i)) = [dates |-> Array(i, w.dates), series |-> mine]
  <2> HIDE DEF all
  <2> QED  BY <1>3 DEF Shape, Asked
<1>5. Shape(Body(i)).dates = Array(i, w.dates) /\ Shape(Body(i)).series = mine
  <2> HIDE DEF mine
  <2> QED  BY <1>4
<1>6. /\ DOMAIN mine = {g \in DOMAIN w.lengths : Asked(g)}
      /\ \A g \in DOMAIN mine :
            mine[g] = [s \in DOMAIN w.lengths[g] |-> Array(i, w.lengths[g][s])]
  OBVIOUS
<1> HIDE DEF mine
<1> QED  BY <1>2, <1>5, <1>6

\* What a group has of a chunk is as long as the chunk's dates, and each value is of
\* its date or a zero; it is what Klaviyo has when that fits.
LEMMA PaddedShape ==
    ASSUME world \in Worlds, NEW i \in 1 .. Len(world), NEW g, NEW s
    PROVE  /\ Padded(Shape(Body(i)), g, s) \in Seq(Cell)
           /\ Len(Padded(Shape(Body(i)), g, s)) = world[i].dates
           /\ \A k \in 1 .. world[i].dates :
                 Padded(Shape(Body(i)), g, s)[k] \in {<<i, k>>, Zero}
           /\ g \in DOMAIN world[i].lengths /\ Asked(g) /\ s \in DOMAIN world[i].lengths[g]
                 /\ world[i].lengths[g][s] = world[i].dates
              => Padded(Shape(Body(i)), g, s) = Array(i, world[i].dates)
<1> DEFINE c == Shape(Body(i))
           n == world[i].dates
           a == c.series[g][s]
           pad == Padded(c, g, s)
<1>1. i \in Nat /\ n \in Nat /\ c.dates = Array(i, n)  BY ChunkShape
<1>2. Len(c.dates) = n  BY <1>1, ArraySeq
<1>3. CASE g \in DOMAIN c.series /\ s \in DOMAIN c.series[g] /\ Fits(a, Len(c.dates))
  <2>1. pad = a  BY <1>3 DEF Padded
  <2>2. a = Array(i, world[i].lengths[g][s]) /\ world[i].lengths[g][s] \in Nat
    BY <1>3, ChunkShape
  <2>3. Len(a) = n  BY <1>2, <1>3 DEF Fits
  <2>4. world[i].lengths[g][s] = n
    <3> DEFINE m == world[i].lengths[g][s]
    <3>1. m \in Nat /\ a = Array(i, m)  BY <2>2
    <3> HIDE DEF m, a, n
    <3>2. Len(Array(i, m)) = m  BY <1>1, <3>1, ArraySeq
    <3>3. m = n  BY <2>3, <3>1, <3>2
    <3> QED  BY <3>3 DEF m
  <2>5. pad = Array(i, n)  BY <2>1, <2>2, <2>4
  <2> HIDE DEF pad
  <2>6. pad \in Seq(Cell) /\ Len(pad) = n /\ \A k \in 1 .. n : pad[k] = <<i, k>>
    BY <1>1, <2>5, ArraySeq
  <2> QED  BY <2>5, <2>6 DEF pad
<1>4. CASE ~(g \in DOMAIN c.series /\ s \in DOMAIN c.series[g] /\ Fits(a, Len(c.dates)))
  <2>1. pad = Zeros(Len(c.dates))  BY <1>4 DEF Padded
  <2>2. pad = Zeros(n)  BY <1>2, <2>1
  <2>3. pad \in Seq(Cell) /\ Len(pad) = n /\ \A k \in 1 .. n : pad[k] = Zero
    <3> HIDE DEF pad, n
    <3> QED  BY <1>1, <2>2, ZerosSeq
  <2>4. ~(/\ g \in DOMAIN world[i].lengths /\ Asked(g) /\ s \in DOMAIN world[i].lengths[g]
          /\ world[i].lengths[g][s] = n)
    <3> SUFFICES ASSUME g \in DOMAIN world[i].lengths, Asked(g), s \in DOMAIN world[i].lengths[g],
                        world[i].lengths[g][s] = n
                 PROVE  FALSE
      OBVIOUS
    <3>1. g \in DOMAIN c.series /\ s \in DOMAIN c.series[g] /\ a = Array(i, n)
      BY ChunkShape
    <3>2. Len(a) = n  BY <1>1, <3>1, ArraySeq
    <3> QED  BY <1>2, <1>4, <3>1, <3>2 DEF Fits
  <2> QED  BY <2>3, <2>4
<1> QED  BY <1>3, <1>4

-----------------------------------------------------------------------------
(* The answer made of several chunks.                                      *)

Dated(i) == Array(i, world[i].dates)

\* The dates and every array of a stitched answer are concatenations whose parts are
\* of the same lengths.
LEMMA StitchedShape ==
    ASSUME Collected, Stitched
    PROVE  /\ Len(world) \in Nat
           /\ chunks = FetchedTo(Len(world))
           /\ dates = FlattenSeq([i \in 1 .. Len(world) |-> Dated(i)])
           /\ series = [g \in GroupsOf(chunks) |-> [s \in StatsOf(chunks) |->
                          FlattenSeq([i \in 1 .. Len(world) |-> Padded(Shape(Body(i)), g, s)])]]
<1> DEFINE n == Len(world)
<1>1. world \in Worlds /\ stage = "done" /\ n # 1 /\ Len(chunks) = n /\ chunks = FetchedTo(n)
      /\ dates = DatesOf(chunks) /\ series = Merged(chunks)
  BY DEF Collected, Stitched
<1>2. n \in Nat  BY <1>1, WorldsAssumption
<1> HIDE DEF n
<1>3. DOMAIN chunks = 1 .. n /\ \A i \in 1 .. n : chunks[i] = Shape(Body(i))
  BY <1>1 DEF FetchedTo
<1>4. \A i \in 1 .. n : Shape(Body(i)).dates = Dated(i)
  BY <1>1, ChunkShape DEF Dated, n
<1>5. [i \in DOMAIN chunks |-> chunks[i].dates] = [i \in 1 .. n |-> Dated(i)]
  BY <1>3, <1>4
<1>6. \A g, s : [i \in DOMAIN chunks |-> Padded(chunks[i], g, s)]
                = [i \in 1 .. n |-> Padded(Shape(Body(i)), g, s)]
  BY <1>3
<1>7. dates = FlattenSeq([i \in 1 .. n |-> Dated(i)])
  BY <1>1, <1>5 DEF DatesOf
<1>8. series = [g \in GroupsOf(chunks) |-> [s \in StatsOf(chunks) |->
                  FlattenSeq([i \in 1 .. n |-> Padded(Shape(Body(i)), g, s)])]]
  BY <1>1, <1>6 DEF Merged
<1> QED  BY <1>1, <1>2, <1>7, <1>8 DEF n

LEMMA InStepPadded ==
    ASSUME world \in Worlds, Len(world) \in Nat, NEW g, NEW s
    PROVE  InStep(FlattenSeq([i \in 1 .. Len(world) |-> Dated(i)]),
                  FlattenSeq([i \in 1 .. Len(world) |-> Padded(Shape(Body(i)), g, s)]),
                  [i \in 1 .. Len(world) |-> Dated(i)],
                  [i \in 1 .. Len(world) |-> Padded(Shape(Body(i)), g, s)], Cell, Len(world))
<1> DEFINE n == Len(world)
           p == [i \in 1 .. n |-> Dated(i)]
           q == [i \in 1 .. n |-> Padded(Shape(Body(i)), g, s)]
<1>1. \A i \in 1 .. n : /\ Dated(i) \in Seq(Cell) /\ Len(Dated(i)) = world[i].dates
                        /\ Padded(Shape(Body(i)), g, s) \in Seq(Cell)
                        /\ Len(Padded(Shape(Body(i)), g, s)) = world[i].dates
  <2> SUFFICES ASSUME NEW i \in 1 .. n
               PROVE  /\ Dated(i) \in Seq(Cell) /\ Len(Dated(i)) = world[i].dates
                      /\ Padded(Shape(Body(i)), g, s) \in Seq(Cell)
                      /\ Len(Padded(Shape(Body(i)), g, s)) = world[i].dates
    OBVIOUS
  <2>1. world[i].dates \in Nat /\ i \in Nat  BY ChunkShape
  <2>2. Dated(i) \in Seq(Cell) /\ Len(Dated(i)) = world[i].dates
    <3> DEFINE m == world[i].dates
    <3>1. m \in Nat  BY <2>1
    <3> HIDE DEF m
    <3>2. Array(i, m) \in Seq(Cell) /\ Len(Array(i, m)) = m  BY <2>1, <3>1, ArraySeq
    <3> QED  BY <3>2 DEF Dated, m
  <2> QED  BY <2>2, PaddedShape
<1> HIDE DEF n
<1>2. p \in [1 .. n -> Seq(Cell)] /\ q \in [1 .. n -> Seq(Cell)]  BY <1>1
<1>3. \A i \in 1 .. n : Len(p[i]) = Len(q[i])  BY <1>1
<1>4. n \in Nat  BY DEF n
<1> HIDE DEF p, q
<1>5. InStep(FlattenSeq(p), FlattenSeq(q), p, q, Cell, n)
  BY <1>2, <1>3, <1>4, FlattenInStep
<1> QED  BY <1>5 DEF p, q, n

LEMMA GroupsAndStats ==
    ASSUME Collected, Stitched
    PROVE  /\ \A g \in GroupsOf(chunks) : g \in Groups
           /\ \A s \in StatsOf(chunks) : s \in Stats
           /\ \A i \in 1 .. Len(world) :
                 \A g \in DOMAIN world[i].lengths :
                    Asked(g) => /\ g \in GroupsOf(chunks)
                                /\ DOMAIN world[i].lengths[g] \subseteq StatsOf(chunks)
<1> DEFINE n == Len(world)
           at(i) == Shape(Body(i)).series
<1>1. world \in Worlds  BY DEF Collected
<1>2. DOMAIN chunks = 1 .. n /\ \A i \in 1 .. n : chunks[i].series = at(i)
  BY StitchedShape DEF FetchedTo
<1>3. \A i \in 1 .. n :
         /\ DOMAIN at(i) = {g \in DOMAIN world[i].lengths : Asked(g)}
         /\ \A g \in DOMAIN at(i) : /\ g \in Groups
                                    /\ DOMAIN at(i)[g] = DOMAIN world[i].lengths[g]
                                    /\ \A s \in DOMAIN at(i)[g] : s \in Stats
  BY <1>1, ChunkShape
<1> HIDE DEF n, at
<1>4. \A g : g \in GroupsOf(chunks) <=> \E i \in 1 .. n : g \in DOMAIN at(i)
  BY <1>2 DEF GroupsOf
<1>5. \A s : s \in StatsOf(chunks)
             <=> \E i \in 1 .. n : \E g \in DOMAIN at(i) : s \in DOMAIN at(i)[g]
  BY <1>2 DEF StatsOf
<1>6. \A g \in GroupsOf(chunks) : g \in Groups  BY <1>3, <1>4
<1>7. \A s \in StatsOf(chunks) : s \in Stats  BY <1>3, <1>5
<1>8. \A i \in 1 .. n : \A g \in DOMAIN world[i].lengths :
         Asked(g) => g \in GroupsOf(chunks) /\ DOMAIN world[i].lengths[g] \subseteq StatsOf(chunks)
  BY <1>3, <1>4, <1>5
<1> QED  BY <1>6, <1>7, <1>8 DEF n

-----------------------------------------------------------------------------
(* The invariants of Series.                                               *)

\* Every answer of _flow_series, of one chunk or of many, is made of the groups and
\* statistics asked for, and of sequences of values (service.py:970-1012).
THEOREM SeriesTyped == Spec => []TypeOK
<1>1. ASSUME Collected PROVE TypeOK
  <2>1. /\ world \in Worlds /\ stage \in {"fetching", "done", "failed"}
        /\ Len(chunks) <= Len(world)
    BY <1>1 DEF Collected
  <2> SUFFICES /\ dates \in Seq(Cell) /\ DOMAIN series \subseteq Groups
               /\ \A g \in DOMAIN series :
                     /\ DOMAIN series[g] \subseteq Stats
                     /\ \A s \in DOMAIN series[g] : series[g][s] \in Seq(Cell)
    BY <2>1 DEF TypeOK
  <2>2. CASE stage # "done"
    <3>1. dates = <<>> /\ series = Nothing  BY <1>1, <2>2 DEF Collected
    <3> QED  BY <3>1, EmptySeq DEF Nothing
  <2>3. CASE stage = "done" /\ Len(world) = 1
    <3>1. /\ 1 \in 1 .. Len(world) /\ chunks[1] = Shape(Body(1))
          /\ dates = chunks[1].dates /\ series = chunks[1].series
      BY <1>1, <2>3 DEF Collected, FetchedTo
    <3>2. world[1].dates \in Nat /\ dates = Array(1, world[1].dates)
      BY <2>1, <3>1, ChunkShape
    <3>3. dates \in Seq(Cell)
      <4> DEFINE m == world[1].dates
      <4>1. m \in Nat /\ dates = Array(1, m) /\ 1 \in Nat  BY <3>2
      <4> HIDE DEF m
      <4> QED  BY <4>1, ArraySeq
    <3>4. \A g \in DOMAIN series :
             /\ g \in Groups
             /\ \A s \in DOMAIN series[g] :
                   /\ s \in Stats
                   /\ world[1].lengths[g][s] \in Nat
                   /\ series[g][s] = Array(1, world[1].lengths[g][s])
      BY <2>1, <3>1, ChunkShape
    <3>5. \A m \in Nat : Array(1, m) \in Seq(Cell)  BY ArraySeq
    <3> QED  BY <3>3, <3>4, <3>5
  <2>4. CASE stage = "done" /\ Len(world) # 1
    <3>1. Stitched  BY <2>4 DEF Stitched
    <3>2. \A g, s : /\ dates \in Seq(Cell)
                   /\ FlattenSeq([i \in 1 .. Len(world) |-> Padded(Shape(Body(i)), g, s)])
                          \in Seq(Cell)
      BY <1>1, <2>1, <3>1, StitchedShape, InStepPadded DEF InStep
    <3>3. /\ DOMAIN series = GroupsOf(chunks)
          /\ \A g \in DOMAIN series :
                /\ DOMAIN series[g] = StatsOf(chunks)
                /\ \A s \in DOMAIN series[g] : series[g][s] =
                      FlattenSeq([i \in 1 .. Len(world) |-> Padded(Shape(Body(i)), g, s)])
      BY <1>1, <3>1, StitchedShape
    <3>4. /\ \A g \in GroupsOf(chunks) : g \in Groups
          /\ \A s \in StatsOf(chunks) : s \in Stats
      BY <1>1, <3>1, GroupsAndStats
    <3>5. ASSUME NEW g \in DOMAIN series, NEW s \in DOMAIN series[g]
          PROVE  series[g][s] \in Seq(Cell)
      <4> DEFINE f == FlattenSeq([i \in 1 .. Len(world) |-> Padded(Shape(Body(i)), g, s)])
      <4>1. f \in Seq(Cell)  BY <3>2
      <4>2. series[g][s] = f  BY <3>3
      <4> HIDE DEF f
      <4> QED  BY <4>1, <4>2
    <3> QED  BY <3>2, <3>3, <3>4, <3>5
  <2> QED  BY <2>2, <2>3, <2>4
<1> QED  BY <1>1, CollectedInvariant, PTL

\* Each array of a stitched answer has a value for each of its dates, and it is the one
\* of that date or a zero (service.py:994-995, 1087-1089).
THEOREM SeriesAligned == Spec => []Aligned
<1>1. ASSUME Collected PROVE Aligned
  <2> SUFFICES ASSUME Stitched, NEW g \in DOMAIN series, NEW s \in DOMAIN series[g]
               PROVE  /\ Len(series[g][s]) = Len(dates)
                      /\ \A j \in DOMAIN dates : series[g][s][j] \in {dates[j], Zero}
    BY DEF Aligned
  <2> DEFINE n == Len(world)
             p == [i \in 1 .. n |-> Dated(i)]
             q == [i \in 1 .. n |-> Padded(Shape(Body(i)), g, s)]
             a == series[g][s]
  <2>1. world \in Worlds /\ n \in Nat  BY <1>1, StitchedShape DEF Collected
  <2>2. dates = FlattenSeq(p) /\ a = FlattenSeq(q)  BY <1>1, StitchedShape
  <2>3. InStep(dates, a, p, q, Cell, n)  BY <2>1, <2>2, InStepPadded
  <2>4. DOMAIN dates = 1 .. Len(dates)
    <3> HIDE DEF a, p, q, n
    <3>1. dates \in Seq(Cell)  BY <2>3 DEF InStep
    <3> QED  BY <3>1, LenProperties
  <2>5. ASSUME NEW j \in DOMAIN dates PROVE a[j] \in {dates[j], Zero}
    <3>1. PICK i \in 1 .. n : \E k \in 1 .. Len(p[i]) : At(dates, a, j, p, q, i, k)
      <4> HIDE DEF a, p, q, n
      <4> QED  BY <2>3, <2>4 DEF InStep
    <3>2. PICK k \in 1 .. Len(p[i]) : At(dates, a, j, p, q, i, k)  BY <3>1
    <3>3. dates[j] = Dated(i)[k] /\ a[j] = Padded(Shape(Body(i)), g, s)[k]
      BY <3>2 DEF At
    <3>4. i \in Nat /\ world[i].dates \in Nat  BY <2>1, ChunkShape
    <3>5. Len(Dated(i)) = world[i].dates /\ \A l \in 1 .. world[i].dates : Dated(i)[l] = <<i, l>>
      <4> DEFINE m == world[i].dates
      <4>1. m \in Nat  BY <3>4
      <4> HIDE DEF m
      <4>2. Len(Array(i, m)) = m /\ \A l \in 1 .. m : Array(i, m)[l] = <<i, l>>
        BY <3>4, <4>1, ArraySeq
      <4> QED  BY <4>2 DEF Dated, m
    <3>6. k \in 1 .. world[i].dates  BY <3>5
    <3>7. Padded(Shape(Body(i)), g, s)[k] \in {<<i, k>>, Zero}  BY <2>1, <3>6, PaddedShape
    <3> QED  BY <3>3, <3>5, <3>6, <3>7
  <2>6. Len(a) = Len(dates)
    <3> HIDE DEF a, p, q, n
    <3> QED  BY <2>3 DEF InStep
  <2> QED  BY <2>5, <2>6
<1> QED  BY <1>1, CollectedInvariant, PTL

\* Each value that fits the dates of its chunk is in a stitched answer, which has the
\* same statistics for all groups (service.py:1070-1100).
THEOREM SeriesWhole == Spec => []NothingDropped
<1>1. ASSUME Collected PROVE NothingDropped
  <2> SUFFICES ASSUME Stitched, NEW i \in DOMAIN world, NEW g \in DOMAIN world[i].lengths,
                      filter \in {NoFilter, g.id}, NEW s \in DOMAIN world[i].lengths[g]
               PROVE  /\ \A h \in DOMAIN series : s \in DOMAIN series[h]
                      /\ world[i].lengths[g][s] = world[i].dates =>
                            \A j \in 1 .. world[i].dates :
                               \E k \in DOMAIN series[g][s] : series[g][s][k] = <<i, j>>
    BY DEF NothingDropped
  <2>1. world \in Worlds /\ Len(world) \in Nat /\ i \in 1 .. Len(world) /\ Asked(g)
    BY <1>1, WorldsAssumption DEF Collected, Asked
  <2>2. g \in GroupsOf(chunks) /\ s \in StatsOf(chunks)
    BY <1>1, <2>1, GroupsAndStats
  <2>3. /\ \A h \in DOMAIN series : DOMAIN series[h] = StatsOf(chunks)
        /\ g \in DOMAIN series
    BY <1>1, <2>2, StitchedShape
  <2>4. ASSUME world[i].lengths[g][s] = world[i].dates, NEW j \in 1 .. world[i].dates
        PROVE  \E k \in DOMAIN series[g][s] : series[g][s][k] = <<i, j>>
    <3> DEFINE n == Len(world)
               p == [l \in 1 .. n |-> Dated(l)]
               q == [l \in 1 .. n |-> Padded(Shape(Body(l)), g, s)]
               a == series[g][s]
               m == world[i].dates
    <3>1. dates = FlattenSeq(p) /\ a = FlattenSeq(q)  BY <1>1, <2>2, StitchedShape
    <3>2. InStep(dates, a, p, q, Cell, n)  BY <2>1, <3>1, InStepPadded
    <3>3. i \in Nat /\ m \in Nat  BY <2>1, ChunkShape
    <3>4. p[i] = Array(i, m) /\ q[i] = Array(i, m)
      BY <2>1, <2>4, PaddedShape DEF Dated
    <3>5. Len(Array(i, m)) = m /\ Array(i, m)[j] = <<i, j>>
      <4>1. j \in 1 .. m  OBVIOUS
      <4> HIDE DEF m
      <4> QED  BY <3>3, <4>1, ArraySeq
    <3>6. j \in 1 .. Len(p[i])  BY <3>4, <3>5
    <3>7. PICK k \in 1 .. Len(dates) : At(dates, a, k, p, q, i, j)
      <4>1. i \in 1 .. n  BY <2>1
      <4> HIDE DEF a, p, q, n
      <4> QED  BY <3>2, <3>6, <4>1 DEF InStep
    <3>8. a[k] = <<i, j>>  BY <3>4, <3>5, <3>7 DEF At
    <3>9. k \in DOMAIN a
      <4> HIDE DEF a, p, q, n
      <4>1. a \in Seq(Cell) /\ Len(a) = Len(dates)  BY <3>2 DEF InStep
      <4>2. DOMAIN a = 1 .. Len(a)  BY <4>1, LenProperties
      <4> QED  BY <4>1, <4>2
    <3> QED  BY <3>8, <3>9
  <2> QED  BY <2>2, <2>3, <2>4
<1> QED  BY <1>1, CollectedInvariant, PTL
=============================================================================
