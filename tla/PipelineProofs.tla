--------------------------- MODULE PipelineProofs ---------------------------
(***************************************************************************)
(* Proofs about Windows for any period and any caps that leave no window   *)
(* empty, about Calendar for any day of its years, and from both about     *)
(* Pipeline: from the arguments of a call to the windows of its reports.   *)
(***************************************************************************)
EXTENDS Pipeline, SequenceTheorems, TLAPS

-----------------------------------------------------------------------------
(* The loop that cuts a period into windows.                               *)

\* The period asked for lies inside the calendar, so each of its days has a cap.
InCalendar == start .. end \subseteq DOMAIN Cap[kind]

Windowed == TypeOK /\ InCalendar /\ Partition

\* A cut ends no earlier than it begins, and within the period and the cap.
LEMMA CutEndBounds ==
    ASSUME TypeOK, InCalendar, cursor <= end, start <= cursor
    PROVE  /\ CutEnd(cursor) \in Int
           /\ cursor <= CutEnd(cursor) /\ CutEnd(cursor) <= end
           /\ CutEnd(cursor) <= Cap[kind][cursor]
<1>1. cursor \in DOMAIN Cap[kind]  BY DEF TypeOK, InCalendar
<1>2. Cap[kind][cursor] \in Int /\ cursor <= Cap[kind][cursor]
  BY <1>1, CapAssumption DEF TypeOK
<1> QED  BY <1>2 DEF TypeOK, CutEnd, Earlier

LEMMA CursorAfterStart ==
    ASSUME TypeOK, Contiguous, WithinCap
    PROVE  start <= cursor
<1>1. CASE windows = <<>>  BY <1>1 DEF TypeOK, Contiguous
<1>2. CASE windows # <<>>
  <2> DEFINE n == Len(windows)
  <2>1. n \in Nat \ {0}
    <3>1. windows \in Seq([from : Int, to : Int])  BY DEF TypeOK
    <3> QED  BY <1>2, <3>1, EmptySeq
  <2>2. windows[n] \in [from : Int, to : Int]
    <3>1. windows \in Seq([from : Int, to : Int])  BY DEF TypeOK
    <3>2. n \in 1 .. Len(windows)  BY <2>1
    <3> QED  BY <3>1, <3>2, ElementOfSeq
  <2>3. start <= windows[n].from /\ windows[n].from <= windows[n].to
    BY <2>1 DEF WithinCap
  <2>4. windows[n].to = cursor - 1  BY <1>2 DEF Contiguous
  <2> QED  BY <2>2, <2>3, <2>4 DEF TypeOK
<1> QED  BY <1>1, <1>2

LEMMA WindowedInit == Init => Windowed
<1> SUFFICES ASSUME Init PROVE Windowed
  OBVIOUS
<1>1. PICK r \in Requests : kind = r.kind /\ start = r.start /\ end = r.end  BY DEF Init
<1>2. kind \in Kinds /\ start \in Int /\ end \in Int /\ start .. end \subseteq DOMAIN Cap[kind]
  BY <1>1, RequestsAssumption DEF Init
<1>3. TypeOK  BY <1>2, EmptySeq DEF Init, TypeOK
<1>4. Partition  BY DEF Init, Partition, Contiguous, WithinCap
<1> QED  BY <1>2, <1>3, <1>4 DEF Windowed, InCalendar

LEMMA WindowedStep == Windowed /\ [Next]_vars => Windowed'
<1> SUFFICES ASSUME Windowed, [Next]_vars PROVE Windowed'
  OBVIOUS
<1>1. CASE UNCHANGED vars
  BY <1>1 DEF vars, Windowed, TypeOK, InCalendar, Partition, Contiguous, WithinCap
<1>2. CASE Done
  BY <1>2 DEF Done, vars, Windowed, TypeOK, InCalendar, Partition, Contiguous, WithinCap
<1>3. CASE Cut
  <2> DEFINE last == CutEnd(cursor)
             new == [from |-> cursor, to |-> last]
             n == Len(windows)
  <2>1. TypeOK /\ InCalendar /\ Contiguous /\ WithinCap  BY DEF Windowed, Partition
  <2>2. start <= cursor
    BY <1>3, <2>1, CursorAfterStart
  <2>3. /\ last \in Int /\ cursor <= last /\ last <= end
        /\ last <= Cap[kind][cursor]
    BY <1>3, <2>1, <2>2, CutEndBounds DEF Cut
  <2> HIDE DEF last
  <2>4. /\ windows' = Append(windows, new) /\ cursor' = last + 1
        /\ start' = start /\ end' = end /\ kind' = kind
    BY <1>3 DEF Cut, last, Advance
  <2>5. new \in [from : Int, to : Int]  BY <2>1, <2>3 DEF TypeOK
  <2>6. TypeOK'
    BY <2>1, <2>2, <2>3, <2>4, <2>5, AppendProperties DEF TypeOK
  <2>7. /\ Len(windows') = n + 1 /\ n \in Nat
        /\ \A i \in 1 .. n : windows'[i] = windows[i]
        /\ windows'[n + 1] = new
    BY <2>1, <2>4, <2>5, AppendProperties DEF TypeOK
  <2>8. Contiguous'
    <3>1. windows' # <<>>  BY <2>7, EmptySeq
    <3>2. windows'[1].from = start
      <4>1. CASE n = 0  BY <2>1, <2>7, <4>1, EmptySeq DEF TypeOK, Contiguous
      <4>2. CASE n # 0
        <5>1. windows # <<>>  BY <4>2, EmptySeq
        <5> QED  BY <2>1, <2>7, <4>2, <5>1 DEF Contiguous
      <4> QED  BY <4>1, <4>2
    <3>3. windows'[Len(windows')].to = cursor' - 1
      BY <2>3, <2>4, <2>7
    <3>4. ASSUME NEW i \in 1 .. n PROVE windows'[i + 1].from = windows'[i].to + 1
      <4>1. CASE i = n
        <5>1. windows # <<>>  BY <4>1, EmptySeq, <2>7
        <5> QED  BY <2>1, <2>7, <4>1, <5>1 DEF TypeOK, Contiguous
      <4>2. CASE i # n
        BY <2>1, <2>7, <4>2 DEF Contiguous
      <4> QED  BY <4>1, <4>2
    <3> HIDE DEF new
    <3> QED  BY <2>4, <2>7, <3>1, <3>2, <3>3, <3>4 DEF Contiguous
  <2>9. WithinCap'
    BY <2>1, <2>2, <2>3, <2>4, <2>7 DEF TypeOK, WithinCap
  <2> QED  BY <2>1, <2>4, <2>6, <2>8, <2>9 DEF Windowed, Partition, InCalendar
<1> QED  BY <1>1, <1>2, <1>3 DEF Next

LEMMA WindowedInvariant == Spec => []Windowed
BY WindowedInit, WindowedStep, PTL DEF Spec

\* However long the period and whatever the caps, the windows cut so far are
\* contiguous, disjoint, inside the period and within their caps.
THEOREM WindowsPartition == Spec => []Partition
BY WindowedInvariant, PTL DEF Windowed

\* The windows of a loop that has ended reach the last day of the period.
CoversPeriod ==
    cursor > end /\ start <= end =>
        windows # <<>> /\ windows[Len(windows)].to = end

LEMMA WindowedCovers == Windowed => CoversPeriod
<1> SUFFICES ASSUME Windowed, cursor > end, start <= end
             PROVE  windows # <<>> /\ windows[Len(windows)].to = end
  BY DEF CoversPeriod
<1>1. TypeOK /\ Contiguous  BY DEF Windowed, Partition
<1>2. cursor = end + 1  BY <1>1 DEF TypeOK
<1>3. windows # <<>>  BY <1>1, <1>2 DEF TypeOK, Contiguous
<1> QED  BY <1>1, <1>2, <1>3 DEF TypeOK, Contiguous

\* The loop moves on in every round, so it ends.
THEOREM WindowsProgress == Spec => Progress
<1>1. Windowed /\ [Next]_vars => [cursor < cursor']_vars
  <2> SUFFICES ASSUME Windowed, Cut PROVE cursor < cursor'
    BY DEF Next, Done
  <2>1. TypeOK /\ InCalendar /\ start <= cursor
    BY CursorAfterStart DEF Windowed, Partition
  <2>2. CutEnd(cursor) \in Int /\ cursor <= CutEnd(cursor)
    BY <2>1, CutEndBounds DEF Cut
  <2> QED  BY <2>1, <2>2 DEF Cut, Advance, TypeOK
<1> QED  BY <1>1, WindowedInvariant, PTL DEF Spec, Progress

-----------------------------------------------------------------------------
(* The calendar: DaysBeforeYear and DaysBeforeMonth place each day in one  *)
(* month of one year.                                                      *)

DaysIn(y) == IF Leap(y) THEN 366 ELSE 365

LEMMA DivMod ==
    ASSUME NEW n \in Nat
    PROVE  \A k \in {4, 100, 400} :
              (n + 1) \div k = (n \div k) + (IF (n + 1) % k = 0 THEN 1 ELSE 0)
  OBVIOUS

LEMMA YearLength ==
    ASSUME NEW y \in Nat \ {0}
    PROVE  DaysBeforeYear(y) \in Int /\ DaysBeforeYear(y + 1) = DaysBeforeYear(y) + DaysIn(y)
<1>1. y - 1 \in Nat /\ (y + 1) - 1 = y /\ (y - 1) + 1 = y  OBVIOUS
<1>2. \A k \in {4, 100, 400} : y \div k = (y - 1) \div k + (IF y % k = 0 THEN 1 ELSE 0)
  BY <1>1, DivMod
<1> QED BY <1>1, <1>2 DEF DaysBeforeYear, DaysIn, Leap

LEMMA YearsInOrder ==
    ASSUME NEW y \in Nat \ {0}, NEW z \in Nat \ {0}, y <= z
    PROVE  DaysBeforeYear(y) <= DaysBeforeYear(z)
  BY DEF DaysBeforeYear

LEMMA YearFound ==
    ASSUME NEW n, IsDay(n)
    PROVE  /\ YearOf(n) \in Years /\ YearOf(n) \in Nat \ {0} /\ n \in Int
           /\ DaysBeforeYear(YearOf(n)) < n /\ n <= DaysBeforeYear(YearOf(n) + 1)
  BY YearsAssumption DEF IsDay, YearOf

LEMMA YearIs ==
    ASSUME NEW n, NEW y \in Nat \ {0}, IsDay(n),
           DaysBeforeYear(y) < n, n <= DaysBeforeYear(y + 1)
    PROVE  YearOf(n) = y
<1> DEFINE z == YearOf(n)
<1>1. z \in Nat \ {0} /\ n \in Int /\ DaysBeforeYear(z) < n /\ n <= DaysBeforeYear(z + 1)
  BY YearFound
<1> HIDE DEF z
<1>2. /\ DaysBeforeYear(y) \in Int /\ DaysBeforeYear(z) \in Int
      /\ DaysBeforeYear(y + 1) \in Int /\ DaysBeforeYear(z + 1) \in Int
  BY <1>1, YearLength
<1>3. y + 1 <= z => DaysBeforeYear(y + 1) <= DaysBeforeYear(z)  BY <1>1, YearsInOrder
<1>4. z + 1 <= y => DaysBeforeYear(z + 1) <= DaysBeforeYear(y)  BY <1>1, YearsInOrder
<1>5. z = y  BY <1>1, <1>2, <1>3, <1>4
<1> QED  BY <1>5 DEF z

Extra(y) == IF Leap(y) THEN 1 ELSE 0

LEMMA MonthTable ==
    ASSUME NEW y \in Nat
    PROVE  /\ Extra(y) \in {0, 1} /\ DaysIn(y) = 365 + Extra(y)
           /\ DaysBeforeMonth(y, 1) = 0 /\ DaysBeforeMonth(y, 2) = 31
           /\ DaysBeforeMonth(y, 3) = 59 + Extra(y) /\ DaysBeforeMonth(y, 4) = 90 + Extra(y)
           /\ DaysBeforeMonth(y, 5) = 120 + Extra(y) /\ DaysBeforeMonth(y, 6) = 151 + Extra(y)
           /\ DaysBeforeMonth(y, 7) = 181 + Extra(y) /\ DaysBeforeMonth(y, 8) = 212 + Extra(y)
           /\ DaysBeforeMonth(y, 9) = 243 + Extra(y) /\ DaysBeforeMonth(y, 10) = 273 + Extra(y)
           /\ DaysBeforeMonth(y, 11) = 304 + Extra(y) /\ DaysBeforeMonth(y, 12) = 334 + Extra(y)
           /\ MonthDays(y, 1) = 31 /\ MonthDays(y, 2) = 28 + Extra(y)
           /\ MonthDays(y, 3) = 31 /\ MonthDays(y, 4) = 30 /\ MonthDays(y, 5) = 31
           /\ MonthDays(y, 6) = 30 /\ MonthDays(y, 7) = 31 /\ MonthDays(y, 8) = 31
           /\ MonthDays(y, 9) = 30 /\ MonthDays(y, 10) = 31 /\ MonthDays(y, 11) = 30
           /\ MonthDays(y, 12) = 31
  BY DEF Extra, DaysIn, DaysBeforeMonth, MonthDays

LEMMA MonthsInOrder ==
    ASSUME NEW y \in Nat
    PROVE  /\ \A m \in 1 .. 12 : DaysBeforeMonth(y, m) \in Nat /\ MonthDays(y, m) \in 28 .. 31
           /\ \A m, p \in 1 .. 12 :
                 m < p => DaysBeforeMonth(y, m) + MonthDays(y, m) <= DaysBeforeMonth(y, p)
           /\ \A m \in 1 .. 11 :
                 DaysBeforeMonth(y, m) + MonthDays(y, m) = DaysBeforeMonth(y, m + 1)
           /\ \A m \in 1 .. 12 : DaysBeforeMonth(y, m) + MonthDays(y, m) <= DaysIn(y)
<1> DEFINE B(m) == DaysBeforeMonth(y, m)
           D(m) == MonthDays(y, m)
<1> HIDE DEF B, D
<1>1. \A m \in 1 .. 11 : B(m) \in Nat /\ D(m) \in 28 .. 31 /\ B(m) + D(m) = B(m + 1)
  BY MonthTable DEF B, D
<1>2. B(12) \in Nat /\ D(12) = 31 /\ B(12) + D(12) = DaysIn(y)
  BY MonthTable DEF B, D
<1>3. \A m \in 1 .. 12 : m \in 1 .. 11 \/ m = 12  OBVIOUS
<1>4. \A m \in 1 .. 12 : B(m) \in Nat /\ D(m) \in 28 .. 31  BY <1>1, <1>2, <1>3
<1>5. \A m, p \in 1 .. 12 : m < p => B(m) + D(m) <= B(p)
  BY <1>1, <1>4
<1> QED  BY <1>1, <1>2, <1>4, <1>5 DEF B, D

LEMMA MonthFound ==
    ASSUME NEW n, IsDay(n)
    PROVE  /\ MonthOf(n) \in 1 .. 12
           /\ Ordinal(YearOf(n), MonthOf(n), 1) <= n
           /\ n <= Ordinal(YearOf(n), MonthOf(n), MonthDays(YearOf(n), MonthOf(n)))
<1> DEFINE y == YearOf(n)
           k == n - DaysBeforeYear(y)
           B(m) == DaysBeforeMonth(y, m)
           D(m) == MonthDays(y, m)
<1>1. /\ y \in Nat \ {0} /\ n \in Int /\ DaysBeforeYear(y) \in Int
      /\ k \in Int /\ 0 < k /\ k <= DaysIn(y)
  <2>1. y \in Nat \ {0} /\ n \in Int /\ DaysBeforeYear(y) < n /\ n <= DaysBeforeYear(y + 1)
    BY YearFound
  <2> HIDE DEF y
  <2> QED  BY <2>1, YearLength DEF DaysIn
<1> HIDE DEF k, y
<1>2. /\ \A m \in 1 .. 12 : B(m) \in Nat /\ D(m) \in 28 .. 31
      /\ \A m \in 1 .. 11 : B(m) + D(m) = B(m + 1)
  BY <1>1, MonthsInOrder
<1>3. B(1) = 0 /\ B(12) + D(12) = DaysIn(y)  BY <1>1, MonthTable
<1> HIDE DEF B, D
<1>4. \E m \in 1 .. 12 : B(m) + 1 <= k /\ k <= B(m) + D(m)
  <2> SUFFICES ASSUME \A m \in 1 .. 12 : ~(B(m) < k /\ k <= B(m) + D(m))
               PROVE  FALSE
    BY <1>1, <1>2
  <2>1. \A m \in 1 .. 11 : B(m) < k => B(m + 1) < k  BY <1>1, <1>2
  <2>2. B(12) < k  BY <1>1, <1>2, <1>3, <2>1
  <2> QED  BY <1>1, <1>2, <1>3, <2>2
<1>5. \E m \in 1 .. 12 : Ordinal(y, m, 1) <= n /\ n <= Ordinal(y, m, MonthDays(y, m))
  BY <1>1, <1>2, <1>4 DEF k, B, D, Ordinal
<1>6. MonthOf(n) = CHOOSE m \in 1 .. 12 : /\ Ordinal(y, m, 1) <= n
                                          /\ n <= Ordinal(y, m, MonthDays(y, m))
  BY DEF MonthOf, y
<1> HIDE DEF y
<1>7. /\ MonthOf(n) \in 1 .. 12 /\ Ordinal(y, MonthOf(n), 1) <= n
      /\ n <= Ordinal(y, MonthOf(n), MonthDays(y, MonthOf(n)))
  BY <1>5, <1>6
<1> QED  BY <1>7 DEF y

\* The year, month and day of an ordinal, whose month is day d of month m of year y.
LEMMA CivilFound ==
    ASSUME NEW n, IsDay(n)
    PROVE  /\ YearOf(n) \in Nat \ {0} /\ MonthOf(n) \in 1 .. 12
           /\ DayOf(n) \in 1 .. MonthDays(YearOf(n), MonthOf(n))
           /\ n = Ordinal(YearOf(n), MonthOf(n), DayOf(n))
<1> DEFINE y == YearOf(n)
           m == MonthOf(n)
<1>1. /\ y \in Nat \ {0} /\ n \in Int /\ m \in 1 .. 12
      /\ Ordinal(y, m, 1) <= n /\ n <= Ordinal(y, m, MonthDays(y, m))
  BY YearFound, MonthFound
<1>2. DayOf(n) = n - Ordinal(y, m, 1) + 1  BY DEF DayOf
<1> HIDE DEF y, m
<1>3. DaysBeforeYear(y) \in Int /\ DaysBeforeMonth(y, m) \in Nat /\ MonthDays(y, m) \in 28 .. 31
  BY <1>1, YearLength, MonthsInOrder
<1>4. DayOf(n) \in 1 .. MonthDays(y, m) /\ n = Ordinal(y, m, DayOf(n))
  BY <1>1, <1>2, <1>3 DEF Ordinal
<1> QED  BY <1>1, <1>4 DEF y, m

\* A day of month m of year y lies in that year, so a day has one year, month and day.
LEMMA InYear ==
    ASSUME NEW y \in Nat \ {0}, NEW m \in 1 .. 12, NEW d \in 1 .. MonthDays(y, m)
    PROVE  /\ Ordinal(y, m, d) \in Int
           /\ DaysBeforeYear(y) < Ordinal(y, m, d)
           /\ Ordinal(y, m, d) <= DaysBeforeYear(y + 1)
<1>1. DaysBeforeYear(y) \in Int /\ DaysBeforeYear(y + 1) = DaysBeforeYear(y) + DaysIn(y)
  BY YearLength
<1>2. /\ DaysBeforeMonth(y, m) \in Nat /\ MonthDays(y, m) \in 28 .. 31
      /\ DaysBeforeMonth(y, m) + MonthDays(y, m) <= DaysIn(y)
  BY MonthsInOrder
<1>3. DaysIn(y) \in Nat  BY DEF DaysIn
<1> QED  BY <1>1, <1>2, <1>3 DEF Ordinal

LEMMA CivilIs ==
    ASSUME NEW n, IsDay(n),
           NEW y \in Nat \ {0}, NEW m \in 1 .. 12, NEW d \in 1 .. MonthDays(y, m),
           n = Ordinal(y, m, d)
    PROVE  YearOf(n) = y /\ MonthOf(n) = m /\ DayOf(n) = d
<1>1. YearOf(n) = y  BY InYear, YearIs
<1> DEFINE p == MonthOf(n)
           e == DayOf(n)
<1>2. p \in 1 .. 12 /\ e \in 1 .. MonthDays(y, p) /\ n = Ordinal(y, p, e)
  BY <1>1, CivilFound
<1> HIDE DEF p, e
<1>3. /\ DaysBeforeYear(y) \in Int
      /\ \A q \in 1 .. 12 : DaysBeforeMonth(y, q) \in Nat /\ MonthDays(y, q) \in 28 .. 31
      /\ m < p => DaysBeforeMonth(y, m) + MonthDays(y, m) <= DaysBeforeMonth(y, p)
      /\ p < m => DaysBeforeMonth(y, p) + MonthDays(y, p) <= DaysBeforeMonth(y, m)
  BY <1>2, YearLength, MonthsInOrder
<1>4. m = p
  BY <1>2, <1>3 DEF Ordinal
<1>5. d = e  BY <1>2, <1>3, <1>4 DEF Ordinal
<1> QED  BY <1>1, <1>4, <1>5 DEF p, e

\* A day before day d of month m of year y is before it by year, month and day.
LEMMA BeforeIsLex ==
    ASSUME NEW n, IsDay(n),
           NEW y \in Nat \ {0}, NEW m \in 1 .. 12, NEW d \in 1 .. MonthDays(y, m),
           n < Ordinal(y, m, d)
    PROVE  LexBefore(Civil(n), <<y, m, d>>)
<1> DEFINE x == YearOf(n)
           p == MonthOf(n)
           e == DayOf(n)
<1>1. /\ x \in Nat \ {0} /\ p \in 1 .. 12 /\ e \in 1 .. MonthDays(x, p)
      /\ n = Ordinal(x, p, e) /\ n \in Int
  BY CivilFound, YearFound
<1>2. Civil(n) = <<x, p, e>>  BY DEF Civil
<1> HIDE DEF x, p, e
<1>3. /\ Ordinal(y, m, d) \in Int /\ DaysBeforeYear(x) < n /\ DaysBeforeYear(y) \in Int
      /\ Ordinal(y, m, d) <= DaysBeforeYear(y + 1)
      /\ DaysBeforeYear(x) \in Int /\ DaysBeforeYear(y + 1) \in Int
  <2>1. y + 1 \in Nat \ {0}  OBVIOUS
  <2>2. Ordinal(y, m, d) \in Int /\ Ordinal(y, m, d) <= DaysBeforeYear(y + 1)  BY InYear
  <2>3. DaysBeforeYear(x) < n  BY <1>1, InYear
  <2> QED  BY <1>1, <2>1, <2>2, <2>3, YearLength
<1>4. x <= y
  <2>1. y + 1 <= x => DaysBeforeYear(y + 1) <= DaysBeforeYear(x)  BY <1>1, YearsInOrder
  <2> QED  BY <1>1, <1>3, <2>1
<1>5. CASE x = y
  <2>1. /\ \A q \in 1 .. 12 : DaysBeforeMonth(y, q) \in Nat /\ MonthDays(y, q) \in 28 .. 31
        /\ m < p => DaysBeforeMonth(y, m) + MonthDays(y, m) <= DaysBeforeMonth(y, p)
    BY <1>1, MonthsInOrder
  <2>2. p <= m  BY <1>1, <1>3, <1>5, <2>1 DEF Ordinal
  <2>3. p = m => e < d  BY <1>1, <1>3, <1>5, <2>1 DEF Ordinal
  <2> QED  BY <1>1, <1>2, <1>5, <2>2, <2>3 DEF LexBefore
<1>6. CASE x # y  BY <1>1, <1>2, <1>4, <1>6 DEF LexBefore
<1> QED  BY <1>5, <1>6

-----------------------------------------------------------------------------
(* The caps and the presets.                                               *)

LEMMA NotLeapAfterLeap ==
    ASSUME NEW y \in Nat, Leap(y)
    PROVE  ~Leap(y + 1)
  BY DEF Leap

\* The cap of a chunk that begins on day n is at least 364 days later, and each day up
\* to it is before the date a year after n.
LEMMA YearCap ==
    ASSUME NEW n, IsDay(n)
    PROVE  /\ OneYearCap(n) \in Int /\ n + 364 <= OneYearCap(n)
           /\ \A e : IsDay(e) /\ e <= OneYearCap(n)
                       => LexBefore(Civil(e), <<YearOf(n) + 1, MonthOf(n), DayOf(n)>>)
<1> DEFINE y == YearOf(n)
           m == MonthOf(n)
           d == DayOf(n)
           z == y + 1
<1>1. /\ y \in Nat \ {0} /\ m \in 1 .. 12 /\ d \in 1 .. MonthDays(y, m)
      /\ n = Ordinal(y, m, d) /\ n \in Int
  BY CivilFound, YearFound
<1>2. OneYearCap(n) = IF m = 2 /\ d = 29 THEN Ordinal(z, 3, 1) - 1 ELSE Ordinal(z, m, d) - 1
  BY DEF OneYearCap
<1>a. \A e : IsDay(e) => e \in Int  BY DEF IsDay
<1> HIDE DEF y, m, d
<1>3. /\ z \in Nat \ {0} /\ DaysBeforeYear(y) \in Int
      /\ DaysBeforeYear(z) = DaysBeforeYear(y) + DaysIn(y) /\ DaysIn(y) = 365 + Extra(y)
      /\ Extra(y) \in {0, 1} /\ Extra(z) \in {0, 1}
  BY <1>1, YearLength, MonthTable
<1>4. CASE m = 2 /\ d = 29
  <2>1. MonthDays(y, 2) = 28 + Extra(y) /\ DaysBeforeMonth(y, 2) = 31  BY <1>1, MonthTable
  <2>2. Extra(y) = 1 /\ Leap(y)  BY <1>1, <1>3, <1>4, <2>1 DEF Extra
  <2>3. Extra(z) = 0  BY <1>1, <2>2, NotLeapAfterLeap DEF Extra
  <2>4. DaysBeforeMonth(z, 3) = 59 /\ MonthDays(z, 2) = 28 /\ MonthDays(z, 3) = 31
    <3> HIDE DEF z
    <3> QED  BY <1>3, <2>3, MonthTable
  <2>5. OneYearCap(n) = DaysBeforeYear(y) + 425 /\ n = DaysBeforeYear(y) + 60
    <3> HIDE DEF z
    <3> QED  BY <1>1, <1>2, <1>3, <1>4, <2>1, <2>2, <2>4 DEF Ordinal
  <2>6. ASSUME NEW e, IsDay(e), e <= OneYearCap(n)
        PROVE  LexBefore(Civil(e), <<z, m, d>>)
    <3> HIDE DEF z
    <3>1. e < Ordinal(z, 3, 1)
      BY <1>3, <1>4, <1>a, <2>2, <2>4, <2>5, <2>6 DEF Ordinal
    <3>2. LexBefore(Civil(e), <<z, 3, 1>>)
      <4>1. 3 \in 1 .. 12 /\ 1 \in 1 .. MonthDays(z, 3)  BY <2>4
      <4> QED  BY <1>3, <2>6, <3>1, <4>1, BeforeIsLex
    <3>3. /\ Civil(e) = <<YearOf(e), MonthOf(e), DayOf(e)>>
          /\ YearOf(e) \in Nat /\ MonthOf(e) \in 1 .. 12 /\ DayOf(e) \in Int
          /\ DayOf(e) \in 1 .. MonthDays(YearOf(e), MonthOf(e))
      BY <2>6, CivilFound DEF Civil
    <3>4. \/ YearOf(e) < z
          \/ YearOf(e) = z /\ MonthOf(e) < 3
          \/ YearOf(e) = z /\ MonthOf(e) = 3 /\ DayOf(e) < 1
      BY <3>2, <3>3 DEF LexBefore
    <3>5. CASE YearOf(e) < z  BY <3>3, <3>5 DEF LexBefore
    <3>6. CASE YearOf(e) = z /\ MonthOf(e) < 3
      <4>1. MonthOf(e) = 2 => DayOf(e) <= 28  BY <2>4, <3>3, <3>6
      <4>2. MonthOf(e) < 2 \/ (MonthOf(e) = 2 /\ DayOf(e) < 29)  BY <3>3, <3>6, <4>1
      <4> QED  BY <1>4, <3>3, <3>6, <4>2 DEF LexBefore
    <3>7. ~(MonthOf(e) = 3 /\ DayOf(e) < 1 /\ YearOf(e) = z)
      <4>1. MonthDays(z, 3) \in Int  BY <2>4
      <4> QED  BY <3>3, <4>1
    <3> QED  BY <3>4, <3>5, <3>6, <3>7
  <2> QED  BY <1>3, <2>5, <2>6 DEF y, m, d
<1>5. CASE ~(m = 2 /\ d = 29)
  <2>1. OneYearCap(n) = Ordinal(z, m, d) - 1  BY <1>2, <1>5
  <2>2. d \in 1 .. MonthDays(z, m)
    <3>1. m # 2 => MonthDays(z, m) = MonthDays(y, m)  BY <1>1 DEF MonthDays
    <3>2. m = 2 => MonthDays(y, m) = 28 + Extra(y) /\ MonthDays(z, m) = 28 + Extra(z)
      <4> HIDE DEF z
      <4> QED  BY <1>1, <1>3, MonthTable
    <3> HIDE DEF z
    <3> QED  BY <1>1, <1>3, <1>5, <3>1, <3>2
  <2>3. DaysBeforeMonth(z, m) \in Int /\ DaysBeforeMonth(y, m) \in Int
        /\ DaysBeforeMonth(y, m) <= DaysBeforeMonth(z, m) + Extra(y)
    <3> HIDE DEF z
    <3> QED  BY <1>1, <1>3, MonthTable
  <2>4. Ordinal(z, m, d) \in Int /\ n + 365 <= Ordinal(z, m, d)
    <3>1. d \in Int  BY <1>1
    <3> HIDE DEF z
    <3> QED  BY <1>1, <1>3, <2>3, <3>1 DEF Ordinal
  <2>5. ASSUME NEW e, IsDay(e), e <= OneYearCap(n)
        PROVE  LexBefore(Civil(e), <<z, m, d>>)
    <3>1. e < Ordinal(z, m, d)  BY <1>a, <2>1, <2>4, <2>5
    <3> HIDE DEF z
    <3> QED  BY <1>1, <1>3, <2>2, <2>5, <3>1, BeforeIsLex
  <2> QED  BY <1>1, <2>1, <2>4, <2>5 DEF y, m, d
<1> QED  BY <1>4, <1>5

\* A month ends on its last day, and the next day begins a month.
LEMMA MonthCap ==
    ASSUME NEW n, IsDay(n)
    PROVE  /\ MonthEnd(n) \in Int /\ n <= MonthEnd(n) /\ MonthEnd(n) <= n + 30
           /\ \A e : IsDay(e) /\ n <= e /\ e <= MonthEnd(n)
                       => YearOf(e) = YearOf(n) /\ MonthOf(e) = MonthOf(n)
           /\ IsDay(MonthEnd(n) + 1) => DayOf(MonthEnd(n) + 1) = 1
<1> DEFINE y == YearOf(n)
           m == MonthOf(n)
           d == DayOf(n)
<1>1. /\ y \in Nat \ {0} /\ m \in 1 .. 12 /\ d \in 1 .. MonthDays(y, m)
      /\ n = Ordinal(y, m, d) /\ n \in Int
  BY CivilFound, YearFound
<1>2. MonthEnd(n) = IF m = 12 THEN Ordinal(y + 1, 1, 1) - 1 ELSE Ordinal(y, m + 1, 1) - 1
  BY DEF MonthEnd
<1>a. \A e : IsDay(e) => e \in Int  BY DEF IsDay
<1> HIDE DEF y, m, d
<1>3. /\ DaysBeforeYear(y) \in Int /\ DaysBeforeYear(y + 1) = DaysBeforeYear(y) + DaysIn(y)
      /\ DaysBeforeMonth(y, m) \in Nat /\ MonthDays(y, m) \in 28 .. 31
      /\ m # 12 => m + 1 \in 1 .. 12
                     /\ DaysBeforeMonth(y, m) + MonthDays(y, m) = DaysBeforeMonth(y, m + 1)
      /\ m = 12 => DaysBeforeMonth(y, m) + MonthDays(y, m) = DaysIn(y)
  <2>1. m # 12 => m \in 1 .. 11 /\ m + 1 \in 1 .. 12  BY <1>1
  <2>2. /\ DaysBeforeYear(y) \in Int /\ DaysBeforeYear(y + 1) = DaysBeforeYear(y) + DaysIn(y)
    BY <1>1, YearLength
  <2>3. DaysBeforeMonth(y, m) \in Nat /\ MonthDays(y, m) \in 28 .. 31
    BY <1>1, MonthsInOrder
  <2>4. m # 12 => DaysBeforeMonth(y, m) + MonthDays(y, m) = DaysBeforeMonth(y, m + 1)
    BY <1>1, <2>1, MonthsInOrder
  <2>5. m = 12 => DaysBeforeMonth(y, m) + MonthDays(y, m) = DaysIn(y)
    BY <1>1, MonthTable
  <2> QED  BY <2>1, <2>2, <2>3, <2>4, <2>5
<1>4. DaysBeforeMonth(y + 1, 1) = 0 /\ MonthDays(y + 1, 1) = 31 /\ y + 1 \in Nat \ {0}
  BY <1>1, MonthTable
<1>5. MonthEnd(n) = Ordinal(y, m, MonthDays(y, m))
  BY <1>1, <1>2, <1>3, <1>4 DEF Ordinal
<1>6. MonthEnd(n) \in Int /\ n <= MonthEnd(n) /\ MonthEnd(n) <= n + 30
  BY <1>1, <1>3, <1>5 DEF Ordinal
<1>7. ASSUME NEW e, IsDay(e), n <= e, e <= MonthEnd(n)
      PROVE  YearOf(e) = y /\ MonthOf(e) = m
  <2> DEFINE k == e - Ordinal(y, m, 1) + 1
  <2>1. k \in 1 .. MonthDays(y, m) /\ e = Ordinal(y, m, k)
    BY <1>1, <1>3, <1>5, <1>7, <1>a DEF Ordinal
  <2> HIDE DEF k
  <2> QED  BY <1>1, <1>7, <2>1, CivilIs
<1>8. ASSUME IsDay(MonthEnd(n) + 1) PROVE DayOf(MonthEnd(n) + 1) = 1
  <2> DEFINE e == MonthEnd(n) + 1
  <2>1. IsDay(e)  BY <1>8
  <2>2. CASE m = 12
    <3>1. e = Ordinal(y + 1, 1, 1)
      BY <1>1, <1>2, <1>3, <1>4, <2>2 DEF Ordinal
    <3>2. 1 \in 1 .. 12 /\ 1 \in 1 .. MonthDays(y + 1, 1)  BY <1>4
    <3> HIDE DEF e
    <3> QED  BY <1>4, <2>1, <3>1, <3>2, CivilIs DEF e
  <2>3. CASE m # 12
    <3>1. DaysBeforeMonth(y, m + 1) \in Nat /\ MonthDays(y, m + 1) \in 28 .. 31
      BY <1>1, <1>3, <2>3, MonthsInOrder
    <3>2. e = Ordinal(y, m + 1, 1)
      BY <1>1, <1>2, <1>3, <2>3, <3>1 DEF Ordinal
    <3>3. m + 1 \in 1 .. 12 /\ 1 \in 1 .. MonthDays(y, m + 1)  BY <1>3, <2>3, <3>1
    <3> HIDE DEF e
    <3> QED  BY <1>1, <2>1, <3>2, <3>3, CivilIs DEF e
  <2> QED  BY <2>2, <2>3
<1> QED  BY <1>6, <1>7, <1>8 DEF y, m

LEMMA FirstOfMonthBounds ==
    ASSUME NEW n, IsDay(n)
    PROVE  FirstOfMonth(n) \in Int /\ FirstOfMonth(n) <= n /\ n <= FirstOfMonth(n) + 30
<1> DEFINE y == YearOf(n)
           m == MonthOf(n)
           d == DayOf(n)
<1>1. /\ y \in Nat \ {0} /\ m \in 1 .. 12 /\ d \in 1 .. MonthDays(y, m)
      /\ n = Ordinal(y, m, d) /\ FirstOfMonth(n) = Ordinal(y, m, 1)
  BY CivilFound DEF FirstOfMonth
<1> HIDE DEF y, m, d
<1>2. DaysBeforeYear(y) \in Int /\ DaysBeforeMonth(y, m) \in Nat /\ MonthDays(y, m) \in 28 .. 31
  BY <1>1, YearLength, MonthsInOrder
<1> QED  BY <1>1, <1>2 DEF Ordinal

Trailing == {"last_7_days", "last_30_days", "last_90_days", "last_365_days"}

\* Where the window of a preset lies, on any day; the year so far is the one that may
\* be longer than 364 days, and it ends with its year at the latest.
LEMMA PresetBounds ==
    ASSUME NEW name \in Presets, NEW t, \A n \in t - 731 .. t : IsDay(n), IsDay(t)
    PROVE  /\ PresetWindow(name, t).start \in Int /\ PresetWindow(name, t).end \in Int
           /\ PresetWindow(name, t).start <= PresetWindow(name, t).end
           /\ PresetWindow(name, t).end <= t
           /\ t - 365 <= PresetWindow(name, t).start
           /\ name \in Trailing => PresetWindow(name, t).end = t - 1
           /\ PresetWindow(name, t).end <= OneYearCap(PresetWindow(name, t).start)
<1> DEFINE w == PresetWindow(name, t)
<1>1. t \in Int  BY DEF IsDay
<1>2. \A n : n \in Int /\ t - 731 <= n /\ n <= t =>
         IsDay(n) /\ OneYearCap(n) \in Int /\ n + 364 <= OneYearCap(n)
  <2> SUFFICES ASSUME NEW n \in Int, t - 731 <= n, n <= t
               PROVE  IsDay(n) /\ OneYearCap(n) \in Int /\ n + 364 <= OneYearCap(n)
    OBVIOUS
  <2>1. IsDay(n)  BY <1>1
  <2> QED  BY <2>1, YearCap
<1> USE DEF Window
<1>3. CASE name \in {"today", "yesterday"} \cup Trailing
  <2> DEFINE Spans(i, j) == /\ w = Window(t - i, t - j) /\ i \in 0 .. 365 /\ j \in 0 .. 365
                            /\ j <= i /\ i <= j + 364 /\ (name \in Trailing => j = 1)
  <2>0. t = t - 0  BY <1>1
  <2>1. \/ Spans(0, 0) \/ Spans(1, 1) \/ Spans(7, 1) \/ Spans(30, 1) \/ Spans(90, 1)
        \/ Spans(365, 1)
    <3>1. CASE name = "today"
      <4>1. w = Window(t - 0, t - 0)  BY <2>0, <3>1 DEF PresetWindow
      <4> HIDE DEF w
      <4> QED  BY <3>1, <4>1 DEF Trailing
    <3>2. CASE name = "yesterday"
      <4>1. w = Window(t - 1, t - 1)  BY <3>2 DEF PresetWindow
      <4> HIDE DEF w
      <4> QED  BY <3>2, <4>1 DEF Trailing
    <3>3. CASE name \in Trailing
      <4>1. name = "last_7_days" => w = Window(t - 7, t - 1)  BY DEF PresetWindow
      <4>2. name = "last_30_days" => w = Window(t - 30, t - 1)  BY DEF PresetWindow
      <4>3. name = "last_90_days" => w = Window(t - 90, t - 1)  BY DEF PresetWindow
      <4>4. name = "last_365_days" => w = Window(t - 365, t - 1)  BY DEF PresetWindow
      <4> HIDE DEF w
      <4> QED  BY <3>3, <4>1, <4>2, <4>3, <4>4 DEF Trailing
    <3> QED  BY <1>3, <3>1, <3>2, <3>3
  <2>2. PICK i, j : Spans(i, j)  BY <2>1
  <2>3. w.start = t - i /\ w.end = t - j  BY <2>2
  <2> HIDE DEF w
  <2>4. OneYearCap(t - i) \in Int /\ t - i + 364 <= OneYearCap(t - i)
    BY <1>1, <1>2, <2>2
  <2> QED  BY <1>1, <2>2, <2>3, <2>4 DEF w
<1>4. CASE name = "this_month"
  <2>1. w.start = FirstOfMonth(t) /\ w.end = t  BY <1>4 DEF PresetWindow
  <2> HIDE DEF w
  <2>2. name \notin Trailing  BY <1>4 DEF Trailing
  <2>3. w.start \in Int /\ w.start <= t /\ t <= w.start + 30  BY <2>1, FirstOfMonthBounds
  <2> QED  BY <1>1, <1>2, <2>1, <2>2, <2>3 DEF w
<1>5. CASE name = "last_month"
  <2> DEFINE f == FirstOfMonth(t)
             g == FirstOfMonth(f - 1)
  <2>1. w.start = g /\ w.end = f - 1  BY <1>5 DEF PresetWindow
  <2> HIDE DEF w
  <2>2. name \notin Trailing  BY <1>5 DEF Trailing
  <2>3. f \in Int /\ f <= t /\ t <= f + 30  BY FirstOfMonthBounds
  <2>4. IsDay(f - 1)
    <3> HIDE DEF f
    <3> QED  BY <1>1, <1>2, <2>3
  <2>5. g \in Int /\ g <= f - 1 /\ f - 1 <= g + 30  BY <2>4, FirstOfMonthBounds
  <2> HIDE DEF f, g
  <2>6. OneYearCap(g) \in Int /\ g + 364 <= OneYearCap(g)  BY <1>1, <1>2, <2>3, <2>5
  <2>7. /\ w.start \in Int /\ w.end \in Int /\ w.start <= w.end /\ w.end <= t /\ t - 365 <= w.start
        /\ w.end <= OneYearCap(w.start)
    BY <1>1, <2>1, <2>3, <2>5, <2>6
  <2> QED  BY <2>2, <2>7 DEF w
<1>6. CASE name = "year_to_date"
  <2> DEFINE y == YearOf(t)
  <2>1. w.start = Ordinal(y, 1, 1) /\ w.end = t  BY <1>6 DEF PresetWindow
  <2>2. /\ y \in Nat \ {0} /\ DaysBeforeYear(y) < t /\ t <= DaysBeforeYear(y + 1)
    BY YearFound
  <2> HIDE DEF w, y
  <2>3. name \notin Trailing  BY <1>6 DEF Trailing
  <2>4. /\ DaysBeforeYear(y) \in Int /\ DaysBeforeYear(y + 1) = DaysBeforeYear(y) + DaysIn(y)
        /\ DaysIn(y) \in 365 .. 366
        /\ DaysBeforeMonth(y, 1) = 0 /\ DaysBeforeMonth(y + 1, 1) = 0 /\ MonthDays(y, 1) = 31
    BY <2>2, YearLength, MonthTable DEF DaysIn
  <2>5. w.start = DaysBeforeYear(y) + 1  BY <2>1, <2>4 DEF Ordinal
  <2>6. w.start \in Int /\ w.start <= t /\ t - 365 <= w.start
    BY <1>1, <2>2, <2>4, <2>5
  <2>7. OneYearCap(w.start) = DaysBeforeYear(y + 1)
    <3>1. IsDay(w.start)  BY <1>1, <1>2, <2>6
    <3>2. YearOf(w.start) = y /\ MonthOf(w.start) = 1 /\ DayOf(w.start) = 1
      <4>1. 1 \in 1 .. 12 /\ 1 \in 1 .. MonthDays(y, 1)  BY <2>4
      <4> QED  BY <2>1, <2>2, <3>1, <4>1, CivilIs
    <3>3. OneYearCap(w.start) = Ordinal(y + 1, 1, 1) - 1  BY <3>2 DEF OneYearCap
    <3>4. DaysBeforeYear(y + 1) \in Int  BY <2>4
    <3> QED  BY <2>4, <3>3, <3>4 DEF Ordinal
  <2> QED  BY <1>1, <2>1, <2>2, <2>3, <2>6, <2>7 DEF w
<1> QED  BY <1>3, <1>4, <1>5, <1>6 DEF Presets, Trailing

-----------------------------------------------------------------------------
(* What a call is resolved to.  Pipeline sees Calendar twice, directly and *)
(* through Periods.                                                        *)

LEMMA SameCalendar ==
    /\ \A n : P!YearOf(n) = YearOf(n)
    /\ \A name, n : P!PresetWindow(name, n) = PresetWindow(name, n)
    /\ \A m, n : P!Window(m, n) = Window(m, n)
    /\ P!Presets = Presets
<1>1. \A y : P!DaysBeforeYear(y) = DaysBeforeYear(y)
  BY DEF P!DaysBeforeYear, DaysBeforeYear
<1>2. \A y, m, d : /\ P!Ordinal(y, m, d) = Ordinal(y, m, d)
                  /\ P!MonthDays(y, m) = MonthDays(y, m)
  BY DEF P!Ordinal, Ordinal, P!DaysBeforeYear, DaysBeforeYear, P!DaysBeforeMonth,
         DaysBeforeMonth, P!MonthDays, MonthDays, P!Leap, Leap
<1>3. \A n : P!YearOf(n) = YearOf(n)
  BY DEF P!YearOf, YearOf, P!DaysBeforeYear, DaysBeforeYear
<1>4. \A n : P!MonthOf(n) = MonthOf(n)
  BY <1>2, <1>3 DEF P!MonthOf, MonthOf
<1>5. \A n : P!FirstOfMonth(n) = FirstOfMonth(n)
  BY <1>2, <1>3, <1>4 DEF P!FirstOfMonth, FirstOfMonth
<1>6. \A m, n : P!Window(m, n) = Window(m, n)  BY DEF P!Window, Window
<1>7. \A name, n : P!PresetWindow(name, n) = PresetWindow(name, n)
  BY <1>2, <1>3, <1>5, <1>6 DEF P!PresetWindow, PresetWindow
<1>8. P!Presets = Presets  BY DEF P!Presets, Presets
<1> QED  BY <1>3, <1>6, <1>7, <1>8

Typed(d) == d.form \in P!Forms /\ IsDay(d.day)

\* Two dates of one form that are accepted are in order, and no further apart than the
\* cap allows.
LEMMA ValidInOrder ==
    ASSUME NEW a, NEW b, Typed(a), Typed(b), P!Valid(a, b), a.form = b.form
    PROVE  a.day <= b.day /\ b.day - a.day <= MaxSpan
<1>1. ~P!TextAfter(a, b) /\ b.day - a.day <= MaxSpan
  BY SpanAssumption DEF P!Valid, P!TooWide, Typed, IsDay
<1>2. a.day \in Int /\ b.day \in Int  BY DEF Typed, IsDay
<1>3. ~(YearOf(a.day) > YearOf(b.day)) /\ ~(YearOf(a.day) = YearOf(b.day) /\ a.day > b.day)
  BY <1>1, SameCalendar DEF P!TextAfter
<1> DEFINE y == YearOf(a.day)
           z == YearOf(b.day)
<1>4. /\ y \in Nat \ {0} /\ a.day <= DaysBeforeYear(y + 1)
      /\ z \in Nat \ {0} /\ DaysBeforeYear(z) < b.day
  BY YearFound DEF Typed
<1>5. ~(y > z) /\ ~(y = z /\ a.day > b.day)  BY <1>3
<1> HIDE DEF y, z
<1>6. CASE y = z  BY <1>1, <1>2, <1>5, <1>6
<1>7. CASE y < z
  <2>1. y + 1 \in Nat \ {0} /\ y + 1 <= z  BY <1>4, <1>7
  <2>2. /\ DaysBeforeYear(y + 1) \in Int /\ DaysBeforeYear(z) \in Int
        /\ DaysBeforeYear(y + 1) <= DaysBeforeYear(z)
    BY <1>4, <2>1, YearLength, YearsInOrder
  <2>3. a.day <= b.day  BY <1>2, <1>4, <2>2
  <2> QED  BY <1>1, <2>3
<1> QED  BY <1>4, <1>5, <1>6, <1>7

LegalPeriod ==
    /\ ask.timeframe # NoTimeframe => /\ ask.timeframe \in Presets
                                      /\ period = PresetWindow(ask.timeframe, ask.today)
    /\ ask.timeframe = NoTimeframe => /\ P!Valid(ask.start, ask.end)
                                      /\ period = Window(ask.start.day, ask.end.day)

LegalPrior ==
    \/ prior = P!PriorWindow(period)
    \/ \E a, b \in Dates : P!Valid(a, b) /\ prior = Window(a.day, b.day)

Resolved ==
    /\ ask \in Asks
    /\ stage \in {"asked", "resolved", "compared", "rejected"}
    /\ stage \in {"resolved", "compared"} => LegalPeriod
    /\ stage = "compared" => LegalPrior

LEMMA DatesTyped ==
    ASSUME ask \in Asks
    PROVE  /\ P!Valid(ask.start, ask.end) => Typed(ask.start) /\ Typed(ask.end)
           /\ \A a, b \in Dates : P!Valid(a, b) => Typed(a) /\ Typed(b)
  BY ArgumentsAssumption DEF P!Valid, Typed

LEMMA TodayBounds ==
    ASSUME ask \in Asks
    PROVE  /\ ask.today \in Int /\ IsDay(ask.today)
           /\ \A n \in ask.today - 731 .. ask.today : IsDay(n)
           /\ \A kd \in Kinds : ask.today - 731 .. ask.today \subseteq DOMAIN Cap[kd]
<1>1. IsDay(ask.today) /\ Reaches(ask.today - 731, ask.today)
  BY ArgumentsAssumption
<1>2. "year" \in Kinds /\ \A n \in DOMAIN Cap["year"] : IsDay(n)  BY CalendarAssumption
<1> QED  BY <1>1, <1>2 DEF Reaches, IsDay

\* A period of a call is a pair of days that Windows can cut up.
Cuttable(kd, w) == w.start \in Int /\ w.end \in Int /\ w.start .. w.end \subseteq DOMAIN Cap[kd]

LEMMA PeriodCuttable ==
    ASSUME Resolved, stage \in {"resolved", "compared"}, NEW kd \in Kinds
    PROVE  /\ Cuttable(kd, period)
           /\ stage = "compared" => Cuttable(kd, prior)
<1>1. ask \in Asks /\ LegalPeriod /\ (stage = "compared" => LegalPrior)
  BY DEF Resolved
<1>2. MaxSpan \in Int  BY SpanAssumption
<1>3. \A w : P!PriorWindow(w) = Window(w.start - 1 - (w.end - w.start), w.start - 1)
  BY SameCalendar DEF P!PriorWindow
<1>4. Cuttable(kd, period) /\ Cuttable(kd, P!PriorWindow(period))
  <2> DEFINE pw == P!PriorWindow(period)
             s == period.start
             e == period.end
             b == s - 1 - (e - s)
  <2>0. pw.start = b /\ pw.end = s - 1  BY <1>3 DEF Window
  <2> SUFFICES /\ s \in Int /\ e \in Int
               /\ s .. e \subseteq DOMAIN Cap[kd]
               /\ b .. s - 1 \subseteq DOMAIN Cap[kd]
    <3> HIDE DEF pw, s, e
    <3>1. s \in Int /\ e \in Int => b \in Int /\ s - 1 \in Int  OBVIOUS
    <3>2. Cuttable(kd, period) <=> s \in Int /\ e \in Int /\ s .. e \subseteq DOMAIN Cap[kd]
      BY DEF Cuttable, s, e
    <3>3. Cuttable(kd, pw) <=> b \in Int /\ s - 1 \in Int /\ b .. s - 1 \subseteq DOMAIN Cap[kd]
      BY <2>0 DEF Cuttable
    <3> QED  BY <3>1, <3>2, <3>3 DEF pw
  <2>1. CASE ask.timeframe # NoTimeframe
    <3> DEFINE t == ask.today
    <3>1. /\ t \in Int /\ t - 731 .. t \subseteq DOMAIN Cap[kd]
          /\ IsDay(t) /\ \A n \in t - 731 .. t : IsDay(n)
      BY <1>1, TodayBounds
    <3>2. ask.timeframe \in Presets /\ period = PresetWindow(ask.timeframe, t)
      BY <1>1, <2>1 DEF LegalPeriod
    <3> HIDE DEF t
    <3>3. s \in Int /\ e \in Int /\ s <= e /\ e <= t /\ t - 365 <= s
      BY <3>1, <3>2, PresetBounds
    <3> HIDE DEF s, e
    <3>4. \A n : n \in s .. e \/ n \in b .. s - 1 => n \in t - 731 .. t
      BY <3>1, <3>3
    <3> QED  BY <3>1, <3>3, <3>4
  <2>2. CASE ask.timeframe = NoTimeframe
    <3>1. P!Valid(ask.start, ask.end) /\ period = Window(ask.start.day, ask.end.day)
      BY <1>1, <2>2 DEF LegalPeriod
    <3>2. s = ask.start.day /\ e = ask.end.day  BY <3>1 DEF Window
    <3>3. s \in Int /\ e \in Int  BY <1>1, <3>1, <3>2, DatesTyped DEF Typed, IsDay
    <3>4. e - s <= MaxSpan
      <4>1. ~P!TooWide(ask.start, ask.end)  BY <3>1 DEF P!Valid
      <4> HIDE DEF s, e
      <4> QED  BY <1>2, <3>2, <3>3, <4>1 DEF P!TooWide
    <3>5. s - 1 - MaxSpan .. e \subseteq DOMAIN Cap[kd]
      BY <1>1, <3>1, <3>2, ArgumentsAssumption DEF P!Valid, Reaches
    <3> HIDE DEF s, e
    <3>6. \A n : n \in s .. e \/ n \in b .. s - 1 => n \in s - 1 - MaxSpan .. e
      BY <1>2, <3>3, <3>4, SpanAssumption
    <3> QED  BY <3>3, <3>5, <3>6
  <2> QED  BY <2>1, <2>2
<1>5. ASSUME NEW a \in Dates, NEW b \in Dates, P!Valid(a, b), prior = Window(a.day, b.day)
      PROVE  Cuttable(kd, prior)
  <2>1. prior.start = a.day /\ prior.end = b.day  BY <1>5 DEF Window
  <2>2. a.day \in Int /\ b.day \in Int  BY <1>1, <1>5, DatesTyped DEF Typed, IsDay
  <2>3. a.day .. b.day \subseteq DOMAIN Cap[kd]
    BY <1>5, ArgumentsAssumption DEF P!Valid, Reaches
  <2> QED  BY <2>1, <2>2, <2>3 DEF Cuttable
<1> QED  BY <1>1, <1>4, <1>5 DEF LegalPrior

LEMMA ResolvedInit == PipelineInit => Resolved
  BY DEF PipelineInit, P!Init, Resolved

LEMMA ResolvedStep == Resolved /\ [PipelineNext]_pipeline => Resolved'
<1> SUFFICES ASSUME Resolved, [PipelineNext]_pipeline PROVE Resolved'
  OBVIOUS
<1>a. \A w, v : P!PriorWindow(w)' = P!PriorWindow(w)  OBVIOUS
<1>1. CASE UNCHANGED arguments
  BY <1>1 DEF arguments, Resolved, LegalPeriod, LegalPrior
<1>2. CASE P!ResolvePreset
  <2>1. stage = "asked" /\ ask.timeframe # NoTimeframe /\ UNCHANGED ask
    BY <1>2 DEF P!ResolvePreset, P!Accept, P!Reject
  <2>2. \/ stage' = "rejected"
        \/ /\ stage' = "resolved" /\ ask.timeframe \in Presets
           /\ period' = PresetWindow(ask.timeframe, ask.today)
    BY <1>2, SameCalendar DEF P!ResolvePreset, P!Accept, P!Reject
  <2> QED  BY <2>1, <2>2 DEF Resolved, LegalPeriod
<1>3. CASE P!ResolveDates
  <2>1. stage = "asked" /\ ask.timeframe = NoTimeframe /\ UNCHANGED ask
    BY <1>3 DEF P!ResolveDates, P!Accept, P!Reject
  <2>2. \/ stage' = "rejected"
        \/ /\ stage' = "resolved" /\ P!Valid(ask.start, ask.end)
           /\ period' = Window(ask.start.day, ask.end.day)
    BY <1>3, SameCalendar DEF P!ResolveDates, P!Accept, P!Reject
  <2> QED  BY <2>1, <2>2 DEF Resolved, LegalPeriod
<1>4. CASE P!CompareDefault
  BY <1>4 DEF P!CompareDefault, Resolved, LegalPeriod, LegalPrior
<1>5. ASSUME NEW a \in Dates, NEW b \in Dates, P!CompareExplicit(a, b)
      PROVE  Resolved'
  <2>1. stage = "resolved" /\ UNCHANGED <<ask, period>>
    BY <1>5 DEF P!CompareExplicit, P!Reject
  <2>2. \/ stage' = "rejected"
        \/ stage' = "compared" /\ P!Valid(a, b) /\ prior' = Window(a.day, b.day)
    BY <1>5, SameCalendar DEF P!CompareExplicit, P!Reject
  <2> QED  BY <2>1, <2>2 DEF Resolved, LegalPeriod, LegalPrior
<1> QED
  BY <1>1, <1>2, <1>3, <1>4, <1>5
     DEF PipelineNext, pipeline, Resolve, CutCurrent, CutPrior, CutWindow, Enter, Rejected,
         Fetched, arguments

-----------------------------------------------------------------------------
(* The windows of a call.                                                  *)

\* Each window but one cut short by the end of the period reaches its cap.
Reaching == \A i \in 1 .. Len(windows) :
                windows[i].to \in {Cap[kind][windows[i].from], end}

\* Weeks begin every seventh day.
Weekly == kind = "weekly" =>
              \A i \in 1 .. Len(windows) : windows[i].from = start + 7 * (i - 1)

\* The windows ws are a whole period w.
Whole(ws, w) ==
    /\ ws \in Seq([from : Int, to : Int])
    /\ w.start <= w.end => ws # <<>>
    /\ ws # <<>> => ws[1].from = w.start /\ ws[Len(ws)].to = w.end
    /\ \A i \in 1 .. Len(ws) - 1 : ws[i + 1].from = ws[i].to + 1

\* Which period is being cut, and which one has been.
Legs ==
    /\ leg \in {"none", "current", "prior"}
    /\ leg = "none" => windows = <<>> /\ cursor > end
    /\ leg # "none" => stage \in {"resolved", "compared"}
    /\ leg = "current" => /\ start = period.start /\ end = period.end
                          /\ stage = "compared" => kind = "year"
    /\ leg = "prior" => /\ stage = "compared" /\ kind = "year"
                        /\ start = prior.start /\ end = prior.end
                        /\ Whole(current, period)

Piped == Windowed /\ Resolved /\ Legs /\ Reaching /\ Weekly

LEMMA Ended ==
    ASSUME Windowed, cursor > end
    PROVE  Whole(windows, Window(start, end))
<1>1. TypeOK /\ Contiguous /\ WithinCap /\ CoversPeriod
  BY WindowedCovers DEF Windowed, Partition
<1>2. windows # <<>> => start <= end
  <2> SUFFICES ASSUME windows # <<>> PROVE start <= end
    OBVIOUS
  <2>1. windows \in Seq([from : Int, to : Int])  BY <1>1 DEF TypeOK
  <2>2. 1 \in 1 .. Len(windows)  BY <2>1, EmptySeq
  <2>3. windows[1] \in [from : Int, to : Int]  BY <2>1, <2>2, ElementOfSeq
  <2>4. start <= windows[1].from /\ windows[1].from <= windows[1].to /\ windows[1].to <= end
    BY <1>1, <2>2 DEF WithinCap
  <2> QED  BY <1>1, <2>3, <2>4 DEF TypeOK
<1> QED  BY <1>1, <1>2 DEF TypeOK, Contiguous, CoversPeriod, Whole, Window

\* A new period begins with no window, in the calendar.
LEMMA EnterWindowed ==
    ASSUME NEW kd \in Kinds, NEW w, Cuttable(kd, w), Enter(kd, w)
    PROVE  Windowed' /\ Reaching' /\ Weekly'
<1>1. /\ kind' = kd /\ start' = w.start /\ end' = w.end /\ cursor' = w.start /\ windows' = <<>>
      /\ w.start \in Int /\ w.end \in Int /\ w.start .. w.end \subseteq DOMAIN Cap[kd]
  BY DEF Enter, Cuttable
<1>2. Len(<<>>) = 0 /\ <<>> \in Seq([from : Int, to : Int])  BY EmptySeq
<1>3. TypeOK' /\ InCalendar'  BY <1>1, <1>2 DEF TypeOK, InCalendar
<1>4. Contiguous' /\ WithinCap' /\ Reaching' /\ Weekly'
  BY <1>1, <1>2 DEF Contiguous, WithinCap, Reaching, Weekly
<1> QED  BY <1>3, <1>4 DEF Windowed, Partition

LEMMA CutReaching ==
    ASSUME Windowed, Reaching, Weekly, Cut
    PROVE  Reaching' /\ Weekly'
<1> DEFINE n == Len(windows)
           last == CutEnd(cursor)
           new == [from |-> cursor, to |-> last]
<1>1. TypeOK /\ InCalendar /\ Contiguous /\ WithinCap  BY DEF Windowed, Partition
<1>2. start <= cursor /\ cursor <= end  BY <1>1, CursorAfterStart DEF Cut
<1>3. /\ last \in Int /\ last \in {Cap[kind][cursor], end}
  BY <1>1, <1>2, CutEndBounds DEF CutEnd, Earlier
<1>4. /\ windows' = Append(windows, new) /\ start' = start /\ end' = end /\ kind' = kind
      /\ windows \in Seq([from : Int, to : Int]) /\ new \in [from : Int, to : Int]
  BY <1>1, <1>3 DEF Cut, TypeOK
<1> HIDE DEF last
<1>5. /\ Len(windows') = n + 1 /\ n \in Nat
      /\ \A i \in 1 .. n : windows'[i] = windows[i]
      /\ windows'[n + 1] = new
  BY <1>4, AppendProperties
<1>6. \A i \in 1 .. n + 1 : i \in 1 .. n \/ i = n + 1  BY <1>5
<1>7. Reaching'
  BY <1>3, <1>4, <1>5, <1>6 DEF Reaching
<1>8. ASSUME kind = "weekly" PROVE cursor = start + 7 * n
  <2>1. CASE n = 0
    <3>1. windows = <<>>  BY <1>4, <2>1, EmptySeq
    <3> QED  BY <1>1, <2>1, <3>1 DEF Contiguous, TypeOK
  <2>2. CASE n # 0
    <3> DEFINE v == windows[n]
    <3>1. n \in 1 .. n /\ windows # <<>>  BY <1>5, <2>2, EmptySeq
    <3>2. v \in [from : Int, to : Int]  BY <1>4, <3>1, ElementOfSeq
    <3>3. v.to = cursor - 1  BY <1>1, <3>1 DEF Contiguous
    <3>4. v.from = start + 7 * (n - 1)  BY <1>8, <3>1 DEF Weekly
    <3>5. start <= v.from /\ v.from <= v.to /\ v.to <= end  BY <1>1, <3>1 DEF WithinCap
    <3>6. v.to \in {Cap[kind][v.from], end}  BY <3>1 DEF Reaching
    <3> HIDE DEF v
    <3>7. v.from \in DOMAIN Cap[kind]  BY <1>1, <3>2, <3>5 DEF InCalendar, TypeOK
    <3>8. Cap[kind][v.from] = v.from + 6
      BY <1>1, <1>8, <3>7, CalendarAssumption DEF TypeOK, LastDay, WeekEnd
    <3>9. v.to = v.from + 6  BY <1>1, <1>2, <3>2, <3>3, <3>6, <3>8 DEF TypeOK
    <3> QED  BY <1>1, <1>5, <3>2, <3>3, <3>4, <3>9 DEF TypeOK
  <2> QED  BY <2>1, <2>2
<1>9. Weekly'
  <2> SUFFICES ASSUME kind = "weekly", NEW i \in 1 .. n + 1
               PROVE  windows'[i].from = start + 7 * (i - 1)
    BY <1>4, <1>5 DEF Weekly
  <2>1. CASE i \in 1 .. n  BY <1>5, <2>1 DEF Weekly
  <2>2. CASE i = n + 1
    <3>1. windows'[i].from = cursor  BY <1>5, <2>2
    <3>2. i - 1 = n  BY <1>5, <2>2
    <3> QED  BY <1>8, <3>1, <3>2
  <2> QED  BY <1>6, <2>1, <2>2
<1> QED  BY <1>7, <1>9

LEMMA PipedInit == PipelineInit => Piped
<1> SUFFICES ASSUME PipelineInit PROVE Piped
  OBVIOUS
<1>1. /\ kind = "year" /\ start = 1 /\ end = 0 /\ cursor = 1 /\ windows = <<>> /\ leg = "none"
  BY DEF PipelineInit
<1>2. Len(<<>>) = 0 /\ <<>> \in Seq([from : Int, to : Int]) /\ 1 .. 0 = {}  BY EmptySeq
<1>3. TypeOK /\ InCalendar
  BY <1>1, <1>2, CalendarAssumption DEF TypeOK, InCalendar
<1>4. Contiguous /\ WithinCap /\ Reaching /\ Weekly
  BY <1>1, <1>2 DEF Contiguous, WithinCap, Reaching, Weekly
<1>5. Legs  BY <1>1 DEF Legs
<1> QED  BY <1>3, <1>4, <1>5, ResolvedInit DEF Piped, Windowed, Partition

LEMMA PipedStep == Piped /\ [PipelineNext]_pipeline => Piped'
<1> SUFFICES ASSUME Piped, [PipelineNext]_pipeline PROVE Piped'
  OBVIOUS
<1>a. Windowed /\ Resolved /\ Legs /\ Reaching /\ Weekly  BY DEF Piped
<1>b. Resolved'  BY <1>a, ResolvedStep
<1>c. UNCHANGED vars => Windowed' /\ Reaching' /\ Weekly'
  <2> SUFFICES ASSUME UNCHANGED vars PROVE Windowed' /\ Reaching' /\ Weekly'
    OBVIOUS
  <2>1. Windowed'  BY <1>a, WindowedStep
  <2> QED  BY <1>a, <2>1 DEF vars, Reaching, Weekly
<1>1. CASE UNCHANGED pipeline
  <2>1. UNCHANGED vars /\ UNCHANGED <<stage, period, prior, leg, current>>
    BY <1>1 DEF pipeline, cutting, arguments, vars
  <2> QED  BY <1>a, <1>b, <1>c, <2>1 DEF Piped, Legs, Whole, vars
<1>2. CASE Resolve
  <2>1. leg = "none" /\ UNCHANGED vars /\ UNCHANGED leg
    BY <1>2 DEF Resolve, cutting, vars
  <2>2. Legs'  BY <1>a, <2>1 DEF Legs, vars
  <2> QED  BY <1>b, <1>c, <2>1, <2>2, <1>a DEF Piped
<1>3. ASSUME NEW kd \in Kinds, CutCurrent(kd)
      PROVE  Piped'
  <2>1. /\ stage \in {"resolved", "compared"} /\ (stage = "compared" => kd = "year")
        /\ Enter(kd, period) /\ leg' = "current"
    BY <1>3 DEF CutCurrent
  <2>2. Windowed' /\ Reaching' /\ Weekly'  BY <1>a, <2>1, PeriodCuttable, EnterWindowed
  <2>3. UNCHANGED <<stage, period>> /\ kind' = kd /\ start' = period.start /\ end' = period.end
    BY <2>1 DEF Enter, arguments
  <2>4. Legs'  BY <2>1, <2>3 DEF Legs
  <2> QED  BY <1>b, <2>2, <2>4 DEF Piped
<1>4. CASE CutPrior
  <2>1. /\ leg = "current" /\ stage = "compared" /\ cursor > end
        /\ current' = windows /\ Enter("year", prior) /\ leg' = "prior"
    BY <1>4 DEF CutPrior
  <2>2. "year" \in Kinds  BY CalendarAssumption
  <2>3. Windowed' /\ Reaching' /\ Weekly'
    BY <1>a, <2>1, <2>2, PeriodCuttable, EnterWindowed
  <2>4. /\ UNCHANGED <<stage, period, prior>> /\ kind' = "year"
        /\ start' = prior.start /\ end' = prior.end
    BY <2>1 DEF Enter, arguments
  <2>5. Whole(current', period')
    <3>1. Whole(windows, Window(start, end))  BY <1>a, <2>1, Ended
    <3>2. start = period.start /\ end = period.end  BY <1>a, <2>1 DEF Legs
    <3> QED  BY <2>1, <2>4, <3>1, <3>2 DEF Whole, Window
  <2>6. Whole(current, period)'  BY <2>5 DEF Whole
  <2>7. Legs'  BY <2>1, <2>4, <2>6 DEF Legs
  <2> QED  BY <1>b, <2>3, <2>7 DEF Piped
<1>5. CASE CutWindow
  <2>1. Cut /\ UNCHANGED <<kind, start, end>> /\ UNCHANGED <<stage, period, prior, leg, current>>
    BY <1>5 DEF CutWindow, Cut, arguments
  <2>2. Windowed'  BY <1>a, <2>1, WindowedStep DEF Next
  <2>3. Reaching' /\ Weekly'  BY <1>a, <2>1, CutReaching
  <2>4. Legs'
    <3>1. leg # "none"
      <4>1. cursor <= end /\ cursor \in Int /\ end \in Int
        BY <1>a, <2>1 DEF Cut, Windowed, TypeOK
      <4>2. leg = "none" => cursor > end  BY <1>a DEF Legs
      <4> QED  BY <4>1, <4>2
    <3> QED  BY <1>a, <2>1, <3>1 DEF Legs, Whole
  <2> QED  BY <1>b, <2>2, <2>3, <2>4 DEF Piped
<1> QED
  BY <1>1, <1>2, <1>3, <1>4, <1>5 DEF PipelineNext, Rejected, Fetched

LEMMA PipedInvariant == PipelineSpec => []Piped
  BY PipedInit, PipedStep, PTL DEF PipelineSpec

-----------------------------------------------------------------------------
(* The invariants of Pipeline.                                             *)

LEMMA WindowDays ==
    ASSUME Windowed, NEW i \in 1 .. Len(windows)
    PROVE  /\ kind \in Kinds /\ end \in Int /\ start \in Int
           /\ windows[i].from \in Int /\ windows[i].to \in Int
           /\ start <= windows[i].from /\ windows[i].from <= windows[i].to
           /\ windows[i].to <= end /\ windows[i].to <= LastDay(kind, windows[i].from)
           /\ windows[i].from \in DOMAIN Cap[kind]
           /\ \A n \in start .. end : IsDay(n)
           /\ IsDay(windows[i].from) /\ IsDay(windows[i].to)
<1> DEFINE w == windows[i]
<1>1. /\ windows \in Seq([from : Int, to : Int]) /\ kind \in Kinds /\ start \in Int /\ end \in Int
      /\ start .. end \subseteq DOMAIN Cap[kind]
      /\ start <= w.from /\ w.from <= w.to /\ w.to <= end /\ w.to <= Cap[kind][w.from]
  BY DEF Windowed, TypeOK, InCalendar, Partition, WithinCap
<1>2. w \in [from : Int, to : Int]  BY <1>1, ElementOfSeq
<1> HIDE DEF w
<1>3. w.from \in start .. end /\ w.to \in start .. end  BY <1>1, <1>2
<1>4. \A n \in DOMAIN Cap[kind] : IsDay(n) /\ Cap[kind][n] = LastDay(kind, n)
  BY <1>1, CalendarAssumption
<1> QED  BY <1>1, <1>2, <1>3, <1>4 DEF w

\* The windows of each period of a call, of the one compared with too, are contiguous,
\* disjoint, inside the period and within their caps.
THEOREM PipelinePartitions == PipelineSpec => []Partition
<1>1. Piped => Partition  BY DEF Piped, Windowed
<1> QED  BY <1>1, PipedInvariant, PTL

\* No chunk is wider than a calendar year: the date a year after its first day is after
\* its last, whichever years are leap years (service.py:271-273).
THEOREM ChunksWithinYear == PipelineSpec => []ChunkWithinYear
<1>1. ASSUME Piped PROVE ChunkWithinYear
  <2> SUFFICES ASSUME kind = "year", NEW i \in 1 .. Len(windows)
               PROVE  LexBefore(Civil(windows[i].to),
                                <<Civil(windows[i].from)[1] + 1, Civil(windows[i].from)[2],
                                  Civil(windows[i].from)[3]>>)
    BY DEF ChunkWithinYear
  <2> DEFINE n == windows[i].from
             e == windows[i].to
  <2>1. IsDay(n) /\ IsDay(e) /\ e <= LastDay(kind, n)  BY <1>1, WindowDays DEF Piped
  <2>2. e <= OneYearCap(n)  BY <2>1 DEF LastDay
  <2> HIDE DEF n, e
  <2>3. LexBefore(Civil(e), <<YearOf(n) + 1, MonthOf(n), DayOf(n)>>)  BY <2>1, <2>2, YearCap
  <2>4. Civil(n)[1] = YearOf(n) /\ Civil(n)[2] = MonthOf(n) /\ Civil(n)[3] = DayOf(n)
    BY DEF Civil
  <2> QED  BY <2>3, <2>4 DEF n, e
<1> QED  BY <1>1, PipedInvariant, PTL

\* Monthly buckets are calendar months but for the ends of the period, and a year of
\* weeks is at most 53 buckets (service.py:118-121, 303-305).
THEOREM BucketsAlwaysFit == PipelineSpec => []BucketsFit
<1>1. ASSUME Piped PROVE BucketsFit
  <2>0. Windowed /\ Reaching /\ Weekly  BY <1>1 DEF Piped
  <2>a. windows \in Seq([from : Int, to : Int]) /\ Len(windows) \in Nat
    BY <2>0 DEF Windowed, TypeOK
  <2>b. \A n : Civil(n)[1] = YearOf(n) /\ Civil(n)[2] = MonthOf(n) /\ Civil(n)[3] = DayOf(n)
    BY DEF Civil
  <2>1. ASSUME kind = "monthly", NEW i \in 1 .. Len(windows), windows[i].to < end
        PROVE  DayOf(windows[i].to + 1) = 1
    <3> DEFINE n == windows[i].from
               e == windows[i].to
    <3>1. /\ e \in Int /\ end \in Int /\ start \in Int /\ n \in Int /\ kind \in Kinds
          /\ start <= n /\ n <= e /\ n \in DOMAIN Cap[kind] /\ IsDay(n)
          /\ \A k \in start .. end : IsDay(k)
      BY <2>0, WindowDays
    <3>2. e \in {Cap[kind][n], end} /\ e < end  BY <2>0, <2>1 DEF Reaching
    <3> HIDE DEF n, e
    <3>3. Cap[kind][n] = MonthEnd(n)
      BY <2>1, <3>1, CalendarAssumption DEF LastDay
    <3>4. e = MonthEnd(n)  BY <3>1, <3>2, <3>3
    <3>5. IsDay(e + 1)  BY <3>1, <3>2
    <3>6. DayOf(e + 1) = 1  BY <3>1, <3>4, <3>5, MonthCap
    <3> QED  BY <3>6 DEF e
  <2>2. ASSUME kind = "monthly", NEW i \in 1 .. Len(windows)
        PROVE  LET w == windows[i]
               IN  /\ Civil(w.from)[1] = Civil(w.to)[1] /\ Civil(w.from)[2] = Civil(w.to)[2]
                   /\ i > 1 => Civil(w.from)[3] = 1
                   /\ w.to < end => Civil(w.to + 1)[3] = 1
    <3> DEFINE n == windows[i].from
               e == windows[i].to
    <3>1. IsDay(n) /\ IsDay(e) /\ n <= e /\ e <= LastDay(kind, n)  BY <2>0, WindowDays
    <3>2. e <= MonthEnd(n)  BY <2>2, <3>1 DEF LastDay
    <3>3. YearOf(e) = YearOf(n) /\ MonthOf(e) = MonthOf(n)
      <4> HIDE DEF n, e
      <4> QED  BY <3>1, <3>2, MonthCap
    <3>4. e < end => DayOf(e + 1) = 1  BY <2>1, <2>2
    <3>5. ASSUME i > 1 PROVE DayOf(n) = 1
      <4> DEFINE j == i - 1
      <4>1. j \in 1 .. Len(windows) - 1 /\ j \in 1 .. Len(windows) /\ j + 1 = i
        BY <2>a, <3>5
      <4> HIDE DEF j
      <4>2. n = windows[j].to + 1
        BY <2>0, <4>1 DEF Windowed, Partition, Contiguous
      <4>3. windows[j].to \in Int /\ e <= end /\ n <= e /\ end \in Int /\ n \in Int /\ e \in Int
        BY <2>0, <4>1, WindowDays
      <4>4. windows[j].to < end  BY <4>2, <4>3
      <4>5. DayOf(windows[j].to + 1) = 1  BY <2>1, <2>2, <4>1, <4>4
      <4> QED  BY <4>2, <4>5
    <3> QED  BY <2>b, <3>3, <3>4, <3>5
  <2>3. ASSUME kind = "weekly", end - start <= 365 PROVE Len(windows) <= 53
    <3> DEFINE n == Len(windows)
    <3> SUFFICES ASSUME n > 53 PROVE FALSE
      BY <2>a
    <3>1. n \in 1 .. n  BY <2>a
    <3>2. windows[n].from = start + 7 * (n - 1)  BY <2>0, <2>3, <3>1 DEF Weekly
    <3>3. /\ start \in Int /\ end \in Int /\ windows[n].from \in Int /\ windows[n].to \in Int
          /\ windows[n].from <= windows[n].to /\ windows[n].to <= end
      BY <2>0, <3>1, WindowDays
    <3> QED  BY <2>a, <2>3, <3>2, <3>3
  <2> QED  BY <2>2, <2>3 DEF BucketsFit
<1> QED  BY <1>1, PipedInvariant, PTL

\* On every day, a preset names a window in order and not past today that is fetched as
\* a single chunk (service.py:162-178, 335-356).
THEOREM PresetsAlwaysFit == PipelineSpec => []PresetsFit
<1>1. ASSUME Piped PROVE PresetsFit
  <2> SUFFICES ASSUME ask.timeframe # NoTimeframe, stage \in {"resolved", "compared"}
               PROVE  /\ leg = "current" /\ kind = "year" /\ cursor > end => Len(windows) = 1
                      /\ period.end <= ask.today
                      /\ ask.timeframe \in Trailing => period.end = ask.today - 1
    <3>1. Resolved /\ Legs  BY <1>1 DEF Piped
    <3>2. stage \in {"asked", "resolved", "compared", "rejected"}  BY <3>1 DEF Resolved
    <3>3. stage = "asked" => leg # "current"  BY <3>1 DEF Legs
    <3> QED  BY <3>2, <3>3 DEF PresetsFit, Trailing
  <2>0. Windowed /\ Resolved /\ Legs /\ Reaching  BY <1>1 DEF Piped
  <2> DEFINE t == ask.today
             s == period.start
             e == period.end
  <2>1. ask \in Asks /\ ask.timeframe \in Presets /\ period = PresetWindow(ask.timeframe, t)
    BY <2>0 DEF Resolved, LegalPeriod
  <2>2. IsDay(t) /\ \A n \in t - 731 .. t : IsDay(n)  BY <2>1, TodayBounds
  <2>3. /\ s \in Int /\ e \in Int /\ s <= e /\ e <= t /\ e <= OneYearCap(s)
        /\ ask.timeframe \in Trailing => e = t - 1
    <3> HIDE DEF t
    <3> QED  BY <2>1, <2>2, PresetBounds
  <2> HIDE DEF t, s, e
  <2>4. ASSUME leg = "current", kind = "year", cursor > end PROVE Len(windows) = 1
    <3>1. start = s /\ end = e  BY <2>0, <2>4 DEF Legs, s, e
    <3>2. Whole(windows, Window(start, end))  BY <2>0, <2>4, Ended
    <3>3. /\ windows \in Seq([from : Int, to : Int]) /\ windows # <<>> /\ windows[1].from = s
          /\ \A i \in 1 .. Len(windows) - 1 : windows[i + 1].from = windows[i].to + 1
      BY <2>3, <3>1, <3>2 DEF Whole, Window
    <3>4. Len(windows) \in Nat /\ Len(windows) # 0  BY <3>3, EmptySeq
    <3>5. 1 \in 1 .. Len(windows)  BY <3>4
    <3>6. s \in DOMAIN Cap[kind] /\ kind \in Kinds  BY <2>0, <3>3, <3>5, WindowDays
    <3>7. Cap[kind][s] = OneYearCap(s)
      BY <2>4, <3>6, CalendarAssumption DEF LastDay
    <3>8. windows[1].to \in {OneYearCap(s), e} /\ windows[1].to \in Int
      BY <2>0, <3>1, <3>3, <3>5, <3>7, WindowDays DEF Reaching
    <3>9. e <= windows[1].to  BY <2>3, <3>8
    <3>10. ASSUME Len(windows) > 1 PROVE FALSE
      <4>1. 1 \in 1 .. Len(windows) - 1 /\ 1 + 1 = 2 /\ 2 \in 1 .. Len(windows)
        BY <3>4, <3>10
      <4>2. windows[2].from = windows[1].to + 1  BY <3>3, <4>1
      <4>3. /\ windows[2].from \in Int /\ windows[2].to \in Int
            /\ windows[2].from <= windows[2].to /\ windows[2].to <= end
        BY <2>0, <4>1, WindowDays
      <4> QED  BY <2>3, <3>1, <3>8, <3>9, <4>2, <4>3
    <3> QED  BY <3>4, <3>10
  <2> QED  BY <2>3, <2>4 DEF t, e
<1> QED  BY <1>1, PipedInvariant, PTL

\* The two dates of a period are written in the same form, as the tools ask for them.
OneForm ==
    /\ \A a \in Asks :
          P!IsAbsoluteDate(a.start) /\ P!IsAbsoluteDate(a.end) => a.start.form = a.end.form
    /\ \A a, b \in Dates : P!IsAbsoluteDate(a) /\ P!IsAbsoluteDate(b) => a.form = b.form

LEMMA InOrderOneForm ==
    ASSUME OneForm, Resolved, stage \in {"resolved", "compared"}
    PROVE  /\ period.start \in Int /\ period.end \in Int /\ P!InOrder(period)
           /\ stage = "compared" => P!InOrder(prior)
<1>0. ask \in Asks /\ LegalPeriod /\ (stage = "compared" => LegalPrior)  BY DEF Resolved
<1>a. MaxSpan \in Nat /\ MaxSpan >= 365  BY SpanAssumption
<1>1. period.start \in Int /\ period.end \in Int /\ P!InOrder(period)
  <2>1. CASE ask.timeframe # NoTimeframe
    <3> DEFINE t == ask.today
               w == PresetWindow(ask.timeframe, t)
    <3>1. ask.timeframe \in Presets /\ period = w  BY <1>0, <2>1 DEF LegalPeriod
    <3>2. t \in Int /\ IsDay(t) /\ \A n \in t - 731 .. t : IsDay(n)  BY <1>0, TodayBounds
    <3> HIDE DEF t
    <3>3. w.start \in Int /\ w.end \in Int /\ w.start <= w.end /\ w.end <= t /\ t - 365 <= w.start
      BY <3>1, <3>2, PresetBounds
    <3> HIDE DEF w
    <3> QED  BY <1>a, <3>1, <3>2, <3>3 DEF P!InOrder
  <2>2. CASE ask.timeframe = NoTimeframe
    <3> DEFINE a == ask.start
               b == ask.end
    <3>1. P!Valid(a, b) /\ period.start = a.day /\ period.end = b.day
      BY <1>0, <2>2 DEF LegalPeriod, Window
    <3>2. Typed(a) /\ Typed(b) /\ a.form = b.form
      BY <1>0, <3>1, DatesTyped DEF OneForm, P!Valid
    <3> HIDE DEF a, b
    <3>3. a.day \in Int /\ b.day \in Int /\ a.day <= b.day /\ b.day - a.day <= MaxSpan
      BY <3>1, <3>2, ValidInOrder DEF Typed, IsDay
    <3> QED  BY <3>1, <3>3 DEF P!InOrder
  <2> QED  BY <2>1, <2>2
<1>2. P!InOrder(P!PriorWindow(period))
  <2> DEFINE v == P!PriorWindow(period)
             s == period.start
             e == period.end
  <2>1. v.start = s - 1 - (e - s) /\ v.end = s - 1
    BY SameCalendar DEF P!PriorWindow, Window
  <2> HIDE DEF v
  <2>2. s \in Int /\ e \in Int /\ s <= e /\ e - s <= MaxSpan  BY <1>1 DEF P!InOrder
  <2> HIDE DEF s, e
  <2>3. v.start <= v.end /\ v.end - v.start <= MaxSpan  BY <1>a, <2>1, <2>2
  <2> QED  BY <2>3 DEF P!InOrder, v
<1>3. ASSUME NEW a \in Dates, NEW b \in Dates, P!Valid(a, b), prior = Window(a.day, b.day)
      PROVE  P!InOrder(prior)
  <2>1. prior.start = a.day /\ prior.end = b.day  BY <1>3 DEF Window
  <2>2. Typed(a) /\ Typed(b) /\ a.form = b.form  BY <1>0, <1>3, DatesTyped DEF OneForm, P!Valid
  <2>3. a.day <= b.day /\ b.day - a.day <= MaxSpan  BY <1>3, <2>2, ValidInOrder
  <2> QED  BY <2>1, <2>3 DEF P!InOrder
<1> QED  BY <1>0, <1>1, <1>2, <1>3 DEF LegalPrior

\* Of dates in one form, those that are accepted are in order and within the span cap,
\* and so is the baseline (service.py:415-417, 1428-1443); of two forms they need not be.
THEOREM AcceptsInOrder ==
    ASSUME OneForm
    PROVE  PipelineSpec => []AcceptedInOrder
<1>1. ASSUME Piped PROVE AcceptedInOrder
  <2>1. Resolved  BY <1>1 DEF Piped
  <2> QED  BY <2>1, InOrderOneForm DEF AcceptedInOrder, P!AcceptedInOrder
<1> QED  BY <1>1, PipedInvariant, PTL

\* The windows of the default baseline and of the current period are one unbroken run
\* of days, and both periods are as long (service.py:1334-1351).
THEOREM BaselineAlwaysMeets ==
    ASSUME OneForm
    PROVE  PipelineSpec => []BaselineMeets
<1>1. ASSUME Piped PROVE BaselineMeets
  <2> SUFFICES ASSUME leg = "prior", cursor > end, prior = P!PriorWindow(period)
               PROVE  LET both == windows \o current
                      IN  /\ \A i \in 1 .. Len(both) - 1 : both[i + 1].from = both[i].to + 1
                          /\ both[1].from = prior.start /\ both[Len(both)].to = period.end
                          /\ prior.end - prior.start = period.end - period.start
    BY DEF BaselineMeets
  <2> DEFINE s == period.start
             e == period.end
             both == windows \o current
             m == Len(windows)
             n == Len(current)
  <2>0. Windowed /\ Resolved /\ Legs  BY <1>1 DEF Piped
  <2>1. /\ stage = "compared" /\ start = prior.start /\ end = prior.end
        /\ Whole(current, period)
    BY <2>0 DEF Legs
  <2>2. s \in Int /\ e \in Int /\ s <= e
    BY <2>0, <2>1, InOrderOneForm DEF P!InOrder
  <2>3. prior.start = s - 1 - (e - s) /\ prior.end = s - 1
    BY SameCalendar DEF P!PriorWindow, Window
  <2>4. Whole(windows, Window(start, end))  BY <2>0, Ended
  <2>5. /\ windows \in Seq([from : Int, to : Int]) /\ windows # <<>>
        /\ windows[1].from = prior.start /\ windows[m].to = s - 1
        /\ \A i \in 1 .. m - 1 : windows[i + 1].from = windows[i].to + 1
    BY <2>1, <2>2, <2>3, <2>4 DEF Whole, Window
  <2>6. /\ current \in Seq([from : Int, to : Int]) /\ current # <<>>
        /\ current[1].from = s /\ current[n].to = e
        /\ \A i \in 1 .. n - 1 : current[i + 1].from = current[i].to + 1
    BY <2>1, <2>2 DEF Whole
  <2>7. m \in Nat /\ m # 0 /\ n \in Nat /\ n # 0  BY <2>5, <2>6, EmptySeq
  <2>8. /\ Len(both) = m + n
        /\ \A i \in 1 .. m + n : both[i] = IF i <= m THEN windows[i] ELSE current[i - m]
    BY <2>5, <2>6, ConcatProperties
  <2> HIDE DEF both, m, n, s, e
  <2>9. ASSUME NEW i \in 1 .. m + n - 1 PROVE both[i + 1].from = both[i].to + 1
    <3>0. i \in Int /\ i \in 1 .. m + n /\ i + 1 \in 1 .. m + n  BY <2>7
    <3>1. CASE i < m
      <4>1. both[i] = windows[i] /\ both[i + 1] = windows[i + 1]
        BY <2>7, <2>8, <3>0, <3>1
      <4>2. i \in 1 .. m - 1  BY <2>7, <3>1
      <4> QED  BY <2>5, <4>1, <4>2
    <3>2. CASE i = m
      <4>1. both[i] = windows[m] /\ both[i + 1] = current[1]
        BY <2>7, <2>8, <3>0, <3>2
      <4>2. both[i].to = s - 1 /\ both[i + 1].from = s  BY <2>5, <2>6, <4>1
      <4> QED  BY <2>2, <4>2
    <3>3. CASE i > m
      <4>1. (i - m) + 1 = (i + 1) - m /\ i - m \in 1 .. n - 1  BY <2>7, <3>0, <3>3
      <4>2. both[i] = current[i - m] /\ both[i + 1] = current[(i + 1) - m]
        BY <2>7, <2>8, <3>0, <3>3
      <4> QED  BY <2>6, <4>1, <4>2
    <3> QED  BY <2>7, <3>0, <3>1, <3>2, <3>3
  <2>10. both[1] = windows[1] /\ both[m + n] = current[n]
    <3>1. 1 \in 1 .. m + n /\ 1 <= m /\ m + n \in 1 .. m + n /\ ~(m + n <= m) /\ (m + n) - m = n
      BY <2>7
    <3> QED  BY <2>8, <3>1
  <2>11. prior.end - prior.start = e - s  BY <2>2, <2>3
  <2>12. ASSUME NEW i \in 1 .. Len(both) - 1 PROVE both[i + 1].from = both[i].to + 1
    <3>1. i \in 1 .. m + n - 1  BY <2>7, <2>8
    <3> QED  BY <2>9, <3>1
  <2>13. both[1].from = prior.start /\ both[Len(both)].to = e
    BY <2>5, <2>6, <2>8, <2>10
  <2> QED  BY <2>11, <2>12, <2>13 DEF both, s, e
<1> QED  BY <1>1, PipedInvariant, PTL
=============================================================================
