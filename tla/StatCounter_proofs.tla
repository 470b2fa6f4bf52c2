------------------------- MODULE StatCounter_proofs -------------------------
(***************************************************************************)
(* For every window size, interval and clock: the collation window of an   *)
(* event counter is unopened or a run of consecutive intervals, and every  *)
(* time stamp that record() accepts has its own bucket in it.              *)
(***************************************************************************)
EXTENDS StatCounter, TLAPS

-----------------------------------------------------------------------------
(* Integer division, for a divisor that is a parameter.                    *)

(* What \div and % mean.                                                   *)
LEMMA Quotient ==
    ASSUME NEW a \in Int, NEW b \in Nat \ {0}
    PROVE  /\ a \div b \in Int
           /\ a % b \in 0 .. b - 1
           /\ a = b * (a \div b) + (a % b)
  BY SMT

(* Multiplication by a positive number keeps the order.                    *)
LEMMA StrictlyMonotone ==
    ASSUME NEW b \in Nat \ {0}, NEW x \in Int, NEW y \in Int, x < y
    PROVE  b * x + b <= b * y
  BY SMT

(* A multiple of b lies in the b numbers from another one only if they are *)
(* the same.                                                               *)
LEMMA SameMultiple ==
    ASSUME NEW b \in Nat \ {0}, NEW x \in Int, NEW y \in Int
    PROVE  (b * x <= b * y /\ b * y < b * x + b) <=> x = y
<1>1. CASE x < y
  BY <1>1, StrictlyMonotone
<1>2. CASE y < x
  <2>1. b * y + b <= b * x
    BY <1>2, StrictlyMonotone
  <2>2. QED
    BY <1>2, <2>1
<1>3. CASE x = y
  BY <1>3
<1>4. QED
  BY <1>1, <1>2, <1>3

(* The quotient of a multiple.                                             *)
LEMMA QuotientOfMultiple ==
    ASSUME NEW b \in Nat \ {0}, NEW x \in Int
    PROVE  (b * x) \div b = x
<1> DEFINE q == (b * x) \div b
           r == (b * x) % b
<1>1. b * x \in Int
  BY SMT
<1>2. q \in Int /\ r \in 0 .. b - 1 /\ b * x = b * q + r
  BY <1>1, Quotient
<1> HIDE DEF q, r
<1>3. b * q <= b * x /\ b * x < b * q + b
  BY <1>1, <1>2, SMT
<1>4. q = x
  BY <1>2, <1>3, SameMultiple
<1>5. QED
  BY <1>4 DEF q

(* The time stamp record() looks for is a multiple of the interval, and at *)
(* or after every multiple that is at or before the event.                 *)
LEMMA DownIsMultiple ==
    ASSUME NEW time \in Int, NEW m \in Int, Interval * m <= time
    PROVE  \E k \in Int : Down(time, Interval) = Interval * k /\ m <= k
<1> DEFINE k == time \div Interval
           r == time % Interval
<1>1. k \in Int /\ r \in 0 .. Interval - 1 /\ time = Interval * k + r
  BY StatCounterAssumption, Quotient
<1> HIDE DEF k, r
<1>2. Down(time, Interval) = Interval * k
  BY <1>1, StatCounterAssumption, SMT DEF Down, r
<1>3. ~(k < m)
  <2>1. SUFFICES ASSUME k < m PROVE FALSE
    OBVIOUS
  <2>2. Interval * k + Interval <= Interval * m
    BY <1>1, <2>1, StrictlyMonotone, StatCounterAssumption
  <2>3. Interval * k \in Int /\ Interval * m \in Int
    BY <1>1, StatCounterAssumption, SMT
  <2>4. QED
    BY <1>1, <2>2, <2>3, StatCounterAssumption
<1>4. QED
  BY <1>1, <1>2, <1>3

-----------------------------------------------------------------------------
(* The inductive invariant: an opened window is a run of consecutive       *)
(* multiples of the interval, and each bucket carries its own time.        *)

WindowType ==
    [1 .. WindowSize ->
        [time : Nat, bucket : [time : Nat, sum : Nat, count : Nat], writes : Nat]]

GridFrom(w, q) ==
    \A i \in 1 .. WindowSize :
        w[i].time = Interval * (q + i) /\ w[i].bucket.time = w[i].time

WindowOK(w) ==
    /\ w \in WindowType
    /\ w = NoWindow \/ \E q \in Nat : GridFrom(w, q)

WindowInv == WindowOK(window) /\ now \in Nat

(* The search on a run of intervals finds exactly the bucket of its time.  *)
LEMMA FindOnGrid ==
    ASSUME NEW w, NEW q \in Nat, GridFrom(w, q), NEW k \in Int
    PROVE  FindCollationIndex(w, Interval * k) =
               IF k - q \in 1 .. WindowSize THEN k - q ELSE WindowSize + 1
<1> DEFINE hits == {i \in 1 .. WindowSize : /\ w[i].time <= Interval * k
                                            /\ Interval * k < w[i].time + Interval}
<1>1. \A i \in 1 .. WindowSize : i \in hits <=> q + i = k
  <2>1. TAKE i \in 1 .. WindowSize
  <2>2. w[i].time = Interval * (q + i) /\ q + i \in Int
    BY StatCounterAssumption DEF GridFrom
  <2>3. (Interval * (q + i) <= Interval * k /\ Interval * k < Interval * (q + i) + Interval)
            <=> q + i = k
    BY <2>2, SameMultiple, StatCounterAssumption
  <2>4. QED
    BY <2>2, <2>3
<1>2. CASE k - q \in 1 .. WindowSize
  <2>1. hits = {k - q}
    BY <1>1, <1>2, StatCounterAssumption
  <2>2. (CHOOSE i \in hits : \A j \in hits : i <= j) = k - q
    BY <1>2, <2>1
  <2>3. QED
    BY <1>2, <2>1, <2>2 DEF FindCollationIndex
<1>3. CASE k - q \notin 1 .. WindowSize
  <2>1. hits = {}
    BY <1>1, <1>3, StatCounterAssumption
  <2>2. QED
    BY <1>3, <2>1 DEF FindCollationIndex
<1>4. QED
  BY <1>2, <1>3

(* A window that was never opened has no bucket of a later interval.       *)
LEMMA FindUnopened ==
    ASSUME NEW k \in Int, k > 0
    PROVE  FindCollationIndex(NoWindow, Interval * k) = WindowSize + 1
<1>1. Interval * 0 + Interval <= Interval * k
  BY StrictlyMonotone, StatCounterAssumption
<1>2. \A i \in 1 .. WindowSize : NoWindow[i].time = 0
  BY DEF NoWindow, CollationInfo
<1>3. Interval * k \in Int
  BY StatCounterAssumption, SMT
<1>4. {i \in 1 .. WindowSize : /\ NoWindow[i].time <= Interval * k
                               /\ Interval * k < NoWindow[i].time + Interval} = {}
  BY <1>1, <1>2, <1>3, StatCounterAssumption
<1>5. QED
  BY <1>4 DEF FindCollationIndex

(* Opened or not.                                                          *)
LEMMA GridOpened ==
    ASSUME NEW w, NEW q \in Nat, GridFrom(w, q)
    PROVE  /\ Opened(w)
           /\ w[1].time = Interval * (q + 1)
           /\ Top(w) = Interval * (q + WindowSize)
<1>1. 1 \in 1 .. WindowSize /\ WindowSize \in 1 .. WindowSize
  BY StatCounterAssumption
<1>2. w[1].time = Interval * (q + 1) /\ w[WindowSize].time = Interval * (q + WindowSize)
  BY <1>1 DEF GridFrom
<1>3. Interval * 0 + Interval <= Interval * (q + 1)
  BY StrictlyMonotone, StatCounterAssumption
<1>4. Interval * (q + 1) # 0
  BY <1>3, StatCounterAssumption
<1>5. QED
  BY <1>2, <1>4 DEF Opened, Top

(* The window of a counter without events is not open.                     *)
LEMMA NotOpened == ~Opened(NoWindow)
  BY StatCounterAssumption DEF Opened, NoWindow, CollationInfo

(* Opening a window at a late enough interval.                             *)
LEMMA OpenWindowGrid ==
    ASSUME NEW k \in Int, k >= WindowSize
    PROVE  /\ OpenWindow(Interval * k) \in WindowType
           /\ GridFrom(OpenWindow(Interval * k), k - WindowSize)
<1>1. ASSUME NEW i \in 1 .. WindowSize
      PROVE  /\ Interval * k - (WindowSize - i) * Interval = Interval * (k - WindowSize + i)
             /\ Interval * (k - WindowSize + i) \in Nat
  BY StatCounterAssumption, SMT
<1>2. \A i \in 1 .. WindowSize :
        OpenWindow(Interval * k)[i] = CollationInfo(Interval * (k - WindowSize + i))
  BY <1>1 DEF OpenWindow
<1>3. GridFrom(OpenWindow(Interval * k), k - WindowSize)
  <2>1. SUFFICES ASSUME NEW i \in 1 .. WindowSize
                 PROVE  /\ OpenWindow(Interval * k)[i].time = Interval * (k - WindowSize + i)
                        /\ OpenWindow(Interval * k)[i].bucket.time = OpenWindow(Interval * k)[i].time
    BY DEF GridFrom
  <2>2. OpenWindow(Interval * k)[i] = CollationInfo(Interval * (k - WindowSize + i))
    BY <1>2
  <2>3. QED
    BY <2>2 DEF CollationInfo
<1>4. \A i \in 1 .. WindowSize :
        CollationInfo(Interval * (k - WindowSize + i)) \in
            [time : Nat, bucket : [time : Nat, sum : Nat, count : Nat], writes : Nat]
  BY <1>1 DEF CollationInfo
<1>5. OpenWindow(Interval * k) \in WindowType
  BY <1>1, <1>4 DEF OpenWindow, WindowType
<1>6. QED
  BY <1>3, <1>5

(* Shifting moves the run of intervals, whatever was collected.            *)
LEMMA ShiftedGrid ==
    ASSUME NEW w \in WindowType, NEW q \in Nat, GridFrom(w, q), NEW n \in Nat
    PROVE  Shifted(w, n) \in WindowType /\ GridFrom(Shifted(w, n), q + n)
<1> DEFINE Info == [time : Nat, bucket : [time : Nat, sum : Nat, count : Nat], writes : Nat]
<1>1. ASSUME NEW i \in 1 .. WindowSize, i + n <= WindowSize
      PROVE  /\ w[i + n] \in Info
             /\ w[i + n].time = Interval * (q + n + i)
             /\ w[i + n].bucket.time = w[i + n].time
  <2>1. i + n \in 1 .. WindowSize /\ q + (i + n) = q + n + i
    BY <1>1, StatCounterAssumption
  <2>2. QED
    BY <2>1 DEF GridFrom, WindowType
<1>2. ASSUME NEW i \in 1 .. WindowSize, ~(i + n <= WindowSize)
      PROVE  /\ Top(w) + (i + n - WindowSize) * Interval = Interval * (q + n + i)
             /\ Interval * (q + n + i) \in Nat
    BY <1>2, GridOpened, StatCounterAssumption, SMT
<1> DEFINE s(i) == IF i + n <= WindowSize THEN w[i + n]
                   ELSE CollationInfo(Top(w) + (i + n - WindowSize) * Interval)
<1>3. ASSUME NEW i \in 1 .. WindowSize
      PROVE  s(i) \in Info /\ s(i).time = Interval * (q + n + i) /\ s(i).bucket.time = s(i).time
  <2>1. CASE i + n <= WindowSize
    BY <1>1, <2>1
  <2>2. CASE ~(i + n <= WindowSize)
    BY <1>2, <2>2 DEF CollationInfo
  <2>3. QED
    BY <2>1, <2>2
<1>4. Shifted(w, n) = [i \in 1 .. WindowSize |-> s(i)]
  BY DEF Shifted
<1> HIDE DEF s
<1>5. Shifted(w, n) \in WindowType
  BY <1>3, <1>4 DEF WindowType
<1>6. GridFrom(Shifted(w, n), q + n)
  BY <1>3, <1>4 DEF GridFrom
<1>7. QED
  BY <1>5, <1>6

(* How often a window is shifted is a natural number.                      *)
LEMMA ShiftCountType ==
    ASSUME NEW w \in WindowType, NEW t \in Int
    PROVE  ShiftCount(w, t) \in Nat
<1>1. Top(w) \in Nat
  BY StatCounterAssumption DEF Top, WindowType
<1>2. ASSUME t >= Top(w) + Interval
      PROVE  (t - Top(w)) \div Interval \in Nat
  <2> DEFINE k == (t - Top(w)) \div Interval
             r == (t - Top(w)) % Interval
  <2>0. t - Top(w) \in Int /\ Interval \in Nat \ {0}
    BY <1>1, StatCounterAssumption
  <2>1. k \in Int /\ r \in 0 .. Interval - 1 /\ t - Top(w) = Interval * k + r
    BY <2>0, Quotient
  <2> HIDE DEF k, r
  <2>2. ~(k < 0)
    <3>1. SUFFICES ASSUME k < 0 PROVE FALSE
      OBVIOUS
    <3>2. Interval * k + Interval <= Interval * 0
      BY <2>1, <3>1, StrictlyMonotone, StatCounterAssumption
    <3>3. Interval * k \in Int
      BY <2>1, StatCounterAssumption, SMT
    <3>4. QED
      BY <1>1, <1>2, <2>1, <3>2, <3>3, StatCounterAssumption
  <2>3. QED
    BY <2>1, <2>2 DEF k
<1>3. QED
  BY <1>2 DEF ShiftCount

(* Shifting keeps the invariant; an unopened window is never shifted.      *)
LEMMA ShiftedOK ==
    ASSUME NEW w, WindowOK(w), NEW t \in Int
    PROVE  WindowOK(Shifted(w, ShiftCount(w, t)))
<1>1. CASE w = NoWindow
  <2>1. ShiftCount(w, t) = 0
    BY <1>1, NotOpened DEF ShiftCount
  <2>2. Shifted(w, 0) = w
    BY <1>1, StatCounterAssumption DEF Shifted, NoWindow
  <2>3. QED
    BY <2>1, <2>2
<1>2. CASE \E q \in Nat : GridFrom(w, q)
  <2>1. PICK q \in Nat : GridFrom(w, q)
    BY <1>2
  <2>2. w \in WindowType /\ ShiftCount(w, t) \in Nat
    BY ShiftCountType DEF WindowOK
  <2>3. /\ Shifted(w, ShiftCount(w, t)) \in WindowType
        /\ GridFrom(Shifted(w, ShiftCount(w, t)), q + ShiftCount(w, t))
    BY <2>1, <2>2, ShiftedGrid
  <2>4. q + ShiftCount(w, t) \in Nat
    BY <2>2
  <2>5. QED
    BY <2>3, <2>4 DEF WindowOK
<1>3. QED
  BY <1>1, <1>2 DEF WindowOK

(* The window in which record() puts an accepted event, and its place.     *)
LEMMA RecordPlace ==
    ASSUME WindowOK(window), now \in Nat, NEW time \in EventTimes, Accepts(time)
    PROVE  LET t == Down(time, Interval)
               w == WindowFor(t)
               i == FindCollationIndex(w, t)
           IN  /\ w \in WindowType
               /\ \E q \in Nat : GridFrom(w, q)
               /\ i \in 1 .. WindowSize
               /\ w[i].time = t /\ w[i].bucket.time = t
<1> DEFINE t == Down(time, Interval)
           w == WindowFor(t)
           i == FindCollationIndex(w, t)
<1>1. time \in Int /\ Interval * WindowSize <= time
  <2>1. Interval * WindowSize <= Earliest
    BY StatCounterAssumption, SMT
  <2>2. PICK k \in Int : Down(Earliest, Interval) = Interval * k /\ WindowSize <= k
    <3>1. Earliest \in Int /\ WindowSize \in Int
      BY StatCounterAssumption
    <3>2. QED
      BY <2>1, <3>1, DownIsMultiple
  <2>3. Interval * WindowSize <= Interval * k /\ Interval * k \in Int
    BY <2>2, StrictlyMonotone, StatCounterAssumption, SMT
  <2>4. time \in Int /\ Interval * k <= time
    BY <2>2, <2>3, StatCounterAssumption DEF EventTimes
  <2>5. Interval * WindowSize \in Int
    BY StatCounterAssumption, SMT
  <2>6. QED
    BY <2>3, <2>4, <2>5
<1>2. SUFFICES /\ w \in WindowType
               /\ \E q, k \in Int : /\ q \in Nat /\ GridFrom(w, q)
                                    /\ t = Interval * k /\ k - q \in 1 .. WindowSize
  <2>1. PICK q \in Nat, k \in Int :
               GridFrom(w, q) /\ t = Interval * k /\ k - q \in 1 .. WindowSize
    BY <1>2
  <2>2. i = k - q
    BY <2>1, FindOnGrid
  <2>3. w[i].time = Interval * (q + i) /\ w[i].bucket.time = w[i].time
    BY <2>1, <2>2 DEF GridFrom
  <2>4. q + i = k
    BY <2>1, <2>2
  <2>5. QED
    BY <1>2, <2>1, <2>2, <2>3, <2>4
<1>3. CASE window = NoWindow
  <2>1. PICK k \in Int : t = Interval * k /\ WindowSize <= k
    <3>1. WindowSize \in Int
      BY StatCounterAssumption
    <3>2. QED
      BY <1>1, <3>1, DownIsMultiple
  <2>2. FindCollationIndex(window, t) = WindowSize + 1
    <3>1. k > 0
      BY <2>1, StatCounterAssumption
    <3>2. QED
      BY <1>3, <2>1, <3>1, FindUnopened
  <2>3. w = OpenWindow(Interval * k)
    BY <1>3, <2>1, <2>2, NotOpened, StatCounterAssumption DEF WindowFor
  <2>4. w \in WindowType /\ GridFrom(w, k - WindowSize)
    BY <2>1, <2>3, OpenWindowGrid
  <2>5. k - WindowSize \in Nat /\ k - (k - WindowSize) \in 1 .. WindowSize
    BY <2>1, StatCounterAssumption
  <2>6. QED
    BY <2>1, <2>4, <2>5
<1>4. CASE \E q \in Nat : GridFrom(window, q)
  <2>1. PICK q \in Nat : GridFrom(window, q)
    BY <1>4
  <2>2. window \in WindowType /\ Interval * (q + 1) <= time
    BY <2>1, GridOpened DEF WindowOK, Accepts
  <2>3. PICK k \in Int : t = Interval * k /\ q + 1 <= k
    BY <1>1, <2>2, DownIsMultiple
  <2>4. CASE k - q \in 1 .. WindowSize
    <3>1. FindCollationIndex(window, t) = k - q
      BY <2>1, <2>3, <2>4, FindOnGrid
    <3>2. w = window
      BY <2>4, <3>1, StatCounterAssumption DEF WindowFor
    <3>3. QED
      BY <2>1, <2>2, <2>3, <2>4, <3>2
  <2>5. CASE k - q > WindowSize
    <3> DEFINE n == k - q - WindowSize
    <3>1. n \in Nat /\ n > 0 /\ k = q + WindowSize + n
      BY <2>5, StatCounterAssumption
    <3>2. FindCollationIndex(window, t) = WindowSize + 1
      BY <2>1, <2>3, <2>5, FindOnGrid, StatCounterAssumption
    <3>3. t - Top(window) = Interval * n
      BY <2>1, <2>3, <3>1, GridOpened, StatCounterAssumption, SMT
    <3>4. t >= Top(window) + Interval
      <4>1. Interval * (q + WindowSize) + Interval <= Interval * k
        BY <3>1, StrictlyMonotone, StatCounterAssumption
      <4>2. QED
        BY <2>1, <2>3, <4>1, GridOpened
    <3>5. ShiftCount(window, t) = n
      <4>1. (Interval * n) \div Interval = n
        BY <3>1, QuotientOfMultiple, StatCounterAssumption
      <4>2. QED
        BY <2>1, <3>3, <3>4, <4>1, GridOpened DEF ShiftCount
    <3>6. w = Shifted(window, n)
      BY <2>1, <3>2, <3>5, GridOpened, StatCounterAssumption DEF WindowFor
    <3>7. w \in WindowType /\ GridFrom(w, q + n)
      BY <2>1, <2>2, <3>1, <3>6, ShiftedGrid
    <3>8. q + n \in Nat /\ k - (q + n) \in 1 .. WindowSize
      BY <3>1, StatCounterAssumption
    <3>9. QED
      BY <2>3, <3>7, <3>8
  <2>6. QED
    BY <2>3, <2>4, <2>5, StatCounterAssumption
<1>5. QED
  BY <1>3, <1>4 DEF WindowOK

-----------------------------------------------------------------------------
(* The clock and the window satisfy the invariant at first.                *)
LEMMA InitWindowInv == Init => WindowInv
<1>1. SUFFICES ASSUME Init PROVE WindowInv
  OBVIOUS
<1>2. NoWindow \in WindowType
  BY DEF NoWindow, WindowType, CollationInfo
<1>3. QED
  BY <1>1, <1>2, StatCounterAssumption DEF Init, WindowInv, WindowOK

(* record() keeps it: the bucket it updates is the one of the event.       *)
LEMMA RecordKeepsWindow ==
    ASSUME WindowInv, NEW time \in EventTimes, Record(time, 1)
    PROVE  WindowInv'
<1> DEFINE t == Down(time, Interval)
           w == WindowFor(t)
           i == FindCollationIndex(w, t)
           b == CollatedUpdate(w[i].bucket, 1, t)
           k == w[i].writes + 1
<1>1. /\ w \in WindowType
      /\ \E q \in Nat : GridFrom(w, q)
      /\ i \in 1 .. WindowSize
      /\ w[i].time = t /\ w[i].bucket.time = t
  BY RecordPlace DEF Record, WindowInv
<1>2. /\ window' = [w EXCEPT ![i] = [time |-> w[i].time, bucket |-> b, writes |-> k]]
      /\ now' = now
  BY DEF Record
<1> HIDE DEF t, w, i
<1>3. /\ b \in [time : Nat, sum : Nat, count : Nat] /\ b.time = t
      /\ k \in Nat /\ w[i].time \in Nat
  BY <1>1 DEF CollatedUpdate, WindowType
<1> HIDE DEF b, k
<1>4. window' \in WindowType
  BY <1>1, <1>2, <1>3 DEF WindowType
<1>5. \E q \in Nat : GridFrom(window', q)
  <2>1. PICK q \in Nat : GridFrom(w, q)
    BY <1>1
  <2>2. GridFrom(window', q)
    BY <1>1, <1>2, <1>3, <2>1 DEF GridFrom, WindowType
  <2>3. QED
    BY <2>2
<1>6. QED
  BY <1>2, <1>4, <1>5 DEF WindowInv, WindowOK

(* Every other handler shifts the window, forgets it or leaves it alone.   *)
LEMMA NextKeepsWindow == WindowInv /\ [Next]_vars => WindowInv'
<1> SUFFICES ASSUME WindowInv, [Next]_vars PROVE WindowInv'
  OBVIOUS
<1>1. window \in WindowType /\ Top(window) \in Int /\ now \in Nat
  BY StatCounterAssumption DEF WindowInv, WindowOK, WindowType, Top
<1>2. CASE \E time \in EventTimes : Record(time, 1)
  BY <1>2, RecordKeepsWindow
<1>3. CASE Flush
  <2>1. now + Interval * (WindowSize \div 2) \in Int
    BY <1>1, Quotient, StatCounterAssumption, SMT
  <2>2. WindowOK(Shifted(window, FlushCount(window)))
    BY <2>1, ShiftedOK DEF FlushCount, WindowInv
  <2>3. QED
    BY <1>1, <1>3, <2>2 DEF Flush, ShiftBy, WindowInv
<1>4. CASE Reopen
  <2>1. WindowInv' <=> WindowOK(NoWindow) /\ now \in Nat
    BY <1>4 DEF Reopen, WindowInv
  <2>2. NoWindow \in WindowType
    BY DEF NoWindow, WindowType, CollationInfo
  <2>3. QED
    BY <1>1, <2>1, <2>2 DEF WindowOK
<1>5. CASE Tick
  BY <1>1, <1>5 DEF Tick, WindowInv
<1>6. CASE WriteFine \/ WriteCoarse \/ UNCHANGED vars
  BY <1>6 DEF WriteFine, WriteCoarse, vars, WindowInv
<1>7. CASE ForceFlush
  <2> DEFINE a == FullyCount(window)
             b == FlushCount(Shifted(window, a))
  <2>1. PICK q \in Nat : GridFrom(window, q)
    BY <1>7, NotOpened DEF ForceFlush, WindowInv, WindowOK
  <2>2. a \in Nat
    <3>1. Top(window) + Interval * WindowSize \in Int
      BY <1>1, StatCounterAssumption, SMT
    <3>2. QED
      BY <1>1, <3>1, ShiftCountType DEF FullyCount
  <2>3. Shifted(window, a) \in WindowType
    BY <1>1, <2>1, <2>2, ShiftedGrid
  <2>4. b \in Nat
    <3>1. now + Interval * (WindowSize \div 2) \in Int
      BY <1>1, Quotient, StatCounterAssumption, SMT
    <3>2. QED
      BY <2>3, <3>1, ShiftCountType DEF FlushCount
  <2>5. window' = Shifted(window, a + b) /\ now' = now
    BY <1>7 DEF ForceFlush, ShiftBy
  <2> HIDE DEF a, b
  <2>6. a + b \in Nat /\ q + (a + b) \in Nat
    BY <2>2, <2>4
  <2>7. Shifted(window, a + b) \in WindowType /\ GridFrom(Shifted(window, a + b), q + (a + b))
    BY <1>1, <2>1, <2>6, ShiftedGrid
  <2>8. QED
    BY <1>1, <2>5, <2>6, <2>7 DEF WindowInv, WindowOK
<1>8. QED
  BY <1>2, <1>3, <1>4, <1>5, <1>6, <1>7 DEF Next

(* For any window size, interval and order of events, flushes and restarts *)
(* the second findCollationIndex() in record() (StatCounter.cpp:229) finds *)
(* the bucket of exactly the event's interval: collations_[i] is never     *)
(* accessed outside the window and no event is counted in another one.     *)
THEOREM RecordsLand == Spec => []RecordLandsInWindow
<1>1. Init => WindowInv
  BY InitWindowInv
<1>2. WindowInv /\ [Next]_vars => WindowInv'
  BY NextKeepsWindow
<1>3. WindowInv => RecordLandsInWindow
  <2>1. SUFFICES ASSUME WindowInv, NEW time \in EventTimes, Accepts(time)
                 PROVE  LET t == Down(time, Interval)
                            w == WindowFor(t)
                            i == FindCollationIndex(w, t)
                        IN  i <= WindowSize /\ w[i].time = t /\ w[i].bucket.time = t
    BY DEF RecordLandsInWindow
  <2>2. LET t == Down(time, Interval)
            w == WindowFor(t)
            i == FindCollationIndex(w, t)
        IN  i \in 1 .. WindowSize /\ w[i].time = t /\ w[i].bucket.time = t
    BY <2>1, RecordPlace DEF WindowInv
  <2>3. QED
    BY <2>2, StatCounterAssumption
<1>4. QED
  BY <1>1, <1>2, <1>3, PTL DEF Spec

(* The buckets of an opened window are consecutive intervals from the      *)
(* multiple after q on, so two collations never have the same time and     *)
(* shiftCollated() skips none.                                             *)
WindowConsecutive ==
    window = NoWindow \/ \E q \in Nat : GridFrom(window, q)

(* shiftCollated(), record(), flush() and forceFlush() keep collations_    *)
(* consecutive, whatever their order.                                      *)
THEOREM WindowStaysConsecutive == Spec => []WindowConsecutive
<1>1. Init => WindowInv
  BY InitWindowInv
<1>2. WindowInv /\ [Next]_vars => WindowInv'
  BY NextKeepsWindow
<1>3. WindowInv => WindowConsecutive
  BY DEF WindowInv, WindowOK, WindowConsecutive
<1>4. QED
  BY <1>1, <1>2, <1>3, PTL DEF Spec

=============================================================================
