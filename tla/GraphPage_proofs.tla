-------------------------- MODULE GraphPage_proofs --------------------------
(***************************************************************************)
(* For any counters, surfaces, dates and dashboards: what the page's       *)
(* Loader sends covers who waits for it, a graph at rest holds the data of *)
(* its present series and dates, and the screen shows it.                  *)
(***************************************************************************)
EXTENDS GraphPage, WellFoundedInduction, TLAPS

-----------------------------------------------------------------------------
(* Loops.                                                                  *)

(* Induction over the naturals, for a set.                                 *)
LEMMA SetInduction ==
    ASSUME NEW S, 0 \in S, \A n \in Nat : n \in S => n + 1 \in S
    PROVE  Nat \subseteq S
<1> DEFINE R == OpToRel(<, Nat)
           T == Nat \ S
<1>1. IsWellFoundedOn(R, Nat)
  BY NatLessThanWellFounded DEF OpToRel
<1>2. \A x, y \in Nat : x < y => <<x, y>> \in R
  BY DEF OpToRel
<1> HIDE DEF R
<1>3. SUFFICES ASSUME T # {} PROVE FALSE
  OBVIOUS
<1>4. PICK x \in T : \A y \in T : ~ (<<y, x>> \in R)
  BY <1>1, <1>3, WFMin, Zenon
<1>5. x \in Nat /\ x # 0 /\ x - 1 \in Nat /\ x - 1 < x /\ (x - 1) + 1 = x
  BY <1>4
<1>6. x - 1 \in T
  BY <1>4, <1>5, Zenon
<1>7. QED
  BY <1>2, <1>4, <1>5, <1>6, Zenon

(* A run of n rounds of a loop, round k of which has the body step[k].     *)
IsRun(f, X, x0, step, n) ==
    /\ f \in [0 .. n -> X] /\ f[0] = x0
    /\ \A k \in 1 .. n : f[k] = step[k][f[k - 1]]

(* A loop whose body stays in a set X has a run of every length.           *)
LEMMA LoopRuns ==
    ASSUME NEW X, NEW x0 \in X, NEW step \in [Nat -> [X -> X]], NEW n \in Nat
    PROVE  \E f : IsRun(f, X, x0, step, n)
<1> DEFINE Run(f, m) == f[0] = x0 /\ \A k \in 1 .. m : f[k] = step[k][f[k - 1]]
           S == {m \in Nat : \E f \in [0 .. m -> X] : Run(f, m)}
<1>1. 0 \in S
  <2>1. [k \in 0 .. 0 |-> x0] \in [0 .. 0 -> X] /\ Run([k \in 0 .. 0 |-> x0], 0)
    OBVIOUS
  <2>2. QED
    BY <2>1, Zenon
<1>2. ASSUME NEW m \in Nat, m \in S PROVE m + 1 \in S
  <2>1. PICK f \in [0 .. m -> X] : Run(f, m)
    BY <1>2, Zenon
  <2>2. f[m] \in X /\ step[m + 1][f[m]] \in X
    <3>1. f[m] \in X
      OBVIOUS
    <3>2. step[m + 1] \in [X -> X]
      OBVIOUS
    <3>3. QED
      BY <3>1, <3>2, Zenon
  <2>3. PICK y \in X : y = step[m + 1][f[m]]
    BY <2>2
  <2>4. PICK g \in [0 .. m + 1 -> X] : (\A k \in 0 .. m : g[k] = f[k]) /\ g[m + 1] = y
    <3> DEFINE g == [k \in 0 .. m + 1 |-> IF k <= m THEN f[k] ELSE y]
    <3>1. \A k \in 0 .. m + 1 : k <= m => k \in 0 .. m
      OBVIOUS
    <3>2. g \in [0 .. m + 1 -> X]
      BY <3>1, Zenon
    <3>3. \A k \in 0 .. m : k \in 0 .. m + 1 /\ k <= m
      OBVIOUS
    <3>4. m + 1 \in 0 .. m + 1 /\ ~ (m + 1 <= m)
      OBVIOUS
    <3>5. QED
      BY <3>2, <3>3, <3>4, Zenon
  <2>5. g[m + 1] = step[m + 1][g[m]]
    <3>1. m \in 0 .. m
      OBVIOUS
    <3>2. QED
      BY <2>3, <2>4, <3>1, Zenon
  <2>6. ASSUME NEW k \in 1 .. m + 1 PROVE g[k] = step[k][g[k - 1]]
    <3>1. CASE k = m + 1
      <4>1. k - 1 = m
        BY <3>1
      <4>2. QED
        BY <2>5, <3>1, <4>1, Zenon
    <3>2. CASE k # m + 1
      <4>1. k \in 1 .. m /\ k \in 0 .. m /\ k - 1 \in 0 .. m
        BY <3>2
      <4>2. QED
        BY <2>1, <2>4, <4>1, Zenon
    <3>3. QED
      BY <3>1, <3>2, Zenon
  <2>7. Run(g, m + 1)
    <3>1. 0 \in 0 .. m
      OBVIOUS
    <3>2. QED
      BY <2>1, <2>4, <2>6, <3>1, Zenon
  <2>8. m + 1 \in Nat
    OBVIOUS
  <2>9. QED
    BY <2>7, <2>8, Zenon
<1>3. Nat \subseteq S
  <2> HIDE DEF S
  <2>1. QED
    BY <1>1, <1>2, SetInduction, Zenon
<1>4. n \in S
  BY <1>3
<1>5. QED
  BY <1>4 DEF IsRun

-----------------------------------------------------------------------------
(* The inductive invariant.                                                *)

(* A get that is asked for has a counter: a graph on the page has a        *)
(* series.                                                                 *)
Series == (SUBSET Counters) \ {{}}
Queues == [Surfaces -> Seq(Series)]

LoaderType ==
    /\ getting \subseteq Counters /\ cbObjs \in Queues
    /\ xhr = NoXhr \/ xhr \in [keys : SUBSET Counters, dates : Dates, cbs : Queues]
    /\ nextEvent \in BOOLEAN /\ refused \in BOOLEAN

Distinct(g) == \A i, j \in DOMAIN g : g[i] = g[j] => i = j

PageType ==
    /\ time \in TimeStates /\ now \in Int
    /\ grid \in Seq(Surfaces) /\ Distinct(grid) /\ selected \in Surfaces \cup {0}
    /\ series \in [Surfaces -> SUBSET Counters] /\ \A s \in Open : series[s] # {}
    /\ data \in [Surfaces -> Data] /\ drawn \in [Surfaces -> Data]
    /\ window \in [Surfaces -> Dates \cup {NoData}]

(* The last of the gets of s in cbs asks for keys. *)
Ends(cbs, s, keys) == cbs[s] # <<>> /\ Latest(cbs, s) = keys

(* A graph has asked for its series and the get waits, or it is in the     *)
(* request under way, sent for the present dates, or was answered.         *)
Due(s) ==
    \/ Ends(cbObjs, s, series[s])
    \/ /\ cbObjs[s] = <<>>
       /\ xhr # NoXhr /\ Ends(xhr.cbs, s, series[s]) /\ xhr.dates = time.current
    \/ /\ cbObjs[s] = <<>>
       /\ xhr # NoXhr => xhr.cbs[s] = <<>>
       /\ data[s] = [keys |-> series[s], dates |-> time.current]

DueInv == \A s \in Open \ failed : Due(s)

DrawnInv ==
    /\ \A s \in Surfaces : data[s] = NoData => drawn[s] = NoData
    /\ \A s \in Open \ missed : s \in paints \cup repaints \/ drawn[s] = data[s]

Inv == LoaderType /\ PageType /\ GetsCovered /\ DueInv /\ DrawnInv

-----------------------------------------------------------------------------
(* Queues of gets.                                                         *)

LEMMA ElementsOf ==
    \A g \in Seq(Surfaces) : {g[i] : i \in DOMAIN g} \subseteq Surfaces
  OBVIOUS

LEMMA NoElements ==
    \A g : g = <<>> => {g[i] : i \in DOMAIN g} = {}
  OBVIOUS

LEMMA NoGetsType == NoGets \in Queues /\ Waiting(NoGets) = {} /\ KeysOf(NoGets) = {}
<1>1. NoGets \in Queues /\ \A s \in Surfaces : NoGets[s] = <<>>
  BY DEF NoGets, Queues
<1>2. QED
  BY <1>1 DEF Waiting, KeysOf

LEMMA LatestType ==
    ASSUME NEW cbs \in Queues, NEW s \in Surfaces, cbs[s] # <<>>
    PROVE  Latest(cbs, s) \in Series
<1>1. PICK c \in Seq(Series) : c = cbs[s] /\ c # <<>>
  BY DEF Queues
<1>2. c[Len(c)] \in Series
  BY <1>1
<1>3. QED
  BY <1>1, <1>2, Zenon DEF Latest

LEMMA KeysAreCounters ==
    ASSUME NEW cbs \in Queues
    PROVE  KeysOf(cbs) \subseteq Counters
<1>1. \A s \in Surfaces : cbs[s] \in Seq(Series)
  BY DEF Queues
<1>2. \A s \in Surfaces : \A i \in DOMAIN cbs[s] : cbs[s][i] \in Series
  BY <1>1
<1>3. QED
  BY <1>2 DEF KeysOf, Series

(* The last get of each graph is that of the second queue, if it has one.  *)
LEMMA ThenJoins ==
    ASSUME NEW a \in Queues, NEW b \in Queues
    PROVE  /\ Then(a, b) \in Queues
           /\ KeysOf(Then(a, b)) = KeysOf(a) \cup KeysOf(b)
           /\ \A s \in Surfaces : b[s] = <<>> => Then(a, b)[s] = a[s]
           /\ \A s \in Surfaces : \A keys : Ends(b, s, keys) => Ends(Then(a, b), s, keys)
<1> DEFINE c == Then(a, b)
           Has(q, k) == \E i \in DOMAIN q : k \in q[i]
<1>1. ASSUME NEW s \in Surfaces
      PROVE  /\ c[s] \in Seq(Series) /\ (b[s] = <<>> => c[s] = a[s])
             /\ b[s] # <<>> => c[s] # <<>> /\ c[s][Len(c[s])] = b[s][Len(b[s])]
             /\ \A k : Has(c[s], k) <=> Has(a[s], k) \/ Has(b[s], k)
  <2>1. PICK p \in Seq(Series), q \in Seq(Series) : p = a[s] /\ q = b[s] /\ c[s] = p \o q
    BY Zenon DEF Queues, Then
  <2>2. /\ p \o q \in Seq(Series) /\ (q = <<>> => p \o q = p)
        /\ q # <<>> => p \o q # <<>> /\ (p \o q)[Len(p \o q)] = q[Len(q)]
    OBVIOUS
  <2>3. /\ \A i \in DOMAIN p : i \in DOMAIN (p \o q) /\ (p \o q)[i] = p[i]
        /\ \A i \in DOMAIN q : i + Len(p) \in DOMAIN (p \o q) /\ (p \o q)[i + Len(p)] = q[i]
        /\ \A i \in DOMAIN (p \o q) : \/ i \in DOMAIN p /\ (p \o q)[i] = p[i]
                                      \/ i - Len(p) \in DOMAIN q /\ (p \o q)[i] = q[i - Len(p)]
    OBVIOUS
  <2>4. ASSUME NEW k PROVE Has(p \o q, k) <=> Has(p, k) \/ Has(q, k)
    BY <2>3, Zenon
  <2> HIDE DEF Has
  <2>5. QED
    BY <2>1, <2>2, <2>4, Zenon
<1>2. c \in Queues
  BY <1>1, Zenon DEF Queues, Then
<1> HIDE DEF c
<1>3. KeysOf(c) = KeysOf(a) \cup KeysOf(b)
  <2>1. \A q, k : k \in KeysOf(q) <=> \E s \in Surfaces : Has(q[s], k)
    BY DEF KeysOf
  <2> HIDE DEF Has
  <2>2. \A k : k \in KeysOf(c) <=> k \in KeysOf(a) \/ k \in KeysOf(b)
    BY <1>1, <2>1, ZenonT(30)
  <2>3. QED
    BY <2>2, Zenon
<1>4. QED
  BY <1>1, <1>2, <1>3, Zenon DEF Ends, Latest, c

(* Each of some graphs asks for its series.                                *)
LEMMA GetsType ==
    ASSUME NEW surfaces, NEW ser, \A s \in Surfaces : s \in surfaces => ser[s] \in Series
    PROVE  /\ Gets(surfaces, ser) \in Queues
           /\ \A s \in Surfaces : s \notin surfaces => Gets(surfaces, ser)[s] = <<>>
           /\ \A s \in Surfaces : s \in surfaces => Ends(Gets(surfaces, ser), s, ser[s])
<1>1. \A k \in Series : <<k>> \in Seq(Series) /\ <<k>> # <<>> /\ <<k>>[Len(<<k>>)] = k
  OBVIOUS
<1>2. <<>> \in Seq(Series)
  OBVIOUS
<1>3. QED
  BY <1>1, <1>2 DEF Gets, Queues, Ends, Latest

(* A toggle leaves a series.                                               *)
LEMMA ToggledKeeps ==
    ASSUME NEW ser \in SUBSET Counters, NEW path \in Counters
    PROVE  Toggled(ser, path) \in Series
BY DEF Toggled, Series

(* The series of a new graph.                                              *)
LEMMA SeriesAfterType ==
    ASSUME NEW paths \in Seq(Counters)
    PROVE  \A k \in 1 .. Len(paths) : SeriesAfter(paths)[k] \in Series
<1> DEFINE n == Len(paths)
           X == SUBSET Counters
           Is(f) == f = [k \in 0 .. n |-> IF k = 0 THEN {} ELSE Toggled(f[k - 1], paths[k])]
           g == CHOOSE f : Is(f)
<1>1. n \in Nat /\ \A k \in 1 .. n : paths[k] \in Counters
  OBVIOUS
<1>2. \E f : Is(f)
  <2> DEFINE step == [k \in Nat |-> [x \in X |-> IF k \in 1 .. n THEN Toggled(x, paths[k]) ELSE {}]]
  <2>1. step \in [Nat -> [X -> X]]
    BY <1>1, ToggledKeeps DEF Series
  <2>2. ASSUME NEW x \in X, NEW k \in 1 .. n PROVE step[k][x] = Toggled(x, paths[k])
    BY <1>1
  <2> HIDE DEF step, X, n
  <2>3. {} \in X
    BY DEF X
  <2>4. PICK f \in [0 .. n -> X] : f[0] = {} /\ \A k \in 1 .. n : f[k] = step[k][f[k - 1]]
    <3>1. n \in Nat
      BY <1>1
    <3>2. \E f : IsRun(f, X, {}, step, n)
      BY <2>1, <2>3, <3>1, LoopRuns, Zenon
    <3>3. QED
      BY <3>2, Zenon DEF IsRun
  <2>5. ASSUME NEW k \in 0 .. n PROVE f[k] = IF k = 0 THEN {} ELSE Toggled(f[k - 1], paths[k])
    <3>1. CASE k = 0
      BY <2>4, <3>1, Zenon
    <3>2. CASE k # 0
      <4>1. k \in 1 .. n /\ k - 1 \in 0 .. n
        BY <1>1, <3>2
      <4>2. QED
        BY <2>2, <2>4, <3>2, <4>1, Zenon
    <3>3. QED
      BY <3>1, <3>2, Zenon
  <2>6. Is(f)
    BY <2>5, Zenon
  <2>7. QED
    BY <2>6, Zenon
<1>3. Is(g)
  <2> HIDE DEF Is
  <2>1. QED
    BY <1>2
<1>4. SeriesAfter(paths) = g
  BY Zenon DEF SeriesAfter
<1> HIDE DEF g
<1>5. g[0] = {} /\ \A k \in 1 .. n : g[k] = Toggled(g[k - 1], paths[k])
  <2>1. g[0] = {}
    BY <1>1, <1>3
  <2>2. ASSUME NEW k \in 1 .. n PROVE g[k] = Toggled(g[k - 1], paths[k])
    <3>1. k \in 0 .. n /\ k # 0
      BY <1>1
    <3>2. QED
      BY <1>3, <3>1, Zenon
  <2>3. QED
    BY <2>1, <2>2, Zenon
<1> DEFINE S == {k \in Nat : k <= n => g[k] \in X /\ (k # 0 => g[k] # {})}
<1>6. 0 \in S
  BY <1>5, Zenon
<1>7. ASSUME NEW k \in Nat, k \in S PROVE k + 1 \in S
  <2>1. SUFFICES ASSUME k + 1 <= n PROVE g[k + 1] \in X \ {{}}
    OBVIOUS
  <2>2. k <= n /\ k + 1 \in 1 .. n /\ (k + 1) - 1 = k
    BY <1>1, <2>1
  <2>3. g[k + 1] = Toggled(g[k], paths[k + 1])
    BY <1>5, <2>2, Zenon
  <2>4. g[k] \in X /\ paths[k + 1] \in Counters
    BY <1>1, <1>7, <2>2, Zenon
  <2>5. QED
    BY <2>3, <2>4, ToggledKeeps, Zenon DEF Series
<1>8. Nat \subseteq S
  <2> HIDE DEF S
  <2>1. QED
    BY <1>6, <1>7, SetInduction, Zenon
<1>9. QED
  BY <1>1, <1>4, <1>8 DEF Series

-----------------------------------------------------------------------------
(* The dates.                                                              *)

LEMMA DatesType ==
    ASSUME NEW t \in TimeStates, NEW at \in Int
    PROVE  /\ t.original \in Dates /\ t.current \in Dates /\ Span(t.current) \in Int
           /\ restoreOriginalInterval(t) \in TimeStates
           /\ refresh(t, at) \in TimeStates /\ (t.hidden => refresh(t, at) = t)
           /\ \A d \in Dates : [t EXCEPT !.current = d] \in TimeStates
           /\ \A d \in Dates : [t EXCEPT !.original = d] \in TimeStates
           /\ \A i \in Int : [t EXCEPT !.original.start = t.original.stop - i] \in TimeStates
<1>1. t.original \in Dates /\ t.current \in Dates /\ Span(t.current) \in Int
  BY DEF TimeStates, Dates, Span
<1>2. \A d \in Dates : [t EXCEPT !.current = d] \in TimeStates /\ [t EXCEPT !.original = d] \in TimeStates
  BY DEF TimeStates
<1>3. restoreOriginalInterval(t) \in TimeStates
  BY <1>1, <1>2, Zenon DEF restoreOriginalInterval
<1>4. refresh(t, at) \in TimeStates
  <2>1. [start |-> at - Span(t.current), stop |-> at] \in Dates
    BY <1>1 DEF Dates
  <2>2. QED
    BY <1>2, <2>1, Zenon DEF refresh
<1>5. t.hidden => refresh(t, at) = t
  BY DEF refresh
<1>6. ASSUME NEW i \in Int PROVE [t EXCEPT !.original.start = t.original.stop - i] \in TimeStates
  <2>1. [t.original EXCEPT !.start = t.original.stop - i] \in Dates
    BY <1>1 DEF Dates
  <2>2. [t EXCEPT !.original.start = t.original.stop - i]
          = [t EXCEPT !.original = [t.original EXCEPT !.start = t.original.stop - i]]
    BY Zenon DEF TimeStates
  <2>3. QED
    BY <1>2, <2>1, <2>2, Zenon
<1>7. QED
  BY <1>1, <1>2, <1>3, <1>4, <1>5, <1>6, Zenon

(* What the handlers do to the dates.                                      *)
LEMMA HandlersKeepDates ==
    ASSUME NEW t \in TimeStates, NEW at \in Int
    PROVE  /\ zoomOutIntervals(t, at) \in TimeStates
           /\ \A d \in Dates : zoomCallback(t, d, at) \in TimeStates
           /\ \A d \in Dates : resetDateRange(t, d) \in TimeStates
           /\ \A i \in Int : set_interval(t, i, at) \in TimeStates
<1>1. zoomOutIntervals(t, at) \in TimeStates
  BY DatesType, Zenon DEF zoomOutIntervals
<1>2. \A d \in Dates : zoomCallback(t, d, at) \in TimeStates
  BY DatesType, Zenon DEF zoomCallback
<1>3. ASSUME NEW d \in Dates PROVE resetDateRange(t, d) \in TimeStates
  <2>1. PICK u \in TimeStates : u = restoreOriginalInterval([t EXCEPT !.original = d])
    BY DatesType, Zenon
  <2>2. [u EXCEPT !.manual = TRUE, !.auto = FALSE] \in TimeStates
    BY <2>1, Zenon DEF TimeStates
  <2>3. QED
    BY <2>1, <2>2, Zenon DEF resetDateRange
<1>4. \A i \in Int : set_interval(t, i, at) \in TimeStates
  BY DatesType, Zenon DEF set_interval
<1>5. QED
  BY <1>1, <1>2, <1>3, <1>4, Zenon

(* The slider, and a dashboard.  The same index leaves the dates.          *)
LEMMA SliderKeepsDates ==
    ASSUME NEW t \in TimeStates, NEW at \in Int, NEW index \in Indexes
    PROVE  /\ setIndex(t, index, at) \in TimeStates
           /\ index = t.index => setIndex(t, index, at).current = t.current
<1>1. Markers[index] \in Int
  BY MarkersAssumption DEF Indexes
<1>2. PICK moved \in TimeStates : moved = [t EXCEPT !.manual = FALSE] /\ moved.current = t.current
  <2>1. [t EXCEPT !.manual = FALSE] \in TimeStates
    BY Zenon DEF TimeStates
  <2>2. [t EXCEPT !.manual = FALSE].current = t.current
    BY Zenon DEF TimeStates
  <2>3. QED
    BY <2>1, <2>2, Zenon
<1>3. PICK u \in TimeStates :
          u = (IF index # t.index THEN set_interval(moved, Markers[index], at) ELSE moved)
  BY <1>1, HandlersKeepDates, Zenon
<1>4. setIndex(t, index, at) = [u EXCEPT !.index = index]
  BY <1>2, <1>3, Zenon DEF setIndex
<1>5. [u EXCEPT !.index = index] \in TimeStates /\ [u EXCEPT !.index = index].current = u.current
  BY Zenon DEF TimeStates
<1>6. QED
  BY <1>2, <1>3, <1>4, <1>5, Zenon

LEMMA DashboardKeepsDates ==
    ASSUME NEW t \in TimeStates, NEW at \in Int, NEW interval \in Nat,
           NEW slider \in Indexes \cup {0}, NEW auto \in BOOLEAN
    PROVE  OpenDates(t, interval, slider, auto, at) \in TimeStates
<1>1. PICK opened \in TimeStates :
          opened = restoreOriginalInterval([t EXCEPT !.original.start = t.original.stop - interval])
  <2>1. interval \in Int
    OBVIOUS
  <2>2. QED
    BY <2>1, DatesType, Zenon
<1>2. [opened EXCEPT !.manual = TRUE] \in TimeStates
  BY Zenon DEF TimeStates
<1>3. slider # 0 => setIndex(opened, slider, at) \in TimeStates
  BY SliderKeepsDates, Zenon
<1>4. PICK u \in TimeStates :
          u = (IF slider = 0 THEN [opened EXCEPT !.manual = TRUE] ELSE setIndex(opened, slider, at))
  BY <1>2, <1>3, Zenon
<1>5. [u EXCEPT !.auto = auto] \in TimeStates
  BY Zenon DEF TimeStates
<1>6. QED
  BY <1>1, <1>4, <1>5, Zenon DEF OpenDates

-----------------------------------------------------------------------------
(* The graphs on the page.                                                 *)

(* arrayRemove takes out the one place the graph has.                      *)
LEMMA RemoveKeeps ==
    ASSUME NEW g \in Seq(Surfaces), Distinct(g), NEW s, NEW l \in DOMAIN g, g[l] = s
    PROVE  /\ arrayRemove(g, s) \in Seq(Surfaces) /\ Distinct(arrayRemove(g, s))
           /\ \A i \in DOMAIN arrayRemove(g, s) :
                  arrayRemove(g, s)[i] # s /\ \E j \in DOMAIN g : arrayRemove(g, s)[i] = g[j]
<1> DEFINE First(i) == g[i] = s /\ \A j \in 1 .. i - 1 : g[j] # s
           k == CHOOSE i \in DOMAIN g : First(i)
           n == Len(g)
           h == [i \in 1 .. n - 1 |-> IF i < k THEN g[i] ELSE g[i + 1]]
<1>1. n \in Nat /\ DOMAIN g = 1 .. n /\ \A i \in 1 .. n : g[i] \in Surfaces
  OBVIOUS
<1>3. First(l)
  BY <1>1 DEF Distinct
<1>4. k \in DOMAIN g /\ First(k)
  BY <1>3, Zenon
<1>5. arrayRemove(g, s) = h
  BY Zenon DEF arrayRemove
<1> HIDE DEF k, n
<1>6. /\ k \in 1 .. n /\ n - 1 \in Nat
  BY <1>1, <1>4
<1>7. ASSUME NEW i \in 1 .. n - 1
      PROVE  /\ i < k => i \in 1 .. n
             /\ ~ (i < k) => i + 1 \in 1 .. n /\ i + 1 # k
  BY <1>1, <1>6
<1>8. \A i \in 1 .. n - 1 : h[i] \in Surfaces /\ h[i] # s /\ \E j \in 1 .. n : h[i] = g[j]
  <2>1. SUFFICES ASSUME NEW i \in 1 .. n - 1
                 PROVE  h[i] \in Surfaces /\ h[i] # s /\ \E j \in 1 .. n : h[i] = g[j]
    BY Zenon
  <2>2. CASE i < k
    <3>1. h[i] = g[i] /\ i \in 1 .. n /\ i # k
      BY <1>6, <1>7, <2>2
    <3>2. QED
      BY <1>1, <1>4, <3>1, Zenon DEF Distinct
  <2>3. CASE ~ (i < k)
    <3>1. h[i] = g[i + 1] /\ i + 1 \in 1 .. n /\ i + 1 # k
      BY <1>7, <2>3, Zenon
    <3>2. QED
      BY <1>1, <1>4, <3>1, Zenon DEF Distinct
  <2>4. QED
    BY <2>2, <2>3, Zenon
<1>9. h \in Seq(Surfaces) /\ DOMAIN h = 1 .. n - 1
  <2>1. h = [i \in 1 .. n - 1 |-> h[i]]
    OBVIOUS
  <2>2. \A m \in Nat : \A f \in [1 .. m -> Surfaces] : f \in Seq(Surfaces)
    OBVIOUS
  <2>3. h \in [1 .. n - 1 -> Surfaces]
    BY <1>8, <2>1, Zenon
  <2>4. QED
    BY <1>6, <2>2, <2>3, Zenon
<1>10. ASSUME NEW i \in 1 .. n - 1, NEW j \in 1 .. n - 1, h[i] = h[j] PROVE i = j
  <2>1. PICK a \in 1 .. n : h[i] = g[a] /\ (i < k => a = i) /\ (~ (i < k) => a = i + 1)
    BY <1>7, Zenon
  <2>2. PICK b \in 1 .. n : h[j] = g[b] /\ (j < k => b = j) /\ (~ (j < k) => b = j + 1)
    BY <1>7, Zenon
  <2>3. a = b
    BY <1>1, <1>10, <2>1, <2>2, Zenon DEF Distinct
  <2>4. QED
    BY <1>1, <1>6, <2>1, <2>2, <2>3
<1> HIDE DEF h
<1>11. Distinct(h)
  BY <1>9, <1>10, Zenon DEF Distinct
<1>12. \A i \in DOMAIN h : h[i] # s /\ \E j \in DOMAIN g : h[i] = g[j]
  BY <1>1, <1>8, <1>9, Zenon
<1>13. QED
  BY <1>5, <1>9, <1>11, <1>12, Zenon

(* A new graph is added to the grid.                                       *)
LEMMA AppendKeeps ==
    ASSUME NEW g \in Seq(Surfaces), Distinct(g), NEW s \in Surfaces, \A i \in DOMAIN g : g[i] # s
    PROVE  /\ Append(g, s) \in Seq(Surfaces) /\ Distinct(Append(g, s))
           /\ {Append(g, s)[i] : i \in DOMAIN Append(g, s)} = {g[i] : i \in DOMAIN g} \cup {s}
<1> DEFINE n == Len(g)
           h == Append(g, s)
<1>1. /\ h \in Seq(Surfaces) /\ DOMAIN g = 1 .. n /\ DOMAIN h = 1 .. n + 1
      /\ h[n + 1] = s /\ \A i \in 1 .. n : h[i] = g[i]
  OBVIOUS
<1>2. \A i : i \in 1 .. n + 1 <=> i \in 1 .. n \/ i = n + 1
  OBVIOUS
<1> HIDE DEF n, h
<1>3. Distinct(h)
  BY <1>1, <1>2, Zenon DEF Distinct
<1>4. {h[i] : i \in DOMAIN h} = {g[i] : i \in DOMAIN g} \cup {s}
  BY <1>1, <1>2, Zenon
<1>5. QED
  BY <1>1, <1>3, <1>4, Zenon DEF h

(* The surfaces of new graphs are distinct, and nothing uses them.         *)
LEMMA FreshSurfaces ==
    ASSUME NEW n \in Nat, CanOpen(n)
    PROVE  /\ Fresh(n) \in Seq(Surfaces) /\ Len(Fresh(n)) = n /\ DOMAIN Fresh(n) = 1 .. n
           /\ Distinct(Fresh(n))
           /\ \A i \in 1 .. n : Fresh(n)[i] \in Surfaces \ InUse
<1>1. PICK f \in [1 .. n -> Surfaces \ InUse] :
          f = Fresh(n) /\ \A i, j \in 1 .. n : i < j => f[i] < f[j]
  BY DEF CanOpen, Fresh, Unused
<1>2. \A i \in 1 .. n : f[i] \in Nat /\ f[i] \in Surfaces
  BY GraphPageAssumption, Zenon
<1>3. f \in Seq(Surfaces) /\ Len(f) = n /\ DOMAIN f = 1 .. n
  <2>1. f \in [1 .. n -> Surfaces]
    BY <1>2, Zenon
  <2>2. \A m \in Nat : \A h \in [1 .. m -> Surfaces] : h \in Seq(Surfaces) /\ Len(h) = m
    OBVIOUS
  <2>3. QED
    BY <2>1, <2>2, Zenon
<1>4. Distinct(f)
  <2>1. ASSUME NEW i \in 1 .. n, NEW j \in 1 .. n, f[i] = f[j] PROVE i = j
    <3>1. ~ (f[i] < f[j]) /\ ~ (f[j] < f[i])
      BY <1>2, <2>1
    <3>2. ~ (i < j) /\ ~ (j < i)
      BY <1>1, <3>1, Zenon
    <3>3. QED
      BY <3>2
  <2>2. QED
    BY <1>3, <2>1, Zenon DEF Distinct
<1>5. QED
  BY <1>1, <1>3, <1>4, Zenon

-----------------------------------------------------------------------------
(* What the Loader's steps do to who waits.                                *)

(* The page asks for cbs, or for nothing.                                  *)
Asks(cbs) == addToNextGet(cbs) /\ UNCHANGED xhr

LEMMA AsksKeeps ==
    ASSUME LoaderType, GetsCovered, NEW cbs \in Queues, Asks(cbs)
    PROVE  LoaderType' /\ GetsCovered'
<1> /\ cbObjs \in Queues /\ getting \subseteq Counters /\ nextEvent \in BOOLEAN
    /\ cbObjs' = Then(cbObjs, cbs) /\ getting' = getting \cup KeysOf(cbs)
    /\ nextEvent' = (nextEvent \/ Waiting(cbs) # {}) /\ xhr' = xhr /\ refused' = refused
  BY Zenon DEF LoaderType, Asks, addToNextGet
<1>1. LoaderType' /\ getting' = KeysOf(cbObjs')
  BY ThenJoins, KeysAreCounters, Zenon DEF LoaderType, GetsCovered
<1>2. Waiting(cbObjs') # {} => nextEvent' \/ xhr' # NoXhr \/ refused'
  <2>1. CASE Waiting(cbs) = {}
    <3>1. Waiting(cbObjs') = Waiting(cbObjs)
      BY <2>1, ThenJoins, ZenonT(30) DEF Waiting
    <3>2. QED
      BY <2>1, <3>1, Zenon DEF GetsCovered
  <2>2. QED
    BY <2>1, Zenon
<1>3. QED
  BY <1>1, <1>2, Zenon DEF GetsCovered

(* Each graph has its series in cbs, or nothing about it changed.          *)
Covered(cbs) ==
    \A s \in Open' :
        \/ Ends(cbs, s, series'[s])
        \/ /\ s \in Open /\ cbs[s] = <<>>
           /\ series'[s] = series[s] /\ data'[s] = data[s] /\ time'.current = time.current

LEMMA AsksDue ==
    ASSUME LoaderType, DueInv, Open' \subseteq Surfaces, NEW cbs \in Queues, Asks(cbs), Covered(cbs)
    PROVE  DueInv'
<1> cbObjs \in Queues /\ cbObjs' = Then(cbObjs, cbs) /\ xhr' = xhr /\ failed' = failed \ Waiting(cbs)
  BY DEF LoaderType, Asks, addToNextGet
<1> SUFFICES ASSUME NEW s \in Open' \ failed' PROVE Due(s)'
  BY Zenon DEF DueInv
<1>1. CASE Ends(cbs, s, series'[s])
  BY <1>1, ThenJoins, Zenon DEF Due
<1>2. CASE /\ s \in Open /\ cbs[s] = <<>>
           /\ series'[s] = series[s] /\ data'[s] = data[s] /\ time'.current = time.current
  <2>1. Due(s)
    BY <1>2, Zenon DEF DueInv, Waiting
  <2>2. cbObjs'[s] = cbObjs[s]
    BY <1>2, ThenJoins, Zenon
  <2>3. QED
    BY <1>2, <2>1, <2>2, Zenon DEF Due, Ends, Latest
<1>3. QED
  BY <1>1, <1>2, Zenon DEF Covered

(* Without keys to ask for nobody waits.                                   *)
LEMMA NobodyWaits ==
    ASSUME LoaderType, GetsCovered, getting = {}
    PROVE  cbObjs = NoGets
<1>1. ASSUME NEW s \in Surfaces PROVE cbObjs[s] = <<>>
  <2>1. PICK c \in Seq(Series) : c = cbObjs[s]
    BY Zenon DEF LoaderType, Queues
  <2>2. ASSUME c # <<>> PROVE FALSE
    <3>1. 1 \in DOMAIN c /\ c[1] \in Series
      BY <2>2
    <3>2. QED
      BY <2>1, <3>1 DEF GetsCovered, KeysOf, Series
  <2>3. QED
    BY <2>1, <2>2, Zenon
<1>2. QED
  BY <1>1, Zenon DEF LoaderType, Queues, NoGets

(* startRequest() takes over all that waits, or finds nobody.              *)
LEMMA StartTakesAll ==
    ASSUME LoaderType, GetsCovered, NEW dates \in Dates, startRequest(dates)
    PROVE  /\ cbObjs' = NoGets /\ getting' = {} /\ refused' \in BOOLEAN
           /\ xhr' = NoXhr \/ xhr' \in [keys : SUBSET Counters, dates : Dates, cbs : Queues]
           /\ xhr' # NoXhr => xhr' = [keys |-> KeysOf(cbObjs), dates |-> dates, cbs |-> cbObjs]
           /\ xhr' = NoXhr => cbObjs = NoGets
<1> cbObjs \in Queues /\ getting = KeysOf(cbObjs) /\ getting \subseteq Counters
  BY Zenon DEF LoaderType, GetsCovered
<1>1. CASE getting = {}
  BY <1>1, NobodyWaits, Zenon DEF startRequest, LoaderType
<1>2. CASE getting # {}
  <2>1. /\ xhr' = [keys |-> getting, dates |-> dates, cbs |-> cbObjs] /\ getting' = {}
        /\ refused' = FALSE /\ cbObjs' = NoGets
    BY <1>2, Zenon DEF startRequest
  <2>2. xhr' \in [keys : SUBSET Counters, dates : Dates, cbs : Queues]
    BY <2>1, Zenon
  <2>3. xhr' # NoXhr
    <3>1. Seq(Series) \subseteq Seq(SUBSET Counters)
      <4>1. Series \subseteq SUBSET Counters
        BY DEF Series
      <4>2. QED
        BY <4>1
    <3>2. cbObjs \in Callbacks
      BY <3>1, Zenon DEF Queues, Callbacks
    <3>3. QED
      BY <2>1, <3>2, GraphPageAssumption DEF Requests
  <2>4. QED
    BY <2>1, <2>2, <2>3, Zenon
<1>3. QED
  BY <1>1, <1>2, Zenon

(* After startRequest() a graph whose get waited has it under way, and one *)
(* that holds its data is left.                                            *)
LEMMA StartKeeps ==
    ASSUME LoaderType, GetsCovered, time.current \in Dates, startRequest(time.current),
           nextEvent' \in BOOLEAN
    PROVE  /\ LoaderType' /\ GetsCovered'
           /\ \A s \in Surfaces :
                 /\ series' = series /\ time' = time
                 /\ \/ Ends(cbObjs, s, series[s])
                    \/ cbObjs[s] = <<>> /\ data'[s] = [keys |-> series[s], dates |-> time.current]
                 => Due(s)'
<1> /\ cbObjs' = NoGets /\ getting' = {} /\ refused' \in BOOLEAN
    /\ xhr' = NoXhr \/ xhr' \in [keys : SUBSET Counters, dates : Dates, cbs : Queues]
    /\ xhr' # NoXhr => xhr' = [keys |-> KeysOf(cbObjs), dates |-> time.current, cbs |-> cbObjs]
    /\ xhr' = NoXhr => cbObjs = NoGets
  BY StartTakesAll, Zenon
<1>1. LoaderType'
  BY NoGetsType, Zenon DEF LoaderType
<1>2. GetsCovered'
  BY NoGetsType, SMTT(30) DEF GetsCovered
<1>3. SUFFICES ASSUME NEW s \in Surfaces, series' = series, time' = time,
                      \/ Ends(cbObjs, s, series[s])
                      \/ cbObjs[s] = <<>> /\ data'[s] = [keys |-> series[s], dates |-> time.current]
               PROVE  Due(s)'
  BY <1>1, <1>2, Zenon
<1>4. cbObjs'[s] = <<>> /\ NoGets[s] = <<>>
  BY Zenon DEF NoGets
<1>5. QED
  BY <1>3, <1>4, SMTT(30) DEF Due, Ends

(* The timer of the Loader.                                                *)
LEMMA LoaderTimerKeeps == Inv /\ LoaderTimer => Inv'
<1> SUFFICES ASSUME LoaderType, PageType, GetsCovered, DueInv, DrawnInv, LoaderTimer PROVE Inv'
  BY Zenon DEF Inv
<1> /\ time' = time /\ now' = now /\ grid' = grid /\ selected' = selected /\ series' = series
    /\ data' = data /\ paints' = paints /\ repaints' = repaints /\ drawn' = drawn
    /\ window' = window /\ missed' = missed /\ nextEvent' = FALSE /\ failed' = failed
  BY Zenon DEF LoaderTimer, onTimer, pageVars
<1>1. Open' = Open /\ Open \subseteq Surfaces
  BY DEF Open, PageType
<1>2. PageType' /\ DrawnInv'
  BY <1>1, Zenon DEF PageType, DrawnInv
<1>3. CASE xhr # NoXhr
  <2>1. getting' = getting /\ cbObjs' = cbObjs /\ xhr' = xhr /\ refused' = refused
    BY <1>3, Zenon DEF LoaderTimer, onTimer
  <2>2. LoaderType' /\ GetsCovered'
    BY <1>3, <2>1, Zenon DEF LoaderType, GetsCovered
  <2>3. \A s : Due(s) => Due(s)'
    BY <2>1, Zenon DEF Due
  <2>4. QED
    BY <1>1, <1>2, <2>2, <2>3, Zenon DEF DueInv, Inv
<1>4. CASE xhr = NoXhr
  <2>1. startRequest(time.current) /\ time.current \in Dates
    BY <1>4, DatesType, Zenon DEF LoaderTimer, onTimer, PageType
  <2>2. \A s \in Open' \ failed' :
            \/ Ends(cbObjs, s, series[s])
            \/ cbObjs[s] = <<>> /\ data'[s] = [keys |-> series[s], dates |-> time.current]
    BY <1>1, <1>4, Zenon DEF DueInv, Due
  <2>3. QED
    BY <1>1, <1>2, <2>1, <2>2, StartKeeps, Zenon DEF DueInv, Inv
<1>5. QED
  BY <1>3, <1>4, Zenon

(* An answer: the callbacks get their data, and what waits is sent.        *)
LEMMA AnswerKeeps == Inv /\ Answer => Inv'
<1> SUFFICES ASSUME LoaderType, PageType, GetsCovered, DueInv, DrawnInv, Answer PROVE Inv'
  BY Zenon DEF Inv
<1> /\ time' = time /\ now' = now /\ grid' = grid /\ selected' = selected /\ series' = series
    /\ repaints' = repaints /\ drawn' = drawn /\ window' = window /\ missed' = missed
    /\ nextEvent' = nextEvent /\ failed' = failed
    /\ xhr # NoXhr /\ startRequest(time.current)
    /\ paints' = paints \cup Waiting(xhr.cbs)
  BY Zenon DEF Answer, onXhrComplete, Rendered
<1> /\ Open' = Open /\ Open \subseteq Surfaces /\ time.current \in Dates /\ nextEvent' \in BOOLEAN
    /\ xhr.dates \in Dates /\ xhr.cbs \in Queues
  BY DatesType DEF Open, PageType, LoaderType
<1>1. \A s \in Surfaces :
          /\ xhr.cbs[s] # <<>> =>
                 /\ data'[s] = [keys |-> Latest(xhr.cbs, s), dates |-> xhr.dates]
                 /\ data'[s] \in [keys : SUBSET Counters, dates : Dates]
          /\ xhr.cbs[s] = <<>> => data'[s] = data[s]
  BY LatestType, Zenon DEF Answer, Rendered, Waiting, Series
<1>2. PageType'
  <2>1. data' \in [Surfaces -> Data]
    <3>1. \A s \in Surfaces : data'[s] \in Data
      BY <1>1, Zenon DEF PageType, Data
    <3>2. QED
      BY <3>1, Zenon DEF Answer, Rendered
  <2>2. QED
    BY <2>1, Zenon DEF PageType
<1>3. DrawnInv'
  BY <1>1, GraphPageAssumption, Zenon DEF DrawnInv, Waiting
<1>4. \A s \in Open' \ failed' :
          \/ Ends(cbObjs, s, series[s])
          \/ cbObjs[s] = <<>> /\ data'[s] = [keys |-> series[s], dates |-> time.current]
  BY <1>1, Zenon DEF DueInv, Due, Ends
<1>5. QED
  BY <1>2, <1>3, <1>4, StartKeeps, Zenon DEF DueInv, Inv

(* A request that failed: its graphs are the ones given up.                *)
LEMMA AnswerErrorKeeps == Inv /\ AnswerError => Inv'
<1> SUFFICES ASSUME LoaderType, PageType, GetsCovered, DueInv, DrawnInv, AnswerError PROVE Inv'
  BY Zenon DEF Inv
<1> /\ time' = time /\ now' = now /\ grid' = grid /\ selected' = selected /\ series' = series
    /\ data' = data /\ paints' = paints /\ repaints' = repaints /\ drawn' = drawn
    /\ window' = window /\ missed' = missed
    /\ xhr # NoXhr /\ xhr' = NoXhr /\ refused' = TRUE
    /\ failed' = failed \cup (Waiting(xhr.cbs) \ Waiting(cbObjs))
    /\ getting' = getting /\ cbObjs' = cbObjs /\ nextEvent' = nextEvent
  BY Zenon DEF AnswerError, onXhrError, pageVars
<1>1. Open' = Open /\ Open \subseteq Surfaces
  BY SMTT(30) DEF Open, PageType
<1>2. PageType' /\ DrawnInv' /\ LoaderType' /\ GetsCovered'
  BY <1>1, Zenon DEF PageType, DrawnInv, LoaderType, GetsCovered
<1>3. DueInv'
  BY <1>1, Zenon DEF DueInv, Due, Ends, Latest, Waiting
<1>4. QED
  BY <1>2, <1>3, Zenon DEF Inv

-----------------------------------------------------------------------------
(* What the page's handlers do.                                            *)

(* A handler that asks for every graph whose series, data or dates it      *)
(* changes keeps the invariant, as far as the Loader goes.                 *)
LEMMA AskingKeeps ==
    ASSUME Inv, PageType', DrawnInv', NEW cbs \in Queues, Asks(cbs), Covered(cbs)
    PROVE  Inv'
<1>1. Open' \subseteq Surfaces
  BY ElementsOf, Zenon DEF PageType, Open
<1>2. QED
  BY <1>1, AsksKeeps, AsksDue, Zenon DEF Inv

(* A handler that leaves the Loader, the series, the data and the dates.   *)
LEMMA QuietKeeps ==
    ASSUME Inv, PageType', DrawnInv', UNCHANGED loaderVars, Open' \subseteq Open,
           \A s \in Open' : series'[s] = series[s] /\ data'[s] = data[s],
           Open' # {} => time'.current = time.current
    PROVE  Inv'
<1>1. Asks(NoGets)
  <2>1. cbObjs = Then(cbObjs, NoGets)
    BY NoGetsType, ThenJoins, ZenonT(30) DEF Inv, LoaderType, Queues, NoGets, Then
  <2>2. nextEvent = (nextEvent \/ Waiting(NoGets) # {})
    BY NoGetsType, Zenon DEF Inv, LoaderType
  <2>3. QED
    BY <2>1, <2>2, NoGetsType, Zenon DEF Asks, addToNextGet, loaderVars
<1>2. Open' \subseteq Surfaces
  BY ElementsOf, Zenon DEF PageType, Open
<1>3. Covered(NoGets)
  BY <1>2, Zenon DEF Covered, NoGets
<1>4. QED
  BY <1>1, <1>3, NoGetsType, AskingKeeps, Zenon

(* Handlers of the dates: all graphs are asked for again, or the dates     *)
(* stay.                                                                   *)
LEMMA ShowingKeeps ==
    ASSUME Inv, NEW cbs \in Queues, reload(cbs), time' \in TimeStates,
           UNCHANGED <<now, grid, series, data, paints, repaints, drawn, missed>>,
           selected' \in Surfaces \cup {0}, window' \in [Surfaces -> Dates \cup {NoData}],
           \/ \A s \in Open : Ends(cbs, s, series[s])
           \/ cbs = NoGets /\ time'.current = time.current
    PROVE  Inv'
<1>1. Open' = Open /\ Open \subseteq Surfaces
  BY ElementsOf, Zenon DEF Open, Inv, PageType
<1>2. PageType' /\ DrawnInv'
  BY <1>1, Zenon DEF Inv, PageType, DrawnInv
<1>3. Asks(cbs) /\ Covered(cbs)
  BY <1>1, Zenon DEF reload, Asks, Covered, NoGets
<1>4. QED
  BY <1>2, <1>3, AskingKeeps, Zenon

LEMMA AllAsked ==
    ASSUME PageType
    PROVE  /\ Gets(Open, series) \in Queues
           /\ \A s \in Open : s \in Surfaces /\ Ends(Gets(Open, series), s, series[s])
<1>1. \A s \in Open : s \in Surfaces /\ series[s] \in Series
  BY DEF PageType, Open, Series
<1>2. QED
  BY <1>1, GetsType, Zenon

(* What ShowDatesAt does, for the dates of a handler.                      *)
LEMMA ShowDatesKeeps ==
    ASSUME Inv, NEW t \in TimeStates, NEW reloads \in BOOLEAN, NEW s \in Surfaces \cup {0},
           ShowDatesAt(t, reloads, s), window' \in [Surfaces -> Dates \cup {NoData}],
           reloads \/ t.current = time.current
    PROVE  Inv'
<1> /\ time' = t /\ selected' = s /\ reloadAll(reloads) /\ PageType
    /\ UNCHANGED <<now, grid, series, data, paints, repaints, drawn, missed>>
  BY Zenon DEF ShowDatesAt, objForward, Inv
<1>1. CASE reloads
  BY <1>1, AllAsked, ShowingKeeps, Zenon DEF reloadAll
<1>2. CASE ~ reloads
  BY <1>2, NoGetsType, ShowingKeeps, Zenon DEF reloadAll
<1>3. QED
  BY <1>1, <1>2, Zenon

LEMMA ShowDatesQuiet ==
    ASSUME Inv, NEW t \in TimeStates, NEW reloads \in BOOLEAN, ShowDates(t, reloads),
           reloads \/ t.current = time.current
    PROVE  Inv'
BY ShowDatesKeeps, Zenon DEF ShowDates, Inv, PageType

LEMMA MoveSliderKeeps ==
    ASSUME Inv, NEW index \in Indexes, MoveSlider(index)
    PROVE  Inv'
<1>1. /\ setIndex(time, index, now) \in TimeStates
      /\ index = time.index => setIndex(time, index, now).current = time.current
  BY SliderKeepsDates, Zenon DEF Inv, PageType
<1>2. /\ SetIndexReloads(time, index) \in BOOLEAN /\ (SetIndexReloads(time, index) \/ index = time.index)
      /\ ShowDates(setIndex(time, index, now), SetIndexReloads(time, index))
  BY DEF SetIndexReloads, MoveSlider
<1>3. QED
  BY <1>1, <1>2, ShowDatesQuiet, Zenon

LEMMA SelectDateRangeKeeps ==
    ASSUME Inv, NEW dates \in ManualDates, SelectDateRange(dates)
    PROVE  Inv'
<1>1. time \in TimeStates /\ now \in Int /\ dates \in Dates
  BY GraphPageAssumption, Zenon DEF Inv, PageType
<1>2. QED
  BY <1>1, HandlersKeepDates, ShowDatesQuiet, Zenon DEF SelectDateRange

LEMMA RefreshKeeps ==
    ASSUME Inv, Refresh
    PROVE  Inv'
<1>1. refresh(time, now) \in TimeStates /\ (time.hidden => refresh(time, now) = time)
  BY DatesType, Zenon DEF Inv, PageType
<1>2. ShowDates(refresh(time, now), ~ time.hidden) /\ (~ time.hidden) \in BOOLEAN
  BY Zenon DEF Refresh
<1>3. QED
  BY <1>1, <1>2, ShowDatesQuiet, Zenon

LEMMA AutoRefreshKeeps ==
    ASSUME Inv, AutoRefresh \/ VisibilityChange
    PROVE  Inv'
<1>1. PICK t \in TimeStates : t.current = time.current /\ ShowDates(t, FALSE)
  <2> DEFINE auto == [time EXCEPT !.auto = ~ @]
             hidden == [time EXCEPT !.hidden = ~ @]
  <2>1. /\ auto \in TimeStates /\ auto.current = time.current
        /\ hidden \in TimeStates /\ hidden.current = time.current
    BY Zenon DEF Inv, PageType, TimeStates
  <2>2. QED
    BY <2>1, Zenon DEF AutoRefresh, VisibilityChange
<1>2. QED
  BY <1>1, ShowDatesQuiet, Zenon

LEMMA ZoomKeeps ==
    ASSUME Inv, NEW s \in Surfaces, NEW length \in ZoomLengths, NEW at \in {s, 0, selected},
           Zoom(s, length, at)
    PROVE  Inv'
<1> DEFINE dates == [start |-> Shown(s).start, stop |-> Shown(s).start + length]
<1> /\ time \in TimeStates /\ now \in Int /\ at \in Surfaces \cup {0} /\ length \in Int
    /\ window \in [Surfaces -> Dates \cup {NoData}] /\ drawn[s] \in Data
  BY GraphPageAssumption DEF Inv, PageType
<1> ShowDatesAt(zoomCallback(time, dates, now), TRUE, at) /\ window' = [window EXCEPT ![s] = dates]
  BY Zenon DEF Zoom
<1>1. dates \in Dates
  <2>1. Shown(s) \in Dates
    BY Zenon DEF Zoom, Data, Shown
  <2>2. QED
    BY <2>1 DEF Dates
<1> HIDE DEF dates
<1>2. window' \in [Surfaces -> Dates \cup {NoData}] /\ zoomCallback(time, dates, now) \in TimeStates
  BY <1>1, HandlersKeepDates, Zenon
<1>3. QED
  BY <1>2, ShowDatesKeeps, Zenon

LEMMA ZoomOutKeeps ==
    ASSUME Inv, NEW s \in Surfaces, ZoomOut(s)
    PROVE  Inv'
<1> /\ time \in TimeStates /\ now \in Int /\ window' \in [Surfaces -> Dates \cup {NoData}]
    /\ ShowDatesAt(zoomOutIntervals(time, now), TRUE, s)
  BY Zenon DEF Inv, PageType, ZoomOut
<1> QED
  BY HandlersKeepDates, ShowDatesKeeps, Zenon

LEMMA DblClickKeeps ==
    ASSUME Inv, NEW s \in Surfaces, DblClick(s)
    PROVE  Inv'
<1> DEFINE all == Gets(Open, series)
<1>1. /\ selected' = s /\ window' \in [Surfaces -> Dates \cup {NoData}]
      /\ UNCHANGED <<now, grid, series, data, paints, repaints, drawn, missed>>
  BY Zenon DEF DblClick, objForward, Inv, PageType
<1>2. \/ time' = zoomOutIntervals(time, now) /\ reload(all)
      \/ time' = zoomCallback(zoomOutIntervals(time, now), drawn[s].dates, now) /\ reload(Then(all, all))
  BY Zenon DEF DblClick, reloadAll
<1>3. all \in Queues /\ \A r \in Open : r \in Surfaces /\ Ends(all, r, series[r])
  BY AllAsked, Zenon DEF Inv
<1> HIDE DEF all
<1>4. Then(all, all) \in Queues /\ \A r \in Open : Ends(Then(all, all), r, series[r])
  BY <1>3, ThenJoins, Zenon
<1>5. drawn[s].dates \in Dates
  <2>1. drawn[s] \in [keys : SUBSET Counters, dates : Dates]
    BY Zenon DEF DblClick, Data, Inv, PageType
  <2>2. QED
    BY <2>1, Zenon
<1>6. time' \in TimeStates
  <2>1. time \in TimeStates /\ now \in Int
    BY DEF Inv, PageType
  <2>2. QED
    BY <1>2, <1>5, <2>1, HandlersKeepDates, Zenon
<1>7. QED
  BY <1>1, <1>2, <1>3, <1>4, <1>6, ShowingKeeps, Zenon

(* The surface of a graph that is there, or a new one, asks for its        *)
(* series after a toggle.                                                  *)
LEMMA OneAsked ==
    ASSUME NEW s \in Surfaces, series \in [Surfaces -> SUBSET Counters],
           NEW ser \in SUBSET Counters, NEW path \in Counters,
           series' = [series EXCEPT ![s] = Toggled(ser, path)]
    PROVE  /\ series' \in [Surfaces -> SUBSET Counters] /\ series'[s] # {}
           /\ \A r \in Surfaces : r # s => series'[r] = series[r]
           /\ Gets({s}, series') \in Queues /\ Ends(Gets({s}, series'), s, series'[s])
           /\ \A r \in Surfaces : r # s => Gets({s}, series')[r] = <<>>
<1>1. /\ series' \in [Surfaces -> SUBSET Counters] /\ series'[s] \in Series
      /\ \A r \in Surfaces : r # s => series'[r] = series[r]
  BY ToggledKeeps, Zenon DEF Series
<1>2. \A r \in Surfaces : r \in {s} => series'[r] \in Series
  BY <1>1, Zenon
<1>3. /\ Gets({s}, series') \in Queues
      /\ \A r \in Surfaces : r \notin {s} => Gets({s}, series')[r] = <<>>
      /\ \A r \in Surfaces : r \in {s} => Ends(Gets({s}, series'), r, series'[r])
  BY <1>2, GetsType, Zenon
<1>4. QED
  BY <1>1, <1>3, Zenon DEF Series

(* A toggle of a graph that is there.                                      *)
LEMMA ToggleKeeps ==
    ASSUME Inv, NEW s \in Surfaces, NEW path \in Counters,
           series' = [series EXCEPT ![s] = Toggled(@, path)],
           reload(Gets({s}, series')), selected' \in Surfaces \cup {0},
           UNCHANGED <<time, now, grid, data, paints, repaints, drawn, window, missed>>
    PROVE  Inv'
<1> PageType /\ DrawnInv /\ Open' = Open /\ Open \subseteq Surfaces /\ Asks(Gets({s}, series'))
  BY DEF Inv, PageType, Open, reload, Asks
<1>1. /\ series' \in [Surfaces -> SUBSET Counters] /\ series'[s] # {}
      /\ \A r \in Surfaces : r # s => series'[r] = series[r]
      /\ Gets({s}, series') \in Queues /\ Ends(Gets({s}, series'), s, series'[s])
      /\ \A r \in Surfaces : r # s => Gets({s}, series')[r] = <<>>
  <2>1. series \in [Surfaces -> SUBSET Counters] /\ series[s] \in SUBSET Counters
    BY DEF PageType
  <2>2. series' = [series EXCEPT ![s] = Toggled(series[s], path)]
    OBVIOUS
  <2>3. QED
    BY <2>1, <2>2, OneAsked, ZenonT(30)
<1>2. PageType' /\ DrawnInv'
  BY <1>1, Zenon DEF PageType, DrawnInv
<1>3. Covered(Gets({s}, series'))
  BY <1>1, Zenon DEF Covered
<1>4. QED
  BY <1>1, <1>2, <1>3, AskingKeeps, Zenon

(* New graphs, the surfaces in nu, and closed ones: no chart is left.      *)
LEMMA ConstructorKeeps ==
    ASSUME PageType, DrawnInv, NEW nu, NEW closed, GraphSurface(nu, closed)
    PROVE  /\ data' \in [Surfaces -> Data] /\ drawn' \in [Surfaces -> Data]
           /\ window' \in [Surfaces -> Dates \cup {NoData}]
           /\ \A s \in Surfaces : data'[s] = NoData => drawn'[s] = NoData
           /\ \A s \in nu : s \in Surfaces => drawn'[s] = data'[s]
           /\ \A s \in Surfaces : s \notin nu \cup closed => drawn'[s] = drawn[s]
           /\ \A s \in Surfaces : s \notin nu => data'[s] = data[s]
           /\ missed' = missed \ nu
BY Zenon DEF PageType, DrawnInv, GraphSurface, destroyDygraph, Data

(* A counter is clicked while no graph is selected: a new graph.           *)
LEMMA NewGraphKeeps ==
    ASSUME Inv, NEW path \in Counters, ToggleGraphing(path), selected = 0
    PROVE  Inv'
<1>1. PICK nu \in Surfaces \ Open :
          /\ grid' = Append(grid, nu) /\ selected' = nu
          /\ series' = [series EXCEPT ![nu] = Toggled({}, path)]
          /\ GraphSurface({nu}, {}) /\ Asks(Gets({nu}, series'))
  <2>1. CanOpen(1) => Fresh(1)[1] \in Surfaces \ Open
    BY FreshSurfaces DEF InUse
  <2>2. QED
    BY <2>1, Zenon DEF ToggleGraphing, reload, Asks
<1>2. /\ series' \in [Surfaces -> SUBSET Counters] /\ series'[nu] # {}
      /\ \A r \in Surfaces : r # nu => series'[r] = series[r]
      /\ Gets({nu}, series') \in Queues /\ Ends(Gets({nu}, series'), nu, series'[nu])
      /\ \A r \in Surfaces : r # nu => Gets({nu}, series')[r] = <<>>
  BY <1>1, OneAsked, Zenon DEF Inv, PageType
<1>3. grid' \in Seq(Surfaces) /\ Distinct(grid') /\ Open' = Open \cup {nu} /\ Open \subseteq Surfaces
  <2>1. PICK g \in Seq(Surfaces) : g = grid /\ Distinct(g) /\ \A i \in DOMAIN g : g[i] # nu
    BY Zenon DEF Inv, PageType, Open
  <2>2. QED
    BY <1>1, <2>1, AppendKeeps, SMTT(30) DEF Open
<1>4. /\ UNCHANGED <<time, now, paints, repaints>>
      /\ data' \in [Surfaces -> Data] /\ drawn' \in [Surfaces -> Data]
      /\ window' \in [Surfaces -> Dates \cup {NoData}]
      /\ \A s \in Surfaces : data'[s] = NoData => drawn'[s] = NoData
      /\ drawn'[nu] = data'[nu]
      /\ \A s \in Surfaces : s # nu => drawn'[s] = drawn[s] /\ data'[s] = data[s]
      /\ missed' = missed \ {nu}
  BY <1>1, ConstructorKeeps, SMTT(30) DEF ToggleGraphing, Inv
<1>5. PageType'
  BY <1>1, <1>2, <1>3, <1>4, Zenon DEF Inv, PageType
<1>6. DrawnInv'
  BY <1>1, <1>3, <1>4, Zenon DEF Inv, DrawnInv
<1>7. Covered(Gets({nu}, series'))
  BY <1>1, <1>2, <1>3, <1>4, Zenon DEF Covered
<1>8. QED
  BY <1>1, <1>2, <1>5, <1>6, <1>7, AskingKeeps, Zenon

LEMMA ToggleGraphingKeeps ==
    ASSUME Inv, NEW path \in Counters, ToggleGraphing(path)
    PROVE  Inv'
<1>1. CASE selected # 0
  <2>1. selected \in Surfaces
    BY <1>1, Zenon DEF Inv, PageType
  <2>2. QED
    BY <1>1, <2>1, ToggleKeeps, Zenon DEF ToggleGraphing
<1>2. QED
  BY <1>1, NewGraphKeeps, Zenon

LEMMA LegendClickKeeps ==
    ASSUME Inv, NEW s \in Surfaces, NEW path \in Counters, LegendClick(s, path)
    PROVE  Inv'
BY ToggleKeeps, Zenon DEF LegendClick, objForward

(* A click that selects, the clock, and a resize.                          *)
LEMMA SelectKeeps ==
    ASSUME Inv, (\E s \in Surfaces \cup {0} : Select(s)) \/ Tick \/ Resize
    PROVE  Inv'
<1>1. /\ selected' \in Surfaces \cup {0} /\ now' \in Int /\ repaints \subseteq repaints'
      /\ UNCHANGED loaderVars /\ UNCHANGED <<time, grid, series, data, paints, drawn, window, missed>>
  BY SMTT(30) DEF Inv, PageType, Select, objForward, Tick, Resize
<1>2. Open' = Open
  BY <1>1, Zenon DEF Open
<1>3. PageType' /\ DrawnInv'
  BY <1>1, <1>2, Zenon DEF Inv, PageType, DrawnInv
<1>4. QED
  BY <1>1, <1>2, <1>3, QuietKeeps, Zenon

(* A paint, or one that a hidden page misses.                              *)
LEMMA PaintingKeeps ==
    ASSUME Inv, NEW s \in Surfaces, UNCHANGED loaderVars,
           UNCHANGED <<time, now, grid, selected, series, data>>,
           paints \ {s} \subseteq paints', repaints \ {s} \subseteq repaints',
           \/ repaint(s)
           \/ missed' = missed \cup {s} /\ UNCHANGED <<drawn, window>>
    PROVE  Inv'
<1> /\ PageType /\ DrawnInv /\ data \in [Surfaces -> Data] /\ drawn \in [Surfaces -> Data]
    /\ window \in [Surfaces -> Dates \cup {NoData}] /\ Open' = Open /\ Open \subseteq Surfaces
  BY SMTT(40) DEF Inv, PageType, Open
<1>1. /\ drawn' \in [Surfaces -> Data] /\ window' \in [Surfaces -> Dates \cup {NoData}]
      /\ \A r \in Surfaces : r # s => drawn'[r] = drawn[r]
      /\ drawn'[s] = data[s] \/ (drawn'[s] = drawn[s] /\ (s \in missed' \/ data[s] = NoData))
      /\ missed \ {s} \subseteq missed'
  <2>1. CASE repaint(s) /\ data[s] # NoData
    BY <2>1, Zenon DEF repaint, Dygraph
  <2>2. QED
    BY <2>1, Zenon DEF repaint
<1>2. PageType'
  BY <1>1, Zenon DEF PageType
<1>3. DrawnInv'
  BY <1>1, Zenon DEF DrawnInv
<1>4. QED
  BY <1>2, <1>3, QuietKeeps, Zenon

LEMMA PaintKeeps ==
    ASSUME Inv, NEW s \in Surfaces, Paint(s) \/ RepaintTimer(s) \/ ChooseFormat(s)
    PROVE  Inv'
BY PaintingKeeps, Zenon DEF Paint, RepaintTimer, ChooseFormat

LEMMA CloseKeeps ==
    ASSUME Inv, NEW s \in Surfaces, Close(s)
    PROVE  Inv'
<1>1. /\ grid' = arrayRemove(grid, s) /\ UNCHANGED loaderVars
      /\ time' = IF grid' = <<>> THEN restoreOriginalInterval(time) ELSE time
  BY Zenon DEF Close, removeGraph
<1>2. grid' \in Seq(Surfaces) /\ Distinct(grid') /\ Open' \subseteq Open \ {s}
  <2>1. PICK g \in Seq(Surfaces) : g = grid /\ Distinct(g) /\ \E l \in DOMAIN g : g[l] = s
    BY Zenon DEF Inv, PageType, Close, Open
  <2>2. /\ grid' \in Seq(Surfaces) /\ Distinct(grid')
        /\ \A i \in DOMAIN grid' : grid'[i] # s /\ \E j \in DOMAIN g : grid'[i] = g[j]
    BY <1>1, <2>1, RemoveKeeps
  <2>3. QED
    BY <2>1, <2>2, SMTT(30) DEF Open
<1>3. time' \in TimeStates /\ (Open' # {} => time' = time)
  <2>1. grid' = <<>> => Open' = {}
    BY NoElements, Zenon DEF Open
  <2>2. QED
    BY <1>1, <2>1, DatesType, Zenon DEF Inv, PageType
<1>4. /\ series' \in [Surfaces -> SUBSET Counters] /\ \A r \in Surfaces : r # s => series'[r] = series[r]
      /\ Open \subseteq Surfaces
  <2>1. series \in [Surfaces -> SUBSET Counters] /\ series' = [series EXCEPT ![s] = {}]
    BY Zenon DEF Close, Inv, PageType
  <2>2. Open \subseteq Surfaces
    BY ElementsOf, Zenon DEF Inv, PageType, Open
  <2>3. QED
    BY <2>1, <2>2, Zenon
<1>5. /\ drawn' \in [Surfaces -> Data] /\ window' \in [Surfaces -> Dates \cup {NoData}]
      /\ selected' = 0 /\ drawn'[s] = NoData /\ \A r \in Surfaces : r # s => drawn'[r] = drawn[r]
      /\ UNCHANGED <<now, data, paints, repaints, missed>>
  BY Zenon DEF Close, objForward, destroyDygraph, Inv, PageType, Data
<1>6. PageType'
  BY <1>2, <1>3, <1>4, <1>5, Zenon DEF Inv, PageType
<1>7. DrawnInv'
  BY <1>2, <1>4, <1>5, Zenon DEF Inv, DrawnInv
<1>8. QED
  BY <1>1, <1>2, <1>3, <1>4, <1>5, <1>6, <1>7, QuietKeeps, Zenon

LEMMA ChangedType ==
    ASSUME NEW ser \in SUBSET Counters, NEW from \in Counters, NEW to \in Counters, NEW keep
    PROVE  Changed(ser, from, to, keep) \in Seq(Series)
<1>1. PICK added \in Series : added = Toggled(ser, to)
  BY ToggledKeeps, Zenon
<1>2. PICK rest \in Series : rest = Toggled(added, from)
  BY ToggledKeeps, Zenon DEF Series
<1>3. <<>> \in Seq(Series) /\ <<added>> \in Seq(Series) /\ <<added, rest>> \in Seq(Series)
  OBVIOUS
<1>4. QED
  BY <1>1, <1>2, <1>3, Zenon DEF Changed

(* The gets of change_counters(), for each graph its toggles and then the  *)
(* series it ends with.                                                    *)
LEMMA ChangeAsks ==
    ASSUME NEW ser \in [Surfaces -> SUBSET Counters], NEW open \in SUBSET Surfaces,
           \A s \in open : ser[s] # {},
           NEW steps \in [Surfaces -> Seq(Series)], NEW final, NEW toggles,
           final = [s \in Surfaces |-> IF steps[s] = <<>> THEN ser[s] ELSE steps[s][Len(steps[s])]],
           toggles = [s \in Surfaces |-> IF s \in open THEN steps[s] ELSE <<>>]
    PROVE  /\ final \in [Surfaces -> SUBSET Counters] /\ \A s \in open : final[s] # {}
           /\ Then(toggles, Gets(open, final)) \in Queues
           /\ \A s \in open : Ends(Then(toggles, Gets(open, final)), s, final[s])
<1>1. ASSUME NEW s \in Surfaces
      PROVE  final[s] \in SUBSET Counters /\ (ser[s] # {} => final[s] \in Series)
  <2>1. PICK c \in Seq(Series) : c = steps[s]
    BY Zenon
  <2>2. c # <<>> => c[Len(c)] \in Series
    OBVIOUS
  <2>3. QED
    BY <2>1, <2>2, Zenon DEF Series
<1>2. toggles \in Queues
  BY DEF Queues
<1>3. /\ Gets(open, final) \in Queues
      /\ \A s \in Surfaces : s \in open => Ends(Gets(open, final), s, final[s])
  BY <1>1, GetsType, Zenon
<1>4. final \in [Surfaces -> SUBSET Counters] /\ \A s \in open : final[s] # {}
  BY <1>1, Zenon DEF Series
<1>5. QED
  BY <1>2, <1>3, <1>4, ThenJoins, Zenon

LEMMA ChangeCountersKeeps ==
    ASSUME Inv, NEW from \in Counters, NEW to \in Counters, NEW keep \in BOOLEAN,
           ChangeCounters(from, to, keep)
    PROVE  Inv'
<1> DEFINE steps == [s \in Surfaces |-> Changed(series[s], from, to, keep)]
           final == [s \in Surfaces |-> IF steps[s] = <<>> THEN series[s] ELSE steps[s][Len(steps[s])]]
           toggles == [s \in Surfaces |-> IF s \in Open THEN steps[s] ELSE <<>>]
           cbs == Then(toggles, Gets(Open, final))
<1>1. /\ series' = final /\ reload(cbs)
      /\ UNCHANGED <<time, now, grid, selected, data, paints, repaints, drawn, window, missed>>
  BY Zenon DEF ChangeCounters
<1>2. steps \in [Surfaces -> Seq(Series)]
  BY ChangedType, Zenon DEF Inv, PageType
<1> HIDE DEF steps
<1>3. /\ series \in [Surfaces -> SUBSET Counters] /\ Open \in SUBSET Surfaces
      /\ \A s \in Open : series[s] # {}
  BY ElementsOf, Zenon DEF Inv, PageType, Open
<1>4. /\ final \in [Surfaces -> SUBSET Counters] /\ \A s \in Open : final[s] # {}
      /\ cbs \in Queues /\ \A s \in Open : Ends(cbs, s, final[s])
  BY <1>2, <1>3, ChangeAsks, Zenon
<1> HIDE DEF final, cbs
<1>5. Open' = Open
  BY <1>1, Zenon DEF Open
<1>6. PageType' /\ DrawnInv'
  BY <1>1, <1>4, <1>5, Zenon DEF Inv, PageType, DrawnInv
<1>7. Asks(cbs) /\ Covered(cbs)
  BY <1>1, <1>4, <1>5, Zenon DEF reload, Asks, Covered
<1>8. QED
  BY <1>4, <1>6, <1>7, AskingKeeps, Zenon

(* The gets of a new graph.                                                *)
LEMMA TogglesOfNew ==
    ASSUME NEW paths \in Seq(Counters) \ {<<>>}
    PROVE  TogglesOf(paths) \in Seq(Series) \ {<<>>}
<1> DEFINE n == Len(paths)
<1>1. n \in Nat \ {0} /\ DOMAIN paths = 1 .. n
  OBVIOUS
<1>2. \A i \in 1 .. n : SeriesAfter(paths)[i] \in Series
  BY SeriesAfterType, Zenon
<1>3. TogglesOf(paths) = [i \in 1 .. n |-> SeriesAfter(paths)[i]]
  BY <1>1, Zenon DEF TogglesOf
<1> HIDE DEF n
<1>4. QED
  BY <1>1, <1>2, <1>3

(* What ReplaceGrid asks for, of the new graphs nu.                        *)
NewGets(graphs, nu, reloads, new, toggles, ser, cbs) ==
    /\ new = {nu[i] : i \in DOMAIN nu}
    /\ toggles = [s \in Surfaces |->
                    IF s \in new THEN TogglesOf(graphs[CHOOSE i \in DOMAIN nu : nu[i] = s]) ELSE <<>>]
    /\ ser = [s \in Surfaces |-> IF s \in new THEN Latest(toggles, s) ELSE {}]
    /\ cbs = IF reloads THEN Then(toggles, Gets(new, ser)) ELSE toggles

LEMMA NewAsk ==
    ASSUME NEW graphs \in Seq(Seq(Counters) \ {<<>>}), NEW nu \in Seq(Surfaces), Len(nu) = Len(graphs),
           NEW new, NEW toggles, NEW ser, NEW cbs, NEW reloads \in BOOLEAN,
           NewGets(graphs, nu, reloads, new, toggles, ser, cbs)
    PROVE  /\ new \subseteq Surfaces
           /\ ser \in [Surfaces -> SUBSET Counters] /\ \A s \in new : ser[s] # {}
           /\ cbs \in Queues /\ \A s \in new : Ends(cbs, s, ser[s])
<1>1. new \subseteq Surfaces /\ \A i \in DOMAIN nu : graphs[i] \in Seq(Counters) \ {<<>>}
  BY SMTT(30) DEF NewGets
<1>2. \A s \in Surfaces : toggles[s] \in Seq(Series) /\ (s \in new => toggles[s] # <<>>)
  <2>1. ASSUME NEW s \in new PROVE (CHOOSE i \in DOMAIN nu : nu[i] = s) \in DOMAIN nu
    BY Zenon DEF NewGets
  <2>2. <<>> \in Seq(Series)
    BY SMTT(30)
  <2>3. QED
    BY <1>1, <2>1, <2>2, TogglesOfNew, Zenon DEF NewGets
<1>3. toggles \in Queues
  BY <1>2, Zenon DEF Queues, NewGets
<1>4. \A s \in new : ser[s] \in Series /\ Ends(toggles, s, ser[s])
  BY <1>1, <1>2, <1>3, LatestType, Zenon DEF Ends, NewGets
<1>5. /\ Gets(new, ser) \in Queues
      /\ \A s \in Surfaces : s \in new => Ends(Gets(new, ser), s, ser[s])
  BY <1>4, GetsType, Zenon
<1>6. ser \in [Surfaces -> SUBSET Counters] /\ \A s \in new : ser[s] # {}
  BY <1>4, Zenon DEF Series, NewGets
<1>7. Then(toggles, Gets(new, ser)) \in Queues /\ \A s \in new : Ends(Then(toggles, Gets(new, ser)), s, ser[s])
  BY <1>1, <1>3, <1>5, ThenJoins, Zenon
<1>8. QED
  BY <1>1, <1>3, <1>4, <1>6, <1>7, Zenon DEF NewGets

(* The whole grid is replaced.                                             *)
LEMMA ReplaceGridKeeps ==
    ASSUME Inv, NEW graphs \in Seq(Seq(Counters) \ {<<>>}), NEW t \in TimeStates,
           NEW reloads \in BOOLEAN, ReplaceGrid(graphs, t, reloads)
    PROVE  Inv'
<1> DEFINE nu == Fresh(Len(graphs))
           new == {nu[i] : i \in DOMAIN nu}
           toggles == [s \in Surfaces |->
                         IF s \in new THEN TogglesOf(graphs[CHOOSE i \in DOMAIN nu : nu[i] = s]) ELSE <<>>]
           ser == [s \in Surfaces |-> IF s \in new THEN Latest(toggles, s) ELSE {}]
           cbs == IF reloads THEN Then(toggles, Gets(new, ser)) ELSE toggles
<1>1. /\ CanOpen(Len(graphs)) /\ grid' = nu /\ selected' = 0 /\ series' = ser /\ time' = t
      /\ GraphSurface(new, Open) /\ repaints' = repaints \cup new /\ now' = now /\ paints' = paints
      /\ Asks(cbs)
  BY Zenon DEF ReplaceGrid, reload, Asks
<1>2. nu \in Seq(Surfaces) /\ Len(nu) = Len(graphs) /\ Distinct(nu)
  <2>1. Len(graphs) \in Nat
    OBVIOUS
  <2>2. QED
    BY <1>1, <2>1, FreshSurfaces, Zenon
<1> HIDE DEF nu, new, toggles, ser, cbs
<1>3. /\ new \subseteq Surfaces
      /\ ser \in [Surfaces -> SUBSET Counters] /\ \A s \in new : ser[s] # {}
      /\ cbs \in Queues /\ \A s \in new : Ends(cbs, s, ser[s])
  <2>1. NewGets(graphs, nu, reloads, new, toggles, ser, cbs)
    BY Zenon DEF NewGets, new, toggles, ser, cbs
  <2>2. QED
    BY <1>2, <2>1, NewAsk
<1>4. Open' = new
  BY <1>1, Zenon DEF Open, new
<1>5. /\ data' \in [Surfaces -> Data] /\ drawn' \in [Surfaces -> Data]
      /\ window' \in [Surfaces -> Dates \cup {NoData}]
      /\ \A s \in Surfaces : data'[s] = NoData => drawn'[s] = NoData
      /\ \A s \in new : s \in Surfaces => drawn'[s] = data'[s]
  BY <1>1, ConstructorKeeps, Zenon DEF Inv
<1>6. PageType'
  BY <1>1, <1>2, <1>3, <1>4, <1>5, Zenon DEF Inv, PageType
<1>7. DrawnInv'
  BY <1>3, <1>4, <1>5, Zenon DEF DrawnInv
<1>8. Covered(cbs)
  BY <1>1, <1>3, <1>4, Zenon DEF Covered
<1>9. QED
  BY <1>1, <1>3, <1>6, <1>7, <1>8, AskingKeeps, Zenon

LEMMA OpenDashboardKeeps ==
    ASSUME Inv, NEW d \in Dashboards, OpenDashboard(d) \/ \E dates \in ManualDates : LoadState(d, dates)
    PROVE  Inv'
<1>1. time \in TimeStates /\ now \in Int
  BY Zenon DEF Inv, PageType
<1>2. /\ d.graphs \in Seq(Seq(Counters) \ {<<>>}) /\ d.interval \in Nat
      /\ d.slider \in Indexes \cup {0} /\ d.auto \in BOOLEAN
  BY GraphPageAssumption, Zenon
<1>3. Cleared \in TimeStates
  BY <1>1, DatesType, Zenon DEF Cleared
<1>4. CASE OpenDashboard(d)
  <2>1. OpenDates(Cleared, d.interval, d.slider, d.auto, now) \in TimeStates
    BY <1>1, <1>2, <1>3, DashboardKeepsDates, Zenon
  <2>2. (d.slider # 0 /\ SetIndexReloads(time, d.slider)) \in BOOLEAN
    OBVIOUS
  <2>3. QED
    BY <1>2, <1>4, <2>1, <2>2, ReplaceGridKeeps, Zenon DEF OpenDashboard
<1>5. CASE \E dates \in ManualDates : LoadState(d, dates)
  <2>1. PICK dates \in ManualDates : LoadState(d, dates)
    BY <1>5, Zenon
  <2>2. resetDateRange(Cleared, dates) \in TimeStates
    BY <1>1, <1>3, <2>1, GraphPageAssumption, HandlersKeepDates, Zenon
  <2>3. QED
    BY <1>2, <2>1, <2>2, ReplaceGridKeeps, Zenon DEF LoadState
<1>6. QED
  BY <1>4, <1>5, Zenon

-----------------------------------------------------------------------------
(* The theorems.                                                           *)

LEMMA InvInit == Init => Inv
<1> SUFFICES ASSUME Init PROVE Inv
  BY Zenon
<1>1. LoaderType /\ GetsCovered
  BY NoGetsType, Zenon DEF Init, LoaderInit, LoaderType, GetsCovered
<1>2. Open = {} /\ grid \in Seq(Surfaces) /\ Distinct(grid)
  BY SMTT(30) DEF Init, Open, Distinct
<1>3. time \in TimeStates /\ now \in Int
  <2>1. Markers[1] \in Int /\ StartTime \in Int /\ 1 \in Indexes
    BY MarkersAssumption, GraphPageAssumption DEF Indexes
  <2>2. [start |-> StartTime - Markers[1], stop |-> StartTime] \in Dates
    BY <2>1, SMTT(30) DEF Dates
  <2>3. QED
    BY <2>1, <2>2, Zenon DEF Init, TimeStates
<1>4. /\ series \in [Surfaces -> SUBSET Counters] /\ data \in [Surfaces -> Data]
      /\ drawn \in [Surfaces -> Data] /\ window \in [Surfaces -> Dates \cup {NoData}]
      /\ selected \in Surfaces \cup {0} /\ \A s \in Surfaces : drawn[s] = NoData
  BY Zenon DEF Init, Data
<1>5. QED
  BY <1>1, <1>2, <1>3, <1>4, Zenon DEF Inv, PageType, DueInv, DrawnInv

LEMMA InvNext == Inv /\ [Next]_vars => Inv'
<1> SUFFICES ASSUME Inv, [Next]_vars PROVE Inv'
  BY Zenon
<1>1. CASE UNCHANGED vars
  <2>1. UNCHANGED loaderVars /\ UNCHANGED pageVars
    BY <1>1, Zenon DEF vars
  <2>2. /\ time' = time /\ now' = now /\ grid' = grid /\ selected' = selected /\ series' = series
        /\ data' = data /\ paints' = paints /\ repaints' = repaints /\ drawn' = drawn
        /\ window' = window /\ missed' = missed
    BY <2>1, Zenon DEF pageVars
  <2>3. Open' = Open
    BY <2>2, Zenon DEF Open
  <2>4. PageType'
    BY <2>2, <2>3, Zenon DEF Inv, PageType
  <2>5. DrawnInv'
    BY <2>2, <2>3, Zenon DEF Inv, DrawnInv
  <2>6. QED
    BY <2>1, <2>2, <2>3, <2>4, <2>5, QuietKeeps, Zenon
<1>2. CASE UserNext
  BY <1>2, ToggleGraphingKeeps, LegendClickKeeps, ChangeCountersKeeps, SelectKeeps, CloseKeeps,
     ZoomKeeps, ZoomOutKeeps, DblClickKeeps, PaintKeeps, MoveSliderKeeps, SelectDateRangeKeeps,
     AutoRefreshKeeps, RefreshKeeps, OpenDashboardKeeps, ZenonT(30) DEF UserNext
<1>3. CASE PageNext
  BY <1>3, PaintKeeps, RefreshKeeps, LoaderTimerKeeps, AnswerKeeps, AnswerErrorKeeps,
     SelectKeeps, Zenon DEF PageNext, AutoRefreshTimer
<1>4. QED
  BY <1>1, <1>2, <1>3, Zenon DEF Next

(* For any counters, graphs, dates and dashboards: a request asks for      *)
(* exactly the counters of those it will be given to, and a get that waits *)
(* has the timer, the request under way or a refused one before it         *)
(* (addToNextGet, startRequest and onXhrComplete of the Loader).           *)
THEOREM RequestsCoverGets == Spec => []GetsCovered
<1>1. Inv => GetsCovered
  BY Zenon DEF Inv
<1>2. QED
  BY <1>1, InvInit, InvNext, PTL DEF Spec

(* However the handlers of the page are interleaved with the Loader's      *)
(* timer and answers: once the Loader is at rest, each graph holds the     *)
(* data of its present series and of the present dates, unless the server  *)
(* refused its latest get.                                                 *)
THEOREM GraphsSettle == Spec => []Settled
<1>1. Inv => Settled
  <2> SUFFICES ASSUME Inv, getting = {}, xhr = NoXhr, NEW s \in Open \ failed
               PROVE  data[s] = [keys |-> series[s], dates |-> time.current]
    BY Zenon DEF Settled
  <2>1. s \in Surfaces /\ Due(s) /\ cbObjs = NoGets
    BY NobodyWaits, ElementsOf, Zenon DEF Inv, DueInv, PageType, Open
  <2>2. QED
    BY <2>1, Zenon DEF Due, Ends, NoGets
<1>2. QED
  BY <1>1, InvInit, InvNext, PTL DEF Spec

(* Once no timer is left that would paint it, each graph and its legend    *)
(* show the data the graph holds (renderData, repaint, repaintAll),        *)
(* unless a hidden page missed it.                                         *)
THEOREM ScreenFollowsData == Spec => []ScreenIsData
<1>1. Inv => ScreenIsData
  BY Zenon DEF Inv, DrawnInv, ScreenIsData
<1>2. QED
  BY <1>1, InvInit, InvNext, PTL DEF Spec

=============================================================================
