---------------------------- MODULE StatCounter ----------------------------
(***************************************************************************)
(* An event counter of daemon/StatCounter.cpp: the collation window in     *)
(* memory, the finest file, which is written with the window's buckets,    *)
(* and a coarser file, into which a bucket is aggregated once, when it     *)
(* leaves the window.  Both files are instances of StatFile.               *)
(*                                                                         *)
(* A handler of the counter's strand changes the window in one step and    *)
(* leaves in todo the updateBucket() calls it makes, in order; nothing     *)
(* else runs on the strand until they are done.  The rate value / interval *)
(* is the value itself, since all buckets of a window have one length.     *)
(***************************************************************************)
EXTENDS Integers, Sequences, Functions

CONSTANTS
    WindowSize,     \* BUCKETS_PER_COLLATION_WINDOW
    Interval,       \* collationInterval_
    BucketCount,    \* buckets of the finest file
    CoarseInterval, \* interval of the coarser file
    CoarseCount,    \* buckets of the coarser file
    ZeroTime,       \* zeroTime, the time of the sample that made the counter
    Grace,          \* the five minutes of ~StatCounter
    Earliest,       \* the oldest time stamp an event has
    MaxNow,         \* bound on the clock, and on the window forceFlush() moves
    MaxRecords,     \* bound on the accepted events
    MaxRestarts     \* bound on the times the counter is closed and reopened

ASSUME StatCounterAssumption ==
    /\ WindowSize \in Nat /\ WindowSize > 1
    /\ Interval \in Nat \ {0}
    /\ BucketCount \in Nat /\ BucketCount >= WindowSize
    /\ CoarseInterval \in Nat \ {0} /\ CoarseInterval % Interval = 0
    /\ CoarseCount \in Nat \ {0}
    /\ ZeroTime \in Nat
    /\ Earliest \in Nat /\ Earliest >= WindowSize * Interval
    /\ Grace \in Nat
    /\ MaxNow \in Nat /\ MaxRecords \in Nat /\ MaxRestarts \in Nat

VARIABLES
    now,                                          \* istattime()
    window,                                       \* collations_
    todo,                                         \* updateBucket() calls to come
    slot, firstBucket, lastBucket, lastTime,      \* the finest file
    cslot, cfirst, clast, clastTime,              \* the coarser file
    accepted,       \* by interval, the sum of the events accepted so far
    torn,           \* intervals the finest file may have lost to a restart
    lost,           \* by interval, the sum a restart forgot with the window
    restarts        \* how often the counter was closed and reopened

fineVars == <<slot, firstBucket, lastBucket, lastTime>>
coarseVars == <<cslot, cfirst, clast, clastTime>>
ghostVars == <<accepted, torn, lost, restarts>>
vars == <<now, window, todo, fineVars, coarseVars, ghostVars>>

Down(t, interval) == t - (t % interval)

Fine == INSTANCE StatFile
    WITH Collated <- TRUE, Aggregate <- FALSE, FixedCount <- 0,
         CreateTime <- Down(ZeroTime, Interval), Modes <- {"aggregate"},
         Times <- {}, Values <- {}, MaxTotal <- 0, total <- 0

Coarse == INSTANCE StatFile
    WITH Interval <- CoarseInterval, BucketCount <- CoarseCount,
         Collated <- FALSE, Aggregate <- TRUE, FixedCount <- CoarseInterval \div Interval,
         CreateTime <- Down(ZeroTime, CoarseInterval), Modes <- {"aggregate"},
         Times <- {}, Values <- {}, MaxTotal <- 0, total <- 0,
         slot <- cslot, firstBucket <- cfirst, lastBucket <- clast, lastTime <- clastTime

-----------------------------------------------------------------------------
(* Event times, and the intervals they fall into.                          *)
EventTimes == Down(Earliest, Interval) .. MaxNow + Interval

Intervals == {t \in EventTimes : t % Interval = 0}

(* The window.                                                             *)

CollationInfo(t) ==
    [time |-> t, bucket |-> [time |-> t, sum |-> 0, count |-> 0], writes |-> 0]

NoWindow == [i \in 1 .. WindowSize |-> CollationInfo(0)]

Opened(w) == w[1].time # 0

Top(w) == w[WindowSize].time

(* Slip: a bucket is found also at the start of the next one.              *)
FindCollationIndexClosed(w, t) ==
    LET hits == {i \in 1 .. WindowSize : w[i].time <= t /\ t <= w[i].time + Interval}
    IN  IF hits = {} THEN WindowSize + 1 ELSE CHOOSE i \in hits : \A j \in hits : i <= j

(* The bucket of time t, or WindowSize + 1.                                *)
FindCollationIndex(w, t) ==
    LET hits == {i \in 1 .. WindowSize : w[i].time <= t /\ t < w[i].time + Interval}
    IN  IF hits = {} THEN WindowSize + 1 ELSE CHOOSE i \in hits : \A j \in hits : i <= j

(* The window an event at t opens: t on top, the others before it.         *)
OpenWindow(t) == [i \in 1 .. WindowSize |-> CollationInfo(t - (WindowSize - i) * Interval)]

(* The window after n calls of shiftCollated().                            *)
Shifted(w, n) ==
    [i \in 1 .. WindowSize |->
        IF i + n <= WindowSize THEN w[i + n] ELSE CollationInfo(Top(w) + (i + n - WindowSize) * Interval)]

(* How often maybeShiftCollated(t) calls shiftCollated().                  *)
ShiftCount(w, t) ==
    IF Opened(w) /\ t >= Top(w) + Interval THEN (t - Top(w)) \div Interval ELSE 0

(* Slip: the window is written after it was shifted.                       *)
ShiftWritesLate(w, n) ==
    [k \in 1 .. n * (WindowSize + 1) |->
        LET v == Shifted(w, (k - 1) \div (WindowSize + 1))
            i == ((k - 1) % (WindowSize + 1)) + 1
        IN  IF i <= WindowSize THEN [file |-> "fine", bucket |-> Shifted(v, 1)[i].bucket]
            ELSE [file |-> "coarse", bucket |-> v[1].bucket]]

(* The file updates of n calls of shiftCollated(): each writes the whole   *)
(* window to the finest file and its oldest bucket to the coarser one.     *)
ShiftWrites(w, n) ==
    [k \in 1 .. n * (WindowSize + 1) |->
        LET v == Shifted(w, (k - 1) \div (WindowSize + 1))
            i == ((k - 1) % (WindowSize + 1)) + 1
        IN  IF i <= WindowSize THEN [file |-> "fine", bucket |-> v[i].bucket]
            ELSE [file |-> "coarse", bucket |-> v[1].bucket]]

CollatedUpdate(b, v, t) ==
    [time |-> IF b.count = 0 THEN t ELSE b.time, sum |-> b.sum + v, count |-> 1]

PowerOfTwo(k) == \E e \in 0 .. k : k = 2 ^ e

-----------------------------------------------------------------------------
(* The handlers.                                                           *)

Idle == todo = <<>>

(* The time stamps record() neither takes for the future nor for the past. *)
Accepts(t) == t <= now + Interval /\ t >= window[1].time

(* The window in which record() looks for the bucket of t, after opening   *)
(* or shifting it.                                                         *)
WindowFor(t) ==
    IF FindCollationIndex(window, t) <= WindowSize THEN window
    ELSE IF ~Opened(window) THEN OpenWindow(t)
    ELSE Shifted(window, ShiftCount(window, t))

ShiftsFor(t) ==
    IF FindCollationIndex(window, t) <= WindowSize THEN 0 ELSE ShiftCount(window, t)

(* The sum the window holds for the interval t.                            *)
InWindow(w, t) ==
    LET i == FindCollationIndex(w, t) IN IF i <= WindowSize THEN w[i].bucket.sum ELSE 0

Held(s) == {t \in DOMAIN accepted : t \in s /\ accepted[t] > 0}

(* record().  When the event opens the window, whatever the finest file    *)
(* holds from the window's start on will be written over.                  *)
Record(time, v) ==
    LET t == Down(time, Interval)
        w == WindowFor(t)
        i == FindCollationIndex(w, t)
        b == CollatedUpdate(w[i].bucket, v, t)
        k == w[i].writes + 1
    IN  /\ Idle
        /\ Accepts(time)
        /\ window' = [w EXCEPT ![i] = [time |-> w[i].time, bucket |-> b, writes |-> k]]
        /\ todo' = ShiftWrites(window, ShiftsFor(t))
                     \o (IF PowerOfTwo(k) THEN <<[file |-> "fine", bucket |-> b]>> ELSE <<>>)
        /\ accepted' = [accepted EXCEPT ![t] = @ + v]
        /\ torn' = IF Opened(window) THEN torn ELSE torn \cup Held(w[1].time .. MaxNow + Interval)
        /\ UNCHANGED <<now, fineVars, coarseVars, lost, restarts>>

ShiftBy(n) ==
    /\ todo' = ShiftWrites(window, n)
    /\ window' = Shifted(window, n)

(* flush() shifts so that half a window is left for the time after now.    *)
FlushCount(w) == ShiftCount(w, now + Interval * (WindowSize \div 2))

Flush ==
    /\ Idle
    /\ ShiftBy(FlushCount(window))
    /\ UNCHANGED <<now, fineVars, coarseVars, ghostVars>>

(* fullyShiftCollated().                                                   *)
FullyCount(w) == ShiftCount(w, Top(w) + Interval * WindowSize)

(* Every call moves the window ahead by its whole length; the bound on its *)
(* top keeps the model finite.                                             *)
ForceFlush ==
    /\ Idle
    /\ ShiftBy(FullyCount(window) + FlushCount(Shifted(window, FullyCount(window))))
    /\ Opened(window) /\ Top(window) <= MaxNow + Interval
    /\ UNCHANGED <<now, fineVars, coarseVars, ghostVars>>

(* ~StatCounter, and the constructor when the counter is opened again: the *)
(* buckets that were not shifted out are forgotten.                        *)
Reopen ==
    LET n == IF now - Top(window) > Grace THEN FullyCount(window)
             ELSE ShiftCount(window, now + ((Interval * WindowSize) \div 2))
        left == Shifted(window, n)
    IN  /\ Idle
        /\ Opened(window)
        /\ restarts < MaxRestarts
        /\ restarts' = restarts + 1
        /\ todo' = ShiftWrites(window, n)
        /\ window' = NoWindow
        /\ torn' = torn \cup Held({left[i].time : i \in 1 .. WindowSize})
        /\ lost' = [t \in Intervals |-> lost[t] + InWindow(left, t)]
        /\ UNCHANGED <<now, fineVars, coarseVars, accepted>>

WriteFine ==
    /\ todo # <<>> /\ Head(todo).file = "fine"
    /\ todo' = Tail(todo)
    /\ Fine!UpdateRing(Head(todo).bucket, "aggregate")
    /\ UNCHANGED <<now, window, coarseVars, ghostVars>>

WriteCoarse ==
    /\ todo # <<>> /\ Head(todo).file = "coarse"
    /\ todo' = Tail(todo)
    /\ Coarse!UpdateRing(Head(todo).bucket, "aggregate")
    /\ UNCHANGED <<now, window, fineVars, ghostVars>>

Tick ==
    /\ Idle
    /\ now < MaxNow
    /\ now' = now + 1
    /\ UNCHANGED <<window, todo, fineVars, coarseVars, ghostVars>>

-----------------------------------------------------------------------------
SumOver(f, S) == FoldFunctionOnSet(LAMBDA a, b : a + b, 0, f, S)

Init ==
    /\ now = ZeroTime
    /\ window = NoWindow
    /\ todo = <<>>
    /\ slot = [i \in Fine!FileIndices |-> Fine!NoBucket]
    /\ firstBucket = 0 /\ lastBucket = 0 /\ lastTime = 0
    /\ cslot = [i \in Coarse!FileIndices |-> Coarse!NoBucket]
    /\ cfirst = 0 /\ clast = 0 /\ clastTime = 0
    /\ accepted = [t \in Intervals |-> 0]
    /\ torn = {} /\ lost = [t \in Intervals |-> 0] /\ restarts = 0

Next ==
    \/ \E t \in EventTimes :
          /\ SumOver(accepted, Intervals) < MaxRecords
          /\ Record(t, 1)
    \/ Flush \/ ForceFlush \/ Reopen \/ WriteFine \/ WriteCoarse \/ Tick

Spec == Init /\ [][Next]_vars

-----------------------------------------------------------------------------
TypeOK ==
    /\ now \in ZeroTime .. MaxNow
    /\ window \in [1 .. WindowSize -> [time : Nat, bucket : Fine!Bucket, writes : Nat]]
    /\ todo \in Seq([file : {"fine", "coarse"}, bucket : Fine!Bucket])
    /\ slot \in [Fine!FileIndices -> Fine!Bucket]
    /\ cslot \in [Coarse!FileIndices -> Coarse!Bucket]
    /\ firstBucket \in Int /\ lastBucket \in Int /\ lastTime \in Nat
    /\ cfirst \in Int /\ clast \in Int /\ clastTime \in Nat
    /\ accepted \in [Intervals -> Nat]
    /\ torn \subseteq Intervals /\ lost \in [Intervals -> Nat]
    /\ restarts \in 0 .. MaxRestarts

(* Whatever time stamp record() accepts, the second findCollationIndex()   *)
(* (StatCounter.cpp:229) finds a bucket of exactly that interval, so the   *)
(* access to collations_[i] that follows is inside the window.             *)
RecordLandsInWindow ==
    \A time \in EventTimes : Accepts(time) =>
        LET t == Down(time, Interval)
            w == WindowFor(t)
            i == FindCollationIndex(w, t)
        IN  i <= WindowSize /\ w[i].time = t /\ w[i].bucket.time = t

(* An interval that the window has moved past.                             *)
Closed(t) == ~Opened(window) \/ t < window[1].time

(* Once an interval has left the window, and while it is in the retention, *)
(* the finest file holds exactly the events accepted for it, however often *)
(* flush(), forceFlush() and late events interleaved: the writes on powers *)
(* of two and the rewrites of the window on every shift add up to that.    *)
(* Only intervals a restart fell into are excepted.                        *)
FineExact ==
    Idle => \A t \in Intervals \ torn :
        LET ix == Fine!MapTimeToBucketIndex(t, FALSE)
        IN  Closed(t) /\ ix > lastBucket - BucketCount => Fine!SumAt(ix) = accepted[t]

(* A reader of the finest file sees more than half of the events of an     *)
(* interval that is still in the window: the file is written on the first  *)
(* event and then on every power of two, and by every shift.               *)
OpenBucketsVisible ==
    Idle => \A i \in 1 .. WindowSize :
        LET ix == Fine!MapTimeToBucketIndex(window[i].time, FALSE)
        IN  window[i].writes > 0 /\ ix > lastBucket - BucketCount
            => 2 * Fine!SumAt(ix) > window[i].bucket.sum

(* Every event is aggregated into the coarser file exactly once, though    *)
(* its bucket is written to the finest file many times: for an interval of *)
(* the coarser file, what was accepted is in its bucket, still in the      *)
(* window, or was forgotten with the window by a restart.                  *)
CoarseSum(c, f) == SumOver(f, {t \in Intervals : Down(t, CoarseInterval) = c})

AggregatedOnce(c) ==
    LET ix == Coarse!MapTimeToBucketIndex(c, FALSE)
    IN  ix > clast - CoarseCount =>
            Coarse!SumAt(ix) + CoarseSum(c, [t \in Intervals |-> InWindow(window, t)])
                + CoarseSum(c, lost) = CoarseSum(c, accepted)

CoarseTimes == {Down(t, CoarseInterval) : t \in EventTimes}

CoarseExact ==
    Idle => \A c \in CoarseTimes : c >= Down(ZeroTime, CoarseInterval) => AggregatedOnce(c)

(* Both files are exact, and the finest one shows open intervals: the many *)
(* writes of one bucket and its one aggregation never disagree about what  *)
(* record() accepted.                                                      *)
FilesExact == FineExact /\ OpenBucketsVisible /\ CoarseExact

(* README.md:42 says "All updates go into all of the buckets": an event    *)
(* the window took, also one of the seconds before the counter was made,   *)
(* is then in the bucket of the coarser file stamped with its interval, in *)
(* the window, or was forgotten with the window by a restart.              *)
Stamped(c) == {ix \in Coarse!FileIndices : cslot[ix].time = c}

AllUpdatesAggregated ==
    Idle => \A c \in CoarseTimes :
        Coarse!MapTimeToBucketIndex(c, FALSE) > clast - CoarseCount =>
            SumOver([ix \in Coarse!FileIndices |-> cslot[ix].sum], Stamped(c))
              + CoarseSum(c, [t \in Intervals |-> InWindow(window, t)])
              + CoarseSum(c, lost) = CoarseSum(c, accepted)

=============================================================================
