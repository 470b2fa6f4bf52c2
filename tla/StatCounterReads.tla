--------------------------- MODULE StatCounterReads ---------------------------
(***************************************************************************)
(* The queries of an event counter: StatCounter::select with the choice of *)
(* the file, the normalisation of the range, the read and the reduction.   *)
(* A query runs on the counter's strand and changes no state, so it is an  *)
(* operator, checked in every state of StatCounter between two handlers.   *)
(***************************************************************************)
EXTENDS StatCounter, SequencesExt

CONSTANTS
    Reductions,     \* reductions[], in ascending order
    DefaultSpan,    \* the 900 seconds of a query without start or end
    LeastInterval,  \* the 10 seconds that replace an interval of zero
    Starts, Ends, Limits    \* the queries asked: start, end and max_samples

ASSUME ReadsAssumption ==
    /\ Reductions \in Seq(Nat \ {0}) /\ Reductions # <<>>
    /\ DefaultSpan \in Nat /\ LeastInterval \in Nat \ {0}
    /\ Starts \subseteq Nat /\ Ends \subseteq Nat /\ Limits \subseteq Nat

FineReads == INSTANCE StatFileReads
    WITH Collated <- TRUE, Aggregate <- FALSE, FixedCount <- 0, CounterCollated <- TRUE,
         CreateTime <- Down(ZeroTime, Interval), Modes <- {"aggregate"},
         Times <- {}, Values <- {}, MaxTotal <- 0, total <- 0, Clock <- {}

CoarseReads == INSTANCE StatFileReads
    WITH Interval <- CoarseInterval, BucketCount <- CoarseCount, CounterCollated <- TRUE,
         Collated <- FALSE, Aggregate <- TRUE, FixedCount <- CoarseInterval \div Interval,
         CreateTime <- Down(ZeroTime, CoarseInterval), Modes <- {"aggregate"},
         Times <- {}, Values <- {}, MaxTotal <- 0, total <- 0, Clock <- {},
         slot <- cslot, firstBucket <- cfirst, lastBucket <- clast, lastTime <- clastTime

-----------------------------------------------------------------------------
InFine(t) ==
    Fine!IsBucketIndexInFile(Fine!MapTimeToBucketIndex(t, FALSE), lastBucket, now)

InCoarse(t) ==
    Coarse!IsBucketIndexInFile(Coarse!MapTimeToBucketIndex(t, FALSE), clast, now)

(* The finest file that has the start of the range, and the interval the   *)
(* answer starts from, also when no file has it.                           *)
PickStatFile(start) ==
    IF InFine(start) THEN [file |-> "fine", interval |-> Interval]
    ELSE IF InCoarse(start) THEN [file |-> "coarse", interval |-> CoarseInterval]
    ELSE [file |-> "none",
          interval |-> IF start > lastTime THEN Interval ELSE CoarseInterval]

Up(t, interval) == IF t % interval = 0 THEN t ELSE Down(t, interval) + interval

Normal(start, end, interval) ==
    [start |-> Down(start, interval), end |-> Up(end, interval), interval |-> interval]

(* The shortest multiple of interval in reductions[] that is long enough,  *)
(* else the longest; 0 when the table has no multiple.                     *)
TargetInterval(span, interval, max) ==
    LET longer == SelectSeq(Reductions, LAMBDA r : r > interval /\ r % interval = 0)
        enough == SelectSeq(longer, LAMBDA r : span \div r <= max)
    IN  IF longer = <<>> THEN 0
        ELSE IF enough = <<>> THEN Last(longer) ELSE Head(enough)

(* For max = 1 the caller has start < end: interval is a divisor.          *)
NormalizeRange(start, end, fileInterval, max) ==
    LET one == Normal(start, end, end - start)
        interval == IF fileInterval = 0 THEN LeastInterval ELSE fileInterval
        first == Normal(start, end, interval)
        span == first.end - first.start
        target == TargetInterval(span, interval, max)
        spread == span \div max
    IN  IF max = 1 THEN [one EXCEPT !.interval = one.end - one.start]
        ELSE IF max = 0 \/ span \div interval <= max THEN first
        ELSE IF target # 0 THEN Normal(first.start, first.end, target)
        ELSE IF spread < interval * 2 THEN first
        ELSE Normal(first.start, first.end, spread)

(* appendReduced(): the count of a reduced event bucket is fixed.          *)
AppendReduced(out, red, cur, fixed) ==
    LET whole == IF red.count < fixed
                 THEN Fine!BucketUpdate(red, [time |-> cur, sum |-> 0, count |-> 0]) ELSE red
    IN  Append(out, IF fixed = 0 THEN red ELSE [whole EXCEPT !.count = fixed])

(* Slip: the bucket that starts a new interval is left out of it.          *)
ReduceSkips(buckets, start, interval, fixed) ==
    LET step(acc, b) ==
            LET jump == (b.time - acc.cur) \div interval
            IN  IF b.time >= acc.cur + interval
                THEN [out |-> AppendReduced(acc.out, acc.red, acc.cur, fixed),
                      cur |-> acc.cur + jump * interval,
                      red |-> [time |-> acc.cur + jump * interval, sum |-> 0, count |-> 0]]
                ELSE [acc EXCEPT !.red = IF @.count = 0 THEN [b EXCEPT !.time = acc.cur]
                                         ELSE Fine!BucketUpdate(@, b)]
        end == FoldLeft(step, [out |-> <<>>, cur |-> start, red |-> Fine!NoBucket], buckets)
    IN  IF end.red.time > 0 THEN AppendReduced(end.out, end.red, end.cur, fixed) ELSE end.out

Reduce(buckets, start, interval, fixed) ==
    LET step(acc, b) ==
            LET moves == b.time >= acc.cur + interval
                cur == IF moves THEN acc.cur + ((b.time - acc.cur) \div interval) * interval
                       ELSE acc.cur
                red == IF moves THEN Fine!NoBucket ELSE acc.red
            IN  [out |-> IF moves THEN AppendReduced(acc.out, acc.red, acc.cur, fixed)
                         ELSE acc.out,
                 cur |-> cur,
                 red |-> IF red.count = 0 THEN [b EXCEPT !.time = cur]
                         ELSE Fine!BucketUpdate(red, b)]
        end == FoldLeft(step, [out |-> <<>>, cur |-> start, red |-> Fine!NoBucket], buckets)
    IN  IF end.red.time > 0 THEN AppendReduced(end.out, end.red, end.cur, fixed) ELSE end.out

(* The range of a query, with the defaults for a missing start or end.     *)
Asked(start, end) ==
    LET e == IF end # 0 THEN end ELSE IF start = 0 THEN now ELSE start + DefaultSpan
    IN  [start |-> IF start # 0 THEN start ELSE e - DefaultSpan, end |-> e]

NormalFor(start, end, max) ==
    NormalizeRange(start, end, PickStatFile(start).interval, max)

(* select() of a range with start <= end.                                  *)
Select(start, end, max) ==
    LET pick == PickStatFile(start)
        n == NormalFor(start, end, max)
        read == CASE pick.file = "fine" -> FineReads!ReadBucketsFromFile(n.start, n.end, now)
                  [] pick.file = "coarse" -> CoarseReads!ReadBucketsFromFile(n.start, n.end, now)
                  [] pick.file = "none" -> <<>>
        each == IF pick.file = "coarse" THEN CoarseInterval \div Interval ELSE 1
    IN  IF pick.file # "none" /\ pick.interval < n.interval
        THEN Reduce(read, n.start, n.interval, (n.interval \div pick.interval) * each)
        ELSE read

-----------------------------------------------------------------------------
(* What a file holds for the buckets of one interval of an answer.         *)
FileSum(file, from, length) ==
    LET step == IF file = "fine" THEN Interval ELSE CoarseInterval
        times == {t \in from .. from + length - 1 : t % step = 0}
    IN  SumOver([t \in times |->
                    IF file = "fine" THEN Fine!SumAt(Fine!MapTimeToBucketIndex(t, FALSE))
                    ELSE Coarse!SumAt(Coarse!MapTimeToBucketIndex(t, FALSE))], times)

Queries == {q \in Starts \X Ends \X Limits :
                LET a == Asked(q[1], q[2]) IN a.start < a.end}

(* The normalised range starts in the file and lies on its grid.           *)
InFileGrid(file, n) ==
    IF file = "fine"
    THEN InFine(n.start) /\ n.start % Interval = 0 /\ n.interval % Interval = 0
    ELSE InCoarse(n.start) /\ n.start % CoarseInterval = 0 /\ n.interval % CoarseInterval = 0

(* The answer to a query about an event counter has no holes and loses     *)
(* nothing: one bucket per normalised interval, in order, each with the    *)
(* sum of what the chosen file holds for it, however the ring has wrapped  *)
(* and however far the range runs past the newest bucket.  The normalised  *)
(* range must start in the file and on its grid, which normalizeRange()    *)
(* does not promise for one sample or when reductions[] has no multiple.   *)
SelectExact ==
    Idle => \A q \in Queries :
        LET a == Asked(q[1], q[2])
            file == PickStatFile(a.start).file
            n == NormalFor(a.start, a.end, q[3])
            r == Select(a.start, a.end, q[3])
        IN  file # "none" /\ InFileGrid(file, n) =>
                /\ r # <<>>
                /\ \A i \in DOMAIN r :
                      /\ r[i].time = n.start + (i - 1) * n.interval
                      /\ r[i].sum = FileSum(file, r[i].time, n.interval)
                /\ \A t \in n.start + Len(r) * n.interval .. n.end - 1 :
                      FileSum(file, t, 1) = 0

=============================================================================
