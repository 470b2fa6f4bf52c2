---------------------------- MODULE StatFileReads ----------------------------
(***************************************************************************)
(* The read path of a counter file: StatFile::readBuckets and what         *)
(* StatCounter::readBucketsFromFile makes of its answer.  Reads change no  *)
(* state, so they are operators whose results are checked in every state   *)
(* the writes of StatFile can reach.                                       *)
(***************************************************************************)
EXTENDS StatFile

CONSTANTS
    CounterCollated,    \* isCollated_ of the counter the file belongs to
    Clock               \* the values istattime() may have when a query arrives

ASSUME StatFileReadsAssumption == CounterCollated \in BOOLEAN /\ Clock \subseteq Nat

NumBucketsBetween(start, end, roundUp) ==
    LET up == IF roundUp /\ end % Interval # 0 THEN Interval ELSE 0
        delta == (end - (end % Interval) + up) - (start - (start % Interval))
    IN  IF delta # 0 THEN delta \div Interval ELSE 1

(* Up to cnt buckets in file order.  A first index outside the file is -1  *)
(* to mapBucketIndexToFileIndex: one bucket is dropped from cnt and the    *)
(* read starts at file index 0.                                            *)
ReadBuckets(cnt, ix, now) ==
    LET inFile == IsBucketIndexInFile(ix, lastBucket, now)
        from == IF inFile THEN FileIndex(ix) ELSE 0
        want == IF inFile THEN cnt ELSE cnt - 1
        n == IF want > BucketCount THEN BucketCount ELSE want
    IN  [k \in 1 .. n |-> slot[(from + k - 1) % BucketCount]]

InRange(b, start, end) == b.time >= start /\ b.time < end

(* The answer for a collated counter: whatever is not a sample of the      *)
(* range becomes a zero-valued bucket at the next expected time; next[k]   *)
(* is firstTime after the first k buckets.                                 *)
FillGaps(bs, start, end) ==
    LET next[k \in 0 .. Len(bs)] ==
            IF k = 0 THEN start
            ELSE (IF InRange(bs[k], start, end) THEN bs[k].time ELSE next[k - 1]) + Interval
    IN  [k \in 1 .. Len(bs) |->
            IF InRange(bs[k], start, end) THEN bs[k]
            ELSE [time |-> next[k - 1], sum |-> 0, count |-> 1]]

(* The answer for a gauge: remove_if() with BucketRemovalPredicate, which  *)
(* keeps the others in their order; kept[k] is what it leaves of the first *)
(* k buckets.                                                              *)
Sanitized(bs, start, end) ==
    LET kept[k \in 0 .. Len(bs)] ==
            IF k = 0 THEN <<>>
            ELSE IF bs[k].time >= start /\ bs[k].time <= end THEN Append(kept[k - 1], bs[k])
            ELSE kept[k - 1]
    IN  kept[Len(bs)]

(* Slip: leftovers of an earlier lap are passed on.                        *)
ReadBucketsFromFileRaw(start, end, now) ==
    ReadBuckets(NumBucketsBetween(start, end, FALSE),
                MapTimeToBucketIndex(start, FALSE), now)

ReadBucketsFromFile(start, end, now) ==
    LET bs == ReadBuckets(NumBucketsBetween(start, end, FALSE),
                          MapTimeToBucketIndex(start, FALSE), now)
    IN  IF CounterCollated
        THEN FillGaps(bs, start, end)
        ELSE Sanitized(bs, start, end)

-----------------------------------------------------------------------------
(* Query ranges: whole buckets, up to one lap past the newest data.        *)
Grid == {t \in CreateTime .. CreateTime + 2 * BucketCount * Interval : t % Interval = 0}

Queries ==
    {q \in Grid \X Grid \X Clock :
        /\ q[1] < q[2]
        /\ IsBucketIndexInFile(MapTimeToBucketIndex(q[1], FALSE), lastBucket, q[3])}

(* A query that starts inside the file returns every stored bucket of its  *)
(* range once, in time order, and nothing else: leftovers of an earlier    *)
(* lap, which rawUpdateBucket deliberately leaves in place, never show.    *)
GaugeReadExact ==
    ~Collated => \A q \in Queries :
        LET r == ReadBucketsFromFile(q[1], q[2], q[3])
        IN  /\ \A i, j \in DOMAIN r : i < j => r[i].time < r[j].time
            /\ {r[i] : i \in DOMAIN r} = {b \in {slot[k] : k \in FileIndices} : InRange(b, q[1], q[2])}

=============================================================================
