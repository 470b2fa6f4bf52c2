------------------------------ MODULE StatFile ------------------------------
(***************************************************************************)
(* One counter file of lib/StatFile.cpp: a ring of BucketCount buckets     *)
(* addressed by quantised time, and the header fields that say which part  *)
(* of the ring is live.  Writes come from rawUpdateBucket(); reads are the *)
(* operator ReadBuckets, evaluated on the same state.                      *)
(*                                                                         *)
(* A bucket is [time, sum, count]; sumSq, min and max follow sum and are   *)
(* left out.  An empty or memset bucket is all zeroes.  Trailing files     *)
(* (FILE_FLAG_IS_TRAILING) and the page cache are not part of this module. *)
(***************************************************************************)
EXTENDS Integers, Sequences

CONSTANTS
    Interval,       \* header.cfg_interval, in seconds
    BucketCount,    \* bucketCount_ = settings_.numSamples, whole pages
    CreateTime,     \* header.file_create_time, a multiple of Interval
    Collated,       \* FILE_FLAG_IS_COLLATED
    Aggregate,      \* FILE_FLAG_IS_COUNTER_AGGREGATE
    FixedCount,     \* header.fixed_count
    Modes,          \* the RawUpdateModes the callers use
    Times,          \* time stamps of the data the callers bring
    Values,         \* sums of the data the callers bring
    MaxTotal        \* bound on header.cumulative_sum

ASSUME StatFileAssumption ==
    /\ Interval \in Nat \ {0}
    /\ BucketCount \in Nat \ {0}
    /\ CreateTime \in Nat /\ CreateTime % Interval = 0
    /\ Collated \in BOOLEAN /\ Aggregate \in BOOLEAN
    /\ FixedCount \in Nat /\ (Aggregate => FixedCount > 0)
    /\ Modes \subseteq {"aggregate", "overwrite", "fillEmpty", "onlyIfEmpty"}
    /\ Times \subseteq Nat
    /\ Values \subseteq Nat
    /\ MaxTotal \in Nat

VARIABLES
    slot,           \* the buckets, by file index
    firstBucket,    \* header.first_bucket
    lastBucket,     \* header.last_bucket
    lastTime,       \* header.last_time
    total           \* header.cumulative_sum

vars == <<slot, firstBucket, lastBucket, lastTime, total>>

FileIndices == 0 .. BucketCount - 1

Bucket == [time : Nat, sum : Nat, count : Nat]

NoBucket == [time |-> 0, sum |-> 0, count |-> 0]

-----------------------------------------------------------------------------
(* Index arithmetic.  C++ division truncates towards zero.                 *)

CDiv(a, b) == IF a >= 0 THEN a \div b ELSE -((-a) \div b)

MapTimeToBucketIndex(t, roundUp) ==
    CDiv(t - CreateTime, Interval)
        + (IF roundUp /\ t % Interval # 0 THEN 1 ELSE 0)

MapBucketIndexToTime(ix) == CreateTime + ix * Interval

(* Slip: the time stamp is rounded to the nearest bucket.                  *)
TargetBucketTimeNearest(t) == ((t + (Interval \div 2)) \div Interval) * Interval

(* The time stamp a bucket is filed under.                                 *)
TargetBucketTime(t) == t - (t % Interval)

(* latest is the header's last_bucket.  A collated file also answers for   *)
(* the time between its last bucket and now.                               *)
IsBucketIndexInFile(ix, latest, now) ==
    /\ ix > latest - BucketCount
    /\ ix > latest => Collated /\ MapBucketIndexToTime(ix) < now

(* bucket_index % num_buckets, made non-negative: TLA+'s modulus.          *)
FileIndex(ix) == ix % BucketCount

-----------------------------------------------------------------------------
(* Bucket::update, and the other ways rawUpdateBucket stores its data.     *)

BucketUpdate(b, d) ==
    IF b.count = 0 THEN d
    ELSE [time |-> b.time, sum |-> b.sum + d.sum, count |-> b.count + d.count]

(* Bucket(data, targetBucketTime): the data under the time of its bucket.  *)
TimeData(data) ==
    [time |-> TargetBucketTime(data.time), sum |-> data.sum, count |-> data.count]

(* Slip: the leftover of an earlier lap is not cleared.                    *)
StoredOverLeftover(b, data, mode) == BucketUpdate(b, TimeData(data))

(* Slip: a sample replaces what its bucket holds.                          *)
StoredReplaces(b, data, mode) == TimeData(data)

(* What the bucket at the target index becomes.  b is the old content, a   *)
(* leftover of an earlier lap being cleared first.                         *)
Stored(b, data, mode) ==
    LET old == IF b.time # TargetBucketTime(data.time) THEN NoBucket ELSE b
        upd == BucketUpdate(old, TimeData(data))
    IN  IF mode = "onlyIfEmpty"
        THEN IF old.count = 0 THEN data ELSE old
        ELSE IF Collated \/ mode = "overwrite" \/ (mode = "fillEmpty" /\ old.count = 0)
        THEN data
        ELSE IF Aggregate THEN [upd EXCEPT !.count = FixedCount] ELSE upd

(* cumulative_* are updated with the data unless it was not stored.        *)
Counts(b, data, mode) ==
    \/ mode # "onlyIfEmpty"
    \/ b.time # TargetBucketTime(data.time)
    \/ b.count = 0

(* writeNewHeader().                                                       *)
Init ==
    /\ slot = [i \in FileIndices |-> NoBucket]
    /\ firstBucket = 0
    /\ lastBucket = 0
    /\ lastTime = 0
    /\ total = 0

(* The target index is at most the new last_bucket, so isBucketIndexInFile *)
(* never looks at the clock here; now is passed as 0.                      *)
UpdateRing(data, mode) ==
    LET ix == MapTimeToBucketIndex(data.time, FALSE)
        newer == ix > lastBucket
        last == IF newer THEN ix ELSE lastBucket
        first == IF newer /\ firstBucket + BucketCount <= ix
                 THEN ix - BucketCount + 1 ELSE firstBucket
    IN  /\ lastBucket' = last
        /\ lastTime' = IF newer THEN TargetBucketTime(data.time) ELSE lastTime
        /\ IF ~IsBucketIndexInFile(ix, last, 0)
           THEN /\ firstBucket' = first
                /\ UNCHANGED slot
           ELSE /\ firstBucket' = IF ix < first THEN ix ELSE first
                /\ slot' = [slot EXCEPT ![FileIndex(ix)] = Stored(@, data, mode)]

(* The cumulative statistics of the header.                                *)
UpdateTotal(data, mode) ==
    LET ix == MapTimeToBucketIndex(data.time, FALSE)
    IN  total' = IF /\ ix > lastBucket - BucketCount
                    /\ Counts(slot[FileIndex(ix)], data, mode)
                 THEN total + data.sum ELSE total

RawUpdateBucket(data, mode) == UpdateRing(data, mode) /\ UpdateTotal(data, mode)

(* What a caller brings: a sample, or (v = 0) an empty collation bucket.    *)
Data(t, v) == [time |-> t, sum |-> v, count |-> IF v = 0 THEN 0 ELSE 1]

Update ==
    \E t \in Times, v \in Values, mode \in Modes :
        /\ total + v <= MaxTotal
        /\ RawUpdateBucket(Data(t, v), mode)

Next == Update

Spec == Init /\ [][Next]_vars

-----------------------------------------------------------------------------
(* Properties.  IndexOf names the bucket index a stored bucket belongs to; *)
(* Live says that index is still within BucketCount of the last one.       *)

IndexOf(b) == MapTimeToBucketIndex(b.time, FALSE)

Used(b) == b.time # 0

Live(b, last) == Used(b) /\ IndexOf(b) > last - BucketCount

TypeOK ==
    /\ slot \in [FileIndices -> Bucket]
    /\ firstBucket \in Int
    /\ lastBucket \in Int
    /\ lastTime \in Nat
    /\ total \in Nat

(* The live range never outgrows the ring: rawUpdateBucket moves           *)
(* first_bucket up when last_bucket runs ahead of it and down when older   *)
(* data is accepted, and the two must never be BucketCount apart.          *)
WindowBound ==
    /\ firstBucket <= lastBucket
    /\ lastBucket - firstBucket < BucketCount

(* A bucket is stored in the slot its own time stamp maps to, so the test  *)
(* of bp->time() really tells leftovers of an earlier lap from live data.  *)
SlotAgreement ==
    \A k \in FileIndices : Used(slot[k]) => FileIndex(IndexOf(slot[k])) = k

(* first_bucket..last_bucket covers all live data: the dump tools walk     *)
(* exactly that range, and nothing in the ring is newer than last_bucket.  *)
RangeCoversData ==
    \A k \in FileIndices : Used(slot[k]) =>
        /\ IndexOf(slot[k]) <= lastBucket
        /\ Live(slot[k], lastBucket) => firstBucket <= IndexOf(slot[k])

(* Storing a sample never takes anything away from a bucket that is still  *)
(* within the retention after the step: only a bucket a whole lap older    *)
(* than the sample is cleared.                                             *)
NoLiveDataLost ==
    [][\A k \in FileIndices :
          slot[k].count > 0 /\ Live(slot[k], lastBucket') =>
             /\ slot'[k].time = slot[k].time
             /\ slot'[k].sum >= slot[k].sum]_vars

-----------------------------------------------------------------------------
(* The file implements the abstract history of BucketHistory: an interval  *)
(* of the window has the sum of its slot when the slot's time stamp says   *)
(* it belongs to that interval, and nothing when a leftover is still there.*)

SumAt(ix) ==
    LET b == slot[FileIndex(ix)]
    IN  IF b.time = MapBucketIndexToTime(ix) THEN b.sum ELSE 0

H == INSTANCE BucketHistory
        WITH Indices <- {MapTimeToBucketIndex(t, FALSE) : t \in Times},
             latest <- lastBucket,
             history <- [i \in lastBucket - BucketCount + 1 .. lastBucket |-> SumAt(i)]

(* Every rawUpdateBucket of a gauge or counter-aggregate file is one       *)
(* Record step of the abstract history: what is accepted is added to its   *)
(* interval exactly once and no other interval of the window changes.      *)
ImplementsHistory == H!Spec

=============================================================================
