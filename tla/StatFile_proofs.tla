--------------------------- MODULE StatFile_proofs ---------------------------
(***************************************************************************)
(* For every interval, ring size and creation time: the header's range     *)
(* covers the live data and never outgrows the ring, buckets sit in the    *)
(* slot of their own time stamp, and a file that adds up (gauge or counter *)
(* aggregate) implements the abstract history of BucketHistory.            *)
(***************************************************************************)
EXTENDS StatFileReads, WellFoundedInduction, TLAPS

(* Samples older than the file itself are excluded: for them the           *)
(* truncating division of mapTimeToBucketIndex is not a quantisation.      *)
NotBeforeCreation == \A t \in Times : t >= CreateTime

-----------------------------------------------------------------------------
(* Integer division, for a divisor that is a parameter.                    *)

(* What \div and % mean.                                                   *)
LEMMA DivMod ==
    ASSUME NEW a \in Int, NEW b \in Nat \ {0}
    PROVE  /\ a \div b \in Int
           /\ a % b \in 0 .. b - 1
           /\ a = b * (a \div b) + (a % b)
  BY SMT

(* Distinct multiples of b are at least b apart.                           *)
LEMMA MultiplesApart ==
    ASSUME NEW b \in Nat \ {0}, NEW x \in Int, NEW y \in Int, x < y
    PROVE  b * x + b <= b * y
  BY SMT

(* Quotient and remainder are unique.                                      *)
LEMMA DivUnique ==
    ASSUME NEW b \in Nat \ {0}, NEW q \in Int, NEW r \in 0 .. b - 1,
           NEW a \in Int, a = b * q + r
    PROVE  a \div b = q /\ a % b = r
<1>1. a = b * (a \div b) + (a % b) /\ a \div b \in Int /\ a % b \in 0 .. b - 1
  BY DivMod
<1>2. ~(a \div b < q)
  BY <1>1, MultiplesApart
<1>3. ~(q < a \div b)
  BY <1>1, MultiplesApart
<1>4. QED
  BY <1>1, <1>2, <1>3

(* Two bucket indices less than a ring apart share a slot only when equal. *)
LEMMA SameSlotSameIndex ==
    ASSUME NEW n \in Nat \ {0}, NEW i \in Int, NEW j \in Int,
           i % n = j % n, i - j < n, j - i < n
    PROVE  i = j
<1>1. /\ i = n * (i \div n) + (i % n) /\ i \div n \in Int
      /\ j = n * (j \div n) + (j % n) /\ j \div n \in Int
  BY DivMod
<1>2. ~(i \div n < j \div n)
  BY <1>1, MultiplesApart
<1>3. ~(j \div n < i \div n)
  BY <1>1, MultiplesApart
<1>4. QED
  BY <1>1, <1>2, <1>3

-----------------------------------------------------------------------------
(* Time and bucket index.                                                  *)

(* An index is an integer, its slot is one of the ring.                    *)
LEMMA IndexType ==
    ASSUME NEW t \in Nat
    PROVE  MapTimeToBucketIndex(t, FALSE) \in Int
<1>1. (t - CreateTime) \div Interval \in Int /\ (-(t - CreateTime)) \div Interval \in Int
  BY StatFileAssumption, DivMod
<1>2. QED
  BY <1>1, StatFileAssumption DEF MapTimeToBucketIndex, CDiv

(* A bucket index is taken to a slot of the ring.                          *)
LEMMA FileIndexType ==
    ASSUME NEW ix \in Int
    PROVE  FileIndex(ix) \in FileIndices
  BY StatFileAssumption, DivMod DEF FileIndex, FileIndices

(* From the creation time on, index and quantised time determine each      *)
(* other: the target time of a sample is the time of its bucket index.     *)
LEMMA IndexIsQuantisedTime ==
    ASSUME NEW t \in Nat, t >= CreateTime
    PROVE  /\ MapTimeToBucketIndex(t, FALSE) \in Nat
           /\ TargetBucketTime(t) \in Nat
           /\ TargetBucketTime(t) >= CreateTime
           /\ TargetBucketTime(t) = MapBucketIndexToTime(MapTimeToBucketIndex(t, FALSE))
<1> DEFINE c == CreateTime \div Interval
           q == t \div Interval
           r == t % Interval
<1>1. /\ CreateTime = Interval * c /\ c \in Int
      /\ t = Interval * q + r /\ q \in Int /\ r \in 0 .. Interval - 1
  BY StatFileAssumption, DivMod
<1> HIDE DEF c, q, r
<1>2. t - CreateTime = Interval * (q - c) + r
  BY <1>1, StatFileAssumption, SMT
<1>3. (t - CreateTime) \div Interval = q - c
  BY <1>1, <1>2, DivUnique, StatFileAssumption
<1>4. MapTimeToBucketIndex(t, FALSE) = q - c
  BY <1>1, <1>3, StatFileAssumption DEF MapTimeToBucketIndex, CDiv
<1>5. q - c >= 0
  <2>1. SUFFICES ASSUME q < c PROVE FALSE
    BY <1>1
  <2>2. Interval * q + Interval <= Interval * c
    BY <1>1, <2>1, MultiplesApart, StatFileAssumption
  <2>3. QED
    BY <1>1, <2>2, StatFileAssumption
<1>6. TargetBucketTime(t) = Interval * q
  BY <1>1, StatFileAssumption DEF TargetBucketTime, r
<1>7. MapBucketIndexToTime(q - c) = Interval * q
  BY <1>1, StatFileAssumption, SMT DEF MapBucketIndexToTime
<1>8. (q - c) * Interval >= 0
  BY <1>1, <1>5, StatFileAssumption, SMT
<1>9. TargetBucketTime(t) = MapBucketIndexToTime(MapTimeToBucketIndex(t, FALSE))
  BY <1>4, <1>6, <1>7
<1>10. Interval * q = CreateTime + (q - c) * Interval
  BY <1>7 DEF MapBucketIndexToTime
<1>11. TargetBucketTime(t) \in Int /\ TargetBucketTime(t) >= CreateTime
  BY <1>1, <1>6, <1>8, <1>10, StatFileAssumption
<1>12. MapTimeToBucketIndex(t, FALSE) \in Nat
  <2>1. q \in Int /\ c \in Int
    BY <1>1
  <2>2. q - c \in Nat
    BY <2>1, <1>5
  <2>3. QED
    BY <2>2, <1>4
<1>13. TargetBucketTime(t) \in Nat
  BY <1>11, StatFileAssumption
<1>14. QED
  BY <1>9, <1>11, <1>12, <1>13

(* mapBucketIndexToTime and mapTimeToBucketIndex are inverse to each other. *)
LEMMA IndexOfBucketTime ==
    ASSUME NEW n \in Nat
    PROVE  MapTimeToBucketIndex(MapBucketIndexToTime(n), FALSE) = n
<1>1. n * Interval \in Nat /\ n * Interval = Interval * n + 0
  BY StatFileAssumption, SMT
<1>2. (n * Interval) \div Interval = n
  BY <1>1, DivUnique, StatFileAssumption
<1>3. QED
  BY <1>1, <1>2, StatFileAssumption DEF MapTimeToBucketIndex, MapBucketIndexToTime, CDiv

(* A sample and the bucket it is filed under have the same index.          *)
LEMMA IndexOfTarget ==
    ASSUME NEW t \in Nat, t >= CreateTime
    PROVE  MapTimeToBucketIndex(TargetBucketTime(t), FALSE) = MapTimeToBucketIndex(t, FALSE)
  BY IndexIsQuantisedTime, IndexOfBucketTime

-----------------------------------------------------------------------------
(* What rawUpdateBucket puts into a slot is a bucket of the target index.  *)
LEMMA StoredBucket ==
    ASSUME NEW b \in Bucket, NEW t \in Nat, t >= CreateTime, NEW v \in Nat,
           NEW mode \in Modes
    PROVE  /\ Stored(b, Data(t, v), mode) \in Bucket
           /\ Stored(b, Data(t, v), mode).time \in {t, TargetBucketTime(t)}
<1> DEFINE old == IF b.time # TargetBucketTime(t) THEN NoBucket ELSE b
           d == TimeData(Data(t, v))
           upd == BucketUpdate(old, d)
<1>1. Data(t, v) \in Bucket /\ Data(t, v).time = t
  BY DEF Data, Bucket
<1>2. d \in Bucket /\ d.time = TargetBucketTime(t)
  BY IndexIsQuantisedTime DEF Data, Bucket, TimeData
<1>3. old \in Bucket /\ (old.count # 0 => old.time = TargetBucketTime(t))
  BY DEF Bucket, NoBucket
<1>4. upd \in Bucket /\ upd.time = TargetBucketTime(t)
  <2> HIDE DEF old, d
  <2>1. CASE old.count = 0
    BY <1>2, <2>1 DEF BucketUpdate
  <2>2. CASE old.count # 0
    BY <1>2, <1>3, <2>2 DEF BucketUpdate, Bucket
  <2>3. QED
    BY <2>1, <2>2
<1>5. [upd EXCEPT !.count = FixedCount] \in Bucket
      /\ [upd EXCEPT !.count = FixedCount].time = TargetBucketTime(t)
  <2> HIDE DEF upd
  <2>1. QED
    BY <1>4, StatFileAssumption DEF Bucket
<1>6. \/ Stored(b, Data(t, v), mode) = Data(t, v)
      \/ Stored(b, Data(t, v), mode) = upd
      \/ Stored(b, Data(t, v), mode) = [upd EXCEPT !.count = FixedCount]
      \/ Stored(b, Data(t, v), mode) = old /\ old.count # 0
  BY <1>1, Zenon DEF Stored
<1>7. QED
  <2> HIDE DEF old, upd
  <2>1. QED
    BY <1>1, <1>3, <1>4, <1>5, <1>6

-----------------------------------------------------------------------------
(* The inductive invariant.  WindowBound and RangeCoversData need to know  *)
(* that every slot in use holds a bucket of its own index, which in turn   *)
(* needs that no stored time stamp precedes the file.                      *)
StoredAfterCreation ==
    \A k \in FileIndices : Used(slot[k]) => slot[k].time >= CreateTime

IInv ==
    /\ TypeOK
    /\ WindowBound
    /\ StoredAfterCreation
    /\ SlotAgreement
    /\ RangeCoversData

(* A new file.                                                             *)
LEMMA InitIInv == Init => IInv
<1> SUFFICES ASSUME Init PROVE IInv
  OBVIOUS
<1>1. TypeOK
  BY DEF Init, TypeOK, Bucket, NoBucket
<1>2. \A k \in FileIndices : ~Used(slot[k])
  BY DEF Init, Used, NoBucket
<1>3. WindowBound
  BY StatFileAssumption DEF Init, WindowBound
<1>4. QED
  BY <1>1, <1>2, <1>3 DEF IInv, StoredAfterCreation, SlotAgreement, RangeCoversData

(* One update, accepted or refused, preserves it.                          *)
LEMMA UpdateIInv ==
    ASSUME IInv, NotBeforeCreation, NEW t \in Times, NEW v \in Values, NEW mode \in Modes,
           RawUpdateBucket(Data(t, v), mode)
    PROVE  IInv'
<1> DEFINE ix == MapTimeToBucketIndex(t, FALSE)
           k0 == FileIndex(ix)
           b0 == Stored(slot[k0], Data(t, v), mode)
           newer == ix > lastBucket
           last == IF newer THEN ix ELSE lastBucket
           first == IF newer /\ firstBucket + BucketCount <= ix
                    THEN ix - BucketCount + 1 ELSE firstBucket
<1>1. /\ t \in Nat /\ t >= CreateTime /\ v \in Nat /\ Data(t, v).time = t
      /\ BucketCount \in Nat \ {0}
  BY StatFileAssumption DEF NotBeforeCreation, Data
<1>2. ix \in Int /\ k0 \in FileIndices
  BY <1>1, IndexType, FileIndexType
<1>3. /\ slot \in [FileIndices -> Bucket] /\ firstBucket \in Int /\ lastBucket \in Int
      /\ lastTime \in Nat /\ total \in Nat
  BY DEF IInv, TypeOK
<1>4. /\ b0 \in Bucket /\ b0.time >= CreateTime
      /\ IndexOf(b0) = ix
  <2>1. b0 \in Bucket /\ b0.time \in {t, TargetBucketTime(t)}
    BY <1>1, <1>2, <1>3, StoredBucket
  <2>2. TargetBucketTime(t) >= CreateTime
    BY <1>1, IndexIsQuantisedTime
  <2>3. MapTimeToBucketIndex(TargetBucketTime(t), FALSE) = ix
    BY <1>1, IndexOfTarget
  <2> HIDE DEF b0, ix
  <2>4. b0.time >= CreateTime
    BY <1>1, <2>1, <2>2
  <2>5. IndexOf(b0) = ix
    BY <2>1, <2>3 DEF ix, IndexOf
  <2>6. QED
    BY <2>1, <2>4, <2>5
<1>5. /\ lastBucket' = last
      /\ lastTime' = IF newer THEN TargetBucketTime(t) ELSE lastTime
      /\ \/ /\ ix <= last - BucketCount
            /\ firstBucket' = first
            /\ slot' = slot /\ total' = total
         \/ /\ ix > last - BucketCount
            /\ firstBucket' = IF ix < first THEN ix ELSE first
            /\ slot' = [slot EXCEPT ![k0] = b0]
            /\ total' \in {total, total + v}
  <2>1. last \in Int /\ ix <= last
    <3> HIDE DEF ix, k0
    <3>1. QED
      BY <1>2, <1>3
  <2>2. IsBucketIndexInFile(ix, last, 0) <=> ix > last - BucketCount
    <3> HIDE DEF last, ix
    <3>1. QED
      BY <1>1, <1>2, <2>1 DEF IsBucketIndexInFile
  <2>3. /\ lastBucket' = last
        /\ lastTime' = IF newer THEN TargetBucketTime(t) ELSE lastTime
        /\ IF ~IsBucketIndexInFile(ix, last, 0)
           THEN /\ firstBucket' = first
                /\ slot' = slot
           ELSE /\ firstBucket' = IF ix < first THEN ix ELSE first
                /\ slot' = [slot EXCEPT ![k0] = b0]
    BY <1>1, Zenon DEF RawUpdateBucket, UpdateRing
  <2>6. total' = IF ix > lastBucket - BucketCount /\ Counts(slot[k0], Data(t, v), mode)
                 THEN total + Data(t, v).sum ELSE total
    BY <1>1, Zenon DEF RawUpdateBucket, UpdateTotal
  <2>7. ix <= last - BucketCount => ~(ix > lastBucket - BucketCount)
    <3> HIDE DEF ix
    <3>1. QED
      BY <1>1, <1>2, <1>3
  <2>4. Data(t, v).sum = v
    BY DEF Data
  <2> HIDE DEF last, ix, first, newer, k0, b0
  <2>5. QED
    BY <1>1, <1>2, <1>3, <2>1, <2>2, <2>3, <2>4, <2>6, <2>7
<1>6. \A k \in FileIndices : Used(slot[k]) =>
         /\ slot[k].time >= CreateTime
         /\ FileIndex(IndexOf(slot[k])) = k
         /\ IndexOf(slot[k]) <= lastBucket
         /\ IndexOf(slot[k]) > lastBucket - BucketCount => firstBucket <= IndexOf(slot[k])
         /\ IndexOf(slot[k]) \in Int
  BY <1>3, IndexType DEF IInv, StoredAfterCreation, SlotAgreement, RangeCoversData, Live, Bucket,
                         IndexOf
<1>7. firstBucket <= lastBucket /\ lastBucket - firstBucket < BucketCount
  BY DEF IInv, WindowBound
<1> HIDE DEF ix, k0, b0
<1>8. \A k \in FileIndices : slot'[k] = slot[k] \/ (k = k0 /\ slot'[k] = b0 /\ ix > last - BucketCount)
  BY <1>2, <1>3, <1>5
<1>9. TypeOK'
  <2>1. TargetBucketTime(t) \in Nat
    BY <1>1, IndexIsQuantisedTime
  <2>2. slot' \in [FileIndices -> Bucket]
    BY <1>2, <1>3, <1>4, <1>5
  <2>3. QED
    BY <1>1, <1>2, <1>3, <1>5, <2>1, <2>2 DEF TypeOK
<1>10. WindowBound'
  BY <1>1, <1>2, <1>3, <1>5, <1>7 DEF WindowBound
<1>11. StoredAfterCreation'
  BY <1>4, <1>6, <1>8 DEF StoredAfterCreation, Used
<1>12. SlotAgreement'
  BY <1>4, <1>6, <1>8 DEF SlotAgreement, Used, k0, IndexOf
<1>13. RangeCoversData'
  <2> SUFFICES ASSUME NEW k \in FileIndices, Used(slot[k])'
               PROVE  /\ IndexOf(slot'[k]) <= lastBucket'
                      /\ Live(slot'[k], lastBucket') => firstBucket' <= IndexOf(slot'[k])
    BY DEF RangeCoversData, IndexOf, Live, Used
  <2>1. CASE slot'[k] = slot[k]
    BY <1>1, <1>2, <1>3, <1>5, <1>6, <1>7, <2>1 DEF Used, Live
  <2>2. CASE slot'[k] = b0 /\ ix > last - BucketCount
    BY <1>1, <1>2, <1>3, <1>4, <1>5, <2>2
  <2>3. QED
    BY <1>8, <2>1, <2>2
<1>14. QED
  BY <1>9, <1>10, <1>11, <1>12, <1>13 DEF IInv

(* For samples no older than the file, in every update mode and for every  *)
(* ring size: the header's range covers the live data, never outgrows the  *)
(* ring, and every bucket sits in the slot of its own time stamp.          *)
THEOREM RingCorrect ==
    ASSUME NotBeforeCreation
    PROVE  Spec => [](TypeOK /\ WindowBound /\ SlotAgreement /\ RangeCoversData)
<1>1. IInv /\ [Next]_vars => IInv'
  <2> SUFFICES ASSUME IInv, [Next]_vars PROVE IInv'
    OBVIOUS
  <2>1. CASE Next
    BY <2>1, UpdateIInv DEF Next, Update
  <2>2. CASE UNCHANGED vars
    BY <2>2 DEF vars, IInv, TypeOK, WindowBound, StoredAfterCreation, SlotAgreement,
                RangeCoversData, Used, Live, IndexOf
  <2>3. QED
    BY <2>1, <2>2
<1>2. IInv => TypeOK /\ WindowBound /\ SlotAgreement /\ RangeCoversData
  BY DEF IInv
<1>3. QED
  BY InitIInv, <1>1, <1>2, PTL DEF Spec

-----------------------------------------------------------------------------
(* Files that add up: gauges, and the coarse files of collated counters,   *)
(* both written with updateBucket only.                                    *)
AddsUp == ~Collated /\ Modes = {"aggregate"}

(* What they keep in addition: a bucket without samples has no sum, and    *)
(* every time stamp is the time of a bucket index.                         *)
IInv2 ==
    /\ IInv
    /\ lastBucket >= 0
    /\ \A k \in FileIndices :
          /\ slot[k].count = 0 => slot[k].sum = 0
          /\ Used(slot[k]) => slot[k].time = MapBucketIndexToTime(IndexOf(slot[k]))

(* Storing adds the value to what its interval had.                        *)
LEMMA StoredAdds ==
    ASSUME AddsUp, NEW b \in Bucket, b.count = 0 => b.sum = 0,
           NEW t \in Nat, t >= CreateTime, NEW v \in Nat
    PROVE  LET s == Stored(b, Data(t, v), "aggregate")
           IN  /\ s.time = TargetBucketTime(t)
               /\ s.sum = (IF b.time = TargetBucketTime(t) THEN b.sum ELSE 0) + v
               /\ s.count = 0 => s.sum = 0
<1> DEFINE old == IF b.time # TargetBucketTime(t) THEN NoBucket ELSE b
           d == TimeData(Data(t, v))
           upd == BucketUpdate(old, d)
           s == Stored(b, Data(t, v), "aggregate")
<1>1. Data(t, v).time = t
  BY DEF Data
<1>2. d \in Bucket /\ d.time = TargetBucketTime(t) /\ d.sum = v /\ (d.count = 0 => v = 0)
  <2>1. TargetBucketTime(t) \in Nat
    BY IndexIsQuantisedTime
  <2>2. d = [time |-> TargetBucketTime(t), sum |-> v, count |-> IF v = 0 THEN 0 ELSE 1]
    BY DEF Data, TimeData
  <2> HIDE DEF d
  <2>3. QED
    BY <2>1, <2>2 DEF Bucket
<1>3. /\ old \in Bucket
      /\ old.count = 0 => old.sum = 0
      /\ old.count # 0 => old.time = TargetBucketTime(t)
      /\ old.sum = IF b.time = TargetBucketTime(t) THEN b.sum ELSE 0
  BY DEF Bucket, NoBucket
<1>4. s = IF Aggregate THEN [upd EXCEPT !.count = FixedCount] ELSE upd
  BY <1>1, Zenon DEF Stored, AddsUp
<1> HIDE DEF old, d
<1>5. /\ upd \in Bucket /\ upd.time = TargetBucketTime(t)
      /\ upd.sum = old.sum + v
      /\ upd.count = 0 => upd.sum = 0
  <2>1. CASE old.count = 0
    BY <1>2, <1>3, <2>1 DEF BucketUpdate, Bucket
  <2>2. CASE old.count # 0
    BY <1>2, <1>3, <2>2 DEF BucketUpdate, Bucket
  <2>3. QED
    BY <2>1, <2>2
<1> HIDE DEF upd
<1>6. s.time = upd.time /\ s.sum = upd.sum /\ (s.count = 0 => upd.count = 0)
  <2>1. CASE Aggregate
    BY <1>4, <1>5, <2>1, StatFileAssumption DEF Bucket
  <2>2. CASE ~Aggregate
    BY <1>4, <2>2
  <2>3. QED
    BY <2>1, <2>2
<1> HIDE DEF s
<1>7. QED
  BY <1>3, <1>5, <1>6 DEF s

(* No slot answers for an interval newer than the last one.                *)
LEMMA NothingNewer ==
    ASSUME IInv2, NEW j \in Int, j > lastBucket
    PROVE  SumAt(j) = 0
<1>1. j \in Nat /\ j # 0 /\ lastBucket \in Int
  BY DEF IInv2, IInv, TypeOK
<1>2. MapBucketIndexToTime(j) # 0
  BY <1>1, StatFileAssumption, SMT DEF MapBucketIndexToTime
<1>3. FileIndex(j) \in FileIndices
  BY FileIndexType
<1>4. SUFFICES ASSUME slot[FileIndex(j)].time = MapBucketIndexToTime(j) PROVE FALSE
  BY DEF SumAt
<1>5. IndexOf(slot[FileIndex(j)]) = j
  BY <1>1, <1>4, IndexOfBucketTime DEF IndexOf
<1>6. j <= lastBucket
  BY <1>2, <1>3, <1>4, <1>5 DEF IInv2, IInv, RangeCoversData, Used
<1>7. QED
  BY <1>1, <1>6

(* One update, seen slot by slot and interval by interval.                 *)
LEMMA UpdateAddsUp ==
    ASSUME AddsUp, NotBeforeCreation, IInv2, NEW t \in Times, NEW v \in Values,
           RawUpdateBucket(Data(t, v), "aggregate")
    PROVE  LET ix == MapTimeToBucketIndex(t, FALSE)
           IN  /\ ix \in Nat
               /\ lastBucket' = IF ix > lastBucket THEN ix ELSE lastBucket
               /\ \A k \in FileIndices :
                     \/ slot'[k] = slot[k] /\ ~(k = FileIndex(ix) /\ ix > lastBucket' - BucketCount)
                     \/ /\ k = FileIndex(ix) /\ ix > lastBucket' - BucketCount
                        /\ slot'[k].time = MapBucketIndexToTime(ix)
                        /\ slot'[k].sum = SumAt(ix) + v
                        /\ slot'[k].count = 0 => slot'[k].sum = 0
<1> DEFINE ix == MapTimeToBucketIndex(t, FALSE)
           k0 == FileIndex(ix)
           last == IF ix > lastBucket THEN ix ELSE lastBucket
           b0 == Stored(slot[k0], Data(t, v), "aggregate")
<1>1. t \in Nat /\ t >= CreateTime /\ v \in Nat /\ Data(t, v).time = t
      /\ BucketCount \in Nat \ {0}
  BY StatFileAssumption DEF NotBeforeCreation, Data
<1>2. ix \in Nat /\ TargetBucketTime(t) = MapBucketIndexToTime(ix)
  BY <1>1, IndexIsQuantisedTime
<1>3. k0 \in FileIndices
  BY <1>1, IndexType, FileIndexType
<1>4. slot \in [FileIndices -> Bucket] /\ lastBucket \in Int
  BY DEF IInv2, IInv, TypeOK
<1>5. slot[k0].count = 0 => slot[k0].sum = 0
  BY <1>3 DEF IInv2
<1>6. /\ b0.time = MapBucketIndexToTime(ix)
      /\ b0.sum = SumAt(ix) + v
      /\ b0.count = 0 => b0.sum = 0
  <2>1. slot[k0] \in Bucket
    BY <1>3, <1>4
  <2>2. /\ b0.time = TargetBucketTime(t)
        /\ b0.sum = (IF slot[k0].time = TargetBucketTime(t) THEN slot[k0].sum ELSE 0) + v
        /\ b0.count = 0 => b0.sum = 0
    BY <1>1, <1>5, <2>1, StoredAdds
  <2>3. QED
    BY <1>2, <2>2 DEF SumAt
<1>7. /\ lastBucket' = last
      /\ IF ~IsBucketIndexInFile(ix, last, 0)
         THEN slot' = slot
         ELSE slot' = [slot EXCEPT ![k0] = b0]
  BY <1>1, Zenon DEF RawUpdateBucket, UpdateRing
<1>8. IsBucketIndexInFile(ix, last, 0) <=> ix > last - BucketCount
  <2>1. last \in Int /\ ix <= last
    <3> HIDE DEF ix
    <3>1. QED
      BY <1>2, <1>4
  <2> HIDE DEF last, ix
  <2>2. QED
    BY <1>1, <1>2, <2>1 DEF IsBucketIndexInFile
<1> HIDE DEF b0, ix, k0, last
<1>9. lastBucket' = IF ix > lastBucket THEN ix ELSE lastBucket
  BY <1>7 DEF last
<1>10. ASSUME NEW k \in FileIndices
       PROVE  \/ slot'[k] = slot[k] /\ ~(k = k0 /\ ix > lastBucket' - BucketCount)
              \/ /\ k = k0 /\ ix > lastBucket' - BucketCount
                 /\ slot'[k].time = MapBucketIndexToTime(ix)
                 /\ slot'[k].sum = SumAt(ix) + v
                 /\ slot'[k].count = 0 => slot'[k].sum = 0
  BY <1>3, <1>4, <1>6, <1>7, <1>8
<1>11. QED
  BY <1>2, <1>9, <1>10 DEF ix, k0

(* A new file.                                                             *)
LEMMA InitIInv2 == Init => IInv2
<1> SUFFICES ASSUME Init PROVE IInv2
  OBVIOUS
<1>1. \A k \in FileIndices : slot[k].sum = 0 /\ ~Used(slot[k])
  BY DEF Init, Used, NoBucket
<1>2. lastBucket >= 0
  BY DEF Init
<1>3. QED
  BY <1>1, <1>2, InitIInv DEF IInv2

(* rawUpdateBucket() with what record() gives it.                          *)
LEMMA UpdateIInv2 ==
    ASSUME AddsUp, NotBeforeCreation, IInv2, NEW t \in Times, NEW v \in Values,
           RawUpdateBucket(Data(t, v), "aggregate")
    PROVE  IInv2'
<1> DEFINE ix == MapTimeToBucketIndex(t, FALSE)
<1>1. IInv'
  BY UpdateIInv DEF IInv2, AddsUp
<1>2. /\ ix \in Nat
      /\ lastBucket' = IF ix > lastBucket THEN ix ELSE lastBucket
      /\ \A k \in FileIndices :
            \/ slot'[k] = slot[k]
            \/ /\ slot'[k].time = MapBucketIndexToTime(ix)
               /\ slot'[k].count = 0 => slot'[k].sum = 0
  BY UpdateAddsUp
<1>3. MapTimeToBucketIndex(MapBucketIndexToTime(ix), FALSE) = ix
  BY <1>2, IndexOfBucketTime
<1> HIDE DEF ix
<1>4. lastBucket' >= 0
  BY <1>2 DEF IInv2, IInv, TypeOK
<1>5. ASSUME NEW k \in FileIndices
      PROVE  /\ slot'[k].count = 0 => slot'[k].sum = 0
             /\ Used(slot'[k]) => slot'[k].time = MapBucketIndexToTime(IndexOf(slot'[k]))
  <2>1. CASE slot'[k] = slot[k]
    BY <2>1 DEF IInv2
  <2>2. CASE slot'[k].time = MapBucketIndexToTime(ix) /\ (slot'[k].count = 0 => slot'[k].sum = 0)
    BY <1>3, <2>2 DEF IndexOf
  <2>3. QED
    BY <1>2, <2>1, <2>2
<1>6. QED
  BY <1>1, <1>4, <1>5 DEF IInv2, Used, IndexOf

(* Every step keeps it.                                                    *)
LEMMA NextIInv2 ==
    ASSUME AddsUp, NotBeforeCreation, IInv2, [Next]_vars
    PROVE  IInv2'
<1>1. CASE Next
  BY <1>1, UpdateIInv2 DEF Next, Update, AddsUp
<1>2. CASE UNCHANGED vars
  BY <1>2 DEF vars, IInv2, IInv, TypeOK, WindowBound, StoredAfterCreation, SlotAgreement,
              RangeCoversData, Used, Live, IndexOf
<1>3. QED
  BY <1>1, <1>2

(* In the window after an update, the interval of the sample has grown by  *)
(* its value and every other interval is as it was (or is new and empty).  *)
LEMMA WindowAfterUpdate ==
    ASSUME AddsUp, NotBeforeCreation, IInv2, NEW t \in Times, NEW v \in Values,
           RawUpdateBucket(Data(t, v), "aggregate"),
           NEW j \in lastBucket' - BucketCount + 1 .. lastBucket'
    PROVE  SumAt(j)' = (IF j > lastBucket THEN 0 ELSE SumAt(j))
                         + (IF j = MapTimeToBucketIndex(t, FALSE) THEN v ELSE 0)
<1> DEFINE ix == MapTimeToBucketIndex(t, FALSE)
<1>1. /\ BucketCount \in Nat \ {0} /\ lastBucket \in Int /\ slot \in [FileIndices -> Bucket]
      /\ v \in Nat
  BY StatFileAssumption DEF IInv2, IInv, TypeOK
<1>2. /\ ix \in Nat
      /\ lastBucket' = IF ix > lastBucket THEN ix ELSE lastBucket
      /\ \A k \in FileIndices :
            \/ slot'[k] = slot[k] /\ ~(k = FileIndex(ix) /\ ix > lastBucket' - BucketCount)
            \/ /\ k = FileIndex(ix) /\ ix > lastBucket' - BucketCount
               /\ slot'[k].time = MapBucketIndexToTime(ix)
               /\ slot'[k].sum = SumAt(ix) + v
  BY UpdateAddsUp
<1> HIDE DEF ix
<1>3. lastBucket' \in Int /\ j \in Int
  BY <1>1, <1>2
<1>4. FileIndex(j) \in FileIndices
  BY <1>3, FileIndexType
<1>5. SumAt(j) \in Nat /\ (j > lastBucket => SumAt(j) = 0)
  BY <1>1, <1>3, <1>4, NothingNewer DEF SumAt, Bucket
<1>6. SumAt(j)' = IF slot'[FileIndex(j)].time = MapBucketIndexToTime(j)
                  THEN slot'[FileIndex(j)].sum ELSE 0
  BY DEF SumAt, FileIndex, MapBucketIndexToTime
<1>7. CASE j = ix
  <2>1. ix > lastBucket' - BucketCount
    BY <1>1, <1>2, <1>3, <1>7
  <2>2. slot'[FileIndex(j)].time = MapBucketIndexToTime(j) /\ slot'[FileIndex(j)].sum = SumAt(j) + v
    BY <1>2, <1>4, <1>7, <2>1
  <2>3. SumAt(j)' = SumAt(j) + v
    BY <1>6, <2>2
  <2>4. QED
    BY <1>5, <1>7, <2>3 DEF ix
<1>8. CASE j # ix
  <2>1. ~(FileIndex(j) = FileIndex(ix) /\ ix > lastBucket' - BucketCount)
    <3>1. SUFFICES ASSUME FileIndex(j) = FileIndex(ix), ix > lastBucket' - BucketCount PROVE FALSE
      OBVIOUS
    <3>2. j - ix < BucketCount /\ ix - j < BucketCount
      BY <1>1, <1>2, <1>3, <3>1
    <3>3. j % BucketCount = ix % BucketCount
      BY <3>1, Zenon DEF FileIndex
    <3>4. ix \in Int /\ j \in Int /\ BucketCount \in Nat \ {0}
      BY <1>1, <1>2, <1>3
    <3>5. j = ix
      BY <3>2, <3>3, <3>4, SameSlotSameIndex
    <3>6. QED
      BY <1>8, <3>5
  <2>2. slot'[FileIndex(j)] = slot[FileIndex(j)]
    BY <1>2, <1>4, <2>1
  <2>3. SumAt(j)' = SumAt(j)
    BY <1>6, <2>2 DEF SumAt
  <2>4. QED
    BY <1>5, <1>8, <2>3 DEF ix
<1>9. QED
  BY <1>7, <1>8

(* A file that adds up implements the abstract history: its window holds   *)
(* for each interval the sum of the samples accepted for it.               *)
THEOREM FileImplementsHistory ==
    ASSUME AddsUp, NotBeforeCreation
    PROVE  Spec => ImplementsHistory
<1> DEFINE hist == [i \in lastBucket - BucketCount + 1 .. lastBucket |-> SumAt(i)]
<1>1. Init => H!Init
  <2> SUFFICES ASSUME Init PROVE H!Init
    OBVIOUS
  <2>1. lastBucket = 0
    BY DEF Init
  <2>2. ASSUME NEW i \in lastBucket - BucketCount + 1 .. lastBucket PROVE SumAt(i) = 0
    <3>1. FileIndex(i) \in FileIndices
      BY <2>1, StatFileAssumption, FileIndexType
    <3>2. QED
      BY <3>1 DEF Init, SumAt, NoBucket
  <2>3. QED
    BY <2>1, <2>2 DEF H!Init, H!Window
<1>2. ASSUME IInv2, NEW t \in Times, NEW v \in Values, RawUpdateBucket(Data(t, v), "aggregate")
      PROVE  H!Record(MapTimeToBucketIndex(t, FALSE), v)
  <2> DEFINE ix == MapTimeToBucketIndex(t, FALSE)
             l == IF ix > lastBucket THEN ix ELSE lastBucket
  <2>1. BucketCount \in Nat \ {0} /\ lastBucket \in Int
    BY <1>2, StatFileAssumption DEF IInv2, IInv, TypeOK
  <2>2. lastBucket' = l /\ ix \in Nat
    BY <1>2, UpdateAddsUp
  <2>3. hist' = [j \in lastBucket' - BucketCount + 1 .. lastBucket' |-> SumAt(j)']
    OBVIOUS
  <2>4. ASSUME NEW j \in H!Window(l)
        PROVE  SumAt(j)' = H!Shifted(l)[j] + (IF j = ix THEN v ELSE 0)
    <3>1. j \in lastBucket' - BucketCount + 1 .. lastBucket'
      BY <2>2, <2>4, Zenon DEF H!Window
    <3>2. SumAt(j)' = (IF j > lastBucket THEN 0 ELSE SumAt(j)) + (IF j = ix THEN v ELSE 0)
      BY <1>2, <3>1, WindowAfterUpdate
    <3>3. H!Shifted(l)[j] = IF j \in H!Window(lastBucket) THEN hist[j] ELSE 0
      BY <2>4, Zenon DEF H!Shifted
    <3>4. j \in H!Window(lastBucket) <=> ~(j > lastBucket)
      <4> HIDE DEF ix
      <4>1. QED
        BY <2>1, <2>2, <3>1 DEF H!Window
    <3>5. j \in H!Window(lastBucket) => hist[j] = SumAt(j)
      BY DEF H!Window
    <3> HIDE DEF ix, l, hist
    <3>6. H!Shifted(l)[j] = IF j > lastBucket THEN 0 ELSE SumAt(j)
      BY <3>3, <3>4, <3>5
    <3>7. QED
      BY <3>2, <3>6
  <2>5. hist' = [j \in H!Window(l) |-> H!Shifted(l)[j] + (IF j = ix THEN v ELSE 0)]
    <3>1. H!Window(l) = lastBucket' - BucketCount + 1 .. lastBucket'
      BY <2>2, Zenon DEF H!Window
    <3> HIDE DEF ix, l
    <3>2. QED
      BY <2>3, <2>4, <3>1, Zenon
  <2>6. QED
    BY <2>2, <2>5, Zenon DEF H!Record
<1>3. IInv2 /\ [Next]_vars => [H!Next]_<<lastBucket, hist>>
  <2> SUFFICES ASSUME IInv2, [Next]_vars PROVE [H!Next]_<<lastBucket, hist>>
    OBVIOUS
  <2>1. CASE Next
    BY <1>2, <2>1, Zenon DEF Next, Update, AddsUp, H!Next
  <2>2. CASE UNCHANGED vars
    BY <2>2 DEF vars, SumAt
  <2>3. QED
    BY <2>1, <2>2
<1>4. IInv2 /\ [Next]_vars => IInv2'
  BY NextIInv2
<1>5. QED
  BY InitIInv2, <1>1, <1>3, <1>4, PTL DEF Spec, ImplementsHistory, H!Spec

(* In such a file no step takes anything away from a bucket that is still  *)
(* within the retention: rawUpdateBucket only clears leftovers.            *)
THEOREM LiveDataKept ==
    ASSUME AddsUp, NotBeforeCreation
    PROVE  Spec => NoLiveDataLost
<1> DEFINE Kept == \A k \in FileIndices :
                      slot[k].count > 0 /\ Live(slot[k], lastBucket') =>
                         /\ slot'[k].time = slot[k].time
                         /\ slot'[k].sum >= slot[k].sum
<1>1. ASSUME IInv2, NEW t \in Times, NEW v \in Values, RawUpdateBucket(Data(t, v), "aggregate")
      PROVE  Kept
  <2> DEFINE ix == MapTimeToBucketIndex(t, FALSE)
  <2>1. /\ BucketCount \in Nat \ {0} /\ v \in Nat
        /\ lastBucket \in Int /\ slot \in [FileIndices -> Bucket]
    BY <1>1, StatFileAssumption DEF IInv2, IInv, TypeOK
  <2>2. /\ ix \in Nat
        /\ lastBucket' = IF ix > lastBucket THEN ix ELSE lastBucket
        /\ \A k \in FileIndices :
              \/ slot'[k] = slot[k]
              \/ /\ k = FileIndex(ix) /\ ix > lastBucket' - BucketCount
                 /\ slot'[k].time = MapBucketIndexToTime(ix)
                 /\ slot'[k].sum = SumAt(ix) + v
    BY <1>1, UpdateAddsUp
  <2> HIDE DEF ix
  <2> SUFFICES ASSUME NEW k \in FileIndices, slot[k].count > 0, Live(slot[k], lastBucket')
               PROVE  slot'[k].time = slot[k].time /\ slot'[k].sum >= slot[k].sum
    OBVIOUS
  <2>3. slot[k] \in Bucket
    BY <2>1
  <2>4. CASE slot'[k] = slot[k]
    BY <2>3, <2>4 DEF Bucket
  <2>5. CASE /\ k = FileIndex(ix) /\ ix > lastBucket' - BucketCount
             /\ slot'[k].time = MapBucketIndexToTime(ix)
             /\ slot'[k].sum = SumAt(ix) + v
    <3> DEFINE j == IndexOf(slot[k])
    <3>1. Used(slot[k]) /\ j > lastBucket' - BucketCount
      BY DEF Live
    <3>2. j \in Int
      BY <2>3, IndexType DEF Bucket, IndexOf
    <3>3. j <= lastBucket /\ FileIndex(j) = k /\ slot[k].time = MapBucketIndexToTime(j)
      BY <1>1, <3>1 DEF IInv2, IInv, RangeCoversData, SlotAgreement
    <3> HIDE DEF j
    <3>4. j = ix
      <4>1. j - ix < BucketCount /\ ix - j < BucketCount
        BY <2>1, <2>2, <2>5, <3>1, <3>2, <3>3
      <4>2. j % BucketCount = ix % BucketCount
        BY <2>5, <3>3, Zenon DEF FileIndex
      <4>3. ix \in Int /\ BucketCount \in Nat \ {0}
        BY <2>1, <2>2
      <4>4. QED
        BY <3>2, <4>1, <4>2, <4>3, SameSlotSameIndex
    <3>5. SumAt(ix) = slot[k].sum
      BY <2>5, <3>3, <3>4 DEF SumAt
    <3>6. QED
      BY <2>1, <2>3, <2>5, <3>3, <3>4, <3>5 DEF Bucket
  <2>6. QED
    BY <2>2, <2>4, <2>5
<1>2. IInv2 /\ [Next]_vars => [Kept]_vars
  BY <1>1, Zenon DEF Next, Update, AddsUp
<1>3. IInv2 /\ [Next]_vars => IInv2'
  BY NextIInv2
<1>4. QED
  BY InitIInv2, <1>2, <1>3, PTL DEF Spec, NoLiveDataLost

-----------------------------------------------------------------------------
(* Induction over the naturals, for a set.                                 *)
LEMMA SetInduction ==
    ASSUME NEW S, 0 \in S, \A n \in Nat : n \in S => n + 1 \in S
    PROVE  Nat \subseteq S
<1> DEFINE R == OpToRel(<, Nat)
           T == Nat \ S
<1>1. IsWellFoundedOn(R, Nat)
  BY NatLessThanWellFounded DEF OpToRel
<1>2. \A x, y \in Nat : x < y => <<x, y>> \in R
  BY DEF OpToRel
<1> HIDE DEF R
<1>3. SUFFICES ASSUME T # {} PROVE FALSE
  OBVIOUS
<1>4. PICK x \in T : \A y \in T : ~ (<<y, x>> \in R)
  BY <1>1, <1>3, WFMin
<1>5. x \in Nat /\ x # 0 /\ x - 1 \in Nat /\ x - 1 < x /\ (x - 1) + 1 = x
  BY <1>4
<1>6. x - 1 \in T
  BY <1>4, <1>5
<1>7. QED
  BY <1>2, <1>4, <1>5, <1>6

(* The predicate remove_if() keeps a bucket by.                            *)
Wanted(b, start, end) == b.time >= start /\ b.time <= end

(* What its loop does, bucket by bucket.                                   *)
Keeps(f, n, bs, start, end) ==
    f = [k \in 0 .. n |-> IF k = 0 THEN <<>>
                          ELSE IF bs[k].time >= start /\ bs[k].time <= end THEN Append(f[k - 1], bs[k])
                          ELSE f[k - 1]]

(* One round of the loop.                                                  *)
Round(f, k, bs, start, end) ==
    IF k = 0 THEN <<>>
    ELSE IF Wanted(bs[k], start, end) THEN Append(f[k - 1], bs[k]) ELSE f[k - 1]

(* Each element of the result is that of its round.                        *)
LEMMA KeepsAt ==
    ASSUME NEW bs, NEW start, NEW end, NEW n, NEW f, Keeps(f, n, bs, start, end)
    PROVE  \A k \in 0 .. n : f[k] = Round(f, k, bs, start, end)
<1> DEFINE g == [i \in 0 .. n |-> IF i = 0 THEN <<>>
                                  ELSE IF bs[i].time >= start /\ bs[i].time <= end THEN Append(f[i - 1], bs[i])
                                  ELSE f[i - 1]]
<1>1. f = g
  BY Zenon DEF Keeps
<1>2. \A k \in 0 .. n : g[k] = Round(f, k, bs, start, end)
  BY DEF Wanted, Round
<1> HIDE DEF g
<1>3. QED
  BY <1>1, <1>2

(* The loop has a result for every length.                                 *)
LEMMA LoopEnds ==
    ASSUME NEW bs, NEW start, NEW end, NEW n \in Nat
    PROVE  \E f : Keeps(f, n, bs, start, end)
<1> DEFINE S == {m \in Nat : \E f : Keeps(f, m, bs, start, end)}
<1>1. 0 \in S
  <2> DEFINE f == [k \in 0 .. 0 |-> <<>>]
  <2>1. f = [k \in 0 .. 0 |-> IF k = 0 THEN <<>>
                              ELSE IF bs[k].time >= start /\ bs[k].time <= end THEN Append(f[k - 1], bs[k])
                              ELSE f[k - 1]]
    OBVIOUS
  <2>2. Keeps(f, 0, bs, start, end)
    BY <2>1 DEF Keeps
  <2>3. QED
    BY <2>2
<1>2. ASSUME NEW m \in Nat, m \in S PROVE m + 1 \in S
  <2>1. PICK f : Keeps(f, m, bs, start, end)
    BY <1>2
  <2> DEFINE g == [k \in 0 .. m + 1 |->
                     IF k <= m THEN f[k]
                     ELSE IF bs[k].time >= start /\ bs[k].time <= end THEN Append(f[k - 1], bs[k])
                     ELSE f[k - 1]]
             h == [k \in 0 .. m + 1 |->
                     IF k = 0 THEN <<>>
                     ELSE IF bs[k].time >= start /\ bs[k].time <= end THEN Append(g[k - 1], bs[k])
                     ELSE g[k - 1]]
  <2>2. ASSUME NEW k \in 0 .. m + 1 PROVE g[k] = h[k]
    <3>1. CASE k = 0
      BY <2>1, <3>1 DEF Keeps
    <3>2. CASE k # 0
      <4>1. k - 1 \in 0 .. m /\ g[k - 1] = f[k - 1]
        BY <3>2
      <4>2. CASE k <= m
        <5>1. k \in 0 .. m
          BY <4>2
        <5>2. f[k] = Round(f, k, bs, start, end)
          BY <2>1, <5>1, KeepsAt
        <5>3. QED
          BY <3>2, <4>1, <4>2, <5>2 DEF Wanted, Round
      <4>3. CASE ~(k <= m)
        BY <3>2, <4>1, <4>3
      <4>4. QED
        BY <4>2, <4>3
    <3>3. QED
      BY <3>1, <3>2
  <2>3. g = h
    BY <2>2
  <2>4. Keeps(g, m + 1, bs, start, end)
    BY <2>3, Zenon DEF Keeps
  <2>5. QED
    BY <2>4
<1>3. Nat \subseteq S
  <2> HIDE DEF S
  <2>1. QED
    BY <1>1, <1>2, SetInduction
<1>4. QED
  BY <1>3

(* Of the buckets read, remove_if() leaves those wanted, and in order.      *)
LEMMA SanitizedFacts ==
    ASSUME NEW bs \in Seq(Bucket), NEW start \in Int, NEW end \in Int,
           \A i, j \in 1 .. Len(bs) :
              i < j /\ Wanted(bs[i], start, end) /\ Wanted(bs[j], start, end) => bs[i].time < bs[j].time
    PROVE  LET r == Sanitized(bs, start, end)
           IN  /\ r \in Seq(Bucket)
               /\ \A i, j \in DOMAIN r : i < j => r[i].time < r[j].time
               /\ \A i \in DOMAIN r : \E m \in 1 .. Len(bs) : Wanted(bs[m], start, end) /\ r[i] = bs[m]
               /\ \A m \in 1 .. Len(bs) : Wanted(bs[m], start, end) => \E i \in DOMAIN r : r[i] = bs[m]
<1> DEFINE N == Len(bs)
           f == CHOOSE f : Keeps(f, N, bs, start, end)
<1>1. Sanitized(bs, start, end) = f[N]
  BY Zenon DEF Sanitized, Keeps
<1>2. N \in Nat /\ Keeps(f, N, bs, start, end)
  <2>1. N \in Nat
    OBVIOUS
  <2>2. \E g : Keeps(g, N, bs, start, end)
    BY <2>1, LoopEnds
  <2>3. QED
    BY <2>1, <2>2, Zenon
<1> HIDE DEF N, f
<1> DEFINE Good(k, s) ==
             /\ s \in Seq(Bucket)
             /\ \A i, j \in 1 .. Len(s) : i < j => s[i].time < s[j].time
             /\ \A i \in 1 .. Len(s) : \E m \in 1 .. k : Wanted(bs[m], start, end) /\ s[i] = bs[m]
             /\ \A m \in 1 .. k : Wanted(bs[m], start, end) => \E i \in 1 .. Len(s) : s[i] = bs[m]
           S == {k \in Nat : k <= N => Good(k, f[k])}
<1>13. \A k \in 0 .. N : f[k] = Round(f, k, bs, start, end)
  BY <1>2, KeepsAt
<1>3. f[0] = <<>>
  <2>1. 0 \in 0 .. N
    BY <1>2
  <2>2. Round(f, 0, bs, start, end) = <<>>
    BY Zenon DEF Round
  <2>3. QED
    BY <1>13, <2>1, <2>2, Zenon
<1>4. \A k \in 1 .. N : f[k] = IF Wanted(bs[k], start, end) THEN Append(f[k - 1], bs[k]) ELSE f[k - 1]
  BY <1>2, <1>13 DEF Round
<1>5. Good(0, f[0])
  BY <1>3
<1>6. ASSUME NEW k \in Nat, k + 1 <= N, Good(k, f[k]) PROVE Good(k + 1, f[k + 1])
  <2> DEFINE s == f[k]
             b == bs[k + 1]
  <2>1. k + 1 \in 1 .. N /\ (k + 1) - 1 = k /\ b \in Bucket /\ 1 .. k \subseteq 1 .. N
    BY <1>2, <1>6 DEF N
  <2>2. /\ s \in Seq(Bucket)
        /\ \A i, j \in 1 .. Len(s) : i < j => s[i].time < s[j].time
        /\ \A i \in 1 .. Len(s) : \E m \in 1 .. k : Wanted(bs[m], start, end) /\ s[i] = bs[m]
        /\ \A m \in 1 .. k : Wanted(bs[m], start, end) => \E i \in 1 .. Len(s) : s[i] = bs[m]
    BY <1>6
  <2>3. CASE ~ Wanted(b, start, end)
    <3>1. f[k + 1] = s
      BY <1>4, <2>1, <2>3
    <3> HIDE DEF s, b
    <3>2. \A m \in 1 .. k + 1 : m \in 1 .. k \/ m = k + 1
      OBVIOUS
    <3>3. \A m \in 1 .. k + 1 : Wanted(bs[m], start, end) => m \in 1 .. k
      BY <2>3, <3>2 DEF b
    <3>5. 1 .. k \subseteq 1 .. k + 1
      OBVIOUS
    <3>6. Good(k + 1, s)
      BY <2>2, <3>3, <3>5
    <3>4. QED
      BY <3>1, <3>6
  <2>4. CASE Wanted(b, start, end)
    <3> DEFINE t == Append(s, b)
    <3>1. f[k + 1] = t
      BY <1>4, <2>1, <2>4
    <3> HIDE DEF s
    <3>2. /\ t \in Seq(Bucket) /\ Len(t) = Len(s) + 1 /\ Len(s) \in Nat /\ t[Len(s) + 1] = b
          /\ \A i \in 1 .. Len(s) : t[i] = s[i]
      BY <2>1, <2>2
    <3> HIDE DEF t, b
    <3>3. \A i \in 1 .. Len(s) : s[i].time < b.time
      <4> SUFFICES ASSUME NEW i \in 1 .. Len(s) PROVE s[i].time < b.time
        OBVIOUS
      <4>1. PICK m \in 1 .. k : Wanted(bs[m], start, end) /\ s[i] = bs[m]
        BY <2>2
      <4>2. m \in 1 .. N /\ k + 1 \in 1 .. N /\ m < k + 1
        BY <2>1
      <4>3. bs[m].time < bs[k + 1].time
        BY <2>4, <4>1, <4>2 DEF b, N
      <4>4. QED
        BY <4>1, <4>3 DEF b
    <3>4. \A i, j \in 1 .. Len(t) : i < j => t[i].time < t[j].time
      <4> SUFFICES ASSUME NEW i \in 1 .. Len(t), NEW j \in 1 .. Len(t), i < j
                   PROVE  t[i].time < t[j].time
        OBVIOUS
      <4>1. i \in 1 .. Len(s)
        BY <3>2
      <4>2. CASE j \in 1 .. Len(s)
        BY <2>2, <3>2, <4>1, <4>2
      <4>3. CASE j = Len(s) + 1
        BY <3>2, <3>3, <4>1, <4>3
      <4>4. j \in 1 .. Len(s) \/ j = Len(s) + 1
        <5>1. Len(t) = Len(s) + 1 /\ Len(s) \in Nat
          BY <3>2
        <5>2. QED
          BY <5>1
      <4>5. QED
        BY <4>2, <4>3, <4>4
    <3>5. \A i \in 1 .. Len(t) : \E m \in 1 .. k + 1 : Wanted(bs[m], start, end) /\ t[i] = bs[m]
      <4> SUFFICES ASSUME NEW i \in 1 .. Len(t)
                   PROVE  \E m \in 1 .. k + 1 : Wanted(bs[m], start, end) /\ t[i] = bs[m]
        OBVIOUS
      <4>1. CASE i \in 1 .. Len(s)
        <5>1. PICK m \in 1 .. k : Wanted(bs[m], start, end) /\ s[i] = bs[m]
          BY <2>2, <4>1
        <5>2. m \in 1 .. k + 1 /\ t[i] = bs[m]
          BY <3>2, <4>1, <5>1
        <5>3. QED
          BY <5>1, <5>2
      <4>2. CASE i = Len(s) + 1
        <5>1. k + 1 \in 1 .. k + 1
          OBVIOUS
        <5>2. QED
          BY <2>4, <3>2, <4>2, <5>1 DEF b
      <4>3. QED
        BY <3>2, <4>1, <4>2
    <3>6. \A m \in 1 .. k + 1 : Wanted(bs[m], start, end) => \E i \in 1 .. Len(t) : t[i] = bs[m]
      <4> SUFFICES ASSUME NEW m \in 1 .. k + 1, Wanted(bs[m], start, end)
                   PROVE  \E i \in 1 .. Len(t) : t[i] = bs[m]
        OBVIOUS
      <4>1. CASE m \in 1 .. k
        <5>1. PICK i \in 1 .. Len(s) : s[i] = bs[m]
          BY <2>2, <4>1
        <5>2. i \in 1 .. Len(t) /\ t[i] = bs[m]
          BY <3>2, <5>1
        <5>3. QED
          BY <5>2
      <4>2. CASE m = k + 1
        <5>1. Len(s) + 1 \in 1 .. Len(t)
          BY <3>2
        <5>2. QED
          BY <3>2, <4>2, <5>1 DEF b
      <4>3. QED
        BY <4>1, <4>2
    <3>7. QED
      BY <3>1, <3>2, <3>4, <3>5, <3>6
  <2>5. QED
    BY <2>3, <2>4
<1>7. Nat \subseteq S
  <2>1. 0 \in S
    BY <1>5
  <2>2. ASSUME NEW k \in Nat, k \in S PROVE k + 1 \in S
    <3> SUFFICES ASSUME k + 1 <= N PROVE Good(k + 1, f[k + 1])
      OBVIOUS
    <3>1. Good(k, f[k])
      <4> HIDE DEF Good
      <4>1. QED
        BY <1>2, <2>2
    <3> HIDE DEF Good
    <3>2. QED
      BY <1>6, <3>1
  <2> HIDE DEF S
  <2>3. QED
    BY <2>1, <2>2, SetInduction
<1>8. Good(N, f[N])
  <2> HIDE DEF Good
  <2>1. QED
    BY <1>2, <1>7
<1> DEFINE r == Sanitized(bs, start, end)
<1>9. r = f[N]
  BY <1>1
<1> HIDE DEF r
<1>10. Good(N, r)
  BY <1>8, <1>9
<1>11. DOMAIN r = 1 .. Len(r)
  BY <1>10
<1>12. QED
  BY <1>10, <1>11 DEF N, r

(* Counting on within the ring.                                            *)
LEMMA NextFileIndex ==
    ASSUME NEW i \in Int, NEW k \in Nat
    PROVE  (FileIndex(i) + k) % BucketCount = FileIndex(i + k)
<1> DEFINE r == i % BucketCount
           q == i \div BucketCount
           r2 == (r + k) % BucketCount
           q2 == (r + k) \div BucketCount
<1>1. BucketCount \in Nat \ {0}
  BY StatFileAssumption
<1>2. i = BucketCount * q + r /\ q \in Int /\ r \in 0 .. BucketCount - 1
  BY <1>1, DivMod
<1> HIDE DEF q, r
<1>3. r + k = BucketCount * q2 + r2 /\ q2 \in Int /\ r2 \in 0 .. BucketCount - 1
  <2>1. r + k \in Int
    BY <1>1, <1>2
  <2>2. QED
    BY <1>1, <2>1, DivMod
<1>4. FileIndex(i) = r /\ (FileIndex(i) + k) % BucketCount = r2
  BY DEF FileIndex, r
<1> HIDE DEF q2, r2
<1>5. i + k = BucketCount * (q + q2) + r2 /\ q + q2 \in Int /\ i + k \in Int
  BY <1>1, <1>2, <1>3, SMT
<1>6. (i + k) % BucketCount = r2
  <2> DEFINE w == q + q2
             a == i + k
  <2>1. w \in Int /\ a \in Int /\ a = BucketCount * w + r2
    BY <1>5
  <2> HIDE DEF w, a
  <2>2. a % BucketCount = r2
    BY <1>1, <1>3, <2>1, DivUnique
  <2>3. QED
    BY <2>2 DEF a
<1>7. QED
  BY <1>4, <1>6 DEF FileIndex

(* A time on the grid is the time of its bucket index.                     *)
LEMMA GridTime ==
    ASSUME NEW t \in Grid
    PROVE  /\ t \in Nat /\ t >= CreateTime /\ t % Interval = 0
           /\ MapTimeToBucketIndex(t, FALSE) \in Nat
           /\ t = CreateTime + MapTimeToBucketIndex(t, FALSE) * Interval
<1>1. t \in Int /\ t >= CreateTime /\ t % Interval = 0
  BY StatFileAssumption DEF Grid
<1>2. t \in Nat
  BY <1>1, StatFileAssumption
<1>3. TargetBucketTime(t) = t
  BY <1>1 DEF TargetBucketTime
<1>4. QED
  BY <1>1, <1>2, <1>3, IndexIsQuantisedTime DEF MapBucketIndexToTime

(* A later time has a later index, and the reverse.                        *)
LEMMA LaterIndex ==
    ASSUME NEW i \in Int, NEW j \in Int
    PROVE  CreateTime + i * Interval < CreateTime + j * Interval <=> i < j
<1>1. Interval \in Nat \ {0} /\ CreateTime \in Nat
  BY StatFileAssumption
<1>2. i < j => Interval * i + Interval <= Interval * j
  BY <1>1, MultiplesApart
<1>3. j < i => Interval * j + Interval <= Interval * i
  BY <1>1, MultiplesApart
<1>4. /\ i * Interval = Interval * i /\ j * Interval = Interval * j
      /\ Interval * i \in Int /\ Interval * j \in Int
  BY <1>1, SMT
<1>5. i < j \/ i = j \/ j < i
  OBVIOUS
<1>6. QED
  BY <1>1, <1>2, <1>3, <1>4, <1>5

(* A read that starts in the file goes through the slots of its range, one *)
(* index after the other, at most once around the ring.                    *)
LEMMA ReadSlots ==
    ASSUME IInv2, ~Collated, NEW q \in Queries
    PROVE  LET i0 == MapTimeToBucketIndex(q[1], FALSE)
               i1 == MapTimeToBucketIndex(q[2], FALSE)
               n == IF i1 - i0 > BucketCount THEN BucketCount ELSE i1 - i0
               bs == ReadBuckets(NumBucketsBetween(q[1], q[2], FALSE), i0, q[3])
           IN  /\ i0 \in Nat /\ i1 \in Nat /\ i0 < i1 /\ n \in Nat
               /\ i0 <= lastBucket /\ lastBucket < i0 + BucketCount
               /\ q[1] = CreateTime + i0 * Interval /\ q[2] = CreateTime + i1 * Interval
               /\ bs \in Seq(Bucket) /\ Len(bs) = n
               /\ \A k \in 1 .. n : bs[k] = slot[FileIndex(i0 + (k - 1))]
<1> DEFINE start == q[1]
           end == q[2]
           i0 == MapTimeToBucketIndex(start, FALSE)
           i1 == MapTimeToBucketIndex(end, FALSE)
           n == IF i1 - i0 > BucketCount THEN BucketCount ELSE i1 - i0
           cnt == NumBucketsBetween(start, end, FALSE)
           bs == ReadBuckets(cnt, i0, q[3])
<1>1. /\ start \in Grid /\ end \in Grid /\ start < end
      /\ IsBucketIndexInFile(i0, lastBucket, q[3])
  BY DEF Queries
<1>2. /\ start \in Nat /\ i0 \in Nat /\ start = CreateTime + i0 * Interval /\ start % Interval = 0
      /\ end \in Nat /\ i1 \in Nat /\ end = CreateTime + i1 * Interval /\ end % Interval = 0
  BY <1>1, GridTime
<1>3. /\ Interval \in Nat \ {0} /\ BucketCount \in Nat \ {0} /\ CreateTime \in Nat
      /\ lastBucket \in Int /\ slot \in [FileIndices -> Bucket]
  BY StatFileAssumption DEF IInv2, IInv, TypeOK
<1> HIDE DEF start, end, i0, i1
<1>4. i0 < i1
  BY <1>1, <1>2, LaterIndex
<1>5. cnt = i1 - i0
  <2>1. end - start = Interval * (i1 - i0) + 0 /\ end - start \in Int /\ i1 - i0 \in Int /\ end - start # 0
    BY <1>1, <1>2, <1>3, SMT
  <2>2. (end - start) \div Interval = i1 - i0
    <3> DEFINE w == i1 - i0
               a == end - start
    <3>1. w \in Int /\ a \in Int /\ a = Interval * w + 0 /\ 0 \in 0 .. Interval - 1
      BY <1>3, <2>1
    <3> HIDE DEF w, a
    <3>2. a \div Interval = w
      BY <1>3, <3>1, DivUnique
    <3>3. QED
      BY <3>2 DEF a, w
  <2>3. (end - (end % Interval) + 0) - (start - (start % Interval)) = end - start
    BY <1>2
  <2>4. cnt = LET delta == (end - (end % Interval) + 0) - (start - (start % Interval))
              IN  IF delta # 0 THEN delta \div Interval ELSE 1
    BY DEF NumBucketsBetween
  <2> HIDE DEF cnt
  <2>5. QED
    BY <2>1, <2>2, <2>3, <2>4
<1>6. i0 <= lastBucket /\ lastBucket < i0 + BucketCount
  BY <1>1, <1>2, <1>3 DEF IsBucketIndexInFile
<1>7. bs = [k \in 1 .. n |-> slot[(FileIndex(i0) + k - 1) % BucketCount]]
  BY <1>1, <1>5 DEF ReadBuckets
<1>8. n \in Nat
  BY <1>2, <1>3, <1>4
<1> HIDE DEF n, bs, cnt
<1>9. ASSUME NEW k \in 1 .. n
      PROVE  /\ slot[(FileIndex(i0) + k - 1) % BucketCount] = slot[FileIndex(i0 + (k - 1))]
             /\ slot[FileIndex(i0 + (k - 1))] \in Bucket
  <2>1. k - 1 \in Nat /\ FileIndex(i0) \in Int /\ i0 + (k - 1) \in Int
    BY <1>2, <1>3, <1>8, FileIndexType DEF FileIndices
  <2>2. FileIndex(i0) + k - 1 = FileIndex(i0) + (k - 1)
    BY <1>8, <2>1
  <2>3. (FileIndex(i0) + (k - 1)) % BucketCount = FileIndex(i0 + (k - 1))
    BY <1>2, <2>1, NextFileIndex
  <2>4. FileIndex(i0 + (k - 1)) \in FileIndices
    BY <2>1, FileIndexType
  <2>5. QED
    BY <1>3, <2>2, <2>3, <2>4
<1>10. bs \in Seq(Bucket) /\ Len(bs) = n /\ \A k \in 1 .. n : bs[k] = slot[FileIndex(i0 + (k - 1))]
  BY <1>7, <1>8, <1>9
<1>11. QED
  BY <1>2, <1>4, <1>6, <1>8, <1>10 DEF start, end, i0, i1, n, bs, cnt

(* A query of a gauge returns every stored bucket of its range once, in     *)
(* time order, and no leftover: for every ring, for samples no older than   *)
(* the file, and a file that was not created at the epoch (an unused bucket *)
(* is stamped with it).                                                     *)
LEMMA ReadIsExact ==
    ASSUME IInv2, ~Collated, ~CounterCollated, CreateTime > 0
    PROVE  GaugeReadExact
<1> SUFFICES ASSUME NEW q \in Queries
             PROVE  LET r == ReadBucketsFromFile(q[1], q[2], q[3])
                    IN  /\ \A i, j \in DOMAIN r : i < j => r[i].time < r[j].time
                        /\ {r[i] : i \in DOMAIN r} = {b \in {slot[k] : k \in FileIndices} : InRange(b, q[1], q[2])}
  BY DEF GaugeReadExact
<1> DEFINE start == q[1]
           end == q[2]
           i0 == MapTimeToBucketIndex(start, FALSE)
           i1 == MapTimeToBucketIndex(end, FALSE)
           n == IF i1 - i0 > BucketCount THEN BucketCount ELSE i1 - i0
           bs == ReadBuckets(NumBucketsBetween(start, end, FALSE), i0, q[3])
           r == ReadBucketsFromFile(start, end, q[3])
<1>1. /\ i0 \in Nat /\ i1 \in Nat /\ i0 < i1 /\ n \in Nat
      /\ i0 <= lastBucket /\ lastBucket < i0 + BucketCount
      /\ start = CreateTime + i0 * Interval /\ end = CreateTime + i1 * Interval
      /\ bs \in Seq(Bucket) /\ Len(bs) = n
      /\ \A k \in 1 .. n : bs[k] = slot[FileIndex(i0 + (k - 1))]
  BY ReadSlots
<1>2. r = Sanitized(bs, start, end)
  BY Zenon DEF ReadBucketsFromFile
<1>3. /\ Interval \in Nat \ {0} /\ BucketCount \in Nat \ {0} /\ CreateTime \in Nat
      /\ lastBucket \in Int /\ slot \in [FileIndices -> Bucket]
  BY StatFileAssumption DEF IInv2, IInv, TypeOK
<1>4. start \in Nat /\ end \in Nat /\ start > 0
  <2> HIDE DEF start, end, i0, i1, n, bs
  <2>1. i0 * Interval \in Nat /\ i1 * Interval \in Nat
    <3>1. i0 \in Nat /\ i1 \in Nat /\ Interval \in Nat
      BY <1>1, <1>3
    <3>2. QED
      BY <3>1, SMT
  <2> DEFINE a == i0 * Interval
             c == i1 * Interval
  <2>2. a \in Nat /\ c \in Nat /\ start = CreateTime + a /\ end = CreateTime + c
    BY <1>1, <2>1
  <2> HIDE DEF a, c
  <2>3. QED
    BY <1>3, <2>2
<1> HIDE DEF start, end, i0, i1, bs, r
<1>5. ASSUME NEW s \in FileIndices, slot[s].time >= start
      PROVE  /\ IndexOf(slot[s]) \in i0 .. lastBucket
             /\ FileIndex(IndexOf(slot[s])) = s
             /\ slot[s].time = CreateTime + IndexOf(slot[s]) * Interval
  <2>1. slot[s].time \in Nat /\ Used(slot[s])
    BY <1>3, <1>4, <1>5 DEF Bucket, Used
  <2>2. /\ IndexOf(slot[s]) <= lastBucket /\ FileIndex(IndexOf(slot[s])) = s
        /\ slot[s].time = CreateTime + IndexOf(slot[s]) * Interval
    BY <2>1 DEF IInv2, IInv, RangeCoversData, SlotAgreement, MapBucketIndexToTime
  <2>3. IndexOf(slot[s]) \in Int
    BY <2>1, IndexType DEF IndexOf
  <2>4. ~ (IndexOf(slot[s]) < i0)
    BY <1>1, <1>4, <1>5, <2>1, <2>2, <2>3, LaterIndex
  <2>5. QED
    BY <1>1, <1>3, <2>2, <2>3, <2>4
<1>6. ASSUME NEW k \in 1 .. n, bs[k].time >= start
      PROVE  IndexOf(bs[k]) = i0 + (k - 1) /\ bs[k].time = CreateTime + (i0 + (k - 1)) * Interval
  <2> DEFINE s == FileIndex(i0 + (k - 1))
             j == IndexOf(slot[s])
  <2>1. i0 + (k - 1) \in Int /\ k - 1 < BucketCount /\ k - 1 >= 0
    BY <1>1, <1>3
  <2>2. s \in FileIndices /\ bs[k] = slot[s]
    BY <1>1, <2>1, FileIndexType
  <2>3. j \in i0 .. lastBucket /\ FileIndex(j) = s /\ slot[s].time = CreateTime + j * Interval
    BY <1>5, <1>6, <2>2
  <2>4. j \in Int /\ j % BucketCount = (i0 + (k - 1)) % BucketCount
    BY <1>1, <1>3, <2>3 DEF FileIndex
  <2> HIDE DEF j, s
  <2>5. j - (i0 + (k - 1)) < BucketCount /\ (i0 + (k - 1)) - j < BucketCount
    BY <1>1, <1>3, <2>1, <2>3, <2>4
  <2>6. j = i0 + (k - 1)
    BY <1>3, <2>1, <2>4, <2>5, SameSlotSameIndex
  <2>7. QED
    BY <2>2, <2>3, <2>6 DEF j
<1>7. \A i, j \in 1 .. Len(bs) :
         i < j /\ Wanted(bs[i], start, end) /\ Wanted(bs[j], start, end) => bs[i].time < bs[j].time
  <2> SUFFICES ASSUME NEW i \in 1 .. Len(bs), NEW j \in 1 .. Len(bs), i < j,
                      Wanted(bs[i], start, end), Wanted(bs[j], start, end)
               PROVE  bs[i].time < bs[j].time
    OBVIOUS
  <2>1. /\ bs[i].time = CreateTime + (i0 + (i - 1)) * Interval
        /\ bs[j].time = CreateTime + (i0 + (j - 1)) * Interval
    BY <1>1, <1>6 DEF Wanted
  <2>2. i0 + (i - 1) \in Int /\ i0 + (j - 1) \in Int /\ i0 + (i - 1) < i0 + (j - 1)
    <3>1. i0 \in Int /\ Len(bs) \in Nat /\ i \in Int /\ j \in Int
      BY <1>1
    <3>2. QED
      BY <3>1
  <2>3. QED
    BY <2>1, <2>2, LaterIndex
<1>8. /\ r \in Seq(Bucket)
      /\ \A i, j \in DOMAIN r : i < j => r[i].time < r[j].time
      /\ \A i \in DOMAIN r : \E m \in 1 .. Len(bs) : Wanted(bs[m], start, end) /\ r[i] = bs[m]
      /\ \A m \in 1 .. Len(bs) : Wanted(bs[m], start, end) => \E i \in DOMAIN r : r[i] = bs[m]
  <2>1. bs \in Seq(Bucket) /\ start \in Int /\ end \in Int
    BY <1>1, <1>4
  <2> DEFINE x == Sanitized(bs, start, end)
  <2>2. /\ x \in Seq(Bucket)
        /\ \A i, j \in DOMAIN x : i < j => x[i].time < x[j].time
        /\ \A i \in DOMAIN x : \E m \in 1 .. Len(bs) : Wanted(bs[m], start, end) /\ x[i] = bs[m]
        /\ \A m \in 1 .. Len(bs) : Wanted(bs[m], start, end) => \E i \in DOMAIN x : x[i] = bs[m]
    BY <1>7, <2>1, SanitizedFacts, Zenon
  <2> HIDE DEF x
  <2>3. r = x
    BY <1>2 DEF x
  <2>4. QED
    BY <2>2, <2>3
<1>9. ASSUME NEW i \in DOMAIN r
      PROVE  r[i] \in {slot[k] : k \in FileIndices} /\ InRange(r[i], start, end)
  <2>1. PICK m \in 1 .. Len(bs) : Wanted(bs[m], start, end) /\ r[i] = bs[m]
    BY <1>8, <1>9
  <2>2. i0 + (m - 1) \in Int /\ i0 + (m - 1) < i1
    BY <1>1, <2>1
  <2>3. bs[m].time = CreateTime + (i0 + (m - 1)) * Interval
    BY <1>1, <1>6, <2>1 DEF Wanted
  <2>4. bs[m].time < end
    BY <1>1, <2>2, <2>3, LaterIndex
  <2>5. FileIndex(i0 + (m - 1)) \in FileIndices /\ bs[m] = slot[FileIndex(i0 + (m - 1))]
    BY <1>1, <2>2, FileIndexType
  <2>6. QED
    BY <1>3, <2>1, <2>4, <2>5 DEF InRange, Wanted
<1>10. ASSUME NEW b \in {slot[k] : k \in FileIndices}, InRange(b, start, end)
       PROVE  \E i \in DOMAIN r : r[i] = b
  <2>1. PICK s \in FileIndices : b = slot[s]
    BY <1>10
  <2> DEFINE j == IndexOf(slot[s])
             k == j - i0 + 1
  <2>2. slot[s].time >= start /\ slot[s].time < end /\ slot[s].time \in Nat
    BY <1>3, <1>10, <2>1 DEF InRange, Bucket
  <2>3. j \in i0 .. lastBucket /\ FileIndex(j) = s /\ slot[s].time = CreateTime + j * Interval
    BY <1>5, <2>2
  <2> HIDE DEF j
  <2>4. j \in Int /\ j < i1
    BY <1>1, <1>3, <2>2, <2>3, LaterIndex
  <2>5. k \in 1 .. n /\ i0 + (k - 1) = j
    BY <1>1, <1>3, <2>3, <2>4
  <2>6. bs[k] = b
    BY <1>1, <2>1, <2>3, <2>5
  <2>7. Wanted(b, start, end)
    BY <1>4, <2>1, <2>2 DEF Wanted
  <2> HIDE DEF k
  <2>8. QED
    BY <1>1, <1>8, <2>5, <2>6, <2>7
<1>11. {r[i] : i \in DOMAIN r} = {b \in {slot[k] : k \in FileIndices} : InRange(b, start, end)}
  BY <1>9, <1>10
<1>12. QED
  BY <1>8, <1>11 DEF start, end, r

(* In a gauge file, of any ring size and through any number of laps, a      *)
(* query returns every stored bucket of its range once, in time order, and  *)
(* no leftover of an earlier lap.                                           *)
THEOREM GaugeReads ==
    ASSUME AddsUp, NotBeforeCreation, ~CounterCollated, CreateTime > 0
    PROVE  Spec => []GaugeReadExact
<1>1. IInv2 /\ [Next]_vars => IInv2'
  BY NextIInv2
<1>2. IInv2 => GaugeReadExact
  BY ReadIsExact DEF AddsUp
<1>3. QED
  BY InitIInv2, <1>1, <1>2, PTL DEF Spec

=============================================================================
