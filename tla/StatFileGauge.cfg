SPECIFICATION Spec
CONSTANTS
    Interval = 2
    BucketCount = 3
    CreateTime = 4
    Collated = FALSE
    Aggregate = FALSE
    FixedCount = 0
    Modes = {"aggregate"}
    \* Two-second buckets, created at time 4; the samples cover two laps of a
    \* three-bucket ring and hit both the first and the last second of one.
    Times = {4, 5, 6, 8, 11, 12, 15, 16}
    Values = {1, 2}
    MaxTotal = 5
    CounterCollated = FALSE
    Clock = {9, 19}
INVARIANTS SlotAgreement GaugeReadExact
PROPERTIES NoLiveDataLost ImplementsHistory
CHECK_DEADLOCK FALSE
