SPECIFICATION Spec
CONSTANTS
    WindowSize = 3
    Interval = 2
    BucketCount = 4
    CoarseInterval = 8
    CoarseCount = 2
    ZeroTime = 47
    Grace = 4
    Earliest = 46
    MaxNow = 52
    MaxRecords = 3
    MaxRestarts = 1
    Reductions <- MCReductions
    DefaultSpan = 6
    LeastInterval = 2
    Starts = {0, 40, 46, 47, 51}
    Ends = {0, 49, 52, 56, 63}
    Limits = {0, 2, 3}
INVARIANTS RecordLandsInWindow FilesExact SelectExact
CHECK_DEADLOCK FALSE
