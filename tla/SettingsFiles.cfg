SPECIFICATION FairSpec
CONSTANTS
    Keys = {"k", "l"}
    Values = {"plain", "padded"}
    None = None
    Absent = Absent
    Trimmed <- MCTrimmed
    Workers = {"w1", "w2"}
    MaxSets = 2
    MaxFlushes = 1
    MaxEdits = 1
    MaxFaults = 1
INVARIANTS SettledExact FileOrCopy
PROPERTIES SavedInTheEnd
CHECK_DEADLOCK FALSE
