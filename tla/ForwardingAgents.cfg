SPECIFICATION Spec
CONSTANTS
    c1 = c1
    c2 = c2
    Counters = {c1, c2}
    AgentCount = 2
    Step = 2
    BucketCount = 5
    ForwardInterval = 2
    MaxTries = 1
    \* A sample without a time, and one of seven seconds ago, which is the
    \* oldest interval taken or just too old.
    Ages = {0, 7}
    StartTime = 11
    MaxNow = 14
    MaxSamples = 2
    MaxFlushes = 1
    MaxFaults = 1
INVARIANTS ForwardedOnce 
CHECK_DEADLOCK FALSE
