SPECIFICATION Spec
CONSTANTS
    Keys <- MCKeys
    ShardOf <- MCShardOf
    Deleters <- MCDeleters
    NumShards = 2
    MaxQueued = 0
    MaxGen = 2
    MaxDeletes = 2
    MaxRestarts = 1
    MayThrow = TRUE
INVARIANTS ListingFresh UnlistedIsLate
PROPERTIES DeletedLeavesMap
CHECK_DEADLOCK FALSE
