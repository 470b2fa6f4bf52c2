SPECIFICATION FairSpec
CONSTANTS
    None = None
    Bookmark = Bookmark
    Names = {"x", "y"}
    Stored <- MCStored
    Hashes <- MCHashes
    MaxOps = 2
    MaxUnderWay = 1
    MaxFailures = 1
INVARIANTS HashMatchesShown ShownIsStored ListExact
PROPERTIES Settles
CHECK_DEADLOCK FALSE
