SPECIFICATION Spec
CONSTANTS
    Keys = {1, 2}
    Adders = {1, 2}
    Matchers = {1}
    NumRecs = 2
    MaxMatches = 2
    MaxExchanges = 1
INVARIANTS RebuildComplete
PROPERTIES ImplementsKeySet
CHECK_DEADLOCK FALSE
