SPECIFICATION Spec
CONSTANTS
    NoTree = NoTree
    Anything = Anything
    Counters <- MCCounters
    Filters = {"f", "("}
    Matches <- MCMatches
    MaxSelected = 2
    MaxSlides = 1
    Invalid = {"("}
INVARIANTS TogglesAsAsked TreeExact ListsFollowNodes KeysWalk
