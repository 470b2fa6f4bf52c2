SPECIFICATION Spec
CONSTANTS
    None = None
    Garbage = Garbage
    Elems <- MCElems
    UserNames = {"ann", "bob", "ann:b", "ann.c"}
    KeyName <- MCKeyName
    CookieName <- MCCookieName
    Markers <- MCMarkers
    Now = 394
    Default = 1
    Starts <- MCStarts
    Ranges <- MCRanges
    Zooms <- MCZooms
    Agents <- MCAgents
    Counters <- MCCounters
    MaxUnderWay = 1
    MaxLosses = 1
INVARIANTS LoginExact ControlsShown DragEnds XrefOffers DatesAsAsked
PROPERTIES SavedViewOpens
CHECK_DEADLOCK FALSE
