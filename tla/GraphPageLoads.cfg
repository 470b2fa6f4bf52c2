SPECIFICATION Spec
CONSTANTS
    Counters = {"a", "b"}
    Surfaces = {1, 2}
    NoXhr = NoXhr
    NoData = NoData
    Markers <- MCMarkers
    Dashboards <- MCDashboards
    ManualDates <- MCManualDates
    ZoomLengths = {1}
    MaxQueue = 2
    MaxOps = 3
    StartTime = 4
    MaxTime = 5
INVARIANTS GetsCovered Settled ScreenIsData
CHECK_DEADLOCK FALSE
