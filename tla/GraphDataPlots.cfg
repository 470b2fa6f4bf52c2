SPECIFICATION Spec
CONSTANTS
    Counters = {"a", "b"}
    Grids <- MCGrids
    Averages = {0, 2}
    Deviations = {0, 1}
    Formats = {"noBars", "stacked", "errorBars", "customBars"}
    None = None
    NaN = NaN
INVARIANTS PlotExact RangeCovers SummaryExact
CHECK_DEADLOCK FALSE
