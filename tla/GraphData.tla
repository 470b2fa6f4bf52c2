------------------------------ MODULE GraphData ------------------------------
(***************************************************************************)
(* The data of one graph on its way from the counters to the screen: the   *)
(* request for several counters is answered by MultiCounterWorker of       *)
(* daemon/RequestInFlight.cpp, one handler for each counter on the         *)
(* counter's own strand, and drawn by GraphSurface.repaint of              *)
(* files/graph.js.                                                         *)
(*                                                                         *)
(* What a counter's select() returns is a parameter: its grid of times and *)
(* buckets on it, in order, gaps included.  A bucket's minimum and maximum *)
(* lie its deviation below and above its average.                          *)
(***************************************************************************)
EXTENDS Integers, Sequences, FiniteSets, SequencesExt, FiniteSetsExt

CONSTANTS
    Counters,   \* the counters of the graph
    Grids,      \* the grids of times select() may choose
    Averages, Deviations,   \* what a bucket may hold
    Formats,    \* the formats drawn
    None, NaN

ASSUME GraphDataAssumption ==
    /\ IsFiniteSet(Counters) /\ Counters # {}
    /\ Grids \subseteq [start : Nat \ {0}, stop : Nat, interval : Nat \ {0}]
    /\ Averages \subseteq Int /\ Deviations \subseteq Nat
    /\ Formats \subseteq {"noBars", "area", "stacked", "errorBars", "customBars"}

VARIABLES
    found,      \* counters the store has
    posted,     \* counters whose handler was posted and did not run
    working,    \* counters whose handler left the lock
    num,        \* handlers that are not through
    answer,     \* what strm_buffer_ says of each counter
    header,     \* start, stop and interval of the request
    completed,  \* calls of complete()
    plot        \* what is drawn

vars == <<found, posted, working, num, answer, header, completed, plot>>

(* The times of a grid, in order. *)
TimesOf(grid) ==
    [n \in 1 .. (grid.stop - grid.start + grid.interval - 1) \div grid.interval |->
        grid.start + (n - 1) * grid.interval]

(* What is read from the file: for some of the times a bucket, in order. *)
Filed(times) ==
    LET Rows == {row \in [DOMAIN times -> [time : ToSet(times), avg : Averages, sdev : Deviations] \cup {None}] :
                    \A n \in DOMAIN times : row[n] # None => row[n].time = times[n]}
    IN  {SelectSeq(row, LAMBDA b : b # None) : row \in Rows}

(* reduce() puts an empty bucket of time 0 before the first one if that is *)
(* not of the first time.                                                  *)
Reduced(times) ==
    {<<[time |-> 0, avg |-> 0, sdev |-> 0]>> \o data :
        data \in {d \in Filed(times) : d # <<>> /\ d[1].time # times[1]}}

(* What select() may return. *)
Results ==
    UNION {[grid : {grid}, data : Filed(TimesOf(grid)) \cup Reduced(TimesOf(grid))] : grid \in Grids}

-----------------------------------------------------------------------------
(* on_multigetBody() and go(): counters the store lacks are answered at    *)
(* once; without any counter the answer has no times.  A request that is   *)
(* refused (400) gets an answer without counters.                          *)
Init ==
    /\ found \in SUBSET Counters
    /\ posted = found
    /\ working = {}
    /\ num = Cardinality(found)
    /\ \/ answer = [c \in Counters \ found |-> None]
       \/ found = {} /\ answer = <<>>
    /\ header = None
    /\ completed = IF found = {} THEN 1 ELSE 0
    /\ plot = None

(* workOne(), under strmLock. *)
WorkOne(c, res) ==
    /\ c \in posted
    /\ posted' = posted \ {c}
    /\ working' = working \cup {c}
    /\ answer' = [d \in DOMAIN answer \cup {c} |-> IF d = c THEN res ELSE answer[d]]
    /\ header' = res.grid
    /\ UNCHANGED <<found, num, completed, plot>>

(* The rest of workOne(): the last handler writes the times and completes. *)
CountDown(c) ==
    /\ c \in working
    /\ working' = working \ {c}
    /\ num' = num - 1
    /\ completed' = IF num' = 0 THEN completed + 1 ELSE completed
    /\ UNCHANGED <<found, posted, answer, header, plot>>

-----------------------------------------------------------------------------
(* repaint() *)

Data(c) == answer[c].data
Drawn == {c \in DOMAIN answer : answer[c] # None}
Columns == TimesOf(header)

(* The lowest and the highest a bucket reaches in a format. *)
Reach(b, format) ==
    IF format \in {"errorBars", "customBars"} THEN [low |-> b.avg - b.sdev, high |-> b.avg + b.sdev]
    ELSE [low |-> b.avg, high |-> b.avg]

(* Slip: the maximum of a bucket is not looked at, only its minimum. *)
MutantAnnotate(s, b, t) ==
    LET r == Reach(b, "customBars")
    IN  [s EXCEPT !.low = IF @ = None THEN [value |-> r.low, at |-> t]
                          ELSE IF r.low < @.value THEN [value |-> r.low, at |-> t] ELSE @,
                  !.high = IF @ = None THEN [value |-> r.high, at |-> t]
                           ELSE IF r.low > @.value THEN [value |-> r.high, at |-> t] ELSE @]

(* The annotations of the lowest minimum and the highest maximum, at the   *)
(* column where the bucket was first looked at.                            *)
Annotate(s, b, t) ==
    LET r == Reach(b, "customBars")
    IN  [s EXCEPT !.low = IF @ = None THEN [value |-> r.low, at |-> t]
                          ELSE IF r.low < @.value THEN [value |-> r.low, at |-> t] ELSE @,
                  !.high = IF @ = None THEN [value |-> r.high, at |-> t]
                           ELSE IF r.high > @.value THEN [value |-> r.high, at |-> t] ELSE @]

(* One step of a series: the next bucket is drawn when it is of the        *)
(* column's time, and waits otherwise.                                     *)
Place(s, b, t) ==
    IF b.time = t THEN [s EXCEPT !.bidx = @ + 1, !.line = Append(@, b)] ELSE [s EXCEPT !.line = Append(@, None)]

(* The empty bucket, which can only be the first, is passed over. *)
Skip(s, data) == IF s.bidx = 1 /\ data # <<>> /\ data[1].time = 0 THEN [s EXCEPT !.bidx = 2] ELSE s

(* Slip: a bucket that is late for its column is drawn in the next one. *)
MutantPlotColumn(s0, data, t) ==
    LET s == Skip(s0, data)
        b == data[s.bidx]
    IN  IF s.bidx > Len(data) THEN [s EXCEPT !.line = Append(@, None)]
        ELSE Place(Annotate(s, b, t), [b EXCEPT !.time = IF @ <= t THEN t ELSE @], t)

PlotColumn(s0, data, t) ==
    LET s == Skip(s0, data)
        b == data[s.bidx]
    IN  IF s.bidx > Len(data) THEN [s EXCEPT !.line = Append(@, None)]
        ELSE Place(Annotate(s, b, t), b, t)

(* One series, column by column. *)
PlotSeries(c) ==
    FoldLeft(LAMBDA s, t : PlotColumn(s, Data(c), t), [bidx |-> 1, line |-> <<>>, low |-> None, high |-> None], Columns)

(* The lowest and the highest of all series; of equal ones the last. *)
Summary(series) ==
    LET Lower(a, b) == IF b = None \/ (a # None /\ a.value < b.value) THEN a ELSE b
        Higher(a, b) == IF b = None \/ (a # None /\ a.value > b.value) THEN a ELSE b
    IN  FoldLeft(LAMBDA sum, c : [low |-> Lower(sum.low, series[c].low), high |-> Higher(sum.high, series[c].high)],
                 [low |-> None, high |-> None], SetToSeq(Drawn))

(* Slip: the averages alone decide. *)
MutantLeast(b, format) == b.avg

(* minVal, which decides on the clamp to 0. *)
Least(b, format) == IF format = "customBars" THEN b.avg - b.sdev ELSE b.avg

(* The top of a stacked graph: the n-th buckets of all series are added    *)
(* up, whatever their times, an empty one included.  There is a sum for    *)
(* each column at least; one that no series has a bucket for is undefined, *)
(* and so is the maximum then: NaN.                                        *)
StackTop ==
    LET longest == Max({Len(Data(c)) : c \in Drawn})
        SumAt(n) == MapThenSumSet(LAMBDA c : Data(c)[n].avg,
                                  {c \in Drawn : Len(Data(c)) >= n})
    IN  IF longest < Len(Columns) THEN NaN ELSE Max({SumAt(n) : n \in 1 .. longest})

(* The range of the y axis, in twentieths: 5% below, 10% above; NaN for    *)
(* both ends if the maximum is.                                            *)
ValueRange(points, format) ==
    LET low == Min({Reach(b, format).low : b \in points})
        high == IF format = "stacked" THEN StackTop ELSE Max({Reach(b, format).high : b \in points})
        slop == IF high = low THEN 10 ELSE high - low
        negative == low * 20 - slop < 0
    IN  CASE points = {} -> [low |-> 0, high |-> 22]
          [] points # {} /\ high = NaN -> NaN
          [] OTHER -> [low |-> IF negative /\ \A b \in points : Least(b, format) >= 0 THEN 0
                               ELSE low * 20 - slop,
                       high |-> high * 20 + 2 * slop]

Repaint(format) ==
    /\ completed > 0 /\ plot = None
    /\ header # None /\ TimesOf(header) # <<>>
    /\ LET series == [c \in Drawn |-> PlotSeries(c)]
           lines == [c \in Drawn |-> series[c].line]
           points == UNION {ToSet(lines[c]) \ {None} : c \in Drawn}
       IN  plot' = [format |-> format, lines |-> lines, range |-> ValueRange(points, format),
                    summary |-> Summary(series)]
    /\ UNCHANGED <<found, posted, working, num, answer, header, completed>>

-----------------------------------------------------------------------------
Work(c) == (\E res \in Results : WorkOne(c, res)) \/ CountDown(c)

Next ==
    \/ \E c \in Counters : Work(c)
    \/ \E f \in Formats : Repaint(f)

Spec == Init /\ [][Next]_vars

-----------------------------------------------------------------------------
(* Properties *)

Times(c) == {b.time : b \in ToSet(Data(c))}

(* Whatever counter wrote the times last, repaint() draws a bucket only in *)
(* the column of its time, and each bucket of a counter whose own times    *)
(* the answer has, past any gap.                                           *)
PlotExact ==
    plot # None =>
        \A c \in Drawn, i \in DOMAIN Columns :
            /\ plot.lines[c][i] # None =>
                   plot.lines[c][i] \in ToSet(Data(c)) /\ plot.lines[c][i].time = Columns[i]
            /\ answer[c].grid = header /\ Columns[i] \in Times(c) => plot.lines[c][i] # None

Points == UNION {ToSet(plot.lines[c]) \ {None} : c \in Drawn}

Total(i) == MapThenSumSet(LAMBDA c : plot.lines[c][i].avg, {c \in Drawn : plot.lines[c][i] # None})

(* All series have buckets at the same times, as many as there are columns *)
(* (an empty one counts), none of them negative.                           *)
Aligned ==
    /\ \A c, d \in Drawn : Times(c) = Times(d)
    /\ \A c \in Drawn : Len(Data(c)) >= Len(Columns)
    /\ \A b \in Points : b.avg >= 0

(* The y axis reaches over every value drawn and its bars, but for the     *)
(* part of a deviation below 0 where no average is.  In a stacked graph it *)
(* reaches over the sums if the series have buckets at the same times and  *)
(* one for each column.  With fewer the range is NaN, and with gaps of     *)
(* their own the sums are of different times.                              *)
RangeCovers ==
    plot # None =>
        IF plot.format # "stacked"
        THEN /\ plot.range # NaN
             /\ \A b \in Points :
                /\ \/ plot.range.low <= 20 * Reach(b, plot.format).low
                   \/ plot.range.low = 0 /\ plot.format = "errorBars" /\ b.avg >= 0
                /\ plot.range.high >= 20 * Reach(b, plot.format).high
        ELSE Aligned =>
             /\ plot.range # NaN
             /\ \A b \in Points : plot.range.low <= 20 * b.avg
             /\ \A i \in DOMAIN Columns : plot.range.high >= 20 * Total(i)

(* The summary below a graph has the extremes of all that is drawn, if the *)
(* answer has the times of every counter, and tells of each a time at      *)
(* which it was: of a bucket after a gap the time at which the gap began,  *)
(* since repaint() looks at the next bucket in every column of the gap.    *)
SummaryExact ==
    plot # None /\ Points # {} /\ (\A c \in Drawn : answer[c].grid = header) =>
        LET Was(value, mark, b) == value = (IF mark = "low" THEN b.avg - b.sdev ELSE b.avg + b.sdev)
            Told(mark) ==
                \E c \in Drawn : \E b \in ToSet(Data(c)) :
                    /\ Was(plot.summary[mark].value, mark, b)
                    /\ plot.summary[mark].at <= b.time
                    /\ \A u \in Times(c) : u < plot.summary[mark].at \/ u >= b.time
        IN  /\ Told("low") /\ Told("high")
            /\ \A b \in Points :
                plot.summary.low.value <= b.avg - b.sdev /\ plot.summary.high.value >= b.avg + b.sdev

(* graph.js says: "for stacked charts, the y axis must be based on max of  *)
(* the sum of the y values for each x."                                    *)
StackedTop ==
    plot # None /\ plot.format = "stacked" =>
        /\ plot.range # NaN
        /\ \A i \in DOMAIN Columns : plot.range.high >= 20 * Total(i)

=============================================================================
