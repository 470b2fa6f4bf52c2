------------------------------ MODULE GraphPage ------------------------------
(***************************************************************************)
(* The graphs of the page, files/graph.js: GraphSurface, GraphGrid, the    *)
(* Loader and the dates they show (theCurrentDates).                       *)
(*                                                                         *)
(* Each action is one handler of the page: the user's clicks, timers, an   *)
(* answer of the server, a change of visibility.  Data is known by the     *)
(* counters and the dates it is for; the legend of a graph has a line for  *)
(* each counter that was drawn last.  A surface nothing refers to any more *)
(* is used again for a new graph.                                          *)
(***************************************************************************)
EXTENDS Loader, TimeRange

CONSTANTS
    NoData,
    Dashboards,     \* what dashboards may hold
    ManualDates,    \* the date ranges the user may type
    ZoomLengths,    \* lengths of the range the user may zoom into
    MaxQueue,       \* bound: gets that wait
    MaxOps,         \* bound: what the user does
    StartTime, MaxTime  \* bound: the clock

ASSUME GraphPageAssumption ==
    /\ Surfaces \subseteq Nat \ {0}
    /\ NoXhr \notin Requests(Dates)
    /\ NoData \notin [keys : SUBSET Counters, dates : Dates]
    /\ ManualDates \subseteq Dates /\ ZoomLengths \subseteq Nat
    /\ StartTime \in Nat /\ MaxTime \in Nat /\ MaxQueue \in Nat /\ MaxOps \in Nat
    /\ \A d \in Dashboards :
        d \in [graphs : Seq(Seq(Counters) \ {<<>>}), interval : Nat,
              slider : Indexes \cup {0}, auto : BOOLEAN]

VARIABLES
    time,       \* the dates, the slider, automatic refresh, visibility
    now,        \* getAdjustedNow()
    grid,       \* theGrid._allGraphs
    selected,   \* theGrid.selected, 0 for none
    series,     \* _series of each surface
    data,       \* _lastRenderData
    paints,     \* surfaces with a timer of renderData()
    repaints,   \* surfaces with a timer of repaintAll()
    drawn,      \* what _dygraph and the legend show
    window,     \* the part of it the user zoomed into (dateWindow_)
    missed,     \* for the properties: surfaces not painted on a hidden page
    ops         \* what the user did so far

pageVars == <<time, now, grid, selected, series, data, paints, repaints, drawn, window, missed>>
vars == <<loaderVars, pageVars, ops>>

Open == {grid[i] : i \in DOMAIN grid}

InUse == Open \cup Waiting(cbObjs) \cup (IF xhr = NoXhr THEN {} ELSE Waiting(xhr.cbs))
              \cup paints \cup repaints

(* The surfaces that the next n graphs may get, and get. *)
Unused(n) == {f \in [1 .. n -> Surfaces \ InUse] : \A i, j \in 1 .. n : i < j => f[i] < f[j]}
CanOpen(n) == Unused(n) # {}
Fresh(n) == CHOOSE f \in Unused(n) : TRUE

Init ==
    /\ LoaderInit
    /\ now = StartTime
    /\ LET dates == [start |-> StartTime - Markers[1], stop |-> StartTime]
       IN  time = [original |-> dates, current |-> dates, index |-> 1, manual |-> FALSE,
                   auto |-> FALSE, hidden |-> FALSE]
    /\ grid = <<>>
    /\ selected = 0
    /\ series = [s \in Surfaces |-> {}]
    /\ data = [s \in Surfaces |-> NoData]
    /\ paints = {} /\ repaints = {}
    /\ drawn = [s \in Surfaces |-> NoData]
    /\ window = [s \in Surfaces |-> NoData]
    /\ missed = {}
    /\ ops = 0

(* _destroyDygraph() of some graphs. *)
destroyDygraph(surfaces) ==
    /\ drawn' = [s \in Surfaces |-> IF s \in surfaces THEN NoData ELSE drawn[s]]
    /\ window' = [s \in Surfaces |-> IF s \in surfaces THEN NoData ELSE window[s]]

(* The constructor of the new graphs nu, after others were closed. *)
GraphSurface(nu, closed) ==
    /\ data' = [s \in Surfaces |-> IF s \in nu THEN NoData ELSE data[s]]
    /\ missed' = missed \ nu
    /\ destroyDygraph(nu \cup closed)

-----------------------------------------------------------------------------
(* Gets of the graphs *)

(* Each of some graphs asks for its series. *)
Gets(surfaces, ser) == [s \in Surfaces |-> IF s \in surfaces THEN <<ser[s]>> ELSE <<>>]

reload(cbs) ==
    /\ \/ \A s \in Surfaces : Len(cbObjs[s]) + Len(cbs[s]) <= MaxQueue
       \/ ~ (nextEvent \/ xhr # NoXhr)
    /\ addToNextGet(cbs)
    /\ UNCHANGED xhr

(* reloadAll(), or nothing when refresh() left early. *)
reloadAll(wanted) == reload(IF wanted THEN Gets(Open, series) ELSE NoGets)

(* toggleSeries() before its reload: the last series is not deleted. *)
Toggled(ser, path) ==
    IF path \notin ser THEN ser \cup {path}
    ELSE IF ser # {path} THEN ser \ {path} ELSE ser

(* The user clicks a counter (toggleGraphing): without a selected graph a  *)
(* new one is made and selected.                                           *)
ToggleGraphing(path) ==
    /\ ~ time.hidden
    /\ \/ /\ selected # 0
          /\ series' = [series EXCEPT ![selected] = Toggled(@, path)]
          /\ reload(Gets({selected}, series'))
          /\ UNCHANGED <<grid, selected, data, drawn, window, missed>>
       \/ /\ selected = 0
          /\ CanOpen(1)
          /\ LET nu == Fresh(1)[1]
             IN  /\ grid' = Append(grid, nu)
                 /\ selected' = nu
                 /\ series' = [series EXCEPT ![nu] = Toggled({}, path)]
                 /\ GraphSurface({nu}, {})
                 /\ reload(Gets({nu}, series'))
    /\ UNCHANGED <<time, now, paints, repaints>>

(* A click goes on to the widgets around its target: the one of a graph    *)
(* that is there selects it and stops the click, the one of the grid       *)
(* selects none (0).                                                       *)
objForward(s) == selected' = s

(* The legend has a line for each label but the one of the x axis. *)
Labels(d) == {"time"} \cup d.keys
generateLegendHTML(labels) == labels \ {"time"}

(* The legend is made anew whenever the chart was drawn. *)
Legend(s) == IF drawn[s] = NoData THEN {} ELSE generateLegendHTML(Labels(drawn[s]))

(* The user clicks a line of a legend, perhaps of a series that was        *)
(* removed since the graph was drawn.                                      *)
LegendClick(s, path) ==
    /\ ~ time.hidden
    /\ s \in Open /\ path \in Legend(s)
    /\ objForward(s)
    /\ series' = [series EXCEPT ![s] = Toggled(@, path)]
    /\ reload(Gets({s}, series'))
    /\ UNCHANGED <<time, now, grid, data, paints, repaints, drawn, window, missed>>

(* The series of a graph after each toggle of change_counters(). *)
Changed(ser, from, to, keep) ==
    IF from \notin ser THEN <<>>
    ELSE LET added == Toggled(ser, to) IN IF keep THEN <<added>> ELSE <<added, Toggled(added, from)>>

(* The user has one counter replaced by another in all graphs, or added to *)
(* it: each toggle asks for its graph, and each graph is asked for at the  *)
(* end.                                                                    *)
ChangeCounters(from, to, keep) ==
    LET steps == [s \in Surfaces |-> Changed(series[s], from, to, keep)]
        final == [s \in Surfaces |-> IF steps[s] = <<>> THEN series[s] ELSE steps[s][Len(steps[s])]]
        toggles == [s \in Surfaces |-> IF s \in Open THEN steps[s] ELSE <<>>]
    IN  /\ ~ time.hidden
        /\ grid # <<>> /\ from # to
        /\ series' = final
        /\ reload(Then(toggles, Gets(Open, final)))
        /\ UNCHANGED <<time, now, grid, selected, data, paints, repaints, drawn, window, missed>>

(* GraphSurface.click() and GraphGrid.click(). *)
Select(s) ==
    /\ ~ time.hidden
    /\ s \in Open \cup {0}
    /\ s # selected
    /\ objForward(s)
    /\ UNCHANGED <<loaderVars, time, now, grid, series, data, paints, repaints, drawn, window, missed>>

arrayRemove(a, e) ==
    LET k == CHOOSE i \in DOMAIN a : a[i] = e /\ \A j \in 1 .. i - 1 : a[j] # e
    IN  [i \in 1 .. Len(a) - 1 |-> IF i < k THEN a[i] ELSE a[i + 1]]

(* GraphGrid.remove(); the selection is the matter of the click. *)
removeGraph(s) ==
    /\ grid' = arrayRemove(grid, s)
    /\ time' = IF grid' = <<>> THEN restoreOriginalInterval(time) ELSE time

(* GraphSurface.close(); the click then gets to the grid, past the widget  *)
(* of the graph, which is removed.                                         *)
Close(s) ==
    /\ ~ time.hidden
    /\ s \in Open
    /\ destroyDygraph({s})
    /\ series' = [series EXCEPT ![s] = {}]
    /\ objForward(0)
    /\ removeGraph(s)
    /\ UNCHANGED <<loaderVars, now, data, paints, repaints, missed>>

-----------------------------------------------------------------------------
(* The dates *)

(* A handler that sets the dates to t and asks for every graph again, and  *)
(* the graph that is selected then.                                        *)
ShowDatesAt(t, reloads, s) ==
    /\ time' = t
    /\ reloadAll(reloads)
    /\ objForward(s)
    /\ UNCHANGED <<now, grid, series, data, paints, repaints, drawn, missed>>

ShowDates(t, reloads) == ShowDatesAt(t, reloads, selected) /\ UNCHANGED window

(* What a graph shows of its dates (xAxisRange). *)
Shown(s) == IF window[s] = NoData THEN drawn[s].dates ELSE window[s]

(* Slip: the graphs are not asked for again. *)
MutantZoom(s, length, at) ==
    LET dates == [start |-> Shown(s).start, stop |-> Shown(s).start + length]
    IN  /\ ~ time.hidden
        /\ s \in Open /\ drawn[s] # NoData
        /\ length < Span(Shown(s))
        /\ ShowDatesAt(zoomCallback(time, dates, now), FALSE, at)
        /\ window' = [window EXCEPT ![s] = dates]

(* The user zooms into a part of what a graph shows, and lets go of the    *)
(* mouse on the graph, beside it on the grid, or elsewhere: the click at   *)
(* the end may select.                                                     *)
Zoom(s, length, at) ==
    LET dates == [start |-> Shown(s).start, stop |-> Shown(s).start + length]
    IN  /\ ~ time.hidden
        /\ s \in Open /\ drawn[s] # NoData
        /\ length < Span(Shown(s))
        /\ ShowDatesAt(zoomCallback(time, dates, now), TRUE, at)
        /\ window' = [window EXCEPT ![s] = dates]

ZoomOut(s) ==
    /\ ~ time.hidden
    /\ s \in Open
    /\ ShowDatesAt(zoomOutIntervals(time, now), TRUE, s)
    /\ UNCHANGED window

(* A double click in a graph: after zoomOutIntervals() dygraph leaves the  *)
(* part it shows, and calls zoomCallback() with the dates it has drawn     *)
(* unless lastDomain, what it showed, were these.                          *)
DblClick(s) ==
    /\ ~ time.hidden
    /\ s \in Open /\ drawn[s] # NoData
    /\ objForward(s)
    /\ window' = [window EXCEPT ![s] = NoData]
    /\ \/ /\ window[s] = NoData
          /\ time' = zoomOutIntervals(time, now)
          /\ reloadAll(TRUE)
       \/ /\ window[s] # NoData
          /\ time' = zoomCallback(zoomOutIntervals(time, now), drawn[s].dates, now)
          /\ reload(Then(Gets(Open, series), Gets(Open, series)))
    /\ UNCHANGED <<now, grid, series, data, paints, repaints, drawn, missed>>

MoveSlider(index) ==
    /\ ~ time.hidden
    /\ ShowDates(setIndex(time, index, now), SetIndexReloads(time, index))

SelectDateRange(dates) ==
    /\ ~ time.hidden
    /\ dates.start < dates.stop
    /\ ShowDates(resetDateRange(time, dates), TRUE)

(* The refresh button, and the timer of automatic refresh. *)
Refresh == ShowDates(refresh(time, now), ~ time.hidden)

AutoRefreshTimer == time.auto /\ Refresh

AutoRefresh ==
    /\ ~ time.hidden
    /\ ShowDates([time EXCEPT !.auto = ~ @], FALSE)

(* The visibilitychange handler calls refresh() when the page is hidden,   *)
(* where it returns at once.                                               *)
VisibilityChange ==
    ShowDates([time EXCEPT !.hidden = ~ @], FALSE)

Tick ==
    /\ now < MaxTime
    /\ now' = now + 1
    /\ UNCHANGED <<loaderVars, time, grid, selected, series, data, paints, repaints, drawn, window, missed>>

-----------------------------------------------------------------------------
(* Replacing the grid *)

(* The series of a new graph after each toggle of paths. *)
SeriesAfter(paths) ==
    LET ser[i \in 0 .. Len(paths)] == IF i = 0 THEN {} ELSE Toggled(ser[i - 1], paths[i]) IN ser

(* toggleSeries() for each of the counters of one graph: one get each. *)
TogglesOf(paths) == [i \in DOMAIN paths |-> SeriesAfter(paths)[i]]

(* GraphGrid.clear() and a new graph for each member of graphs; t are the  *)
(* dates after it.  documentResize(), at the end, repaints the new ones.   *)
ReplaceGrid(graphs, t, reloads) ==
    LET nu == Fresh(Len(graphs))
        new == {nu[i] : i \in DOMAIN nu}
        toggles == [s \in Surfaces |->
                      IF s \in new THEN TogglesOf(graphs[CHOOSE i \in DOMAIN nu : nu[i] = s]) ELSE <<>>]
        ser == [s \in Surfaces |-> IF s \in new THEN Latest(toggles, s) ELSE {}]
    IN  /\ CanOpen(Len(graphs))
        /\ grid' = nu
        /\ selected' = 0
        /\ series' = ser
        /\ GraphSurface(new, Open)
        /\ repaints' = repaints \cup new
        /\ time' = t
        /\ reload(IF reloads THEN Then(toggles, Gets(new, ser)) ELSE toggles)
        /\ UNCHANGED <<now, paints>>

(* The dates after clear(). *)
Cleared == IF grid = <<>> THEN time ELSE restoreOriginalInterval(time)

(* An answer brings a dashboard (openDashboard), also to a hidden page. *)
OpenDashboard(d) ==
    ReplaceGrid(d.graphs, OpenDates(Cleared, d.interval, d.slider, d.auto, now),
                d.slider # 0 /\ SetIndexReloads(time, d.slider))

(* The address holds the state of the page (load_state). *)
LoadState(d, dates) == ReplaceGrid(d.graphs, resetDateRange(Cleared, dates), TRUE)

-----------------------------------------------------------------------------
(* Timers and answers *)

LoaderTimer ==
    /\ onTimer(time.current)
    /\ UNCHANGED pageVars

(* Slip: a graph that is drawn is not painted again. *)
MutantRendered(cbs, dates) ==
    /\ data' = [s \in Surfaces |->
                  IF s \in Waiting(cbs) THEN [keys |-> Latest(cbs, s), dates |-> dates] ELSE data[s]]
    /\ paints' = paints \cup {s \in Waiting(cbs) : drawn[s] = NoData}

(* renderData() for the callbacks of an answer. *)
Rendered(cbs, dates) ==
    /\ data' = [s \in Surfaces |->
                  IF s \in Waiting(cbs) THEN [keys |-> Latest(cbs, s), dates |-> dates] ELSE data[s]]
    /\ paints' = paints \cup Waiting(cbs)

Answer ==
    /\ onXhrComplete(time.current)
    /\ Rendered(xhr.cbs, xhr.dates)
    /\ UNCHANGED <<time, now, grid, selected, series, repaints, drawn, window, missed>>

AnswerError ==
    /\ onXhrError
    /\ UNCHANGED pageVars

(* The new Dygraph at the end of repaint(). *)
Dygraph(s) ==
    /\ drawn' = [drawn EXCEPT ![s] = data[s]]
    /\ window' = [window EXCEPT ![s] = NoData]

(* repaint(): without data it returns early. *)
repaint(s) ==
    /\ missed' = missed \ {s}
    /\ IF data[s] = NoData THEN UNCHANGED <<drawn, window>> ELSE Dygraph(s)

(* The timer of renderData() looks whether the page is hidden. *)
Paint(s) ==
    /\ s \in paints
    /\ paints' = paints \ {s}
    /\ IF time.hidden THEN missed' = missed \cup {s} /\ UNCHANGED <<drawn, window>> ELSE repaint(s)
    /\ UNCHANGED <<loaderVars, time, now, grid, selected, series, data, repaints>>

(* documentResize(), after a change of the window, the splitter or the     *)
(* size of the graphs: repaintAll() has a timer for each graph.            *)
Resize ==
    /\ ~ time.hidden
    /\ grid # <<>>
    /\ repaints' = repaints \cup Open
    /\ UNCHANGED <<loaderVars, time, now, grid, selected, series, data, paints, drawn, window, missed>>

(* A timer of repaintAll() paints a hidden page too, and a closed graph. *)
RepaintTimer(s) ==
    /\ s \in repaints
    /\ repaints' = repaints \ {s}
    /\ repaint(s)
    /\ UNCHANGED <<loaderVars, time, now, grid, selected, series, data, paints>>

(* The user answers the dialog of showSettings() with another display      *)
(* format: the graph is painted at once.  The click that opened the dialog *)
(* is Select; what the answer paints of a closed graph is not seen.        *)
ChooseFormat(s) ==
    /\ ~ time.hidden
    /\ s \in Open
    /\ repaint(s)
    /\ UNCHANGED <<loaderVars, time, now, grid, selected, series, data, paints, repaints>>

UserNext ==
    /\ ops < MaxOps
    /\ ops' = ops + 1
    /\ \/ \E path \in Counters : ToggleGraphing(path)
       \/ \E s \in Surfaces, path \in Counters : LegendClick(s, path)
       \/ \E from, to \in Counters, keep \in BOOLEAN : ChangeCounters(from, to, keep)
       \/ \E s \in Surfaces \cup {0} : Select(s)
       \/ \E s \in Surfaces : Close(s)
       \/ \E s \in Surfaces, length \in ZoomLengths : \E at \in {s, 0, selected} : Zoom(s, length, at)
       \/ \E s \in Surfaces : ZoomOut(s) \/ DblClick(s) \/ ChooseFormat(s)
       \/ \E index \in Indexes : MoveSlider(index)
       \/ \E dates \in ManualDates : SelectDateRange(dates)
       \/ AutoRefresh
       \/ ~ time.hidden /\ Refresh
       \/ VisibilityChange
       \/ Resize
       \/ \E d \in Dashboards : OpenDashboard(d) \/ \E dates \in ManualDates : LoadState(d, dates)

PageNext ==
    /\ UNCHANGED ops
    /\ \/ LoaderTimer \/ Answer \/ AnswerError
       \/ \E s \in Surfaces : Paint(s) \/ RepaintTimer(s)
       \/ AutoRefreshTimer
       \/ Tick

Next == UserNext \/ PageNext

Spec == Init /\ [][Next]_vars

-----------------------------------------------------------------------------

Data == [keys : SUBSET Counters, dates : Dates] \cup {NoData}

(* Type invariant of the page's state. *)
TypeOK ==
    /\ getting \subseteq Counters /\ cbObjs \in Callbacks /\ nextEvent \in BOOLEAN
    /\ xhr \in Requests(Dates) \cup {NoXhr} /\ failed \subseteq Surfaces /\ refused \in BOOLEAN
    /\ time \in TimeStates /\ now \in Nat
    /\ grid \in Seq(Surfaces) /\ selected \in Surfaces \cup {0}
    /\ series \in [Surfaces -> SUBSET Counters] /\ data \in [Surfaces -> Data]
    /\ paints \subseteq Surfaces /\ repaints \subseteq Surfaces
    /\ drawn \in [Surfaces -> Data] /\ window \in [Surfaces -> Dates \cup {NoData}] /\ missed \subseteq Surfaces

(* The Loader keeps its keys and its callbacks in step: a request asks for *)
(* exactly the counters of the callbacks its answer will be given to, so   *)
(* renderData() never misses a series, and never is a callback left whose  *)
(* keys were asked for before it.  A get that waits has something to come  *)
(* that sends it ("I'll do this when _xhr completes"): the timer, or the   *)
(* end of the request under way; unless the one before it was refused.     *)
GetsCovered ==
    /\ getting = KeysOf(cbObjs)
    /\ xhr # NoXhr => xhr.keys = KeysOf(xhr.cbs)
    /\ Waiting(cbObjs) # {} => nextEvent \/ xhr # NoXhr \/ refused

(* Once the Loader is at rest every graph on the page holds the data of    *)
(* its present series for the present dates, whatever was toggled, zoomed, *)
(* refreshed, loaded or hidden while requests were under way; except a     *)
(* graph whose latest get was in a request the server refused.             *)
Settled ==
    getting = {} /\ xhr = NoXhr =>
        \A s \in Open \ failed : data[s] = [keys |-> series[s], dates |-> time.current]

(* Once no timer is left that would paint it, each graph on the page and   *)
(* its legend show the data the graph holds, through any resizes, answers, *)
(* legend clicks and replaced grids; except a graph whose data came while  *)
(* the page was hidden and that was not painted since: showing the page    *)
(* again paints nothing.                                                   *)
ScreenIsData ==
    paints = {} /\ repaints = {} => \A s \in Open \ missed : drawn[s] = data[s]

(* graph.js says: "Double click to restore zoom *AND* restore original     *)
(* time interval."                                                         *)
DblClickRestores ==
    [][\A s \in Surfaces : DblClick(s) => time'.current = zoomOutIntervals(time, now).current]_vars

=============================================================================
