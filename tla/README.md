# A TLA+ model of istatd

istatd is a statistics server. Programs send it samples over TCP or UDP; it
keeps each counter in a set of ring-buffer files of growing interval length,
answers queries over HTTP, serves a web page that draws the counters, and, when
it runs as an agent, sums the samples up for a few seconds and forwards them to
other istatds. The daemon is a multi-threaded C++ program around a boost::asio
`io_service`: handlers of one object are kept apart by a strand or a mutex, and
handlers of different objects interleave freely. The page is one JavaScript
thread whose handlers interleave with answers of the server, timers and
animations.

This directory holds TLA+ modules that model its parts, TLC configurations that
check them on small instances, and theorems that TLAPS proves for every value
of the constants. Paths below are relative to `src/`; `PROJECT.json` gives, for
each definition that models code, the lines it stands for.

## The parts of the system

| Part | Code | Role | Modules |
|---|---|---|---|
| Counter file | `lib/StatFile.cpp`, `lib/Bucket.cpp` | ring of buckets addressed by quantised time | `StatFile`, `StatFileReads`, `BucketHistory` |
| Counter | `daemon/StatCounter.cpp` | collation window in memory, fan-out into the files, queries | `StatCounter`, `StatCounterReads` |
| List of names | `daemon/AllKeys.cpp` | lock-free list searched by listings | `AllKeys`, `KeySet` |
| Counter store | `daemon/StatStore.cpp` | map from names to counters, creation, deletion, refresh of the list | `StatStore` |
| Connection | `daemon/EagerConnection.cpp` | buffered, reconnecting connection | `EagerConnection` |
| Agent forwarding | `daemon/StatServer.cpp`, `daemon/Bucketizer.cpp` | summing up and sending on of samples | `Forwarding` |
| Settings | `daemon/Settings.cpp`, workers of `daemon/RequestInFlight.cpp` | key-value files behind the page | `Settings` |
| Query for several counters | `daemon/RequestInFlight.cpp`, `files/graph.js` | answers of several strands, and the plot made of them | `GraphData` |
| Graphs of the page | `files/graph.js` | loading, dates and zoom, the grid, painting | `Loader`, `TimeRange`, `GraphPage` |
| Dashboards of the page | `files/graph.js` | list, load, save, delete, address, login | `Dashboards` |
| Counter tree of the page | `files/graph.js`, `files/jstree.js`, `KeyMatch` of `daemon/AllKeys.cpp` | names, filter, the tree widget | `CounterNames`, `JsTree`, `CounterTree` |
| The page around the graphs | `files/graph.js` | login, dialogs, menus, tabs, slider, splitter, fields, cross-references | `Dialogs`, `Accounts`, `Controls`, `Fields`, `Xref`, `PageControls` |
| What the page uses of jQuery and Backbone | `files/jquery-2.1.1.js`, `files/backbone.js` | callbacks, animations, events, requests, models | `Deferred`, `Fx`, `DomEvents`, `Ajax`, `Backbone` |

A sample enters through the statistics server. `StatStore::record` finds or
creates the counter (adding its name to `AllKeys`) and posts the sample to the
counter's strand; `StatCounter::record` puts it into the collation window or
straight into the files; `StatFile::rawUpdateBucket` changes a ring. On an agent
the sample also goes into a `Bucketizer`, whose lines a timer hands to the
`EagerConnection`s. The page asks for the names, builds its tree of them, asks
for the buckets of the counters that were picked, and keeps users and dashboards
in settings files of the daemon.

The modules follow those seams. `StatCounter` is composed of two instances of
`StatFile`; `StatStore` uses the list of names through the set that `AllKeys` is
proved to implement; `Forwarding` uses a connection through what
`EagerConnection` gives it (`writeOut()` takes data at any time, and
`connected()` says whether it is up); `Dashboards` and `PageControls` use the
settings through the get and set that `Settings` makes atomic; and the modules of
the page extend each other in the order in which its code is layered:

    Deferred -- Ajax, DomEvents -- Backbone -+- Dialogs - Accounts -+- Controls - Xref -+- PageControls
            \-- Fx --------------------------/                      \- Fields ----------/
    Loader, TimeRange - GraphPage        CounterNames - JsTree - CounterTree

## The modules

### StatFile, StatFileReads, BucketHistory

State: the buckets (`slot`), and the header fields `firstBucket`, `lastBucket`,
`lastTime`, `total`. The one action, `Update`, is `rawUpdateBucket` with its four
modes: the retention test, the advance of `last_bucket` and `first_bucket`, the
clearing of a leftover of an earlier lap, the update itself and the cumulative
sum. C++ division truncates towards zero, and so does `CDiv`. `StatFileReads` has
the reads as operators over the same state: `ReadBuckets` copies slots in file
order, wrapping at the end of the ring, and `ReadBucketsFromFile` then puts zeros
into the gaps of a collated counter (`FillGaps`) or removes what is not of the
range (`Sanitized`).

A bucket is `[time, sum, count]`; squares, minimum and maximum are updated
beside the sum in the same statement and add no control.

`BucketHistory` is what a user of a file is promised: the sums of the last
`BucketCount` intervals. `ImplementsHistory` maps a file to it: an interval has
the sum of its slot if the slot's time stamp is the interval's.

### StatCounter, StatCounterReads

An event counter: `window` is `collations_`, and `Fine` and `Coarse` are two
instances of `StatFile` with different intervals. `Record`, `Flush`,
`ForceFlush` and `Reopen` (the destructor, then a new object on the same files)
are the handlers of the counter's strand; each changes the window and leaves the
`updateBucket()` calls it makes in `todo`, which `WriteFine` and `WriteCoarse`
carry out in order before the strand does anything else. `Tick` is the clock.

`StatCounterReads` is `select()` as an operator: the choice of the file
(`PickStatFile`), `NormalizeRange` and `Reduce`. The range and the limit of the
query are quantified over sets of the configuration.

The ghost variables `accepted`, `torn` and `lost` say, by interval, which events
were accepted, which intervals a restart fell into, and what it forgot.

### AllKeys, KeySet

One step is one access to memory that threads share. `add()` is `AddBegin`
(allocate, set `dirty_`), `AddRead` (link to the head) and `AddCas`; `match()`
takes `lock_`, tests and clears `dirty_`, walks the list and extracts;
`exchange()` reads the head once, sets `dirty_`, and compares and exchanges, after
which its caller frees the old list. `dirty_` is not initialised by the
constructor, so `Init` leaves it open. The records reachable from `head` are the
least set that has it and is closed under `next`, which the prover can reason
about. `KeySet` is the set that grows by one name or is replaced as a whole.

### StatStore

`map[k]` is the generation of the counter that the map holds for name `k`; a deleted
counter stays in the map, with `statCounter_` swapped for `theDeletedCounter`
(`gone`), until a refresh drops it. `OpenCounter` is `openCounter()`;
`DeleteRequest`, `DeleteLookup`, `DeleteSwap`, `DeleteStuff` and `ScheduleRefresh`
are the deletion, by lock section and by handler, with `PurgeThrows` and
`PruneThrows` for its two error paths; `RefreshBegin`, `RefreshShard`,
`RefreshReadHead` and `RefreshExchange` are `refreshAllKeys()`, which locks one
shard at a time; a counter that is made between the last two moves the head of the
list (`moved`), and the exchange then spins for ever. `Restart` stops the daemon at
any point and loads what is on disk. If two deletions purge the same `StatCounter`
the second one takes the front of an empty list; the model ends the process there
(`up`).

### EagerConnection

The connection's flags, its socket and the outcome of its asynchronous
operations are the record `conn`; `outgoing` and `writeBuf` are the two buffers.
One action per handler (`OnConnectOk`, `OnConnectErr`, `OnWriteOk`, ...), one for
`writeOut()`, and actions of the network: it completes or fails an operation, and
loses the peer. Closing the socket ends every outstanding operation with an
error, whose handler still runs. `CloseOnDisconnect` tells the two users apart:
the agent's connection, and that of a replica, whose disconnect callback
closes it.

### Forwarding

`HandleForward` puts a sample into the counter's `Bucketizer`; `ClearForward`
takes all bucketizers over under `forwardMutex_`, picks the usable connections
and spreads the lines over them (`Share`, round robin); the timer and an admin
flush call it from two threads, and each then calls `writeOut()` (`WriteOut`)
without the lock. `OnWrite`, `Disconnect` and `Reconnect` are what the
connections do. The clock (`Tick`) does not wait for the timer, whose handler may run
any number of seconds late. A sample is known by the order of its coming, so that a line is
the set of its samples and "once" can be said of each.

### Settings

One settings file. `objects` has every `RealSettings` made for it, with its values
in memory, the dirty flag, the timers queued for it and where its `save()` is;
`current` is the one the factory hands out. `save()` is cut between its steps on
the disk: the copy is written, the file is removed, the copy is renamed. The writing
may fail, which `save()` does not notice (`unwritten`); `remove()` or `rename()` may
throw. Likewise a reload is cut between reading the file (`ReloadSettings`) and
taking the object's lock to merge what it read (`ReloadMerge`), and a save may come
between the two (`overtaken`). Workers that hold an object set values in it also
after a flush dropped it from the factory (`outlived`). An operator may edit the
file, and the daemon may crash between any two steps. `latest` is a ghost, the
latest value of every key, as are the three just named.
`Trimmed` is what a value becomes on its way through the file.

### The page

`Loader` collects the gets of half a second into one request and makes one
request at a time; `TimeRange` is the record of dates, slider and automatic
refresh; `GraphPage` has the surfaces, their series, data and drawing, and an
action for each handler: clicks, zooms, timers, answers, a change of visibility, a
dashboard that replaces the grid.

`Dashboards` has the server's files, the page's globals and a bag of requests and
answers under way, which arrive in any order or get lost. The server may refuse a
save, after which the page shows a dialog and goes on as if it had been done.

`GraphData` follows one request: each counter's handler runs on its own strand,
enters its answer under a lock, and the last one sends the reply, which
`repaint()` turns into lines, an axis and a summary. What a counter's file gives
goes through `reduce()`, which puts an empty bucket of time 0 before the first one;
a request that is refused has no data. `NaN` is the number that a sum with an
undefined part becomes.

`CounterTree` draws the names that the filter leaves with the tree widget
(`JsTree`) each time its model changes; lists that open and close slide, and the
end of a slide is an action of its own.

`PageControls` is the rest of the page. The page is a record `p`, and what an event
does is a list of calls, `p.todo`, that `Exec` makes until there are none, each
putting the calls it makes in front. `Deferred`, `Fx`, `DomEvents`, `Ajax` and
`Backbone` are jQuery's and Backbone's part of those calls, modelled from their
source as far as the page uses them. Between two events requests are under way and
animations run.

## Checked by TLC

| Run | Specification | States | Question |
|---|---|---|---|
| `StatFileGauge` | `StatFileReads` | 1,213 | Is a gauge file right when samples arrive out of order and the ring wraps? |
| `StatCounterEvents` | `StatCounterReads` | 89,526 | Do late events, flushes and restarts leave the files exact, and does a query return what the files hold? |
| `AllKeysList` | `AllKeys` | 219,938 | Is the lock-free list an atomic set, and is a rebuild complete? |
| `StatStoreRefresh` | `StatStore` | 78,848 | Do deletion, creation, refresh and restart keep map, list and disk together? |
| `EagerConnectionAgent` | `EagerConnection` | 203,792 | Does the connection keep order and come back after every failure? |
| `ForwardingAgents` | `Forwarding` | 533,698 | Is each sample forwarded once and under its own interval? |
| `SettingsFiles` | `Settings` | 525,135 | Does what was set reach the file, through flushes, faults and crashes? |
| `GraphPageLoads` | `GraphPage` | 380,088 | Does every graph end up with the data of its present series and dates? |
| `DashboardsPage` | `Dashboards` | 318,644 | Do the address, the screen, the list and the server agree in the end? |
| `CounterTreeFilter` | `CounterTree` | 32,900 | Does the tree show the names, and a click toggle what it shows? |
| `GraphDataPlots` | `GraphData` | 325,461 | Does a plot show each bucket at its time, and its axis reach over it? |
| `PageControlsVisits` | `PageControls` | 170,605 | Do the controls agree with the login, the requests and the dashboard? |

The properties:

- **StatFileGauge**. `SlotAgreement`: a bucket sits in the slot of its own time
  stamp, so the comparison of time stamps really recognises leftovers.
  `GaugeReadExact`: a read returns each stored bucket of the range once, in order,
  and nothing else. `NoLiveDataLost`: a step takes nothing from a bucket within the
  retention. `ImplementsHistory`: the file refines `BucketHistory`.
- **StatCounterEvents**. `RecordLandsInWindow`: the unchecked `collations_[i]` is in
  range. `FilesExact`: after an interval left the window its bucket in the finest
  file is exact, before that the file shows more than half of it, and the coarser
  file has each event once. `SelectExact`: each interval of an answer has the sum
  that the chosen file holds for it.
- **AllKeysList**. `RebuildComplete`: a rebuild has every name whose `add()`
  returned before. `ImplementsKeySet`: the list refines `KeySet`.
- **StatStoreRefresh**. `ListingFresh`: a listing never shows a name only because
  of a counter deleted before the refresh began. `UnlistedIsLate`: a live counter
  is missing only if it was created during a refresh. `DeletedLeavesMap`: a deleted
  counter leaves the map, unless an error ended the batch, a refresh was declined, or
  it spins in the exchange of the lists.
- **EagerConnectionAgent**. `OutputHasACarrier`: output is never left with nothing
  to send it. `SentInOrder`: chunks reach the kernel in order and at most once.
  `Reconnects`: a connection that is not up comes up again.
- **ForwardingAgents**. `ForwardedOnce`: each sample taken is in one place and one
  line, under its own counter and interval. `RecentSampleTaken`: while the
  timer's last flush is no more than ten seconds ago, a sample close to the current
  time is not refused, though offsets count from the counter's first sample.
- **SettingsFiles**. `SettledExact`: once nothing waits to be saved, the file holds
  the latest value of every key. `FileOrCopy`: while the file is missing between
  `remove()` and `rename()`, a copy with what the object has is beside it.
  `SavedInTheEnd`: what was set is saved. The exceptions, by ghost: `SettledExact` has
  edits, faults, `outlived` and `overtaken`; `FileOrCopy` has `outlived` and
  `unwritten`; `SavedInTheEnd` has faults and `outlived`.
- **GraphPageLoads**. `GetsCovered`: a request asks for exactly the counters of its
  callbacks, and a get that waits has something to come that sends it. `Settled`:
  at rest every graph has the data of its series and dates. `ScreenIsData`: and
  shows it.
- **DashboardsPage**. `HashMatchesShown`, `ShownIsStored`, `ListExact`: at rest the
  address is that of the dashboard shown, what is shown is what is stored, and the
  list has each dashboard once. `Settles`: the page comes to rest. `ShownIsStored`
  excepts a name whose load was answered before its save was written, or whose saves
  were written in another order than they were made (`raced`), one of which a dialog
  said that it could not be loaded, saved or deleted, and the loss of an answer.
- **CounterTreeFilter**. `TogglesAsAsked`: a click toggles exactly the counter
  shown, a filter none. `TreeExact`: the tree drawn is that of names and filter.
  `ListsFollowNodes`: open branches have their lists. `KeysWalk`: the arrow keys
  reach every item and back.
- **GraphDataPlots**. `PlotExact`: a bucket is drawn in the column of its time and
  none is left out. `RangeCovers`: the axis reaches over what is drawn; of stacked
  plots it says so if each series has a bucket for each column.
  `SummaryExact`: the summary tells the extremes and when they were.
- **PageControlsVisits**. `LoginExact`: screen, page and server agree on the login,
  also after a reload. `ControlsShown`: bar, menus and tabs show what the page
  counts. `DragEnds`: a drag leaves no handler behind. `XrefOffers`: the lists of the
  cross-reference dialog are right whatever was selected; a second answer that is an
  error passes for one without agents and empties them. `DatesAsAsked`: the dates
  typed are the dates shown. `SavedViewOpens`: a dashboard opens as it was saved.

Some properties except a case by name (a request the server refused, two reloads
that overlapped); the comment above each says which and why. The excepted case is
one in which the code really does otherwise.

Every property of a run has a mutant: an operator beside the original,
commented "Slip", that changes it as a plausible mistake would. Under it TLC
reports the property violated.

### Bounds, and why they are enough

- `StatFile`: three buckets of two seconds; the times span two laps, so
  each slot is used, left over and overwritten, and the newest index jumps by
  more than the whole ring. `MaxTotal` bounds the updates: enough for one in each
  bucket and a second one in some.
- `StatCounter`: a window of three, the least with a middle (shifts move it by
  half); a finest ring of four, one more than the window, and a coarser ring of
  two, so both wrap within `MaxNow`. Three events are enough to reach the second
  power of two in one bucket and have a late one beside it. One restart. The
  creation time is not a multiple of either interval.
- `AllKeys`: two adders race for the head, one matcher walks beside them (`match`
  calls exclude each other by `lock_`), one exchange; the list that comes in has
  one record. Records are never reused, as none is allocated twice in a run; the
  model has at most one `exchange()`, so it says nothing about a record that is
  freed and allocated again while a thread still has its address.
- `StatStore`: two names in two shards, since the refresh and the deletions only
  interleave by shard; two deleters; two generations of a name, so that a name is
  deleted and made again. `MaxQueued` is 0, where the code has 2: the limit is then
  reached with two deletions instead of four. The theorems hold for any value.
- `EagerConnection`: a buffer of one chunk and three chunks, so the buffer
  overflows while a write is out; three faults, so that a retry fails too. The
  random part of the back-off is one value in the run, since no guard depends on
  it; the proofs take any.
- `Forwarding`: two counters and two connections, so that the lines of one clear
  are spread; samples without a time and seven seconds old, which is the oldest
  interval taken or just too old; one fault, `MaxTries` 1. `MaxNow` lets the
  timer's handler run when it is due or a second late, by which bucketizers that
  nothing has cleared are older than `RecentSampleTaken` allows.
- `Settings`: two keys, so that a save can hold one new and one old value, and a
  value that `trim()` changes; two workers, so that one holds an object that a flush
  has dropped while the other opens a new one; one flush, edit and fault each.
- `GraphPage`: two counters and two surfaces, so that one request serves two graphs;
  three operations, since a zoom during a request during a hidden page takes three;
  a queue of two gets. The dashboard has automatic refresh off, so that its timer
  only fires once the user has turned it on.
- `Dashboards`: two names, one of them stored at first, for the user or for
  everybody; two operations under way with one more request, and one failure: an answer
  that is lost, or a save that is refused (`MaxFailures`).
- `CounterTree`: a branch with two counters that is itself an aggregate, and a
  counter beside it; a filter that leaves one branch, and one that is no regular
  expression.
- `GraphData`: two counters on grids of four columns of different intervals, with
  gaps anywhere, two averages and two deviations, in each of four formats; or a
  request that is refused.
- `PageControls`: visits of a few kinds, each limited to the controls that act
  on each other and to three to seven acts of the user; user names that the cookie or the
  settings key cuts short; a January 30, from which a February cannot be reached
  by setting the month.

`CHECK_DEADLOCK FALSE` is set where the bounds on the number of calls let the
system come to rest with nothing to do. `EagerConnectionAgent` checks deadlock:
the connection always has a read outstanding or a retry to make. So does
`CounterTreeFilter`: the user can always click.

### Fairness

- `AllKeys`: a thread inside `add()`, `match()` or `exchange()` keeps running. No
  call has to be made. (Only `ExchangeReturns`, below, depends on it.)
- `StatStore`: the `io_service` runs every posted handler. No request has to come.
- `EagerConnection`: asio runs the handler of every operation that has ended and
  fires armed timers. Of the network it is assumed that, after the bounded number
  of faults, names resolve and connects succeed, and that a lost peer is reported
  to an outstanding read or write. Nothing is assumed to be read.
- `Settings`: `FairSpec` has weak fairness of `Saving`, the timers and the steps of a
  save that has begun: asio fires timers and a thread in `save()` goes on.
- `Dashboards`: `FairSpec` has weak fairness of the server and the page's own
  handlers together: requests are served or lost, and events of the browser are
  handled. The user has to do nothing.
- The other specifications have safety properties only and no fairness.

## Proved by TLAPS

| Theorem | Module | Statement | Assumes |
|---|---|---|---|
| `RingCorrect` | `StatFile_proofs` | type, `WindowBound`, `SlotAgreement`, `RangeCoversData`, in all modes | no sample older than the file |
| `FileImplementsHistory` | `StatFile_proofs` | `Spec => ImplementsHistory` | the same, and a file written by `updateBucket` that is not collated |
| `LiveDataKept` | `StatFile_proofs` | `Spec => NoLiveDataLost` | as the line above |
| `GaugeReads` | `StatFile_proofs` | `Spec => []GaugeReadExact` | as the line above, a counter that is not collated, and a creation time after 0 |
| `RecordsLand` | `StatCounter_proofs` | `Spec => []RecordLandsInWindow` | constants only |
| `WindowStaysConsecutive` | `StatCounter_proofs` | the window is unset or a run of consecutive intervals | constants only |
| `RebuildsComplete` | `AllKeys_proofs` | `Spec => []RebuildComplete` | constants only |
| `FreedIsUnlinked` | `AllKeys_proofs` | the list never reaches a freed record (`ListNotFreed`) | constants only |
| `ListImplementsKeySet` | `AllKeys_proofs` | `Spec => ImplementsKeySet` | constants only |
| `QueueBounded` | `StatStore_proofs` | type and `RefreshQueueBound` | constants only |
| `ListingIsFresh` | `StatStore_proofs` | `Spec => []ListingFresh` | constants only |
| `LiveCountersListed` | `StatStore_proofs` | `Spec => []UnlistedIsLate` | constants only |
| `ConnectionSound` | `EagerConnection_proofs` | `FlagsExact`, `OneAttempt`, `OutputHasACarrier` | constants only |
| `BackoffBounded` | `EagerConnection_proofs` | `backoff_` is at most 195 seconds | constants only |
| `OutputInOrder` | `EagerConnection_proofs` | `Spec => []SentInOrder` | constants only |
| `RecentSamples` | `Forwarding_proofs` | `Spec => []RecentSampleTaken` | constants only |
| `SamplesForwardedOnce` | `Forwarding_proofs` | `Spec => []ForwardedOnce` | constants only |
| `CopyBesideFile` | `Settings_proofs` | `Spec => []FileOrCopy` | constants only |
| `SettledIsExact` | `Settings_proofs` | `Spec => []SettledExact` | constants only |
| `RequestsCoverGets` | `GraphPage_proofs` | `Spec => []GetsCovered` | constants only |
| `GraphsSettle` | `GraphPage_proofs` | `Spec => []Settled` | constants only |
| `ScreenFollowsData` | `GraphPage_proofs` | `Spec => []ScreenIsData` | constants only |

"Constants only" means the named `ASSUME` of the module, which TLC evaluates in the
run: sizes are positive, the coarser interval is a multiple of the finer one, every
name has a shard, and for `Settings` that `trim()` does nothing to a value it has
trimmed. The theorems about `StatFile` have hypotheses of their own. "No sample
older than the file": the file is created with a sample's time or earlier, but a
late sample may be older than it, and then truncating division is wrong (see
"Disagreements"). "Written by `updateBucket` and not collated" describes a gauge's
file; the daemon writes with no other mode. A creation time after 0 is any real one;
an unused bucket is stamped 0, which a query from the epoch on would not tell from a
sample.

### The inductive invariants

- *StatFile.* `WindowBound` and `RangeCoversData` need to know that the slot about to
  be overwritten holds a bucket of the same index modulo the ring
  (`SlotAgreement`), and that needs every stored time stamp to be no older than the
  file (`StoredAfterCreation`): before it, truncating division gives two
  intervals the same index. For the refinement `IInv2` adds that stored time stamps
  are quantised and that a bucket without samples has no sum; a step of the file is
  then one `Record` or a stutter.
- *Reads of StatFile.* `GaugeReads` needs no more of the state than `IInv2`, but an
  induction over the loop that filters the answer. The loop is a function on
  `0 .. Len(bs)`, and `SetInduction`, which follows from the least-element theorem
  for well-founded relations, is induction stated with a set of naturals in place
  of a predicate. It shows that the function exists, and that after `k` buckets
  what was kept is, in order, exactly the wanted ones. The rest is arithmetic: the
  buckets of the range are the slots read, `ReadBuckets` meets them by growing
  index, and what else lies in those slots has a time stamp at least a lap away.
- *StatCounter.* `WindowInv`: the window is unset, or bucket `i` starts at
  `(q + i - 1) * Interval` for some `q`. Shifting by `n` is adding `n` to `q`; a time that
  passes the early returns of `record()` lies, after the shift, in the run. The
  proof is arithmetic of quotients, which is why it rests on lemmas about
  multiples.
- *AllKeys.* `LinkInv`: a record points to one that was allocated before it or came
  with the list, so the list has no cycle and the set reachable from a head grows by
  exactly the record that a successful compare-and-exchange adds. `SwapInv`: once
  `exchange()` has swapped, the old head reaches none of the records reachable from
  the new one; only the old ones are freed. `RebuildInv`: while a match walks, the
  names it must have (`due`) are among those collected and those still reachable
  from its cursor. Reachability is an intersection of closed sets, so each step
  needs one closed set to be exhibited, and no induction over the list.
- *StatStore.* A deleted counter was made before (`gone` within `Made`, also for a
  deleter between its lookup and its swap), so a counter made later is not among
  those deleted; the names that the running refresh has collected survive the
  deletions before it. `LInv`, for the listing of live counters, says that once
  the refresh has passed a shard, the counters of that shard that no refresh
  overlapped are among the collected names.
- *EagerConnection.* `Shape` says in which socket states an operation can be
  outstanding, and that an opened connection with a closed socket still has a
  handler to come that leads to a retry. The handlers are total over `Shape`; each
  conjunct is disturbed by at most two of them. `OrderInv`: what was sent, what is
  being written and what waits are increasing, each below the next, and below the
  next chunk to come.
- *Forwarding.* `ClockInv`: the timer is armed for no later than one forward
  interval from now, and no bucketizer was made before it was armed, so that the
  time since the last flush bounds the age of each. `SampleInv` adds that samples
  that did not come are nowhere (`Silent`), a sample in a bucketizer lies in the
  bucket of its own time (`KeptInv`), and each sample taken is in exactly one of the
  bucketizers, the batches of the two threads and the connections (`PlaceInv`). That
  `Share` deals out every line once is a lemma about remainders.
- *Settings.* `CopyInv` ties the step of a `save()` to the disk: from the writing of the
  copy to its renaming the copy is what the object has. `LockInv`: a reload that has
  read the file keeps a flush away from the current object. `TouchedInv` and `OldInv`
  say which object may hold values that the file lacks: only the current one, or one
  that outlived a flush. `LatestInv`: without a fault, an edit, an outlived object or
  an overtaken reload, the current object, or else the file, holds the latest values
  as `trim()` reads them.
- *GraphPage.* `DueInv`: the latest get of each graph on the page asks for its
  present series, unless it was refused; it waits in the queue, or is in the request
  under way and that was sent for the present dates, or was answered. So a graph
  that is changed while its data is on the way has another get behind it.
  `DrawnInv`: a graph whose drawing is not its data is among those with a timer that
  will paint it. Both need `GetsCovered`, and that every graph on the page has a
  series, which for a dashboard that opens is an induction over its toggles
  (`SeriesAfter`).

Each of these was checked by TLC as an invariant of the run's instance before it
was proved, but for `ClockInv`, which quantifies over all integers.

Some properties appear only in theorems, since the theorem says more than the run
would: `WindowBound`, `RangeCoversData`, `RefreshQueueBound`, `FlagsExact`,
`OneAttempt` and `ListNotFreed`.

### Only model-checked

- Liveness (`DeletedLeavesMap`, `Reconnects`, `Settles`, `SavedInTheEnd`): the prover
  has no fairness or ENABLED.
- What reductions and sums compute (`SelectExact`, `FilesExact`): they are built from
  `SelectSeq`, folds and sums over sets. The library's theorems about those take an
  operator as a parameter, which the provers cannot instantiate. A loop that is
  written as a function on an interval is within reach (`GaugeReads`).
- The page beyond its graphs: the invariants rest on `SelectSeq` and `FlattenSeq` over
  sequences of nodes and calls (`TreeExact`, `PlotExact` and others), on recursive
  operators (`Exec`, the tree of names), or on bags of requests (`ListExact`).

## Disagreements

In these places the code does otherwise than a text of the repository says. The
modules state what the text says, and TLC finds it violated with the constants
given here; no run lists them, since the runs show what the code does.

| Property | Code | What happens | Text |
|---|---|---|---|
| `MatchSeesAdded` of `AllKeys` | `daemon/AllKeys.cpp:53` | `add()` sets `dirty_` before it links the record. A `match()` in between clears it, and the name is missing from listings until something else sets it. | `daemon/AllKeys.h:76`: an iteration runs only "at the risk of missing any new record created while iterating" |
| `ExchangeReturns` of `AllKeys` | `daemon/AllKeys.cpp:38` | `exchange()` never reads the head again: one `add()` that gets in between makes it spin for ever. | `daemon/StatStore.cpp:28`: a queued refresh "will catch all changes made" |
| `SkippedIsCovered` of `StatStore` | `daemon/StatStore.cpp:609` | `scheduleRefresh()` counts requests it declines, and nothing subtracts them, so later requests are declined with no refresh queued. | the same line |
| `BufferedMeanwhile` of `EagerConnection` | `daemon/EagerConnection.cpp:388` | a write is started while the socket is still connecting, and what was buffered is lost when the connect fails. | `README.md:89`: "buffering data it receives in the meanwhile" |
| `Reconnects` of `EagerConnection` with `CloseOnDisconnect` | `daemon/EagerConnection.cpp:487` | the disconnect callback of a replica closes the connection, after which `on_read()` does not retry. | `README.md:89`: it "will attempt to re-connect" |
| `AllUpdatesAggregated` of `StatCounter` | `lib/StatFile.cpp:651` | the intervals just before and just after the creation time share an index in the coarser file, so an accepted event disappears. | `README.md:42`: "All updates go into all of the buckets" |
| `OnlyDirtyWritten` of `Settings` | `daemon/Settings.cpp:308` | the constructor leaves `dirty_` as the memory was, so a flush may write a file that nobody set anything in, over what was edited. | `daemon/Settings.cpp:391`: "Only re-write if dirty" |
| `StackedTop` of `GraphData` | `files/graph.js:912` | the sums go by position in each series; a series with a gap is shifted, and the axis ends below the top of the stack; if all have fewer buckets than columns, the top is `NaN`. | `files/graph.js:912`: "must be based on max of the sum of the y values for each x" |
| `DblClickRestores` of `GraphPage` | `files/graph.js:977` | in a graph that shows a part of its drawing, dygraph zooms out after `zoomOutIntervals()` and its `zoomCallback()` sets the dates of the drawing again. | `files/graph.js:977`: "Double click to restore zoom *AND* restore original time interval" |

The constants: `AllKeysList` with `MaxExchanges` 0 for the first and `MaxMatches` 0
for the second; `StatStoreRefresh` with one key, shard and deleter, `MaxQueued` 2
and `MaxDeletes` 7; `EagerConnectionAgent` with `HasInitialData` and `EarlyRead`
false, `MaxBuffer` 2, one chunk, one fault and `Unterminated` empty;
`StatCounterEvents` with `ZeroTime` 49, `MaxNow` 56 and no restart; `SettingsFiles`
as it is; `GraphDataPlots` with one grid and the format "stacked"; `GraphPageLoads`
with `MaxOps` 4.

Four smaller ones are named exceptions in a property. A date in February typed on
January 30 becomes one in March, since `parseDate()` sets the month before the day
(`files/graph.js:271`, `DatesAsAsked`). A user name with a colon or a dot is cut when it
is read back (`files/graph.js:2349`, `LoginExact`). After a gap the summary tells the
time of the gap's start for the bucket that ends it (`files/graph.js:866`,
`SummaryExact`). And a selection that is restored after a filter is cleared goes by ids that
new nodes have got (`TogglesAsAsked`).

No property is stated about the outcome of data races, which is undefined: the
initial data put into `outgoing_` without the mutex, `toMatch_` cleared without the
lock, a list freed under a walking `match()`.

## Not modelled

- Within modelled parts: trailing files and their decay, the page cache, files
  that cannot be created, the periodic flush and the space check of the store,
  gauge counters above the file, accepted connections, the completion of an
  admin flush, the names of settings files.
- The statistics server's command parsing, connection records, blacklist and UDP
  socket; replication beyond its disconnect; the HTTP server below a request; the
  admin server; the Prometheus exporter; loopback counters; the sharded map's
  iterator; retention policies and name patterns; the splitter. They are
  modellable and planned, in the order of the next section.
- Logging, argument parsing and signal handling: output, or calls of the operating
  system, with no state to get wrong over several steps. HTML, CSS, selectors and
  drawing.
- The offline tools: programs that run alone over counter files. The update
  modes they use are part of `StatFile`.
- The JSON library, and the vendored libraries beyond what the page uses of them.

The map covers about 30% of the lines of the implementation, vendored JavaScript of
the page included; about 2,800 of the covered lines are C++.

## Plan

1. **StatServer**: connection records with their purge, the count of connections,
   the blacklist, the UDP socket and its back-off.
2. **AgentFlush**: `AgentFlushRequest` and its completion, composed with
   `Forwarding`.
3. **Replication**: PDU framing on partial reads, against the sequence of PDUs sent.
4. **Http**: the life of a request; then the commands of the admin server.
5. **PageCache**: the mapped pages of a counter file, and what a crash leaves;
   the invariants of `StatFile` as the condition a reopened file must meet.
6. **PromExporter, LoopbackCounter**, the store's flusher and the iterator of the
   sharded map.
7. **Proofs**: `FilesExact`, with the sums of an interval as functions on an interval of
   numbers; then `Dashboards`, with its requests as sequences.
