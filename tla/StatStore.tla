------------------------------ MODULE StatStore ------------------------------
(***************************************************************************)
(* daemon/StatStore.cpp: the sharded map of counters, the deletion of      *)
(* counters, and the refresh of the key list that follows it.              *)
(*                                                                         *)
(* The map is locked shard by shard.  Deleting a counter swaps its         *)
(* StatCounter for theDeletedCounter, purges the files later on the        *)
(* counter's strand, and then asks for a refresh; the refresh drops the    *)
(* swapped counters from the map and rebuilds the list.  A counter is the  *)
(* pair of its name and a generation, counted per name; map[k] is the      *)
(* generation in the map, or 0.  The list keys_ is the set that AllKeys    *)
(* implements.  Each action is one section under a shard's lock, one       *)
(* handler on a strand, or one access to statCounter_ made without a lock. *)
(***************************************************************************)
EXTENDS Naturals

CONSTANTS
    Keys,           \* counter names
    NumShards,      \* counterShards_.dimension()
    ShardOf,        \* name -> shard
    MaxQueued,      \* MAX_QUEUED_KEY_REFRESHES
    Deleters,       \* Deleter objects that can be alive at once
    MaxGen,         \* bound: generations of a name
    MaxDeletes,     \* bound: delete requests
    MaxRestarts,    \* bound: restarts of the daemon
    MayThrow        \* whether purge() may throw (a file system error)

ASSUME StatStoreAssumption ==
    /\ NumShards \in Nat \ {0}
    /\ ShardOf \in [Keys -> 1 .. NumShards]
    /\ MaxQueued \in Nat
    /\ MaxGen \in Nat \ {0}

VARIABLES
    map, gen,       \* counterShards_, and the generations made so far
    gone,           \* counters whose statCounter_ is theDeletedCounter
    files,          \* names that have files on disk
    purged,         \* counters whose StatCounter::purge has run
    keys,           \* keys_
    del,            \* per Deleter: its progress and its work list
    deletes,        \* delete requests so far
    queued,         \* queuedRefreshes_
    posted,         \* refreshAllKeys handlers posted and not finished
    scan, wa,       \* the running refresh: next shard (0: none) and keysWA_
    moved,          \* whether head_ has moved since keys_.exchange() read it
    deadBefore,     \* counters already deleted when the running refresh began
    deadListed,     \* the same, for the refresh that produced keys_
    late,           \* counters created while a refresh was running
    abandoned,      \* whether an error ended a batch of deletions
    restarts,
    up              \* FALSE after the purge of a StatCounter already purged

mapVars == <<map, gen, gone, files, purged, late>>
refreshVars == <<queued, posted, scan, wa, moved, deadBefore, deadListed>>
vars == <<map, gen, gone, files, purged, keys, del, deletes, queued, posted, scan, wa,
          moved, deadBefore, deadListed, late, abandoned, restarts, up>>

Counters == Keys \X (1 .. MaxGen)

(* Deleter::Work, and what a Deleter and the call that fills it hold.      *)
WorkItems == [ctr : Counters, took : BOOLEAN]

DeleterStates ==
    [pc : {"idle", "lookup", "swap"}, names : SUBSET Keys,
     cur : (Keys \X (0 .. MaxGen)) \union {<<>>}, took : BOOLEAN, work : SUBSET WorkItems]

NoWork == [pc |-> "idle", names |-> {}, cur |-> <<>>, took |-> FALSE, work |-> {}]

Live(k) == map[k] # 0 /\ <<k, map[k]>> \notin gone

(* scanDir() has loaded a counter for every name that has files.           *)
Init ==
    /\ files \in SUBSET Keys
    /\ gen = [k \in Keys |-> IF k \in files THEN 1 ELSE 0]
    /\ map = gen
    /\ keys = files
    /\ gone = {} /\ purged = {}
    /\ del = [d \in Deleters |-> NoWork]
    /\ deletes = 0
    /\ queued = 0 /\ posted = 0
    /\ scan = 0 /\ wa = {} /\ moved = FALSE
    /\ deadBefore = {} /\ deadListed = {}
    /\ late = {} /\ abandoned = FALSE
    /\ restarts = 0
    /\ up = TRUE

-----------------------------------------------------------------------------
(* openCounter(name, create = true): the section under the shard's lock.   *)
(* A name that is in the map, deleted or not, is returned as it is; a new  *)
(* one is add()ed to keys_, which moves head_.                             *)
OpenCounter(k) ==
    /\ up /\ map[k] = 0 /\ gen[k] < MaxGen
    /\ gen' = [gen EXCEPT ![k] = @ + 1]
    /\ map' = [map EXCEPT ![k] = gen[k] + 1]
    /\ files' = files \union {k}
    /\ keys' = keys \union {k}
    /\ late' = IF scan = 0 THEN late ELSE late \union {<<k, gen[k] + 1>>}
    /\ moved' = (moved \/ scan = NumShards + 2)
    /\ UNCHANGED <<gone, purged, del, deletes, queued, posted, scan, wa, deadBefore, deadListed,
                   abandoned, restarts, up>>

-----------------------------------------------------------------------------
(* deleteCounter(name) takes one name; deletePattern(pattern) takes the    *)
(* names the list matches.                                                 *)
DeleteRequest(d, names) ==
    /\ up /\ del[d].pc = "idle" /\ deletes < MaxDeletes
    /\ deletes' = deletes + 1
    /\ del' = [del EXCEPT ![d] = [pc |-> "lookup", names |-> names, cur |-> <<>>,
                                  took |-> FALSE, work |-> {}]]
    /\ UNCHANGED <<mapVars, keys, refreshVars, abandoned, restarts, up>>

(* deleteCounter(ctr, deleter, ...): openCounter(ctr, false), then the     *)
(* read of statCounter_, which takes no lock.                              *)
DeleteLookup(d, k) ==
    /\ up /\ del[d].pc = "lookup" /\ k \in del[d].names
    /\ del' = [del EXCEPT ![d] =
          [pc |-> IF map[k] = 0 THEN "lookup" ELSE "swap", names |-> del[d].names \ {k},
           cur |-> <<k, map[k]>>, took |-> Live(k), work |-> del[d].work]]
    /\ UNCHANGED <<mapVars, keys, deletes, refreshVars, abandoned, restarts, up>>

(* statCounter_ = theDeletedCounter, and addWork().                        *)
DeleteSwap(d) ==
    /\ up /\ del[d].pc = "swap"
    /\ gone' = gone \union {del[d].cur}
    /\ del' = [del EXCEPT ![d] =
          [pc |-> "lookup", names |-> del[d].names, cur |-> <<>>, took |-> FALSE,
           work |-> del[d].work \union {[ctr |-> del[d].cur, took |-> del[d].took]}]]
    /\ UNCHANGED <<map, gen, files, purged, late, keys, deletes, refreshVars, abandoned, restarts, up>>

(* Deleter::delete_stuff, on the strand of the counter at the front of the *)
(* list: purge() removes the files by their path.  theDeletedCounter's     *)
(* purge() does nothing; a StatCounter that was purged before has no files *)
(* left to ask for the path, which ends the process.                       *)
DeleteStuff(d, w) ==
    /\ up /\ del[d].pc = "lookup" /\ del[d].names = {} /\ w \in del[d].work
    /\ del' = [del EXCEPT ![d].work = @ \ {w}]
    /\ IF w.took
       THEN /\ up' = (w.ctr \notin purged)
            /\ purged' = purged \union {w.ctr}
            /\ files' = files \ {w.ctr[1]}
       ELSE UNCHANGED <<up, purged, files>>
    /\ UNCHANGED <<map, gen, gone, late, keys, deletes, refreshVars, abandoned, restarts>>

(* purge() throws: the handler is left, and the Deleter is never resumed.  *)
PurgeThrows(d, w) ==
    /\ MayThrow
    /\ up /\ del[d].pc = "lookup" /\ del[d].names = {} /\ w \in del[d].work
    /\ w.took
    /\ del' = [del EXCEPT ![d] = NoWork]
    /\ abandoned' = TRUE
    /\ UNCHANGED <<mapVars, keys, deletes, refreshVars, restarts, up>>

(* go() with nothing left: pruneEmptyDirsNow() throws when a directory it  *)
(* walks goes away, before the refresh is asked for.                       *)
PruneThrows(d) ==
    /\ MayThrow
    /\ up /\ del[d].pc = "lookup" /\ del[d].names = {} /\ del[d].work = {}
    /\ del' = [del EXCEPT ![d] = NoWork]
    /\ abandoned' = TRUE
    /\ UNCHANGED <<mapVars, keys, deletes, refreshVars, restarts, up>>

(* Deleter::go with nothing left: refreshKeys(), scheduleRefresh().        *)
ScheduleRefresh(d) ==
    /\ up /\ del[d].pc = "lookup" /\ del[d].names = {} /\ del[d].work = {}
    /\ queued' = queued + 1
    /\ posted' = IF queued <= MaxQueued THEN posted + 1 ELSE posted
    /\ del' = [del EXCEPT ![d] = NoWork]
    /\ UNCHANGED <<mapVars, keys, deletes, scan, wa, moved, deadBefore, deadListed, abandoned, restarts, up>>

-----------------------------------------------------------------------------
(* refreshAllKeys(), on the refresh strand.                                *)

(* Slip: the loop starts at the second shard.                              *)
RefreshBeginSecond ==
    /\ up /\ scan = 0 /\ posted > 0
    /\ scan' = 2
    /\ deadBefore' = gone
    /\ UNCHANGED <<mapVars, keys, del, deletes, queued, posted, wa, moved, deadListed, abandoned,
                   restarts, up>>

RefreshBegin ==
    /\ up /\ scan = 0 /\ posted > 0
    /\ scan' = 1
    /\ deadBefore' = gone
    /\ UNCHANGED <<mapVars, keys, del, deletes, queued, posted, wa, moved, deadListed, abandoned,
                   restarts, up>>

(* Slip: the test for theDeletedCounter is missing, so that every name is  *)
(* collected and none is erased.                                           *)
RefreshShardKeepsAll ==
    /\ up /\ scan \in 1 .. NumShards
    /\ wa' = wa \union {k \in Keys : ShardOf[k] = scan /\ map[k] # 0}
    /\ scan' = scan + 1
    /\ UNCHANGED <<mapVars, keys, del, deletes, queued, posted, moved, deadBefore,
                   deadListed, abandoned, restarts, up>>

(* One shard, under its lock: live names are collected, deleted ones leave *)
(* the map.                                                                *)
RefreshShard ==
    LET here == {k \in Keys : ShardOf[k] = scan /\ map[k] # 0}
    IN  /\ up /\ scan \in 1 .. NumShards
        /\ wa' = wa \union {k \in here : Live(k)}
        /\ map' = [k \in Keys |-> IF k \in here /\ ~Live(k) THEN 0 ELSE map[k]]
        /\ scan' = scan + 1
        /\ UNCHANGED <<gen, gone, files, purged, late, keys, del, deletes, queued, posted,
                       moved, deadBefore, deadListed, abandoned, restarts, up>>

(* keys_.exchange(keysWA_) reads head_ once.                               *)
RefreshReadHead ==
    /\ up /\ scan = NumShards + 1
    /\ scan' = NumShards + 2
    /\ UNCHANGED <<mapVars, keys, del, deletes, queued, posted, wa, moved, deadBefore, deadListed,
                   abandoned, restarts, up>>

(* Its compare-and-swap succeeds only while head_ is what was read; after  *)
(* an add() it is tried again with the same value, for ever, and the       *)
(* handler never leaves the strand.  Then keysWA_.delete_all() and         *)
(* --queuedRefreshes_.                                                     *)
RefreshExchange ==
    /\ up /\ scan = NumShards + 2 /\ ~moved
    /\ keys' = wa
    /\ wa' = {}
    /\ deadListed' = deadBefore
    /\ queued' = queued - 1
    /\ posted' = posted - 1
    /\ scan' = 0
    /\ UNCHANGED <<mapVars, del, deletes, moved, deadBefore, abandoned, restarts, up>>

-----------------------------------------------------------------------------
(* The daemon stops, by request or by a crash, and starts again: what is   *)
(* on disk is loaded, everything else is forgotten.                        *)
Restart ==
    /\ restarts < MaxRestarts
    /\ \A k \in files : gen[k] < MaxGen
    /\ restarts' = restarts + 1
    /\ gen' = [k \in Keys |-> IF k \in files THEN gen[k] + 1 ELSE gen[k]]
    /\ map' = [k \in Keys |-> IF k \in files THEN gen[k] + 1 ELSE 0]
    /\ keys' = files
    /\ gone' = {} /\ purged' = {}
    /\ del' = [d \in Deleters |-> NoWork]
    /\ queued' = 0 /\ posted' = 0
    /\ scan' = 0 /\ wa' = {} /\ moved' = FALSE
    /\ deadBefore' = {} /\ deadListed' = {}
    /\ late' = {} /\ abandoned' = FALSE
    /\ up' = TRUE
    /\ UNCHANGED <<files, deletes>>

DeleterStep(d) ==
    \/ \E k \in Keys : DeleteLookup(d, k)
    \/ DeleteSwap(d)
    \/ \E w \in del[d].work : DeleteStuff(d, w) \/ PurgeThrows(d, w)
    \/ ScheduleRefresh(d) \/ PruneThrows(d)

RefreshStep == RefreshBegin \/ RefreshShard \/ RefreshReadHead \/ RefreshExchange

Next ==
    \/ \E k \in Keys : OpenCounter(k)
    \/ \E d \in Deleters, k \in Keys : DeleteRequest(d, {k})
    \/ \E d \in Deleters, p \in SUBSET Keys : DeleteRequest(d, p \intersect keys)
    \/ \E d \in Deleters : DeleterStep(d)
    \/ RefreshStep
    \/ Restart

(* The io_service runs every posted handler; nobody has to ask for         *)
(* anything.                                                               *)
Fairness ==
    /\ \A d \in Deleters : WF_vars(DeleterStep(d))
    /\ WF_vars(RefreshStep)

Spec == Init /\ [][Next]_vars /\ Fairness

-----------------------------------------------------------------------------
TypeOK ==
    /\ gen \in [Keys -> 0 .. MaxGen]
    /\ map \in [Keys -> 0 .. MaxGen]
    /\ gone \subseteq Counters /\ purged \subseteq Counters
    /\ deadBefore \subseteq Counters /\ deadListed \subseteq Counters
    /\ files \subseteq Keys /\ keys \subseteq Keys /\ wa \subseteq Keys
    /\ queued \in Nat /\ posted \in Nat
    /\ scan \in 0 .. NumShards + 2
    /\ up \in BOOLEAN /\ moved \in BOOLEAN
    /\ del \in [Deleters -> DeleterStates]

(* However many deletions ask for a refresh, no more than one handler over *)
(* MAX_QUEUED_KEY_REFRESHES is ever posted and unfinished.                 *)
RefreshQueueBound == posted <= MaxQueued + 1

(* The list never shows a name on the strength of a counter that had been  *)
(* deleted before the refresh that produced the list began: every name in  *)
(* keys_ has a generation that was not among them.                         *)
ListingFresh ==
    \A k \in keys : \E g \in 1 .. gen[k] : <<k, g>> \notin deadListed

(* A live counter that is missing from the list was created while a        *)
(* refresh was running: at any other time openCounter()'s add() to keys_   *)
(* is enough, and no refresh loses a counter that was there when it began. *)
UnlistedIsLate ==
    \A k \in Keys : Live(k) /\ k \notin keys => <<k, map[k]>> \in late

(* A counter swapped for theDeletedCounter leaves the map sooner or later, *)
(* so that recording its name creates a counter again, unless an error     *)
(* ended the batch, scheduleRefresh() has ever declined a refresh, or a    *)
(* counter was created between the two accesses of keys_.exchange() to     *)
(* head_, after which that refresh, and the strand with it, spins for      *)
(* ever.                                                                   *)
DeletedLeavesMap ==
    \A k \in Keys : map[k] # 0 /\ ~Live(k) /\ up
        ~> map[k] = 0 \/ Live(k) \/ ~up \/ abandoned \/ queued > posted \/ moved

(* StatStore.cpp:28 says a refresh already queued "will catch all changes  *)
(* made": scheduleRefresh() declines only while there is a refresh that    *)
(* has not looked at any shard yet.                                        *)
SkippedIsCovered ==
    [][queued' > queued /\ posted' = posted => posted > (IF scan <= 1 THEN 0 ELSE 1)]_vars

=============================================================================
