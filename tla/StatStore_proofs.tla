-------------------------- MODULE StatStore_proofs --------------------------
(***************************************************************************)
(* Proofs about StatStore, for any names, shards, deleters and bounds.     *)
(***************************************************************************)
EXTENDS StatStore, TLAPS

(* The counters made so far.                                               *)
Made == {c \in Counters : c[2] <= gen[c[1]]}

(* Some generation of k escapes the set of deleted counters dead.          *)
Survives(k, dead) == \E g \in 1 .. gen[k] : <<k, g>> \notin dead

(* The inductive invariant.  Deleted counters are counters that were made, *)
(* also while a deleter is between its lookup and its swap, so a counter   *)
(* made later is not among them; and the names collected by the running    *)
(* refresh survive the deletions that preceded it.                         *)
IInv ==
    /\ TypeOK
    /\ \A k \in Keys : map[k] <= gen[k]
    /\ gone \subseteq Made
    /\ \A d \in Deleters : del[d].pc = "swap" => del[d].cur \in Made
    /\ deadBefore \subseteq gone /\ deadListed \subseteq gone
    /\ \A k \in keys : Survives(k, deadListed)
    /\ \A k \in wa : Survives(k, deadBefore)
    /\ scan = 0 => wa = {}
    /\ posted <= queued
    /\ posted <= MaxQueued + 1
    /\ scan # 0 => posted > 0

-----------------------------------------------------------------------------
(* The initial states satisfy the invariant.                               *)
LEMMA InitIInv == Init => IInv
<1> SUFFICES ASSUME Init PROVE IInv
    OBVIOUS
<1> USE StatStoreAssumption DEF StatStoreAssumption
<1>1. gen \in [Keys -> 0 .. MaxGen] /\ map \in [Keys -> 0 .. MaxGen]
    BY DEF Init
<1>2. TypeOK
  <2>1. NoWork \in DeleterStates
    BY DEF NoWork, DeleterStates
  <2>2. del \in [Deleters -> DeleterStates]
    BY <2>1 DEF Init
  <2>3. files \subseteq Keys /\ keys \subseteq Keys /\ wa \subseteq Keys
    BY DEF Init
  <2>4. queued \in Nat /\ posted \in Nat /\ scan \in 0 .. NumShards + 2
    BY DEF Init
  <2>5. /\ gone \subseteq Counters /\ purged \subseteq Counters
        /\ deadBefore \subseteq Counters /\ deadListed \subseteq Counters
        /\ up \in BOOLEAN /\ moved \in BOOLEAN
    BY Zenon DEF Init
  <2> QED
    BY <1>1, <2>2, <2>3, <2>4, <2>5, Zenon DEF TypeOK
<1>3. \A k \in keys : Survives(k, deadListed)
  <2> SUFFICES ASSUME NEW k \in keys PROVE \E g \in 1 .. gen[k] : <<k, g>> \notin deadListed
    BY DEF Survives
  <2>1. 1 \in 1 .. gen[k] /\ <<k, 1>> \notin deadListed
    BY DEF Init
  <2> QED
    BY <2>1
<1>4. \A d \in Deleters : del[d].pc # "swap"
    BY DEF Init, NoWork
<1> QED
    BY <1>1, <1>2, <1>3, <1>4 DEF Init, IInv

(* Creating a counter keeps the invariant: the new generation is larger    *)
(* than every deleted one.                                                 *)
LEMMA OpenIInv == ASSUME IInv, NEW k \in Keys, OpenCounter(k) PROVE IInv'
<1> USE StatStoreAssumption DEF StatStoreAssumption
<1>1. gen \in [Keys -> 0 .. MaxGen] /\ map \in [Keys -> 0 .. MaxGen] /\ gen[k] + 1 \in 1 .. MaxGen
    BY DEF IInv, TypeOK, OpenCounter
<1>2. gen' \in [Keys -> 0 .. MaxGen] /\ map' \in [Keys -> 0 .. MaxGen]
    BY <1>1 DEF OpenCounter
<1>3. \A j \in Keys : gen[j] <= gen'[j] /\ map'[j] <= gen'[j]
    BY <1>1 DEF IInv, OpenCounter
<1>4. TypeOK'
    BY <1>2 DEF IInv, TypeOK, OpenCounter, refreshVars
<1>5. \A c \in Made : c \in Made'
    BY <1>1, <1>2, <1>3 DEF Made, Counters
<1>6. <<k, gen[k] + 1>> \notin gone
    BY <1>1 DEF IInv, Made, Counters
<1>7. \A j \in keys' : Survives(j, deadListed)'
  <2> SUFFICES ASSUME NEW j \in keys' PROVE \E g \in 1 .. gen'[j] : <<j, g>> \notin deadListed
    BY DEF Survives, OpenCounter, refreshVars
  <2>1. CASE j = k
    <3>1. gen'[k] = gen[k] + 1 /\ <<k, gen[k] + 1>> \notin deadListed
      BY <1>1, <1>6 DEF IInv, OpenCounter
    <3>2. gen[k] + 1 \in 1 .. gen'[j]
      BY <2>1, <3>1, <1>1
    <3> QED
      BY <2>1, <3>1, <3>2, Zenon
  <2>2. CASE j # k
    BY <2>2, <1>1 DEF IInv, OpenCounter, Survives, TypeOK
  <2> QED
    BY <2>1, <2>2
<1>8. \A j \in wa' : Survives(j, deadBefore)'
  <2> SUFFICES ASSUME NEW j \in wa PROVE \E g \in 1 .. gen'[j] : <<j, g>> \notin deadBefore
    BY DEF Survives, OpenCounter, refreshVars
  <2>1. PICK g \in 1 .. gen[j] : <<j, g>> \notin deadBefore
    BY DEF IInv, Survives
  <2>2. j \in Keys
    BY DEF IInv, TypeOK
  <2>3. g \in 1 .. gen'[j]
    BY <2>2, <1>1, <1>2, <1>3
  <2> QED
    BY <2>1, <2>3
<1> QED
    BY <1>3, <1>4, <1>5, <1>7, <1>8 DEF IInv, OpenCounter, refreshVars

(* The steps of a deleter that leave map, list and refresh alone.          *)
LEMMA RequestIInv ==
    ASSUME IInv, NEW d \in Deleters, NEW names \in SUBSET Keys, DeleteRequest(d, names)
    PROVE  IInv'
<1>1. del' \in [Deleters -> DeleterStates] /\ \A e \in Deleters : del'[e].pc = "swap" => del'[e] = del[e]
    BY DEF IInv, TypeOK, DeleteRequest, DeleterStates
<1>2. TypeOK' /\ Made' = Made
    BY <1>1 DEF IInv, TypeOK, DeleteRequest, mapVars, refreshVars, Made
<1> QED
    BY <1>1, <1>2 DEF IInv, DeleteRequest, mapVars, refreshVars, Survives

(* The lookup of a name fixes the counter to swap, or none.                *)
LEMMA LookupIInv ==
    ASSUME IInv, NEW d \in Deleters, NEW k \in Keys, DeleteLookup(d, k)
    PROVE  IInv'
<1> USE StatStoreAssumption DEF StatStoreAssumption
<1>1. map[k] \in 0 .. MaxGen /\ gen[k] \in 0 .. MaxGen /\ map[k] <= gen[k]
    BY DEF IInv, TypeOK
<1>2. del[d] \in DeleterStates /\ Live(k) \in BOOLEAN
    BY DEF IInv, TypeOK, Live
<1>3. del'[d] \in DeleterStates /\ del' = [del EXCEPT ![d] = del'[d]]
    BY <1>1, <1>2 DEF IInv, TypeOK, DeleteLookup, DeleterStates
<1>4. del' \in [Deleters -> DeleterStates]
    BY <1>3 DEF IInv, TypeOK
<1>5. TypeOK' /\ Made' = Made
    BY <1>4 DEF IInv, TypeOK, DeleteLookup, mapVars, refreshVars, Made
<1>6. map[k] # 0 => <<k, map[k]>> \in Made
    BY <1>1 DEF Made, Counters
<1>7. ASSUME NEW e \in Deleters, del'[e].pc = "swap" PROVE del'[e].cur \in Made
  <2>1. CASE e = d
    BY <2>1, <1>6, <1>7 DEF IInv, TypeOK, DeleteLookup
  <2>2. CASE e # d
    BY <2>2, <1>7, Zenon DEF IInv, TypeOK, DeleteLookup
  <2> QED
    BY <2>1, <2>2
<1> QED
    BY <1>5, <1>7, Zenon DEF IInv, DeleteLookup, mapVars, refreshVars, Survives

(* The swap adds a counter that was made to the deleted ones.              *)
LEMMA SwapIInv ==
    ASSUME IInv, NEW d \in Deleters, DeleteSwap(d)
    PROVE  IInv'
<1> USE StatStoreAssumption DEF StatStoreAssumption
<1>1. del[d] \in DeleterStates /\ del[d].cur \in Made /\ del[d].cur \in Counters
    BY Zenon DEF IInv, TypeOK, DeleteSwap, Made
<1>2. [ctr |-> del[d].cur, took |-> del[d].took] \in WorkItems
    BY <1>1 DEF DeleterStates, WorkItems
<1>3. del' \in [Deleters -> DeleterStates] /\ \A e \in Deleters : del'[e].pc = "swap" => del'[e] = del[e]
    BY <1>1, <1>2 DEF IInv, TypeOK, DeleteSwap, DeleterStates
<1>4. gone' \subseteq Made /\ gone \subseteq gone' /\ gone' \subseteq Counters
    BY <1>1, Zenon DEF IInv, TypeOK, DeleteSwap
<1>5. TypeOK' /\ Made' = Made
    BY <1>3, <1>4 DEF IInv, TypeOK, DeleteSwap, refreshVars, Made
<1> QED
    BY <1>3, <1>4, <1>5, Zenon DEF IInv, DeleteSwap, refreshVars, Survives

(* Purging touches the files only.                                         *)
LEMMA StuffIInv ==
    ASSUME IInv, NEW d \in Deleters, NEW w \in del[d].work, DeleteStuff(d, w)
    PROVE  IInv'
<1>1. del[d] \in DeleterStates /\ w \in WorkItems
    BY DEF IInv, TypeOK, DeleterStates
<1>2. purged' \subseteq Counters /\ files' \subseteq Keys /\ up' \in BOOLEAN
    BY <1>1, Zenon DEF IInv, TypeOK, DeleteStuff, WorkItems
<1>3. del' \in [Deleters -> DeleterStates] /\ \A e \in Deleters : del'[e].pc = "swap" => del'[e].cur = del[e].cur /\ del[e].pc = "swap"
    BY <1>1, Zenon DEF IInv, TypeOK, DeleteStuff, DeleterStates
<1>4. TypeOK' /\ Made' = Made
    BY <1>2, <1>3 DEF IInv, TypeOK, DeleteStuff, refreshVars, Made
<1> QED
    BY <1>3, <1>4 DEF IInv, DeleteStuff, refreshVars, Survives

(* A Deleter that ends leaves the others as they are.                      *)
LEMMA NoWorkType ==
    ASSUME IInv, NEW d \in Deleters, del' = [del EXCEPT ![d] = NoWork]
    PROVE  /\ del' \in [Deleters -> DeleterStates]
           /\ \A e \in Deleters : del'[e].pc = "swap" => del'[e] = del[e]
BY DEF IInv, TypeOK, NoWork, DeleterStates

(* A purge that throws ends the Deleter and changes nothing else.          *)
LEMMA ThrowsIInv ==
    ASSUME IInv, NEW d \in Deleters, NEW w, PurgeThrows(d, w)
    PROVE  IInv'
<1>1. /\ del' \in [Deleters -> DeleterStates]
      /\ \A e \in Deleters : del'[e].pc = "swap" => del'[e] = del[e]
    BY NoWorkType, Zenon DEF PurgeThrows
<1>2. TypeOK' /\ Made' = Made
    BY <1>1 DEF IInv, TypeOK, PurgeThrows, mapVars, refreshVars, Made
<1> QED
    BY <1>1, <1>2 DEF IInv, PurgeThrows, mapVars, refreshVars, Survives

(* So does a prune that throws.                                            *)
LEMMA PruneThrowsIInv ==
    ASSUME IInv, NEW d \in Deleters, PruneThrows(d)
    PROVE  IInv'
<1>1. /\ del' \in [Deleters -> DeleterStates]
      /\ \A e \in Deleters : del'[e].pc = "swap" => del'[e] = del[e]
    BY NoWorkType, Zenon DEF PruneThrows
<1>2. TypeOK' /\ Made' = Made
    BY <1>1 DEF IInv, TypeOK, PruneThrows, mapVars, refreshVars, Made
<1> QED
    BY <1>1, <1>2 DEF IInv, PruneThrows, mapVars, refreshVars, Survives

(* queuedRefreshes_ counts at least the handlers posted, so the test of    *)
(* scheduleRefresh() bounds them.                                          *)
LEMMA ScheduleIInv ==
    ASSUME IInv, NEW d \in Deleters, ScheduleRefresh(d)
    PROVE  IInv'
<1> USE StatStoreAssumption DEF StatStoreAssumption
<1>1. /\ del' \in [Deleters -> DeleterStates]
      /\ \A e \in Deleters : del'[e].pc = "swap" => del'[e] = del[e]
    BY NoWorkType, Zenon DEF ScheduleRefresh
<1>2. /\ queued' \in Nat /\ posted' \in Nat
      /\ posted' <= queued' /\ posted' <= MaxQueued + 1
      /\ posted <= posted'
    BY DEF IInv, TypeOK, ScheduleRefresh
<1>3. TypeOK' /\ Made' = Made
    BY <1>1, <1>2 DEF IInv, TypeOK, ScheduleRefresh, mapVars, Made
<1>4. scan' # 0 => posted' > 0
    BY <1>2 DEF IInv, TypeOK, ScheduleRefresh
<1> QED
    BY <1>1, <1>2, <1>3, <1>4 DEF IInv, ScheduleRefresh, mapVars, Survives

(* A refresh begins with what is deleted by then.                          *)
LEMMA BeginIInv == ASSUME IInv, RefreshBegin PROVE IInv'
<1> USE StatStoreAssumption DEF StatStoreAssumption
<1>1. TypeOK' /\ Made' = Made
    BY DEF IInv, TypeOK, RefreshBegin, mapVars, Made
<1> QED
    BY <1>1 DEF IInv, TypeOK, RefreshBegin, mapVars, Survives

(* A name is collected only while its counter is live, hence outside every *)
(* earlier set of deleted counters.                                        *)
LEMMA ShardIInv == ASSUME IInv, RefreshShard PROVE IInv'
<1> USE StatStoreAssumption DEF StatStoreAssumption
<1>1. map \in [Keys -> 0 .. MaxGen] /\ gen \in [Keys -> 0 .. MaxGen]
    BY Zenon DEF IInv, TypeOK
<1>2. map' \in [Keys -> 0 .. MaxGen] /\ \A k \in Keys : map'[k] <= gen[k]
    BY <1>1 DEF IInv, RefreshShard
<1>3. wa' \subseteq Keys /\ \A k \in wa' : k \in wa \/ Live(k)
    BY DEF IInv, TypeOK, RefreshShard
<1>4. scan' \in 0 .. NumShards + 2 /\ scan' # 0 /\ scan # 0
    BY DEF IInv, TypeOK, RefreshShard
<1>5. TypeOK' /\ Made' = Made
    BY <1>2, <1>3, <1>4 DEF IInv, TypeOK, RefreshShard, Made
<1>6. ASSUME NEW k \in wa' PROVE Survives(k, deadBefore)
  <2>1. CASE k \in wa
    BY <2>1 DEF IInv
  <2>2. CASE Live(k)
    <3>1. map[k] \in 1 .. gen[k] /\ <<k, map[k]>> \notin deadBefore
      BY <2>2, <1>1, <1>3, <1>6 DEF IInv, Live
    <3> QED
      BY <3>1 DEF Survives
  <2> QED
    BY <2>1, <2>2, <1>3, <1>6
<1> QED
    BY <1>2, <1>4, <1>5, <1>6 DEF IInv, RefreshShard, Survives

(* Reading head_ changes nothing but the place in the handler.             *)
LEMMA ReadHeadIInv == ASSUME IInv, RefreshReadHead PROVE IInv'
<1> USE StatStoreAssumption DEF StatStoreAssumption
<1>1. scan' \in 0 .. NumShards + 2 /\ scan' # 0 /\ scan # 0
    BY DEF IInv, TypeOK, RefreshReadHead
<1>2. TypeOK' /\ Made' = Made
    BY <1>1 DEF IInv, TypeOK, RefreshReadHead, mapVars, Made
<1> QED
    BY <1>1, <1>2 DEF IInv, RefreshReadHead, mapVars, Survives

(* The list is replaced by what the refresh collected.                     *)
LEMMA ExchangeIInv == ASSUME IInv, RefreshExchange PROVE IInv'
<1> USE StatStoreAssumption DEF StatStoreAssumption
<1>1. posted \in Nat /\ queued \in Nat /\ posted > 0 /\ posted <= queued
    BY SMTT(30) DEF IInv, TypeOK, RefreshExchange
<1>2. TypeOK' /\ Made' = Made
    BY <1>1 DEF IInv, TypeOK, RefreshExchange, mapVars, Made
<1>3. \A k \in keys' : Survives(k, deadListed)'
    BY Zenon DEF IInv, RefreshExchange, mapVars, Survives
<1>4. /\ posted' <= queued' /\ posted' <= MaxQueued + 1
      /\ scan' = 0 /\ wa' = {}
      /\ map' = map /\ gen' = gen /\ gone' = gone /\ del' = del
      /\ deadBefore' \subseteq gone' /\ deadListed' \subseteq gone'
    BY <1>1 DEF IInv, RefreshExchange, mapVars
<1> QED
    BY <1>2, <1>3, <1>4 DEF IInv

(* A restart loads fresh counters, none of them deleted.                   *)
LEMMA RestartIInv == ASSUME IInv, Restart PROVE IInv'
<1> USE StatStoreAssumption DEF StatStoreAssumption
<1>1. gen \in [Keys -> 0 .. MaxGen] /\ files \subseteq Keys
    BY DEF IInv, TypeOK
<1>2. gen' \in [Keys -> 0 .. MaxGen] /\ map' \in [Keys -> 0 .. MaxGen]
    BY <1>1 DEF Restart
<1>3. \A k \in Keys : map'[k] <= gen'[k]
    BY <1>1 DEF Restart
<1>4. del' \in [Deleters -> DeleterStates] /\ \A d \in Deleters : del'[d].pc # "swap"
    BY DEF Restart, NoWork, DeleterStates
<1>5. TypeOK'
  <2>1. files' \subseteq Keys /\ keys' \subseteq Keys /\ wa' \subseteq Keys
    BY <1>1 DEF Restart
  <2>2. queued' \in Nat /\ posted' \in Nat /\ scan' \in 0 .. NumShards + 2
    BY DEF Restart
  <2>3. /\ gone' \subseteq Counters /\ purged' \subseteq Counters
        /\ deadBefore' \subseteq Counters /\ deadListed' \subseteq Counters
        /\ up' \in BOOLEAN /\ moved' \in BOOLEAN
    BY Zenon DEF Restart
  <2> QED
    BY <1>2, <1>4, <2>1, <2>2, <2>3, Zenon DEF TypeOK
<1>6. ASSUME NEW k \in keys' PROVE \E g \in 1 .. gen'[k] : <<k, g>> \notin deadListed'
  <2>1. 1 \in 1 .. gen'[k] /\ <<k, 1>> \notin deadListed'
    BY <1>1, <1>6 DEF Restart
  <2> QED
    BY <2>1
<1> QED
    BY <1>3, <1>4, <1>5, <1>6, SMTT(30) DEF IInv, Restart, Survives

(* Every step keeps the invariant.                                         *)
LEMMA NextIInv == IInv /\ [Next]_vars => IInv'
<1> SUFFICES ASSUME IInv, [Next]_vars PROVE IInv'
    OBVIOUS
<1>1. CASE UNCHANGED vars
    BY <1>1 DEF IInv, TypeOK, vars, Made, Survives
<1>2. CASE \E k \in Keys : OpenCounter(k)
    BY <1>2, OpenIInv
<1>3. CASE \E d \in Deleters, k \in Keys : DeleteRequest(d, {k})
    BY <1>3, RequestIInv
<1>4. CASE \E d \in Deleters, p \in SUBSET Keys : DeleteRequest(d, p \intersect keys)
  <2>1. PICK d \in Deleters, p \in SUBSET Keys : DeleteRequest(d, p \intersect keys)
    BY <1>4, Zenon
  <2>2. p \intersect keys \in SUBSET Keys
    OBVIOUS
  <2> QED
    BY <2>1, <2>2, RequestIInv
<1>5. CASE \E d \in Deleters : DeleterStep(d)
    BY <1>5, LookupIInv, SwapIInv, StuffIInv, ThrowsIInv, ScheduleIInv,
       PruneThrowsIInv DEF DeleterStep
<1>6. CASE RefreshStep
    BY <1>6, BeginIInv, ShardIInv, ReadHeadIInv, ExchangeIInv DEF RefreshStep
<1>7. CASE Restart
    BY <1>7, RestartIInv
<1> QED
    BY <1>1, <1>2, <1>3, <1>4, <1>5, <1>6, <1>7, Zenon DEF Next

-----------------------------------------------------------------------------
(* For any number of deleters, deletions and restarts, in any              *)
(* interleaving: at most MAX_QUEUED_KEY_REFRESHES + 1 refreshes are posted *)
(* at a time.                                                              *)
THEOREM QueueBounded == Spec => [](TypeOK /\ RefreshQueueBound)
<1>1. IInv => TypeOK /\ RefreshQueueBound
    BY DEF IInv, RefreshQueueBound
<1> QED
    BY <1>1, InitIInv, NextIInv, PTL DEF Spec

(* For any names, shards and deleters, in any interleaving: a listing      *)
(* never shows a name only because of a counter that was deleted before    *)
(* the refresh that produced it began.                                     *)
THEOREM ListingIsFresh == Spec => []ListingFresh
<1>1. IInv => ListingFresh
    BY Zenon DEF IInv, ListingFresh, Survives
<1> QED
    BY <1>1, InitIInv, NextIInv, PTL DEF Spec

-----------------------------------------------------------------------------
(* The second inductive invariant: a live counter that no refresh          *)
(* overlapped at its creation is in the list, and, once the running        *)
(* refresh has visited its shard, among the names collected.               *)
Settled(k) == Live(k) /\ <<k, map[k]>> \notin late

LInv ==
    \A k \in Keys : Settled(k) =>
        /\ k \in keys
        /\ scan > 0 /\ ShardOf[k] < scan => k \in wa

(* What a start or a restart lists is what it loads.                       *)
LEMMA InitLInv == Init => LInv
BY DEF Init, LInv, Settled, Live

(* A counter made while no refresh runs is settled and listed; one made    *)
(* during a refresh is late.                                               *)
LEMMA OpenLInv == ASSUME IInv, LInv, NEW k \in Keys, OpenCounter(k) PROVE LInv'
<1> SUFFICES ASSUME NEW j \in Keys, Settled(j)'
             PROVE  j \in keys' /\ (scan' > 0 /\ ShardOf[j] < scan' => j \in wa')
    BY DEF LInv
<1>1. gen \in [Keys -> 0 .. MaxGen] /\ map \in [Keys -> 0 .. MaxGen] /\ scan \in 0 .. NumShards + 2
    BY Zenon DEF IInv, TypeOK
<1>2. CASE j = k
    BY <1>1, <1>2, StatStoreAssumption DEF OpenCounter, Settled, Live, refreshVars
<1>3. CASE j # k
  <2>1. map'[j] = map[j]
    BY <1>1, <1>3 DEF OpenCounter
  <2>2. Settled(j)
    BY <2>1 DEF OpenCounter, Settled, Live
  <2> QED
    BY <2>2 DEF LInv, OpenCounter, refreshVars
<1> QED
    BY <1>2, <1>3

(* A refresh collects the settled names of the shard it visits.            *)
LEMMA ShardLInv == ASSUME IInv, LInv, RefreshShard PROVE LInv'
<1> SUFFICES ASSUME NEW j \in Keys, Settled(j)'
             PROVE  j \in keys' /\ (scan' > 0 /\ ShardOf[j] < scan' => j \in wa')
    BY Zenon DEF LInv
<1>1. /\ ShardOf[j] \in 1 .. NumShards /\ NumShards \in Nat
      /\ map \in [Keys -> 0 .. MaxGen] /\ scan \in 1 .. NumShards /\ scan' = scan + 1
    BY StatStoreAssumption DEF StatStoreAssumption, IInv, TypeOK, RefreshShard
<1>2. map'[j] = map[j] /\ map[j] # 0
    BY <1>1, Zenon DEF RefreshShard, Settled, Live
<1>3. Settled(j)
    BY <1>2 DEF RefreshShard, Settled, Live
<1>4. j \in keys /\ (ShardOf[j] < scan => j \in wa)
    BY <1>1, <1>3, SMTT(30) DEF LInv
<1>5. ShardOf[j] = scan => j \in wa'
    BY <1>2, <1>3, Zenon DEF RefreshShard, Settled
<1>6. wa \subseteq wa' /\ keys' = keys
    BY DEF RefreshShard
<1> QED
    BY <1>1, <1>4, <1>5, <1>6

(* Once every shard has been visited, every settled name is collected.     *)
LEMMA ReadHeadLInv == ASSUME IInv, LInv, RefreshReadHead PROVE LInv'
<1> SUFFICES ASSUME NEW j \in Keys, Settled(j)
             PROVE  j \in keys /\ j \in wa
    BY DEF LInv, RefreshReadHead, Settled, Live, mapVars
<1>1. ShardOf[j] \in 1 .. NumShards /\ NumShards \in Nat /\ scan = NumShards + 1
    BY StatStoreAssumption DEF StatStoreAssumption, RefreshReadHead
<1> QED
    BY <1>1, SMTT(30) DEF LInv

(* When every shard has been visited the collected names are all there     *)
(* must be.                                                                *)
LEMMA ExchangeLInv == ASSUME IInv, LInv, RefreshExchange PROVE LInv'
<1> SUFFICES ASSUME NEW j \in Keys, Settled(j)
             PROVE  j \in wa
    BY DEF LInv, RefreshExchange, Settled, Live, mapVars
<1>1. ShardOf[j] \in 1 .. NumShards /\ NumShards \in Nat /\ scan = NumShards + 2
    BY StatStoreAssumption, Zenon DEF StatStoreAssumption, RefreshExchange
<1> QED
    BY <1>1 DEF LInv

(* The steps that swap, purge or ask make no counter settled and touch     *)
(* neither the list nor the refresh.                                       *)
LEMMA QuietLInv ==
    ASSUME LInv, map' = map, late' = late, gone \subseteq gone',
           keys' = keys, scan' = scan, wa' = wa
    PROVE  LInv'
BY DEF LInv, Settled, Live

(* Every step keeps the second invariant.                                  *)
LEMMA NextLInv == IInv /\ LInv /\ [Next]_vars => LInv'
<1> SUFFICES ASSUME IInv, LInv, [Next]_vars PROVE LInv'
    OBVIOUS
<1>1. CASE UNCHANGED vars
    BY <1>1, QuietLInv DEF vars
<1>2. CASE \E k \in Keys : OpenCounter(k)
    BY <1>2, OpenLInv
<1>3. ASSUME NEW d \in Deleters, NEW names, DeleteRequest(d, names) PROVE LInv'
    BY <1>3, QuietLInv DEF DeleteRequest, mapVars, refreshVars
<1>4. ASSUME NEW d \in Deleters, DeleterStep(d) PROVE LInv'
  <2>1. ASSUME NEW k \in Keys, DeleteLookup(d, k) PROVE LInv'
    BY <2>1, QuietLInv, Zenon DEF DeleteLookup, mapVars, refreshVars
  <2>2. CASE DeleteSwap(d)
    BY <2>2, QuietLInv DEF DeleteSwap, refreshVars
  <2>3. ASSUME NEW w \in del[d].work, DeleteStuff(d, w) PROVE LInv'
    BY <2>3, QuietLInv, Zenon DEF DeleteStuff, refreshVars
  <2>4. ASSUME NEW w \in del[d].work, PurgeThrows(d, w) PROVE LInv'
    BY <2>4, QuietLInv, Zenon DEF PurgeThrows, mapVars, refreshVars
  <2>5. CASE ScheduleRefresh(d)
    BY <2>5, QuietLInv, Zenon DEF ScheduleRefresh, mapVars
  <2>6. CASE PruneThrows(d)
    BY <2>6, QuietLInv DEF PruneThrows, mapVars, refreshVars
  <2> QED
    BY <1>4, <2>1, <2>2, <2>3, <2>4, <2>5, <2>6 DEF DeleterStep
<1>5. CASE RefreshBegin
  <2>1. scan' = 1 /\ keys' = keys /\ map' = map /\ gone' = gone /\ late' = late
    BY <1>5 DEF RefreshBegin, mapVars
  <2>2. \A k \in Keys : ~(ShardOf[k] < 1)
    BY StatStoreAssumption, SMTT(30) DEF StatStoreAssumption
  <2> QED
    BY <2>1, <2>2 DEF LInv, Settled, Live
<1>6. CASE Restart
    BY <1>6 DEF Restart, LInv, Settled, Live
<1> QED
    BY <1>1, <1>2, <1>3, <1>4, <1>5, <1>6, ShardLInv, ReadHeadLInv, ExchangeLInv, Zenon
       DEF Next, RefreshStep

(* For any names, shards and deleters, in any interleaving: a live counter *)
(* is in the list unless it was created while a refresh was running.       *)
THEOREM LiveCountersListed == Spec => []UnlistedIsLate
<1>1. LInv => UnlistedIsLate
    BY DEF LInv, Settled, UnlistedIsLate
<1> QED
    BY <1>1, InitIInv, NextIInv, InitLInv, NextLInv, PTL DEF Spec

=============================================================================
