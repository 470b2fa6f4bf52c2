----------------------------- MODULE Forwarding -----------------------------
(***************************************************************************)
(* The forwarding of samples to agents (daemon/StatServer.cpp): samples    *)
(* are collected per counter in a Bucketizer until a clearForward(), by    *)
(* the forward timer or by the admin's flush, turns them into lines and    *)
(* spreads the counters over the agent connections.                        *)
(*                                                                         *)
(* clearForward() swaps the map and chooses the connections under          *)
(* forwardMutex_, and writes without it: the writes of two threads         *)
(* interleave.  A connection (EagerConnection) is reduced to what is       *)
(* queued, what is being written, and whether it is connected.  A sample   *)
(* is a number, its place among those taken, and stands for its value and  *)
(* its count; a line names the samples whose sum it carries.               *)
(***************************************************************************)
EXTENDS Integers, Sequences, FiniteSets, Functions

CONSTANTS
    Counters,           \* counter names
    AgentCount,         \* agentCount_
    Step,               \* the ten seconds of a Bucketizer bucket
    BucketCount,        \* Bucketizer::BUCKET_COUNT
    ForwardInterval,    \* forwardInterval_
    MaxTries,           \* MAX_AGENT_CONN_TRIES
    Ages,               \* how old a sample may be, 0 for one without time
    StartTime, MaxNow,  \* bounds on the clock
    MaxSamples,         \* bound on the samples
    MaxFlushes,         \* bound on the flushes the admin asks for
    MaxFaults           \* bound on the connections lost

ASSUME ForwardingAssumption ==
    /\ IsFiniteSet(Counters)
    /\ AgentCount \in Nat \ {0}
    /\ Step \in Nat \ {0}
    /\ BucketCount \in Nat /\ BucketCount > 2
    /\ ForwardInterval \in Nat \ {0}
    /\ MaxTries \in Nat
    /\ Ages \subseteq Int
    /\ StartTime \in Nat /\ StartTime >= BucketCount * Step
    /\ MaxNow \in Nat /\ MaxSamples \in Nat
    /\ MaxFlushes \in Nat /\ MaxFaults \in Nat

VARIABLES
    now,        \* istattime()
    timer,      \* when forwardTimer_ expires
    buckets,    \* forwardBuckets_
    misses,     \* noConnectionCounts_
    work,       \* by thread: what its clearForward() has still to write
    connected,  \* by agent: EagerConnection::connected()
    outgoing,   \* by agent: lines queued
    writing,    \* by agent: lines of the write in progress
    taken,      \* counter and time of the samples the bucketizers took
    gone,       \* the lines that reached the agent or were lost
    flushes,    \* flushes asked for so far
    faults      \* connections lost so far

vars == <<now, timer, buckets, misses, work, connected, outgoing, writing, taken, gone,
          flushes, faults>>

connVars == <<connected, outgoing, writing>>

countVars == <<flushes, faults>>

Agents == 1 .. AgentCount

Threads == {"timer", "admin"}

Down(t) == t - (t % Step)

-----------------------------------------------------------------------------
(* Bucketizer.                                                             *)

NoBucket == [time |-> 0, samples |-> {}]

NewBucketizer(t) == [now |-> Down(t), buckets |-> [i \in 1 .. BucketCount |-> NoBucket]]

(* Slip: the bucket of the creation time is the last one.                  *)
OffsetLast(bizer, t) == ((Down(t) - bizer.now) \div Step) + BucketCount

(* The bucket of time t: the last one but one is that of the creation.     *)
Offset(bizer, t) == ((Down(t) - bizer.now) \div Step) + BucketCount - 1

Takes(bizer, t) == Offset(bizer, t) \in 1 .. BucketCount

(* Bucket::update keeps the time of the first sample.                      *)
Update(bizer, t, s) ==
    IF ~Takes(bizer, t) THEN bizer
    ELSE [bizer EXCEPT !.buckets[Offset(bizer, t)] =
              [time |-> IF @.samples = {} THEN t ELSE @.time, samples |-> @.samples \union {s}]]

(* The lines clearForward() makes of a counter.                            *)
Lines(ctr, bizer) ==
    {[ctr |-> ctr, time |-> bizer.buckets[i].time, samples |-> bizer.buckets[i].samples] :
        i \in {i \in 1 .. BucketCount : bizer.buckets[i].samples # {}}}

-----------------------------------------------------------------------------
Bizer(ctr) == IF ctr \in DOMAIN buckets THEN buckets[ctr] ELSE NewBucketizer(now)

(* handle_forward(), with a sample that is age seconds old.                *)
HandleForward(ctr, age) ==
    LET t == now - age
        bizer == Bizer(ctr)
    IN  /\ buckets' = [c \in DOMAIN buckets \union {ctr} |->
                          IF c = ctr THEN Update(bizer, t, Len(taken) + 1) ELSE buckets[c]]
        /\ taken' = IF Takes(bizer, t) THEN Append(taken, [ctr |-> ctr, time |-> t]) ELSE taken
        /\ UNCHANGED <<now, timer, misses, work, connVars, gone, countVars>>

-----------------------------------------------------------------------------
MissesAfter == [a \in Agents |-> IF connected[a] THEN 0 ELSE misses[a] + 1]

(* The connections used, in order: those not found down too often.  They   *)
(* are always opened, since only the destructor closes them.               *)
Usable(m) == {a \in Agents : m[a] <= MaxTries}

InOrder(conns) == \A i, j \in DOMAIN conns : i < j => conns[i] < conns[j]

(* Slip: the index is taken modulo the number of all connections, and what *)
(* falls outside is left out.                                              *)
GetsOfAll(n, i, k) == (k - 1) % AgentCount = i - 1

(* Whether the i-th of n connections gets the k-th counter of the map.     *)
Gets(n, i, k) == (k - 1) % n = i - 1

Share(conns, n, order, a) ==
    {order[k] : k \in {k \in DOMAIN order :
                          \E i \in DOMAIN conns : conns[i] = a /\ Gets(n, i, k)}}

LinesOf(ctrs) == UNION {Lines(ctr, buckets[ctr]) : ctr \in ctrs}

(* The part of clearForward() under forwardMutex_, with the lines it then  *)
(* makes, for the order in which it walks the map.  Without a usable       *)
(* connection the data is dropped.                                         *)
ClearForward(thread) ==
    LET usable == Usable(MissesAfter)
        kept == DOMAIN buckets
    IN  /\ misses' = MissesAfter
        /\ buckets' = <<>>
        /\ \E n \in 0 .. AgentCount : \E conns \in Bijection(1 .. n, usable),
              order \in Bijection(1 .. Cardinality(kept), kept) :
              /\ InOrder(conns)
              /\ work' = [work EXCEPT ![thread] =
                             [a \in Agents |-> LinesOf(Share(conns, n, order, a))]]
              /\ gone' = IF n = 0 THEN gone \union LinesOf(kept) ELSE gone

Idle(thread) == \A a \in Agents : work[thread][a] = {}

(* on_forwardTimer(): clearForward() and then the timer again.             *)
OnForwardTimer ==
    /\ Idle("timer")
    /\ now >= timer
    /\ ClearForward("timer")
    /\ timer' = now + ForwardInterval
    /\ UNCHANGED <<now, connVars, taken, countVars>>

(* The clearForward() of syncAgent().                                      *)
SyncAgent ==
    /\ Idle("admin")
    /\ flushes < MaxFlushes
    /\ flushes' = flushes + 1
    /\ ClearForward("admin")
    /\ UNCHANGED <<now, timer, connVars, taken, faults>>

(* One writeOut() of clearForward(): the lines are queued, and written at  *)
(* once when nothing is being written.                                     *)
StartWrite(a, queue) ==
    IF connected[a] /\ writing[a] = {}
    THEN /\ writing' = [writing EXCEPT ![a] = queue]
         /\ outgoing' = [outgoing EXCEPT ![a] = {}]
    ELSE /\ outgoing' = [outgoing EXCEPT ![a] = queue]
         /\ writing' = writing

WriteOut(thread, a) ==
    /\ work[thread][a] # {}
    /\ \A b \in Agents : b < a => work[thread][b] = {}
    /\ StartWrite(a, outgoing[a] \union work[thread][a])
    /\ work' = [work EXCEPT ![thread][a] = {}]
    /\ UNCHANGED <<now, timer, buckets, misses, connected, taken, gone, countVars>>

-----------------------------------------------------------------------------
(* The connections and the clock.                                          *)

OnWrite(a) ==
    /\ connected[a] /\ writing[a] # {}
    /\ gone' = gone \union writing[a]
    /\ writing' = [writing EXCEPT ![a] = outgoing[a]]
    /\ outgoing' = [outgoing EXCEPT ![a] = {}]
    /\ UNCHANGED <<now, timer, buckets, misses, work, connected, taken, countVars>>

(* The write in progress is lost, what is queued stays.                    *)
Disconnect(a) ==
    /\ connected[a]
    /\ faults < MaxFaults
    /\ faults' = faults + 1
    /\ connected' = [connected EXCEPT ![a] = FALSE]
    /\ gone' = gone \union writing[a]
    /\ writing' = [writing EXCEPT ![a] = {}]
    /\ UNCHANGED <<now, timer, buckets, misses, work, outgoing, taken, flushes>>

Reconnect(a) ==
    /\ ~connected[a]
    /\ connected' = [connected EXCEPT ![a] = TRUE]
    /\ writing' = [writing EXCEPT ![a] = outgoing[a]]
    /\ outgoing' = [outgoing EXCEPT ![a] = {}]
    /\ UNCHANGED <<now, timer, buckets, misses, work, taken, gone, countVars>>

(* The clock does not wait for the timer: asio runs the handler when the   *)
(* timer has expired and a thread is free, however late that is.           *)
Tick ==
    /\ now < MaxNow
    /\ now' = now + 1
    /\ UNCHANGED <<timer, buckets, misses, work, connVars, taken, gone, countVars>>

-----------------------------------------------------------------------------
Init ==
    /\ now = StartTime
    /\ timer = StartTime + ForwardInterval
    /\ buckets = <<>>
    /\ misses = [a \in Agents |-> 0]
    /\ work = [t \in Threads |-> [a \in Agents |-> {}]]
    /\ connected = [a \in Agents |-> FALSE]
    /\ outgoing = [a \in Agents |-> {}] /\ writing = [a \in Agents |-> {}]
    /\ taken = <<>> /\ gone = {}
    /\ flushes = 0 /\ faults = 0

Next ==
    \/ \E ctr \in Counters, age \in Ages :
          /\ Len(taken) < MaxSamples
          /\ HandleForward(ctr, age)
    \/ OnForwardTimer \/ SyncAgent
    \/ \E thread \in Threads, a \in Agents : WriteOut(thread, a)
    \/ \E a \in Agents : OnWrite(a) \/ Disconnect(a) \/ Reconnect(a)
    \/ Tick

Spec == Init /\ [][Next]_vars

-----------------------------------------------------------------------------
Line == [ctr : Counters, time : Int, samples : (SUBSET Nat) \ {{}}]

Bizers == [now : Int, buckets : [1 .. BucketCount -> [time : Int, samples : SUBSET Nat]]]

TypeOK ==
    /\ now \in Nat /\ timer \in Nat
    /\ DOMAIN buckets \subseteq Counters
    /\ \A c \in DOMAIN buckets :
          buckets[c] \in Bizers
    /\ misses \in [Agents -> Nat]
    /\ work \in [Threads -> [Agents -> SUBSET Line]]
    /\ connected \in [Agents -> BOOLEAN]
    /\ outgoing \in [Agents -> SUBSET Line] /\ writing \in [Agents -> SUBSET Line]
    /\ taken \in Seq([ctr : Counters, time : Int]) /\ gone \in SUBSET Line
    /\ flushes \in 0 .. MaxFlushes /\ faults \in 0 .. MaxFaults

(* Where lines are: still collected, in the hands of a clearForward(),     *)
(* queued or being written on a connection, or gone to the agent or with a *)
(* lost connection.                                                        *)
Places ==
    [at : {"kept"}, ctr : Counters] \union [at : {"work"}, thread : Threads, agent : Agents]
    \union [at : {"queued", "written"}, agent : Agents] \union [at : {"gone"}]

LinesAt(p) ==
    CASE p.at = "kept" -> IF p.ctr \in DOMAIN buckets THEN Lines(p.ctr, buckets[p.ctr]) ELSE {}
      [] p.at = "work" -> work[p.thread][p.agent]
      [] p.at = "queued" -> outgoing[p.agent]
      [] p.at = "written" -> writing[p.agent]
      [] p.at = "gone" -> gone

(* Every sample a bucketizer took is in one place and there in one line,   *)
(* under its own counter and ten-second interval, however the timer, the   *)
(* admin's flush and the connections interleave.                           *)
ForwardedOnce ==
    \A s \in DOMAIN taken : \E p \in Places : \E l \in LinesAt(p) :
        /\ s \in l.samples
        /\ l.ctr = taken[s].ctr /\ Down(l.time) = Down(taken[s].time)
        /\ \A q \in Places : \A m \in LinesAt(q) : s \in m.samples => q = p /\ m = l

(* forwardTimer_ was armed, and the map cleared, in second timer -         *)
(* ForwardInterval; Bucketizers have room for ten seconds from there.      *)
FlushedInTime == now <= timer - ForwardInterval + Step

(* As long as the timer's last flush is no more than ten seconds ago, a    *)
(* sample that carries no time, or is up to three intervals old, is not    *)
(* refused as "not close enough" (Bucketizer.cpp:43), although the offsets *)
(* count from the time the counter's first sample came.  With the default  *)
(* interval of ten seconds this leaves the timer's handler no more than    *)
(* the rest of the second in which it is due; a shorter interval leaves    *)
(* the difference as well.                                                 *)
RecentSampleTaken ==
    FlushedInTime =>
        \A ctr \in Counters : \A age \in 0 .. (BucketCount - 2) * Step :
            Takes(Bizer(ctr), now - age)

=============================================================================
