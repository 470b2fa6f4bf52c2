-------------------------- MODULE Forwarding_proofs --------------------------
(***************************************************************************)
(* Proofs about Forwarding, for any counters, agents, sizes of a bucket    *)
(* and numbers of samples, flushes and lost connections.                   *)
(***************************************************************************)
EXTENDS Forwarding, TLAPS

-----------------------------------------------------------------------------
(* The intervals of a bucketizer.                                          *)

(* What \div and % mean.                                                   *)
LEMMA Quotients ==
    ASSUME NEW a \in Int, NEW b \in Nat \ {0}
    PROVE  /\ a \div b \in Int
           /\ a % b \in 0 .. b - 1
           /\ a = b * (a \div b) + (a % b)
BY SMT

(* Distinct multiples of b are at least b apart.                           *)
LEMMA MultiplesApart ==
    ASSUME NEW b \in Nat \ {0}, NEW x \in Int, NEW y \in Int, x < y
    PROVE  b * x + b <= b * y
BY SMT

(* Quotient and remainder are unique.                                      *)
LEMMA QuotientUnique ==
    ASSUME NEW b \in Nat \ {0}, NEW q \in Int, NEW r \in 0 .. b - 1,
           NEW a \in Int, a = b * q + r
    PROVE  a \div b = q /\ a % b = r
<1>1. a = b * (a \div b) + (a % b) /\ a \div b \in Int /\ a % b \in 0 .. b - 1
    BY Quotients, Zenon
<1>2. ~(a \div b < q)
    BY <1>1, MultiplesApart
<1>3. ~(q < a \div b)
    BY <1>1, MultiplesApart
<1> QED
    BY <1>1, <1>2, <1>3

(* Down(t) is the multiple of the step at or before t.                     *)
Ix(t) == t \div Step

(* The start of the bucket a time falls into, and how far from it the time *)
(* is.                                                                     *)
LEMMA DownIsMultiple ==
    ASSUME NEW t \in Int
    PROVE  /\ Ix(t) \in Int
           /\ Down(t) = Step * Ix(t)
           /\ Down(t) \in Int /\ Down(t) <= t /\ t < Down(t) + Step
<1>1. t \div Step \in Int /\ t % Step \in 0 .. Step - 1 /\ t = Step * (t \div Step) + (t % Step)
    BY Quotients, ForwardingAssumption
<1> DEFINE m == Step * (t \div Step)
<1>2. m \in Int
    BY <1>1, ForwardingAssumption
<1> HIDE DEF m
<1>3. t = m + (t % Step)
    BY <1>1 DEF m
<1>4. Down(t) = m
    BY <1>1, <1>2, <1>3 DEF Down
<1> QED
    BY <1>1, <1>2, <1>3, <1>4, ForwardingAssumption DEF m, Ix

(* The offset of a time from the time a bucketizer was made.               *)
LEMMA OffsetIsIndex ==
    ASSUME NEW t \in Int, NEW t0 \in Int, NEW bizer, bizer.now = Down(t0)
    PROVE  Offset(bizer, t) = Ix(t) - Ix(t0) + BucketCount - 1
<1>1. /\ Ix(t) \in Int /\ Down(t) = Step * Ix(t)
      /\ Ix(t0) \in Int /\ Down(t0) = Step * Ix(t0)
    BY DownIsMultiple
<1>2. Down(t) - Down(t0) = Step * (Ix(t) - Ix(t0)) + 0
    BY <1>1, ForwardingAssumption, SMT
<1>3. Down(t) - Down(t0) \in Int /\ Ix(t) - Ix(t0) \in Int /\ 0 \in 0 .. Step - 1
    BY DownIsMultiple, ForwardingAssumption
<1> DEFINE a == Down(t) - Down(t0)
           q == Ix(t) - Ix(t0)
<1>4. a = Step * q + 0 /\ a \in Int /\ q \in Int /\ 0 \in 0 .. Step - 1 /\ Step \in Nat \ {0}
    BY <1>2, <1>3, ForwardingAssumption
<1> HIDE DEF a, q
<1>5. a \div Step = q
    BY <1>4, QuotientUnique
<1> QED
    BY <1>5 DEF Offset, a, q

(* Times k steps apart are at most k intervals apart.                      *)
LEMMA IndexBound ==
    ASSUME NEW t \in Int, NEW u \in Int, NEW k \in Int, t <= u + k * Step
    PROVE  Ix(t) <= Ix(u) + k
<1>1. /\ Ix(t) \in Int /\ Down(t) = Step * Ix(t) /\ Down(t) <= t
      /\ Ix(u) \in Int /\ Down(u) = Step * Ix(u) /\ u < Down(u) + Step
    BY DownIsMultiple
<1>2. SUFFICES ASSUME Ix(u) + k < Ix(t) PROVE FALSE
    BY <1>1
<1>3. Step * (Ix(u) + k) + Step <= Step * Ix(t)
    BY <1>1, <1>2, MultiplesApart, ForwardingAssumption
<1>4. Step * (Ix(u) + k) = Step * Ix(u) + k * Step /\ k * Step \in Int
      /\ Step * Ix(u) \in Int /\ Step * Ix(t) \in Int
    BY <1>1, ForwardingAssumption, SMT
<1> QED
    BY <1>1, <1>3, <1>4, ForwardingAssumption

-----------------------------------------------------------------------------
(* The age of a bucketizer.  RecentSampleTaken needs to know how long the  *)
(* clock can have run since a bucketizer was made: it was made no earlier  *)
(* than the timer was armed.                                               *)

MadeAt(bizer, t) == t \in Int /\ bizer.now = Down(t) /\ t <= now /\ timer <= t + ForwardInterval

ClockInv ==
    /\ now \in Nat /\ timer \in Nat /\ timer <= now + ForwardInterval
    /\ \A c \in DOMAIN buckets : \E t \in Int : MadeAt(buckets[c], t)

(* A bucketizer that is made now is as young as can be.                    *)
LEMMA BizerAge ==
    ASSUME ClockInv, NEW ctr
    PROVE  \E t \in Int : MadeAt(Bizer(ctr), t)
<1>1. CASE ctr \in DOMAIN buckets
    BY <1>1 DEF ClockInv, Bizer
<1>2. CASE ctr \notin DOMAIN buckets
  <2>1. Bizer(ctr).now = Down(now)
    BY <1>2 DEF Bizer, NewBucketizer
  <2>2. MadeAt(Bizer(ctr), now)
    BY <2>1 DEF ClockInv, MadeAt
  <2> QED
    BY <2>2 DEF ClockInv
<1> QED
    BY <1>1, <1>2

(* Taking a sample leaves the time of the bucketizer.                      *)
LEMMA UpdateNow ==
    ASSUME NEW bizer, NEW t, NEW s
    PROVE  Update(bizer, t, s).now = bizer.now
BY DEF Update

(* The clock and the timer keep the bucketizers young.                     *)
LEMMA NextClock == ClockInv /\ [Next]_vars => ClockInv'
<1> SUFFICES ASSUME ClockInv, [Next]_vars PROVE ClockInv'
    OBVIOUS
<1>1. ASSUME NEW ctr \in Counters, NEW age \in Ages, HandleForward(ctr, age)
      PROVE  ClockInv'
  <2>1. \A c \in DOMAIN buckets' :
            buckets'[c].now = IF c = ctr THEN Bizer(ctr).now ELSE buckets[c].now
    BY <1>1, UpdateNow DEF HandleForward
  <2>4. DOMAIN buckets' = DOMAIN buckets \union {ctr}
    BY <1>1 DEF HandleForward
  <2>2. now' = now /\ timer' = timer
    BY <1>1 DEF HandleForward
  <2>3. ASSUME NEW c \in DOMAIN buckets'
        PROVE  \E t \in Int : MadeAt(buckets'[c], t)
    <3>1. CASE c = ctr
      BY <2>1, <3>1, BizerAge DEF MadeAt
    <3>2. CASE c # ctr
      BY <2>1, <2>4, <3>2, Zenon DEF ClockInv, MadeAt
    <3> QED
      BY <3>1, <3>2
  <2> QED
    BY <2>2, <2>3, Zenon DEF ClockInv, MadeAt
<1>2. CASE OnForwardTimer \/ SyncAgent
  <2>1. DOMAIN buckets' = {}
    BY <1>2 DEF OnForwardTimer, SyncAgent, ClearForward
  <2> QED
    BY <1>2, <2>1, ForwardingAssumption DEF OnForwardTimer, SyncAgent, ClockInv
<1>3. CASE Tick
  <2>1. now' = now + 1 /\ timer' = timer /\ buckets' = buckets
    BY <1>3 DEF Tick
  <2>2. ASSUME NEW c \in DOMAIN buckets'
        PROVE  \E t \in Int : MadeAt(buckets[c], t)'
    <3>1. PICK t \in Int : MadeAt(buckets[c], t)
      BY <2>1 DEF ClockInv
    <3>2. MadeAt(buckets[c], t)'
      BY <2>1, <3>1 DEF MadeAt, ClockInv
    <3> QED
      BY <3>2
  <2>3. now' \in Nat /\ timer' \in Nat /\ timer' <= now' + ForwardInterval
    BY <2>1, ForwardingAssumption DEF ClockInv
  <2> QED
    BY <2>2, <2>3 DEF ClockInv
<1>4. CASE UNCHANGED <<now, timer, buckets>>
    BY <1>4 DEF ClockInv, MadeAt
<1> QED
    BY <1>1, <1>2, <1>3, <1>4, Zenon DEF Next, vars, WriteOut, OnWrite, Disconnect, Reconnect

(* For any forward interval, sizes of buckets and windows, and however     *)
(* late the timer's handler runs: while the timer's last flush is no more  *)
(* than one bucket's width ago, no Bucketizer refuses a sample without a   *)
(* time or one up to three intervals old.                                  *)
THEOREM RecentSamples == Spec => []RecentSampleTaken
<1>1. Init => ClockInv
    BY ForwardingAssumption DEF Init, ClockInv
<1>2. ClockInv => RecentSampleTaken
  <2> SUFFICES ASSUME ClockInv, FlushedInTime,
                      NEW ctr \in Counters, NEW age \in 0 .. (BucketCount - 2) * Step
               PROVE  Takes(Bizer(ctr), now - age)
      BY DEF RecentSampleTaken
  <2>1. PICK t \in Int : MadeAt(Bizer(ctr), t)
    BY BizerAge
  <2>2. age \in Int /\ now - age \in Int /\ now \in Int /\ timer \in Int
    BY DEF ClockInv
  <2>3. Offset(Bizer(ctr), now - age) = Ix(now - age) - Ix(t) + BucketCount - 1
    BY <2>1, <2>2, OffsetIsIndex, Zenon DEF MadeAt
  <2>4. now - age <= t + 1 * Step
    BY <2>1, <2>2, ForwardingAssumption DEF MadeAt, FlushedInTime
  <2>5. t <= now - age + (BucketCount - 2) * Step
    BY <2>1, <2>2, ForwardingAssumption DEF MadeAt
  <2>6. Ix(now - age) <= Ix(t) + 1
    BY <2>1, <2>2, <2>4, IndexBound
  <2>7. Ix(t) <= Ix(now - age) + (BucketCount - 2)
    BY <2>1, <2>2, <2>5, IndexBound, ForwardingAssumption
  <2>8. Ix(t) \in Int /\ Ix(now - age) \in Int
    BY <2>1, <2>2, DownIsMultiple, Zenon
  <2> QED
    BY <2>3, <2>6, <2>7, <2>8, ForwardingAssumption DEF Takes
<1> QED
    BY <1>1, <1>2, NextClock, PTL DEF Spec

-----------------------------------------------------------------------------
(* Where the samples are.  ForwardedOnce is not inductive as it stands: it *)
(* needs to know that no line names a sample of another counter, interval  *)
(* or place (Fits, Alone), that the buckets of a bucketizer are kept apart *)
(* by their offsets (KeptInv), and that a connection that is down writes   *)
(* nothing (Silent).                                                       *)

KeptInv ==
    \A c \in DOMAIN buckets : \A i \in 1 .. BucketCount :
        \A s \in buckets[c].buckets[i].samples :
            /\ s \in DOMAIN taken /\ taken[s].ctr = c
            /\ Offset(buckets[c], taken[s].time) = i
            /\ Down(buckets[c].buckets[i].time) = Down(taken[s].time)

Silent == \A a \in Agents : ~connected[a] => writing[a] = {}

Fits ==
    \A p \in Places : \A l \in LinesAt(p) : \A s \in l.samples :
        s \in DOMAIN taken /\ l.ctr = taken[s].ctr /\ Down(l.time) = Down(taken[s].time)

Alone ==
    \A p, q \in Places : \A l \in LinesAt(p), m \in LinesAt(q) : \A s \in l.samples :
        s \in m.samples => p = q /\ l = m

Found == \A s \in DOMAIN taken : \E p \in Places : \E l \in LinesAt(p) : s \in l.samples

PlaceInv == Fits /\ Alone /\ Found

(* The places by name.                                                     *)
Kept(c) == [at |-> "kept", ctr |-> c]

InWork(t, a) == [at |-> "work", thread |-> t, agent |-> a]

Queued(a) == [at |-> "queued", agent |-> a]

Written(a) == [at |-> "written", agent |-> a]

Gone == [at |-> "gone"]

KeptLines(c) == IF c \in DOMAIN buckets THEN Lines(c, buckets[c]) ELSE {}

(* There is no other place.                                                *)
LEMMA PlaceCases ==
    ASSUME NEW p \in Places
    PROVE  \/ \E c \in Counters : p = Kept(c)
           \/ \E t \in Threads, a \in Agents : p = InWork(t, a)
           \/ \E a \in Agents : p = Queued(a)
           \/ \E a \in Agents : p = Written(a)
           \/ p = Gone
BY DEF Places, Kept, InWork, Queued, Written, Gone

(* What is at each of them, before and after a step.                       *)
LinesByPlace ==
    /\ \A c \in Counters : Kept(c) \in Places /\ LinesAt(Kept(c)) = KeptLines(c)
    /\ \A t \in Threads, a \in Agents :
          InWork(t, a) \in Places /\ LinesAt(InWork(t, a)) = work[t][a]
    /\ \A a \in Agents : Queued(a) \in Places /\ LinesAt(Queued(a)) = outgoing[a]
    /\ \A a \in Agents : Written(a) \in Places /\ LinesAt(Written(a)) = writing[a]
    /\ Gone \in Places /\ LinesAt(Gone) = gone

(* What is at a place, written out, before and after a step.               *)
LEMMA PlaceLines == LinesByPlace /\ LinesByPlace'
BY Zenon DEF LinesByPlace, Places, LinesAt, KeptLines, Kept, InWork, Queued, Written, Gone

(* The bucket a sample goes to holds only samples of its interval, and no  *)
(* other bucket does.                                                      *)
LEMMA UpdatedBizer ==
    ASSUME NEW b \in Bizers, NEW t \in Int, NEW s \in Nat, Takes(b, t)
    PROVE  LET d == Update(b, t, s)
               i == Offset(b, t)
           IN  /\ d \in Bizers /\ d.now = b.now /\ i \in 1 .. BucketCount
               /\ d.buckets[i].samples = b.buckets[i].samples \union {s}
               /\ d.buckets[i].time = IF b.buckets[i].samples = {} THEN t ELSE b.buckets[i].time
               /\ \A j \in 1 .. BucketCount : j # i => d.buckets[j] = b.buckets[j]
BY Zenon DEF Update, Takes, Bizers

(* A new bucketizer has empty buckets.                                     *)
LEMMA NewBizer ==
    ASSUME NEW t \in Int
    PROVE  /\ NewBucketizer(t) \in Bizers
           /\ \A i \in 1 .. BucketCount : NewBucketizer(t).buckets[i].samples = {}
BY DownIsMultiple DEF NewBucketizer, Bizers, NoBucket

(* A sample in a bucket is in a line.                                      *)
LEMMA LineOfBucket ==
    ASSUME NEW c, NEW b, NEW j \in 1 .. BucketCount, NEW u \in b.buckets[j].samples
    PROVE  \E l \in Lines(c, b) : u \in l.samples
<1> DEFINE l == [ctr |-> c, time |-> b.buckets[j].time, samples |-> b.buckets[j].samples]
<1>1. l \in Lines(c, b)
    BY DEF Lines
<1>2. l.samples = b.buckets[j].samples
    OBVIOUS
<1> HIDE DEF l
<1> QED
    BY <1>1, <1>2

(* handle_forward() takes a sample: it joins the line of its interval, and *)
(* every other line stays.                                                 *)
LEMMA SampleTaken ==
    ASSUME TypeOK, ClockInv, KeptInv, PlaceInv, NEW ctr \in Counters, NEW age \in Ages,
           HandleForward(ctr, age), Takes(Bizer(ctr), now - age)
    PROVE  KeptInv' /\ PlaceInv'
<1> DEFINE t == now - age
           s == Len(taken) + 1
           b == Bizer(ctr)
           d == Update(b, t, s)
           i == Offset(b, t)
<1>1. t \in Int /\ b \in Bizers /\ s \in Nat /\ s \notin DOMAIN taken
    BY NewBizer, ForwardingAssumption, SMTT(30) DEF TypeOK, Bizer
<1>2. PICK t0 \in Int : b.now = Down(t0)
    BY BizerAge DEF MadeAt
<1>3. /\ DOMAIN buckets' = DOMAIN buckets \union {ctr}
      /\ buckets'[ctr] = d
      /\ \A c \in DOMAIN buckets : c # ctr => buckets'[c] = buckets[c]
      /\ taken' = Append(taken, [ctr |-> ctr, time |-> t])
      /\ UNCHANGED <<work, outgoing, writing, gone>>
    BY DEF HandleForward, connVars
<1>4. /\ d \in Bizers /\ d.now = b.now /\ i \in 1 .. BucketCount
      /\ d.buckets[i].samples = b.buckets[i].samples \union {s}
      /\ d.buckets[i].time = IF b.buckets[i].samples = {} THEN t ELSE b.buckets[i].time
      /\ \A j \in 1 .. BucketCount : j # i => d.buckets[j] = b.buckets[j]
    BY <1>1, UpdatedBizer, ZenonT(30)
<1>5. /\ DOMAIN taken' = DOMAIN taken \union {s}
      /\ taken'[s].ctr = ctr /\ taken'[s].time = t
      /\ \A u \in DOMAIN taken : taken'[u] = taken[u] /\ u # s
      /\ \A u \in DOMAIN taken : taken[u].time \in Int
  <2> DEFINE S == [ctr : Counters, time : Int]
  <2>1. taken \in Seq(S) /\ [ctr |-> ctr, time |-> t] \in S
    BY <1>1 DEF TypeOK
  <2> DEFINE e == [ctr |-> ctr, time |-> t]
  <2>2. e.ctr = ctr /\ e.time = t /\ \A x \in S : x.time \in Int
    BY Zenon
  <2>3. taken \in Seq(S) /\ e \in S /\ taken' = Append(taken, e)
    BY <1>3, <2>1
  <2> HIDE DEF S, e
  <2>4. /\ DOMAIN taken = 1 .. Len(taken) /\ Len(taken) \in Nat
        /\ \A u \in 1 .. Len(taken) : taken[u] \in S
    BY <2>3
  <2>5. /\ taken' \in Seq(S) /\ Len(taken') = Len(taken) + 1
        /\ taken'[Len(taken) + 1] = e
        /\ \A u \in 1 .. Len(taken) : taken'[u] = taken[u]
    BY <2>3
  <2>6. DOMAIN taken' = 1 .. Len(taken) + 1
    BY <2>5
  <2> QED
    BY <2>2, <2>4, <2>5, <2>6
<1>6. ASSUME NEW j \in 1 .. BucketCount, NEW u \in b.buckets[j].samples
      PROVE  /\ u \in DOMAIN taken /\ taken[u].ctr = ctr
             /\ Offset(b, taken[u].time) = j
             /\ Down(b.buckets[j].time) = Down(taken[u].time)
  <2>1. CASE ctr \in DOMAIN buckets
    BY <2>1 DEF KeptInv, Bizer
  <2>2. CASE ctr \notin DOMAIN buckets
    BY <2>2, NewBizer, SMTT(30) DEF Bizer, TypeOK
  <2> QED
    BY <2>1, <2>2, Zenon
<1>7. \A x \in Int : Offset(d, x) = Offset(b, x)
    BY <1>4, Zenon DEF Offset
<1>8. \A x, y \in Int : Offset(b, x) = Offset(b, y) => Down(x) = Down(y)
  <2> SUFFICES ASSUME NEW x \in Int, NEW y \in Int, Offset(b, x) = Offset(b, y)
               PROVE  Down(x) = Down(y)
    BY Zenon
  <2>1. Ix(x) - Ix(t0) + BucketCount - 1 = Ix(y) - Ix(t0) + BucketCount - 1
    BY <1>2, OffsetIsIndex
  <2>2. Ix(x) \in Int /\ Ix(y) \in Int /\ Ix(t0) \in Int
    BY DownIsMultiple, Zenon
  <2>3. Ix(x) = Ix(y)
    BY <2>1, <2>2, ForwardingAssumption, SMTT(30)
  <2> QED
    BY <2>3, DownIsMultiple
<1> HIDE DEF t, s, b, d, i
<1>9. ASSUME NEW j \in 1 .. BucketCount, NEW u \in d.buckets[j].samples
      PROVE  /\ u \in DOMAIN taken' /\ taken'[u].ctr = ctr
             /\ Offset(d, taken'[u].time) = j
             /\ Down(d.buckets[j].time) = Down(taken'[u].time)
  <2>1. CASE j # i
    BY <1>4, <1>5, <1>6, <1>7, <2>1
  <2>2. CASE j = i /\ u = s
    <3>1. Offset(d, t) = i
      BY <1>1, <1>7, Zenon DEF i
    <3>2. Down(d.buckets[j].time) = Down(t)
      <4>1. CASE b.buckets[i].samples = {}
        BY <1>4, <2>2, <4>1, Zenon
      <4>2. CASE b.buckets[i].samples # {}
        <5>1. PICK v \in b.buckets[i].samples : TRUE
          BY <4>2, Zenon
        <5>2. Offset(b, taken[v].time) = i /\ Down(b.buckets[i].time) = Down(taken[v].time)
              /\ taken[v].time \in Int
          BY <1>4, <1>5, <1>6, Zenon
        <5>3. Down(taken[v].time) = Down(t)
          BY <1>1, <1>8, <5>2, Zenon DEF i
        <5> QED
          BY <1>4, <2>2, <4>2, <5>2, <5>3, Zenon
      <4> QED
        BY <4>1, <4>2, Zenon
    <3> QED
      BY <1>5, <2>2, <3>1, <3>2, Zenon
  <2>3. CASE j = i /\ u # s
    <3>1. u \in b.buckets[i].samples
      BY <1>4, <2>3, Zenon
    <3>2. d.buckets[i].time = b.buckets[i].time
      BY <1>4, <3>1, Zenon
    <3> QED
      BY <1>4, <1>5, <1>6, <1>7, <2>3, <3>1, <3>2, SMTT(30)
  <2> QED
    BY <2>1, <2>2, <2>3, Zenon
<1>10. KeptInv'
  <2> SUFFICES ASSUME NEW c \in DOMAIN buckets', NEW j \in 1 .. BucketCount,
                      NEW u \in buckets'[c].buckets[j].samples
               PROVE  /\ u \in DOMAIN taken' /\ taken'[u].ctr = c
                      /\ Offset(buckets'[c], taken'[u].time) = j
                      /\ Down(buckets'[c].buckets[j].time) = Down(taken'[u].time)
    BY Zenon DEF KeptInv
  <2>1. CASE c = ctr
    BY <1>3, <1>9, <2>1, Zenon
  <2>2. CASE c # ctr
    BY <1>3, <1>5, <2>2 DEF KeptInv
  <2> QED
    BY <2>1, <2>2, Zenon
<1>11. ASSUME NEW p \in Places, p # Kept(ctr)
       PROVE  LinesAt(p)' = LinesAt(p)
  <2>1. ASSUME NEW c \in Counters, p = Kept(c) PROVE LinesAt(p)' = LinesAt(p)
    <3>1. c # ctr
      BY <1>11, <2>1
    <3> QED
      BY <1>3, <2>1, <3>1, PlaceLines, Zenon DEF LinesByPlace, KeptLines
  <2>2. ASSUME NEW u \in Threads, NEW a \in Agents,
               p = InWork(u, a) \/ p = Queued(a) \/ p = Written(a) \/ p = Gone
        PROVE  LinesAt(p)' = LinesAt(p)
    BY <1>3, <2>2, PlaceLines DEF LinesByPlace
  <2>3. "timer" \in Threads /\ 1 \in Agents
    BY ForwardingAssumption DEF Threads, Agents
  <2> QED
    BY <2>1, <2>2, <2>3, PlaceCases, Zenon
<1>12. /\ Kept(ctr) \in Places /\ LinesAt(Kept(ctr))' = Lines(ctr, d)
       /\ LinesAt(Kept(ctr)) = Lines(ctr, b)
  <2>1. LinesAt(Kept(ctr))' = Lines(ctr, d)
    BY <1>3, PlaceLines, Zenon DEF LinesByPlace, KeptLines
  <2>2. ctr \notin DOMAIN buckets => Lines(ctr, b) = {}
    BY NewBizer DEF Bizer, Lines, TypeOK, b
  <2> QED
    BY <2>1, <2>2, PlaceLines, Zenon DEF LinesByPlace, KeptLines, Bizer, b
<1>13. ASSUME NEW l \in Lines(ctr, d)
       PROVE  \E j \in 1 .. BucketCount : /\ l.samples = d.buckets[j].samples
                                          /\ l.time = d.buckets[j].time /\ l.ctr = ctr
                                          /\ l = [ctr |-> ctr, time |-> d.buckets[j].time,
                                                  samples |-> d.buckets[j].samples]
    BY DEF Lines
<1>14. Fits'
  <2> SUFFICES ASSUME NEW p \in Places, NEW l \in LinesAt(p)', NEW u \in l.samples
               PROVE  /\ u \in DOMAIN taken' /\ l.ctr = taken'[u].ctr
                      /\ Down(l.time) = Down(taken'[u].time)
    BY Zenon DEF Fits
  <2>1. CASE p = Kept(ctr)
    BY <1>9, <1>12, <1>13, <2>1, SMTT(30)
  <2>2. CASE p # Kept(ctr)
    BY <1>5, <1>11, <2>2, SMTT(30) DEF Fits, PlaceInv
  <2> QED
    BY <2>1, <2>2
<1>15. Found'
  <2> SUFFICES ASSUME NEW u \in DOMAIN taken'
               PROVE  \E p \in Places : \E l \in LinesAt(p)' : u \in l.samples
    BY Zenon DEF Found
  <2>1. CASE u \in DOMAIN taken
    <3>1. PICK p \in Places : \E l \in LinesAt(p) : u \in l.samples
      BY <2>1, Zenon DEF PlaceInv, Found
    <3>2. CASE p # Kept(ctr)
      BY <1>11, <3>1, <3>2, Zenon
    <3>3. CASE p = Kept(ctr)
      <4>1. PICK j \in 1 .. BucketCount : u \in b.buckets[j].samples
        BY <1>12, <3>1, <3>3 DEF Lines
      <4>2. u \in d.buckets[j].samples
        BY <1>4, <4>1, Zenon
      <4> QED
        BY <1>12, <4>2, LineOfBucket, ZenonT(30)
    <3> QED
      BY <3>2, <3>3, Zenon
  <2>2. CASE u = s
    BY <1>4, <1>12, <2>2, LineOfBucket, SMTT(30)
  <2> QED
    BY <1>5, <2>1, <2>2, Zenon
<1>16. Alone'
  <2> SUFFICES ASSUME NEW p \in Places, NEW q \in Places,
                      NEW l \in LinesAt(p)', NEW m \in LinesAt(q)',
                      NEW u \in l.samples, u \in m.samples
               PROVE  p = q /\ l = m
    BY Zenon DEF Alone
  <2>1. ASSUME NEW x \in Places, x # Kept(ctr), NEW y \in LinesAt(x)', u \in y.samples,
               NEW z \in Lines(ctr, d), u \in z.samples
        PROVE  FALSE
    <3>1. y \in LinesAt(x) /\ u \in DOMAIN taken
      BY <1>11, <2>1, ZenonT(30) DEF PlaceInv, Fits
    <3>2. PICK j \in 1 .. BucketCount : z.samples = d.buckets[j].samples
      BY <1>13, Zenon
    <3>3. u \in b.buckets[j].samples
      BY <1>4, <1>5, <2>1, <3>1, <3>2, SMTT(30)
    <3>4. \E v \in Lines(ctr, b) : u \in v.samples
      BY <3>3, LineOfBucket, Zenon
    <3> QED
      BY <1>12, <2>1, <3>1, <3>4, SMTT(30) DEF PlaceInv, Alone
  <2>2. CASE p # Kept(ctr) /\ q # Kept(ctr)
    BY <1>11, <2>2 DEF PlaceInv, Alone
  <2>3. CASE p = Kept(ctr) /\ q = Kept(ctr)
    <3>1. PICK j \in 1 .. BucketCount :
              l.samples = d.buckets[j].samples
              /\ l = [ctr |-> ctr, time |-> d.buckets[j].time, samples |-> d.buckets[j].samples]
      BY <1>12, <1>13, <2>3, Zenon
    <3>2. PICK k \in 1 .. BucketCount :
              m.samples = d.buckets[k].samples
              /\ m = [ctr |-> ctr, time |-> d.buckets[k].time, samples |-> d.buckets[k].samples]
      BY <1>12, <1>13, <2>3, Zenon
    <3>3. j = k
      BY <1>9, <3>1, <3>2, Zenon
    <3> QED
      BY <2>3, <3>1, <3>2, <3>3
  <2> QED
    BY <1>12, <2>1, <2>2, <2>3, Zenon
<1> QED
    BY <1>10, <1>14, <1>15, <1>16 DEF PlaceInv

(* handle_forward() refuses a sample: no line changes.                     *)
LEMMA SampleRefused ==
    ASSUME TypeOK, KeptInv, PlaceInv, NEW ctr \in Counters, NEW age \in Ages,
           HandleForward(ctr, age), ~Takes(Bizer(ctr), now - age)
    PROVE  KeptInv' /\ PlaceInv'
<1>1. /\ DOMAIN buckets' = DOMAIN buckets \union {ctr}
      /\ \A c \in DOMAIN buckets' : buckets'[c] = IF c = ctr THEN Bizer(ctr) ELSE buckets[c]
      /\ taken' = taken
      /\ UNCHANGED <<work, outgoing, writing, gone>>
    BY Zenon DEF HandleForward, Update, connVars
<1>2. \A c \in DOMAIN buckets' : c \in DOMAIN buckets => buckets'[c] = buckets[c]
    BY <1>1, Zenon DEF Bizer
<1>3. ctr \notin DOMAIN buckets =>
          \A i \in 1 .. BucketCount : buckets'[ctr].buckets[i].samples = {}
    BY <1>1, NewBizer, SMTT(30) DEF Bizer, TypeOK
<1>4. KeptInv'
    BY <1>1, <1>2, <1>3 DEF KeptInv
<1>5. ASSUME NEW p \in Places
      PROVE  LinesAt(p)' = LinesAt(p)
  <2>1. ASSUME NEW c \in Counters, p = Kept(c) PROVE LinesAt(p)' = LinesAt(p)
    <3>1. CASE c \in DOMAIN buckets
      BY <1>1, <1>2, <2>1, <3>1, PlaceLines, ZenonT(30) DEF LinesByPlace, KeptLines
    <3>2. CASE c \notin DOMAIN buckets
      <4>1. c \in DOMAIN buckets' => Lines(c, buckets'[c]) = {}
        BY <1>1, <1>3, <3>2 DEF Lines
      <4> QED
        BY <2>1, <3>2, <4>1, PlaceLines, Zenon DEF LinesByPlace, KeptLines
    <3> QED
      BY <3>1, <3>2, Zenon
  <2>2. ASSUME NEW u \in Threads, NEW a \in Agents,
               p = InWork(u, a) \/ p = Queued(a) \/ p = Written(a) \/ p = Gone
        PROVE  LinesAt(p)' = LinesAt(p)
    BY <1>1, <2>2, PlaceLines DEF LinesByPlace
  <2>3. "timer" \in Threads /\ 1 \in Agents
    BY ForwardingAssumption, SMTT(30) DEF Threads, Agents
  <2> QED
    BY <2>1, <2>2, <2>3, PlaceCases, Zenon
<1>6. PlaceInv'
    BY <1>1, <1>5 DEF PlaceInv, Fits, Alone, Found
<1> QED
    BY <1>4, <1>6

-----------------------------------------------------------------------------
(* A step that moves the lines of every place, together, to some place.    *)
Moves(D) ==
    \A q \in Places : \A l : l \in LinesAt(q)' <=> \E p \in Places : D[p] = q /\ l \in LinesAt(p)

(* Moving places as a whole neither loses a sample nor has it twice.       *)
LEMMA MovesKeep ==
    ASSUME PlaceInv, NEW D \in [Places -> Places], Moves(D), UNCHANGED taken
    PROVE  PlaceInv'
<1>1. Fits'
    BY DEF Fits, Moves, PlaceInv
<1>2. Found'
    BY Zenon DEF Found, Moves, PlaceInv
<1>3. Alone'
  <2> SUFFICES ASSUME NEW p \in Places, NEW q \in Places, NEW l \in LinesAt(p)', NEW m \in LinesAt(q)',
                      NEW s \in l.samples, s \in m.samples
               PROVE  p = q /\ l = m
    BY Zenon DEF Alone
  <2>1. PICK x \in Places : D[x] = p /\ l \in LinesAt(x)
    BY Zenon DEF Moves
  <2>2. PICK y \in Places : D[y] = q /\ m \in LinesAt(y)
    BY Zenon DEF Moves
  <2>3. x = y /\ l = m
    BY <2>1, <2>2, Zenon DEF PlaceInv, Alone
  <2> QED
    BY <2>1, <2>2, <2>3, Zenon
<1> QED
    BY <1>1, <1>2, <1>3, Zenon DEF PlaceInv

(* A connection's own steps: what is written or lost goes, what is queued  *)
(* is written next.                                                        *)
LEMMA ConnectionMoves ==
    ASSUME TypeOK, Silent, PlaceInv, NEW a \in Agents, OnWrite(a) \/ Disconnect(a) \/ Reconnect(a)
    PROVE  PlaceInv' /\ Silent'
<1>1. \A p \in Places : p # Written(a) /\ p # Queued(a) /\ p # Gone => LinesAt(p)' = LinesAt(p)
  <2> SUFFICES ASSUME NEW p \in Places, p # Written(a), p # Queued(a), p # Gone
               PROVE  LinesAt(p)' = LinesAt(p)
    BY Zenon
  <2>1. buckets' = buckets /\ work' = work
        /\ \A b \in Agents : b # a => writing'[b] = writing[b] /\ outgoing'[b] = outgoing[b]
    BY Zenon DEF OnWrite, Disconnect, Reconnect, TypeOK
  <2>2. ASSUME NEW c \in Counters, p = Kept(c) PROVE LinesAt(p)' = LinesAt(p)
    BY <2>1, <2>2, PlaceLines, Zenon DEF LinesByPlace, KeptLines
  <2>3. ASSUME NEW u \in Threads, NEW b \in Agents, p = InWork(u, b)
        PROVE  LinesAt(p)' = LinesAt(p)
    BY <2>1, <2>3, PlaceLines, ZenonT(30) DEF LinesByPlace
  <2>4. ASSUME NEW b \in Agents, p = Queued(b) PROVE LinesAt(p)' = LinesAt(p)
    BY <2>1, <2>4, PlaceLines, Zenon DEF LinesByPlace
  <2>5. ASSUME NEW b \in Agents, p = Written(b) PROVE LinesAt(p)' = LinesAt(p)
    BY <2>1, <2>5, PlaceLines, Zenon DEF LinesByPlace
  <2> QED
    BY <2>2, <2>3, <2>4, <2>5, PlaceCases, Zenon
<1>2. LinesAt(Written(a)) = writing[a] /\ LinesAt(Queued(a)) = outgoing[a] /\ LinesAt(Gone) = gone
      /\ LinesAt(Written(a))' = writing'[a] /\ LinesAt(Queued(a))' = outgoing'[a]
      /\ LinesAt(Gone)' = gone'
      /\ Written(a) \in Places /\ Queued(a) \in Places /\ Gone \in Places
    BY PlaceLines, Zenon DEF LinesByPlace
<1>3. Written(a) # Queued(a) /\ Written(a) # Gone /\ Queued(a) # Gone
    BY Zenon DEF Written, Queued, Gone
<1>4. UNCHANGED taken
    BY Zenon DEF OnWrite, Disconnect, Reconnect
<1>5. Silent'
    BY Zenon DEF OnWrite, Disconnect, Reconnect, Silent, TypeOK
<1> HIDE DEF Written, Queued, Gone
<1>6. CASE OnWrite(a)
  <2> DEFINE D == [p \in Places |-> IF p = Written(a) THEN Gone
                                    ELSE IF p = Queued(a) THEN Written(a) ELSE p]
  <2>1. gone' = gone \union writing[a] /\ writing'[a] = outgoing[a] /\ outgoing'[a] = {}
    BY <1>6, Zenon DEF OnWrite, TypeOK
  <2>2. D \in [Places -> Places] /\ Moves(D)
    BY <1>1, <1>2, <1>3, <2>1, Zenon DEF Moves
  <2> QED
    BY <1>4, <1>5, <2>2, MovesKeep, Zenon
<1>7. CASE Disconnect(a)
  <2> DEFINE D == [p \in Places |-> IF p = Written(a) THEN Gone ELSE p]
  <2>1. gone' = gone \union writing[a] /\ writing'[a] = {} /\ outgoing'[a] = outgoing[a]
    BY <1>7, Zenon DEF Disconnect, TypeOK
  <2>2. D \in [Places -> Places] /\ Moves(D)
    BY <1>1, <1>2, <1>3, <2>1, Zenon DEF Moves
  <2> QED
    BY <1>4, <1>5, <2>2, MovesKeep
<1>8. CASE Reconnect(a)
  <2> DEFINE D == [p \in Places |-> IF p = Queued(a) THEN Written(a) ELSE p]
  <2>1. gone' = gone /\ writing'[a] = outgoing[a] /\ outgoing'[a] = {} /\ writing[a] = {}
    BY <1>8, Zenon DEF Reconnect, TypeOK, Silent
  <2>2. D \in [Places -> Places] /\ Moves(D)
    BY <1>1, <1>2, <1>3, <2>1, Zenon DEF Moves
  <2> QED
    BY <1>4, <1>5, <2>2, MovesKeep, Zenon
<1> QED
    BY <1>6, <1>7, <1>8, Zenon

(* writeOut(): the lines in hand join those queued, or all are written.    *)
LEMMA WriteOutMoves ==
    ASSUME TypeOK, Silent, PlaceInv, NEW t \in Threads, NEW a \in Agents, WriteOut(t, a)
    PROVE  PlaceInv' /\ Silent'
<1> DEFINE here == InWork(t, a)
<1>1. \A p \in Places : p # Written(a) /\ p # Queued(a) /\ p # here => LinesAt(p)' = LinesAt(p)
  <2> SUFFICES ASSUME NEW p \in Places, p # Written(a), p # Queued(a), p # here
               PROVE  LinesAt(p)' = LinesAt(p)
    BY Zenon
  <2>1. buckets' = buckets /\ gone' = gone
        /\ (\A b \in Agents : b # a => writing'[b] = writing[b] /\ outgoing'[b] = outgoing[b])
        /\ (\A u \in Threads, b \in Agents : <<u, b>> # <<t, a>> => work'[u][b] = work[u][b])
    BY Zenon DEF WriteOut, StartWrite, TypeOK
  <2>2. ASSUME NEW c \in Counters, p = Kept(c) PROVE LinesAt(p)' = LinesAt(p)
    BY <2>1, <2>2, PlaceLines, Zenon DEF LinesByPlace, KeptLines
  <2>3. ASSUME NEW u \in Threads, NEW b \in Agents, p = InWork(u, b)
        PROVE  LinesAt(p)' = LinesAt(p)
    <3>1. LinesAt(InWork(u, b)) = work[u][b] /\ LinesAt(InWork(u, b))' = work'[u][b]
      BY PlaceLines, Zenon DEF LinesByPlace
    <3>2. <<u, b>> # <<t, a>>
      BY <2>3, Zenon DEF InWork
    <3> QED
      BY <2>1, <2>3, <3>1, <3>2, Zenon
  <2>4. ASSUME NEW b \in Agents, p = Queued(b) PROVE LinesAt(p)' = LinesAt(p)
    BY <2>1, <2>4, PlaceLines DEF LinesByPlace
  <2>5. ASSUME NEW b \in Agents, p = Written(b) PROVE LinesAt(p)' = LinesAt(p)
    BY <2>1, <2>5, PlaceLines, ZenonT(30) DEF LinesByPlace
  <2>6. CASE p = Gone
    BY <2>1, <2>6, PlaceLines DEF LinesByPlace
  <2> QED
    BY <2>2, <2>3, <2>4, <2>5, <2>6, PlaceCases, Zenon
<1>2. LinesAt(Written(a)) = writing[a] /\ LinesAt(Queued(a)) = outgoing[a]
      /\ LinesAt(here) = work[t][a]
      /\ LinesAt(Written(a))' = writing'[a] /\ LinesAt(Queued(a))' = outgoing'[a]
      /\ LinesAt(here)' = work'[t][a]
      /\ Written(a) \in Places /\ Queued(a) \in Places /\ here \in Places
    BY PlaceLines, Zenon DEF LinesByPlace
<1>3. Written(a) # Queued(a) /\ Written(a) # here /\ Queued(a) # here
    BY Zenon DEF Written, Queued, InWork
<1>4. UNCHANGED taken /\ work'[t][a] = {}
    BY Zenon DEF WriteOut, TypeOK
<1>5. Silent'
    BY Zenon DEF WriteOut, StartWrite, Silent, TypeOK
<1> HIDE DEF Written, Queued, here
<1>6. CASE connected[a] /\ writing[a] = {}
  <2> DEFINE D == [p \in Places |-> IF p = here \/ p = Queued(a) THEN Written(a) ELSE p]
  <2>1. writing'[a] = outgoing[a] \union work[t][a] /\ outgoing'[a] = {}
    BY <1>6, Zenon DEF WriteOut, StartWrite, TypeOK
  <2>2. D \in [Places -> Places] /\ Moves(D)
    BY <1>1, <1>2, <1>3, <1>4, <1>6, <2>1, ZenonT(30) DEF Moves
  <2> QED
    BY <1>4, <1>5, <2>2, MovesKeep
<1>7. CASE ~(connected[a] /\ writing[a] = {})
  <2> DEFINE D == [p \in Places |-> IF p = here THEN Queued(a) ELSE p]
  <2>1. writing'[a] = writing[a] /\ outgoing'[a] = outgoing[a] \union work[t][a]
    BY <1>7, Zenon DEF WriteOut, StartWrite, TypeOK
  <2>2. D \in [Places -> Places] /\ Moves(D)
    BY <1>1, <1>2, <1>3, <1>4, <2>1, Zenon DEF Moves
  <2> QED
    BY <1>4, <1>5, <2>2, MovesKeep, Zenon
<1> QED
    BY <1>6, <1>7, Zenon

(* Every counter of the map goes to exactly one usable connection.         *)
LEMMA OneShare ==
    ASSUME NEW U \in SUBSET Agents, NEW n \in Nat \ {0}, NEW K, NEW N,
           NEW conns \in Bijection(1 .. n, U), NEW order \in Bijection(1 .. N, K)
    PROVE  /\ \A a : Share(conns, n, order, a) \subseteq K
           /\ \A c \in K : \E a \in Agents : c \in Share(conns, n, order, a)
           /\ \A a, b : \A c \in Share(conns, n, order, a) \intersect Share(conns, n, order, b) : a = b
<1>1. /\ DOMAIN conns = 1 .. n /\ \A i \in 1 .. n : conns[i] \in Agents
      /\ DOMAIN order = 1 .. N /\ \A k \in 1 .. N : order[k] \in K
      /\ \A j, k \in 1 .. N : order[j] = order[k] => j = k
      /\ \A c \in K : \E k \in 1 .. N : order[k] = c
    BY Zenon DEF Bijection, Injection, Surjection, IsInjective
<1>2. ASSUME NEW k \in 1 .. N
      PROVE  /\ (k - 1) % n \in 0 .. n - 1
             /\ \A i, j \in 1 .. n : Gets(n, i, k) /\ Gets(n, j, k) => i = j
  <2>1. k - 1 \in Int
    OBVIOUS
  <2>2. (k - 1) % n \in 0 .. n - 1
    BY <2>1, Quotients, Zenon
  <2> QED
    BY <2>2 DEF Gets
<1>3. ASSUME NEW c \in K
      PROVE  \E a \in Agents : c \in Share(conns, n, order, a)
  <2>1. PICK k \in 1 .. N : order[k] = c
    BY <1>1, Zenon
  <2> DEFINE i == ((k - 1) % n) + 1
  <2>2. i \in 1 .. n /\ Gets(n, i, k)
    BY <1>2 DEF Gets
  <2> HIDE DEF i
  <2> QED
    BY <1>1, <2>1, <2>2 DEF Share
<1>4. ASSUME NEW a, NEW b, NEW c \in Share(conns, n, order, a) \intersect Share(conns, n, order, b)
      PROVE  a = b
  <2>1. PICK k \in 1 .. N, i \in 1 .. n : order[k] = c /\ conns[i] = a /\ Gets(n, i, k)
    BY <1>1, Zenon DEF Share
  <2>2. PICK k2 \in 1 .. N, j \in 1 .. n : order[k2] = c /\ conns[j] = b /\ Gets(n, j, k2)
    BY <1>1, Zenon DEF Share
  <2> QED
    BY <1>1, <1>2, <2>1, <2>2, ZenonT(30)
<1>5. ASSUME NEW a, NEW c \in Share(conns, n, order, a)
      PROVE  c \in K
  <2>1. PICK k \in DOMAIN order : order[k] = c
    BY Zenon DEF Share
  <2> QED
    BY <1>1, <2>1, Zenon
<1> QED
    BY <1>3, <1>4, <1>5, Zenon

(* clearForward(): the lines of a counter go together to one connection,   *)
(* or all are dropped.                                                     *)
LEMMA ClearForwardMoves ==
    ASSUME TypeOK, Silent, PlaceInv, NEW t \in Threads, Idle(t), ClearForward(t),
           UNCHANGED <<connected, outgoing, writing, taken>>
    PROVE  PlaceInv' /\ Silent'
<1> DEFINE usable == Usable(MissesAfter)
           kept == DOMAIN buckets
<1>0. PICK n \in 0 .. AgentCount :
          \E conns \in Bijection(1 .. n, usable), order \in Bijection(1 .. Cardinality(kept), kept) :
              /\ work' = [work EXCEPT ![t] = [a \in Agents |-> LinesOf(Share(conns, n, order, a))]]
              /\ gone' = IF n = 0 THEN gone \union LinesOf(kept) ELSE gone
    BY Zenon DEF ClearForward
<1>1. usable \in SUBSET Agents /\ n \in Nat
    BY ForwardingAssumption DEF Usable
<1>2. PICK conns \in Bijection(1 .. n, usable), order \in Bijection(1 .. Cardinality(kept), kept) :
          /\ work' = [work EXCEPT ![t] = [a \in Agents |-> LinesOf(Share(conns, n, order, a))]]
          /\ gone' = IF n = 0 THEN gone \union LinesOf(kept) ELSE gone
    BY <1>0, Zenon
<1>3. buckets' = <<>> /\ gone' = IF n = 0 THEN gone \union LinesOf(kept) ELSE gone
    BY <1>2, Zenon DEF ClearForward
<1> HIDE DEF usable
<1>4. Silent'
    BY DEF Silent
<1>5. /\ \A c \in Counters : LinesAt(Kept(c))' = {}
      /\ \A a \in Agents : LinesAt(InWork(t, a)) = {}
                           /\ LinesAt(InWork(t, a))' = LinesOf(Share(conns, n, order, a))
      /\ LinesAt(Gone) = gone /\ LinesAt(Gone)' = gone'
    BY <1>2, <1>3, PlaceLines, SMTT(30) DEF LinesByPlace, KeptLines, Idle, TypeOK
<1>6. ASSUME NEW p \in Places, p # Gone, \A c \in Counters : p # Kept(c),
             \A a \in Agents : p # InWork(t, a)
      PROVE  LinesAt(p)' = LinesAt(p)
  <2>1. ASSUME NEW u \in Threads, NEW b \in Agents, p = InWork(u, b)
        PROVE  LinesAt(p)' = LinesAt(p)
    <3>1. work'[u] = work[u]
      BY <1>2, <1>6, <2>1, Zenon DEF TypeOK
    <3>2. LinesAt(InWork(u, b)) = work[u][b] /\ LinesAt(InWork(u, b))' = work'[u][b]
      BY PlaceLines, Zenon DEF LinesByPlace
    <3> QED
      BY <2>1, <3>1, <3>2, Zenon
  <2>2. ASSUME NEW b \in Agents, p = Queued(b) \/ p = Written(b)
        PROVE  LinesAt(p)' = LinesAt(p)
    BY <2>2, PlaceLines, ZenonT(30) DEF LinesByPlace
  <2> QED
    BY <1>6, <2>1, <2>2, PlaceCases, Zenon
<1>7. /\ kept \subseteq Counters
      /\ \A c \in kept : LinesAt(Kept(c)) = Lines(c, buckets[c])
      /\ \A c \in Counters : \A l \in LinesAt(Kept(c)) : c \in kept
    BY PlaceLines, Zenon DEF LinesByPlace, KeptLines, TypeOK
<1>8. /\ \A c \in Counters : Kept(c) \in Places
      /\ \A a \in Agents : InWork(t, a) \in Places
      /\ Gone \in Places
    BY PlaceLines, Zenon DEF LinesByPlace
<1>9. /\ \A c \in Counters : Kept(c) # Gone /\ \A a \in Agents : Kept(c) # InWork(t, a)
      /\ \A c, d \in Counters : Kept(c) = Kept(d) => c = d
      /\ \A a, b \in Agents : InWork(t, a) = InWork(t, b) => a = b
      /\ \A a \in Agents : InWork(t, a) # Gone
    BY Zenon DEF Kept, InWork, Gone
<1> DEFINE Ctr(p) == CHOOSE c \in Counters : p = Kept(c)
<1>10. \A c \in Counters : Ctr(Kept(c)) = c
    BY <1>9, Zenon
<1> HIDE DEF Kept, InWork, Gone, Ctr
<1>11. CASE n = 0
  <2> DEFINE D == [p \in Places |-> IF \E c \in Counters : p = Kept(c) THEN Gone ELSE p]
  <2>1. \A a \in Agents : LinesOf(Share(conns, n, order, a)) = {}
    <3>1. DOMAIN conns = {}
      BY <1>11 DEF Bijection, Injection
    <3> QED
      BY <3>1, Zenon DEF Share, LinesOf
  <2>2. D \in [Places -> Places]
    BY <1>8, Zenon
  <2>3. \A l : l \in LinesAt(Gone)' <=> l \in LinesAt(Gone) \/ \E c \in Counters : l \in LinesAt(Kept(c))
    <3>1. \A l : l \in LinesOf(kept) <=> \E c \in kept : l \in LinesAt(Kept(c))
      BY <1>7, Zenon DEF LinesOf
    <3>2. \A l : (\E c \in Counters : l \in LinesAt(Kept(c)))
                 <=> \E c \in kept : l \in LinesAt(Kept(c))
      BY <1>7, Zenon
    <3>3. LinesAt(Gone)' = LinesAt(Gone) \union LinesOf(kept)
      BY <1>3, <1>5, <1>11, Zenon
    <3> QED
      BY <3>1, <3>2, <3>3, Zenon
  <2>4. Moves(D)
    <3> SUFFICES ASSUME NEW q \in Places, NEW l
                 PROVE  l \in LinesAt(q)' <=> \E p \in Places : D[p] = q /\ l \in LinesAt(p)
      BY Zenon DEF Moves
    <3>1. CASE q = Gone
      BY <1>8, <1>9, <2>3, <3>1, Zenon
    <3>2. CASE \E c \in Counters : q = Kept(c)
      BY <1>5, <1>8, <1>9, <3>2, Zenon
    <3>3. CASE \E a \in Agents : q = InWork(t, a)
      BY <1>5, <1>8, <1>9, <2>1, <3>3, SMTT(30)
    <3>4. CASE q # Gone /\ ~(\E c \in Counters : q = Kept(c)) /\ ~(\E a \in Agents : q = InWork(t, a))
      BY <1>6, <1>8, <1>9, <3>4, Zenon
    <3> QED
      BY <3>1, <3>2, <3>3, <3>4, Zenon
  <2> QED
    BY <1>4, <2>2, <2>4, MovesKeep, Zenon
<1>12. CASE n # 0
  <2> DEFINE To(c) == CHOOSE a \in Agents : c \in Share(conns, n, order, a)
             D == [p \in Places |-> IF \E c \in kept : p = Kept(c)
                                    THEN InWork(t, To(Ctr(p))) ELSE p]
  <2>1. /\ \A a : Share(conns, n, order, a) \subseteq kept
        /\ \A c \in kept : \E a \in Agents : c \in Share(conns, n, order, a)
        /\ \A a, b : \A c \in Share(conns, n, order, a) \intersect Share(conns, n, order, b) : a = b
    <3>1. n \in Nat \ {0}
      BY <1>1, <1>12, Zenon
    <3> QED
      BY <1>1, <1>2, <3>1, OneShare
  <2>2. \A c \in kept : To(c) \in Agents /\ \A a : c \in Share(conns, n, order, a) <=> a = To(c)
    BY <2>1, Zenon
  <2> HIDE DEF To
  <2>3. D \in [Places -> Places]
    BY <1>7, <1>8, <1>10, <2>2, Zenon
  <2>4. \A c \in kept : D[Kept(c)] = InWork(t, To(c))
    BY <1>7, <1>8, <1>10, Zenon
  <2>5. \A p \in Places : (\A c \in kept : p # Kept(c)) => D[p] = p
    BY Zenon
  <2>6. \A a \in Agents : \A l : l \in LinesAt(InWork(t, a))' <=>
                                 \E c \in kept : To(c) = a /\ l \in LinesAt(Kept(c))
    <3> SUFFICES ASSUME NEW a \in Agents, NEW l
                 PROVE  l \in LinesAt(InWork(t, a))' <=>
                        \E c \in kept : To(c) = a /\ l \in LinesAt(Kept(c))
      BY Zenon
    <3>1. l \in LinesAt(InWork(t, a))' <=>
          \E c \in Share(conns, n, order, a) : l \in Lines(c, buckets[c])
      <4>1. LinesAt(InWork(t, a))' = LinesOf(Share(conns, n, order, a))
        BY <1>5, Zenon
      <4> QED
        BY <4>1, Zenon DEF LinesOf
    <3>2. \A c : c \in Share(conns, n, order, a) <=> c \in kept /\ To(c) = a
      BY <2>1, <2>2, Zenon
    <3> QED
      BY <1>7, <3>1, <3>2, Zenon
  <2> HIDE DEF D
  <2>7. Moves(D)
    <3> SUFFICES ASSUME NEW q \in Places, NEW l
                 PROVE  l \in LinesAt(q)' <=> \E p \in Places : D[p] = q /\ l \in LinesAt(p)
      BY Zenon DEF Moves
    <3>1. CASE q = Gone
      <4>1. LinesAt(q)' = LinesAt(q) /\ D[q] = q
        BY <1>3, <1>5, <1>7, <1>9, <1>12, <2>5, <3>1, Zenon
      <4>2. ASSUME NEW p \in Places, D[p] = q PROVE p = q
        <5>1. ASSUME NEW c \in kept, p = Kept(c) PROVE FALSE
          BY <1>9, <2>2, <2>4, <3>1, <4>2, <5>1, Zenon
        <5> QED
          BY <2>5, <4>2, <5>1, Zenon
      <4> QED
        BY <4>1, <4>2, Zenon
    <3>2. CASE \E c \in Counters : q = Kept(c)
      <4>1. PICK c \in Counters : q = Kept(c)
        BY <3>2, Zenon
      <4>2. ASSUME NEW p \in Places, D[p] = q, l \in LinesAt(p)
            PROVE  FALSE
        <5>1. CASE \E d \in kept : p = Kept(d)
          BY <1>7, <1>9, <2>2, <2>4, <4>1, <4>2, <5>1, ZenonT(30)
        <5>2. CASE \A d \in kept : p # Kept(d)
          <6>1. p = Kept(c)
            BY <2>5, <4>1, <4>2, <5>2, Zenon
          <6>2. c \in Counters \ kept
            BY <5>2, <6>1, Zenon
          <6> QED
            BY <1>7, <4>2, <6>1, <6>2, Zenon
        <5> QED
          BY <5>1, <5>2
      <4> QED
        BY <1>5, <4>1, <4>2, Zenon
    <3>3. CASE \E a \in Agents : q = InWork(t, a)
      <4>1. PICK a \in Agents : q = InWork(t, a)
        BY <3>3, Zenon
      <4>2. ASSUME NEW c \in kept, To(c) = a, l \in LinesAt(Kept(c))
            PROVE  \E p \in Places : D[p] = q /\ l \in LinesAt(p)
        BY <1>7, <1>8, <2>4, <4>1, <4>2, Zenon
      <4>3. ASSUME NEW p \in Places, D[p] = q, l \in LinesAt(p)
            PROVE  \E c \in kept : To(c) = a /\ l \in LinesAt(Kept(c))
        <5>1. CASE \E d \in kept : p = Kept(d)
          BY <1>9, <2>2, <2>4, <4>1, <4>3, <5>1, Zenon
        <5>2. CASE \A d \in kept : p # Kept(d)
          BY <1>5, <2>5, <4>1, <4>3, <5>2, Zenon
        <5> QED
          BY <5>1, <5>2, Zenon
      <4> QED
        BY <2>6, <4>1, <4>2, <4>3, Zenon
    <3>4. CASE q # Gone /\ ~(\E c \in Counters : q = Kept(c)) /\ ~(\E a \in Agents : q = InWork(t, a))
      <4>1. LinesAt(q)' = LinesAt(q)
        BY <1>6, <3>4, Zenon
      <4>2. D[q] = q
        BY <1>7, <2>5, <3>4, Zenon
      <4>3. ASSUME NEW p \in Places, D[p] = q
            PROVE  p = q
        <5>1. CASE \E d \in kept : p = Kept(d)
          BY <2>2, <2>4, <3>4, <4>3, <5>1, Zenon
        <5>2. CASE \A d \in kept : p # Kept(d)
          BY <2>5, <4>3, <5>2, Zenon
        <5> QED
          BY <5>1, <5>2, Zenon
      <4> QED
        BY <4>1, <4>2, <4>3, Zenon
    <3> QED
      BY <3>1, <3>2, <3>3, <3>4, Zenon
  <2> QED
    BY <1>4, <2>3, <2>7, MovesKeep, Zenon
<1> QED
    BY <1>11, <1>12, Zenon

-----------------------------------------------------------------------------
(* The types, which the moves rely on.                                     *)

(* Lines are made of buckets that are not empty.                           *)
LEMMA LinesType ==
    ASSUME NEW c \in Counters, NEW b \in Bizers
    PROVE  Lines(c, b) \in SUBSET Line
<1> SUFFICES ASSUME NEW i \in 1 .. BucketCount, b.buckets[i].samples # {}
             PROVE  [ctr |-> c, time |-> b.buckets[i].time,
                     samples |-> b.buckets[i].samples] \in Line
    BY Zenon DEF Lines
<1>1. b.buckets[i] \in [time : Int, samples : SUBSET Nat]
    BY Zenon DEF Bizers
<1> QED
    BY <1>1, Zenon DEF Line

(* The lines of several counters are lines.                                *)
LEMMA LinesOfType ==
    ASSUME TypeOK, NEW S \in SUBSET DOMAIN buckets
    PROVE  LinesOf(S) \in SUBSET Line
BY LinesType DEF LinesOf, TypeOK

(* Every step keeps the types.                                             *)
LEMMA NextType == TypeOK /\ [Next]_vars => TypeOK'
<1> SUFFICES ASSUME TypeOK, [Next]_vars PROVE TypeOK'
    OBVIOUS
<1>1. ASSUME NEW ctr \in Counters, NEW age \in Ages, HandleForward(ctr, age)
      PROVE  TypeOK'
  <2>1. now - age \in Int /\ Bizer(ctr) \in Bizers /\ Len(taken) + 1 \in Nat
    <3>1. age \in Int /\ now \in Nat /\ taken \in Seq([ctr : Counters, time : Int])
      BY ForwardingAssumption, Zenon DEF TypeOK
    <3>2. now \in Int /\ now - age \in Int /\ Len(taken) + 1 \in Nat
      BY <3>1
    <3>3. Bizer(ctr) \in Bizers
      BY <3>2, NewBizer, Zenon DEF TypeOK, Bizer
    <3> QED
      BY <3>2, <3>3, Zenon
  <2>2. Update(Bizer(ctr), now - age, Len(taken) + 1) \in Bizers
    <3>1. CASE Takes(Bizer(ctr), now - age)
      BY <2>1, <3>1, UpdatedBizer
    <3>2. CASE ~Takes(Bizer(ctr), now - age)
      BY <2>1, <3>2 DEF Update
    <3> QED
      BY <3>1, <3>2, Zenon
  <2>3. taken' \in Seq([ctr : Counters, time : Int])
    <3> DEFINE e == [ctr |-> ctr, time |-> now - age]
               S == [ctr : Counters, time : Int]
    <3>1. e \in S
      BY <2>1, Zenon
    <3>2. taken' = taken \/ taken' = Append(taken, e)
      BY <1>1, Zenon DEF HandleForward
    <3>3. taken \in Seq(S)
      BY DEF TypeOK
    <3>4. taken' \in Seq(S)
      <4> HIDE DEF e, S
      <4>1. Append(taken, e) \in Seq(S)
        BY <3>1, <3>3, SMTT(30)
      <4> QED
        BY <3>2, <3>3, <4>1, Zenon
    <3> QED
      BY <3>4, Zenon
  <2>4. /\ DOMAIN buckets' \subseteq Counters
        /\ \A c \in DOMAIN buckets' : buckets'[c] \in Bizers
    BY <1>1, <2>2, Zenon DEF HandleForward, TypeOK
  <2> QED
    BY <1>1, <2>3, <2>4, Zenon DEF HandleForward, TypeOK, connVars, countVars
<1>2. ASSUME NEW t \in Threads, ClearForward(t)
      PROVE  /\ misses' \in [Agents -> Nat] /\ DOMAIN buckets' = {}
             /\ work' \in [Threads -> [Agents -> SUBSET Line]] /\ gone' \in SUBSET Line
  <2>1. misses' \in [Agents -> Nat]
    BY <1>2, SMTT(30) DEF ClearForward, MissesAfter, TypeOK
  <2>2. gone' \in SUBSET Line
    BY <1>2, LinesOfType, Zenon DEF ClearForward, TypeOK
  <2>3. DOMAIN buckets' = {}
    BY <1>2 DEF ClearForward
  <2> DEFINE usable == Usable(MissesAfter)
             kept == DOMAIN buckets
  <2>4. PICK n \in 0 .. AgentCount :
            \E conns \in Bijection(1 .. n, usable), order \in Bijection(1 .. Cardinality(kept), kept) :
                work' = [work EXCEPT ![t] = [a \in Agents |-> LinesOf(Share(conns, n, order, a))]]
    BY <1>2, Zenon DEF ClearForward
  <2>5. PICK conns \in Bijection(1 .. n, usable), order \in Bijection(1 .. Cardinality(kept), kept) :
            work' = [work EXCEPT ![t] = [a \in Agents |-> LinesOf(Share(conns, n, order, a))]]
    BY <2>4, Zenon
  <2>6. \A a \in Agents : Share(conns, n, order, a) \in SUBSET DOMAIN buckets
    BY <2>5, Zenon DEF Share, Bijection, Injection
  <2>7. [a \in Agents |-> LinesOf(Share(conns, n, order, a))] \in [Agents -> SUBSET Line]
    BY <2>6, LinesOfType, Zenon
  <2>8. work' \in [Threads -> [Agents -> SUBSET Line]]
    BY <2>5, <2>7, Zenon DEF TypeOK
  <2> QED
    BY <2>1, <2>2, <2>3, <2>8, Zenon
<1>3. CASE OnForwardTimer
  <2>1. timer' \in Nat
    BY <1>3, ForwardingAssumption DEF OnForwardTimer, TypeOK
  <2>2. UNCHANGED <<now, connected, outgoing, writing, taken, flushes, faults>>
    BY <1>3, Zenon DEF OnForwardTimer, connVars, countVars
  <2>3. "timer" \in Threads /\ ClearForward("timer")
    BY <1>3, Zenon DEF OnForwardTimer, Threads
  <2> QED
    BY <1>2, <2>1, <2>2, <2>3, Zenon DEF TypeOK
<1>4. CASE SyncAgent
    BY <1>2, <1>4, ForwardingAssumption, SMTT(30) DEF SyncAgent, TypeOK, connVars, Threads
<1>5. ASSUME NEW t \in Threads, NEW a \in Agents, WriteOut(t, a)
      PROVE  TypeOK'
  <2>1. outgoing' \in [Agents -> SUBSET Line] /\ writing' \in [Agents -> SUBSET Line]
    <3>1. outgoing[a] \union work[t][a] \in SUBSET Line
      BY DEF TypeOK
    <3> QED
      BY <1>5, <3>1, ZenonT(30) DEF WriteOut, StartWrite, TypeOK
  <2>2. work' \in [Threads -> [Agents -> SUBSET Line]]
    BY <1>5 DEF WriteOut, TypeOK
  <2> QED
    BY <1>5, <2>1, <2>2, Zenon DEF WriteOut, TypeOK, countVars
<1>6. ASSUME NEW a \in Agents, OnWrite(a) PROVE TypeOK'
    BY <1>6 DEF OnWrite, TypeOK, countVars
<1>7. ASSUME NEW a \in Agents, Disconnect(a) PROVE TypeOK'
    BY <1>7, ForwardingAssumption DEF Disconnect, TypeOK
<1>8. ASSUME NEW a \in Agents, Reconnect(a) PROVE TypeOK'
    BY <1>8, Zenon DEF Reconnect, TypeOK, countVars
<1>9. CASE Tick
    BY <1>9 DEF Tick, TypeOK, connVars, countVars
<1>10. CASE UNCHANGED vars
    BY <1>10 DEF vars, TypeOK
<1> QED
    BY <1>1, <1>3, <1>4, <1>5, <1>6, <1>7, <1>8, <1>9, <1>10, Zenon DEF Next

-----------------------------------------------------------------------------
(* Every step keeps the samples in their places.                           *)
SampleInv == TypeOK /\ ClockInv /\ Silent /\ KeptInv /\ PlaceInv

(* No sample is taken, and no line made, at the start.                     *)
LEMMA InitSamples == Init => SampleInv
<1> SUFFICES ASSUME Init PROVE SampleInv
    BY Zenon
<1>1. TypeOK
    BY ForwardingAssumption DEF Init, TypeOK
<1>2. ClockInv
    BY ForwardingAssumption, SMTT(30) DEF Init, ClockInv
<1>3. KeptInv /\ Silent
  <2>1. buckets = <<>>
    BY Zenon DEF Init
  <2>2. DOMAIN <<>> = {}
    OBVIOUS
  <2>3. KeptInv
    BY <2>1, <2>2, Zenon DEF KeptInv
  <2> QED
    BY <2>3, Zenon DEF Init, Silent
<1>4. \A p \in Places : LinesAt(p) = {}
    BY PlaceCases, PlaceLines, SMTT(30) DEF Init, LinesByPlace, KeptLines
<1>5. Fits /\ Alone
    BY <1>4, Zenon DEF Fits, Alone
<1>6. Found
  <2>1. taken = <<>>
    BY Zenon DEF Init
  <2>2. DOMAIN <<>> = {}
    OBVIOUS
  <2> QED
    BY <2>1, <2>2, Zenon DEF Found
<1> QED
    BY <1>1, <1>2, <1>3, <1>5, <1>6, Zenon DEF SampleInv, PlaceInv

(* Every step keeps the inductive invariant.                               *)
LEMMA NextSamples == SampleInv /\ [Next]_vars => SampleInv'
<1> SUFFICES ASSUME SampleInv, [Next]_vars PROVE SampleInv'
    OBVIOUS
<1> USE DEF SampleInv
<1>1. TypeOK' /\ ClockInv'
    BY NextType, NextClock, Zenon
<1>2. ASSUME NEW ctr \in Counters, NEW age \in Ages, HandleForward(ctr, age)
      PROVE  SampleInv'
  <2>1. KeptInv' /\ PlaceInv'
    BY <1>2, SampleTaken, SampleRefused, Zenon
  <2>2. Silent'
    BY <1>2, Zenon DEF HandleForward, connVars, Silent
  <2> QED
    BY <1>1, <2>1, <2>2, Zenon
<1>3. ASSUME NEW t \in Threads, Idle(t), ClearForward(t), UNCHANGED <<connVars, taken>>
      PROVE  SampleInv'
  <2>1. PlaceInv' /\ Silent'
    BY <1>3, ClearForwardMoves, Zenon DEF connVars
  <2>2. KeptInv'
    <3>1. buckets' = <<>>
      BY <1>3, Zenon DEF ClearForward
    <3> QED
      BY <3>1 DEF KeptInv
  <2> QED
    BY <1>1, <2>1, <2>2, Zenon
<1>4. CASE OnForwardTimer \/ SyncAgent
    BY <1>3, <1>4, Zenon DEF OnForwardTimer, SyncAgent, Threads
<1>5. ASSUME NEW t \in Threads, NEW a \in Agents, WriteOut(t, a)
      PROVE  SampleInv'
  <2>1. KeptInv'
    BY <1>5 DEF WriteOut, KeptInv
  <2> QED
    BY <1>1, <1>5, <2>1, WriteOutMoves, Zenon
<1>6. ASSUME NEW a \in Agents, OnWrite(a) \/ Disconnect(a) \/ Reconnect(a)
      PROVE  SampleInv'
  <2>1. KeptInv'
    <3>1. buckets' = buckets /\ taken' = taken
      BY <1>6, Zenon DEF OnWrite, Disconnect, Reconnect
    <3> QED
      BY <3>1 DEF KeptInv
  <2> QED
    BY <1>1, <1>6, <2>1, ConnectionMoves, Zenon
<1>7. CASE UNCHANGED <<buckets, work, connected, outgoing, writing, taken, gone>>
  <2>1. \A p \in Places : LinesAt(p)' = LinesAt(p)
    BY <1>7, Zenon DEF LinesAt
  <2>2. PlaceInv'
    <3>1. Fits'
      BY <1>7, <2>1, ZenonT(30) DEF PlaceInv, Fits
    <3>2. Alone'
      BY <1>7, <2>1 DEF PlaceInv, Alone
    <3>3. Found'
      BY <1>7, <2>1, Zenon DEF PlaceInv, Found
    <3> QED
      BY <3>1, <3>2, <3>3, Zenon DEF PlaceInv
  <2>3. KeptInv' /\ Silent'
    BY <1>7 DEF KeptInv, Silent
  <2> QED
    BY <1>1, <2>2, <2>3
<1> QED
    BY <1>2, <1>4, <1>5, <1>6, <1>7, Zenon DEF Next, Tick, vars, connVars

(* Every sample a Bucketizer took is in exactly one place and one line,    *)
(* under its own counter and interval: for any counters and agents, any    *)
(* overlap of the timer's and the admin's clearForward(), and connections  *)
(* that come and go in any order, nothing is sent twice and nothing is     *)
(* dropped but what a lost connection was writing or what found no usable  *)
(* connection.                                                             *)
THEOREM SamplesForwardedOnce == Spec => []ForwardedOnce
<1>1. SampleInv => ForwardedOnce
  <2> SUFFICES ASSUME SampleInv, NEW s \in DOMAIN taken
               PROVE  \E p \in Places : \E l \in LinesAt(p) :
                          /\ s \in l.samples
                          /\ l.ctr = taken[s].ctr /\ Down(l.time) = Down(taken[s].time)
                          /\ \A q \in Places : \A m \in LinesAt(q) :
                                s \in m.samples => q = p /\ m = l
    BY Zenon DEF ForwardedOnce
  <2>1. PICK p \in Places : \E l \in LinesAt(p) : s \in l.samples
    BY Zenon DEF SampleInv, PlaceInv, Found
  <2>2. PICK l \in LinesAt(p) : s \in l.samples
    BY <2>1
  <2> QED
    BY <2>2, SMTT(30) DEF SampleInv, PlaceInv, Fits, Alone
<1> QED
    BY <1>1, InitSamples, NextSamples, PTL DEF Spec

(* The types of Forwarding's state.                                        *)
THEOREM TypesKept == Spec => []TypeOK
<1>1. SampleInv => TypeOK
    BY DEF SampleInv
<1> QED
    BY <1>1, InitSamples, NextSamples, PTL DEF Spec

=============================================================================
