----------------------- MODULE EagerConnection_proofs -----------------------
(***************************************************************************)
(* Proofs about EagerConnection, for any buffer size, jitter and number of *)
(* faults, and for both users of the connection.                           *)
(***************************************************************************)
EXTENDS EagerConnection, SequenceTheorems, WellFoundedInduction, TLAPS

(* The inductive invariant.  Beside the properties themselves it says in   *)
(* which socket states an operation can be outstanding, and that a closed  *)
(* socket of an opened connection has a handler left that leads to a       *)
(* retry.                                                                  *)
Shape(c) ==
    /\ c.writePending <=> c.writeOp # "none"
    /\ c.readPending <=> c.readOp # "none"
    /\ c.tryingLater => c.due
    /\ c.due => c.connectOp # "pending" /\ c.sock \in {"closed", "failed"}
    /\ c.connectOp = "pending" => c.sock = "connecting"
    /\ c.connectOp = "err" => c.sock \in {"closed", "failed"}
    /\ c.sock = "closed" => c.readOp # "pending"
    /\ c.opened /\ c.sock = "closed" =>
           c.due \/ c.connectOp # "none" \/ c.readOp \in {"ok", "err"}

Carried(c, out) ==
    c.opened /\ out # <<>> =>
        \/ c.writePending \/ c.due \/ c.connectOp # "none"
        \/ c.sock = "closed" /\ c.readOp \in {"ok", "err"}

BackoffOK == backoff \in 1 .. 195 /\ good \in 1 .. 4 /\ (good = 4 => backoff = 1)

IInv == conn \in ConnStates /\ Shape(conn) /\ Carried(conn, outgoing) /\ BackoffOK

-----------------------------------------------------------------------------
(* The parts of the handlers, on any state of the connection.              *)

(* Closing the socket ends what is outstanding and touches no flag.        *)
LEMMA CloseSocketFields ==
    ASSUME NEW c \in ConnStates
    PROVE  LET d == CloseSocket(c)
           IN  /\ d \in ConnStates
               /\ d.sock = "closed"
               /\ d.connectOp = Ended(c.connectOp)
               /\ d.writeOp = Ended(c.writeOp)
               /\ d.readOp = Ended(c.readOp)
               /\ d.opened = c.opened /\ d.due = c.due /\ d.tryingLater = c.tryingLater
               /\ d.writePending = c.writePending /\ d.readPending = c.readPending
BY DEF CloseSocket, ConnStates, Ended, Ops

(* After tryLater() the retry is due; the socket and the operations are    *)
(* as before.                                                              *)
LEMMA TryLaterFields ==
    ASSUME NEW c \in ConnStates, c.tryingLater => c.due
    PROVE  LET d == TryLater(c)
           IN  /\ d \in ConnStates
               /\ d.tryingLater /\ d.due
               /\ d.sock = c.sock /\ d.opened = c.opened
               /\ d.connectOp = c.connectOp /\ d.writeOp = c.writeOp /\ d.readOp = c.readOp
               /\ d.writePending = c.writePending /\ d.readPending = c.readPending
<1>1. CASE c.tryingLater
  <2>1. TryLater(c) = c
    BY <1>1 DEF TryLater
  <2> QED
    BY <1>1, <2>1
<1>2. CASE ~(c.tryingLater)
  <2>1. TryLater(c) = [c EXCEPT !.tryingLater = TRUE, !.due = TRUE]
    BY <1>2 DEF TryLater
  <2> QED
    BY <1>2, <2>1 DEF ConnStates, Ops
<1> QED
    BY <1>1, <1>2

(* After startRead() a read is outstanding, pending only if the socket is  *)
(* not closed.                                                             *)
LEMMA StartReadFields ==
    ASSUME NEW c \in ConnStates, c.readPending <=> c.readOp # "none"
    PROVE  LET d == StartRead(c)
           IN  /\ d \in ConnStates
               /\ d.readPending /\ d.readOp # "none"
               /\ d.readOp = "pending" => c.readOp = "pending" \/ c.sock # "closed"
               /\ d.sock = c.sock /\ d.opened = c.opened
               /\ d.due = c.due /\ d.tryingLater = c.tryingLater
               /\ d.connectOp = c.connectOp /\ d.writeOp = c.writeOp
               /\ d.writePending = c.writePending
<1>1. CASE c.readPending
  <2>1. StartRead(c) = c
    BY <1>1 DEF StartRead
  <2> QED
    BY <1>1, <2>1
<1>2. CASE ~(c.readPending)
  <2>1. StartRead(c) = [c EXCEPT !.readPending = TRUE,
                                !.readOp = IF c.sock = "closed" THEN "err" ELSE "pending"]
    BY <1>2 DEF StartRead
  <2> QED
    BY <1>2, <2>1 DEF ConnStates, Ops
<1> QED
    BY <1>1, <1>2

(* The disconnect callback can only clear opened_.                         *)
LEMMA DisconnectFields ==
    ASSUME NEW c \in ConnStates
    PROVE  LET d == Disconnect(c)
           IN  /\ d \in ConnStates
               /\ d.opened => c.opened
               /\ d.sock = c.sock /\ d.due = c.due /\ d.tryingLater = c.tryingLater
               /\ d.connectOp = c.connectOp /\ d.writeOp = c.writeOp /\ d.readOp = c.readOp
               /\ d.writePending = c.writePending /\ d.readPending = c.readPending
<1>1. CASE ~CloseOnDisconnect
  <2>1. Disconnect(c) = c
    BY <1>1 DEF Disconnect
  <2> QED
    BY <1>1, <2>1
<1>2. CASE ~(~CloseOnDisconnect)
  <2>1. Disconnect(c) = [c EXCEPT !.opened = FALSE]
    BY <1>2 DEF Disconnect
  <2> QED
    BY <1>2, <2>1 DEF ConnStates, Ops
<1> QED
    BY <1>1, <1>2

(* Whatever ends with startWrite() leaves no output without a carrier.     *)
LEMMA StartWriteKeeps ==
    ASSUME NEW c \in ConnStates, NEW out, Shape(c), StartWrite(c, out)
    PROVE  conn' \in ConnStates /\ Shape(conn') /\ Carried(conn', outgoing')
<1>1. CASE c.sock # "closed" /\ out # <<>> /\ ~c.writePending /\ ~c.tryingLater
  <2>1. conn' = [c EXCEPT !.writePending = TRUE, !.writeOp = "pending"] /\ outgoing' = <<>>
    BY <1>1 DEF StartWrite
  <2>2. conn' \in ConnStates /\ conn'.writePending /\ conn'.writeOp = "pending"
        /\ conn'.sock = c.sock /\ conn'.opened = c.opened /\ conn'.due = c.due
        /\ conn'.tryingLater = c.tryingLater /\ conn'.connectOp = c.connectOp
        /\ conn'.readOp = c.readOp /\ conn'.readPending = c.readPending
    BY <2>1 DEF ConnStates, Ops
  <2> QED
    BY <2>1, <2>2 DEF Shape, Carried
<1>2. CASE ~(c.sock # "closed" /\ out # <<>> /\ ~c.writePending /\ ~c.tryingLater)
  <2>1. conn' = c /\ outgoing' = out
    BY <1>2 DEF StartWrite
  <2> QED
    BY <1>2, <2>1 DEF Shape, Carried
<1> QED
    BY <1>1, <1>2

(* The arithmetic of tryLater(): from any backoff in range the next one is *)
(* in range.                                                               *)
LEMMA BackoffStep ==
    ASSUME NEW b \in 1 .. 195, NEW n \in NextBackoffs(b)
    PROVE  n \in 1 .. 195
<1>1. Grown(b) \in 1 .. 180
  <2>1. ((b + 1) * 3) \div 2 \in Int /\ ((b + 1) * 3) \div 2 >= 1
    OBVIOUS
  <2> QED
    BY <2>1 DEF Grown
<1>2. PICK j \in (IF Grown(b) < 30 THEN Jitters ELSE BigJitters) : n = Grown(b) + j
    BY DEF NextBackoffs
<1>3. j \in 0 .. 15
    BY <1>2, EagerConnectionAssumption
<1> QED
    BY <1>1, <1>2, <1>3

(* tryLater() keeps backoff_ in range and starts the count of good writes  *)
(* again.                                                                  *)
LEMMA BackoffsKeep ==
    ASSUME BackoffOK, NEW c, backoff' \in Backoffs(c), good' = 1
    PROVE  BackoffOK'
BY BackoffStep DEF BackoffOK, Backoffs

-----------------------------------------------------------------------------
(* open(dest) leaves the connection in a state of the invariant.           *)
LEMMA InitIInv == Init => IInv
<1> SUFFICES ASSUME Init PROVE IInv
    OBVIOUS
<1>1. conn \in ConnStates
    BY EagerConnectionAssumption DEF Init, ConnStates, Ops
<1> QED
    BY <1>1 DEF Init, IInv, Shape, Carried, BackoffOK

(* The retry, by open() or by the timer, whose name resolves.              *)
LEMMA ResolveIInv == ASSUME IInv, Resolve PROVE IInv'
<1>1. /\ conn' \in ConnStates /\ ~conn'.due /\ ~conn'.tryingLater
      /\ conn'.sock = "connecting" /\ conn'.connectOp = "pending"
      /\ conn'.opened = conn.opened
      /\ conn'.writeOp = conn.writeOp /\ conn'.readOp = conn.readOp
      /\ conn'.writePending = conn.writePending /\ conn'.readPending = conn.readPending
    BY DEF IInv, Resolve, ConnStates, Ops
<1> QED
    BY <1>1 DEF IInv, Resolve, Shape, Carried, BackoffOK, buffers

(* The retry whose name does not resolve: tryLater() again.                *)
LEMMA ResolveFailsIInv == ASSUME IInv, ResolveFails PROVE IInv'
<1> DEFINE c == [conn EXCEPT !.due = FALSE, !.tryingLater = FALSE]
<1>1. /\ c \in ConnStates /\ ~c.tryingLater
      /\ c.sock = conn.sock /\ c.connectOp = conn.connectOp /\ c.opened = conn.opened
      /\ c.writeOp = conn.writeOp /\ c.readOp = conn.readOp
      /\ c.writePending = conn.writePending /\ c.readPending = conn.readPending
    BY DEF IInv, ConnStates, Ops
<1>2. conn' = TryLater(c) /\ backoff' \in Backoffs(c) /\ good' = 1 /\ outgoing' = outgoing
    BY DEF ResolveFails, buffers
<1>3. BackoffOK'
    BY <1>2, BackoffsKeep DEF IInv
<1>4. conn.due
    BY DEF ResolveFails, ResolveNow
<1> HIDE DEF c
<1>5. conn' \in ConnStates /\ Shape(conn') /\ Carried(conn', outgoing')
    BY <1>1, <1>2, <1>4, TryLaterFields DEF IInv, Shape, Carried
<1> QED
    BY <1>3, <1>5 DEF IInv

(* The read that the agent starts right after open().                      *)
LEMMA CallerStartsReadIInv == ASSUME IInv, CallerStartsRead PROVE IInv'
<1> DEFINE c == [conn EXCEPT !.earlyRead = FALSE]
<1>1. /\ c \in ConnStates
      /\ c.sock = conn.sock /\ c.connectOp = conn.connectOp /\ c.opened = conn.opened
      /\ c.due = conn.due /\ c.tryingLater = conn.tryingLater
      /\ c.writeOp = conn.writeOp /\ c.readOp = conn.readOp
      /\ c.writePending = conn.writePending /\ c.readPending = conn.readPending
    BY DEF IInv, ConnStates, Ops
<1>2. conn' = StartRead(c) /\ outgoing' = outgoing /\ backoff' = backoff /\ good' = good
    BY DEF CallerStartsRead, buffers
<1> HIDE DEF c
<1>3. c.readPending <=> c.readOp # "none"
    BY <1>1 DEF IInv, Shape
<1>4. conn' \in ConnStates /\ conn'.readOp \in Ops
    BY <1>1, <1>2, <1>3, StartReadFields DEF ConnStates
<1>5. Shape(conn') /\ Carried(conn', outgoing')
    BY <1>1, <1>2, <1>3, <1>4, StartReadFields DEF IInv, Shape, Carried, Ops
<1> QED
    BY <1>2, <1>4, <1>5 DEF IInv, BackoffOK

(* writeOut(): the chunk is carried by whatever startWrite() left.         *)
LEMMA WriteOutIInv == ASSUME IInv, WriteOut PROVE IInv'
<1>1. conn' \in ConnStates /\ Shape(conn') /\ Carried(conn', outgoing')
    BY StartWriteKeeps DEF IInv, WriteOut
<1> QED
    BY <1>1 DEF IInv, WriteOut, BackoffOK

(* on_connect(): the reader is started and the output is written.          *)
LEMMA OnConnectOkIInv == ASSUME IInv, OnConnectOk PROVE IInv'
<1> DEFINE b == [conn EXCEPT !.connectOp = "none"]
           c == StartRead(b)
<1>1. /\ b \in ConnStates /\ b.connectOp = "none"
      /\ b.sock = conn.sock /\ b.opened = conn.opened
      /\ b.due = conn.due /\ b.tryingLater = conn.tryingLater
      /\ b.writeOp = conn.writeOp /\ b.readOp = conn.readOp
      /\ b.writePending = conn.writePending /\ b.readPending = conn.readPending
    BY DEF IInv, ConnStates, Ops
<1>2. StartWrite(c, (IF HasInitialData THEN <<0>> ELSE <<>>) \o outgoing)
      /\ backoff' = backoff /\ good' = good
    BY DEF OnConnectOk
<1> HIDE DEF b
<1>3. b.readPending <=> b.readOp # "none"
    BY <1>1 DEF IInv, Shape
<1>4. c \in ConnStates /\ c.readOp \in Ops
    BY <1>1, <1>3, StartReadFields DEF ConnStates
<1>5. Shape(c)
    BY <1>1, <1>3, <1>4, StartReadFields DEF IInv, Shape, Ops
<1> HIDE DEF c
<1>6. conn' \in ConnStates /\ Shape(conn') /\ Carried(conn', outgoing')
    BY <1>2, <1>4, <1>5, StartWriteKeeps
<1> QED
    BY <1>2, <1>6 DEF IInv, BackoffOK

(* on_connect() with an error: tryLater().                                 *)
LEMMA OnConnectErrIInv == ASSUME IInv, OnConnectErr PROVE IInv'
<1> DEFINE c == [conn EXCEPT !.connectOp = "none"]
<1>1. /\ c \in ConnStates /\ c.connectOp = "none"
      /\ c.sock = conn.sock /\ c.opened = conn.opened
      /\ c.due = conn.due /\ c.tryingLater = conn.tryingLater
      /\ c.writeOp = conn.writeOp /\ c.readOp = conn.readOp
      /\ c.writePending = conn.writePending /\ c.readPending = conn.readPending
    BY DEF IInv, ConnStates, Ops
<1>2. conn' = TryLater(c) /\ backoff' \in Backoffs(c) /\ good' = 1 /\ outgoing' = outgoing
      /\ conn.connectOp = "err"
    BY DEF OnConnectErr, buffers
<1>3. BackoffOK'
    BY <1>2, BackoffsKeep DEF IInv
<1> HIDE DEF c
<1>4. conn' \in ConnStates /\ Shape(conn') /\ Carried(conn', outgoing')
    BY <1>1, <1>2, TryLaterFields DEF IInv, Shape, Carried
<1> QED
    BY <1>3, <1>4 DEF IInv

(* on_write(): the output that arrived during the write is written next.   *)
LEMMA OnWriteOkIInv == ASSUME IInv, OnWriteOk PROVE IInv'
<1> DEFINE c == [conn EXCEPT !.writeOp = "none", !.writePending = FALSE]
<1>1. /\ c \in ConnStates /\ c.writeOp = "none" /\ ~c.writePending
      /\ c.sock = conn.sock /\ c.connectOp = conn.connectOp /\ c.opened = conn.opened
      /\ c.due = conn.due /\ c.tryingLater = conn.tryingLater
      /\ c.readOp = conn.readOp /\ c.readPending = conn.readPending
    BY DEF IInv, ConnStates, Ops
<1>2. StartWrite(c, outgoing)
    BY DEF OnWriteOk
<1>3. BackoffOK'
    BY DEF IInv, OnWriteOk, BackoffOK
<1> HIDE DEF c
<1>4. Shape(c)
    BY <1>1 DEF IInv, Shape
<1>5. conn' \in ConnStates /\ Shape(conn') /\ Carried(conn', outgoing')
    BY <1>1, <1>2, <1>4, StartWriteKeeps
<1> QED
    BY <1>3, <1>5 DEF IInv

(* on_write() with an error: the socket is closed and a retry is due.      *)
LEMMA OnWriteErrIInv == ASSUME IInv, OnWriteErr PROVE IInv'
<1> DEFINE a == [conn EXCEPT !.writeOp = "none", !.writePending = FALSE]
           b == CloseSocket(a)
           c == Disconnect(b)
<1>1. /\ a \in ConnStates /\ a.writeOp = "none" /\ ~a.writePending
      /\ a.connectOp = conn.connectOp /\ a.readOp = conn.readOp
      /\ a.due = conn.due /\ a.tryingLater = conn.tryingLater
      /\ a.readPending = conn.readPending
    BY DEF IInv, ConnStates, Ops
<1>2. conn' = TryLater(c) /\ backoff' \in Backoffs(c) /\ good' = 1
    BY DEF OnWriteErr
<1>3. BackoffOK'
    BY <1>2, BackoffsKeep DEF IInv
<1> HIDE DEF a
<1>4. /\ b \in ConnStates /\ b.sock = "closed" /\ b.writeOp = "none" /\ ~b.writePending
      /\ b.connectOp = Ended(conn.connectOp) /\ b.readOp = Ended(conn.readOp)
      /\ b.due = conn.due /\ b.tryingLater = conn.tryingLater
      /\ b.readPending = conn.readPending
    BY <1>1, CloseSocketFields DEF Ended
<1> HIDE DEF b
<1>5. /\ c \in ConnStates /\ c.sock = "closed" /\ c.writeOp = "none" /\ ~c.writePending
      /\ c.connectOp = Ended(conn.connectOp) /\ c.readOp = Ended(conn.readOp)
      /\ c.due = conn.due /\ c.tryingLater = conn.tryingLater
      /\ c.readPending = conn.readPending
    BY <1>4, DisconnectFields
<1> HIDE DEF c
<1>6. conn' \in ConnStates /\ Shape(conn') /\ Carried(conn', outgoing')
    BY <1>2, <1>5, TryLaterFields DEF IInv, Shape, Carried, Ended
<1> QED
    BY <1>3, <1>6 DEF IInv

(* on_read(): the next read is started.                                    *)
LEMMA OnReadOkIInv == ASSUME IInv, OnReadOk PROVE IInv'
<1> DEFINE c == [conn EXCEPT !.readOp = "none", !.readPending = FALSE]
<1>1. /\ c \in ConnStates /\ c.readOp = "none" /\ ~c.readPending
      /\ c.sock = conn.sock /\ c.connectOp = conn.connectOp /\ c.opened = conn.opened
      /\ c.due = conn.due /\ c.tryingLater = conn.tryingLater
      /\ c.writeOp = conn.writeOp /\ c.writePending = conn.writePending
    BY DEF IInv, ConnStates, Ops
<1>2. conn' = StartRead(c) /\ outgoing' = outgoing /\ backoff' = backoff /\ good' = good
    BY DEF OnReadOk, buffers
<1> HIDE DEF c
<1>3. conn' \in ConnStates /\ conn'.readOp \in Ops
    BY <1>1, <1>2, StartReadFields DEF ConnStates
<1>4. Shape(conn') /\ Carried(conn', outgoing')
    BY <1>1, <1>2, <1>3, StartReadFields DEF IInv, Shape, Carried, Ops
<1> QED
    BY <1>2, <1>3, <1>4 DEF IInv, BackoffOK

(* on_read() with an error: a retry is due, unless the connection was      *)
(* closed.                                                                 *)
LEMMA OnReadErrIInv == ASSUME IInv, OnReadErr PROVE IInv'
<1> DEFINE a == [conn EXCEPT !.readOp = "none", !.readPending = FALSE]
           b == CloseSocket(a)
           c == Disconnect(b)
<1>1. /\ a \in ConnStates /\ a.readOp = "none" /\ ~a.readPending
      /\ a.connectOp = conn.connectOp /\ a.writeOp = conn.writeOp
      /\ a.due = conn.due /\ a.tryingLater = conn.tryingLater
      /\ a.writePending = conn.writePending
    BY DEF IInv, ConnStates, Ops
<1> HIDE DEF a
<1>2. /\ b \in ConnStates /\ b.sock = "closed" /\ b.readOp = "none" /\ ~b.readPending
      /\ b.connectOp = Ended(conn.connectOp) /\ b.writeOp = Ended(conn.writeOp)
      /\ b.due = conn.due /\ b.tryingLater = conn.tryingLater
      /\ b.writePending = conn.writePending
    BY <1>1, CloseSocketFields DEF Ended
<1> HIDE DEF b
<1>3. /\ c \in ConnStates /\ c.sock = "closed" /\ c.readOp = "none" /\ ~c.readPending
      /\ c.connectOp = Ended(conn.connectOp) /\ c.writeOp = Ended(conn.writeOp)
      /\ c.due = conn.due /\ c.tryingLater = conn.tryingLater
      /\ c.writePending = conn.writePending
    BY <1>2, DisconnectFields
<1>4. IF c.opened
      THEN conn' = TryLater(c) /\ backoff' \in Backoffs(c) /\ good' = 1
      ELSE conn' = c /\ backoff' = backoff /\ good' = good
    BY DEF OnReadErr, a, b
<1> HIDE DEF c
<1>5. CASE c.opened
  <2>1. BackoffOK'
    BY <1>4, <1>5, BackoffsKeep DEF IInv
  <2>2. conn' \in ConnStates /\ Shape(conn') /\ Carried(conn', outgoing')
    BY <1>3, <1>4, <1>5, TryLaterFields DEF IInv, Shape, Carried, Ended
  <2> QED
    BY <2>1, <2>2 DEF IInv
<1>6. CASE ~c.opened
  <2>1. conn' \in ConnStates /\ Shape(conn') /\ Carried(conn', outgoing')
    BY <1>3, <1>4, <1>6 DEF IInv, Shape, Carried, Ended
  <2> QED
    BY <1>4, <1>6, <2>1 DEF IInv, BackoffOK
<1> QED
    BY <1>5, <1>6

(* What the kernel and the peer do to an operation or to the socket.       *)
LEMMA NetworkIInv ==
    ASSUME IInv,
           \/ ConnectEnds \/ ConnectFails \/ PeerLost
           \/ WriteEnds \/ WriteFails \/ ReadEnds \/ ReadFails
    PROVE  IInv'
<1>1. CASE ConnectEnds
  <2>1. /\ conn' \in ConnStates /\ conn'.connectOp = "ok" /\ conn'.sock = "up"
        /\ conn'.opened = conn.opened /\ conn'.due = conn.due /\ conn'.tryingLater = conn.tryingLater
        /\ conn'.writeOp = conn.writeOp /\ conn'.readOp = conn.readOp /\ conn'.writePending = conn.writePending
        /\ conn'.readPending = conn.readPending
    BY <1>1 DEF IInv, ConnectEnds, ConnStates, Ops
  <2> QED
    BY <1>1, <2>1 DEF IInv, ConnectEnds, Shape, Carried, BackoffOK, buffers
<1>2. CASE ConnectFails
  <2>1. /\ conn' \in ConnStates /\ conn'.connectOp = "err" /\ conn'.sock = "failed"
        /\ conn'.opened = conn.opened /\ conn'.due = conn.due /\ conn'.tryingLater = conn.tryingLater
        /\ conn'.writeOp = conn.writeOp /\ conn'.readOp = conn.readOp /\ conn'.writePending = conn.writePending
        /\ conn'.readPending = conn.readPending
    BY <1>2 DEF IInv, ConnectFails, ConnStates, Ops
  <2> QED
    BY <1>2, <2>1 DEF IInv, ConnectFails, Shape, Carried, BackoffOK, buffers
<1>3. CASE PeerLost
  <2>1. /\ conn' \in ConnStates /\ conn'.sock = "lost"
        /\ conn'.opened = conn.opened /\ conn'.due = conn.due /\ conn'.tryingLater = conn.tryingLater
        /\ conn'.connectOp = conn.connectOp /\ conn'.writeOp = conn.writeOp /\ conn'.readOp = conn.readOp
        /\ conn'.writePending = conn.writePending /\ conn'.readPending = conn.readPending
    BY <1>3 DEF IInv, PeerLost, ConnStates, Ops
  <2> QED
    BY <1>3, <2>1 DEF IInv, PeerLost, Shape, Carried, BackoffOK, buffers
<1>4. CASE WriteEnds
  <2>1. /\ conn' \in ConnStates /\ conn'.writeOp = "ok"
        /\ conn'.opened = conn.opened /\ conn'.due = conn.due /\ conn'.tryingLater = conn.tryingLater
        /\ conn'.sock = conn.sock /\ conn'.connectOp = conn.connectOp /\ conn'.readOp = conn.readOp
        /\ conn'.writePending = conn.writePending /\ conn'.readPending = conn.readPending
    BY <1>4 DEF IInv, WriteEnds, ConnStates, Ops
  <2> QED
    BY <1>4, <2>1 DEF IInv, WriteEnds, Shape, Carried, BackoffOK, buffers
<1>5. CASE WriteFails
  <2>1. /\ conn' \in ConnStates /\ conn'.writeOp = "err"
        /\ conn'.opened = conn.opened /\ conn'.due = conn.due /\ conn'.tryingLater = conn.tryingLater
        /\ conn'.sock = conn.sock /\ conn'.connectOp = conn.connectOp /\ conn'.readOp = conn.readOp
        /\ conn'.writePending = conn.writePending /\ conn'.readPending = conn.readPending
    BY <1>5 DEF IInv, WriteFails, ConnStates, Ops
  <2> QED
    BY <1>5, <2>1 DEF IInv, WriteFails, Shape, Carried, BackoffOK, buffers
<1>6. CASE ReadEnds
  <2>1. /\ conn' \in ConnStates /\ conn'.readOp = "ok"
        /\ conn'.opened = conn.opened /\ conn'.due = conn.due /\ conn'.tryingLater = conn.tryingLater
        /\ conn'.sock = conn.sock /\ conn'.connectOp = conn.connectOp /\ conn'.writeOp = conn.writeOp
        /\ conn'.writePending = conn.writePending /\ conn'.readPending = conn.readPending
    BY <1>6 DEF IInv, ReadEnds, ConnStates, Ops
  <2> QED
    BY <1>6, <2>1 DEF IInv, ReadEnds, Shape, Carried, BackoffOK, buffers
<1>7. CASE ReadFails
  <2>1. /\ conn' \in ConnStates /\ conn'.readOp = "err"
        /\ conn'.opened = conn.opened /\ conn'.due = conn.due /\ conn'.tryingLater = conn.tryingLater
        /\ conn'.sock = conn.sock /\ conn'.connectOp = conn.connectOp /\ conn'.writeOp = conn.writeOp
        /\ conn'.writePending = conn.writePending /\ conn'.readPending = conn.readPending
    BY <1>7 DEF IInv, ReadFails, ConnStates, Ops
  <2> QED
    BY <1>7, <2>1 DEF IInv, ReadFails, Shape, Carried, BackoffOK, buffers
<1> QED
    BY <1>1, <1>2, <1>3, <1>4, <1>5, <1>6, <1>7

(* Every step keeps the invariant.                                         *)
LEMMA NextIInv == IInv /\ [Next]_vars => IInv'
<1> SUFFICES ASSUME IInv, [Next]_vars PROVE IInv'
    OBVIOUS
<1>1. CASE UNCHANGED vars
    BY <1>1 DEF vars, IInv, BackoffOK
<1>2. CASE Handler
    BY <1>2, OnConnectOkIInv, OnConnectErrIInv, OnWriteOkIInv, OnWriteErrIInv,
       OnReadOkIInv, OnReadErrIInv DEF Handler
<1> QED
    BY <1>1, <1>2, ResolveIInv, ResolveFailsIInv, CallerStartsReadIInv, WriteOutIInv,
       NetworkIInv DEF Next

(* The pending flags are exact, there is one connect attempt at a time and *)
(* output never waits for nobody: in every reachable state of              *)
(* EagerConnection, for either user of it and any number of faults.        *)
THEOREM ConnectionSound == Spec => [](FlagsExact /\ OneAttempt /\ OutputHasACarrier)
<1>1. IInv => FlagsExact /\ OneAttempt /\ OutputHasACarrier
    BY DEF IInv, Shape, Carried, FlagsExact, OneAttempt, OutputHasACarrier
<1> QED
    BY <1>1, InitIInv, NextIInv, PTL DEF Spec

(* backoff_ never exceeds 195 seconds, the cap of 180 and the largest      *)
(* rand() & 15, after any number of failures, and                          *)
(* successfulWritesDuringBackoff_ stays in 1 .. 4.                         *)
THEOREM BackoffBounded == Spec => [](backoff \in 1 .. 195 /\ good \in 1 .. 4)
<1>1. IInv => backoff \in 1 .. 195 /\ good \in 1 .. 4
    BY DEF IInv, BackoffOK
<1> QED
    BY <1>1, InitIInv, NextIInv, PTL DEF Spec

-----------------------------------------------------------------------------
(* The order of the output.  SentInOrder is not inductive: what is sent    *)
(* next comes from the write buffer and then from the output, so each of   *)
(* the three is in order and stands wholly before the next.  The write     *)
(* buffer counts only while its write is pending: afterwards its chunks    *)
(* have been sent, or lost with the connection.                            *)

(* A set of naturals that is not empty has a least element, which is what  *)
(* the CHOOSE of Pruned picks.                                             *)
LEMMA LeastNat ==
    ASSUME NEW T \in SUBSET Nat, T # {}
    PROVE  \E x \in T : \A y \in T : x <= y
<1> DEFINE R == {ss \in Nat \X Nat : ss[1] < ss[2]}
<1>1. IsWellFoundedOn(R, Nat)
    BY NatLessThanWellFounded DEF OpToRel
<1>2. \A x, y \in Nat : y < x => <<y, x>> \in R
    OBVIOUS
<1> HIDE DEF R
<1>3. PICK x \in T : \A y \in T : ~ (<<y, x>> \in R)
    BY <1>1, WFMin
<1>4. ASSUME NEW y \in T, y < x PROVE FALSE
    BY <1>2, <1>3, <1>4
<1> QED
    BY <1>4

Before(s, t) ==
    \A i \in DOMAIN s, k \in DOMAIN t : s[i] # 0 /\ t[k] # 0 => s[i] < t[k]

Chunks(n) == Seq(0 .. n)

OrderInv ==
    /\ chunks \in Nat
    /\ sent \in Chunks(chunks) /\ outgoing \in Chunks(chunks) /\ writeBuf \in Chunks(chunks)
    /\ Increasing(sent) /\ Increasing(outgoing) /\ Before(sent, outgoing)
    /\ conn.writeOp = "pending" =>
           Increasing(writeBuf) /\ Before(sent, writeBuf) /\ Before(writeBuf, outgoing)

(* Two ordered sequences, one before the other, make an ordered sequence.  *)
LEMMA ConcatOrdered ==
    ASSUME NEW n \in Nat, NEW s \in Chunks(n), NEW t \in Chunks(n),
           Increasing(s), Increasing(t), Before(s, t)
    PROVE  s \o t \in Chunks(n) /\ Increasing(s \o t)
<1> DEFINE u == s \o t
<1>1. u \in Chunks(n) /\ DOMAIN u = 1 .. Len(s) + Len(t)
    BY DEF Chunks
<1>2. \A i \in 1 .. Len(s) + Len(t) : u[i] = IF i <= Len(s) THEN s[i] ELSE t[i - Len(s)]
    BY ConcatProperties DEF Chunks
<1>3. /\ DOMAIN s = 1 .. Len(s) /\ Len(s) \in Nat /\ \A i \in 1 .. Len(s) : s[i] \in 0 .. n
      /\ DOMAIN t = 1 .. Len(t) /\ Len(t) \in Nat /\ \A i \in 1 .. Len(t) : t[i] \in 0 .. n
    BY DEF Chunks
<1> HIDE DEF u
<1>4. ASSUME NEW i \in DOMAIN u, NEW k \in DOMAIN u, i < k, u[i] # 0, u[k] # 0
      PROVE  u[i] < u[k]
  <2>1. CASE k <= Len(s)
    BY <1>1, <1>2, <1>3, <1>4, <2>1 DEF Increasing
  <2>2. CASE i <= Len(s) /\ k > Len(s)
    <3>1. /\ i \in DOMAIN s /\ u[i] = s[i]
          /\ k - Len(s) \in DOMAIN t /\ u[k] = t[k - Len(s)]
      BY <1>1, <1>2, <1>3, <2>2
    <3> QED
      BY <1>4, <3>1 DEF Before
  <2>3. CASE i > Len(s)
    <3>1. /\ i - Len(s) \in DOMAIN t /\ u[i] = t[i - Len(s)]
          /\ k - Len(s) \in DOMAIN t /\ u[k] = t[k - Len(s)]
          /\ i - Len(s) < k - Len(s)
      BY <1>1, <1>2, <1>3, <1>4, <2>3
    <3> QED
      BY <1>4, <3>1 DEF Increasing
  <2> QED
    BY <1>1, <1>3, <1>4, <2>1, <2>2, <2>3
<1>5. Increasing(u)
    BY <1>4 DEF Increasing
<1> QED
    BY <1>1, <1>5 DEF u

(* An item of a concatenation is an item of one of its parts.              *)
LEMMA ConcatItems ==
    ASSUME NEW n \in Nat, NEW s \in Chunks(n), NEW t \in Chunks(n), NEW i \in DOMAIN (s \o t)
    PROVE  (\E k \in DOMAIN s : (s \o t)[i] = s[k]) \/ (\E k \in DOMAIN t : (s \o t)[i] = t[k])
<1>1. DOMAIN (s \o t) = 1 .. Len(s) + Len(t) /\ DOMAIN s = 1 .. Len(s)
      /\ DOMAIN t = 1 .. Len(t) /\ Len(s) \in Nat /\ Len(t) \in Nat
    BY DEF Chunks
<1>2. (s \o t)[i] = IF i <= Len(s) THEN s[i] ELSE t[i - Len(s)]
    BY <1>1, ConcatProperties DEF Chunks
<1> QED
    BY <1>1, <1>2

(* What comes after both parts comes after the whole.                      *)
LEMMA ConcatBefore ==
    ASSUME NEW n \in Nat, NEW s \in Chunks(n), NEW t \in Chunks(n), NEW u \in Chunks(n),
           Before(s, u), Before(t, u)
    PROVE  Before(s \o t, u)
<1> SUFFICES ASSUME NEW i \in DOMAIN (s \o t), NEW k \in DOMAIN u, (s \o t)[i] # 0, u[k] # 0
             PROVE  (s \o t)[i] < u[k]
    BY DEF Before
<1>1. (\E j \in DOMAIN s : (s \o t)[i] = s[j]) \/ (\E j \in DOMAIN t : (s \o t)[i] = t[j])
    BY ConcatItems
<1> QED
    BY <1>1 DEF Before

(* A step that leaves the output alone and starts no write.                *)
LEMMA OrderKept ==
    ASSUME OrderInv, UNCHANGED <<outgoing, writeBuf, sent, chunks>>,
           conn'.writeOp = "pending" => conn.writeOp = "pending"
    PROVE  OrderInv'
BY DEF OrderInv, Increasing, Before, Chunks

(* startWrite() with output that is in order behind what has been sent:    *)
(* it takes the write buffer only when no write is outstanding.            *)
LEMMA StartWriteOrder ==
    ASSUME NEW c \in ConnStates, NEW out, StartWrite(c, out),
           c.writePending <=> c.writeOp # "none",
           chunks' \in Nat, UNCHANGED sent,
           sent \in Chunks(chunks'), writeBuf \in Chunks(chunks'), out \in Chunks(chunks'),
           Increasing(sent), Increasing(out), Before(sent, out),
           c.writeOp = "pending" =>
               Increasing(writeBuf) /\ Before(sent, writeBuf) /\ Before(writeBuf, out)
    PROVE  OrderInv'
<1>1. CASE c.sock # "closed" /\ out # <<>> /\ ~c.writePending /\ ~c.tryingLater
  <2>1. writeBuf' = out /\ outgoing' = <<>>
    BY <1>1 DEF StartWrite
  <2>2. <<>> \in Chunks(chunks') /\ Increasing(<<>>)
    BY DEF Chunks, Increasing
  <2>3. Before(sent, <<>>) /\ Before(out, <<>>)
    BY DEF Before
  <2> QED
    BY <2>1, <2>2, <2>3 DEF OrderInv, Increasing, Before
<1>2. CASE ~(c.sock # "closed" /\ out # <<>> /\ ~c.writePending /\ ~c.tryingLater)
  <2>1. conn' = c /\ outgoing' = out /\ writeBuf' = writeBuf
    BY <1>2 DEF StartWrite
  <2> QED
    BY <2>1 DEF OrderInv, Increasing, Before
<1> QED
    BY <1>1, <1>2

(* Pruning drops a prefix of the output, up to a chunk that ends a line.   *)
LEMMA PrunedOrder ==
    ASSUME OrderInv
    PROVE  /\ Pruned \in Chunks(chunks) /\ Increasing(Pruned) /\ Before(sent, Pruned)
           /\ Before(writeBuf, outgoing) => Before(writeBuf, Pruned)
<1>1. CASE Pruned = outgoing
    BY <1>1 DEF OrderInv
<1>2. CASE Pruned = <<>>
    BY <1>2 DEF Chunks, Increasing, Before
<1>3. CASE ~(Len(outgoing) <= MaxBuffer) /\ CutPoints # {}
  <2> DEFINE cut == CHOOSE i \in CutPoints : \A k \in CutPoints : i <= k
  <2>1. Pruned = SubSeq(outgoing, cut + 1, Len(outgoing))
    BY <1>3 DEF Pruned
  <2>2. cut \in 0 .. Len(outgoing)
    <3>1. CutPoints \in SUBSET (1 .. Len(outgoing)) /\ Len(outgoing) \in Nat
      BY EagerConnectionAssumption DEF CutPoints, OrderInv, Chunks
    <3>2. \E i \in CutPoints : \A k \in CutPoints : i <= k
      BY <1>3, <3>1, LeastNat
    <3>3. cut \in CutPoints
      BY <3>2
    <3> HIDE DEF cut
    <3> QED
      BY <3>1, <3>3
  <2> HIDE DEF cut
  <2>3. Len(outgoing) \in Nat /\ DOMAIN outgoing = 1 .. Len(outgoing)
        /\ \A i \in 1 .. Len(outgoing) : outgoing[i] \in 0 .. chunks
    BY DEF OrderInv, Chunks
  <2>4. /\ Pruned \in Seq(0 .. chunks)
        /\ DOMAIN Pruned = 1 .. Len(outgoing) - cut
        /\ \A i \in 1 .. Len(outgoing) - cut : Pruned[i] = outgoing[cut + i]
    <3>1. \A i \in cut + 1 .. Len(outgoing) : outgoing[i] \in 0 .. chunks
      BY <2>2, <2>3
    <3>2. Pruned \in Seq(0 .. chunks)
      BY <2>1, <2>2, <2>3, <3>1, SubSeqProperties
    <3>3. Len(Pruned) = IF cut + 1 <= Len(outgoing) THEN Len(outgoing) - (cut + 1) + 1 ELSE 0
      BY <2>1, <2>2, <2>3, <3>1, SubSeqProperties
    <3>4. ASSUME NEW i \in 1 .. Len(outgoing) - cut
          PROVE  Pruned[i] = outgoing[cut + i]
      <4>1. i \in 1 .. Len(outgoing) - (cut + 1) + 1 /\ cut + 1 + i - 1 = cut + i
        BY <2>2, <2>3
      <4> QED
        BY <2>1, <2>2, <2>3, <3>1, <4>1, SubSeqProperties
    <3> HIDE DEF Pruned
    <3>5. DOMAIN Pruned = 1 .. Len(Pruned)
      BY <3>2, LenProperties
    <3>6. Len(Pruned) = Len(outgoing) - cut
      <4>1. cut \in Int /\ Len(outgoing) \in Int /\ cut <= Len(outgoing)
        BY <2>2, <2>3
      <4>2. CASE cut + 1 <= Len(outgoing)
        BY <3>3, <4>1, <4>2
      <4>3. CASE cut = Len(outgoing)
        BY <3>3, <4>1, <4>3
      <4> QED
        BY <4>1, <4>2, <4>3
    <3> QED
      BY <3>2, <3>4, <3>5, <3>6
  <2>5. \A i \in DOMAIN Pruned : cut + i \in DOMAIN outgoing /\ Pruned[i] = outgoing[cut + i]
    BY <2>2, <2>3, <2>4
  <2> HIDE DEF Pruned
  <2>6. Increasing(Pruned)
    BY <2>2, <2>4, <2>5 DEF OrderInv, Increasing
  <2> QED
    BY <2>4, <2>5, <2>6 DEF OrderInv, Chunks, Before
<1> QED
    BY <1>1, <1>2, <1>3 DEF Pruned

(* The chunk writeOut() takes is newer than every other.                   *)
LEMMA WriteOutOrder == ASSUME IInv, OrderInv, WriteOut PROVE OrderInv'
<1> DEFINE out == Append(Pruned, chunks + 1)
<1>1. StartWrite(conn, out) /\ chunks' = chunks + 1 /\ sent' = sent
    BY DEF WriteOut
<1>2. /\ Pruned \in Chunks(chunks) /\ Increasing(Pruned) /\ Before(sent, Pruned)
      /\ Before(writeBuf, outgoing) => Before(writeBuf, Pruned)
    BY PrunedOrder
<1> HIDE DEF Pruned
<1>3. /\ sent \in Chunks(chunks + 1) /\ writeBuf \in Chunks(chunks + 1)
      /\ out \in Chunks(chunks + 1)
    BY <1>2 DEF OrderInv, Chunks
<1>4. DOMAIN out = 1 .. Len(Pruned) + 1 /\ DOMAIN Pruned = 1 .. Len(Pruned)
      /\ Len(Pruned) \in Nat /\ out[Len(Pruned) + 1] = chunks + 1
      /\ \A i \in 1 .. Len(Pruned) : out[i] = Pruned[i] /\ Pruned[i] \in 0 .. chunks
    BY <1>2 DEF OrderInv, Chunks
<1> HIDE DEF out
<1>5. ASSUME NEW s \in Chunks(chunks), Before(s, Pruned)
      PROVE  Before(s, out)
  <2>1. \A i \in DOMAIN s : s[i] \in 0 .. chunks
    BY LenProperties, ElementOfSeq DEF Chunks
  <2> QED
    BY <1>4, <1>5, <2>1 DEF OrderInv, Before
<1>6. Increasing(out)
    BY <1>2, <1>4 DEF OrderInv, Increasing
<1> QED
    BY <1>1, <1>2, <1>3, <1>5, <1>6, StartWriteOrder DEF IInv, Shape, OrderInv

(* on_connect(): the initial data goes before the output.                  *)
LEMMA OnConnectOkOrder == ASSUME IInv, OrderInv, OnConnectOk PROVE OrderInv'
<1> DEFINE b == [conn EXCEPT !.connectOp = "none"]
           first == IF HasInitialData THEN <<0>> ELSE <<>>
           out == first \o outgoing
<1>1. b \in ConnStates /\ b.writeOp = conn.writeOp /\ b.writePending = conn.writePending
      /\ b.readOp = conn.readOp /\ b.readPending = conn.readPending
    BY DEF IInv, ConnStates, Ops
<1>2. StartWrite(StartRead(b), out) /\ sent' = sent /\ chunks' = chunks
    BY DEF OnConnectOk
<1> HIDE DEF b
<1>3. StartRead(b) \in ConnStates /\ StartRead(b).writeOp = conn.writeOp
      /\ StartRead(b).writePending = conn.writePending
    BY <1>1, StartReadFields DEF IInv, Shape
<1>4. first \in Chunks(chunks) /\ \A i \in DOMAIN first : first[i] = 0
  <2>1. <<0>> \in Chunks(chunks) /\ DOMAIN <<0>> = {1} /\ <<0>>[1] = 0
    BY DEF OrderInv, Chunks
  <2>2. <<>> \in Chunks(chunks) /\ DOMAIN <<>> = {}
    BY DEF Chunks
  <2> QED
    BY <2>1, <2>2
<1> HIDE DEF first
<1>5. Increasing(first) /\ Before(first, outgoing)
    BY <1>4 DEF Increasing, Before
<1>6. out \in Chunks(chunks) /\ Increasing(out)
    BY <1>4, <1>5, ConcatOrdered DEF OrderInv
<1>7. ASSUME NEW s, Before(s, outgoing)
      PROVE  Before(s, out)
  <2>1. \A i \in DOMAIN out : out[i] = 0 \/ \E k \in DOMAIN outgoing : out[i] = outgoing[k]
    BY <1>4, ConcatItems DEF OrderInv
  <2> QED
    BY <1>7, <2>1 DEF Before
<1> HIDE DEF out
<1> QED
    BY <1>2, <1>3, <1>6, <1>7, StartWriteOrder DEF IInv, Shape, OrderInv

(* on_write(): the write is over and the output waits behind what it sent. *)
LEMMA OnWriteOkOrder == ASSUME IInv, OrderInv, OnWriteOk PROVE OrderInv'
<1> DEFINE c == [conn EXCEPT !.writeOp = "none", !.writePending = FALSE]
<1>1. c \in ConnStates /\ c.writeOp = "none" /\ ~c.writePending
    BY DEF IInv, ConnStates, Ops
<1>2. StartWrite(c, outgoing) /\ sent' = sent /\ chunks' = chunks
    BY DEF OnWriteOk
<1> HIDE DEF c
<1> QED
    BY <1>1, <1>2, StartWriteOrder DEF OrderInv

(* A handler that closes the socket leaves no write pending; close() may   *)
(* empty the buffers.                                                      *)
LEMMA ClosedOrder ==
    ASSUME OrderInv, DisconnectBuffers(conn), conn'.writeOp # "pending",
           UNCHANGED <<sent, chunks>>
    PROVE  OrderInv'
<1>1. CASE outgoing' = <<>> /\ writeBuf' = <<>>
    BY <1>1 DEF OrderInv, Chunks, Increasing, Before
<1>2. CASE UNCHANGED <<outgoing, writeBuf>>
    BY <1>2, OrderKept
<1> QED
    BY <1>1, <1>2 DEF DisconnectBuffers

(* A failed write or read drops what was buffered or keeps it in its       *)
(* order.                                                                  *)
LEMMA ErrOrder == ASSUME IInv, OrderInv, OnWriteErr \/ OnReadErr PROVE OrderInv'
<1>1. CASE OnWriteErr
  <2> DEFINE a == [conn EXCEPT !.writeOp = "none", !.writePending = FALSE]
             c == Disconnect(CloseSocket(a))
  <2>1. a \in ConnStates /\ a.writeOp = "none" /\ a.tryingLater = conn.tryingLater
        /\ a.due = conn.due
    BY DEF IInv, ConnStates, Ops
  <2>2. conn' = TryLater(c) /\ DisconnectBuffers(conn) /\ sent' = sent /\ chunks' = chunks
    BY <1>1 DEF OnWriteErr
  <2> HIDE DEF a
  <2>3. c \in ConnStates /\ c.writeOp = "none" /\ c.tryingLater = conn.tryingLater
        /\ c.due = conn.due
    BY <2>1, CloseSocketFields, DisconnectFields DEF Ended
  <2> HIDE DEF c
  <2>4. conn'.writeOp = "none"
    BY <2>2, <2>3, TryLaterFields DEF IInv, Shape
  <2> QED
    BY <2>2, <2>4, ClosedOrder
<1>2. CASE OnReadErr
  <2> DEFINE a == [conn EXCEPT !.readOp = "none", !.readPending = FALSE]
             c == Disconnect(CloseSocket(a))
  <2>1. a \in ConnStates /\ a.tryingLater = conn.tryingLater /\ a.due = conn.due
    BY DEF IInv, ConnStates, Ops
  <2>2. (conn' = TryLater(c) \/ conn' = c) /\ DisconnectBuffers(conn)
        /\ sent' = sent /\ chunks' = chunks
    BY <1>2 DEF OnReadErr
  <2> HIDE DEF a
  <2>3. c \in ConnStates /\ c.writeOp # "pending" /\ c.tryingLater = conn.tryingLater
        /\ c.due = conn.due
    BY <2>1, CloseSocketFields, DisconnectFields DEF Ended
  <2> HIDE DEF c
  <2>4. conn'.writeOp # "pending"
    BY <2>2, <2>3, TryLaterFields DEF IInv, Shape
  <2> QED
    BY <2>2, <2>4, ClosedOrder
<1> QED
    BY <1>1, <1>2

(* The kernel takes the write buffer: what it held is now sent.            *)
LEMMA WriteEndsOrder == ASSUME IInv, OrderInv, WriteEnds PROVE OrderInv'
<1>1. conn.writeOp = "pending" /\ conn'.writeOp = "ok" /\ sent' = sent \o writeBuf
      /\ outgoing' = outgoing /\ writeBuf' = writeBuf /\ chunks' = chunks
    BY DEF WriteEnds, IInv, ConnStates
<1>2. sent' \in Chunks(chunks) /\ Increasing(sent')
    BY <1>1, ConcatOrdered DEF OrderInv
<1>3. Before(sent', outgoing)
    BY <1>1, ConcatBefore DEF OrderInv
<1> QED
    BY <1>1, <1>2, <1>3 DEF OrderInv, Increasing, Before

(* Every other step leaves the output alone and starts no write.           *)
LEMMA NextOrder == IInv /\ OrderInv /\ [Next]_vars => OrderInv'
<1> SUFFICES ASSUME IInv, OrderInv, [Next]_vars PROVE OrderInv'
    OBVIOUS
<1>1. CASE UNCHANGED vars
    BY <1>1, OrderKept DEF vars
<1>2. CASE Resolve \/ ConnectEnds \/ ConnectFails \/ PeerLost \/ WriteFails \/ ReadEnds \/ ReadFails
  <2>1. UNCHANGED <<outgoing, writeBuf, sent, chunks>>
    BY <1>2 DEF Resolve, ConnectEnds, ConnectFails, PeerLost, WriteFails, ReadEnds, ReadFails, buffers
  <2>2. conn'.writeOp = "pending" => conn.writeOp = "pending"
    BY <1>2 DEF Resolve, ConnectEnds, ConnectFails, PeerLost, WriteFails, ReadEnds, ReadFails,
                IInv, ConnStates
  <2> QED
    BY <2>1, <2>2, OrderKept
<1>3. CASE ResolveFails \/ OnConnectErr
  <2> DEFINE c == [conn EXCEPT !.due = FALSE, !.tryingLater = FALSE]
             d == [conn EXCEPT !.connectOp = "none"]
  <2>1. /\ c \in ConnStates /\ c.writeOp = conn.writeOp /\ ~c.tryingLater
        /\ d \in ConnStates /\ d.writeOp = conn.writeOp /\ (d.tryingLater => d.due)
    BY DEF IInv, ConnStates, Shape, Ops
  <2>3. conn' = TryLater(c) \/ conn' = TryLater(d)
    BY <1>3 DEF ResolveFails, OnConnectErr
  <2> HIDE DEF c, d
  <2>2. UNCHANGED <<outgoing, writeBuf, sent, chunks>>
    BY <1>3 DEF ResolveFails, OnConnectErr, buffers
  <2> QED
    BY <2>1, <2>2, <2>3, OrderKept, TryLaterFields
<1>4. CASE CallerStartsRead \/ OnReadOk
  <2> DEFINE c == [conn EXCEPT !.earlyRead = FALSE]
             d == [conn EXCEPT !.readOp = "none", !.readPending = FALSE]
  <2>1. /\ c \in ConnStates /\ c.writeOp = conn.writeOp
        /\ c.readPending = conn.readPending /\ c.readOp = conn.readOp
        /\ d \in ConnStates /\ d.writeOp = conn.writeOp /\ ~d.readPending /\ d.readOp = "none"
    BY DEF IInv, ConnStates, Ops
  <2>3. conn' = StartRead(c) \/ conn' = StartRead(d)
    BY <1>4 DEF CallerStartsRead, OnReadOk
  <2> HIDE DEF c, d
  <2>2. UNCHANGED <<outgoing, writeBuf, sent, chunks>>
    BY <1>4 DEF CallerStartsRead, OnReadOk, buffers
  <2> QED
    BY <2>1, <2>2, <2>3, OrderKept, StartReadFields DEF IInv, Shape
<1> QED
    BY <1>1, <1>2, <1>3, <1>4, WriteOutOrder, OnConnectOkOrder, OnWriteOkOrder, ErrOrder,
       WriteEndsOrder DEF Next, Handler

(* Chunks reach the kernel in the order writeOut() took them and none of   *)
(* them twice, for either user of EagerConnection, any size of the buffer  *)
(* and any number of prunes, lost connections and retries.                 *)
THEOREM OutputInOrder == Spec => []SentInOrder
<1>1. Init => OrderInv
    BY DEF Init, OrderInv, Increasing, Before, Chunks
<1>2. OrderInv => SentInOrder
    BY DEF OrderInv, SentInOrder
<1> QED
    BY <1>1, <1>2, InitIInv, NextIInv, NextOrder, PTL DEF Spec

=============================================================================
