--------------------------- MODULE EagerConnection ---------------------------
(***************************************************************************)
(* daemon/EagerConnection.cpp, for the connections opened to a named       *)
(* destination: the agent's forwarding connections (StatServer) and the    *)
(* connection of a replica (ReplicaOf).  The connection resolves, connects,*)
(* reads and writes; after an error it arms a timer and tries again.       *)
(*                                                                         *)
(* The handlers run on the connection's strand, one at a time; writeOut()  *)
(* runs on any thread, under mutex_.  Each is one action.  The operations  *)
(* started with asio are "pending" until the kernel ends them ("ok" or     *)
(* "err"), and their handler runs some time after that; closing the socket *)
(* ends every pending operation with an error.  Output is a sequence of    *)
(* chunks, numbered as writeOut() got them, 0 for the initial data; a      *)
(* chunk takes one unit of the buffer.                                     *)
(***************************************************************************)
EXTENDS Integers, Sequences

CONSTANTS
    MaxBuffer,          \* maxBufferSize
    Unterminated,       \* chunks that do not end in a newline
    HasInitialData,     \* open() was given initial data
    EarlyRead,          \* the caller starts a read right after open()
    CloseOnDisconnect,  \* onDisconnect_ calls close(): PduReaderActor
    Jitters, BigJitters,    \* the values of rand() & 3 and of rand() & 15
    MaxChunks,          \* bound: calls of writeOut()
    MaxFaults           \* bound: failed resolves and connects, lost peers

ASSUME EagerConnectionAssumption ==
    /\ MaxBuffer \in Nat \ {0} /\ MaxChunks \in Nat /\ MaxFaults \in Nat
    /\ HasInitialData \in BOOLEAN /\ EarlyRead \in BOOLEAN /\ CloseOnDisconnect \in BOOLEAN
    /\ Jitters \subseteq 0 .. 3
    /\ BigJitters \subseteq 0 .. 15

VARIABLES
    conn,       \* flags, socket, timer and operations of the connection
    outgoing, writeBuf,
    backoff,    \* backoff_
    good,       \* successfulWritesDuringBackoff_
    sent,       \* chunks the kernel took from the connection, in order
    chunks,     \* chunks given to writeOut() so far
    offline,    \* those of them given since the last connection went away
    pruned,     \* those of them writeOut() pruned
    faults

buffers == <<outgoing, writeBuf, sent, chunks, offline, pruned>>
vars == <<conn, outgoing, writeBuf, backoff, good, sent, chunks, offline, pruned, faults>>

Ops == {"none", "pending", "ok", "err"}

(* due: startResolve() will be called, by open() or by the armed timer;    *)
(* earlyRead: the caller of open() still has to start its read.  A socket  *)
(* is "up" until its peer is "lost"; "failed" is open but not connected.   *)
ConnStates ==
    [opened : BOOLEAN, tryingLater : BOOLEAN, due : BOOLEAN, earlyRead : BOOLEAN,
     sock : {"closed", "connecting", "failed", "up", "lost"},
     connectOp : Ops, writeOp : Ops, readOp : Ops,
     writePending : BOOLEAN, readPending : BOOLEAN]

Items(s) == {s[i] : i \in DOMAIN s}

-----------------------------------------------------------------------------
(* Parts of the handlers, as functions of the connection's state.          *)

Ended(op) == IF op = "pending" THEN "err" ELSE op

(* socket_.close()                                                         *)
CloseSocket(c) ==
    [c EXCEPT !.sock = "closed", !.connectOp = Ended(@), !.writeOp = Ended(@),
              !.readOp = Ended(@)]

(* tryLater(), for a connection that has a destination: its effect on the  *)
(* connection, on backoff_ and on successfulWritesDuringBackoff_.          *)
TryLater(c) == IF c.tryingLater THEN c ELSE [c EXCEPT !.tryingLater = TRUE, !.due = TRUE]

Grown(b) == LET n == ((b + 1) * 3) \div 2 IN IF n > 180 THEN 180 ELSE n

NextBackoffs(b) == {Grown(b) + j : j \in IF Grown(b) < 30 THEN Jitters ELSE BigJitters}

Backoffs(c) == IF c.tryingLater THEN {backoff} ELSE NextBackoffs(backoff)

(* startRead(): on a closed socket the read ends at once.                  *)
StartRead(c) ==
    IF c.readPending THEN c
    ELSE [c EXCEPT !.readPending = TRUE,
                   !.readOp = IF c.sock = "closed" THEN "err" ELSE "pending"]

(* startWrite() with the output out, which ends the step.                  *)
StartWrite(c, out) ==
    IF c.sock # "closed" /\ out # <<>> /\ ~c.writePending /\ ~c.tryingLater
    THEN /\ conn' = [c EXCEPT !.writePending = TRUE, !.writeOp = "pending"]
         /\ writeBuf' = out
         /\ outgoing' = <<>>
    ELSE /\ conn' = c
         /\ outgoing' = out
         /\ UNCHANGED writeBuf

(* onDisconnect_(): a PduReaderActor closes the connection.                *)
Disconnect(c) ==
    IF CloseOnDisconnect THEN [c EXCEPT !.opened = FALSE] ELSE c

(* close() also clears the buffers.                                        *)
DisconnectBuffers(c) ==
    IF CloseOnDisconnect /\ c.opened
    THEN outgoing' = <<>> /\ writeBuf' = <<>>
    ELSE UNCHANGED <<outgoing, writeBuf>>

-----------------------------------------------------------------------------
(* open(dest, initialData) has been called and is about to resolve.        *)
Init ==
    /\ conn = [opened |-> TRUE, tryingLater |-> FALSE, due |-> TRUE, earlyRead |-> EarlyRead,
               sock |-> "closed", connectOp |-> "none", writeOp |-> "none", readOp |-> "none",
               writePending |-> FALSE, readPending |-> FALSE]
    /\ outgoing = <<>> /\ writeBuf = <<>> /\ sent = <<>>
    /\ backoff = 1 /\ good = 1
    /\ chunks = 0 /\ offline = {} /\ pruned = {}
    /\ faults = 0

(* startResolve() and on_resolve(), from open() or from the timer.  The    *)
(* timer is armed for three seconds or more, so the handlers of operations *)
(* that had ended by then have run.                                        *)
ResolveNow ==
    /\ conn.due
    /\ {conn.connectOp, conn.writeOp, conn.readOp} \subseteq {"none", "pending"}

(* The name resolves: startConnect(), which opens the socket if need be.   *)
Resolve ==
    /\ ResolveNow
    /\ conn' = [conn EXCEPT !.due = FALSE, !.tryingLater = FALSE, !.sock = "connecting",
                            !.connectOp = "pending"]
    /\ UNCHANGED <<buffers, backoff, good, faults>>

ResolveFails ==
    LET c == [conn EXCEPT !.due = FALSE, !.tryingLater = FALSE]
    IN  /\ ResolveNow /\ faults < MaxFaults
        /\ conn' = TryLater(c)
        /\ backoff' \in Backoffs(c)
        /\ good' = 1
        /\ faults' = faults + 1
        /\ UNCHANGED buffers

(* StatServer::startResolveAgents calls startRead() when open() returns.   *)
CallerStartsRead ==
    /\ conn.earlyRead /\ (conn.due => conn.tryingLater)
    /\ conn' = StartRead([conn EXCEPT !.earlyRead = FALSE])
    /\ UNCHANGED <<buffers, backoff, good, faults>>

(* writeOut(data): prune, append, startWrite().                            *)
CutPoints == {i \in (MaxBuffer \div 2) + 1 .. Len(outgoing) : outgoing[i] \notin Unterminated}

Pruned ==
    IF Len(outgoing) <= MaxBuffer THEN outgoing
    ELSE IF CutPoints = {} THEN <<>>
    ELSE LET cut == CHOOSE i \in CutPoints : \A k \in CutPoints : i <= k
         IN  SubSeq(outgoing, cut + 1, Len(outgoing))

WriteOut ==
    /\ conn.opened /\ chunks < MaxChunks
    /\ chunks' = chunks + 1
    /\ StartWrite(conn, Append(Pruned, chunks + 1))
    /\ offline' = IF conn.sock = "up" THEN offline ELSE offline \union {chunks + 1}
    /\ pruned' = pruned \union (Items(outgoing) \ Items(Pruned))
    /\ UNCHANGED <<backoff, good, sent, faults>>

-----------------------------------------------------------------------------
(* The handlers.                                                           *)

OnConnectOk ==
    LET c == StartRead([conn EXCEPT !.connectOp = "none"])
    IN  /\ conn.connectOp = "ok"
        /\ StartWrite(c, (IF HasInitialData THEN <<0>> ELSE <<>>) \o outgoing)
        /\ UNCHANGED <<backoff, good, sent, chunks, offline, pruned, faults>>

(* Slip: a failed connect is not retried.                                  *)
OnConnectErrGivesUp ==
    /\ conn.connectOp = "err"
    /\ conn' = [conn EXCEPT !.connectOp = "none"]
    /\ UNCHANGED <<buffers, backoff, good, faults>>

OnConnectErr ==
    LET c == [conn EXCEPT !.connectOp = "none"]
    IN  /\ conn.connectOp = "err"
        /\ conn' = TryLater(c)
        /\ backoff' \in Backoffs(c)
        /\ good' = 1
        /\ UNCHANGED <<buffers, faults>>

(* Slip: output that arrived during the write is not started.              *)
OnWriteOkIdle ==
    /\ conn.writeOp = "ok"
    /\ conn' = [conn EXCEPT !.writeOp = "none", !.writePending = FALSE]
    /\ UNCHANGED <<buffers, backoff, good, faults>>

(* on_write() without an error, and resetBackoffOnSuccessfulWrites().      *)
OnWriteOk ==
    LET c == [conn EXCEPT !.writeOp = "none", !.writePending = FALSE]
        g == IF backoff = 1 THEN good ELSE good + 1
    IN  /\ conn.writeOp = "ok"
        /\ good' = g
        /\ backoff' = IF g > 3 THEN 1 ELSE backoff
        /\ StartWrite(c, outgoing)
        /\ UNCHANGED <<sent, chunks, offline, pruned, faults>>

(* Slip: the failed write is queued again behind the output.               *)
OnWriteErrRequeues ==
    LET c == CloseSocket([conn EXCEPT !.writeOp = "none", !.writePending = FALSE])
    IN  /\ conn.writeOp = "err"
        /\ outgoing' = outgoing \o writeBuf
        /\ conn' = TryLater(c)
        /\ backoff' \in Backoffs(c)
        /\ good' = 1
        /\ UNCHANGED <<writeBuf, sent, chunks, offline, pruned, faults>>

OnWriteErr ==
    LET c == Disconnect(CloseSocket([conn EXCEPT !.writeOp = "none", !.writePending = FALSE]))
    IN  /\ conn.writeOp = "err"
        /\ DisconnectBuffers(conn)
        /\ conn' = TryLater(c)
        /\ backoff' \in Backoffs(c)
        /\ good' = 1
        /\ UNCHANGED <<sent, chunks, offline, pruned, faults>>

(* on_read() with data passes it on and reads again.                       *)
OnReadOk ==
    /\ conn.readOp = "ok"
    /\ conn' = StartRead([conn EXCEPT !.readOp = "none", !.readPending = FALSE])
    /\ UNCHANGED <<buffers, backoff, good, faults>>

(* on_read() with an error tries later only if still opened.               *)
OnReadErr ==
    LET c == Disconnect(CloseSocket([conn EXCEPT !.readOp = "none", !.readPending = FALSE]))
    IN  /\ conn.readOp = "err"
        /\ DisconnectBuffers(conn)
        /\ IF c.opened
           THEN conn' = TryLater(c) /\ backoff' \in Backoffs(c) /\ good' = 1
           ELSE conn' = c /\ UNCHANGED <<backoff, good>>
        /\ UNCHANGED <<sent, chunks, offline, pruned, faults>>

-----------------------------------------------------------------------------
(* The kernel and the peer, as asio reports them.  A write or a read       *)
(* started while the socket is connecting waits for the connection.        *)

ConnectEnds ==
    /\ conn.connectOp = "pending"
    /\ conn' = [conn EXCEPT !.connectOp = "ok", !.sock = "up"]
    /\ offline' = {}
    /\ UNCHANGED <<outgoing, writeBuf, sent, chunks, pruned, backoff, good, faults>>

ConnectFails ==
    /\ conn.connectOp = "pending" /\ faults < MaxFaults
    /\ conn' = [conn EXCEPT !.connectOp = "err", !.sock = "failed"]
    /\ faults' = faults + 1
    /\ UNCHANGED <<buffers, backoff, good>>

PeerLost ==
    /\ conn.sock = "up" /\ faults < MaxFaults
    /\ conn' = [conn EXCEPT !.sock = "lost"]
    /\ faults' = faults + 1
    /\ UNCHANGED <<buffers, backoff, good>>

WriteEnds ==
    /\ conn.writeOp = "pending" /\ conn.sock = "up"
    /\ conn' = [conn EXCEPT !.writeOp = "ok"]
    /\ sent' = sent \o writeBuf
    /\ UNCHANGED <<outgoing, writeBuf, chunks, offline, pruned, backoff, good, faults>>

WriteFails ==
    /\ conn.writeOp = "pending" /\ conn.sock \in {"failed", "lost"}
    /\ conn' = [conn EXCEPT !.writeOp = "err"]
    /\ UNCHANGED <<buffers, backoff, good, faults>>

ReadEnds ==
    /\ conn.readOp = "pending" /\ conn.sock = "up"
    /\ conn' = [conn EXCEPT !.readOp = "ok"]
    /\ UNCHANGED <<buffers, backoff, good, faults>>

ReadFails ==
    /\ conn.readOp = "pending" /\ conn.sock \in {"failed", "lost"}
    /\ conn' = [conn EXCEPT !.readOp = "err"]
    /\ UNCHANGED <<buffers, backoff, good, faults>>

Handler == OnConnectOk \/ OnConnectErr \/ OnWriteOk \/ OnWriteErr \/ OnReadOk \/ OnReadErr

Next ==
    \/ Resolve \/ ResolveFails \/ CallerStartsRead \/ WriteOut
    \/ Handler
    \/ ConnectEnds \/ ConnectFails \/ PeerLost
    \/ WriteEnds \/ WriteFails \/ ReadEnds \/ ReadFails

(* asio runs every handler whose operation has ended and fires the timer;  *)
(* the network, after its faults, resolves and connects, and reports a     *)
(* lost peer to a waiting read or write.                                   *)
Fairness ==
    /\ WF_vars(Handler) /\ WF_vars(CallerStartsRead)
    /\ WF_vars(Resolve) /\ WF_vars(ConnectEnds)
    /\ WF_vars(ReadFails) /\ WF_vars(WriteFails) /\ WF_vars(WriteEnds)

Spec == Init /\ [][Next]_vars /\ Fairness

-----------------------------------------------------------------------------
TypeOK ==
    /\ conn \in ConnStates
    /\ outgoing \in Seq(0 .. MaxChunks) /\ writeBuf \in Seq(0 .. MaxChunks)
    /\ sent \in Seq(0 .. MaxChunks)
    /\ backoff \in 1 .. 195 /\ good \in 1 .. 4
    /\ chunks \in 0 .. MaxChunks /\ faults \in 0 .. MaxFaults
    /\ offline \subseteq 1 .. MaxChunks /\ pruned \subseteq 0 .. MaxChunks

(* writePending_ and readPending_ say exactly whether a write or a read is *)
(* outstanding, so no two writes are interleaved on the socket and no      *)
(* connection is left without its reader.                                  *)
FlagsExact ==
    /\ conn.writePending <=> conn.writeOp # "none"
    /\ conn.readPending <=> conn.readOp # "none"

(* While tryingLater_ is set the retry is due, and no connect attempt is   *)
(* running beside it: the connection never runs two attempts at once.      *)
OneAttempt ==
    /\ conn.tryingLater => conn.due
    /\ conn.due => conn.connectOp # "pending" /\ conn.sock \in {"closed", "failed"}

(* Output never waits for nobody: while the connection is opened and has   *)
(* output, a write, a connect attempt or a retry is on its way to send it, *)
(* or the socket is gone and its reader is about to notice.                *)
OutputHasACarrier ==
    conn.opened /\ outgoing # <<>> =>
        \/ conn.writePending \/ conn.due \/ conn.connectOp # "none"
        \/ conn.sock = "closed" /\ conn.readOp \in {"ok", "err"}

(* Without the initial data, s holds chunks in the order writeOut() took    *)
(* them, none twice.                                                       *)
Increasing(s) ==
    \A i, k \in DOMAIN s : i < k /\ s[i] # 0 /\ s[k] # 0 => s[i] < s[k]

(* Chunks reach the kernel in the order writeOut() took them, none twice,  *)
(* across prunes, lost connections and retries.                            *)
SentInOrder == Increasing(sent)

(* README.md:89 says a lost connection is re-connected with exponential    *)
(* back-off: a connection that is not up comes up again once the network   *)
(* lets it.                                                                *)
Reconnects == conn.sock # "up" ~> conn.sock = "up"

(* README.md:89-91 says the connection re-connects, "buffering data it     *)
(* receives in the meanwhile": a chunk taken while there is no connection  *)
(* is kept, unless it is pruned, as long as there is none.                 *)
BufferedMeanwhile ==
    \A k \in offline :
        \/ k \in pruned \/ k \in Items(outgoing)
        \/ k \in Items(writeBuf) /\ conn.writePending

=============================================================================
