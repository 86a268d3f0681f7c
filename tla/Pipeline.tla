------------------------------ MODULE Pipeline ------------------------------
(***************************************************************************)
(* The data path of the server: from the sockets of the sources, through   *)
(* the listeners' epoll (EPOLLONESHOT), the work queue, the worker pool,   *)
(* the data queue with its two watermarks and the park list, to the        *)
(* aggregator and the one sink.                                            *)
(*                                                                         *)
(* A connection is a source that has finished its handshake (ST_WS_OPEN).  *)
(* The frames a source sends are the elements of Script[s]:                *)
(*   "data"   completes a message,                                         *)
(*   "quiet"  is consumed with no other effect (a fragment, a PONG),       *)
(*   "ping"   makes the server queue a PONG,                               *)
(*   "close"  is a CLOSE frame or a protocol error: the server answers     *)
(*            CLOSE and sets closeAfterSend.                               *)
(* Frames are numbered by position, so the socket buffer of s holds the    *)
(* frames recvd[s]+1 .. sent[s] and its rx buffer parsed[s]+1 .. recvd[s]. *)
(* A message is <<s, n>>, the n-th message of source s.                    *)
(***************************************************************************)
EXTENDS Naturals, Sequences, FiniteSets, Functions

CONSTANTS
    Sources,    \* source connections
    Workers,    \* threads of the worker pool
    Script,     \* Script[s]: the frames source s sends
    HWM, LWM,   \* --hwm and --lwm, in messages
    MaxSinks,   \* bound: how many sink connections arrive during a run
    NoConn      \* no connection (a NULL Conn_t pointer)

FrameKinds == {"data", "quiet", "ping", "close"}

\* Constants as parseArgs() accepts them (options.c:238-245, 322-337, 371).
ASSUME WatermarkAssumption == HWM \in Nat /\ LWM \in Nat /\ 1 <= LWM /\ LWM < HWM
ASSUME ScriptAssumption == Script \in [Sources -> Seq(FrameKinds)]
ASSUME WorkerAssumption == IsFiniteSet(Workers) /\ Workers # {}
ASSUME SinkAssumption == MaxSinks \in Nat
ASSUME ConnAssumption == NoConn \notin Sources \cup Workers

VARIABLES
    \* the peer of each source
    sent,       \* frames of Script[s] that have reached the server's socket
    fin,        \* the peer has closed its end
    \* Conn_t of each source
    live,       \* the connection exists: connClose() has not run
    recvd,      \* frames read into rx
    parsed,     \* frames consumed from rx
    tx,         \* output buffer: "empty", "queued", "blocked" (EAGAIN)
    closing,    \* closeAfterSend
    pendingMsg, \* message held back while parked, 0 if none
    epoll,      \* registration in the ingest epoll
    \* shared by the threads
    queue,      \* conf->queue: connections for the workers
    dataQueue,  \* conf->dataQueue: messages for the aggregator
    parkList,   \* agg->parkHead ... parkTail
    wake,       \* an eventfd of the aggregator is readable
    \* worker threads
    wpc, wconn, weof, wmsg,
    \* the aggregator thread
    apc, aconn,
    pending,    \* agg->pending, the frame being written: <<>> or <<m>>
    sink,       \* agg->sink: number of the adopted sink connection, 0 if NULL
    sinkState,  \* its socket: "ok", "full" (send gives EAGAIN) or "gone"
    joined,     \* sinks that were put into ctrlQueue
    adopted,    \* sinks that were taken from it
    \* history
    delivered,  \* messages written to a sink, in order
    addFailed   \* sources whose EPOLL_CTL_ADD failed in resumeParked()

peerVars == <<sent, fin>>
connVars == <<live, recvd, parsed, tx, closing, pendingMsg>>
workerVars == <<wpc, wconn, weof, wmsg>>
sinkVars == <<pending, sink, sinkState, joined, adopted, delivered>>
aggVars == <<apc, aconn, addFailed>>
vars == <<peerVars, connVars, epoll, queue, dataQueue, parkList, wake,
          workerVars, aggVars, sinkVars>>

-----------------------------------------------------------------------------
(* Messages and frames *)

\* Number of messages completed by the first k frames of s.
MessagesIn(s, k) == Cardinality({j \in 1..k : Script[s][j] = "data"})

HasFrame(s) == parsed[s] < recvd[s]
NextFrame(s) == Script[s][parsed[s] + 1]

Msgs == Sources \X Nat

Armed(s) == epoll[s] \in {"in", "inout"}

\* What epoll_wait() reports for an armed registration: input, end of stream,
\* or (when asked for) room for output.
Ready(s) ==
    \/ sent[s] > recvd[s]
    \/ fin[s]
    \/ epoll[s] = "inout" /\ tx[s] # "blocked"

TypeOK ==
    /\ sent \in [Sources -> Nat]
    /\ fin \in [Sources -> BOOLEAN]
    /\ live \in [Sources -> BOOLEAN]
    /\ recvd \in [Sources -> Nat]
    /\ parsed \in [Sources -> Nat]
    /\ tx \in [Sources -> {"empty", "queued", "blocked"}]
    /\ closing \in [Sources -> BOOLEAN]
    /\ pendingMsg \in [Sources -> Nat]
    /\ epoll \in [Sources -> {"in", "inout", "off", "absent"}]
    /\ queue \in Seq(Sources)
    /\ dataQueue \in Seq(Msgs)
    /\ parkList \in Seq(Sources)
    /\ wake \in BOOLEAN
    /\ wpc \in [Workers -> {"pop", "parse", "push", "park", "del"}]
    /\ wconn \in [Workers -> Sources \cup {NoConn}]
    /\ weof \in [Workers -> BOOLEAN]
    /\ wmsg \in [Workers -> Nat]
    /\ apc \in {"ctrl", "pump", "unpark", "push", "add", "take", "wait"}
    /\ aconn \in Sources \cup {NoConn}
    /\ pending \in Seq(Msgs) /\ Len(pending) <= 1
    /\ sink \in Nat
    /\ sinkState \in {"ok", "full", "gone"}
    /\ joined \in Nat /\ adopted \in Nat
    /\ delivered \in Seq(Msgs)
    /\ addFailed \subseteq Sources

\* Every source has just been upgraded and re-armed; nothing has been sent.
Init ==
    /\ sent = [s \in Sources |-> 0]
    /\ fin = [s \in Sources |-> FALSE]
    /\ live = [s \in Sources |-> TRUE]
    /\ recvd = [s \in Sources |-> 0]
    /\ parsed = [s \in Sources |-> 0]
    /\ tx = [s \in Sources |-> "empty"]
    /\ closing = [s \in Sources |-> FALSE]
    /\ pendingMsg = [s \in Sources |-> 0]
    /\ epoll = [s \in Sources |-> "in"]
    /\ queue = <<>> /\ dataQueue = <<>> /\ parkList = <<>>
    /\ wake = FALSE
    /\ wpc = [w \in Workers |-> "pop"]
    /\ wconn = [w \in Workers |-> NoConn]
    /\ weof = [w \in Workers |-> FALSE]
    /\ wmsg = [w \in Workers |-> 0]
    /\ apc = "ctrl" /\ aconn = NoConn
    /\ pending = <<>> /\ sink = 0 /\ sinkState = "ok"
    /\ joined = 0 /\ adopted = 0
    /\ delivered = <<>> /\ addFailed = {}

-----------------------------------------------------------------------------
(* The peers of the sources: code outside the server. *)

PeerSend(s) ==
    /\ live[s] /\ ~fin[s] /\ sent[s] < Len(Script[s])
    /\ sent' = [sent EXCEPT ![s] = @ + 1]
    /\ UNCHANGED <<fin, connVars, epoll, queue, dataQueue, parkList, wake,
                   workerVars, aggVars, sinkVars>>

PeerClose(s) ==
    /\ live[s] /\ ~fin[s]
    /\ fin' = [fin EXCEPT ![s] = TRUE]
    /\ UNCHANGED <<sent, connVars, epoll, queue, dataQueue, parkList, wake,
                   workerVars, aggVars, sinkVars>>

\* The peer reads, so a socket whose send() gave EAGAIN is writable again.
PeerDrain(s) ==
    /\ live[s] /\ tx[s] = "blocked"
    /\ tx' = [tx EXCEPT ![s] = "queued"]
    /\ UNCHANGED <<peerVars, live, recvd, parsed, closing, pendingMsg, epoll,
                   queue, dataQueue, parkList, wake, workerVars, aggVars, sinkVars>>

-----------------------------------------------------------------------------
(* listenerThread(): an event of a connection goes to the workers, and     *)
(* EPOLLONESHOT leaves the registration disabled.                          *)

\* Mutant: EPOLLONESHOT is forgotten.
ListenerPush_NoOneshot(s) ==
    /\ live[s] /\ Armed(s) /\ Ready(s)
    /\ queue' = Append(queue, s)
    /\ UNCHANGED <<peerVars, connVars, epoll, dataQueue, parkList, wake,
                   workerVars, aggVars, sinkVars>>

ListenerPush(s) ==
    /\ live[s] /\ Armed(s) /\ Ready(s)
    /\ epoll' = [epoll EXCEPT ![s] = "off"]
    /\ queue' = Append(queue, s)
    /\ UNCHANGED <<peerVars, connVars, dataQueue, parkList, wake,
                   workerVars, aggVars, sinkVars>>

-----------------------------------------------------------------------------
(* workerThread() and handleWsOpen() *)

\* pop(conf->queue, &item), then bufRecv(): it reads until EAGAIN or end of
\* stream, and its result 2 or -1 is eof. The socket is private to the worker,
\* so what arrives between the two might as well have arrived before.
WorkerPop(w) ==
    LET s == Head(queue) IN
    /\ wpc[w] = "pop" /\ queue # <<>>
    /\ queue' = Tail(queue)
    /\ wconn' = [wconn EXCEPT ![w] = s]
    /\ recvd' = [recvd EXCEPT ![s] = sent[s]]
    /\ weof' = [weof EXCEPT ![w] = fin[s]]
    /\ wpc' = [wpc EXCEPT ![w] = "parse"]
    /\ UNCHANGED <<peerVars, live, parsed, tx, closing, pendingMsg, epoll,
                   dataQueue, parkList, wake, wmsg, aggVars, sinkVars>>

\* The loop of handleWsOpen() takes the next complete frame of rx.
Parsing(w, kinds) ==
    /\ wpc[w] = "parse"
    /\ ~closing[wconn[w]]
    /\ HasFrame(wconn[w])
    /\ NextFrame(wconn[w]) \in kinds
    /\ parsed' = [parsed EXCEPT ![wconn[w]] = @ + 1]

\* bufAppend(&c->tx, ...): a blocked socket stays blocked.
QueueReply(s) == tx' = [tx EXCEPT ![s] = IF @ = "blocked" THEN @ ELSE "queued"]

\* A frame that completes no message; a PING is answered in tx, and a CLOSE or
\* a protocol error ends the loop through sendCloseAndMark().
ParseControl(w) ==
    LET s == wconn[w] IN
    /\ Parsing(w, {"quiet", "ping", "close"})
    /\ IF NextFrame(s) = "quiet" THEN tx' = tx ELSE QueueReply(s)
    /\ closing' = [closing EXCEPT ![s] = NextFrame(s) = "close"]
    /\ UNCHANGED <<peerVars, live, recvd, pendingMsg, epoll, queue, dataQueue,
                   parkList, wake, workerVars, aggVars, sinkVars>>

\* Mutant: no look at the watermark.
CommitPush_NoMark(w) ==
    LET s == wconn[w] IN
    /\ Parsing(w, {"data"})
    /\ wmsg' = [wmsg EXCEPT ![w] = MessagesIn(s, parsed[s] + 1)]
    /\ wpc' = [wpc EXCEPT ![w] = "push"]
    /\ UNCHANGED <<peerVars, live, recvd, tx, closing, pendingMsg, epoll, queue,
                   dataQueue, parkList, wake, wconn, weof, aggVars, sinkVars>>

\* A frame that completes a message while queueSize() is below the high
\* watermark: the worker is now committed to push(), whatever the size is then.
CommitPush(w) ==
    LET s == wconn[w] IN
    /\ Parsing(w, {"data"})
    /\ Len(dataQueue) < HWM
    /\ wmsg' = [wmsg EXCEPT ![w] = MessagesIn(s, parsed[s] + 1)]
    /\ wpc' = [wpc EXCEPT ![w] = "push"]
    /\ UNCHANGED <<peerVars, live, recvd, tx, closing, pendingMsg, epoll, queue,
                   dataQueue, parkList, wake, wconn, weof, aggVars, sinkVars>>

Push(w) ==
    /\ wpc[w] = "push"
    /\ dataQueue' = Append(dataQueue, <<wconn[w], wmsg[w]>>)
    /\ wake' = TRUE
    /\ wmsg' = [wmsg EXCEPT ![w] = 0]
    /\ wpc' = [wpc EXCEPT ![w] = "parse"]
    /\ UNCHANGED <<peerVars, connVars, epoll, queue, parkList, wconn, weof,
                   aggVars, sinkVars>>

\* At the high watermark the message is held back and the worker is committed
\* to parking the connection.
CommitPark(w) ==
    LET s == wconn[w] IN
    /\ Parsing(w, {"data"})
    /\ Len(dataQueue) >= HWM
    /\ pendingMsg' = [pendingMsg EXCEPT ![s] = MessagesIn(s, parsed[s] + 1)]
    /\ wpc' = [wpc EXCEPT ![w] = "park"]
    /\ UNCHANGED <<peerVars, live, recvd, tx, closing, epoll, queue, dataQueue,
                   parkList, wake, wconn, weof, wmsg, aggVars, sinkVars>>

\* parkListPush(conf->agg, c): from here the aggregator can see the connection.
Park(w) ==
    /\ wpc[w] = "park"
    /\ parkList' = Append(parkList, wconn[w])
    /\ wpc' = [wpc EXCEPT ![w] = "del"]
    /\ UNCHANGED <<peerVars, connVars, epoll, queue, dataQueue, wake, wconn,
                   weof, wmsg, aggVars, sinkVars>>

\* Worker w is done with its connection.
Release(w) ==
    /\ wconn' = [wconn EXCEPT ![w] = NoConn]
    /\ weof' = [weof EXCEPT ![w] = FALSE]
    /\ wpc' = [wpc EXCEPT ![w] = "pop"]

\* Mutant: a parked connection is re-armed like any other.
Unregister_Rearm(w) ==
    /\ wpc[w] = "del"
    /\ epoll' = [epoll EXCEPT ![wconn[w]] = "in"]
    /\ Release(w)
    /\ UNCHANGED <<peerVars, connVars, queue, dataQueue, parkList, wake, wmsg,
                   aggVars, sinkVars>>

\* epoll_ctl(EPOLL_CTL_DEL), then DISP_PARKED and the next job.
Unregister(w) ==
    /\ wpc[w] = "del"
    /\ epoll' = [epoll EXCEPT ![wconn[w]] = "absent"]
    /\ Release(w)
    /\ UNCHANGED <<peerVars, connVars, queue, dataQueue, parkList, wake, wmsg,
                   aggVars, sinkVars>>

\* The loop has ended: no complete frame is left, or a CLOSE was queued.
ParsedAll(w) ==
    /\ wpc[w] = "parse"
    /\ closing[wconn[w]] \/ ~HasFrame(wconn[w])

\* bufSend() wrote everything: flushTx() is DISP_REARM_IN, or DISP_CLOSE after
\* a CLOSE frame; end of stream turns either into DISP_CLOSE.
FlushAll(w) ==
    LET s == wconn[w]
        close == closing[s] \/ weof[w]
    IN
    /\ ParsedAll(w)
    /\ tx[s] # "blocked"
    /\ tx' = [tx EXCEPT ![s] = "empty"]
    /\ live' = [live EXCEPT ![s] = ~close]
    /\ epoll' = [epoll EXCEPT ![s] = IF close THEN "absent" ELSE "in"]
    /\ Release(w)
    /\ UNCHANGED <<peerVars, recvd, parsed, closing, pendingMsg, queue, dataQueue,
                   parkList, wake, wmsg, aggVars, sinkVars>>

\* bufSend() met EAGAIN: DISP_REARM_INOUT, unless the stream has ended.
FlushSome(w) ==
    LET s == wconn[w] IN
    /\ ParsedAll(w)
    /\ tx[s] # "empty"
    /\ tx' = [tx EXCEPT ![s] = "blocked"]
    /\ live' = [live EXCEPT ![s] = ~weof[w]]
    /\ epoll' = [epoll EXCEPT ![s] = IF weof[w] THEN "absent" ELSE "inout"]
    /\ Release(w)
    /\ UNCHANGED <<peerVars, recvd, parsed, closing, pendingMsg, queue, dataQueue,
                   parkList, wake, wmsg, aggVars, sinkVars>>

\* bufSend() failed, the peer being gone: DISP_CLOSE.
FlushError(w) ==
    LET s == wconn[w] IN
    /\ ParsedAll(w)
    /\ tx[s] # "empty" /\ fin[s]
    /\ live' = [live EXCEPT ![s] = FALSE]
    /\ epoll' = [epoll EXCEPT ![s] = "absent"]
    /\ Release(w)
    /\ UNCHANGED <<peerVars, recvd, parsed, tx, closing, pendingMsg, queue,
                   dataQueue, parkList, wake, wmsg, aggVars, sinkVars>>

WorkerStep(w) ==
    \/ WorkerPop(w) \/ ParseControl(w)
    \/ CommitPush(w) \/ Push(w)
    \/ CommitPark(w) \/ Park(w) \/ Unregister(w)
    \/ FlushAll(w) \/ FlushSome(w) \/ FlushError(w)

-----------------------------------------------------------------------------
(* The sinks, seen from the aggregator: a worker has put the connection    *)
(* into ctrlQueue (handleHandshakeSend); its peer then reads, or goes.     *)

SinkJoin ==
    /\ joined < MaxSinks
    /\ joined' = joined + 1
    /\ wake' = TRUE
    /\ UNCHANGED <<peerVars, connVars, epoll, queue, dataQueue, parkList,
                   workerVars, aggVars, pending, sink, sinkState, adopted, delivered>>

SinkDrain ==
    /\ sink # 0 /\ sinkState = "full"
    /\ sinkState' = "ok"
    /\ UNCHANGED <<peerVars, connVars, epoll, queue, dataQueue, parkList, wake,
                   workerVars, aggVars, pending, sink, joined, adopted, delivered>>

SinkGone ==
    /\ sink # 0 /\ sinkState # "gone"
    /\ sinkState' = "gone"
    /\ UNCHANGED <<peerVars, connVars, epoll, queue, dataQueue, parkList, wake,
                   workerVars, aggVars, pending, sink, joined, adopted, delivered>>

-----------------------------------------------------------------------------
(* aggregatorThread() *)

\* closeSink(): the frame that was being written goes with the connection.
CloseSink == sink' = 0 /\ pending' = <<>> /\ sinkState' = "ok"

\* The loop at the top: trypop(conf->ctrlQueue, ...) and adoptSink(), which
\* first closes the sink that is there.
AdoptSink ==
    /\ apc = "ctrl" /\ adopted < joined
    /\ adopted' = adopted + 1
    /\ sink' = adopted + 1
    /\ sinkState' = "ok"
    /\ pending' = <<>>
    /\ UNCHANGED <<peerVars, connVars, epoll, queue, dataQueue, parkList, wake,
                   workerVars, aggVars, joined, delivered>>

\* aggPump() does nothing while there is no sink.
CtrlEmpty ==
    /\ apc = "ctrl" /\ adopted = joined
    /\ apc' = IF sink = 0 THEN "wait" ELSE "pump"
    /\ UNCHANGED <<peerVars, connVars, epoll, queue, dataQueue, parkList, wake,
                   workerVars, aconn, addFailed, sinkVars>>

\* sinkFlush() writes the rest of the frame; that may fill the socket. A send
\* to a peer that has gone may still succeed.
PumpSent ==
    /\ apc = "pump" /\ pending # <<>> /\ sinkState # "full"
    /\ delivered' = delivered \o pending
    /\ pending' = <<>>
    /\ \/ sinkState' = sinkState
       \/ sinkState = "ok" /\ sinkState' = "full"
    /\ UNCHANGED <<peerVars, connVars, epoll, queue, dataQueue, parkList, wake,
                   workerVars, aggVars, sink, joined, adopted>>

\* sinkFlush() meets EAGAIN, possibly after a part of the frame: sinkArm() asks
\* for EPOLLOUT.
PumpBlocked ==
    /\ apc = "pump" /\ pending # <<>> /\ sinkState # "gone"
    /\ sinkState' = "full"
    /\ apc' = "wait"
    /\ UNCHANGED <<peerVars, connVars, epoll, queue, dataQueue, parkList, wake,
                   workerVars, aconn, addFailed, pending, sink, joined, adopted,
                   delivered>>

PumpError ==
    /\ apc = "pump" /\ pending # <<>> /\ sinkState = "gone"
    /\ CloseSink
    /\ apc' = "wait"
    /\ UNCHANGED <<peerVars, connVars, epoll, queue, dataQueue, parkList, wake,
                   workerVars, aconn, addFailed, joined, adopted, delivered>>

\* With nothing left to write: queueSize(conf->dataQueue) <= agg->lowWatermark
CheckLow ==
    /\ apc = "pump" /\ pending = <<>>
    /\ apc' = IF Len(dataQueue) <= LWM THEN "unpark" ELSE "take"
    /\ UNCHANGED <<peerVars, connVars, epoll, queue, dataQueue, parkList, wake,
                   workerVars, aconn, addFailed, sinkVars>>

\* What was parked first is taken from the list.
Unpark ==
    /\ apc = "unpark"
    /\ IF parkList = <<>>
       THEN /\ apc' = "take"
            /\ UNCHANGED <<aconn, parkList>>
       ELSE /\ aconn' = Head(parkList)
            /\ parkList' = Tail(parkList)
            /\ apc' = "push"
    /\ UNCHANGED <<peerVars, connVars, epoll, queue, dataQueue, wake, workerVars,
                   addFailed, sinkVars>>

\* Mutant: the message held back goes to the front of the data queue.
ResumePush_Front ==
    /\ apc = "push"
    /\ dataQueue' = <<<<aconn, pendingMsg[aconn]>>>> \o dataQueue
    /\ wake' = TRUE
    /\ pendingMsg' = [pendingMsg EXCEPT ![aconn] = 0]
    /\ apc' = "add"
    /\ UNCHANGED <<peerVars, live, recvd, parsed, tx, closing, epoll, queue,
                   parkList, workerVars, aconn, addFailed, sinkVars>>

\* resumeParked(): push(dataQueue, c->pendingMsg) ...
ResumePush ==
    /\ apc = "push"
    /\ dataQueue' = Append(dataQueue, <<aconn, pendingMsg[aconn]>>)
    /\ wake' = TRUE
    /\ pendingMsg' = [pendingMsg EXCEPT ![aconn] = 0]
    /\ apc' = "add"
    /\ UNCHANGED <<peerVars, live, recvd, parsed, tx, closing, epoll, queue,
                   parkList, workerVars, aconn, addFailed, sinkVars>>

\* Mutant: EPOLL_CTL_MOD, which fails for a descriptor that is not registered.
ResumeAdd_Mod ==
    /\ apc = "add"
    /\ epoll' = [epoll EXCEPT ![aconn] = IF @ = "absent" THEN @ ELSE "in"]
    /\ aconn' = NoConn
    /\ apc' = "take"
    /\ UNCHANGED <<peerVars, connVars, queue, dataQueue, parkList, wake,
                   workerVars, addFailed, sinkVars>>

\* ... and epoll_ctl(EPOLL_CTL_ADD), whose result is ignored: it fails with
\* EEXIST while the worker that parked the connection has not unregistered it.
ResumeAdd ==
    /\ apc = "add"
    /\ IF epoll[aconn] = "absent"
       THEN /\ epoll' = [epoll EXCEPT ![aconn] =
                            IF tx[aconn] = "empty" THEN "in" ELSE "inout"]
            /\ addFailed' = addFailed
       ELSE /\ addFailed' = addFailed \cup {aconn}
            /\ epoll' = epoll
    /\ aconn' = NoConn
    /\ apc' = "take"
    /\ UNCHANGED <<peerVars, connVars, queue, dataQueue, parkList, wake,
                   workerVars, sinkVars>>

\* trypop(conf->dataQueue, ...) and aggOnMessage() into the empty slot.
Take ==
    /\ apc = "take"
    /\ IF dataQueue = <<>>
       THEN apc' = "wait" /\ UNCHANGED <<dataQueue, pending>>
       ELSE /\ pending' = <<Head(dataQueue)>>
            /\ dataQueue' = Tail(dataQueue)
            /\ apc' = "pump"
    /\ UNCHANGED <<peerVars, connVars, epoll, queue, parkList, wake, workerVars,
                   aconn, addFailed, sink, sinkState, joined, adopted, delivered>>

\* What ends epoll_wait() before its timeout.
EventReady ==
    \/ wake
    \/ sink # 0 /\ sinkState = "gone"
    \/ sink # 0 /\ sinkState = "ok" /\ pending # <<>>

\* The batch of events: the eventfds are read empty and a sink whose peer has
\* gone is closed. (Reading an eventfd at once with epoll_wait() loses nothing:
\* both queues are examined afterwards.)
HandleEvents ==
    /\ apc = "wait" /\ EventReady
    /\ wake' = FALSE
    /\ IF sink # 0 /\ sinkState = "gone"
       THEN CloseSink
       ELSE UNCHANGED <<pending, sink, sinkState>>
    /\ apc' = "ctrl"
    /\ UNCHANGED <<peerVars, connVars, epoll, queue, dataQueue, parkList,
                   workerVars, aconn, addFailed, joined, adopted, delivered>>

\* Mutant: an infinite timeout.
WaitTimeout_Never == apc = "wait" /\ ~EventReady /\ UNCHANGED vars

\* epoll_wait() returns after 1000 ms, or for the tick timer, with no event
\* that matters here.
WaitTimeout ==
    /\ apc = "wait" /\ ~EventReady
    /\ apc' = "ctrl"
    /\ UNCHANGED <<peerVars, connVars, epoll, queue, dataQueue, parkList, wake,
                   workerVars, aconn, addFailed, sinkVars>>

AggStep ==
    \/ AdoptSink \/ CtrlEmpty
    \/ PumpSent \/ PumpBlocked \/ PumpError
    \/ CheckLow \/ Unpark \/ ResumePush \/ ResumeAdd \/ Take
    \/ HandleEvents \/ WaitTimeout

PeerStep(s) == PeerSend(s) \/ PeerClose(s) \/ PeerDrain(s)
SinkStep == SinkJoin \/ SinkDrain \/ SinkGone

Next ==
    \/ \E s \in Sources : PeerStep(s) \/ ListenerPush(s)
    \/ \E w \in Workers : WorkerStep(w)
    \/ SinkStep
    \/ AggStep

Spec == Init /\ [][Next]_vars

\* The server's threads keep running; a peer that is there reads what it is
\* sent, so a full socket empties in time and, as only the server's own writes
\* fill it, a frame is written completely in the end (SF on PumpSent).
Fairness ==
    /\ \A s \in Sources : WF_vars(ListenerPush(s)) /\ WF_vars(PeerDrain(s))
    /\ \A w \in Workers : WF_vars(WorkerStep(w))
    /\ WF_vars(AggStep)
    /\ WF_vars(SinkDrain)
    /\ SF_vars(PumpSent)

FairSpec == Spec /\ Fairness

-----------------------------------------------------------------------------
(* Who has a connection *)

Parked(s) == s \in Range(parkList)

\* A worker that has put its connection on the park list only has to take the
\* descriptor out of epoll: it no longer owns the connection.
Owners(s) == {w \in Workers : wconn[w] = s /\ wpc[w] # "del"}
Unregistering(s) == {w \in Workers : wconn[w] = s /\ wpc[w] = "del"}

\* The places at which s can be found, each entry of a list being one.
Places(s) ==
    {<<"epoll", 0>> : x \in {y \in {s} : Armed(y)}}
        \cup {<<"queue", i>> : i \in {j \in DOMAIN queue : queue[j] = s}}
        \cup {<<"worker", w>> : w \in Owners(s)}
        \cup {<<"parked", i>> : i \in {j \in DOMAIN parkList : parkList[j] = s}}
        \cup {<<"aggregator", 0>> : x \in {y \in {s} : aconn = y}}

\* One thread at a time works on a connection (README.md:314-316, EPOLLONESHOT
\* and the park list): it is armed in epoll, or in the work queue, or with one
\* worker, or parked, or being resumed, and in no two of these at once. It is
\* in none of them only when it is closed, or when the ADD of its resume failed.
OwnedOnce ==
    /\ TypeOK
    /\ \A s \in Sources :
        /\ \A p, q \in Places(s) : p = q
        /\ Places(s) = {} => ~live[s] \/ s \in addFailed
        /\ Places(s) # {} => live[s]

\* The inductive invariant behind it. A worker has a connection from the pop to
\* the release, the aggregator from the park list to the ADD, nobody twice ...
Queued(s) == s \in Range(queue)
InWorker(s) == \E w \in Workers : wconn[w] = s
Owned(s) == \E w \in Workers : wconn[w] = s /\ wpc[w] # "del"
HolderPcs ==
    /\ \A w \in Workers : wconn[w] = NoConn <=> wpc[w] = "pop"
    /\ apc \notin {"push", "add"} => aconn = NoConn
    /\ \A v, w \in Workers : wconn[v] = wconn[w] /\ wconn[v] # NoConn => v = w
    /\ IsInjective(queue) /\ IsInjective(parkList)
\* ... and each place excludes the others. Until it is unregistered the
\* registration of what left epoll for a worker is disabled, not gone.
PlacesApart(s) ==
    /\ Armed(s) => ~InWorker(s) /\ ~Parked(s) /\ aconn # s
    /\ Queued(s) => ~InWorker(s) /\ ~Parked(s) /\ aconn # s
    /\ Owned(s) => ~Parked(s) /\ aconn # s
    /\ Parked(s) => aconn # s
    /\ Queued(s) \/ InWorker(s) => epoll[s] = "off"
    /\ Armed(s) \/ Queued(s) \/ InWorker(s) \/ Parked(s) \/ aconn = s => live[s]
    /\ live[s] => \/ Armed(s) \/ Queued(s) \/ Owned(s)
                  \/ Parked(s) \/ aconn = s \/ s \in addFailed
PlaceInv == HolderPcs /\ \A s \in Sources : PlacesApart(s)

\* README.md:234 "parked --> ST_WS_OPEN: агрегатор освободил слот": a resumed
\* source is back in epoll, so a live source is always somewhere. The code
\* breaks this: handleWsOpen() publishes the connection on the park list before
\* it takes the descriptor out of epoll (worker.c:293-294).
NeverOrphaned ==
    \A s \in Sources : live[s] => Places(s) # {} \/ Unregistering(s) # {}

\* Workers and the aggregator between their look at the size of the data queue
\* and the push() that follows from it.
Pushers ==
    {w \in Workers : wpc[w] = "push"} \cup
    (IF apc \in {"unpark", "push"} THEN {NoConn} ELSE {})

\* The data queue is bounded although nobody checks the size inside push():
\* every thread that saw room may still push, and no more than that. NoConn
\* stands for the aggregator in Pushers.
DataQueueBound ==
    Len(dataQueue) <= HWM + Cardinality(Workers)

\* The inductive invariant behind the bound: a thread inside a handler has a
\* connection in hand, and the pushes still to come are counted with the queue.
ConnInHand ==
    /\ \A w \in Workers : wpc[w] # "pop" => wconn[w] \in Sources
    /\ apc \in {"push", "add"} => aconn \in Sources
RoomForPushers ==
    Len(dataQueue) + Cardinality(Pushers) <= HWM + Cardinality(Workers)
IndInv == TypeOK /\ ConnInHand /\ RoomForPushers

\* Backpressure reaches the peer: while a source is parked nothing more is read
\* from its socket (README.md:250 "приостанавливаются").
PausedNotRead ==
    [][\A s \in Sources : Parked(s) => recvd'[s] = recvd[s]]_vars

-----------------------------------------------------------------------------
(* What the data path implements *)

\* The messages of s that the server holds: the frame being written, the data
\* queue, and what a worker or the park list holds back.
InTransit == Range(pending) \cup Range(dataQueue)
HeldBack(s) ==
    {wmsg[w] : w \in {v \in Workers : wconn[v] = s /\ wpc[v] = "push"}}
        \cup {n \in {pendingMsg[s]} : n # 0}
Flow(s) == {m[2] : m \in {x \in InTransit : x[1] = s}} \cup HeldBack(s)

Accepted(s) == MessagesIn(s, parsed[s])

\* Every message of a source is delivered once and in order, and is lost only
\* with a sink connection, at most one for each.
Abstract == INSTANCE FanIn WITH
    accepted <- [s \in Sources |-> Accepted(s)],
    flow <- [s \in Sources |-> Flow(s)],
    out <- delivered,
    sinks <- adopted,
    connected <- sink # 0

ImplementsFanIn == Abstract!Spec

\* The inductive invariant behind the refinement. A message is held back with
\* its connection from CommitPark to ResumePush and at no other time ...
HoldInv ==
    /\ \A s \in Sources : Armed(s) \/ Queued(s) => pendingMsg[s] = 0
    /\ \A s \in Sources : Parked(s) => pendingMsg[s] # 0
    /\ \A w \in Workers : wpc[w] \in {"parse", "push"} => pendingMsg[wconn[w]] = 0
    /\ \A w \in Workers : wpc[w] = "park" => pendingMsg[wconn[w]] # 0
    /\ apc = "push" => pendingMsg[aconn] # 0
    /\ apc = "add" => pendingMsg[aconn] = 0
    /\ pending # <<>> \/ apc \in {"pump", "unpark", "push", "add", "take"} => sink # 0
    /\ apc \in {"unpark", "push", "add", "take"} => pending = <<>>
\* ... and the messages of a source are in the order of their numbers: the one
\* being written, those in the data queue, the one held back.
InOrder(q) ==
    \A i, j \in DOMAIN q : i < j /\ q[i][1] = q[j][1] => q[i][2] < q[j][2]
OrderInv ==
    /\ InOrder(dataQueue)
    /\ \A p \in Range(pending), m \in Range(dataQueue) : p[1] = m[1] => p[2] < m[2]
    /\ \A s \in Sources : \A n \in HeldBack(s) :
           n <= Accepted(s) /\ \A m \in InTransit : m[1] = s => m[2] < n
    /\ \A m \in InTransit : m[2] <= Accepted(m[1])

-----------------------------------------------------------------------------
(* Progress, as long as there is a sink time and again *)

SinkPresent == []<>(sink # 0)

\* A message that was accepted does not stay in the server: not in the data
\* queue, and not with a source that nobody takes off the park list again. A
\* source may park just after the aggregator has emptied the queue and gone to
\* sleep with no notification to come; only the timeout of epoll_wait() gets
\* its message moving.
MessagesMove ==
    SinkPresent => \A s \in Sources : Flow(s) # {} ~> Flow(s) = {}

\* Input of a live source is read, and the end of its stream closes it: the
\* registration is armed again after every event, be it by the worker or, after
\* a pause, by the aggregator, and arming it again reports what came before.
InputIsRead ==
    SinkPresent =>
        \A s \in Sources :
            live[s] /\ (sent[s] > recvd[s] \/ fin[s]) ~>
                \/ recvd[s] = sent[s] /\ ~fin[s]
                \/ ~live[s]
                \/ s \in addFailed

\* worker.c:286-288 "включая то, что уже могло накопиться в rx ..., оно спокойно
\* подождёт разморозки в буфере": frames that were in rx when the source was
\* parked are handled when it is resumed. The code only puts the descriptor back
\* into epoll; a peer that sends nothing more causes no event.
BufferedFramesHandled ==
    SinkPresent =>
        \A s \in Sources :
            HasFrame(s) ~> ~HasFrame(s) \/ ~live[s] \/ closing[s] \/ s \in addFailed
=============================================================================
