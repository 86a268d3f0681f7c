------------------------------ MODULE Handshake ------------------------------
(***************************************************************************)
(* The life of a connection outside the data path: accept() by a listener, *)
(* the HTTP request read in pieces, its answer written in pieces, and then *)
(* service as a source, the hand-over of a sink to the aggregator, or the  *)
(* end (listener.c, worker.c, conn.c, agg.c). What becomes of the frames   *)
(* of an open source is the subject of Pipeline and Source: here an open   *)
(* source is always re-armed for input, or closed. That it may be parked   *)
(* (worker.c:285-296), out of epoll and deaf to its peer, is in Pipeline;  *)
(* that it may be re-armed for output too (line 310), in Source.           *)
(*                                                                         *)
(* Lengths are in units: a request has request[c].size of them, and every  *)
(* frame the peer sends behind it counts as one.                           *)
(***************************************************************************)
EXTENDS Naturals, Sequences, FiniteSets, Functions, Http

CONSTANTS
    Conns,          \* connections that arrive
    Workers,        \* threads of the worker pool
    Cases,          \* what the peers may ask for, and how long their requests are
    MaxEarly,       \* bound: frames a peer sends behind its request
    SinkPath,       \* conf->sinkPath
    HandshakeMax,   \* conf->handshakeMax, the limit of rx
    Chunk,          \* room bufRecv() insists on before each recv()
    NoConn

ASSUME RequestAssumption ==
    \A f \in Cases : DOMAIN f = Conns /\ \A c \in Conns : f[c].size \in Nat \ {0}
ASSUME TextAssumption ==
    \A f \in Cases : \A c \in Conns : f[c].text \in Requests
ASSUME PathAssumption == SinkPath # WithHeaders
ASSUME SizeAssumption == Chunk \in Nat \ {0} /\ HandshakeMax \in Nat /\ Chunk <= HandshakeMax
ASSUME BoundAssumption == MaxEarly \in Nat
ASSUME WorkerAssumption == IsFiniteSet(Workers) /\ Workers # {}
ASSUME ConnAssumption == IsFiniteSet(Conns) /\ NoConn \notin Conns \cup Workers

VARIABLES
    \* the peer of each connection
    request,    \* what it asks for
    arrived,    \* units of its request that have reached the socket
    frames,     \* frames that have reached the socket behind the request
    fin,        \* it has closed its end
    \* Conn_t
    state,      \* c->state; "new" before accept(), "closed" once freed
    role,
    closeAfterSend,
    read,       \* units of the request in rx, or taken out of it
    rx,         \* frames in rx
    tx,         \* "empty", "queued", "blocked" (EAGAIN)
    epoll,      \* registration: ingest ("in", "inout", "off"), "agg" or "absent"
    \* shared by the threads
    queue, ctrlQueue, sink,
    \* worker threads
    wpc, wconn,
    \* history
    answer,     \* status line that was put into tx
    answered,   \* it has been written out
    parsed      \* frames taken out of rx

peerVars == <<request, arrived, frames, fin>>
bufVars == <<read, rx, parsed>>
stateVars == <<state, role, closeAfterSend>>
answerVars == <<answer, answered>>
shared == <<queue, ctrlQueue, sink>>
workerVars == <<wpc, wconn>>
vars == <<peerVars, bufVars, stateVars, answerVars, tx, epoll, shared, workerVars>>

TypeOK ==
    /\ request \in Cases
    /\ arrived \in [Conns -> Nat] /\ read \in [Conns -> Nat]
    /\ \A c \in Conns : read[c] <= arrived[c] /\ arrived[c] <= request[c].size
    /\ frames \in [Conns -> 0..MaxEarly]
    /\ rx \in [Conns -> 0..MaxEarly] /\ parsed \in [Conns -> 0..MaxEarly]
    /\ fin \in [Conns -> BOOLEAN]
    /\ state \in [Conns -> {"new", "handshakeRead", "handshakeSend", "wsOpen", "closed"}]
    /\ role \in [Conns -> {"undecided", "source", "sink"}]
    /\ closeAfterSend \in [Conns -> BOOLEAN]
    /\ tx \in [Conns -> {"empty", "queued", "blocked"}]
    /\ epoll \in [Conns -> {"in", "inout", "off", "agg", "absent"}]
    /\ queue \in Seq(Conns) /\ ctrlQueue \in Seq(Conns)
    /\ sink \in Conns \cup {NoConn}
    /\ wpc \in [Workers -> {"pop", "read", "send", "sent", "open", "handoff"}]
    /\ wconn \in [Workers -> Conns \cup {NoConn}]
    /\ answer \in [Conns -> {"none", "101", "400", "426", "431"}]
    /\ answered \in [Conns -> BOOLEAN]

Init ==
    /\ request \in Cases
    /\ arrived = [c \in Conns |-> 0]
    /\ frames = [c \in Conns |-> 0]
    /\ fin = [c \in Conns |-> FALSE]
    /\ state = [c \in Conns |-> "new"]
    /\ role = [c \in Conns |-> "undecided"]
    /\ closeAfterSend = [c \in Conns |-> FALSE]
    /\ read = [c \in Conns |-> 0]
    /\ rx = [c \in Conns |-> 0]
    /\ parsed = [c \in Conns |-> 0]
    /\ tx = [c \in Conns |-> "empty"]
    /\ epoll = [c \in Conns |-> "absent"]
    /\ queue = <<>> /\ ctrlQueue = <<>> /\ sink = NoConn
    /\ wpc = [w \in Workers |-> "pop"]
    /\ wconn = [w \in Workers |-> NoConn]
    /\ answer = [c \in Conns |-> "none"]
    /\ answered = [c \in Conns |-> FALSE]

-----------------------------------------------------------------------------
(* The peers *)

Connected(c) == state[c] \notin {"new", "closed"}

\* The next unit of the request, or a frame behind the request: a peer need
\* not wait for the answer.
PeerSend(c) ==
    /\ Connected(c) /\ ~fin[c]
    /\ IF arrived[c] < request[c].size
       THEN arrived' = [arrived EXCEPT ![c] = @ + 1] /\ frames' = frames
       ELSE /\ frames[c] < MaxEarly
            /\ frames' = [frames EXCEPT ![c] = @ + 1]
            /\ arrived' = arrived
    /\ UNCHANGED <<request, fin, bufVars, stateVars, answerVars, tx, epoll, shared, workerVars>>

PeerClose(c) ==
    /\ Connected(c) /\ ~fin[c]
    /\ fin' = [fin EXCEPT ![c] = TRUE]
    /\ UNCHANGED <<request, arrived, frames, bufVars, stateVars, answerVars, tx, epoll,
                   shared, workerVars>>

\* The peer reads, so a socket whose send() gave EAGAIN is writable again.
PeerDrain(c) ==
    /\ Connected(c) /\ tx[c] = "blocked"
    /\ tx' = [tx EXCEPT ![c] = "queued"]
    /\ UNCHANGED <<peerVars, bufVars, stateVars, answerVars, epoll, shared, workerVars>>

-----------------------------------------------------------------------------
(* The listener *)

\* connectionHandle(): connNew() and EPOLL_CTL_ADD, which may fail.
Accept(c) ==
    /\ state[c] = "new"
    /\ \/ /\ state' = [state EXCEPT ![c] = "handshakeRead"]
          /\ epoll' = [epoll EXCEPT ![c] = "in"]
       \/ state' = [state EXCEPT ![c] = "closed"] /\ epoll' = epoll
    /\ UNCHANGED <<peerVars, bufVars, role, closeAfterSend, answerVars, tx,
                   shared, workerVars>>

Unread(c) == arrived[c] > read[c] \/ frames[c] > rx[c] + parsed[c] \/ fin[c]

Armed(c) == epoll[c] \in {"in", "inout"}

\* What epoll_wait() reports: EPOLL_CTL_MOD reports again what came before it.
Ready(c) == Unread(c) \/ (epoll[c] = "inout" /\ tx[c] # "blocked")

\* EPOLLONESHOT leaves the registration disabled.
ListenerPush(c) ==
    /\ Armed(c) /\ Ready(c)
    /\ epoll' = [epoll EXCEPT ![c] = "off"]
    /\ queue' = Append(queue, c)
    /\ UNCHANGED <<peerVars, bufVars, stateVars, answerVars, tx, ctrlQueue,
                   sink, workerVars>>

-----------------------------------------------------------------------------
(* The workers *)

Goto(w, label) == wpc' = [wpc EXCEPT ![w] = label]
Release(w) == Goto(w, "pop") /\ wconn' = [wconn EXCEPT ![w] = NoConn]

Rearm(w, events) ==
    /\ epoll' = [epoll EXCEPT ![wconn[w]] = events]
    /\ Release(w)

\* connClose(): EPOLL_CTL_DEL, close() and free().
Destroy(w) ==
    /\ state' = [state EXCEPT ![wconn[w]] = "closed"]
    /\ epoll' = [epoll EXCEPT ![wconn[w]] = "absent"]
    /\ Release(w)

\* workerThread() takes a connection and looks at its state.
WorkerPop(w) ==
    LET c == Head(queue) IN
    /\ wpc[w] = "pop" /\ queue # <<>>
    /\ queue' = Tail(queue)
    /\ wconn' = [wconn EXCEPT ![w] = c]
    /\ Goto(w, CASE state[c] = "handshakeRead" -> "read"
                 [] state[c] = "handshakeSend" -> "send"
                 [] OTHER -> "open")
    /\ UNCHANGED <<peerVars, bufVars, stateVars, answerVars, tx, epoll,
                   ctrlQueue, sink>>

\* bufRecv() reads all there is; before each recv(), the last one included, it
\* wants Chunk more units of room.
TooLong(c) == arrived[c] + frames[c] + Chunk > HandshakeMax
Complete(c) == arrived[c] = request[c].size

ReadAll(c) ==
    /\ read' = [read EXCEPT ![c] = arrived[c]]
    /\ rx' = [rx EXCEPT ![c] = frames[c]]

\* An answer goes into tx and handleHandshakeSend() follows.
Reply(w, status) ==
    /\ answer' = [answer EXCEPT ![wconn[w]] = status]
    /\ tx' = [tx EXCEPT ![wconn[w]] = "queued"]
    /\ state' = [state EXCEPT ![wconn[w]] = "handshakeSend"]
    /\ Goto(w, "send")

\* The request is not complete: wait for more, or close at end of stream.
ReadPart(w) ==
    LET c == wconn[w] IN
    /\ wpc[w] = "read" /\ ~TooLong(c) /\ ~Complete(c)
    /\ ReadAll(c)
    /\ IF fin[c] THEN Destroy(w) ELSE Rearm(w, "in") /\ state' = state
    /\ UNCHANGED <<peerVars, parsed, role, closeAfterSend, answerVars, tx, shared>>

ReadTooLong(w) ==
    LET c == wconn[w] IN
    /\ wpc[w] = "read" /\ TooLong(c)
    /\ ReadAll(c)
    /\ Reply(w, "431")
    /\ closeAfterSend' = [closeAfterSend EXCEPT ![c] = TRUE]
    /\ UNCHANGED <<peerVars, parsed, role, answered, epoll, shared, wconn>>

Status(hr) ==
    CASE hr = "HS_OK" -> "101"
      [] hr = "HS_BAD_VERSION" -> "426"
      [] OTHER -> "400"

\* httpParseHandshake() decides; a peer that has closed its end behind the
\* request gets its answer and is closed.
ReadRequest(w) ==
    LET c == wconn[w]
        hr == Judge(request[c].text)
    IN
    /\ wpc[w] = "read" /\ ~TooLong(c) /\ Complete(c)
    /\ ReadAll(c)
    /\ Reply(w, Status(hr))
    /\ role' = IF hr # "HS_OK" THEN role
               ELSE [role EXCEPT ![c] = IF Path(request[c].text) = SinkPath
                                        THEN "sink" ELSE "source"]
    /\ closeAfterSend' = [closeAfterSend EXCEPT ![c] = fin[c] \/ hr # "HS_OK"]
    /\ UNCHANGED <<peerVars, parsed, answered, epoll, shared, wconn>>

\* flushTx() in handleHandshakeSend(): all of the answer is written, ...
FlushAll(w) ==
    LET c == wconn[w] IN
    /\ wpc[w] = "send" /\ tx[c] # "blocked"
    /\ tx' = [tx EXCEPT ![c] = "empty"]
    /\ answered' = [answered EXCEPT ![c] = TRUE]
    /\ Goto(w, "sent")
    /\ UNCHANGED <<peerVars, bufVars, stateVars, answer, epoll, shared, wconn>>

\* Mutant: after EAGAIN only input is waited for.
FlushSome_NoOut(w) ==
    /\ wpc[w] = "send" /\ tx[wconn[w]] # "empty"
    /\ tx' = [tx EXCEPT ![wconn[w]] = "blocked"]
    /\ Rearm(w, "in")
    /\ UNCHANGED <<peerVars, bufVars, stateVars, answerVars, shared>>

\* Mutant: EAGAIN passes for the end of the answer.
FlushSome_Sent(w) ==
    /\ wpc[w] = "send" /\ tx[wconn[w]] # "empty"
    /\ tx' = [tx EXCEPT ![wconn[w]] = "blocked"]
    /\ Goto(w, "sent")
    /\ UNCHANGED <<peerVars, bufVars, stateVars, answerVars, epoll, shared, wconn>>

\* ... or a part of it ...
FlushSome(w) ==
    /\ wpc[w] = "send" /\ tx[wconn[w]] # "empty"
    /\ tx' = [tx EXCEPT ![wconn[w]] = "blocked"]
    /\ Rearm(w, "inout")
    /\ UNCHANGED <<peerVars, bufVars, stateVars, answerVars, shared>>

\* ... or the peer is gone.
FlushError(w) ==
    /\ wpc[w] = "send" /\ fin[wconn[w]]
    /\ Destroy(w)
    /\ UNCHANGED <<peerVars, bufVars, role, closeAfterSend, answerVars, tx, shared>>

\* DISP_CLOSE after a complete answer.
CloseSent(w) ==
    /\ wpc[w] = "sent" /\ closeAfterSend[wconn[w]]
    /\ Destroy(w)
    /\ UNCHANGED <<peerVars, bufVars, role, closeAfterSend, answerVars, tx, shared>>

\* A source is open, and handleWsOpen() follows at once.
OpenSource(w) ==
    LET c == wconn[w] IN
    /\ wpc[w] = "sent" /\ ~closeAfterSend[c] /\ role[c] # "sink"
    /\ state' = [state EXCEPT ![c] = "wsOpen"]
    /\ Goto(w, "open")
    /\ UNCHANGED <<peerVars, bufVars, role, closeAfterSend, answerVars, tx, epoll,
                   shared, wconn>>

\* A sink leaves the ingest epoll (c->epollfd = -1) ...
Unregister(w) ==
    LET c == wconn[w] IN
    /\ wpc[w] = "sent" /\ ~closeAfterSend[c] /\ role[c] = "sink"
    /\ epoll' = [epoll EXCEPT ![c] = "absent"]
    /\ Goto(w, "handoff")
    /\ UNCHANGED <<peerVars, bufVars, stateVars, answerVars, tx, shared, wconn>>

\* Mutant: the sink goes back into the ingest epoll as well.
HandOff_Rearm(w) ==
    /\ wpc[w] = "handoff"
    /\ ctrlQueue' = Append(ctrlQueue, wconn[w])
    /\ Rearm(w, "in")
    /\ UNCHANGED <<peerVars, bufVars, stateVars, answerVars, tx, queue, sink>>

\* ... before it is given to the aggregator with a MSG_SINK_ADD.
HandOff(w) ==
    /\ wpc[w] = "handoff"
    /\ ctrlQueue' = Append(ctrlQueue, wconn[w])
    /\ Release(w)
    /\ UNCHANGED <<peerVars, bufVars, stateVars, answerVars, tx, epoll, queue, sink>>

\* Mutant: end of stream is not noticed.
Endings_Frames(c) == {FALSE} \cup (IF frames[c] > parsed[c] THEN {TRUE} ELSE {})

\* What ends an open connection: end of stream, or a frame that is a CLOSE or
\* breaks the protocol.
Endings(c) == {fin[c]} \cup (IF frames[c] > parsed[c] THEN {TRUE} ELSE {})

ParseAll(c) ==
    /\ read' = [read EXCEPT ![c] = arrived[c]]
    /\ rx' = [rx EXCEPT ![c] = 0]
    /\ parsed' = [parsed EXCEPT ![c] = frames[c]]

\* handleWsOpen() reads all there is and takes it out of rx, with a data queue
\* below its watermark: the park is left to Pipeline.
Serve(w) ==
    LET c == wconn[w] IN
    /\ wpc[w] = "open"
    /\ ParseAll(c)
    /\ \E end \in Endings(c) :
           IF end THEN Destroy(w) ELSE Rearm(w, "in") /\ state' = state
    /\ UNCHANGED <<peerVars, role, closeAfterSend, answerVars, tx, shared>>

WorkerStep(w) ==
    \/ WorkerPop(w)
    \/ ReadPart(w) \/ ReadTooLong(w) \/ ReadRequest(w)
    \/ FlushAll(w) \/ FlushSome(w) \/ FlushError(w)
    \/ CloseSent(w) \/ OpenSource(w) \/ Unregister(w) \/ HandOff(w)
    \/ Serve(w)

-----------------------------------------------------------------------------
(* The aggregator *)

CloseSink ==
    /\ state' = [state EXCEPT ![sink] = "closed"]
    /\ epoll' = [epoll EXCEPT ![sink] = "absent"]
    /\ sink' = NoConn

\* adoptSink() closes the sink that is there ...
ReplaceSink ==
    /\ ctrlQueue # <<>> /\ sink # NoConn
    /\ CloseSink
    /\ UNCHANGED <<peerVars, bufVars, role, closeAfterSend, answerVars, tx, queue,
                   ctrlQueue, workerVars>>

\* ... and registers the new one in the aggregator's epoll.
AdoptSink ==
    /\ ctrlQueue # <<>> /\ sink = NoConn
    /\ sink' = Head(ctrlQueue)
    /\ ctrlQueue' = Tail(ctrlQueue)
    /\ epoll' = [epoll EXCEPT ![Head(ctrlQueue)] = "agg"]
    /\ UNCHANGED <<peerVars, bufVars, stateVars, answerVars, tx, queue, workerVars>>

\* sinkReadAndHandle(): the registration is level-triggered.
SinkInput ==
    /\ sink # NoConn /\ Unread(sink)
    /\ ParseAll(sink)
    /\ \E end \in Endings(sink) :
           IF end THEN CloseSink ELSE UNCHANGED <<state, epoll, sink>>
    /\ UNCHANGED <<peerVars, role, closeAfterSend, answerVars, tx, queue,
                   ctrlQueue, workerVars>>

AggStep == ReplaceSink \/ AdoptSink \/ SinkInput

PeerStep(c) == PeerSend(c) \/ PeerClose(c) \/ PeerDrain(c)

Next ==
    \/ \E c \in Conns : PeerStep(c) \/ Accept(c) \/ ListenerPush(c)
    \/ \E w \in Workers : WorkerStep(w)
    \/ AggStep

Spec == Init /\ [][Next]_vars

\* The server's threads keep running, and a peer reads what it is sent: an
\* answer is short, so its writes do not meet EAGAIN for ever.
Fairness ==
    /\ \A c \in Conns : WF_vars(ListenerPush(c)) /\ WF_vars(PeerDrain(c))
    /\ \A w \in Workers : WF_vars(WorkerStep(w)) /\ SF_vars(FlushAll(w))
    /\ WF_vars(AggStep)

FairSpec == Spec /\ Fairness

-----------------------------------------------------------------------------
(* Safety *)

InWork(c) == \E w \in Workers : wconn[w] = c

\* Whose hands c is in.
Places(c) ==
    {<<"epoll", 0>> : x \in {y \in {c} : Armed(y)}}
        \cup {<<"queue", i>> : i \in {j \in DOMAIN queue : queue[j] = c}}
        \cup {<<"worker", w>> : w \in {v \in Workers : wconn[v] = c}}
        \cup {<<"control", i>> : i \in {j \in DOMAIN ctrlQueue : ctrlQueue[j] = c}}
        \cup {<<"aggregator", 0>> : x \in {y \in {c} : sink = y}}

\* README.md:314-317: one thread at a time works on a connection, and the sink
\* belongs to the aggregator alone. A connection that exists is in exactly one
\* hand, through the hand-over from a worker to the aggregator and the change
\* of sink; once freed it is in none, so nobody can touch it any more.
OneHolder ==
    /\ TypeOK
    /\ \A c \in Conns :
           /\ \A p, q \in Places(c) : p = q
           /\ Places(c) # {} <=> Connected(c)

\* The inductive invariant behind it: nobody has a connection twice, ...
HeldOnce ==
    /\ \A w \in Workers : wconn[w] = NoConn <=> wpc[w] = "pop"
    /\ \A v, w \in Workers : wconn[v] = wconn[w] /\ wconn[v] # NoConn => v = w
    /\ IsInjective(queue) /\ IsInjective(ctrlQueue)
\* ... and no two have the same one.
PlacesApart(c) ==
    /\ Armed(c) =>
           c \notin Range(queue) /\ ~InWork(c) /\ c \notin Range(ctrlQueue) /\ c # sink
    /\ c \in Range(queue) => ~InWork(c) /\ c \notin Range(ctrlQueue) /\ c # sink
    /\ InWork(c) => c \notin Range(ctrlQueue) /\ c # sink
    /\ c \in Range(ctrlQueue) => c # sink
    /\ Connected(c) <=> Armed(c) \/ c \in Range(queue) \/ InWork(c)
                            \/ c \in Range(ctrlQueue) \/ c = sink
PlaceInv == TypeOK /\ HeldOnce /\ \A c \in Conns : PlacesApart(c)

\* A connection is served, as a source or as the sink of SinkPath, only when its
\* request asks for the upgrade by the rules of README.md:166-178, and no
\* request that keeps to them is refused for what it says.
JudgedRightly ==
    \A c \in Conns :
        LET r == request[c].text IN
        /\ answer[c] = "101" => AsksUpgrade(r)
        /\ answer[c] \in {"400", "426"} => ~(AsksUpgrade(r) /\ WellFormed(r))
        /\ sink = c => r.line[2] = SinkPath

\* No frame is taken for data before the connection has been granted the
\* upgrade, rightly, and told so, whatever a peer sends ahead of the answer.
UpgradeFirst ==
    /\ \A c \in Conns : parsed[c] > 0 => answer[c] = "101" /\ answered[c]
    /\ JudgedRightly

\* The inductive invariant behind it. What a worker does with a connection fits
\* its state; what waits for the aggregator, or is its sink, has had its 101.
Granted(c) == answer[c] = "101" /\ answered[c]
InHand(w) ==
    LET c == wconn[w] IN
    /\ wpc[w] = "read" => state[c] = "handshakeRead"
    /\ wpc[w] = "send" => state[c] = "handshakeSend" /\ ~answered[c]
    /\ wpc[w] = "sent" => state[c] = "handshakeSend" /\ answered[c]
    /\ wpc[w] = "open" => state[c] = "wsOpen"
    /\ wpc[w] = "handoff" => state[c] = "handshakeSend" /\ Granted(c) /\ role[c] = "sink"
StateFits(c) ==
    /\ state[c] \in {"new", "handshakeRead"} => answer[c] = "none"
    /\ answer[c] = "none" => ~answered[c]
    /\ state[c] = "handshakeSend" =>
           answer[c] # "none" /\ (answer[c] # "101" => closeAfterSend[c])
    /\ state[c] = "handshakeSend" /\ (Armed(c) \/ c \in Range(queue)) => ~answered[c]
    /\ state[c] = "wsOpen" => Granted(c)
    /\ c \in Range(ctrlQueue) \/ c = sink =>
           state[c] = "handshakeSend" /\ Granted(c) /\ role[c] = "sink"
    /\ parsed[c] > 0 => Granted(c)
Judged(c) ==
    LET hr == Judge(request[c].text) IN
    /\ answer[c] \notin {"none", "431"} => answer[c] = Status(hr)
    /\ role[c] = "sink" => hr = "HS_OK" /\ Path(request[c].text) = SinkPath
StageInv ==
    /\ \A w \in Workers : InHand(w)
    /\ \A c \in Conns : StateFits(c) /\ Judged(c)

\* The stages of README.md "State Machine соединения".
Waiting(c) == \/ c \in Range(ctrlQueue)
              \/ \E w \in Workers : wconn[w] = c /\ wpc[w] = "handoff"

Stage(c) ==
    CASE state[c] = "handshakeRead" -> "request"
      [] state[c] = "wsOpen" -> "source"
      [] state[c] = "handshakeSend" ->
             IF c = sink THEN "sink" ELSE IF Waiting(c) THEN "handoff" ELSE "answer"
      [] OTHER -> state[c]

Abstract == INSTANCE Session WITH
    stage <- [c \in Conns |-> Stage(c)],
    granted <- [c \in Conns |-> answer[c] = "101"],
    answered <- answered

\* A request is judged once and answered once; a connection is served or handed
\* over only after a complete 101, and there is one sink at a time.
ImplementsSession == Abstract!Spec

\* README.md:412 "DEFAULT_HANDSHAKE_MAX | 8192 | Макс. размер заголовков
\* рукопожатия, байт": a request within the limit is not refused for its
\* length. The code refuses it as soon as less than a chunk of room is left.
WithinLimitAccepted ==
    \A c \in Conns : answer[c] = "431" => arrived[c] + frames[c] > HandshakeMax

\* README.md:321-324: what was read before the end of stream "не отбрасывает
\* уже прочитанное — разбирает его, а закрывает соединение уже после разбора".
\* handleHandshakeRead() drops the frames that came with the request when the
\* end of stream came with them too.
ReadBeforeEndIsHandled ==
    \A c \in Conns : state[c] = "closed" /\ answer[c] = "101" /\ answered[c] => rx[c] = 0

-----------------------------------------------------------------------------
(* Progress *)

\* Every complete request, and every request cut short or too long, is answered
\* or its connection closed, also when the answer takes several writes.
RequestsAnswered ==
    \A c \in Conns :
        state[c] = "handshakeRead" /\ (Complete(c) \/ TooLong(c) \/ fin[c]) ~>
            answered[c] \/ state[c] = "closed"

\* End of stream closes a connection from accept() to the hand-over of a sink, and
\* while it is served: be it in epoll, half answered, or between a worker and the
\* aggregator. A source that is parked is not among these stages: it is in no epoll
\* set (worker.c:294), and nobody sees its end of stream before it is resumed. A
\* refused peer is told so and closed, whether it goes or not.
EndsClosed ==
    \A c \in Conns :
        /\ Connected(c) /\ fin[c] ~> state[c] = "closed"
        /\ answer[c] \in {"400", "426", "431"} ~> state[c] = "closed"
=============================================================================
