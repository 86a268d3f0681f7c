------------------------------ MODULE Upstream ------------------------------
(***************************************************************************)
(* The upstream reactor (ws_client.c): one thread with one epoll that      *)
(* keeps a WebSocket client connected to each --upstream server and feeds  *)
(* the messages it receives into the data queue.                           *)
(*                                                                         *)
(* Script[c] lists the connections client c makes; each is the stream the  *)
(* remote server sends on it, an answer to the HTTP upgrade ("101" or      *)
(* "refuse") and then frames:                                              *)
(*   "whole"                  an unfragmented message,                     *)
(*   "begin", "more", "end"   the frames of a fragmented one,              *)
(*   "ping", "pong", "close"  control frames,                              *)
(*   "bad"                    a frame that breaks the protocol or a limit. *)
(* Elements are numbered by position: the socket holds recvd+1 .. sent and *)
(* rx holds parsed+1 .. recvd. A message is its client, its connection and *)
(* the positions of its frames. Of the data queue only the size matters    *)
(* here; the threads that use it beside the reactor, which are the workers *)
(* and the aggregator, are OthersCheck, OthersPush and AggTake.            *)
(***************************************************************************)
EXTENDS Naturals, Sequences, FiniteSets

CONSTANTS
    N,          \* number of upstream clients
    Script,     \* Script[c][k]: the stream of the k-th connection of c
    HWM, LWM,   \* the watermarks of the data queue
    Faults,     \* what may go wrong: "break" (a connection fails), "fin" (the
                \* server closes), "watch" (epoll_ctl(ADD) gives ENOSPC or
                \* ENOMEM), "stop" (the program is told to stop)
    MaxStreak,  \* bound: connects that fail in a row
    Others,     \* threads that push to the data queue beside the reactor: the
                \* workers and the aggregator
    MaxOthers   \* bound: messages these push

Clients == 1..N
DataKinds == {"whole", "begin", "more", "end"}
Kinds == DataKinds \cup {"101", "refuse", "ping", "pong", "close", "bad"}

ASSUME ClientAssumption == N \in Nat
ASSUME StreamAssumption == Script \in [Clients -> Seq(Seq(Kinds))]
ASSUME MarksAssumption == HWM \in Nat /\ LWM \in Nat /\ 1 <= LWM /\ LWM < HWM
ASSUME LimitAssumption == Faults \subseteq {"break", "fin", "watch", "stop"} /\ MaxStreak \in Nat
ASSUME OthersAssumption == Others \in Nat /\ MaxOthers \in Nat

VARIABLES
    net,        \* the socket's other end: link, fin, sent, and conn, the
                \* number of the connection
    client,     \* UpstreamClient_t and its epoll registration
    size,       \* queueSize(conf->dataQueue)
    others,     \* the other threads: hand, how many of them are between their
                \* look at the size and their push, and checked, how many
                \* looks have ended in a push or will
    loop,       \* where upstreamReactorThread() is
    idx,        \* i of reconnectClients() and resumePausedClients()
    batch,      \* the events of epoll_wait() not handled yet
    cur, hpc,   \* the client being handled, and where its handler is
    shutdown,   \* conf->shutdown
    streak,     \* history: failures of a client since it was last OPEN
    fed         \* history: what the reactor has pushed

loopVars == <<loop, idx, batch, cur, hpc>>
vars == <<net, client, size, others, loopVars, shutdown, streak, fed>>

-----------------------------------------------------------------------------
(* The client *)

MaxAttempt == 10

\* The loop of reconnectDelayMs(): doubled until 30000 is reached, then cut.
ReconnectDelayMs(attempt) ==
    LET delay[a \in 0..MaxAttempt] ==
            IF a = 0 THEN 1000
            ELSE IF delay[a - 1] < 30000 THEN 2 * delay[a - 1] ELSE delay[a - 1]
    IN IF delay[attempt] > 30000 THEN 30000 ELSE delay[attempt]

\* The next attempt is put off, and the one after that for longer.
PutOff(r) ==
    [r EXCEPT !.wait = ReconnectDelayMs(r.attempt),
              !.attempt = IF @ < MaxAttempt THEN @ + 1 ELSE @]

\* calloc() in upstreamAdd(): reconnectAtMs = 0, so it connects at once.
Fresh ==
    [state |-> "DISCONNECTED", fd |-> FALSE, interest |-> {},
     recvd |-> 0, parsed |-> 0, tx |-> "empty",
     fragmenting |-> FALSE, msg |-> <<>>,
     pendingMsg |-> <<>>, readPaused |-> FALSE,
     attempt |-> 0, wait |-> 0]

\* Mutant: the pause outlives the connection.
Disconnected_StillPaused(r) ==
    PutOff([Fresh EXCEPT !.attempt = r.attempt, !.readPaused = r.readPaused])

\* Mutant: a message begun on the old connection is continued on the new one.
Disconnected_StillFragmenting(r) ==
    PutOff([Fresh EXCEPT !.attempt = r.attempt, !.fragmenting = r.fragmenting,
                         !.msg = r.msg])

\* upstreamDisconnect(): everything of the connection goes, the message held
\* back with it.
Disconnected(r) == PutOff([Fresh EXCEPT !.attempt = r.attempt])

Wanted(r) ==
    (IF ~r.readPaused /\ r.state \in {"HANDSHAKE", "OPEN"} THEN {"in"} ELSE {}) \cup
    (IF r.state = "CONNECTING" \/ r.tx # "empty" THEN {"out"} ELSE {})

\* updateEvents(); EPOLLRDHUP is always asked for.
WithEvents(r) == [r EXCEPT !.interest = Wanted(r)]

\* bufAppend() to tx: a socket that gave EAGAIN stays blocked.
WithTx(r) == [r EXCEPT !.tx = IF @ = "blocked" THEN @ ELSE "queued"]

\* queueMaskedFrame()
WithFrame(r) == WithEvents(WithTx(r))

\* Mutant: the state changes after updateEvents() has looked at it.
Closing_LateState(r) == [WithFrame(r) EXCEPT !.state = "CLOSING"]

\* beginClose(), and the answer to a CLOSE: the state changes first.
Closing(r) == WithFrame([r EXCEPT !.state = "CLOSING"])

Stream(c) == Script[c][net[c].conn]
HasFrame(c) == client[c].parsed < client[c].recvd
NextFrame(c) == Stream(c)[client[c].parsed + 1]

NoNet(k) == [link |-> "none", fin |-> FALSE, sent |-> 0, conn |-> k]

\* What epoll_wait() would report for c (level-triggered). EPOLLERR decides
\* alone, whatever else is set.
Mask(c) ==
    IF ~client[c].fd THEN {}
    ELSE IF net[c].link = "broken" THEN {"err"}
    ELSE {e \in client[c].interest :
             \/ e = "in" /\ (net[c].sent > client[c].recvd \/ net[c].fin)
             \/ e = "out" /\ net[c].link = "up" /\ client[c].tx # "blocked"}
         \cup (IF net[c].fin THEN {"hup"} ELSE {})

NoBatch == [c \in {} |-> {}]

ClientType ==
    [state : {"DISCONNECTED", "CONNECTING", "HANDSHAKE", "OPEN", "CLOSING"},
     fd : BOOLEAN, interest : SUBSET {"in", "out"},
     recvd : Nat, parsed : Nat, tx : {"empty", "queued", "blocked"},
     fragmenting : BOOLEAN, msg : Seq(Nat),
     pendingMsg : Seq(Seq(Nat)), readPaused : BOOLEAN,
     attempt : 0..MaxAttempt, wait : 0..30000]

TypeOK ==
    /\ net \in [Clients -> [link : {"none", "connecting", "up", "broken"},
                            fin : BOOLEAN, sent : Nat, conn : Nat]]
    /\ client \in [Clients -> ClientType]
    /\ size \in Nat /\ others \in [checked : 0..MaxOthers, hand : 0..Others]
    /\ loop \in {"top", "reconnect", "resume", "wait", "batch", "done"}
    /\ idx \in 0..(N + 1)
    /\ DOMAIN batch \subseteq Clients
    /\ \A c \in DOMAIN batch : batch[c] \subseteq {"in", "out", "err", "hup"}
    /\ cur \in 0..N
    /\ hpc \in {"idle", "out", "in", "frames", "push", "resume", "recv", "hup"}
    /\ shutdown \in BOOLEAN
    /\ streak \in [Clients -> Nat]
    /\ fed \in Seq(Clients \X Nat \X Seq(Nat))

Init ==
    /\ net = [c \in Clients |-> NoNet(0)]
    /\ client = [c \in Clients |-> Fresh]
    /\ size = 0 /\ others = [checked |-> 0, hand |-> 0]
    /\ loop = "top" /\ idx = 0 /\ batch = NoBatch /\ cur = 0 /\ hpc = "idle"
    /\ shutdown = FALSE
    /\ streak = [c \in Clients |-> 0]
    /\ fed = <<>>

-----------------------------------------------------------------------------
(* Outside the reactor: the network and the servers, the clock, the other  *)
(* threads at the data queue, main().                                      *)

\* The k-th connection is established, or not.
Accept(c) ==
    /\ net[c].link = "connecting"
    /\ net' = [net EXCEPT ![c].link = "up"]
    /\ UNCHANGED <<client, size, others, loopVars, shutdown, streak, fed>>

Break(c) ==
    /\ "break" \in Faults
    /\ net[c].link \in {"connecting", "up"}
    /\ net' = [net EXCEPT ![c].link = "broken"]
    /\ UNCHANGED <<client, size, others, loopVars, shutdown, streak, fed>>

PeerSend(c) ==
    /\ net[c].link = "up" /\ ~net[c].fin
    /\ net[c].sent < Len(Stream(c))
    /\ net' = [net EXCEPT ![c].sent = @ + 1]
    /\ UNCHANGED <<client, size, others, loopVars, shutdown, streak, fed>>

PeerFin(c) ==
    /\ "fin" \in Faults
    /\ net[c].link = "up" /\ ~net[c].fin
    /\ net' = [net EXCEPT ![c].fin = TRUE]
    /\ UNCHANGED <<client, size, others, loopVars, shutdown, streak, fed>>

PeerDrain(c) ==
    /\ client[c].tx = "blocked"
    /\ client' = [client EXCEPT ![c].tx = "queued"]
    /\ UNCHANGED <<net, size, others, loopVars, shutdown, streak, fed>>

\* nowMs() reaches reconnectAtMs (bound: while Script has a connection left).
Elapse(c) ==
    /\ client[c].wait > 0
    /\ net[c].conn < Len(Script[c])
    /\ client' = [client EXCEPT ![c].wait = 0]
    /\ UNCHANGED <<net, size, others, loopVars, shutdown, streak, fed>>

\* A worker finds the queue below the high watermark, or the aggregator finds
\* it at the low one or below: committed to push() ...
OthersCheck ==
    /\ size < HWM
    /\ others.hand < Others /\ others.checked < MaxOthers
    /\ others' = [checked |-> others.checked + 1, hand |-> others.hand + 1]
    /\ UNCHANGED <<net, client, size, loopVars, shutdown, streak, fed>>

\* ... which does not look again.
OthersPush ==
    /\ others.hand > 0
    /\ size' = size + 1
    /\ others' = [others EXCEPT !.hand = @ - 1]
    /\ UNCHANGED <<net, client, loopVars, shutdown, streak, fed>>

AggTake ==
    /\ size > 0
    /\ size' = size - 1
    /\ UNCHANGED <<net, client, others, loopVars, shutdown, streak, fed>>

Stop ==
    /\ "stop" \in Faults /\ ~shutdown
    /\ shutdown' = TRUE
    /\ UNCHANGED <<net, client, size, others, loopVars, streak, fed>>

NetStep(c) == Accept(c) \/ Break(c) \/ PeerSend(c) \/ PeerFin(c) \/ PeerDrain(c)

-----------------------------------------------------------------------------
(* upstreamReactorThread(): the loop                                       *)

\* Mutant: the loop ends only when every client is disconnected.
Turn_WaitForAll ==
    /\ loop = "top"
    /\ IF shutdown /\ \A c \in Clients : ~client[c].fd
       THEN loop' = "done" /\ idx' = 0
       ELSE loop' = "reconnect" /\ idx' = 1
    /\ UNCHANGED <<net, client, size, others, batch, cur, hpc, shutdown, streak, fed>>

\* while (!shutdown): the flag is looked at once per turn.
Turn ==
    /\ loop = "top"
    /\ IF shutdown THEN loop' = "done" /\ idx' = 0
                   ELSE loop' = "reconnect" /\ idx' = 1
    /\ UNCHANGED <<net, client, size, others, batch, cur, hpc, shutdown, streak, fed>>

\* Mutant: a client that was connected once is left alone.
Due_Once(i) ==
    /\ client[i].state = "DISCONNECTED" /\ client[i].wait = 0
    /\ client[i].attempt = 0

\* reconnectClients() has client idx before it; i is due when it is to connect.
Due(i) == client[i].state = "DISCONNECTED" /\ client[i].wait = 0
Reconnecting == loop = "reconnect" /\ idx \in Clients

NotDue ==
    /\ Reconnecting /\ ~Due(idx)
    /\ idx' = idx + 1
    /\ UNCHANGED <<net, client, size, others, loop, batch, cur, hpc, shutdown, streak, fed>>

\* upstreamConnect(): a non-blocking connect() is on its way.
ConnectStarted ==
    /\ Reconnecting /\ Due(idx)
    /\ net' = [net EXCEPT ![idx] = [NoNet(@.conn + 1) EXCEPT !.link = "connecting"]]
    /\ client' = [client EXCEPT ![idx].state = "CONNECTING", ![idx].fd = TRUE,
                                ![idx].interest = {"out"}]
    /\ idx' = idx + 1
    /\ UNCHANGED <<size, others, loop, batch, cur, hpc, shutdown, streak, fed>>

\* Mutant: a connect() that fails at once does not count as an attempt.
ConnectFailed_NoCount ==
    /\ Reconnecting /\ Due(idx) /\ streak[idx] < MaxStreak
    /\ client' = [client EXCEPT ![idx].wait =
                                    ReconnectDelayMs(client[idx].attempt)]
    /\ streak' = [streak EXCEPT ![idx] = @ + 1]
    /\ idx' = idx + 1
    /\ UNCHANGED <<net, size, others, loop, batch, cur, hpc, shutdown, fed>>

\* getaddrinfo(), socket() or connect() fails at once.
ConnectFailed ==
    /\ Reconnecting /\ Due(idx) /\ streak[idx] < MaxStreak
    /\ client' = [client EXCEPT ![idx] = PutOff(@)]
    /\ streak' = [streak EXCEPT ![idx] = @ + 1]
    /\ idx' = idx + 1
    /\ UNCHANGED <<net, size, others, loop, batch, cur, hpc, shutdown, fed>>

\* connect() is on its way but epoll_ctl(ADD) fails: the descriptor is closed
\* again, the state stays CONNECTING.
ConnectUnwatched ==
    /\ "watch" \in Faults
    /\ Reconnecting /\ Due(idx) /\ streak[idx] < MaxStreak
    /\ client' = [client EXCEPT ![idx] = PutOff([@ EXCEPT !.state = "CONNECTING"])]
    /\ streak' = [streak EXCEPT ![idx] = @ + 1]
    /\ idx' = idx + 1
    /\ UNCHANGED <<net, size, others, loop, batch, cur, hpc, shutdown, fed>>

\* resumePausedClients() starts with the low watermark.
ResumeCheck ==
    /\ loop = "reconnect" /\ idx > N
    /\ IF size > LWM THEN loop' = "wait" /\ idx' = 0
                     ELSE loop' = "resume" /\ idx' = 1
    /\ UNCHANGED <<net, client, size, others, batch, cur, hpc, shutdown, streak, fed>>

Resuming == loop = "resume" /\ hpc = "idle"

\* The high watermark, looked at for each paused client, ends the loop.
ResumeNext ==
    /\ Resuming
    /\ IF idx \in Clients
       THEN IF ~client[idx].readPaused
            THEN loop' = loop /\ idx' = idx + 1 /\ UNCHANGED <<cur, hpc>>
            ELSE IF size >= HWM
            THEN loop' = "wait" /\ idx' = 0 /\ UNCHANGED <<cur, hpc>>
            ELSE cur' = idx /\ hpc' = "resume" /\ UNCHANGED <<loop, idx>>
       ELSE loop' = "wait" /\ idx' = 0 /\ UNCHANGED <<cur, hpc>>
    /\ UNCHANGED <<net, client, size, others, batch, shutdown, streak, fed>>

\* Mutant: rx is left to the next EPOLLIN.
ResumePush_NoFrames ==
    /\ hpc = "resume"
    /\ size' = size + 1
    /\ fed' = Append(fed, <<cur, net[cur].conn, client[cur].pendingMsg[1]>>)
    /\ client' = [client EXCEPT ![cur] =
                    WithEvents([@ EXCEPT !.pendingMsg = <<>>, !.readPaused = FALSE])]
    /\ hpc' = "idle" /\ idx' = idx + 1 /\ cur' = 0
    /\ UNCHANGED <<net, others, loop, batch, shutdown, streak>>

\* The message held back is pushed, EPOLLIN comes back, and the frames that
\* are in rx already are processed.
ResumePush ==
    /\ hpc = "resume"
    /\ size' = size + 1
    /\ fed' = Append(fed, <<cur, net[cur].conn, client[cur].pendingMsg[1]>>)
    /\ client' = [client EXCEPT ![cur] =
                    WithEvents([@ EXCEPT !.pendingMsg = <<>>, !.readPaused = FALSE])]
    /\ hpc' = "frames"
    /\ UNCHANGED <<net, others, loop, idx, batch, cur, shutdown, streak>>

\* epoll_wait(): the events of all clients at this moment; none is the timeout.
Wait ==
    /\ loop = "wait"
    /\ batch' = [c \in {d \in Clients : Mask(d) # {}} |-> Mask(c)]
    /\ loop' = "batch"
    /\ UNCHANGED <<net, client, size, others, idx, cur, hpc, shutdown, streak, fed>>

\* The events come in the order of the kernel's ready list.
Handle(c) ==
    /\ loop = "batch" /\ hpc = "idle" /\ c \in DOMAIN batch
    /\ cur' = c /\ hpc' = "out"
    /\ UNCHANGED <<net, client, size, others, loop, idx, batch, shutdown, streak, fed>>

BatchDone ==
    /\ loop = "batch" /\ hpc = "idle" /\ DOMAIN batch = {}
    /\ loop' = "top"
    /\ UNCHANGED <<net, client, size, others, idx, batch, cur, hpc, shutdown, streak, fed>>

-----------------------------------------------------------------------------
(* handleUpstreamEvent(), from "out" to "hup"; processBufferedFrames() is   *)
(* "frames", and is also called while resuming.                            *)

\* The handler of cur returns.
Return ==
    /\ hpc' = "idle" /\ cur' = 0
    /\ IF loop = "resume"
       THEN idx' = idx + 1 /\ batch' = batch
       ELSE idx' = idx /\ batch' = [c \in DOMAIN batch \ {cur} |-> batch[c]]

\* upstreamDisconnect(r, c); return
Drop ==
    /\ client' = [client EXCEPT ![cur] = Disconnected(@)]
    /\ net' = [net EXCEPT ![cur] = NoNet(@.conn)]
    /\ streak' = [streak EXCEPT ![cur] = @ + 1]
    /\ Return
    /\ UNCHANGED <<size, others, loop, shutdown, fed>>

EventError == hpc = "out" /\ "err" \in batch[cur] /\ Drop

\* upstreamConnectComplete() and queueHandshake(), then return.
ConnectComplete ==
    /\ hpc = "out" /\ "out" \in batch[cur]
    /\ client[cur].state = "CONNECTING"
    /\ IF net[cur].link = "broken"
       THEN Drop
       ELSE /\ client' = [client EXCEPT ![cur] =
                            WithFrame([@ EXCEPT !.state = "HANDSHAKE"])]
            /\ Return
            /\ UNCHANGED <<net, size, others, loop, shutdown, streak, fed>>

\* flushUpstreamTx() wrote everything; after a CLOSE that is the end.
FlushAll ==
    /\ hpc = "out" /\ "out" \in batch[cur] /\ client[cur].state # "CONNECTING"
    /\ net[cur].link = "up"
    /\ IF client[cur].state = "CLOSING"
       THEN Drop
       ELSE /\ client' = [client EXCEPT ![cur] = WithEvents([@ EXCEPT !.tx = "empty"])]
            /\ hpc' = "in"
            /\ UNCHANGED <<net, size, others, loop, idx, batch, cur, shutdown, streak, fed>>

\* It met EAGAIN ...
FlushSome ==
    /\ hpc = "out" /\ "out" \in batch[cur] /\ client[cur].state # "CONNECTING"
    /\ net[cur].link = "up"
    /\ client' = [client EXCEPT ![cur] = WithEvents([@ EXCEPT !.tx = "blocked"])]
    /\ hpc' = "in"
    /\ UNCHANGED <<net, size, others, loop, idx, batch, cur, shutdown, streak, fed>>

\* ... or an error.
FlushError ==
    /\ hpc = "out" /\ "out" \in batch[cur] /\ client[cur].state # "CONNECTING"
    /\ net[cur].link = "broken"
    /\ Drop

NoOutput ==
    /\ hpc = "out" /\ {"out", "err"} \cap batch[cur] = {}
    /\ hpc' = "in"
    /\ UNCHANGED <<net, client, size, others, loop, idx, batch, cur, shutdown, streak, fed>>

InputIn(state) == hpc = "in" /\ "in" \in batch[cur] /\ client[cur].state = state

\* readHandshake() reads all there is; the end of the stream is an error even
\* behind a complete answer. processHandshakeResponse() accepts only a "101".
ReadHandshake ==
    /\ InputIn("HANDSHAKE")
    /\ IF net[cur].fin \/ net[cur].link = "broken" \/ Stream(cur)[1] # "101"
       THEN Drop
       ELSE /\ client' = [client EXCEPT ![cur] =
                            WithEvents([@ EXCEPT !.state = "OPEN", !.attempt = 0,
                                                 !.parsed = 1, !.recvd = net[cur].sent])]
            /\ streak' = [streak EXCEPT ![cur] = 0]
            /\ hpc' = "frames"
            /\ UNCHANGED <<net, size, others, loop, idx, batch, cur, shutdown, fed>>

\* readUpstreamFrames() starts with what is in rx.
ReadOpen ==
    /\ InputIn("OPEN")
    /\ hpc' = "frames"
    /\ UNCHANGED <<net, client, size, others, loop, idx, batch, cur, shutdown, streak, fed>>

NoInput ==
    /\ hpc = "in"
    /\ ~InputIn("HANDSHAKE") /\ ~InputIn("OPEN")
    /\ hpc' = "hup"
    /\ UNCHANGED <<net, client, size, others, loop, idx, batch, cur, shutdown, streak, fed>>

\* processBufferedFrames() returns early: paused, or closing.
LeaveFrames ==
    IF loop = "resume"
    THEN Return
    ELSE hpc' = "hup" /\ UNCHANGED <<idx, batch, cur>>

Processing(kinds) == hpc = "frames" /\ HasFrame(cur) /\ NextFrame(cur) \in kinds

\* A first frame while a message is being assembled, a continuation of none.
Misplaced == client[cur].fragmenting # (NextFrame(cur) \in {"more", "end"})

Consume(r) == [r EXCEPT !.parsed = @ + 1]

\* Mutant: the payload goes through the buffer of the message.
ParsePing_ClearsMsg ==
    /\ Processing({"ping", "pong"})
    /\ client' = [client EXCEPT ![cur] =
            LET r == Consume([@ EXCEPT !.msg = <<>>])
            IN IF NextFrame(cur) = "ping" THEN WithFrame(r) ELSE r]
    /\ UNCHANGED <<net, size, others, loopVars, shutdown, streak, fed>>

ParsePing ==
    /\ Processing({"ping", "pong"})
    /\ client' = [client EXCEPT ![cur] =
                    IF NextFrame(cur) = "ping" THEN Consume(WithFrame(@)) ELSE Consume(@)]
    /\ UNCHANGED <<net, size, others, loopVars, shutdown, streak, fed>>

\* A CLOSE is consumed and answered.
ParseClose ==
    /\ Processing({"close"})
    /\ client' = [client EXCEPT ![cur] = Closing(Consume(@))]
    /\ LeaveFrames
    /\ UNCHANGED <<net, size, others, loop, shutdown, streak, fed>>

\* beginClose(1002), (1007) or (1009): the frame stays in rx.
ParseBad ==
    /\ Processing({"bad"} \cup DataKinds)
    /\ NextFrame(cur) = "bad" \/ Misplaced
    /\ client' = [client EXCEPT ![cur] = Closing(@)]
    /\ LeaveFrames
    /\ UNCHANGED <<net, size, others, loop, shutdown, streak, fed>>

\* The frame is copied to msg.
WithData(r, p) ==
    [Consume(r) EXCEPT !.msg = IF r.fragmenting THEN Append(@, p) ELSE <<p>>,
                       !.fragmenting = TRUE]

ParseFragment ==
    /\ Processing({"begin", "more"}) /\ ~Misplaced
    /\ client' = [client EXCEPT ![cur] = WithData(@, @.parsed + 1)]
    /\ UNCHANGED <<net, size, others, loopVars, shutdown, streak, fed>>

Completed(r) == [WithData(r, r.parsed + 1) EXCEPT !.fragmenting = FALSE]

\* publishReactorMessage() below the high watermark: committed to push() ...
CompletePush ==
    /\ Processing({"whole", "end"}) /\ ~Misplaced
    /\ size < HWM
    /\ client' = [client EXCEPT ![cur] = Completed(@)]
    /\ hpc' = "push"
    /\ UNCHANGED <<net, size, others, loop, idx, batch, cur, shutdown, streak, fed>>

\* Mutant: processBufferedFrames() goes on after a pause.
CompletePause_GoOn ==
    /\ Processing({"whole", "end"}) /\ ~Misplaced
    /\ size >= HWM
    /\ client' = [client EXCEPT ![cur] =
            LET r == Completed(@)
            IN WithEvents([r EXCEPT !.pendingMsg = <<r.msg>>, !.readPaused = TRUE,
                                    !.msg = <<>>])]
    /\ UNCHANGED <<net, size, others, loopVars, shutdown, streak, fed>>

\* ... and at it: the message is held back and reading stops.
CompletePause ==
    /\ Processing({"whole", "end"}) /\ ~Misplaced
    /\ size >= HWM
    /\ client' = [client EXCEPT ![cur] =
            LET r == Completed(@)
            IN WithEvents([r EXCEPT !.pendingMsg = <<r.msg>>, !.readPaused = TRUE,
                                    !.msg = <<>>])]
    /\ LeaveFrames
    /\ UNCHANGED <<net, size, others, loop, shutdown, streak, fed>>

\* push(conf->dataQueue, m); bufReset(&c->msg)
Push ==
    /\ hpc = "push"
    /\ size' = size + 1
    /\ fed' = Append(fed, <<cur, net[cur].conn, client[cur].msg>>)
    /\ client' = [client EXCEPT ![cur].msg = <<>>]
    /\ hpc' = "frames"
    /\ UNCHANGED <<net, others, loop, idx, batch, cur, shutdown, streak>>

\* No complete frame is left: on with recv(), or with the next paused client.
FramesDone ==
    /\ hpc = "frames" /\ ~HasFrame(cur)
    /\ IF loop = "resume"
       THEN Return
       ELSE hpc' = "recv" /\ UNCHANGED <<idx, batch, cur>>
    /\ UNCHANGED <<net, client, size, others, loop, shutdown, streak, fed>>

\* recv() takes some of what is there, and the frames are processed at once.
Recv ==
    /\ hpc = "recv" /\ net[cur].sent > client[cur].recvd
    /\ \E k \in (client[cur].recvd + 1)..net[cur].sent :
           client' = [client EXCEPT ![cur].recvd = k]
    /\ hpc' = "frames"
    /\ UNCHANGED <<net, size, others, loop, idx, batch, cur, shutdown, streak, fed>>

\* With nothing left: end of stream or an error, or EAGAIN.
RecvEnd ==
    /\ hpc = "recv" /\ net[cur].sent = client[cur].recvd
    /\ IF net[cur].fin \/ net[cur].link = "broken"
       THEN Drop
       ELSE /\ hpc' = "hup"
            /\ UNCHANGED <<net, client, size, others, loop, idx, batch, cur, shutdown,
                           streak, fed>>

\* EPOLLHUP or EPOLLRDHUP was among the events.
CheckHup ==
    /\ hpc = "hup"
    /\ IF "hup" \in batch[cur]
       THEN Drop
       ELSE /\ Return
            /\ UNCHANGED <<net, client, size, others, loop, shutdown, streak, fed>>

LoopStep ==
    \/ Turn \/ NotDue \/ ConnectStarted \/ ConnectFailed \/ ConnectUnwatched
    \/ ResumeCheck \/ ResumeNext \/ ResumePush
    \/ Wait \/ BatchDone \/ \E c \in Clients : Handle(c)

HandlerStep ==
    \/ EventError \/ ConnectComplete \/ FlushAll \/ FlushSome \/ FlushError \/ NoOutput
    \/ ReadHandshake \/ ReadOpen \/ NoInput
    \/ ParsePing \/ ParseClose \/ ParseBad \/ ParseFragment
    \/ CompletePush \/ CompletePause \/ Push \/ FramesDone
    \/ Recv \/ RecvEnd \/ CheckHup

ReactorStep == LoopStep \/ HandlerStep

Next ==
    \/ ReactorStep
    \/ \E c \in Clients : NetStep(c) \/ Elapse(c)
    \/ OthersCheck \/ OthersPush \/ AggTake \/ Stop

Spec == Init /\ [][Next]_vars

\* The reactor's thread runs (its epoll_wait() has a timeout); a connect()
\* ends, the clock goes on, a socket that is full is read by its peer, and the
\* aggregator empties the queue.
Fairness ==
    /\ WF_vars(ReactorStep)
    /\ \A c \in Clients :
        /\ WF_vars(net[c].link = "connecting" /\ (Accept(c) \/ Break(c)))
        /\ WF_vars(PeerDrain(c)) /\ WF_vars(Elapse(c))
    /\ WF_vars(AggTake)

FairSpec == Spec /\ Fairness

-----------------------------------------------------------------------------
(* Safety *)

AtRest(c) == hpc = "idle" \/ cur # c

\* A pause and the message it holds back belong together, and only an OPEN
\* connection is paused: what is held back is always found again by
\* resumePausedClients(), and never carried into the next connection.
PauseHoldsMessage ==
    \A c \in Clients :
        /\ client[c].readPaused <=> client[c].pendingMsg # <<>>
        /\ client[c].readPaused => client[c].state = "OPEN" /\ client[c].fd

\* The look at the size (lines 442 and 480) and the push (459 and 486) are two
\* steps of the reactor, and so they are of every other thread (worker.c:285 and
\* 298, agg.c:441 and 303). Each of the Others + 1 threads has at most one message
\* in hand, and the last of them to look finds fewer than HWM in the queue: HWM - 1
\* there and one from every thread is the most it can come to.
QueueBound == size <= HWM + Others

\* Both halves of the backpressure: publishReactorMessage() keeps the queue
\* bounded, and what it holds back for that is found again.
Backpressure == PauseHoldsMessage /\ QueueBound

\* The epoll registration follows the state, the pause and tx: no path through
\* the handlers changes one of them and forgets updateEvents().
InterestFollows ==
    /\ TypeOK
    /\ \A c \in Clients :
           AtRest(c) /\ client[c].fd => client[c].interest = Wanted(client[c])

\* The inductive invariant behind these. What every client record obeys between
\* two steps, ...
Coherent(r) ==
    /\ r.readPaused <=> r.pendingMsg # <<>>
    /\ r.readPaused => r.state = "OPEN"
    /\ r.fd => r.state # "DISCONNECTED" /\ r.interest = Wanted(r)
    /\ ~r.fd => r.state \in {"DISCONNECTED", "CONNECTING"}
\* ... what the points of the loop and of the handler say of the client in hand and
\* of the rest of the batch, ...
HandlerInv ==
    /\ hpc = "idle" <=> cur = 0
    /\ hpc # "idle" => loop \in {"batch", "resume"}
    /\ hpc \in {"out", "in", "recv", "hup"} => loop = "batch"
    /\ hpc = "resume" => loop = "resume" /\ client[cur].readPaused
    /\ hpc \in {"frames", "push", "recv"} =>
           client[cur].state = "OPEN" /\ ~client[cur].readPaused
    /\ loop = "resume" /\ hpc # "idle" => cur = idx
    /\ loop = "batch" /\ hpc # "idle" => cur \in DOMAIN batch
    /\ loop = "batch" =>
           \A c \in DOMAIN batch :
               /\ client[c].fd
               /\ "in" \in batch[c] /\ (c = cur => hpc \in {"out", "in"}) =>
                      ~client[c].readPaused
\* ... that the data queue has room for every message on its way there, ...
OnTheWay == others.hand + (IF hpc \in {"push", "resume"} THEN 1 ELSE 0)
QueueRoom == size + OnTheWay <= HWM + Others
\* ... and the attempts counted are the failures in a row, as far as it matters.
AttemptIs(r, n) == r.attempt = IF n < MaxAttempt THEN n ELSE MaxAttempt
IndInv ==
    /\ TypeOK
    /\ \A c \in Clients : Coherent(client[c]) /\ AttemptIs(client[c], streak[c])
    /\ HandlerInv /\ QueueRoom

\* Data frames of one message, by the definition of the protocol: from the one
\* after the last final frame to the final frame at position e.
FramesOf(stream, e) ==
    {p \in 1..e : /\ stream[p] \in DataKinds
                  /\ \A q \in p..(e - 1) : stream[q] \notin {"whole", "end"}}

\* Position p of a stream keeps to the protocol: it is not "bad", and it
\* continues a message exactly when one has begun.
InMessage(stream, p) ==
    \E q \in 1..(p - 1) : /\ stream[q] = "begin"
                          /\ \A r \in q..(p - 1) : stream[r] # "end"
Conforms(stream, p) ==
    /\ stream[p] # "bad"
    /\ stream[p] \in DataKinds => (stream[p] \in {"more", "end"}) = InMessage(stream, p)

\* A message is whole when its frames are, in order, those positions.
Lists(frames, positions) ==
    /\ frames # <<>>
    /\ \A j, k \in DOMAIN frames : j < k => frames[j] < frames[k]
    /\ {frames[j] : j \in DOMAIN frames} = positions
Whole(stream, frames) == Lists(frames, FramesOf(stream, frames[Len(frames)]))

\* A published message consists of its own fragments and no others, whatever
\* came between them, on an earlier connection, or while reading was paused.
FragmentsTogether ==
    \A i \in DOMAIN fed : Whole(Script[fed[i][1]][fed[i][2]], fed[i][3])

\* A server whose stream keeps to the protocol is never answered with an error
\* CLOSE: only its own CLOSE, or a frame that breaks the protocol, starts one.
ConformingNotRefused ==
    \A c \in Clients :
        client[c].state = "CLOSING" =>
            \/ Stream(c)[client[c].parsed] = "close"
            \/ ~Conforms(Stream(c), client[c].parsed + 1)

\* ws_client.c:256-269: the n-th failure in a row waits twice as long as the one
\* before, at most 30 seconds; a successful handshake starts again at one second.
Delays == <<1000, 2000, 4000, 8000, 16000>>
Backoff ==
    [][\A c \in Clients :
        client[c].wait = 0 /\ client'[c].wait # 0 =>
            client'[c].wait = IF streak[c] < 5 THEN Delays[streak[c] + 1] ELSE 30000]_vars

\* ws_client.c:549-550 "Сначала пробуем восстановить отвалившиеся соединения", and
\* lines 526-534, which set the time of the next attempt after every failure: a
\* client without a socket is one that reconnectClients() will connect. The code
\* leaves the state CONNECTING when epoll_ctl(ADD) fails (lines 372-385).
SocketlessIsRetried ==
    \A c \in Clients : ~client[c].fd => client[c].state = "DISCONNECTED"

\* The messages of a stream up to position e, the messages the server of c has sent
\* on the present connection, and those of them that were pushed.
Finals(stream, e) == {p \in 1..e : stream[p] \in {"whole", "end"}}
FinalFrames(c) == Finals(Stream(c), net[c].sent)
Published(c) == {i \in DOMAIN fed : fed[i][1] = c /\ fed[i][2] = net[c].conn}

\* ws_client.c:746-752: the end of the stream is looked at after EPOLLIN because
\* "данные ещё можно дочитать", so an orderly close of an open session loses no
\* message sent before it. The code does not keep this when the client is paused
\* at that moment: the message held back and what is unread go with the session.
CloseLosesNothing ==
    [][\A c \in Clients :
        /\ client[c].state = "OPEN" /\ client'[c].state = "DISCONNECTED"
        /\ net[c].link = "up" /\ net[c].fin
        => Cardinality(Published(c)) = Cardinality(FinalFrames(c))]_vars

-----------------------------------------------------------------------------
(* What the data queue sees *)

Message(m) ==
    <<m[1], m[2], Cardinality(Finals(Script[m[1]][m[2]], m[3][Len(m[3])]))>>

Abstract == INSTANCE Feed WITH
    session <- [c \in Clients |-> net[c].conn],
    next <- [c \in Clients |-> Cardinality(Published(c)) + 1],
    out <- [i \in DOMAIN fed |-> Message(fed[i])]

\* Each session's messages are published in order and without a gap, paused or
\* not, and none after the next connection has begun.
ImplementsFeed == Abstract!Spec

\* The inductive invariant behind FragmentsTogether, ConformingNotRefused and the
\* refinement. A client has collected the data frames of the message it is in,
\* and holds back a whole one; ...
OpenFrames(stream, e) ==
    {p \in 1..e : /\ stream[p] \in DataKinds
                  /\ \A q \in p..e : stream[q] \notin {"whole", "end"}}
EndsAt(stream, frames, e) == Whole(stream, frames) /\ frames[Len(frames)] = e
Collects(stream, r) ==
    /\ r.fragmenting <=> InMessage(stream, r.parsed + 1)
    /\ IF r.fragmenting THEN Lists(r.msg, OpenFrames(stream, r.parsed))
                        ELSE OpenFrames(stream, r.parsed) = {}
    /\ r.readPaused => EndsAt(stream, r.pendingMsg[1], r.parsed)
\* ... it is closing for a reason; the messages its session has completed are
\* those published and the one held back or on its way to the queue; ...
Held(c) == IF client[c].readPaused \/ (hpc = "push" /\ cur = c) THEN 1 ELSE 0
SessionInv(c) ==
    LET r == client[c] IN
    /\ Collects(Stream(c), r)
    /\ r.state \notin {"OPEN", "CLOSING"} => r.parsed = 0
    /\ r.state = "CLOSING" =>
           Stream(c)[r.parsed] = "close" \/ ~Conforms(Stream(c), r.parsed + 1)
    /\ r.state \in {"CONNECTING", "HANDSHAKE"} /\ r.fd =>
           net[c].conn > 0 /\ Published(c) = {}
    /\ r.state = "OPEN" =>
           /\ net[c].conn > 0
           /\ Cardinality(Published(c)) + Held(c) =
                  Cardinality(Finals(Stream(c), r.parsed))
\* ... what is about to be pushed is whole, and so is what was pushed, on this
\* connection or an earlier one.
StreamInv ==
    /\ \A c \in Clients : SessionInv(c)
    /\ hpc = "push" =>
           /\ ~client[cur].fragmenting
           /\ EndsAt(Stream(cur), client[cur].msg, client[cur].parsed)
    /\ \A i \in DOMAIN fed : fed[i][2] <= net[fed[i][1]].conn
    /\ FragmentsTogether

-----------------------------------------------------------------------------
(* Progress *)

\* ws_client.c:497-504 "Не ждём нового EPOLLIN": frames in rx are processed,
\* and a paused client is resumed, though the server sends nothing more.
BufferedFramesProcessed ==
    \A c \in Clients :
        client[c].state = "OPEN" /\ (HasFrame(c) \/ client[c].readPaused) ~>
            \/ ~HasFrame(c) /\ ~client[c].readPaused
            \/ client[c].state # "OPEN"
            \/ shutdown

\* A lost connection is made again: the client gets another socket (while the
\* bound leaves a connection to make). The one failure after which the code makes
\* no other attempt is exempt: epoll_ctl(ADD) refuses the new socket, and the client
\* stays CONNECTING without one (see SocketlessIsRetried).
Unwatched(c) == client[c].state = "CONNECTING" /\ ~client[c].fd
Reconnects ==
    \A c \in Clients :
        client[c].state = "DISCONNECTED" /\ net[c].conn < Len(Script[c]) ~>
            client[c].fd \/ Unwatched(c) \/ shutdown

\* After the shutdown flag the thread ends, so that main() can join it. Script is
\* finite: a server that sends for ever, as fast as the loop of readUpstreamFrames()
\* receives, keeps the thread there (lines 779-802) and the flag unread.
ReactorEnds == shutdown ~> loop = "done"
=============================================================================
