--------------------------- MODULE HandshakeProofs ---------------------------
(***************************************************************************)
(* Theorems about Handshake for any connections, requests, frames sent     *)
(* ahead and workers: a connection is in one hand at a time, no frame is   *)
(* data before the upgrade was granted, rightly, and told, and what a      *)
(* connection goes through is what Session promises.                       *)
(***************************************************************************)
EXTENDS Handshake, SequenceLemmas

-----------------------------------------------------------------------------
(* Who has a connection *)

\* The worker that has popped a connection has one.
LEMMA Working ==
    ASSUME TypeOK, HeldOnce, NEW w \in Workers, wpc[w] # "pop"
    PROVE  wconn[w] \in Conns
  BY DEF TypeOK, HeldOnce

\* The steps of a peer and of the listener keep the types.
LEMMA OutsideTypes ==
    ASSUME TypeOK, NEW c \in Conns, PeerStep(c) \/ Accept(c) \/ ListenerPush(c)
    PROVE  TypeOK'
<1> USE DEF TypeOK, bufVars, stateVars, answerVars, shared, workerVars, peerVars
<1>1. CASE PeerSend(c)
  <2>1. request \in Cases /\ request' = request /\ request[c].size \in Nat
    BY <1>1, RequestAssumption DEF PeerSend
  <2>2. CASE arrived[c] < request[c].size
    <3>1. arrived' = [arrived EXCEPT ![c] = arrived[c] + 1]
          /\ UNCHANGED <<frames, fin, bufVars, stateVars, answerVars, tx, epoll, shared,
                         workerVars>>
      BY <1>1, <2>2 DEF PeerSend
    <3>2. /\ arrived' \in [Conns -> Nat] /\ arrived'[c] = arrived[c] + 1
          /\ \A d \in Conns \ {c} : arrived'[d] = arrived[d]
      BY <3>1
    <3>3. \A d \in Conns : read'[d] <= arrived'[d] /\ arrived'[d] <= request'[d].size
      BY <2>1, <2>2, <3>1, <3>2, SMTT(30)
    <3> QED
      BY <2>1, <3>1, <3>2, <3>3
  <2>3. CASE ~(arrived[c] < request[c].size)
    <3>1. frames[c] < MaxEarly /\ frames' = [frames EXCEPT ![c] = frames[c] + 1]
          /\ UNCHANGED <<arrived, fin, bufVars, stateVars, answerVars, tx, epoll, shared,
                         workerVars>>
      BY <1>1, <2>3 DEF PeerSend
    <3>2. frames[c] + 1 \in 0..MaxEarly
      BY <3>1, BoundAssumption
    <3>3. frames' \in [Conns -> 0..MaxEarly]
      BY <3>1, <3>2
    <3> QED
      BY <2>1, <3>1, <3>3
  <2> QED
    BY <2>2, <2>3
<1>2. CASE PeerClose(c)
  BY <1>2 DEF PeerClose
<1>3. CASE PeerDrain(c)
  BY <1>3 DEF PeerDrain
<1>4. CASE Accept(c)
  BY <1>4 DEF Accept
<1>5. CASE ListenerPush(c)
  BY <1>5, SMTT(30) DEF ListenerPush
<1> QED
  BY <1>1, <1>2, <1>3, <1>4, <1>5 DEF PeerStep

\* A worker that lets go of a connection closes it or arms it.
LEMMA ReleaseTypes ==
    ASSUME TypeOK, NEW w \in Workers, wconn[w] \in Conns,
           Destroy(w) \/ (Rearm(w, "in") /\ state' = state)
    PROVE  /\ state' \in [Conns -> {"new", "handshakeRead", "handshakeSend", "wsOpen", "closed"}]
           /\ epoll' \in [Conns -> {"in", "inout", "off", "agg", "absent"}]
           /\ wpc' \in [Workers -> {"pop", "read", "send", "sent", "open", "handoff"}]
           /\ wconn' \in [Workers -> Conns \cup {NoConn}]
<1>1. \/ state' = state
      \/ state' = [state EXCEPT ![wconn[w]] = "closed"]
  BY DEF Destroy
<1>2. epoll' = [epoll EXCEPT ![wconn[w]] = "absent"] \/ epoll' = [epoll EXCEPT ![wconn[w]] = "in"]
  BY DEF Destroy, Rearm
<1>3. wpc' = [wpc EXCEPT ![w] = "pop"] /\ wconn' = [wconn EXCEPT ![w] = NoConn]
  BY DEF Destroy, Rearm, Release, Goto
<1>4. state' \in [Conns -> {"new", "handshakeRead", "handshakeSend", "wsOpen", "closed"}]
  BY <1>1 DEF TypeOK
<1>5. epoll' \in [Conns -> {"in", "inout", "off", "agg", "absent"}]
  BY <1>2 DEF TypeOK
<1>6. wpc' \in [Workers -> {"pop", "read", "send", "sent", "open", "handoff"}]
  BY <1>3 DEF TypeOK
<1>7. wconn' \in [Workers -> Conns \cup {NoConn}]
  BY <1>3 DEF TypeOK
<1> QED
  BY <1>4, <1>5, <1>6, <1>7

\* So do the steps of a worker ...
LEMMA WorkerTypes ==
    ASSUME TypeOK, HeldOnce, NEW w \in Workers, WorkerStep(w)
    PROVE  TypeOK'
<1> DEFINE c == wconn[w]
<1> USE DEF TypeOK, bufVars, stateVars, answerVars, shared, workerVars, peerVars,
        Goto, Release
<1>0. ASSUME wpc[w] # "pop" PROVE c \in Conns
  BY <1>0, Working
<1>1. CASE WorkerPop(w)
  <2>1. queue' = Tail(queue) /\ queue # <<>> /\ wconn' = [wconn EXCEPT ![w] = Head(queue)]
    BY <1>1 DEF WorkerPop
  <2>2. queue' \in Seq(Conns) /\ Head(queue) \in Conns
    BY <2>1
  <2>3. wconn' \in [Workers -> Conns \cup {NoConn}]
    BY <2>1, <2>2
  <2>4. wpc' \in [Workers -> {"pop", "read", "send", "sent", "open", "handoff"}]
    BY <1>1 DEF WorkerPop
  <2>5. UNCHANGED <<peerVars, bufVars, stateVars, answerVars, tx, epoll, ctrlQueue, sink>>
    BY <1>1 DEF WorkerPop
  <2> QED
    BY <2>2, <2>3, <2>4, <2>5
<1>2. ASSUME ReadAll(c), UNCHANGED <<peerVars, parsed>>, c \in Conns
      PROVE  /\ read' \in [Conns -> Nat] /\ rx' \in [Conns -> 0..MaxEarly]
             /\ \A d \in Conns : read'[d] <= arrived'[d]
  BY <1>2 DEF ReadAll
<1>3. CASE ReadPart(w)
  <2>1. c \in Conns /\ ReadAll(c)
        /\ UNCHANGED <<peerVars, parsed, role, closeAfterSend, answerVars, tx, shared>>
    BY <1>3, <1>0 DEF ReadPart
  <2>2. /\ state' \in [Conns -> {"new", "handshakeRead", "handshakeSend", "wsOpen", "closed"}]
        /\ epoll' \in [Conns -> {"in", "inout", "off", "agg", "absent"}]
        /\ wpc' \in [Workers -> {"pop", "read", "send", "sent", "open", "handoff"}]
        /\ wconn' \in [Workers -> Conns \cup {NoConn}]
    <3>1. Destroy(w) \/ (Rearm(w, "in") /\ state' = state)
      BY <1>3 DEF ReadPart
    <3> HIDE DEF TypeOK, Release, Goto
    <3> QED
      BY <2>1, <3>1, ReleaseTypes
  <2> QED
    BY <1>2, <2>1, <2>2
<1>4. CASE ReadTooLong(w)
  <2>1. c \in Conns /\ ReadAll(c)
        /\ UNCHANGED <<peerVars, parsed, role, answered, epoll, shared, wconn>>
    BY <1>4, <1>0 DEF ReadTooLong
  <2>2. /\ state' \in [Conns -> {"new", "handshakeRead", "handshakeSend", "wsOpen", "closed"}]
        /\ wpc' \in [Workers -> {"pop", "read", "send", "sent", "open", "handoff"}]
        /\ answer' \in [Conns -> {"none", "101", "400", "426", "431"}]
        /\ tx' \in [Conns -> {"empty", "queued", "blocked"}]
        /\ closeAfterSend' \in [Conns -> BOOLEAN]
    BY <1>4, <2>1 DEF ReadTooLong, Reply
  <2> QED
    BY <1>2, <2>1, <2>2
<1>5. CASE ReadRequest(w)
  <2> DEFINE hr == Judge(request[c].text)
  <2>1. c \in Conns /\ ReadAll(c) /\ UNCHANGED <<peerVars, parsed, answered, epoll, shared, wconn>>
    BY <1>5, <1>0 DEF ReadRequest
  <2>2. Status(hr) \in {"none", "101", "400", "426", "431"}
    BY DEF Status
  <2>3. /\ Reply(w, Status(hr))
        /\ role' \in {role, [role EXCEPT ![c] = "sink"], [role EXCEPT ![c] = "source"]}
        /\ closeAfterSend' = [closeAfterSend EXCEPT ![c] = fin[c] \/ hr # "HS_OK"]
    BY <1>5 DEF ReadRequest
  <2> HIDE DEF hr
  <2>4. /\ state' \in [Conns -> {"new", "handshakeRead", "handshakeSend", "wsOpen", "closed"}]
        /\ wpc' \in [Workers -> {"pop", "read", "send", "sent", "open", "handoff"}]
        /\ answer' \in [Conns -> {"none", "101", "400", "426", "431"}]
        /\ tx' \in [Conns -> {"empty", "queued", "blocked"}]
    BY <2>1, <2>2, <2>3 DEF Reply
  <2>5. role' \in [Conns -> {"undecided", "source", "sink"}]
    BY <2>1, <2>3
  <2>6. (fin[c] \/ hr # "HS_OK") \in BOOLEAN
    OBVIOUS
  <2>7. closeAfterSend' \in [Conns -> BOOLEAN]
    BY <2>1, <2>3, <2>6
  <2> QED
    BY <1>2, <2>1, <2>4, <2>5, <2>7
<1>6. CASE FlushAll(w)
  BY <1>6, <1>0 DEF FlushAll
<1>7. CASE FlushSome(w)
  BY <1>7, <1>0 DEF FlushSome, Rearm
<1>8. CASE FlushError(w)
  BY <1>8, <1>0 DEF FlushError, Destroy
<1>9. CASE CloseSent(w)
  BY <1>9, <1>0 DEF CloseSent, Destroy
<1>10. CASE OpenSource(w)
  BY <1>10, <1>0 DEF OpenSource
<1>11. CASE Unregister(w)
  BY <1>11, <1>0 DEF Unregister
<1>12. CASE HandOff(w)
  <2>1. c \in Conns /\ ctrlQueue' = Append(ctrlQueue, c)
    BY <1>12, <1>0 DEF HandOff
  <2>2. ctrlQueue' \in Seq(Conns)
    BY <2>1
  <2> QED
    BY <1>12, <2>2 DEF HandOff
<1>13. CASE Serve(w)
  <2>1. c \in Conns /\ ParseAll(c)
        /\ UNCHANGED <<peerVars, role, closeAfterSend, answerVars, tx, shared>>
    BY <1>13, <1>0 DEF Serve
  <2>2. /\ read' \in [Conns -> Nat] /\ rx' \in [Conns -> 0..MaxEarly]
        /\ parsed' \in [Conns -> 0..MaxEarly]
        /\ \A d \in Conns : read'[d] <= arrived'[d]
    BY <2>1, BoundAssumption DEF ParseAll
  <2>3. /\ state' \in [Conns -> {"new", "handshakeRead", "handshakeSend", "wsOpen", "closed"}]
        /\ epoll' \in [Conns -> {"in", "inout", "off", "agg", "absent"}]
        /\ wpc' \in [Workers -> {"pop", "read", "send", "sent", "open", "handoff"}]
        /\ wconn' \in [Workers -> Conns \cup {NoConn}]
    <3>1. Destroy(w) \/ (Rearm(w, "in") /\ state' = state)
      BY <1>13 DEF Serve
    <3> HIDE DEF TypeOK, Release, Goto
    <3> QED
      BY <2>1, <3>1, ReleaseTypes
  <2> QED
    BY <2>1, <2>2, <2>3
<1> QED
  BY <1>1, <1>3, <1>4, <1>5, <1>6, <1>7, <1>8, <1>9, <1>10, <1>11, <1>12, <1>13 DEF WorkerStep

\* ... and of the aggregator.
LEMMA AggTypes == TypeOK /\ AggStep => TypeOK'
<1> SUFFICES ASSUME TypeOK, AggStep PROVE TypeOK'
  OBVIOUS
<1> USE DEF TypeOK, bufVars, stateVars, answerVars, workerVars, peerVars, CloseSink
<1>1. CASE ReplaceSink
  BY <1>1 DEF ReplaceSink
<1>2. CASE AdoptSink
  <2>1. Head(ctrlQueue) \in Conns /\ Tail(ctrlQueue) \in Seq(Conns)
    BY <1>2 DEF AdoptSink
  <2> QED
    BY <1>2, <2>1 DEF AdoptSink
<1>3. CASE SinkInput
  <2>1. sink \in Conns /\ ParseAll(sink)
        /\ UNCHANGED <<peerVars, role, closeAfterSend, answerVars, tx, queue, ctrlQueue,
                       workerVars>>
    BY <1>3 DEF SinkInput
  <2>2. /\ read' \in [Conns -> Nat] /\ rx' \in [Conns -> 0..MaxEarly]
        /\ parsed' \in [Conns -> 0..MaxEarly]
        /\ \A d \in Conns : read'[d] <= arrived'[d]
    BY <2>1, BoundAssumption DEF ParseAll
  <2>3. /\ state' \in [Conns -> {"new", "handshakeRead", "handshakeSend", "wsOpen", "closed"}]
        /\ epoll' \in [Conns -> {"in", "inout", "off", "agg", "absent"}]
        /\ sink' \in Conns \cup {NoConn}
    <3>1. CASE CloseSink
      <4>1. state' = [state EXCEPT ![sink] = "closed"] /\ epoll' = [epoll EXCEPT ![sink] = "absent"]
            /\ sink' = NoConn
        BY <3>1 DEF CloseSink
      <4>2. state' \in [Conns -> {"new", "handshakeRead", "handshakeSend", "wsOpen", "closed"}]
        BY <2>1, <4>1
      <4>3. epoll' \in [Conns -> {"in", "inout", "off", "agg", "absent"}]
        BY <2>1, <4>1
      <4> QED
        BY <4>1, <4>2, <4>3
    <3>2. CASE UNCHANGED <<state, epoll, sink>>
      BY <3>2
    <3> QED
      BY <1>3, <3>1, <3>2 DEF SinkInput
  <2> QED
    BY <2>1, <2>2, <2>3
<1> QED
  BY <1>1, <1>2, <1>3 DEF AggStep

\* A step that gives nobody anything.
LEMMA IdlePlaces ==
    ASSUME HeldOnce, \A c \in Conns : PlacesApart(c),
           UNCHANGED <<queue, ctrlQueue, sink, wconn>>,
           \A w \in Workers : wpc'[w] = "pop" <=> wpc[w] = "pop",
           \A c \in Conns : (Armed(c)' <=> Armed(c)) /\ (Connected(c)' <=> Connected(c))
    PROVE  HeldOnce' /\ \A c \in Conns : PlacesApart(c)'
<1>1. HeldOnce'
  BY DEF HeldOnce
<1>2. ASSUME NEW c \in Conns PROVE PlacesApart(c)'
  <2>1. InWork(c)' <=> InWork(c)
    BY DEF InWork
  <2> QED
    BY <2>1 DEF PlacesApart
<1> QED
  BY <1>1, <1>2

\* The listener accepts a connection, or queues it for the workers.
LEMMA ListenerPlaces ==
    ASSUME TypeOK, HeldOnce, \A c \in Conns : PlacesApart(c), NEW x \in Conns,
           Accept(x) \/ ListenerPush(x)
    PROVE  HeldOnce' /\ \A c \in Conns : PlacesApart(c)'
<1>1. /\ state \in [Conns -> {"new", "handshakeRead", "handshakeSend", "wsOpen", "closed"}]
      /\ epoll \in [Conns -> {"in", "inout", "off", "agg", "absent"}]
      /\ queue \in Seq(Conns)
  BY DEF TypeOK
<1>2. CASE Accept(x)
  <2>1. /\ state[x] = "new" /\ UNCHANGED <<wpc, wconn, queue, ctrlQueue, sink>>
        /\ \A c \in Conns \ {x} : state'[c] = state[c] /\ epoll'[c] = epoll[c]
    BY <1>1, <1>2 DEF Accept, shared, workerVars
  <2>2. \/ state'[x] = "handshakeRead" /\ epoll'[x] = "in"
        \/ state'[x] = "closed" /\ epoll'[x] = epoll[x]
    BY <1>1, <1>2 DEF Accept
  <2>3. HeldOnce'
    BY <2>1 DEF HeldOnce
  <2>4. ASSUME NEW c \in Conns PROVE PlacesApart(c)'
    <3>1. InWork(c)' <=> InWork(c)
      BY <2>1 DEF InWork
    <3> QED
      BY <2>1, <2>2, <3>1 DEF PlacesApart, Connected, Armed
  <2> QED
    BY <2>3, <2>4
<1>3. CASE ListenerPush(x)
  <2>1. /\ Armed(x) /\ queue' = Append(queue, x)
        /\ UNCHANGED <<state, wpc, wconn, ctrlQueue, sink>>
        /\ epoll'[x] = "off" /\ \A c \in Conns \ {x} : epoll'[c] = epoll[c]
    BY <1>1, <1>3 DEF ListenerPush, stateVars, workerVars
  <2>2. x \notin Range(queue) /\ ~InWork(x) /\ x \notin Range(ctrlQueue) /\ x # sink
    BY <2>1 DEF PlacesApart
  <2>3. Range(queue') = Range(queue) \cup {x} /\ IsInjective(queue')
    BY <1>1, <2>1, <2>2, AppendElems DEF HeldOnce
  <2>4. HeldOnce'
    BY <2>1, <2>3 DEF HeldOnce
  <2>5. ASSUME NEW c \in Conns PROVE PlacesApart(c)'
    <3>1. (InWork(c)' <=> InWork(c)) /\ (Connected(c)' <=> Connected(c))
      BY <2>1 DEF InWork, Connected
    <3>2. Armed(c)' <=> Armed(c) /\ c # x
      BY <2>1 DEF Armed
    <3> QED
      BY <2>1, <2>2, <2>3, <3>1, <3>2 DEF PlacesApart
  <2> QED
    BY <2>4, <2>5
<1> QED
  BY <1>2, <1>3

\* A worker takes a connection from the queue.
LEMMA PopPlaces ==
    ASSUME TypeOK, HeldOnce, \A c \in Conns : PlacesApart(c), NEW w \in Workers, WorkerPop(w)
    PROVE  HeldOnce' /\ \A c \in Conns : PlacesApart(c)'
<1> DEFINE x == Head(queue)
<1>1. x \in Conns /\ x \in Range(queue)
      /\ Range(queue') = Range(queue) \ {x} /\ IsInjective(queue')
  BY TailElems DEF WorkerPop, HeldOnce, TypeOK
<1>2. /\ UNCHANGED <<state, epoll, ctrlQueue, sink>>
      /\ wpc[w] = "pop"
      /\ wconn' = [wconn EXCEPT ![w] = x]
      /\ wconn \in [Workers -> Conns \cup {NoConn}]
      /\ wpc \in [Workers -> {"pop", "read", "send", "sent", "open", "handoff"}]
  BY DEF WorkerPop, TypeOK, stateVars
<1>3. wpc'[w] # "pop" /\ \A v \in Workers \ {w} : wpc'[v] = wpc[v]
  BY <1>2 DEF WorkerPop, Goto
<1> HIDE DEF x
<1>4. x # NoConn /\ wconn[w] = NoConn
  BY <1>1, <1>2, ConnAssumption DEF HeldOnce
<1>5. \A v \in Workers : wconn[v] # x
  BY <1>1 DEF PlacesApart, InWork
<1>6. wconn'[w] = x /\ \A v \in Workers \ {w} : wconn'[v] = wconn[v]
  BY <1>2
<1>7. HeldOnce'
  BY <1>1, <1>2, <1>3, <1>4, <1>5, <1>6 DEF HeldOnce
<1>8. ASSUME NEW c \in Conns PROVE PlacesApart(c)'
  <2>1. c # NoConn
    BY ConnAssumption
  <2>2. InWork(c)' <=> InWork(c) \/ c = x
    BY <1>4, <1>6, <2>1 DEF InWork
  <2>3. (Armed(c)' <=> Armed(c)) /\ (Connected(c)' <=> Connected(c))
    BY <1>2 DEF Armed, Connected
  <2> QED
    BY <1>1, <1>2, <2>2, <2>3 DEF PlacesApart
<1> QED
  BY <1>7, <1>8

\* A worker gives its connection up: back to epoll, to the aggregator, or freed.
LEMMA ReleasePlaces ==
    ASSUME TypeOK, HeldOnce, \A c \in Conns : PlacesApart(c), NEW w \in Workers,
           wpc[w] # "pop", Release(w), UNCHANGED <<queue, sink>>,
           \/ (Rearm(w, "in") \/ Rearm(w, "inout")) /\ UNCHANGED <<state, ctrlQueue>>
           \/ Destroy(w) /\ UNCHANGED ctrlQueue
           \/ ctrlQueue' = Append(ctrlQueue, wconn[w]) /\ UNCHANGED <<state, epoll>>
    PROVE  HeldOnce' /\ \A c \in Conns : PlacesApart(c)'
<1> DEFINE x == wconn[w]
<1>1. /\ wconn \in [Workers -> Conns \cup {NoConn}]
      /\ wpc \in [Workers -> {"pop", "read", "send", "sent", "open", "handoff"}]
      /\ state \in [Conns -> {"new", "handshakeRead", "handshakeSend", "wsOpen", "closed"}]
      /\ epoll \in [Conns -> {"in", "inout", "off", "agg", "absent"}]
      /\ ctrlQueue \in Seq(Conns)
  BY DEF TypeOK
<1>2. x \in Conns /\ InWork(x)
  BY Working DEF InWork
<1>3. /\ Connected(x) /\ ~Armed(x) /\ x \notin Range(queue) /\ x \notin Range(ctrlQueue)
      /\ x # sink
  BY <1>2 DEF PlacesApart
<1>4. /\ wconn'[w] = NoConn /\ wpc'[w] = "pop"
      /\ \A v \in Workers \ {w} : wconn'[v] = wconn[v] /\ wpc'[v] = wpc[v]
  BY <1>1 DEF Release, Goto
<1>5. /\ \A v \in Workers : wconn[v] = NoConn <=> wpc[v] = "pop"
      /\ \A u, v \in Workers : wconn[u] = wconn[v] /\ wconn[u] # NoConn => u = v
      /\ IsInjective(queue) /\ IsInjective(ctrlQueue)
  BY DEF HeldOnce
<1>6. ASSUME NEW c \in Conns PROVE InWork(c)' <=> InWork(c) /\ c # x
  <2>1. c # NoConn
    BY ConnAssumption
  <2> QED
    BY <1>4, <1>5, <2>1 DEF InWork
<1>7. CASE (Rearm(w, "in") \/ Rearm(w, "inout")) /\ UNCHANGED <<state, ctrlQueue>>
  <2>1. /\ epoll'[x] \in {"in", "inout"} /\ \A c \in Conns \ {x} : epoll'[c] = epoll[c]
        /\ UNCHANGED <<state, ctrlQueue>>
    BY <1>1, <1>2, <1>7 DEF Rearm
  <2> HIDE DEF x
  <2>2. HeldOnce'
    BY <1>4, <1>5, <2>1 DEF HeldOnce
  <2>3. ASSUME NEW c \in Conns PROVE PlacesApart(c)'
    <3>1. (Armed(c)' <=> Armed(c) \/ c = x) /\ (Connected(c)' <=> Connected(c))
      BY <2>1 DEF Armed, Connected
    <3> QED
      BY <1>3, <1>6, <2>1, <3>1 DEF PlacesApart
  <2> QED
    BY <2>2, <2>3
<1>8. CASE Destroy(w) /\ UNCHANGED ctrlQueue
  <2>1. /\ epoll'[x] = "absent" /\ \A c \in Conns \ {x} : epoll'[c] = epoll[c]
        /\ state'[x] = "closed" /\ \A c \in Conns \ {x} : state'[c] = state[c]
        /\ UNCHANGED ctrlQueue
    BY <1>1, <1>2, <1>8 DEF Destroy
  <2> HIDE DEF x
  <2>2. HeldOnce'
    BY <1>4, <1>5, <2>1 DEF HeldOnce
  <2>3. ASSUME NEW c \in Conns PROVE PlacesApart(c)'
    <3>1. (Armed(c)' <=> Armed(c) /\ c # x) /\ (Connected(c)' <=> Connected(c) /\ c # x)
      BY <2>1 DEF Armed, Connected
    <3> QED
      BY <1>3, <1>6, <2>1, <3>1 DEF PlacesApart
  <2> QED
    BY <2>2, <2>3
<1>9. CASE ctrlQueue' = Append(ctrlQueue, x) /\ UNCHANGED <<state, epoll>>
  <2> HIDE DEF x
  <2>1. Range(ctrlQueue') = Range(ctrlQueue) \cup {x} /\ IsInjective(ctrlQueue')
    BY <1>1, <1>2, <1>3, <1>5, <1>9, AppendElems
  <2>2. HeldOnce'
    BY <1>4, <1>5, <2>1 DEF HeldOnce
  <2>3. ASSUME NEW c \in Conns PROVE PlacesApart(c)'
    <3>1. (Armed(c)' <=> Armed(c)) /\ (Connected(c)' <=> Connected(c))
      BY <1>9 DEF Armed, Connected
    <3> QED
      BY <1>3, <1>6, <2>1, <3>1 DEF PlacesApart
  <2> QED
    BY <2>2, <2>3
<1> QED
  BY <1>7, <1>8, <1>9

\* A worker goes on with its connection, or gives it up.
LEMMA WorkerPlaces ==
    ASSUME TypeOK, HeldOnce, \A c \in Conns : PlacesApart(c), NEW w \in Workers, WorkerStep(w)
    PROVE  HeldOnce' /\ \A c \in Conns : PlacesApart(c)'
<1> DEFINE x == wconn[w]
<1>1. CASE WorkerPop(w)
  BY <1>1, PopPlaces
<1>2. CASE ReadPart(w) \/ FlushSome(w) \/ FlushError(w) \/ CloseSent(w) \/ HandOff(w) \/ Serve(w)
  <2>1. wpc[w] # "pop" /\ Release(w) /\ UNCHANGED <<queue, sink>>
    BY <1>2 DEF ReadPart, FlushSome, FlushError, CloseSent, HandOff, Serve, shared, Rearm, Destroy
  <2>2. \/ (Rearm(w, "in") \/ Rearm(w, "inout")) /\ UNCHANGED <<state, ctrlQueue>>
        \/ Destroy(w) /\ UNCHANGED ctrlQueue
        \/ ctrlQueue' = Append(ctrlQueue, wconn[w]) /\ UNCHANGED <<state, epoll>>
    BY <1>2 DEF ReadPart, FlushSome, FlushError, CloseSent, HandOff, Serve, shared, stateVars
  <2> QED
    BY <2>1, <2>2, ReleasePlaces
<1>3. CASE ReadTooLong(w) \/ ReadRequest(w) \/ FlushAll(w) \/ OpenSource(w) \/ Unregister(w)
  <2>1. /\ state \in [Conns -> {"new", "handshakeRead", "handshakeSend", "wsOpen", "closed"}]
        /\ epoll \in [Conns -> {"in", "inout", "off", "agg", "absent"}]
        /\ wpc \in [Workers -> {"pop", "read", "send", "sent", "open", "handoff"}]
    BY DEF TypeOK
  <2>2. wpc[w] # "pop" /\ UNCHANGED <<queue, ctrlQueue, sink, wconn>>
    BY <1>3 DEF ReadTooLong, ReadRequest, FlushAll, OpenSource, Unregister, shared
  <2>3. x \in Conns /\ InWork(x)
    BY <2>2, Working DEF InWork
  <2>4. Connected(x) /\ ~Armed(x)
    BY <2>3 DEF PlacesApart
  <2>5. wpc'[w] # "pop" /\ \A v \in Workers \ {w} : wpc'[v] = wpc[v]
    BY <1>3, <2>1 DEF ReadTooLong, ReadRequest, FlushAll, OpenSource, Unregister, Reply, Goto
  <2>6. /\ state'[x] = state[x] \/ state'[x] \in {"handshakeSend", "wsOpen"}
        /\ \A c \in Conns \ {x} : state'[c] = state[c]
    BY <1>3, <2>1 DEF ReadTooLong, ReadRequest, FlushAll, OpenSource, Unregister, Reply, stateVars
  <2>7. /\ epoll'[x] = epoll[x] \/ epoll'[x] = "absent"
        /\ \A c \in Conns \ {x} : epoll'[c] = epoll[c]
    BY <1>3, <2>1 DEF ReadTooLong, ReadRequest, FlushAll, OpenSource, Unregister
  <2>8. \A c \in Conns : (Armed(c)' <=> Armed(c)) /\ (Connected(c)' <=> Connected(c))
    BY <2>4, <2>6, <2>7 DEF Armed, Connected
  <2> QED
    BY <2>2, <2>5, <2>8, IdlePlaces
<1> QED
  BY <1>1, <1>2, <1>3 DEF WorkerStep

\* The aggregator closes its sink, or adopts one.
LEMMA AggPlaces ==
    ASSUME TypeOK, HeldOnce, \A c \in Conns : PlacesApart(c), AggStep
    PROVE  HeldOnce' /\ \A c \in Conns : PlacesApart(c)'
<1>1. /\ state \in [Conns -> {"new", "handshakeRead", "handshakeSend", "wsOpen", "closed"}]
      /\ epoll \in [Conns -> {"in", "inout", "off", "agg", "absent"}]
      /\ sink \in Conns \cup {NoConn} /\ ctrlQueue \in Seq(Conns)
      /\ NoConn \notin Conns
  BY ConnAssumption DEF TypeOK
<1>2. UNCHANGED <<wpc, wconn, queue>>
  BY DEF AggStep, ReplaceSink, AdoptSink, SinkInput, workerVars
<1>3. ASSUME NEW c \in Conns PROVE InWork(c)' <=> InWork(c)
  BY <1>2 DEF InWork
<1>4. CASE AdoptSink
  <2> DEFINE x == Head(ctrlQueue)
  <2>1. /\ ctrlQueue # <<>> /\ sink = NoConn /\ sink' = x /\ ctrlQueue' = Tail(ctrlQueue)
        /\ state' = state /\ epoll' = [epoll EXCEPT ![x] = "agg"]
    BY <1>4 DEF AdoptSink, stateVars
  <2>2. x \in Conns /\ x \in Range(ctrlQueue)
        /\ Range(ctrlQueue') = Range(ctrlQueue) \ {x} /\ IsInjective(ctrlQueue')
    BY <1>1, <2>1, TailElems DEF HeldOnce
  <2> HIDE DEF x
  <2>3. HeldOnce'
    BY <1>2, <2>2 DEF HeldOnce
  <2>4. ASSUME NEW c \in Conns PROVE PlacesApart(c)'
    <3>1. /\ Armed(c)' <=> Armed(c) /\ c # x
          /\ Connected(c)' <=> Connected(c)
      BY <1>1, <2>1 DEF Armed, Connected
    <3> QED
      BY <1>1, <1>2, <1>3, <2>1, <2>2, <3>1 DEF PlacesApart
  <2> QED
    BY <2>3, <2>4
<1>5. CASE ReplaceSink \/ SinkInput
  <2>1. sink \in Conns /\ ctrlQueue' = ctrlQueue
    BY <1>1, <1>5 DEF ReplaceSink, SinkInput
  <2>2. CASE CloseSink
    <3>1. /\ \A c \in Conns \ {sink} : state'[c] = state[c] /\ epoll'[c] = epoll[c]
          /\ state'[sink] = "closed" /\ epoll'[sink] = "absent" /\ sink' = NoConn
      BY <1>1, <2>1, <2>2 DEF CloseSink
    <3>2. HeldOnce'
      BY <1>2, <2>1 DEF HeldOnce
    <3>3. ASSUME NEW c \in Conns PROVE PlacesApart(c)'
      <4>1. (Armed(c)' <=> Armed(c) /\ c # sink) /\ (Connected(c)' <=> Connected(c) /\ c # sink)
        BY <3>1 DEF Armed, Connected
      <4> QED
        BY <1>1, <1>2, <1>3, <2>1, <3>1, <4>1 DEF PlacesApart
    <3> QED
      BY <3>2, <3>3
  <2>3. CASE UNCHANGED <<state, epoll, sink>>
    <3>1. \A c \in Conns : (Armed(c)' <=> Armed(c)) /\ (Connected(c)' <=> Connected(c))
      BY <2>3 DEF Armed, Connected
    <3> QED
      BY <1>2, <2>1, <2>3, <3>1, IdlePlaces
  <2> QED
    BY <1>5, <2>2, <2>3 DEF ReplaceSink, SinkInput
<1> QED
  BY <1>4, <1>5 DEF AggStep

\* Initially nobody has a connection.
LEMMA InitPlaces == Init => PlaceInv
<1> SUFFICES ASSUME Init PROVE PlaceInv
  OBVIOUS
<1>1. TypeOK
  <2>1. queue \in Seq(Conns) /\ ctrlQueue \in Seq(Conns) /\ sink \in Conns \cup {NoConn}
    BY DEF Init
  <2>2. /\ frames \in [Conns -> 0..MaxEarly] /\ rx \in [Conns -> 0..MaxEarly]
        /\ parsed \in [Conns -> 0..MaxEarly]
    BY BoundAssumption DEF Init
  <2>3. /\ arrived \in [Conns -> Nat] /\ read \in [Conns -> Nat]
        /\ \A c \in Conns : read[c] <= arrived[c] /\ arrived[c] <= request[c].size
    BY RequestAssumption DEF Init
  <2>4. /\ fin \in [Conns -> BOOLEAN] /\ closeAfterSend \in [Conns -> BOOLEAN]
        /\ answered \in [Conns -> BOOLEAN]
    BY DEF Init
  <2>5. /\ state \in [Conns -> {"new", "handshakeRead", "handshakeSend", "wsOpen", "closed"}]
        /\ role \in [Conns -> {"undecided", "source", "sink"}]
        /\ tx \in [Conns -> {"empty", "queued", "blocked"}]
        /\ epoll \in [Conns -> {"in", "inout", "off", "agg", "absent"}]
        /\ answer \in [Conns -> {"none", "101", "400", "426", "431"}]
        /\ wpc \in [Workers -> {"pop", "read", "send", "sent", "open", "handoff"}]
        /\ wconn \in [Workers -> Conns \cup {NoConn}] /\ request \in Cases
    BY DEF Init
  <2> QED
    BY <2>1, <2>2, <2>3, <2>4, <2>5 DEF TypeOK
<1>2. IsInjective(<<>>) /\ Range(<<>>) = {}
  BY DEF IsInjective, Range
<1>3. HeldOnce
  BY <1>2 DEF Init, HeldOnce
<1>4. ASSUME NEW c \in Conns PROVE PlacesApart(c)
  <2>1. c # NoConn
    BY ConnAssumption
  <2>2. ~InWork(c) /\ ~Armed(c) /\ ~Connected(c) /\ c # sink
    BY <2>1 DEF Init, InWork, Armed, Connected
  <2> QED
    BY <1>2, <2>2 DEF Init, PlacesApart
<1> QED
  BY <1>1, <1>3, <1>4 DEF PlaceInv

\* Every step leaves each connection that exists in one hand.
LEMMA StepPlaces == PlaceInv /\ [Next]_vars => PlaceInv'
<1> SUFFICES ASSUME TypeOK, HeldOnce, \A c \in Conns : PlacesApart(c), [Next]_vars
             PROVE  TypeOK' /\ HeldOnce' /\ \A c \in Conns : PlacesApart(c)'
  BY DEF PlaceInv
<1>1. ASSUME NEW c \in Conns, PeerStep(c)
      PROVE  TypeOK' /\ HeldOnce' /\ \A d \in Conns : PlacesApart(d)'
  <2>1. TypeOK'
    BY <1>1, OutsideTypes
  <2>2. UNCHANGED <<queue, ctrlQueue, sink, wpc, wconn, state, epoll>>
    BY <1>1 DEF PeerStep, PeerSend, PeerClose, PeerDrain, shared, workerVars, stateVars
  <2> QED
    BY <2>1, <2>2, IdlePlaces DEF Armed, Connected
<1>2. ASSUME NEW c \in Conns, Accept(c) \/ ListenerPush(c)
      PROVE  TypeOK' /\ HeldOnce' /\ \A d \in Conns : PlacesApart(d)'
  BY <1>2, OutsideTypes, ListenerPlaces
<1>3. ASSUME NEW w \in Workers, WorkerStep(w)
      PROVE  TypeOK' /\ HeldOnce' /\ \A d \in Conns : PlacesApart(d)'
  BY <1>3, WorkerTypes, WorkerPlaces
<1>4. CASE AggStep
  BY <1>4, AggTypes, AggPlaces
<1>5. CASE UNCHANGED vars
  <2>1. TypeOK'
    BY <1>5 DEF vars, peerVars, bufVars, stateVars, answerVars, shared, workerVars, TypeOK
  <2>2. UNCHANGED <<queue, ctrlQueue, sink, wpc, wconn, state, epoll>>
    BY <1>5 DEF vars, shared, workerVars, stateVars
  <2> QED
    BY <2>1, <2>2, IdlePlaces DEF Armed, Connected
<1> QED
  BY <1>1, <1>2, <1>3, <1>4, <1>5 DEF Next

\* The inductive invariant behind OneHolder.
THEOREM PlacesInvariant == Spec => []PlaceInv
  BY InitPlaces, StepPlaces, PTL DEF Spec

\* Everything is of its type.
THEOREM TypeCorrect == Spec => []TypeOK
<1>1. PlaceInv => TypeOK
  BY DEF PlaceInv
<1> QED
  BY <1>1, PlacesInvariant, PTL

\* README.md:314-317 for any connections, requests and workers: a connection
\* that exists is in exactly one hand (epoll, work queue, one worker, control
\* queue or aggregator), and one that is closed is in nobody's.
THEOREM OneHolderAlways == Spec => []OneHolder
<1>1. PlaceInv => OneHolder
  <2> SUFFICES ASSUME PlaceInv, NEW c \in Conns
               PROVE  /\ \A p, q \in Places(c) : p = q
                      /\ Places(c) # {} <=> Connected(c)
    BY DEF PlaceInv, OneHolder
  <2>1. HeldOnce /\ PlacesApart(c) /\ c # NoConn
    BY ConnAssumption DEF PlaceInv
  <2>2. c \in Range(queue) <=> \E j \in DOMAIN queue : queue[j] = c
    BY DEF Range
  <2>3. c \in Range(ctrlQueue) <=> \E j \in DOMAIN ctrlQueue : ctrlQueue[j] = c
    BY DEF Range
  <2>4. ASSUME NEW p
        PROVE  p \in Places(c) <=> \/ p = <<"epoll", 0>> /\ Armed(c)
                                   \/ \E i \in DOMAIN queue : queue[i] = c /\ p = <<"queue", i>>
                                   \/ \E w \in Workers : wconn[w] = c /\ p = <<"worker", w>>
                                   \/ \E i \in DOMAIN ctrlQueue :
                                          ctrlQueue[i] = c /\ p = <<"control", i>>
                                   \/ p = <<"aggregator", 0>> /\ sink = c
    BY DEF Places
  <2>5. Places(c) # {} <=> Connected(c)
    <3>1. Places(c) # {} <=> Armed(c) \/ c \in Range(queue) \/ InWork(c)
                                \/ c \in Range(ctrlQueue) \/ c = sink
      BY <2>2, <2>3, <2>4 DEF InWork
    <3> QED
      BY <2>1, <3>1 DEF PlacesApart
  <2>6. ASSUME NEW p \in Places(c), NEW q \in Places(c) PROVE p = q
    <3>1. CASE Armed(c)
      BY <2>1, <2>2, <2>3, <2>4, <3>1 DEF PlacesApart, InWork
    <3>2. CASE c \in Range(queue)
      <4>1. PICK i \in DOMAIN queue : queue[i] = c
        BY <2>2, <3>2
      <4>2. \A j \in DOMAIN queue : queue[j] = c => j = i
        BY <2>1, <4>1 DEF HeldOnce, IsInjective
      <4> QED
        BY <2>1, <2>3, <2>4, <3>2, <4>2 DEF PlacesApart, InWork
    <3>3. CASE InWork(c)
      <4>1. PICK w \in Workers : wconn[w] = c
        BY <3>3 DEF InWork
      <4>2. \A v \in Workers : wconn[v] = c => v = w
        BY <2>1, <4>1 DEF HeldOnce
      <4> QED
        BY <2>1, <2>2, <2>3, <2>4, <3>3, <4>2 DEF PlacesApart
    <3>4. CASE c \in Range(ctrlQueue)
      <4>1. PICK i \in DOMAIN ctrlQueue : ctrlQueue[i] = c
        BY <2>3, <3>4
      <4>2. \A j \in DOMAIN ctrlQueue : ctrlQueue[j] = c => j = i
        BY <2>1, <4>1 DEF HeldOnce, IsInjective
      <4> QED
        BY <2>1, <2>2, <2>4, <3>4, <4>2 DEF PlacesApart, InWork
    <3>5. CASE c = sink
      BY <2>1, <2>2, <2>3, <2>4, <3>5 DEF PlacesApart, InWork
    <3> QED
      BY <2>2, <2>3, <2>4, <3>1, <3>2, <3>3, <3>4, <3>5 DEF InWork
  <2> QED
    BY <2>5, <2>6
<1> QED
  BY <1>1, PlacesInvariant, PTL

-----------------------------------------------------------------------------
(* What may be done with a connection *)

\* A step that leaves c alone, except that somebody may give it up.
Same(c) ==
    /\ request'[c] = request[c] /\ state'[c] = state[c] /\ role'[c] = role[c]
    /\ closeAfterSend'[c] = closeAfterSend[c] /\ parsed'[c] = parsed[c]
    /\ answer'[c] = answer[c] /\ answered'[c] = answered[c]
    /\ (Armed(c) \/ c \in Range(queue))' => Armed(c) \/ c \in Range(queue)
    /\ (c \in Range(ctrlQueue) \/ c = sink)' => c \in Range(ctrlQueue) \/ c = sink
Resting(v, x) ==
    /\ wpc'[v] = wpc[v] /\ wconn'[v] = wconn[v]
    /\ wpc[v] = "pop" \/ wconn[v] \in Conns \ {x}

\* A step that is about x keeps what holds of the other connections and of the
\* workers that have others.
LEMMA Elsewhere ==
    ASSUME StageInv, NEW x, \A c \in Conns \ {x} : Same(c)
    PROVE  /\ \A c \in Conns \ {x} : StateFits(c)' /\ Judged(c)'
           /\ \A v \in Workers : Resting(v, x) => InHand(v)'
<1>1. ASSUME NEW c \in Conns \ {x} PROVE StateFits(c)' /\ Judged(c)'
  <2>1. StateFits(c) /\ Judged(c) /\ Same(c)
    BY DEF StageInv
  <2>2. StateFits(c)'
    BY <2>1 DEF StateFits, Same, Granted
  <2>3. Judged(c)'
    BY <2>1 DEF Judged, Same
  <2> QED
    BY <2>2, <2>3
<1>2. ASSUME NEW v \in Workers, Resting(v, x) PROVE InHand(v)'
  <2>1. InHand(v)
    BY DEF StageInv
  <2>2. CASE wpc[v] = "pop"
    BY <1>2, <2>2 DEF InHand, Resting
  <2>3. CASE wpc[v] # "pop"
    <3>1. PICK c \in Conns \ {x} : wconn[v] = c
      BY <1>2, <2>3 DEF Resting
    <3>2. Same(c) /\ wconn'[v] = c /\ wpc'[v] = wpc[v]
      BY <1>2, <3>1 DEF Resting
    <3> QED
      BY <2>1, <3>1, <3>2 DEF InHand, Same, Granted
  <2> QED
    BY <2>2, <2>3
<1> QED
  BY <1>1, <1>2

\* Initially nothing is judged, answered or parsed.
LEMMA InitStages == Init => StageInv
<1> SUFFICES ASSUME Init PROVE StageInv
  OBVIOUS
<1>1. ASSUME NEW w \in Workers PROVE InHand(w)
  BY DEF Init, InHand
<1>2. Range(<<>>) = {}
  BY DEF Range
<1>3. ASSUME NEW c \in Conns PROVE StateFits(c) /\ Judged(c)
  <2>1. c # NoConn
    BY ConnAssumption
  <2>2. StateFits(c)
    BY <1>2, <2>1 DEF Init, StateFits
  <2>3. Judged(c)
    BY DEF Init, Judged
  <2> QED
    BY <2>2, <2>3
<1> QED
  BY <1>1, <1>3 DEF StageInv

\* The peers change nothing of it, the listener hands connections on.
LEMMA OutsideStages ==
    ASSUME PlaceInv, StageInv, NEW x \in Conns, PeerStep(x) \/ Accept(x) \/ ListenerPush(x)
    PROVE  StageInv'
<1>1. /\ state \in [Conns -> {"new", "handshakeRead", "handshakeSend", "wsOpen", "closed"}]
      /\ epoll \in [Conns -> {"in", "inout", "off", "agg", "absent"}]
      /\ queue \in Seq(Conns) /\ HeldOnce /\ PlacesApart(x)
      /\ wconn \in [Workers -> Conns \cup {NoConn}]
      /\ StateFits(x) /\ Judged(x)
  BY DEF PlaceInv, TypeOK, StageInv
<1>2. UNCHANGED <<request, role, closeAfterSend, parsed, answer, answered, ctrlQueue, sink, wpc,
                wconn>>
  BY DEF PeerStep, PeerSend, PeerClose, PeerDrain, Accept, ListenerPush, peerVars, stateVars,
         bufVars, answerVars, shared, workerVars
<1>3. CASE PeerStep(x)
  <2>1. UNCHANGED <<state, epoll, queue>>
    BY <1>3 DEF PeerStep, PeerSend, PeerClose, PeerDrain, stateVars, shared
  <2>2. \A c \in Conns \ {NoConn} : Same(c)
    BY <1>2, <2>1 DEF Same, Armed
  <2>3. \A v \in Workers : Resting(v, NoConn)
    BY <1>1, <1>2, ConnAssumption DEF Resting, HeldOnce
  <2> QED
    BY <2>2, <2>3, Elsewhere, ConnAssumption DEF StageInv
<1>4. CASE Accept(x) \/ ListenerPush(x)
  <2>1. \A c \in Conns \ {x} : state'[c] = state[c] /\ epoll'[c] = epoll[c]
    BY <1>1, <1>4 DEF Accept, ListenerPush, stateVars
  <2>2. ~InWork(x)
    BY <1>1, <1>4 DEF Accept, ListenerPush, PlacesApart, Connected
  <2>3. \A v \in Workers : Resting(v, x)
    BY <1>1, <1>2, <2>2 DEF Resting, HeldOnce, InWork
  <2>4. Judged(x)'
    BY <1>1, <1>2 DEF Judged
  <2>5. CASE Accept(x)
    <3>1. /\ state[x] = "new" /\ queue' = queue
          /\ state'[x] \in {"handshakeRead", "closed"}
      BY <1>1, <2>5 DEF Accept, shared
    <3>2. \A c \in Conns \ {x} : Same(c)
      BY <1>2, <2>1, <3>1 DEF Same, Armed
    <3>3. x \notin Range(ctrlQueue) /\ x # sink
      BY <1>1, <3>1 DEF PlacesApart, Connected
    <3>4. StateFits(x)'
      BY <1>1, <1>2, <3>1, <3>3 DEF StateFits, Granted
    <3> QED
      BY <2>3, <2>4, <3>2, <3>4, Elsewhere DEF StageInv
  <2>6. CASE ListenerPush(x)
    <3>1. /\ Armed(x) /\ queue' = Append(queue, x) /\ state' = state
      BY <2>6 DEF ListenerPush, stateVars
    <3>2. Range(queue') = Range(queue) \cup {x}
      BY <1>1, <3>1, AppendElems
    <3>3. \A c \in Conns \ {x} : Same(c)
      BY <1>2, <2>1, <3>1, <3>2 DEF Same, Armed
    <3>4. StateFits(x)'
      BY <1>1, <1>2, <3>1 DEF StateFits, Granted
    <3> QED
      BY <2>3, <2>4, <3>3, <3>4, Elsewhere DEF StageInv
  <2> QED
    BY <1>4, <2>5, <2>6
<1> QED
  BY <1>3, <1>4

\* A worker that takes a connection does with it what its state asks for.
LEMMA PopStages ==
    ASSUME PlaceInv, StageInv, NEW w \in Workers, WorkerPop(w)
    PROVE  StageInv'
<1>0. queue # <<>> /\ queue \in Seq(Conns)
  BY DEF WorkerPop, PlaceInv, TypeOK
<1> PICK x \in Conns : x = Head(queue)
  BY <1>0
<1>1. /\ queue # <<>> /\ queue' = Tail(queue) /\ wpc[w] = "pop"
      /\ UNCHANGED <<request, state, role, closeAfterSend, parsed, answer, answered, epoll,
                     ctrlQueue, sink>>
      /\ wconn' = [wconn EXCEPT ![w] = x]
      /\ wpc' = [wpc EXCEPT ![w] = CASE state[x] = "handshakeRead" -> "read"
                                      [] state[x] = "handshakeSend" -> "send"
                                      [] OTHER -> "open"]
  BY DEF WorkerPop, Goto, peerVars, stateVars, bufVars, answerVars
<1>2. /\ TypeOK /\ HeldOnce /\ queue \in Seq(Conns) /\ IsInjective(queue)
      /\ wconn \in [Workers -> Conns \cup {NoConn}]
      /\ wpc \in [Workers -> {"pop", "read", "send", "sent", "open", "handoff"}]
      /\ state \in [Conns -> {"new", "handshakeRead", "handshakeSend", "wsOpen", "closed"}]
  BY DEF PlaceInv, TypeOK, HeldOnce
<1>3. x \in Conns /\ x \in Range(queue) /\ Range(queue') = Range(queue) \ {x}
  BY <1>1, <1>2, TailElems
<1>4. wconn'[w] = x /\ \A v \in Workers \ {w} : wconn'[v] = wconn[v] /\ wpc'[v] = wpc[v]
  BY <1>1, <1>2
<1>5. /\ state[x] = "handshakeRead" => wpc'[w] = "read"
      /\ state[x] = "handshakeSend" => wpc'[w] = "send"
      /\ state[x] \notin {"handshakeRead", "handshakeSend"} => wpc'[w] = "open"
  BY <1>1, <1>2
<1>6. PlacesApart(x) /\ StateFits(x) /\ Judged(x)
  BY <1>3 DEF PlaceInv, StageInv
<1>7. Connected(x) /\ ~InWork(x) /\ x \notin Range(ctrlQueue) /\ x # sink
  BY <1>3, <1>6 DEF PlacesApart
<1>8. state[x] \in {"handshakeRead", "handshakeSend", "wsOpen"}
  BY <1>2, <1>3, <1>7 DEF Connected
<1>9. InHand(w)'
  BY <1>1, <1>3, <1>4, <1>5, <1>6, <1>8 DEF InHand, StateFits, Granted
<1>10. \A c \in Conns \ {x} : Same(c)
  BY <1>1, <1>3 DEF Same, Armed
<1>11. \A v \in Workers \ {w} : Resting(v, x)
  BY <1>2, <1>4, <1>7 DEF Resting, HeldOnce, InWork
<1>12. StateFits(x)' /\ Judged(x)'
  BY <1>1, <1>3, <1>6, <1>7 DEF StateFits, Judged, Granted, Armed
<1> QED
  BY <1>9, <1>10, <1>11, <1>12, Elsewhere DEF StageInv

\* A worker goes on with its connection, or gives it up.
LEMMA WorkerStages ==
    ASSUME PlaceInv, StageInv, NEW w \in Workers, WorkerStep(w), ~WorkerPop(w)
    PROVE  StageInv'
<1>1. wpc[w] # "pop"
  BY DEF WorkerStep, ReadPart, ReadTooLong, ReadRequest, FlushAll, FlushSome, FlushError,
         CloseSent, OpenSource, Unregister, HandOff, Serve
<1>2. /\ TypeOK /\ HeldOnce
      /\ wconn \in [Workers -> Conns \cup {NoConn}]
      /\ wpc \in [Workers -> {"pop", "read", "send", "sent", "open", "handoff"}]
      /\ state \in [Conns -> {"new", "handshakeRead", "handshakeSend", "wsOpen", "closed"}]
      /\ role \in [Conns -> {"undecided", "source", "sink"}]
      /\ epoll \in [Conns -> {"in", "inout", "off", "agg", "absent"}]
      /\ answer \in [Conns -> {"none", "101", "400", "426", "431"}]
      /\ answered \in [Conns -> BOOLEAN] /\ closeAfterSend \in [Conns -> BOOLEAN]
      /\ parsed \in [Conns -> 0..MaxEarly] /\ ctrlQueue \in Seq(Conns)
  BY DEF PlaceInv, TypeOK
<1> PICK x \in Conns : x = wconn[w]
  BY <1>1, <1>2, Working
<1>3. PlacesApart(x) /\ StateFits(x) /\ Judged(x) /\ InHand(w) /\ InWork(x)
  BY DEF PlaceInv, StageInv, InWork
<1>4. /\ ~Armed(x) /\ x \notin Range(queue) /\ x \notin Range(ctrlQueue) /\ x # sink
  BY <1>3 DEF PlacesApart
<1>5. /\ UNCHANGED <<request, queue, sink>>
      /\ \A v \in Workers \ {w} : wpc'[v] = wpc[v] /\ wconn'[v] = wconn[v]
  BY <1>2 DEF WorkerStep, ReadPart, ReadTooLong, ReadRequest, FlushAll, FlushSome, FlushError,
         CloseSent, OpenSource, Unregister, HandOff, Serve, peerVars, shared, workerVars,
         Rearm, Destroy, Release, Goto, Reply
<1>6. \A v \in Workers \ {w} : Resting(v, x)
  BY <1>2, <1>5, <1>1 DEF Resting, HeldOnce
<1>7. ASSUME \A c \in Conns \ {x} : Same(c), StateFits(x)', Judged(x)', InHand(w)'
      PROVE  StageInv'
  BY <1>6, <1>7, Elsewhere DEF StageInv
\* A connection the worker gives back to epoll, or frees.
<1>8. ASSUME Release(w), Rearm(w, "in") \/ Rearm(w, "inout") \/ Destroy(w),
             UNCHANGED <<role, closeAfterSend, answer, answered, ctrlQueue>>,
             \A c \in Conns : parsed'[c] = parsed[c] \/ (Granted(c) /\ c = x),
             Destroy(w) \/ (state' = state /\ (state[x] = "handshakeSend" => ~answered[x]))
      PROVE  StageInv'
  <2>1. wpc'[w] = "pop"
    BY <1>2, <1>8 DEF Release, Goto
  <2>2. \A c \in Conns \ {x} : state'[c] = state[c] /\ epoll'[c] = epoll[c]
    BY <1>2, <1>8 DEF Rearm, Destroy
  <2>3. \A c \in Conns \ {x} : Same(c)
    BY <1>5, <1>8, <2>2 DEF Same, Armed
  <2>4. Destroy(w) => state'[x] = "closed"
    BY <1>2 DEF Destroy
  <2>5. StateFits(x)'
    BY <1>3, <1>4, <1>5, <1>8, <2>4 DEF StateFits, Granted
  <2>6. Judged(x)'
    BY <1>3, <1>5, <1>8 DEF Judged
  <2>7. InHand(w)'
    BY <2>1 DEF InHand
  <2> QED
    BY <1>7, <2>3, <2>5, <2>6, <2>7
<1>9. CASE ReadPart(w)
  <2>1. state[x] = "handshakeRead"
    BY <1>3, <1>9 DEF ReadPart, InHand
  <2> QED
    BY <1>8, <1>9, <2>1 DEF ReadPart, Destroy, Rearm, answerVars, shared
<1>10. CASE FlushSome(w)
  <2>1. ~answered[x]
    BY <1>3, <1>10 DEF FlushSome, InHand
  <2> QED
    BY <1>8, <1>10, <2>1 DEF FlushSome, Rearm, stateVars, bufVars, answerVars, shared
<1>11. CASE FlushError(w) \/ CloseSent(w)
  BY <1>8, <1>11 DEF FlushError, CloseSent, Destroy, bufVars, answerVars, shared
<1>12. CASE Serve(w)
  <2>1. state[x] = "wsOpen" /\ Granted(x)
    BY <1>3, <1>12 DEF Serve, InHand, StateFits
  <2>2. \A c \in Conns \ {x} : parsed'[c] = parsed[c]
    BY <1>2, <1>12 DEF Serve, ParseAll
  <2> QED
    BY <1>8, <1>12, <2>1, <2>2 DEF Serve, Destroy, Rearm, answerVars, shared
<1>13. CASE ReadTooLong(w) \/ ReadRequest(w)
  <2> DEFINE hr == Judge(request[x].text)
  <2>1. state[x] = "handshakeRead" /\ answer[x] = "none" /\ ~answered[x] /\ parsed[x] = 0
    BY <1>2, <1>3, <1>13 DEF ReadTooLong, ReadRequest, InHand, StateFits, Granted
  <2>2. Status(hr) \in {"101", "400", "426"} /\ (Status(hr) = "101" <=> hr = "HS_OK")
    BY DEF Status
  <2>3. /\ UNCHANGED <<parsed, answered, epoll, ctrlQueue, wconn>>
        /\ wpc'[w] = "send" /\ state'[x] = "handshakeSend"
        /\ \A c \in Conns \ {x} : /\ state'[c] = state[c] /\ answer'[c] = answer[c]
                                  /\ role'[c] = role[c] /\ closeAfterSend'[c] = closeAfterSend[c]
    BY <1>2, <1>13 DEF ReadTooLong, ReadRequest, Reply, Goto, shared
  <2>4. \/ answer'[x] = "431" /\ closeAfterSend'[x] /\ role'[x] = role[x]
        \/ /\ answer'[x] = Status(hr)
           /\ closeAfterSend'[x] = (fin[x] \/ hr # "HS_OK")
           /\ \/ role'[x] = role[x]
              \/ /\ hr = "HS_OK"
                 /\ role'[x] = IF Path(request[x].text) = SinkPath THEN "sink" ELSE "source"
    BY <1>2, <1>13 DEF ReadTooLong, ReadRequest, Reply
  <2> HIDE DEF hr
  <2>5. \A c \in Conns \ {x} : Same(c)
    BY <1>5, <2>3 DEF Same, Armed
  <2>6. StateFits(x)'
    BY <1>3, <1>4, <1>5, <2>1, <2>2, <2>3, <2>4 DEF StateFits, Granted, Armed
  <2>7. Judged(x)'
    BY <1>3, <1>5, <2>1, <2>4 DEF Judged, hr
  <2>8. InHand(w)'
    BY <2>1, <2>3 DEF InHand
  <2> QED
    BY <1>7, <2>5, <2>6, <2>7, <2>8
<1>14. CASE FlushAll(w)
  <2>1. state[x] = "handshakeSend"
    BY <1>3, <1>14 DEF FlushAll, InHand
  <2>2. /\ UNCHANGED <<state, role, closeAfterSend, parsed, answer, epoll, ctrlQueue, wconn>>
        /\ wpc'[w] = "sent" /\ answered'[x] = TRUE
        /\ \A c \in Conns \ {x} : answered'[c] = answered[c]
    BY <1>2, <1>14 DEF FlushAll, Goto, shared, stateVars, bufVars
  <2>3. \A c \in Conns \ {x} : Same(c)
    BY <1>5, <2>2 DEF Same, Armed
  <2>4. StateFits(x)' /\ Judged(x)'
    BY <1>3, <1>4, <1>5, <2>1, <2>2 DEF StateFits, Judged, Granted, Armed
  <2>5. InHand(w)'
    BY <2>1, <2>2 DEF InHand
  <2> QED
    BY <1>7, <2>3, <2>4, <2>5
<1>15. CASE OpenSource(w) \/ Unregister(w) \/ HandOff(w)
  <2>1. /\ state[x] = "handshakeSend" /\ Granted(x)
        /\ role[x] = "sink" \/ OpenSource(w)
    BY <1>3, <1>15 DEF OpenSource, Unregister, HandOff, InHand, StateFits, Granted
  <2>2. /\ UNCHANGED <<role, closeAfterSend, parsed, answer, answered>>
        /\ \A c \in Conns \ {x} : state'[c] = state[c] /\ (Armed(c)' => Armed(c))
        /\ Armed(x)' => Armed(x)
    BY <1>2, <1>15 DEF OpenSource, Unregister, HandOff, stateVars, bufVars, answerVars, Armed
  <2>3. \/ OpenSource(w) /\ wpc'[w] = "open" /\ wconn' = wconn /\ state'[x] = "wsOpen"
        \/ Unregister(w) /\ wpc'[w] = "handoff" /\ wconn' = wconn /\ state'[x] = state[x]
        \/ HandOff(w) /\ wpc'[w] = "pop" /\ state'[x] = state[x]
    BY <1>2, <1>15 DEF OpenSource, Unregister, HandOff, Goto, Release, stateVars
  <2>4. \/ Range(ctrlQueue') = Range(ctrlQueue)
        \/ HandOff(w) /\ Range(ctrlQueue') = Range(ctrlQueue) \cup {x}
    <3>1. CASE HandOff(w)
      <4>1. ctrlQueue' = Append(ctrlQueue, x)
        BY <3>1 DEF HandOff
      <4> QED
        BY <1>2, <3>1, <4>1, AppendElems
    <3>2. CASE OpenSource(w) \/ Unregister(w)
      BY <3>2 DEF OpenSource, Unregister, shared
    <3> QED
      BY <1>15, <3>1, <3>2
  <2>5. \A c \in Conns \ {x} : Same(c)
    BY <1>5, <2>2, <2>4 DEF Same
  <2>6. StateFits(x)'
    BY <1>3, <1>4, <1>5, <2>1, <2>2, <2>3, <2>4 DEF StateFits, Granted, HandOff, OpenSource
  <2>7. Judged(x)'
    BY <1>3, <1>5, <2>2 DEF Judged
  <2>8. InHand(w)'
    BY <2>1, <2>2, <2>3 DEF InHand, Granted, OpenSource, Unregister
  <2> QED
    BY <1>7, <2>5, <2>6, <2>7, <2>8
<1> QED
  BY <1>9, <1>10, <1>11, <1>12, <1>13, <1>14, <1>15 DEF WorkerStep

\* The aggregator takes over what has had its 101.
LEMMA AggStages ==
    ASSUME PlaceInv, StageInv, AggStep
    PROVE  StageInv'
<1>1. /\ wconn \in [Workers -> Conns \cup {NoConn}] /\ HeldOnce
      /\ state \in [Conns -> {"new", "handshakeRead", "handshakeSend", "wsOpen", "closed"}]
      /\ epoll \in [Conns -> {"in", "inout", "off", "agg", "absent"}]
      /\ parsed \in [Conns -> 0..MaxEarly]
      /\ ctrlQueue \in Seq(Conns) /\ sink \in Conns \cup {NoConn} /\ NoConn \notin Conns
  BY ConnAssumption DEF PlaceInv, TypeOK
<1>2. UNCHANGED <<request, role, closeAfterSend, answer, answered, queue, wpc, wconn>>
  BY DEF AggStep, ReplaceSink, AdoptSink, SinkInput, peerVars, stateVars, answerVars, workerVars
<1>3. CASE AdoptSink
  <2>0. ctrlQueue # <<>> /\ sink = NoConn
    BY <1>3 DEF AdoptSink
  <2> PICK x \in Conns : x = Head(ctrlQueue)
    BY <1>1, <2>0
  <2>1. sink' = x /\ ctrlQueue' = Tail(ctrlQueue) /\ UNCHANGED <<state, parsed>>
        /\ epoll' = [epoll EXCEPT ![x] = "agg"]
    BY <1>3 DEF AdoptSink, stateVars, bufVars
  <2>2. x \in Range(ctrlQueue) /\ Range(ctrlQueue') \subseteq Range(ctrlQueue)
    BY <1>1, <2>0, <2>1, TailElems
  <2>3. PlacesApart(x) /\ StateFits(x) /\ Judged(x)
    BY DEF PlaceInv, StageInv
  <2>4. \A c \in Conns \ {x} : Same(c)
    BY <1>1, <1>2, <2>1, <2>2 DEF Same, Armed
  <2>5. \A v \in Workers : Resting(v, x)
    BY <1>1, <1>2, <2>2, <2>3 DEF Resting, HeldOnce, PlacesApart, InWork
  <2>6. StateFits(x)'
    <3>1. ~Armed(x)' /\ x \notin Range(queue')
      BY <1>1, <1>2, <2>1, <2>2, <2>3 DEF PlacesApart, Armed
    <3> QED
      BY <1>2, <2>1, <2>2, <2>3, <3>1 DEF StateFits, Granted
  <2>7. Judged(x)'
    BY <1>2, <2>3 DEF Judged
  <2> QED
    BY <2>4, <2>5, <2>6, <2>7, Elsewhere DEF StageInv
<1>4. CASE ReplaceSink \/ SinkInput
  <2>0. sink # NoConn
    BY <1>4 DEF ReplaceSink, SinkInput
  <2> PICK x \in Conns : x = sink
    BY <1>1, <2>0
  <2>1. PlacesApart(x) /\ StateFits(x) /\ Judged(x)
    BY DEF PlaceInv, StageInv
  <2>2. Granted(x) /\ \A v \in Workers : wconn[v] # x
    BY <2>1 DEF PlacesApart, StateFits, InWork
  <2>3. ctrlQueue' = ctrlQueue /\ \A c \in Conns \ {x} : parsed'[c] = parsed[c]
    BY <1>1, <1>4 DEF ReplaceSink, SinkInput, ParseAll, bufVars
  <2>4. CloseSink \/ UNCHANGED <<state, epoll, sink>>
    BY <1>4 DEF ReplaceSink, SinkInput
  <2>5. \A c \in Conns \ {x} : state'[c] = state[c] /\ epoll'[c] = epoll[c] /\ c # sink'
    BY <1>1, <2>4 DEF CloseSink
  <2>6. \A c \in Conns \ {x} : Same(c)
    BY <1>2, <2>3, <2>5 DEF Same, Armed
  <2>7. \A v \in Workers : Resting(v, x)
    BY <1>1, <1>2, <2>2 DEF Resting, HeldOnce
  <2>8. StateFits(x)'
    <3>1. CASE UNCHANGED <<state, epoll, sink>>
      BY <1>2, <2>1, <2>2, <2>3, <3>1 DEF StateFits, Granted, Armed
    <3>2. CASE CloseSink
      <4>1. state'[x] = "closed" /\ x # sink' /\ x \notin Range(ctrlQueue')
        BY <1>1, <2>1, <2>3, <3>2 DEF CloseSink, PlacesApart
      <4> QED
        BY <1>2, <2>1, <2>2, <4>1 DEF StateFits, Granted
    <3> QED
      BY <2>4, <3>1, <3>2
  <2>9. Judged(x)'
    BY <1>2, <2>1 DEF Judged
  <2> QED
    BY <2>6, <2>7, <2>8, <2>9, Elsewhere DEF StageInv
<1> QED
  BY <1>3, <1>4 DEF AggStep

\* The inductive invariant behind UpgradeFirst and ImplementsSession.
THEOREM StagesInvariant == Spec => []StageInv
<1>1. PlaceInv /\ StageInv /\ [Next]_vars => StageInv'
  <2> SUFFICES ASSUME PlaceInv, StageInv, [Next]_vars PROVE StageInv'
    OBVIOUS
  <2>1. CASE UNCHANGED vars
    BY <2>1 DEF StageInv, InHand, StateFits, Judged, Granted, Armed, vars, peerVars, bufVars,
                stateVars, answerVars, shared, workerVars
  <2> QED
    BY <2>1, OutsideStages, PopStages, WorkerStages, AggStages DEF Next
<1> QED
  BY InitStages, PlacesInvariant, <1>1, PTL DEF Spec

-----------------------------------------------------------------------------
(* What the request says *)

\* The parts of a request.
LEMMA RequestParts ==
    ASSUME NEW r \in Requests
    PROVE  /\ ~(Len(r.line) < 2) <=> Len(r.line) >= 2
           /\ Len(r.line) = 3 => Len(r.line) > 2 /\ Len(r.line) >= 2
           /\ DOMAIN r.headers \subseteq Nat
           /\ \A i \in DOMAIN r.headers : r.headers[i].value \in Seq(STRING)
<1>1. r.line \in Seq(STRING) /\ r.headers \in Seq(Headers)
  BY DEF Requests
<1>2. \A i \in DOMAIN r.headers : r.headers[i] \in Headers /\ i \in Nat
  BY <1>1
<1>3. \A h \in Headers : h.value \in Seq(STRING)
  BY DEF Headers
<1>4. /\ ~(Len(r.line) < 2) <=> Len(r.line) >= 2
      /\ Len(r.line) = 3 => Len(r.line) > 2 /\ Len(r.line) >= 2
  <2>1. Len(r.line) \in Nat
    BY <1>1
  <2>2. \A n \in Nat : (~(n < 2) <=> n >= 2) /\ (n = 3 => n > 2 /\ n >= 2)
    OBVIOUS
  <2> QED
    BY <2>1, <2>2, Zenon
<1> QED
  BY <1>1, <1>2, <1>3, <1>4

\* httpFindHeader() finds a header of the name if there is one, and the right
\* one if there is no other.
LEMMA HeaderFound ==
    ASSUME NEW r \in Requests, NEW name
    PROVE  /\ Value(r, name) # <<>> =>
                  \E i \in DOMAIN r.headers :
                      r.headers[i].name = name /\ Value(r, name) = r.headers[i].value
           /\ \A i \in DOMAIN r.headers :
                  r.headers[i].name = name
                  /\ (\A j \in DOMAIN r.headers : r.headers[j].name = name => j = i) =>
                      Value(r, name) = r.headers[i].value
<1> DEFINE F == FindHeader(r, name)
<1>1. F \subseteq Nat /\ F \subseteq DOMAIN r.headers
  BY RequestParts DEF FindHeader
<1>2. \A i \in DOMAIN r.headers : i \in F <=> r.headers[i].name = name
  BY DEF FindHeader
<1>3. Value(r, name) = IF F = {} THEN <<>> ELSE r.headers[Min(F)].value
  BY DEF Value
<1> HIDE DEF F
<1>4. F # {} => Min(F) \in F
  BY <1>1, NatMin DEF Min
<1> QED
  BY <1>1, <1>2, <1>3, <1>4

\* What is granted asks for the upgrade.
LEMMA GrantedAsks ==
    ASSUME NEW r \in Requests, Judge(r) = "HS_OK"
    PROVE  AsksUpgrade(r)
<1>1. /\ Len(r.line) >= 2 /\ r.line[1] = "GET"
      /\ HasToken(r, "upgrade", "websocket") /\ HasToken(r, "connection", "upgrade")
      /\ Value(r, "sec-websocket-version") = <<"13">>
      /\ Value(r, "sec-websocket-key") = <<GoodKey>>
  <2>1. ~(Len(r.line) < 2 \/ r.line[1] # "GET" \/ Path(r) \in {"", LongPath})
    BY DEF Judge
  <2>2. ~(~HasToken(r, "upgrade", "websocket") \/ ~HasToken(r, "connection", "upgrade"))
    BY <2>1 DEF Judge
  <2>3. Value(r, "sec-websocket-version") = <<"13">>
    BY <2>1, <2>2 DEF Judge
  <2>4. Value(r, "sec-websocket-key") = <<GoodKey>>
    BY <2>1, <2>2, <2>3 DEF Judge
  <2>5. Len(r.line) >= 2
    BY <2>1, RequestParts, Zenon
  <2> QED
    BY <2>1, <2>2, <2>3, <2>4, <2>5
<1>2. ASSUME NEW name, NEW item, \E i \in DOMAIN Value(r, name) : Value(r, name)[i] = item
      PROVE  Lists(r, name, item)
  <2>1. Value(r, name) # <<>>
    BY <1>2
  <2> QED
    BY <1>2, <2>1, HeaderFound DEF Lists
<1>3. ASSUME NEW name, NEW item, Value(r, name) = <<item>>
      PROVE  Lists(r, name, item)
  <2>1. 1 \in DOMAIN <<item>> /\ <<item>>[1] = item
    OBVIOUS
  <2> QED
    BY <1>2, <1>3, <2>1
<1> QED
  BY <1>1, <1>2, <1>3 DEF HasToken, AsksUpgrade

\* A request for the upgrade that nobody could object to is granted.
LEMMA WellFormedGranted ==
    ASSUME NEW r \in Requests, AsksUpgrade(r), WellFormed(r)
    PROVE  Judge(r) = "HS_OK"
<1>1. ASSUME NEW name, NEW item, Lists(r, name, item)
      PROVE  /\ HasToken(r, name, item)
             /\ name \in {"sec-websocket-version", "sec-websocket-key"} =>
                    Value(r, name) = <<item>>
  <2>1. PICK i \in DOMAIN r.headers :
            /\ r.headers[i].name = name
            /\ \E j \in DOMAIN r.headers[i].value : r.headers[i].value[j] = item
    BY <1>1 DEF Lists
  <2>2. Value(r, name) = r.headers[i].value
    <3>1. \A j \in DOMAIN r.headers : r.headers[j].name = name => j = i
      BY <2>1 DEF WellFormed
    <3> QED
      BY <2>1, <3>1, HeaderFound
  <2>3. r.headers[i].value \in Seq(STRING)
    BY RequestParts
  <2>4. HasToken(r, name, item)
    BY <2>1, <2>2 DEF HasToken
  <2>5. ASSUME name \in {"sec-websocket-version", "sec-websocket-key"}
        PROVE  Value(r, name) = <<item>>
    <3>1. Len(r.headers[i].value) = 1
      BY <2>1, <2>5 DEF WellFormed
    <3>2. ASSUME NEW s \in Seq(STRING), Len(s) = 1, \E j \in DOMAIN s : s[j] = item
          PROVE  s = <<item>>
      BY <3>2
    <3> QED
      BY <2>1, <2>2, <2>3, <3>1, <3>2
  <2> QED
    BY <2>4, <2>5
<1>2. Len(r.line) = 3 /\ r.line[1] = "GET" /\ Path(r) \notin {"", LongPath}
  <2>1. Len(r.line) = 3 /\ r.line[1] = "GET" /\ r.line[2] \notin {"", LongPath}
    BY DEF AsksUpgrade, WellFormed
  <2>2. Len(r.line) > 2
    BY <2>1, RequestParts, Zenon
  <2>3. Path(r) = r.line[2]
    BY <2>2 DEF Path
  <2> QED
    BY <2>1, <2>3
<1>3. /\ HasToken(r, "upgrade", "websocket") /\ HasToken(r, "connection", "upgrade")
      /\ Value(r, "sec-websocket-version") = <<"13">>
      /\ Value(r, "sec-websocket-key") = <<GoodKey>>
  BY <1>1 DEF AsksUpgrade
<1>4. ~(Len(r.line) < 2 \/ r.line[1] # "GET" \/ Path(r) \in {"", LongPath})
  <2>1. ~(Len(r.line) < 2)
    BY <1>2, RequestParts, Zenon
  <2> QED
    BY <1>2, <2>1
<1> QED
  BY <1>3, <1>4 DEF Judge

\* The sink is who asked for the sink's path on its request line.
LEMMA SinkAsked ==
    ASSUME NEW r \in Requests, Judge(r) = "HS_OK", Path(r) = SinkPath
    PROVE  r.line[2] = SinkPath
<1>1. Path(r) # ""
  BY DEF Judge
<1> QED
  BY <1>1, PathAssumption DEF Path

\* README.md:166-178 for any requests, in any pieces, with anything sent behind
\* them: no frame is data before its peer has been told of the upgrade, what is
\* granted asks for it, and what keeps to the rules is not refused.
THEOREM UpgradeFirstAlways == Spec => []UpgradeFirst
<1>1. PlaceInv /\ StageInv => UpgradeFirst
  <2> SUFFICES ASSUME PlaceInv, StageInv, NEW c \in Conns
               PROVE  /\ parsed[c] > 0 => answer[c] = "101" /\ answered[c]
                      /\ answer[c] = "101" => AsksUpgrade(request[c].text)
                      /\ answer[c] \in {"400", "426"} =>
                             ~(AsksUpgrade(request[c].text) /\ WellFormed(request[c].text))
                      /\ sink = c => request[c].text.line[2] = SinkPath
    BY DEF UpgradeFirst, JudgedRightly
  <2>1. request[c].text \in Requests
    BY TextAssumption DEF PlaceInv, TypeOK
  <2>2. StateFits(c) /\ Judged(c)
    BY DEF StageInv
  <2>3. parsed[c] > 0 => answer[c] = "101" /\ answered[c]
    BY <2>2 DEF StateFits, Granted
  <2> DEFINE hr == Judge(request[c].text)
  <2>4. Status(hr) = "101" <=> hr = "HS_OK"
    BY DEF Status
  <2>5. answer[c] \in {"101", "400", "426"} => answer[c] = Status(hr)
    BY <2>2 DEF Judged
  <2>6. sink = c => hr = "HS_OK" /\ Path(request[c].text) = SinkPath
    BY <2>2 DEF StateFits, Judged
  <2>7. answer[c] = "101" => AsksUpgrade(request[c].text)
    BY <2>1, <2>4, <2>5, GrantedAsks
  <2>8. answer[c] \in {"400", "426"} =>
            ~(AsksUpgrade(request[c].text) /\ WellFormed(request[c].text))
    BY <2>1, <2>4, <2>5, WellFormedGranted
  <2>9. sink = c => request[c].text.line[2] = SinkPath
    BY <2>1, <2>6, SinkAsked
  <2> QED
    BY <2>3, <2>7, <2>8, <2>9
<1> QED
  BY <1>1, PlacesInvariant, StagesInvariant, PTL

-----------------------------------------------------------------------------
(* The promise: Session *)

\* The stage of a connection, by its state and by who has it.
StageTable(c) ==
    /\ state[c] \in {"new", "closed"} => Stage(c) = state[c]
    /\ state[c] = "handshakeRead" => Stage(c) = "request"
    /\ state[c] = "wsOpen" => Stage(c) = "source"
    /\ state[c] = "handshakeSend" =>
           Stage(c) = IF c = sink THEN "sink" ELSE IF Waiting(c) THEN "handoff" ELSE "answer"
    /\ c = sink \/ Waiting(c) => state[c] = "handshakeSend" /\ Granted(c)
    /\ c = sink => ~Waiting(c)
Stages == \A c \in Conns : StageTable(c)

\* Only the sink and the connections that wait for the aggregator are not told
\* apart by their states.
LEMMA StagesFollow == PlaceInv /\ StageInv => Stages
<1> SUFFICES ASSUME PlaceInv, StageInv, NEW c \in Conns PROVE StageTable(c)
  BY DEF Stages
<1>1. /\ state[c] \in {"new", "handshakeRead", "handshakeSend", "wsOpen", "closed"}
      /\ PlacesApart(c) /\ StateFits(c) /\ \A w \in Workers : InHand(w)
  BY DEF PlaceInv, StageInv, TypeOK
<1>2. c = sink \/ Waiting(c) => state[c] = "handshakeSend" /\ Granted(c)
  BY <1>1 DEF StateFits, InHand, Waiting
<1>3. c = sink => ~Waiting(c)
  BY <1>1 DEF PlacesApart, InWork, Waiting
<1>5. CASE state[c] \in {"new", "closed"}
  <2>1. Stage(c) = state[c]
    BY <1>2, <1>5 DEF Stage
  <2> QED
    BY <1>2, <1>3, <1>5, <2>1 DEF StageTable
<1>6. CASE state[c] = "handshakeRead"
  <2>1. Stage(c) = "request"
    BY <1>2, <1>6 DEF Stage
  <2> QED
    BY <1>2, <1>3, <1>6, <2>1 DEF StageTable
<1>7. CASE state[c] = "wsOpen"
  <2>1. Stage(c) = "source"
    BY <1>2, <1>7 DEF Stage
  <2> QED
    BY <1>2, <1>3, <1>7, <2>1 DEF StageTable
<1>8. CASE state[c] = "handshakeSend"
  <2>1. Stage(c) = IF c = sink THEN "sink" ELSE IF Waiting(c) THEN "handoff" ELSE "answer"
    BY <1>8 DEF Stage
  <2> QED
    BY <1>2, <1>3, <1>8, <2>1 DEF StageTable
<1> QED
  BY <1>1, <1>5, <1>6, <1>7, <1>8

\* What keeps the stage of a connection, and what Session sees of the rest.
Still(c) ==
    /\ state'[c] = state[c]
    /\ (c = sink)' <=> c = sink
    /\ Waiting(c)' <=> Waiting(c)
Told == \A c \in Conns : answer'[c] = answer[c] /\ answered'[c] = answered[c]

LEMMA StillStage ==
    ASSUME TypeOK, Stages, Stages', NEW c \in Conns, Still(c)
    PROVE  Stage(c)' = Stage(c)
<1>1. StageTable(c) /\ StageTable(c)'
  BY DEF Stages
<1>2. state[c] \in {"new", "handshakeRead", "handshakeSend", "wsOpen", "closed"}
  BY DEF TypeOK
<1> QED
  BY <1>1, <1>2 DEF StageTable, Still

\* A step about x moves x from one stage to another.
LEMMA MoveStage ==
    ASSUME TypeOK, Stages, Stages', NEW x \in Conns, \A c \in Conns \ {x} : Still(c)
    PROVE  [c \in Conns |-> Stage(c)]' = [[c \in Conns |-> Stage(c)] EXCEPT ![x] = Stage(x)']
<1>1. \A c \in Conns \ {x} : Stage(c)' = Stage(c)
  BY StillStage
<1> QED
  BY <1>1

LEMMA StutterMaps ==
    ASSUME PlaceInv, PlaceInv', Stages, Stages', Told, \A c \in Conns : Still(c)
    PROVE  UNCHANGED Abstract!vars
<1>1. TypeOK /\ answered \in [Conns -> BOOLEAN] /\ answered' \in [Conns -> BOOLEAN]
  BY DEF PlaceInv, TypeOK
<1>2. \A c \in Conns : Stage(c)' = Stage(c)
  BY <1>1, StillStage
<1>3. [c \in Conns |-> Stage(c)]' = [c \in Conns |-> Stage(c)]
  BY <1>2
<1>4. [c \in Conns |-> answer[c] = "101"]' = [c \in Conns |-> answer[c] = "101"]
  BY DEF Told
<1>5. answered' = answered
  BY <1>1 DEF Told
<1> QED
  BY <1>3, <1>4, <1>5 DEF Abstract!vars

\* A connection that nobody has promised anything may be closed.
LEMMA CloseMaps ==
    ASSUME PlaceInv, PlaceInv', Stages, Stages', Told, NEW x \in Conns,
           \A c \in Conns \ {x} : Still(c),
           state[x] # "closed", ~Waiting(x), state'[x] = "closed"
    PROVE  Abstract!Close(x)
<1>1. TypeOK /\ answered \in [Conns -> BOOLEAN] /\ answered' \in [Conns -> BOOLEAN]
      /\ state[x] \in {"new", "handshakeRead", "handshakeSend", "wsOpen", "closed"}
  BY DEF PlaceInv, TypeOK
<1>2. StageTable(x) /\ StageTable(x)'
  BY DEF Stages
<1>3. Stage(x)' = "closed"
  BY <1>2 DEF StageTable
<1>4. Stage(x) \in {"new", "request", "answer", "source", "sink"}
  BY <1>1, <1>2 DEF StageTable
<1>5. [c \in Conns |-> Stage(c)]' = [[c \in Conns |-> Stage(c)] EXCEPT ![x] = "closed"]
  BY <1>1, <1>3, MoveStage
<1>6. [c \in Conns |-> answer[c] = "101"]' = [c \in Conns |-> answer[c] = "101"]
  BY DEF Told
<1>7. answered' = answered
  BY <1>1 DEF Told
<1> QED
  BY <1>4, <1>5, <1>6, <1>7 DEF Abstract!Close, Abstract!Move

\* Peers, and the listener that queues a connection, change no stage.
LEMMA OutsideMaps ==
    ASSUME PlaceInv, PlaceInv', Stages, Stages', NEW x \in Conns,
           PeerStep(x) \/ Accept(x) \/ ListenerPush(x)
    PROVE  Abstract!Next \/ UNCHANGED Abstract!vars
<1>1. UNCHANGED <<answer, answered, ctrlQueue, sink, wpc, wconn>>
  BY DEF PeerStep, PeerSend, PeerClose, PeerDrain, Accept, ListenerPush, answerVars, shared,
         workerVars
<1>2. Told /\ \A c \in Conns : ((c = sink)' <=> c = sink) /\ (Waiting(c)' <=> Waiting(c))
  BY <1>1 DEF Told, Waiting
<1>3. TypeOK /\ PlacesApart(x) /\ answered' = answered
      /\ state \in [Conns -> {"new", "handshakeRead", "handshakeSend", "wsOpen", "closed"}]
  BY <1>1 DEF PlaceInv, TypeOK
<1>4. CASE state' = state
  BY <1>2, <1>4, StutterMaps DEF Still
<1>5. CASE Accept(x)
  <2>1. state[x] = "new" /\ \A c \in Conns \ {x} : state'[c] = state[c]
    BY <1>3, <1>5 DEF Accept
  <2>2. \A c \in Conns \ {x} : Still(c)
    BY <1>2, <2>1 DEF Still
  <2>3. ~Waiting(x)
    BY <1>3, <2>1 DEF PlacesApart, Connected, InWork, Waiting
  <2>4. CASE state'[x] = "closed"
    <3>1. Abstract!Close(x)
      BY <1>2, <2>1, <2>2, <2>3, <2>4, CloseMaps
    <3> QED
      BY <3>1 DEF Abstract!Next
  <2>5. CASE state'[x] = "handshakeRead"
    <3>1. StageTable(x) /\ StageTable(x)'
      BY DEF Stages
    <3>2. Stage(x) = "new" /\ Stage(x)' = "request"
      BY <2>1, <2>5, <3>1 DEF StageTable
    <3>3. [c \in Conns |-> Stage(c)]' = [[c \in Conns |-> Stage(c)] EXCEPT ![x] = "request"]
      BY <1>3, <2>2, <3>2, MoveStage
    <3>4. [c \in Conns |-> answer[c] = "101"]' = [c \in Conns |-> answer[c] = "101"]
      BY <1>1
    <3>5. Abstract!Accept(x)
      BY <1>3, <3>2, <3>3, <3>4 DEF Abstract!Accept, Abstract!Move
    <3> QED
      BY <3>5 DEF Abstract!Next
  <2> QED
    BY <1>3, <1>5, <2>4, <2>5 DEF Accept
<1> QED
  BY <1>4, <1>5 DEF PeerStep, PeerSend, PeerClose, PeerDrain, ListenerPush, stateVars

\* The step of a worker is about its connection, and moves it as Session allows.
LEMMA WorkerMaps ==
    ASSUME PlaceInv, PlaceInv', StageInv, Stages, Stages', NEW w \in Workers, WorkerStep(w)
    PROVE  Abstract!Next \/ UNCHANGED Abstract!vars
<1>1. /\ TypeOK /\ HeldOnce
      /\ wconn \in [Workers -> Conns \cup {NoConn}]
      /\ wpc \in [Workers -> {"pop", "read", "send", "sent", "open", "handoff"}]
      /\ state \in [Conns -> {"new", "handshakeRead", "handshakeSend", "wsOpen", "closed"}]
      /\ answer \in [Conns -> {"none", "101", "400", "426", "431"}]
      /\ answered \in [Conns -> BOOLEAN] /\ ctrlQueue \in Seq(Conns)
      /\ \A c \in Conns : c # NoConn
  <2>1. \A c \in Conns : c # NoConn
    BY ConnAssumption
  <2> QED
    BY <2>1 DEF PlaceInv, TypeOK
<1>2. CASE WorkerPop(w)
  <2>1. /\ UNCHANGED <<state, answer, answered, ctrlQueue, sink>>
        /\ wpc[w] = "pop" /\ wpc'[w] \in {"read", "send", "open"}
        /\ \A v \in Workers \ {w} : wpc'[v] = wpc[v] /\ wconn'[v] = wconn[v]
    BY <1>1, <1>2 DEF WorkerPop, Goto, stateVars, answerVars
  <2>2. Told /\ \A c \in Conns : Still(c)
    BY <2>1 DEF Told, Still, Waiting
  <2> QED
    BY <2>2, StutterMaps
<1>3. ASSUME ~WorkerPop(w)
      PROVE  Abstract!Next \/ UNCHANGED Abstract!vars
  <2>1. wpc[w] # "pop"
    BY <1>3 DEF WorkerStep, ReadPart, ReadTooLong, ReadRequest, FlushAll, FlushSome, FlushError,
           CloseSent, OpenSource, Unregister, HandOff, Serve
  <2> PICK x \in Conns : x = wconn[w]
    BY <1>1, <2>1, Working
  <2>2. /\ PlacesApart(x) /\ InWork(x) /\ StateFits(x) /\ InHand(w)
        /\ StageTable(x) /\ StageTable(x)'
    BY DEF PlaceInv, StageInv, InWork, Stages
  <2>3. x \notin Range(ctrlQueue) /\ x # sink
    BY <2>2 DEF PlacesApart
  <2>4. \A v \in Workers \ {w} : wconn[v] # x
    BY <1>1, <2>1 DEF HeldOnce
  <2>5. Waiting(x) <=> wpc[w] = "handoff"
    BY <2>3, <2>4 DEF Waiting
  <2>6. /\ sink' = sink /\ wconn'[w] \in {x, NoConn}
        /\ \A v \in Workers \ {w} : wpc'[v] = wpc[v] /\ wconn'[v] = wconn[v]
        /\ \A c \in Conns \ {x} : state'[c] = state[c]
    BY <1>1, <1>3 DEF WorkerStep, ReadPart, ReadTooLong, ReadRequest, FlushAll, FlushSome,
         FlushError, CloseSent, OpenSource, Unregister, HandOff, Serve, shared, workerVars,
         stateVars, Rearm, Destroy, Release, Goto, Reply
  <2>7. /\ HandOff(w) => ctrlQueue' = Append(ctrlQueue, x)
        /\ ~HandOff(w) => ctrlQueue' = ctrlQueue
    BY <1>3 DEF WorkerStep, ReadPart, ReadTooLong, ReadRequest, FlushAll, FlushSome,
         FlushError, CloseSent, OpenSource, Unregister, HandOff, Serve, shared
  <2>8. /\ \A c \in Conns \ {x} : c \in Range(ctrlQueue') <=> c \in Range(ctrlQueue)
        /\ HandOff(w) => x \in Range(ctrlQueue')
    <3>1. CASE HandOff(w)
      <4>1. ctrlQueue \in Seq(Conns) /\ ctrlQueue' = Append(ctrlQueue, x)
        BY <1>1, <2>7, <3>1
      <4>2. Range(Append(ctrlQueue, x)) = Range(ctrlQueue) \cup {x}
        BY <4>1, AppendElems
      <4> QED
        BY <4>1, <4>2
    <3>2. CASE ~HandOff(w)
      BY <2>7, <3>2
    <3> QED
      BY <3>1, <3>2
  <2>9. \A c \in Conns \ {x} : Still(c)
    BY <1>1, <2>6, <2>8 DEF Still, Waiting
  <2>10. CASE Destroy(w) /\ wpc[w] # "handoff" /\ UNCHANGED answerVars
    <3>1. state'[x] = "closed" /\ state[x] # "closed"
      BY <1>1, <2>2, <2>10 DEF Destroy, PlacesApart, Connected
    <3>2. Told
      BY <2>10 DEF Told, answerVars
    <3>3. Abstract!Close(x)
      BY <2>5, <2>9, <2>10, <3>1, <3>2, CloseMaps
    <3> QED
      BY <3>3 DEF Abstract!Next
  <2>11. CASE UNCHANGED <<state, answerVars>> /\ (Waiting(x)' <=> Waiting(x))
    BY <2>6, <2>9, <2>11, StutterMaps DEF Still, Told, answerVars
  <2>12. CASE ReadPart(w) \/ FlushSome(w) \/ FlushError(w) \/ CloseSent(w) \/ Serve(w)
    <3>1. /\ wpc[w] # "handoff" /\ UNCHANGED answerVars
          /\ Destroy(w) \/ (state' = state /\ wpc'[w] = "pop")
      BY <1>1, <2>12 DEF ReadPart, FlushSome, FlushError, CloseSent, Serve, Rearm, Release, Goto,
                         stateVars
    <3>2. CASE state' = state /\ wpc'[w] = "pop"
      <4>1. ~Waiting(x)'
        BY <2>3, <2>4, <2>6, <2>7, <2>12, <3>1, <3>2 DEF Waiting, HandOff
      <4> QED
        BY <2>5, <2>11, <3>1, <3>2, <4>1
    <3> QED
      BY <2>10, <3>1, <3>2
  <2>13. CASE HandOff(w)
    <3>1. UNCHANGED <<state, answerVars>> /\ wpc[w] = "handoff"
      BY <2>13 DEF HandOff, stateVars
    <3>2. Waiting(x)'
      BY <2>8, <2>13 DEF Waiting
    <3> QED
      BY <2>5, <2>11, <3>1, <3>2
  <2>14. CASE ReadTooLong(w) \/ ReadRequest(w)
    <3>1. state[x] = "handshakeRead" /\ state'[x] = "handshakeSend" /\ wpc'[w] = "send"
          /\ ~HandOff(w) /\ answered' = answered
          /\ \A c \in Conns \ {x} : answer'[c] = answer[c]
      BY <1>1, <2>2, <2>14 DEF ReadTooLong, ReadRequest, HandOff, Reply, Goto, InHand
    <3>2. ~Waiting(x)'
      BY <2>3, <2>4, <2>6, <2>7, <3>1 DEF Waiting
    <3>3. Stage(x) = "request" /\ Stage(x)' = "answer"
      BY <2>2, <2>3, <2>6, <3>1, <3>2 DEF StageTable
    <3>4. [c \in Conns |-> Stage(c)]' = [[c \in Conns |-> Stage(c)] EXCEPT ![x] = "answer"]
      BY <1>1, <2>9, <3>3, MoveStage
    <3>5. PICK verdict \in BOOLEAN : verdict = (answer'[x] = "101")
      OBVIOUS
    <3>6. [c \in Conns |-> answer[c] = "101"]'
              = [[c \in Conns |-> answer[c] = "101"] EXCEPT ![x] = verdict]
      BY <3>1, <3>5
    <3>7. Abstract!Judge(x)
      BY <3>1, <3>3, <3>4, <3>6 DEF Abstract!Judge, Abstract!Move
    <3> QED
      BY <3>7 DEF Abstract!Next
  <2>15. CASE FlushAll(w)
    <3>1. /\ state[x] = "handshakeSend" /\ ~answered[x] /\ wpc[w] = "send" /\ wpc'[w] = "sent"
          /\ ~HandOff(w) /\ UNCHANGED <<state, answer>>
          /\ answered' = [answered EXCEPT ![x] = TRUE]
      BY <1>1, <2>2, <2>15 DEF FlushAll, HandOff, Goto, InHand, stateVars
    <3>2. ~Waiting(x) /\ ~Waiting(x)'
      BY <2>3, <2>4, <2>5, <2>6, <2>7, <3>1 DEF Waiting
    <3>3. Still(x)
      BY <2>6, <3>1, <3>2 DEF Still
    <3>4. \A c \in Conns : Stage(c)' = Stage(c)
      BY <1>1, <2>9, <3>3, StillStage
    <3>5. [c \in Conns |-> Stage(c)]' = [c \in Conns |-> Stage(c)]
      BY <3>4
    <3>6. [c \in Conns |-> answer[c] = "101"]' = [c \in Conns |-> answer[c] = "101"]
      BY <3>1
    <3>7. Stage(x) = "answer"
      BY <2>2, <2>3, <3>1, <3>2 DEF StageTable
    <3>8. Abstract!Answer(x)
      BY <3>1, <3>5, <3>6, <3>7 DEF Abstract!Answer
    <3> QED
      BY <3>8 DEF Abstract!Next
  <2>16. CASE OpenSource(w) \/ Unregister(w)
    <3>1. /\ state[x] = "handshakeSend" /\ Granted(x) /\ wpc[w] = "sent"
          /\ ~HandOff(w) /\ UNCHANGED <<answer, answered>>
          /\ \/ state'[x] = "wsOpen"
             \/ state'[x] = state[x] /\ wpc'[w] = "handoff" /\ wconn'[w] = x
      BY <1>1, <2>2, <2>16 DEF OpenSource, Unregister, HandOff, Goto, InHand, StateFits, Granted,
                               stateVars, answerVars
    <3>2. Stage(x) = "answer"
      BY <2>2, <2>3, <2>5, <3>1 DEF StageTable
    <3>3. Stage(x)' \in {"source", "handoff"}
      <4>1. CASE state'[x] = "wsOpen"
        BY <2>2, <4>1 DEF StageTable
      <4>2. CASE state'[x] = state[x] /\ wpc'[w] = "handoff" /\ wconn'[w] = x
        <5>1. Waiting(x)'
          BY <4>2 DEF Waiting
        <5> QED
          BY <2>2, <2>3, <2>6, <3>1, <4>2, <5>1 DEF StageTable
      <4> QED
        BY <3>1, <4>1, <4>2
    <3>4. [c \in Conns |-> Stage(c)]' = [[c \in Conns |-> Stage(c)] EXCEPT ![x] = Stage(x)']
      BY <1>1, <2>9, MoveStage
    <3>5. [c \in Conns |-> answer[c] = "101"]' = [c \in Conns |-> answer[c] = "101"]
      BY <3>1
    <3>6. Abstract!Serve(x)
      BY <3>1, <3>2, <3>3, <3>4, <3>5 DEF Abstract!Serve, Abstract!Move, Granted
    <3> QED
      BY <3>6 DEF Abstract!Next
  <2> QED
    BY <1>3, <2>12, <2>13, <2>14, <2>15, <2>16 DEF WorkerStep
<1> QED
  BY <1>2, <1>3

\* The aggregator adopts one sink at a time, and may close it.
LEMMA AggMaps ==
    ASSUME PlaceInv, PlaceInv', StageInv, Stages, Stages', AggStep
    PROVE  Abstract!Next \/ UNCHANGED Abstract!vars
<1>1. /\ TypeOK /\ \A c \in Conns : c # NoConn
      /\ state \in [Conns -> {"new", "handshakeRead", "handshakeSend", "wsOpen", "closed"}]
      /\ ctrlQueue \in Seq(Conns) /\ sink \in Conns \cup {NoConn} /\ IsInjective(ctrlQueue)
  <2>1. \A c \in Conns : c # NoConn
    BY ConnAssumption
  <2> QED
    BY <2>1 DEF PlaceInv, TypeOK, HeldOnce
<1>2. UNCHANGED <<answer, answered, wpc, wconn>>
  BY DEF AggStep, ReplaceSink, AdoptSink, SinkInput, answerVars, workerVars
<1>3. Told
  BY <1>2 DEF Told
<1>4. [c \in Conns |-> answer[c] = "101"]' = [c \in Conns |-> answer[c] = "101"]
  BY <1>2
<1>5. CASE AdoptSink
  <2>1. ctrlQueue # <<>> /\ sink = NoConn
    BY <1>5 DEF AdoptSink
  <2> PICK x \in Conns : x = Head(ctrlQueue)
    BY <1>1, <2>1
  <2>2. sink' = x /\ state' = state /\ ctrlQueue' = Tail(ctrlQueue)
    BY <1>5 DEF AdoptSink, stateVars
  <2>3. x \in Range(ctrlQueue) /\ Range(ctrlQueue') = Range(ctrlQueue) \ {x}
    BY <1>1, <2>1, <2>2, TailElems
  <2>4. \A c \in Conns \ {x} : Still(c)
    BY <1>1, <1>2, <2>1, <2>2, <2>3 DEF Still, Waiting
  <2>5. StageTable(x) /\ StageTable(x)'
    BY DEF Stages
  <2>6. Waiting(x) /\ state[x] = "handshakeSend" /\ state'[x] = "handshakeSend"
    BY <2>2, <2>3, <2>5 DEF Waiting, StageTable
  <2>7. Stage(x) = "handoff" /\ Stage(x)' = "sink"
    BY <1>1, <2>1, <2>2, <2>5, <2>6 DEF StageTable
  <2>8. [c \in Conns |-> Stage(c)]' = [[c \in Conns |-> Stage(c)] EXCEPT ![x] = "sink"]
    BY <1>1, <2>4, <2>7, MoveStage
  <2>9. \A d \in Conns : Stage(d) # "sink"
    <3> SUFFICES ASSUME NEW d \in Conns PROVE Stage(d) # "sink"
      OBVIOUS
    <3>1. StageTable(d) /\ d # sink
      BY <1>1, <2>1 DEF Stages
    <3> QED
      BY <1>1, <3>1 DEF StageTable
  <2>10. Abstract!Adopt(x)
    BY <1>2, <1>4, <2>7, <2>8, <2>9 DEF Abstract!Adopt, Abstract!Move
  <2> QED
    BY <2>10 DEF Abstract!Next
<1>6. CASE ReplaceSink \/ SinkInput
  <2>1. sink # NoConn /\ ctrlQueue' = ctrlQueue /\ (CloseSink \/ UNCHANGED <<state, sink>>)
    BY <1>6 DEF ReplaceSink, SinkInput
  <2>2. CASE UNCHANGED <<state, sink>>
    <3>1. \A c \in Conns : Still(c)
      BY <1>2, <2>1, <2>2 DEF Still, Waiting
    <3> QED
      BY <1>3, <3>1, StutterMaps
  <2>3. CASE CloseSink
    <3> PICK x \in Conns : x = sink
      BY <1>1, <2>1
    <3>1. sink' = NoConn /\ state' = [state EXCEPT ![x] = "closed"]
      BY <2>3 DEF CloseSink
    <3>2. \A c \in Conns \ {x} : Still(c)
      BY <1>1, <1>2, <2>1, <3>1 DEF Still, Waiting
    <3>3. StageTable(x)
      BY DEF Stages
    <3>4. ~Waiting(x) /\ state[x] # "closed" /\ state'[x] = "closed"
      BY <1>1, <3>1, <3>3 DEF StageTable
    <3>5. Abstract!Close(x)
      BY <1>3, <3>2, <3>4, CloseMaps
    <3> QED
      BY <3>5 DEF Abstract!Next
  <2> QED
    BY <2>1, <2>2, <2>3
<1> QED
  BY <1>5, <1>6 DEF AggStep

\* README.md "State Machine соединения" for any connections, requests and
\* workers: a request is judged once and answered once, a connection is served
\* or handed over after a complete 101, and there is one sink at a time.
THEOREM SessionImplemented == Spec => ImplementsSession
<1>1. Init => Abstract!Init
  <2> SUFFICES ASSUME Init PROVE Abstract!Init
    OBVIOUS
  <2>1. \A c \in Conns : Stage(c) = "new"
    BY DEF Init, Stage
  <2> QED
    BY <2>1 DEF Init, Abstract!Init
<1>2. /\ PlaceInv /\ PlaceInv' /\ StageInv /\ Stages /\ Stages' /\ [Next]_vars
      => [Abstract!Next]_(Abstract!vars)
  <2> SUFFICES ASSUME PlaceInv, PlaceInv', StageInv, Stages, Stages', [Next]_vars
               PROVE  Abstract!Next \/ UNCHANGED Abstract!vars
    OBVIOUS
  <2>1. CASE UNCHANGED vars
    <3>1. Told /\ \A c \in Conns : Still(c)
      BY <2>1 DEF vars, stateVars, answerVars, shared, workerVars, Told, Still, Waiting
    <3> QED
      BY <3>1, StutterMaps
  <2> QED
    BY <2>1, OutsideMaps, WorkerMaps, AggMaps DEF Next
<1>3. Spec => []Stages
  BY StagesFollow, PlacesInvariant, StagesInvariant, PTL
<1> QED
  BY <1>1, <1>2, <1>3, PlacesInvariant, StagesInvariant, PTL
     DEF Spec, ImplementsSession, Abstract!Spec
=============================================================================
