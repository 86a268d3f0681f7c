------------------------------ MODULE Shutdown ------------------------------
(***************************************************************************)
(* The stop of the server (server.c, main() from sigwait() on) against all *)
(* the threads it stops: the upstream reactor, the listeners, the workers  *)
(* and the aggregator. What these do to a connection or a message is cut   *)
(* down to who holds it; main()'s order of flags, joins and frees, and the *)
(* conditions on which each thread returns, are complete. main() goes on   *)
(* when a thread cannot be started: a server may run without some of them. *)
(***************************************************************************)
EXTENDS Naturals, Sequences, FiniteSets, Functions

CONSTANTS
    Sources, Sinks,     \* connections that arrive, by what they ask for
    Listeners, Workers, \* threads
    Home,               \* the listener that accepts each connection
    Failing,            \* threads that may fail to start
    HWM, LWM,           \* watermarks of the data queue
    MaxMsgs,            \* bound: messages the sources and the upstreams produce
    NoConn, Stop        \* a NULL Conn_t; the event of conf.shutdownfd

Conns == Sources \cup Sinks

ASSUME ConnAssumption == IsFiniteSet(Conns) /\ {NoConn, Stop} \cap Conns = {} /\ NoConn # Stop
ASSUME ThreadAssumption ==
    /\ IsFiniteSet(Listeners) /\ IsFiniteSet(Workers)
    /\ Listeners # {} /\ Workers # {}
    /\ Home \in [Conns -> Listeners]
    /\ Failing \subseteq Listeners \cup Workers \cup {"aggregator", "upstream"}
ASSUME WatermarkAssumption == HWM \in Nat /\ LWM \in Nat /\ 1 <= LWM /\ LWM < HWM
ASSUME BoundAssumption == MaxMsgs \in Nat

VARIABLES
    mpc, shutdown, shutdownfd,  \* main(), its flag and its eventfd
    freed,                      \* what main() has freed
    upc,                        \* the upstream reactor
    lpc, batch,                 \* listeners, and the events epoll_wait() gave them
    wpc, wconn,                 \* workers
    apc, sink, pending, full,   \* the aggregator, its sink, whose socket may be full
    life,                       \* "new", "live" (in the registry) or "freed"
    armed,                      \* connections armed in a listener's epoll
    queue, qShut,               \* conf.queue and its shutdown
    data, dShut, ctrlQueue, cShut,  \* size of conf.dataQueue; conf.ctrlQueue
    parked,                     \* agg->parkHead ...
    msgs                        \* messages produced

mainVars == <<mpc, shutdown, shutdownfd, freed, qShut, dShut, cShut>>
listenerVars == <<lpc, batch>>
workerVars == <<wpc, wconn>>
aggVars == <<apc, sink, pending, full>>
dataVars == <<data, ctrlQueue, parked, msgs>>
vars == <<mainVars, upc, listenerVars, workerVars, aggVars, life, armed, queue, dataVars>>

TypeOK ==
    /\ mpc \in {"sigwait", "wake", "joinUpstream", "joinListeners", "joinWorkers",
                "stopCtrl", "joinAgg", "freeConns", "freeQueues", "done"}
    /\ shutdown \in BOOLEAN /\ shutdownfd \in BOOLEAN
    /\ freed \subseteq {"upstream", "epolls", "conns", "queues"}
    /\ upc \in {"run", "end", "none"}
    /\ lpc \in [Listeners -> {"wait", "batch", "end", "none"}]
    /\ batch \in [Listeners -> SUBSET (Conns \cup {Stop})]
    /\ wpc \in [Workers -> {"pop", "work", "end", "none"}]
    /\ wconn \in [Workers -> Conns \cup {NoConn}]
    /\ apc \in {"ctrl", "pump", "check", "wait", "drain", "ending", "end", "none"}
    /\ sink \in Sinks \cup {NoConn}
    /\ pending \in BOOLEAN /\ full \in BOOLEAN
    /\ life \in [Conns -> {"new", "live", "freed"}] /\ armed \subseteq Conns
    /\ queue \in Seq(Conns) /\ ctrlQueue \in Seq(Sinks) /\ parked \in Seq(Sources)
    /\ data \in 0..MaxMsgs /\ msgs \in 0..MaxMsgs
    /\ qShut \in BOOLEAN /\ dShut \in BOOLEAN /\ cShut \in BOOLEAN

\* A thread starts where it waits for work. It is "none" when pthread_create()
\* fails, when it returns on its way there (a port that is taken, no epoll), or
\* for the reactor when there is nothing to connect to.
Started(t, first) == IF t \in Failing THEN {first, "none"} ELSE {first}

\* main() starts the workers, the listeners, the aggregator and the reactor;
\* one that runs before the next is there only has a lead.
Init ==
    /\ mpc = "sigwait" /\ shutdown = FALSE /\ shutdownfd = FALSE /\ freed = {}
    /\ qShut = FALSE /\ dShut = FALSE /\ cShut = FALSE
    /\ upc \in Started("upstream", "run")
    /\ lpc \in [Listeners -> {"wait", "none"}] /\ \A l \in Listeners : lpc[l] \in Started(l, "wait")
    /\ batch = [l \in Listeners |-> {}]
    /\ wpc \in [Workers -> {"pop", "none"}] /\ \A w \in Workers : wpc[w] \in Started(w, "pop")
    /\ wconn = [w \in Workers |-> NoConn]
    /\ apc \in Started("aggregator", "ctrl") /\ sink = NoConn /\ pending = FALSE /\ full = FALSE
    /\ life = [c \in Conns |-> "new"] /\ armed = {} /\ queue = <<>>
    /\ data = 0 /\ ctrlQueue = <<>> /\ parked = <<>> /\ msgs = 0

-----------------------------------------------------------------------------
\* A thread main() need not wait for, or no longer.
Over == {"end", "none"}
Ended(pc, threads) == \A t \in threads : pc[t] \in Over

(* Listeners *)

\* connectionHandle() of a listener that still runs.
Accept(c) ==
    /\ lpc[Home[c]] \notin Over /\ life[c] = "new"
    /\ life' = [life EXCEPT ![c] = "live"]
    /\ armed' = armed \cup {c}
    /\ UNCHANGED <<mainVars, upc, listenerVars, workerVars, aggVars, queue, dataVars>>

AtHome(l) == {c \in armed : Home[c] = l}
StopEvent == IF shutdownfd THEN {Stop} ELSE {}

\* Mutant: the eventfd is read, as one would do with an eventfd.
Collect_Consume(l) ==
    /\ lpc[l] = "wait"
    /\ \E events \in SUBSET AtHome(l) :
           /\ events \cup StopEvent # {}
           /\ batch' = [batch EXCEPT ![l] = events \cup StopEvent]
           /\ armed' = armed \ events
    /\ shutdownfd' = FALSE
    /\ lpc' = [lpc EXCEPT ![l] = "batch"]
    /\ UNCHANGED <<mpc, shutdown, freed, qShut, dShut, cShut, upc, workerVars,
                   aggVars, life, queue, dataVars>>

\* epoll_wait(): any connections that have events, which EPOLLONESHOT disables,
\* and the eventfd, which is level-triggered and never read.
Collect(l) ==
    /\ lpc[l] = "wait"
    /\ \E events \in SUBSET AtHome(l) :
           /\ events \cup StopEvent # {}
           /\ batch' = [batch EXCEPT ![l] = events \cup StopEvent]
           /\ armed' = armed \ events
    /\ lpc' = [lpc EXCEPT ![l] = "batch"]
    /\ UNCHANGED <<mainVars, upc, workerVars, aggVars, life, queue, dataVars>>

Dispatch(l) ==
    /\ lpc[l] = "batch"
    /\ \E c \in batch[l] \ {Stop} :
           /\ queue' = Append(queue, c)
           /\ batch' = [batch EXCEPT ![l] = @ \ {c}]
    /\ UNCHANGED <<mainVars, upc, lpc, workerVars, aggVars, life, armed, dataVars>>

BatchDone(l) ==
    /\ lpc[l] = "batch" /\ batch[l] = {}
    /\ lpc' = [lpc EXCEPT ![l] = "wait"]
    /\ UNCHANGED <<mainVars, upc, batch, workerVars, aggVars, life, armed, queue, dataVars>>

\* EV_SHUTDOWN: the rest of the batch is dropped. Its connections stay disabled
\* in epoll, known to the registry only.
ListenerStop(l) ==
    /\ lpc[l] = "batch" /\ Stop \in batch[l]
    /\ batch' = [batch EXCEPT ![l] = {}]
    /\ lpc' = [lpc EXCEPT ![l] = "end"]
    /\ UNCHANGED <<mainVars, upc, workerVars, aggVars, life, armed, queue, dataVars>>

ListenerStep(l) == Collect(l) \/ Dispatch(l) \/ BatchDone(l) \/ ListenerStop(l)

-----------------------------------------------------------------------------
(* Workers *)

Pop(w) ==
    /\ wpc[w] = "pop" /\ queue # <<>>
    /\ wconn' = [wconn EXCEPT ![w] = Head(queue)]
    /\ wpc' = [wpc EXCEPT ![w] = "work"]
    /\ queue' = Tail(queue)
    /\ UNCHANGED <<mainVars, upc, listenerVars, aggVars, life, armed, dataVars>>

\* pop() returns -1 once the queue is shut down and empty.
PopEnd(w) ==
    /\ wpc[w] = "pop" /\ queue = <<>> /\ qShut
    /\ wpc' = [wpc EXCEPT ![w] = "end"]
    /\ UNCHANGED <<mainVars, upc, listenerVars, wconn, aggVars, life, armed, queue, dataVars>>

Release(w) ==
    /\ wpc' = [wpc EXCEPT ![w] = "pop"]
    /\ wconn' = [wconn EXCEPT ![w] = NoConn]

Produce == msgs < MaxMsgs /\ msgs' = msgs + 1

WorkPush(w) ==
    /\ wpc[w] = "work" /\ wconn[w] \in Sources /\ data < HWM
    /\ Produce
    /\ data' = data + 1
    /\ UNCHANGED <<mainVars, upc, listenerVars, workerVars, aggVars, life, armed,
                   queue, ctrlQueue, parked>>

WorkPark(w) ==
    /\ wpc[w] = "work" /\ wconn[w] \in Sources /\ data >= HWM
    /\ Produce
    /\ parked' = Append(parked, wconn[w])
    /\ Release(w)
    /\ UNCHANGED <<mainVars, upc, listenerVars, aggVars, life, armed, queue, data, ctrlQueue>>

\* The request is not complete yet, or a source has nothing more to read.
WorkRearm(w) ==
    /\ wpc[w] = "work"
    /\ armed' = armed \cup {wconn[w]}
    /\ Release(w)
    /\ UNCHANGED <<mainVars, upc, listenerVars, aggVars, life, queue, dataVars>>

WorkClose(w) ==
    /\ wpc[w] = "work"
    /\ life' = [life EXCEPT ![wconn[w]] = "freed"]
    /\ Release(w)
    /\ UNCHANGED <<mainVars, upc, listenerVars, aggVars, armed, queue, dataVars>>

\* Mutant: the sink stays armed in the listener's epoll.
WorkHandOff_Armed(w) ==
    /\ wpc[w] = "work" /\ wconn[w] \in Sinks
    /\ ctrlQueue' = Append(ctrlQueue, wconn[w])
    /\ armed' = armed \cup {wconn[w]}
    /\ Release(w)
    /\ UNCHANGED <<mainVars, upc, listenerVars, aggVars, life, queue, data, parked, msgs>>

WorkHandOff(w) ==
    /\ wpc[w] = "work" /\ wconn[w] \in Sinks
    /\ ctrlQueue' = Append(ctrlQueue, wconn[w])
    /\ Release(w)
    /\ UNCHANGED <<mainVars, upc, listenerVars, aggVars, life, armed, queue, data, parked, msgs>>

WorkerStep(w) ==
    \/ Pop(w) \/ PopEnd(w)
    \/ WorkPush(w) \/ WorkPark(w) \/ WorkRearm(w) \/ WorkClose(w) \/ WorkHandOff(w)

-----------------------------------------------------------------------------
(* The upstream reactor pushes like a worker until it sees conf->shutdown. *)

UpPush ==
    /\ upc = "run" /\ data < HWM
    /\ Produce
    /\ data' = data + 1
    /\ UNCHANGED <<mainVars, upc, listenerVars, workerVars, aggVars, life, armed,
                   queue, ctrlQueue, parked>>

UpEnd ==
    /\ upc = "run" /\ shutdown
    /\ upc' = "end"
    /\ UNCHANGED <<mainVars, listenerVars, workerVars, aggVars, life, armed, queue, dataVars>>

-----------------------------------------------------------------------------
(* The aggregator *)

Agg(from, to) == apc = from /\ apc' = to

\* closeSink() also drops what was being written.
CloseSink ==
    /\ life' = [life EXCEPT ![sink] = "freed"]
    /\ sink' = NoConn /\ pending' = FALSE /\ full' = FALSE

Adopt(at) ==
    /\ apc = at /\ ctrlQueue # <<>>
    /\ life' = IF sink = NoConn THEN life ELSE [life EXCEPT ![sink] = "freed"]
    /\ sink' = Head(ctrlQueue)
    /\ ctrlQueue' = Tail(ctrlQueue)
    /\ pending' = FALSE /\ full' = FALSE
    /\ UNCHANGED <<mainVars, upc, listenerVars, workerVars, apc, armed, queue,
                   data, parked, msgs>>

AdoptSink == Adopt("ctrl")

CtrlEmpty ==
    /\ ctrlQueue = <<>>
    /\ Agg("ctrl", IF sink = NoConn THEN "check" ELSE "pump")
    /\ UNCHANGED <<mainVars, upc, listenerVars, workerVars, sink, pending, full,
                   life, armed, queue, dataVars>>

\* sinkFlush(): the frame is written, which may fill the socket, ...
PumpSent ==
    /\ apc = "pump" /\ pending /\ ~full
    /\ pending' = FALSE
    /\ full' \in BOOLEAN
    /\ UNCHANGED <<mainVars, upc, listenerVars, workerVars, apc, sink, life, armed,
                   queue, dataVars>>

\* ... or a part of it, ...
PumpBlocked ==
    /\ pending /\ Agg("pump", "check")
    /\ full' = TRUE
    /\ UNCHANGED <<mainVars, upc, listenerVars, workerVars, sink, pending, life,
                   armed, queue, dataVars>>

\* ... or the sink is gone, which epoll_wait() may also report.
SinkGone ==
    /\ apc \in {"pump", "wait"} /\ sink # NoConn
    /\ CloseSink
    /\ apc' = "check"
    /\ UNCHANGED <<mainVars, upc, listenerVars, workerVars, armed, queue, dataVars>>

\* With nothing to write: one parked source is resumed at the low watermark,
\* then the next message is taken.
PumpTake ==
    /\ apc = "pump" /\ ~pending
    /\ LET resumed == IF data <= LWM /\ parked # <<>> THEN {Head(parked)} ELSE {}
           size == data + Cardinality(resumed)
       IN
       /\ parked' = IF resumed = {} THEN parked ELSE Tail(parked)
       /\ armed' = armed \cup resumed
       /\ pending' = (size > 0)
       /\ data' = IF size > 0 THEN size - 1 ELSE 0
       /\ apc' = IF size > 0 THEN "pump" ELSE "check"
    /\ UNCHANGED <<mainVars, upc, listenerVars, workerVars, sink, full, life, queue,
                   ctrlQueue, msgs>>

DataDone == dShut /\ data = 0
CtrlDone == cShut /\ ctrlQueue = <<>>

\* The conditions at the end of the loop (agg.c:552-560).
Check ==
    /\ Agg("check", IF DataDone /\ CtrlDone THEN "ending"
                    ELSE IF dShut /\ sink = NoConn THEN "drain"
                    ELSE "wait")
    /\ UNCHANGED <<mainVars, upc, listenerVars, workerVars, sink, pending, full,
                   life, armed, queue, dataVars>>

\* epoll_wait() ends with an event or after a second.
Wait ==
    /\ Agg("wait", "ctrl")
    /\ UNCHANGED <<mainVars, upc, listenerVars, workerVars, sink, pending, full,
                   life, armed, queue, dataVars>>

\* aggDrainForShutdown(): late sinks are adopted, then every message is written
\* as far as the socket takes it, or dropped.
DrainCtrl == Adopt("drain")

DrainData ==
    /\ apc = "drain" /\ ctrlQueue = <<>>
    /\ IF data > 0
       THEN data' = data - 1 /\ apc' = apc
       ELSE data' = data /\ apc' = "ending"
    /\ UNCHANGED <<mainVars, upc, listenerVars, workerVars, sink, pending, full,
                   life, armed, queue, ctrlQueue, parked, msgs>>

\* The sink is closed, and aggFreeState() frees what parked sources held back.
AggEnd ==
    /\ Agg("ending", "end")
    /\ IF sink = NoConn THEN UNCHANGED <<life, sink, pending, full>> ELSE CloseSink
    /\ parked' = <<>>
    /\ UNCHANGED <<mainVars, upc, listenerVars, workerVars, armed, queue, data,
                   ctrlQueue, msgs>>

AggStep ==
    \/ AdoptSink \/ CtrlEmpty
    \/ PumpSent \/ PumpBlocked \/ PumpTake
    \/ Check \/ Wait \/ DrainCtrl \/ DrainData \/ AggEnd

\* The sink reads.
SinkDrain ==
    /\ full
    /\ full' = FALSE
    /\ UNCHANGED <<mainVars, upc, listenerVars, workerVars, apc, sink, pending,
                   life, armed, queue, dataVars>>

-----------------------------------------------------------------------------
(* main() from sigwait() on *)

threadVars == <<upc, listenerVars, workerVars, aggVars>>

Main(from, to) == mpc = from /\ mpc' = to

Signal ==
    /\ Main("sigwait", "wake")
    /\ shutdown' = TRUE
    /\ UNCHANGED <<shutdownfd, freed, qShut, dShut, cShut, threadVars, life, armed,
                   queue, dataVars>>

Wake ==
    /\ Main("wake", "joinUpstream")
    /\ shutdownfd' = TRUE
    /\ UNCHANGED <<shutdown, freed, qShut, dShut, cShut, threadVars, life, armed,
                   queue, dataVars>>

\* Mutant: upstreamDestroy() without the join.
JoinUpstream_NoJoin ==
    /\ Main("joinUpstream", "joinListeners")
    /\ freed' = freed \cup {"upstream"}
    /\ UNCHANGED <<shutdown, shutdownfd, qShut, dShut, cShut, threadVars, life, armed,
                   queue, dataVars>>

\* The reactor is joined and destroyed.
JoinUpstream ==
    /\ Main("joinUpstream", "joinListeners") /\ upc \in Over
    /\ freed' = freed \cup {"upstream"}
    /\ UNCHANGED <<shutdown, shutdownfd, qShut, dShut, cShut, threadVars, life, armed,
                   queue, dataVars>>

\* Mutant: the work queue is shut down before the listeners are joined.
JoinListeners_Early ==
    /\ Main("joinListeners", "joinWorkers")
    /\ qShut' = TRUE
    /\ UNCHANGED <<shutdown, shutdownfd, freed, dShut, cShut, threadVars, life, armed,
                   queue, dataVars>>

\* The listeners are joined, then the work queue is shut down ...
JoinListeners ==
    /\ Main("joinListeners", "joinWorkers") /\ Ended(lpc, Listeners)
    /\ qShut' = TRUE
    /\ UNCHANGED <<shutdown, shutdownfd, freed, dShut, cShut, threadVars, life, armed,
                   queue, dataVars>>

\* ... the workers, then the data queue ...
JoinWorkers ==
    /\ Main("joinWorkers", "stopCtrl") /\ Ended(wpc, Workers)
    /\ dShut' = TRUE
    /\ UNCHANGED <<shutdown, shutdownfd, freed, qShut, cShut, threadVars, life, armed,
                   queue, dataVars>>

StopCtrl ==
    /\ Main("stopCtrl", "joinAgg")
    /\ cShut' = TRUE
    /\ UNCHANGED <<shutdown, shutdownfd, freed, qShut, dShut, threadVars, life, armed,
                   queue, dataVars>>

\* ... and the aggregator. The listeners' epoll descriptors are closed only
\* now: the aggregator puts resumed sources back into them.
JoinAgg ==
    /\ Main("joinAgg", "freeConns") /\ apc \in Over
    /\ freed' = freed \cup {"epolls"}
    /\ UNCHANGED <<shutdown, shutdownfd, qShut, dShut, cShut, threadVars, life, armed,
                   queue, dataVars>>

\* registryDestroyAll()
FreeConns ==
    /\ Main("freeConns", "freeQueues")
    /\ freed' = freed \cup {"conns"}
    /\ life' = [c \in Conns |-> IF life[c] = "live" THEN "freed" ELSE life[c]]
    /\ UNCHANGED <<shutdown, shutdownfd, qShut, dShut, cShut, threadVars, armed,
                   queue, dataVars>>

FreeQueues ==
    /\ Main("freeQueues", "done")
    /\ freed' = freed \cup {"queues"}
    /\ UNCHANGED <<shutdown, shutdownfd, qShut, dShut, cShut, threadVars, life, armed,
                   queue, dataVars>>

MainStep ==
    \/ Wake \/ JoinUpstream \/ JoinListeners \/ JoinWorkers \/ StopCtrl
    \/ JoinAgg \/ FreeConns \/ FreeQueues

Next ==
    \/ Signal \/ MainStep
    \/ \E c \in Conns : Accept(c)
    \/ \E l \in Listeners : ListenerStep(l)
    \/ \E w \in Workers : WorkerStep(w)
    \/ UpPush \/ UpEnd
    \/ AggStep \/ SinkGone \/ SinkDrain

Spec == Init /\ [][Next]_vars

\* Every thread that can go on goes on. (MaxMsgs makes handlers end: a worker
\* takes no more from a socket than was there.)
ThreadsRun ==
    /\ WF_vars(MainStep) /\ WF_vars(UpEnd) /\ WF_vars(AggStep)
    /\ \A l \in Listeners : WF_vars(ListenerStep(l))
    /\ \A w \in Workers : WF_vars(WorkerStep(w))

ThreadsSpec == Spec /\ ThreadsRun

\* A sink that reads what it is sent: the rest of a frame goes out in the end.
SinkReads == WF_vars(SinkDrain) /\ SF_vars(PumpSent)

ReadingSpec == ThreadsSpec /\ SinkReads

-----------------------------------------------------------------------------
(* Properties *)

\* README.md:325-329 "use-after-free ... исключены по построению": main() frees
\* nothing that a thread which has not returned may still use. The aggregator
\* reaches into the listeners' epoll sets, into connections and, until it has
\* returned, lends its park list to the workers (aggFreeState()).
NothingFreedInUse ==
    /\ "upstream" \in freed => upc \in Over
    /\ freed \cap {"epolls", "conns", "queues"} # {} =>
           Ended(lpc, Listeners) /\ Ended(wpc, Workers) /\ apc \in Over /\ upc \in Over
    /\ apc = "end" => Ended(wpc, Workers)

\* Whoever can reach a connection can use it: as long as connections are served
\* at all, what is armed in epoll, in a batch, in a queue, on the park list or
\* in a thread's hands has not been freed.
NoDangling ==
    /\ TypeOK
    /\ "conns" \notin freed =>
           \A c \in Conns : life[c] # "live" =>
               /\ c \notin armed
               /\ \A l \in Listeners : c \notin batch[l]
               /\ \A w \in Workers : wconn[w] # c
               /\ c # sink
               /\ c \notin Range(queue) \cup Range(ctrlQueue) \cup Range(parked)

\* The inductive invariant behind it. Nobody has a connection twice, ...
InBatch(c) == \E l \in Listeners : c \in batch[l]
InWork(c) == \E w \in Workers : wconn[w] = c
HeldOnce ==
    /\ \A w \in Workers : wconn[w] = NoConn <=> wpc[w] # "work"
    /\ \A v, w \in Workers : wconn[v] = wconn[w] /\ wconn[v] # NoConn => v = w
    /\ \A l \in Listeners : \A c \in batch[l] \ {Stop} : Home[c] = l
    /\ IsInjective(queue) /\ IsInjective(ctrlQueue) /\ IsInjective(parked)
\* ... no two have the same one, and nobody has one that is freed: whoever frees
\* a connection is the only one that could reach it.
Custody(c) ==
    /\ c \in armed =>
           ~InBatch(c) /\ c \notin Range(queue) /\ ~InWork(c)
           /\ c \notin Range(ctrlQueue) /\ c \notin Range(parked) /\ c # sink
    /\ InBatch(c) =>
           c \notin Range(queue) /\ ~InWork(c)
           /\ c \notin Range(ctrlQueue) /\ c \notin Range(parked) /\ c # sink
    /\ c \in Range(queue) =>
           ~InWork(c) /\ c \notin Range(ctrlQueue) /\ c \notin Range(parked) /\ c # sink
    /\ InWork(c) => c \notin Range(ctrlQueue) /\ c \notin Range(parked) /\ c # sink
    /\ c \in Range(ctrlQueue) => c \notin Range(parked) /\ c # sink
    /\ c \in Range(parked) => c # sink
    /\ c \in armed \/ InBatch(c) \/ c \in Range(queue) \/ InWork(c)
           \/ c \in Range(ctrlQueue) \/ c \in Range(parked) \/ c = sink => life[c] = "live"
CustodyInv ==
    /\ TypeOK /\ data <= msgs
    /\ HeldOnce
    /\ "conns" \notin freed => \A c \in Conns : Custody(c)

\* Each queue outlives its producers (server.c:305-343): when a reader of a
\* queue has returned it is empty, and nobody adds to it any more.
QueuesDrained ==
    /\ (\E w \in Workers : wpc[w] = "end") => queue = <<>> /\ Ended(lpc, Listeners)
    /\ apc = "end" => data = 0 /\ ctrlQueue = <<>> /\ Ended(wpc, Workers) /\ upc \in Over

\* README.md:394-397: after the signal the server "дожидается завершения
\* Worker'ов и потока-агрегатора ... и освобождает все ресурсы": every thread
\* returns and everything is freed, whatever the threads were doing and
\* whichever of them the server had to do without.
Terminates == shutdown ~> mpc = "done" /\ \A c \in Conns : life[c] # "live"
=============================================================================
