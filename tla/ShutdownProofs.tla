--------------------------- MODULE ShutdownProofs ---------------------------
(***************************************************************************)
(* Theorems about Shutdown for any connections, listeners, workers,        *)
(* watermarks and number of messages, and any threads that do not start:   *)
(* main() frees nothing that is in use, every queue is empty when one of   *)
(* its readers has returned, and a connection that is freed is within      *)
(* nobody's reach.                                                         *)
(***************************************************************************)
EXTENDS Shutdown, SequenceLemmas

\* As much of the types as the proof needs.
Types ==
    /\ lpc \in [Listeners -> {"wait", "batch", "end", "none"}]
    /\ wpc \in [Workers -> {"pop", "work", "end", "none"}]
    /\ data \in Nat
    /\ ctrlQueue \in Seq(Sinks)

\* How far main() has come says which threads have returned.
StagesPassed ==
    /\ mpc \notin {"sigwait", "wake", "joinUpstream"} => upc \in Over
    /\ mpc \notin {"sigwait", "wake", "joinUpstream", "joinListeners"} => qShut
    /\ mpc \notin {"sigwait", "wake", "joinUpstream", "joinListeners", "joinWorkers"} => dShut
    /\ mpc \in {"freeConns", "freeQueues", "done"} => apc \in Over

\* A queue is shut down only after its producers have returned, and its readers
\* return only after it has been shut down and found empty.
Order ==
    /\ qShut => Ended(lpc, Listeners)
    /\ \A w \in Workers : wpc[w] = "end" => qShut
    /\ (\E w \in Workers : wpc[w] = "end") => queue = <<>>
    /\ dShut => qShut /\ Ended(wpc, Workers) /\ upc \in Over
    /\ cShut => dShut
    /\ apc \in {"drain", "ending", "end"} => dShut
    /\ apc \in {"ending", "end"} => data = 0 /\ ctrlQueue = <<>>

FreedLate ==
    /\ "upstream" \in freed => upc \in Over
    /\ freed \cap {"epolls", "conns", "queues"} # {} => dShut /\ apc \in Over

StopInv == Types /\ StagesPassed /\ Order /\ FreedLate

-----------------------------------------------------------------------------

\* aggPump() resumes one parked source, or none.
LEMMA AtMostOne ==
    \A x : Cardinality({x}) \in Nat /\ Cardinality({}) \in Nat
<1> TAKE x
<1>1. Cardinality({x}) = 1
  BY FS_Singleton
<1>2. Cardinality({}) = 0
  BY FS_EmptySet
<1> QED
  BY <1>1, <1>2

\* Before the signal nothing has returned and nothing is freed.
LEMMA InitStop == Init => StopInv
<1> SUFFICES ASSUME Init PROVE StopInv
  OBVIOUS
<1>1. Types
  BY DEF Init, Types
<1>2. StagesPassed /\ FreedLate
  BY DEF Init, StagesPassed, FreedLate
<1>3. apc \in {"ctrl", "none"} /\ \A w \in Workers : wpc[w] # "end"
  BY DEF Init, Started
<1>4. Order
  BY <1>3 DEF Init, Order, Ended
<1> QED
  BY <1>1, <1>2, <1>4 DEF StopInv

\* The steps of main().
LEMMA MainKeeps ==
    ASSUME StopInv, Signal \/ MainStep
    PROVE  StopInv'
<1> USE DEF StopInv, Types, StagesPassed, Order, FreedLate, Main, threadVars,
        listenerVars, workerVars, aggVars, dataVars, Ended, Over
<1>1. CASE Signal
  BY <1>1 DEF Signal
<1>2. CASE Wake
  BY <1>2 DEF Wake
<1>3. CASE JoinUpstream
  BY <1>3 DEF JoinUpstream
<1>4. CASE JoinListeners
  BY <1>4 DEF JoinListeners
<1>5. CASE JoinWorkers
  BY <1>5 DEF JoinWorkers
<1>6. CASE StopCtrl
  BY <1>6 DEF StopCtrl
<1>7. CASE JoinAgg
  BY <1>7 DEF JoinAgg
<1>8. CASE FreeConns
  BY <1>8 DEF FreeConns
<1>9. CASE FreeQueues
  BY <1>9 DEF FreeQueues
<1> QED
  BY <1>1, <1>2, <1>3, <1>4, <1>5, <1>6, <1>7, <1>8, <1>9 DEF MainStep

\* A listener touches the work queue only before the queue is shut down.
LEMMA ListenerKeeps ==
    ASSUME StopInv, NEW l \in Listeners, ListenerStep(l)
    PROVE  StopInv'
<1> USE DEF StopInv, Types, StagesPassed, Order, FreedLate, Ended, Over, mainVars,
        workerVars, aggVars, dataVars
<1>1. CASE Collect(l)
  BY <1>1 DEF Collect
<1>2. CASE Dispatch(l)
  <2>1. ~qShut /\ \A w \in Workers : wpc[w] # "end"
    BY <1>2 DEF Dispatch
  <2> QED
    BY <1>2, <2>1 DEF Dispatch
<1>3. CASE BatchDone(l)
  BY <1>3 DEF BatchDone
<1>4. CASE ListenerStop(l)
  BY <1>4 DEF ListenerStop
<1> QED
  BY <1>1, <1>2, <1>3, <1>4 DEF ListenerStep

\* A worker that has not returned finds the aggregator still at work.
LEMMA WorkerKeeps ==
    ASSUME StopInv, NEW w \in Workers, WorkerStep(w)
    PROVE  StopInv'
<1> USE DEF StopInv, Types, StagesPassed, Order, FreedLate, Ended, Over, mainVars,
        listenerVars, workerVars, aggVars, dataVars, Release, Produce
<1>1. CASE Pop(w)
  BY <1>1 DEF Pop
<1>2. CASE PopEnd(w)
  BY <1>2 DEF PopEnd
<1>3. ASSUME wpc[w] = "work"
      PROVE  ~dShut /\ apc \notin {"drain", "ending", "end"}
  BY <1>3
<1>4. CASE WorkPush(w)
  BY <1>3, <1>4 DEF WorkPush
<1>5. CASE WorkPark(w)
  BY <1>3, <1>5 DEF WorkPark
<1>6. CASE WorkRearm(w)
  BY <1>3, <1>6 DEF WorkRearm
<1>7. CASE WorkClose(w)
  BY <1>3, <1>7 DEF WorkClose
<1>8. CASE WorkHandOff(w)
  <2>1. ctrlQueue' \in Seq(Sinks)
    BY <1>8 DEF WorkHandOff
  <2> QED
    BY <1>3, <1>8, <2>1 DEF WorkHandOff
<1> QED
  BY <1>1, <1>2, <1>4, <1>5, <1>6, <1>7, <1>8 DEF WorkerStep

\* The aggregator decides to return only on queues nobody adds to.
LEMMA AggKeeps ==
    ASSUME StopInv, AggStep \/ SinkGone \/ SinkDrain
    PROVE  StopInv'
<1> USE DEF StopInv, Types, StagesPassed, Order, FreedLate, Ended, Over, mainVars,
        listenerVars, workerVars, aggVars, dataVars, Agg, CloseSink
<1>1. ASSUME ctrlQueue # <<>>
      PROVE  Tail(ctrlQueue) \in Seq(Sinks)
  BY <1>1
<1>2. CASE AdoptSink
  BY <1>1, <1>2 DEF AdoptSink, Adopt
<1>3. CASE CtrlEmpty
  BY <1>3 DEF CtrlEmpty
<1>4. CASE PumpSent
  BY <1>4 DEF PumpSent
<1>5. CASE PumpBlocked
  BY <1>5 DEF PumpBlocked
<1>6. CASE PumpTake
  <2> DEFINE resumed == IF data <= LWM /\ parked # <<>> THEN {Head(parked)} ELSE {}
             size == data + Cardinality(resumed)
  <2>1. Cardinality(resumed) \in Nat
    BY AtMostOne
  <2>2. size \in Nat
    BY <2>1
  <2>3. data' = (IF size > 0 THEN size - 1 ELSE 0) /\ apc = "pump" /\ apc' \in {"pump", "check"}
    BY <1>6 DEF PumpTake
  <2> HIDE DEF size, resumed
  <2>4. data' \in Nat
    BY <2>2, <2>3
  <2> QED
    BY <1>6, <2>3, <2>4 DEF PumpTake
<1>7. CASE Check
  BY <1>7 DEF Check, DataDone, CtrlDone
<1>8. CASE Wait
  BY <1>8 DEF Wait
<1>9. CASE DrainCtrl
  BY <1>1, <1>9 DEF DrainCtrl, Adopt
<1>10. CASE DrainData
  BY <1>10 DEF DrainData
<1>11. CASE AggEnd
  BY <1>11 DEF AggEnd
<1>12. CASE SinkGone
  BY <1>12 DEF SinkGone
<1>13. CASE SinkDrain
  BY <1>13 DEF SinkDrain
<1> QED
  BY <1>2, <1>3, <1>4, <1>5, <1>6, <1>7, <1>8, <1>9, <1>10, <1>11, <1>12, <1>13
     DEF AggStep

\* The rest: new connections and the upstream reactor.
LEMMA OthersKeep ==
    ASSUME StopInv, UpPush \/ UpEnd \/ \E c \in Conns : Accept(c)
    PROVE  StopInv'
<1> USE DEF StopInv, Types, StagesPassed, Order, FreedLate, Ended, Over, mainVars,
        listenerVars, workerVars, aggVars, dataVars, Produce
<1>1. CASE UpPush
  BY <1>1 DEF UpPush
<1>2. CASE UpEnd
  BY <1>2 DEF UpEnd
<1>3. ASSUME NEW c \in Conns, Accept(c)
      PROVE  StopInv'
  BY <1>3 DEF Accept
<1> QED
  BY <1>1, <1>2, <1>3

\* A step that changes nothing.
LEMMA StutterKeeps == StopInv /\ UNCHANGED vars => StopInv'
  BY DEF StopInv, Types, StagesPassed, Order, FreedLate, Ended, Over, vars, mainVars,
         listenerVars, workerVars, aggVars, dataVars

-----------------------------------------------------------------------------

\* The inductive invariant: main()'s progress, the shutdown flags and the
\* returns of the threads follow each other in one order.
THEOREM StopInductive == Spec => []StopInv
<1>1. StopInv /\ [Next]_vars => StopInv'
  <2> SUFFICES ASSUME StopInv, [Next]_vars PROVE StopInv'
    OBVIOUS
  <2> QED
    BY MainKeeps, ListenerKeeps, WorkerKeeps, AggKeeps, OthersKeep, StutterKeeps DEF Next
<1> QED
  BY InitStop, <1>1, PTL DEF Spec

\* README.md:325-329 for any number of threads and connections: main() frees
\* the reactor, the epoll sets, the connections and the queues only when no
\* thread is left that could use them, and the aggregator outlives the workers
\* that use its park list.
THEOREM NoUseAfterFree == Spec => []NothingFreedInUse
<1>1. StopInv => NothingFreedInUse
  BY DEF StopInv, Order, FreedLate, NothingFreedInUse, Ended, Over
<1> QED
  BY <1>1, StopInductive, PTL

\* No work and no message is left in a queue whose readers have returned, and
\* nobody is left who could add one.
THEOREM NothingStranded == Spec => []QueuesDrained
<1>1. StopInv => QueuesDrained
  <2> SUFFICES ASSUME StopInv PROVE QueuesDrained
    OBVIOUS
  <2>1. (\E w \in Workers : wpc[w] = "end") => qShut
    BY DEF StopInv, Order
  <2> QED
    BY <2>1 DEF StopInv, Order, QueuesDrained
<1> QED
  BY <1>1, StopInductive, PTL
-----------------------------------------------------------------------------
(* Who has a connection *)

\* Every step keeps the types, and the data queue holds no more than was produced.
LEMMA TypesKept == TypeOK /\ data <= msgs /\ HeldOnce /\ [Next]_vars => TypeOK' /\ data' <= msgs'
<1> SUFFICES ASSUME TypeOK, data <= msgs, HeldOnce, [Next]_vars
             PROVE  TypeOK' /\ data' <= msgs'
  OBVIOUS
<1> USE DEF TypeOK, mainVars, listenerVars, workerVars, aggVars, dataVars, threadVars, Main, Agg
<1>0. ASSUME NEW w \in Workers, wpc[w] = "work"
      PROVE  wconn[w] \in Conns
  BY <1>0 DEF HeldOnce
<1>1. CASE UNCHANGED vars
  BY <1>1 DEF vars
<1>2. CASE Signal \/ MainStep
  <2>1. CASE Signal
    BY <2>1 DEF Signal
  <2>2. CASE Wake
    BY <2>2 DEF Wake
  <2>3. CASE JoinUpstream
    BY <2>3 DEF JoinUpstream
  <2>4. CASE JoinListeners
    BY <2>4 DEF JoinListeners
  <2>5. CASE JoinWorkers
    BY <2>5 DEF JoinWorkers
  <2>6. CASE StopCtrl
    BY <2>6 DEF StopCtrl
  <2>7. CASE JoinAgg
    BY <2>7 DEF JoinAgg
  <2>8. CASE FreeConns
    BY <2>8 DEF FreeConns
  <2>9. CASE FreeQueues
    BY <2>9 DEF FreeQueues
  <2> QED
    BY <1>2, <2>1, <2>2, <2>3, <2>4, <2>5, <2>6, <2>7, <2>8, <2>9 DEF MainStep
<1>3. ASSUME NEW c \in Conns, Accept(c) PROVE TypeOK' /\ data' <= msgs'
  BY <1>3 DEF Accept
<1>4. ASSUME NEW l \in Listeners, ListenerStep(l) PROVE TypeOK' /\ data' <= msgs'
  <2>1. CASE Collect(l)
    <3>1. PICK events \in SUBSET AtHome(l) :
              /\ batch' = [batch EXCEPT ![l] = events \cup StopEvent]
              /\ armed' = armed \ events
      BY <2>1 DEF Collect
    <3>2. events \cup StopEvent \in SUBSET (Conns \cup {Stop})
      BY DEF AtHome, StopEvent
    <3> QED
      BY <2>1, <3>1, <3>2 DEF Collect
  <2>2. CASE Dispatch(l)
    BY <2>2 DEF Dispatch
  <2>3. CASE BatchDone(l)
    BY <2>3 DEF BatchDone
  <2>4. CASE ListenerStop(l)
    BY <2>4 DEF ListenerStop
  <2> QED
    BY <1>4, <2>1, <2>2, <2>3, <2>4 DEF ListenerStep
<1>5. ASSUME NEW w \in Workers, WorkerStep(w) PROVE TypeOK' /\ data' <= msgs'
  <2>1. CASE Pop(w)
    BY <2>1 DEF Pop
  <2>2. CASE PopEnd(w)
    BY <2>2 DEF PopEnd
  <2>3. CASE WorkPush(w)
    BY <2>3, BoundAssumption DEF WorkPush, Produce
  <2>4. CASE WorkPark(w)
    BY <2>4, BoundAssumption DEF WorkPark, Produce, Release
  <2>5. CASE WorkRearm(w)
    <3>1. wconn[w] \in Conns
      BY <2>5, <1>0 DEF WorkRearm
    <3> QED
      BY <2>5, <3>1 DEF WorkRearm, Release
  <2>6. CASE WorkClose(w)
    <3>1. wconn[w] \in Conns \cup {NoConn} /\ life' \in [Conns -> {"new", "live", "freed"}]
      BY <2>6 DEF WorkClose
    <3> QED
      BY <2>6, <3>1 DEF WorkClose, Release
  <2>7. CASE WorkHandOff(w)
    BY <2>7 DEF WorkHandOff, Release
  <2> QED
    BY <1>5, <2>1, <2>2, <2>3, <2>4, <2>5, <2>6, <2>7 DEF WorkerStep
<1>6. CASE UpPush
  BY <1>6, BoundAssumption DEF UpPush, Produce
<1>7. CASE UpEnd
  BY <1>7 DEF UpEnd
<1>8. CASE AggStep
  <2>1. CASE AdoptSink \/ DrainCtrl
    <3>1. /\ ctrlQueue # <<>> /\ sink' = Head(ctrlQueue) /\ ctrlQueue' = Tail(ctrlQueue)
          /\ life' = IF sink = NoConn THEN life ELSE [life EXCEPT ![sink] = "freed"]
          /\ pending' = FALSE /\ full' = FALSE
          /\ UNCHANGED <<mainVars, upc, listenerVars, workerVars, apc, armed, queue,
                         data, parked, msgs>>
      BY <2>1 DEF AdoptSink, DrainCtrl, Adopt
    <3>2. sink' \in Sinks /\ ctrlQueue' \in Seq(Sinks)
      BY <3>1
    <3>3. life' \in [Conns -> {"new", "live", "freed"}]
      BY <3>1
    <3>4. pending' \in BOOLEAN /\ full' \in BOOLEAN /\ sink' \in Sinks \cup {NoConn}
      BY <3>1, <3>2
    <3>5. UNCHANGED <<mainVars, upc, listenerVars, workerVars, apc, armed, queue,
                      data, parked, msgs>>
      BY <3>1
    <3> QED
      BY <3>2, <3>3, <3>4, <3>5
  <2>2. CASE CtrlEmpty
    BY <2>2 DEF CtrlEmpty
  <2>3. CASE PumpSent
    <3>1. /\ pending' \in BOOLEAN /\ full' \in BOOLEAN
          /\ UNCHANGED <<mainVars, upc, listenerVars, workerVars, apc, sink, life, armed,
                         queue, dataVars>>
      BY <2>3 DEF PumpSent
    <3> QED
      BY <3>1
  <2>4. CASE PumpBlocked
    BY <2>4 DEF PumpBlocked
  <2>5. CASE PumpTake
    <3> DEFINE resumed == IF data <= LWM /\ parked # <<>> THEN {Head(parked)} ELSE {}
               size == data + Cardinality(resumed)
    <3>1. /\ parked' = IF resumed = {} THEN parked ELSE Tail(parked)
          /\ armed' = armed \cup resumed
          /\ pending' = (size > 0)
          /\ data' = IF size > 0 THEN size - 1 ELSE 0
          /\ apc' = IF size > 0 THEN "pump" ELSE "check"
          /\ UNCHANGED <<mainVars, upc, listenerVars, workerVars, sink, full, life, queue,
                         ctrlQueue, msgs>>
      BY <2>5 DEF PumpTake
    <3>2. /\ Cardinality(resumed) \in 0..1
          /\ resumed \subseteq Conns
          /\ parked' \in Seq(Sources)
      <4>1. CASE data <= LWM /\ parked # <<>>
        <5>1. Head(parked) \in Sources /\ Tail(parked) \in Seq(Sources)
          BY <4>1
        <5>2. Cardinality({Head(parked)}) = 1
          BY FS_Singleton
        <5> QED
          BY <3>1, <4>1, <5>1, <5>2 DEF Conns
      <4>2. CASE ~(data <= LWM /\ parked # <<>>)
        BY <3>1, <4>2, FS_EmptySet
      <4> QED
        BY <4>1, <4>2
    <3> HIDE DEF resumed
    <3>3. data' \in 0..MaxMsgs /\ data' <= msgs /\ size \in Nat
      BY <3>1, <3>2, BoundAssumption
    <3>4. (size > 0) \in BOOLEAN
      OBVIOUS
    <3> HIDE DEF size
    <3>5. armed' \subseteq Conns /\ pending' \in BOOLEAN /\ apc' \in {"pump", "check"}
      BY <3>1, <3>2, <3>4
    <3> QED
      BY <3>1, <3>2, <3>3, <3>5
  <2>6. CASE Check
    BY <2>6 DEF Check
  <2>7. CASE Wait
    BY <2>7 DEF Wait
  <2>8. CASE DrainData
    BY <2>8, BoundAssumption DEF DrainData
  <2>9. CASE AggEnd
    <3>1. CASE sink = NoConn
      BY <2>9, <3>1 DEF AggEnd
    <3>2. CASE sink # NoConn
      <4>1. sink \in Conns /\ life' = [life EXCEPT ![sink] = "freed"]
        BY <2>9, <3>2 DEF AggEnd, CloseSink, Conns
      <4>2. life' \in [Conns -> {"new", "live", "freed"}] /\ parked' \in Seq(Sources)
        BY <2>9, <4>1 DEF AggEnd
      <4>3. sink' = NoConn /\ pending' = FALSE /\ full' = FALSE /\ apc' = "end"
        BY <2>9, <3>2 DEF AggEnd, CloseSink, Agg
      <4>4. UNCHANGED <<mainVars, upc, listenerVars, workerVars, armed, queue, data,
                        ctrlQueue, msgs>>
        BY <2>9 DEF AggEnd
      <4>5. /\ sink' \in Sinks \cup {NoConn} /\ pending' \in BOOLEAN /\ full' \in BOOLEAN
            /\ apc' \in {"ctrl", "pump", "check", "wait", "drain", "ending", "end", "none"}
        BY <4>3
      <4> QED
        BY <4>2, <4>4, <4>5
    <3> QED
      BY <3>1, <3>2
  <2> QED
    BY <1>8, <2>1, <2>2, <2>3, <2>4, <2>5, <2>6, <2>7, <2>8, <2>9 DEF AggStep
<1>9. CASE SinkGone
  <2>1. sink \in Conns /\ life' = [life EXCEPT ![sink] = "freed"]
    BY <1>9 DEF SinkGone, CloseSink, Conns
  <2>2. life' \in [Conns -> {"new", "live", "freed"}]
    BY <2>1
  <2>3. sink' = NoConn /\ pending' = FALSE /\ full' = FALSE /\ apc' = "check"
    BY <1>9 DEF SinkGone, CloseSink
  <2>4. UNCHANGED <<mainVars, upc, listenerVars, workerVars, armed, queue, dataVars>>
    BY <1>9 DEF SinkGone
  <2>5. /\ sink' \in Sinks \cup {NoConn} /\ pending' \in BOOLEAN /\ full' \in BOOLEAN
        /\ apc' \in {"ctrl", "pump", "check", "wait", "drain", "ending", "end", "none"}
    BY <2>3
  <2> QED
    BY <2>2, <2>4, <2>5
<1>10. CASE SinkDrain
  <2>1. full' = FALSE
        /\ UNCHANGED <<mainVars, upc, listenerVars, workerVars, apc, sink, pending,
                       life, armed, queue, dataVars>>
    BY <1>10 DEF SinkDrain
  <2>2. full' \in BOOLEAN
    BY <2>1
  <2> QED
    BY <2>1, <2>2
<1> QED
  BY <1>1, <1>2, <1>3, <1>4, <1>5, <1>6, <1>7, <1>8, <1>9, <1>10 DEF Next

\* Initially nobody has a connection.
LEMMA InitCustody == Init => CustodyInv
<1> SUFFICES ASSUME Init PROVE CustodyInv
  OBVIOUS
<1>1. TypeOK /\ data <= msgs
  <2>1. apc \in {"ctrl", "none"} /\ upc \in {"run", "none"}
    BY DEF Init, Started
  <2>2. queue \in Seq(Conns) /\ ctrlQueue \in Seq(Sinks) /\ parked \in Seq(Sources)
    BY DEF Init
  <2>3. /\ lpc \in [Listeners -> {"wait", "batch", "end", "none"}]
        /\ wpc \in [Workers -> {"pop", "work", "end", "none"}]
        /\ batch \in [Listeners -> SUBSET (Conns \cup {Stop})]
        /\ wconn \in [Workers -> Conns \cup {NoConn}]
        /\ life \in [Conns -> {"new", "live", "freed"}]
    BY DEF Init
  <2>4. data \in 0..MaxMsgs /\ msgs \in 0..MaxMsgs /\ data <= msgs
    BY BoundAssumption DEF Init
  <2>5. /\ shutdown \in BOOLEAN /\ shutdownfd \in BOOLEAN /\ pending \in BOOLEAN
        /\ full \in BOOLEAN /\ qShut \in BOOLEAN /\ dShut \in BOOLEAN /\ cShut \in BOOLEAN
    BY DEF Init
  <2>6. /\ mpc = "sigwait" /\ freed = {} /\ sink = NoConn /\ armed = {}
    BY DEF Init
  <2> QED
    BY <2>1, <2>2, <2>3, <2>4, <2>5, <2>6 DEF TypeOK
<1>2. IsInjective(<<>>) /\ Range(<<>>) = {}
  BY DEF IsInjective, Range
<1>3. \A w \in Workers : wpc[w] # "work"
  BY DEF Init
<1>4. HeldOnce
  BY <1>2, <1>3 DEF Init, HeldOnce
<1>5. ASSUME NEW c \in Conns PROVE Custody(c)
  <2>1. c # NoConn
    BY ConnAssumption
  <2>2. ~InBatch(c) /\ ~InWork(c) /\ c \notin armed /\ c # sink
    BY <2>1 DEF Init, InBatch, InWork
  <2> QED
    BY <1>2, <2>2 DEF Init, Custody
<1> QED
  BY <1>1, <1>4, <1>5 DEF CustodyInv

\* A step of main(), or of a thread that moves no connection.
LEMMA IdleCustody ==
    ASSUME HeldOnce, \A c \in Conns : Custody(c),
           UNCHANGED <<batch, wconn, armed, queue, ctrlQueue, parked, sink, life>>,
           \A w \in Workers : wpc'[w] = "work" <=> wpc[w] = "work"
    PROVE  HeldOnce' /\ \A c \in Conns : Custody(c)'
<1>1. HeldOnce'
  BY DEF HeldOnce
<1>2. ASSUME NEW c \in Conns PROVE Custody(c)'
  BY DEF Custody, InBatch, InWork
<1> QED
  BY <1>1, <1>2

\* The listener accepts a connection and arms it.
LEMMA AcceptCustody ==
    ASSUME TypeOK, HeldOnce, \A c \in Conns : Custody(c), NEW x \in Conns, Accept(x)
    PROVE  HeldOnce' /\ \A c \in Conns : Custody(c)'
<1>1. /\ life[x] = "new" /\ life' = [life EXCEPT ![x] = "live"] /\ armed' = armed \cup {x}
      /\ UNCHANGED <<batch, wpc, wconn, queue, ctrlQueue, parked, sink>>
      /\ life \in [Conns -> {"new", "live", "freed"}]
  BY DEF Accept, TypeOK, listenerVars, workerVars, aggVars, dataVars
<1>2. HeldOnce'
  BY <1>1 DEF HeldOnce
<1>3. ASSUME NEW c \in Conns PROVE Custody(c)'
  <2>1. (InBatch(c)' <=> InBatch(c)) /\ (InWork(c)' <=> InWork(c))
    BY <1>1 DEF InBatch, InWork
  <2> QED
    BY <1>1, <2>1 DEF Custody
<1> QED
  BY <1>2, <1>3

\* epoll_wait() disarms the connections it reports to their listener.
LEMMA CollectCustody ==
    ASSUME TypeOK, HeldOnce, \A c \in Conns : Custody(c), NEW l \in Listeners, Collect(l)
    PROVE  HeldOnce' /\ \A c \in Conns : Custody(c)'
<1>1. PICK events \in SUBSET AtHome(l) :
          /\ batch' = [batch EXCEPT ![l] = events \cup StopEvent]
          /\ armed' = armed \ events
  BY DEF Collect
<1>2. /\ UNCHANGED <<wpc, wconn, queue, ctrlQueue, parked, sink, life>>
      /\ batch \in [Listeners -> SUBSET (Conns \cup {Stop})]
  BY DEF Collect, TypeOK, workerVars, aggVars, dataVars
<1>3. \A c \in events : c \in armed /\ Home[c] = l
  BY DEF AtHome
<1>4. /\ batch'[l] \subseteq events \cup {Stop} /\ events \subseteq batch'[l]
      /\ \A m \in Listeners \ {l} : batch'[m] = batch[m]
  BY <1>1, <1>2 DEF StopEvent
<1>5. HeldOnce'
  BY <1>2, <1>3, <1>4 DEF HeldOnce
<1>6. ASSUME NEW c \in Conns PROVE Custody(c)'
  <2>1. c # Stop
    BY ConnAssumption
  <2>2. InWork(c)' <=> InWork(c)
    BY <1>2 DEF InWork
  <2>3. CASE c \in events
    <3>1. InBatch(c)' /\ c \notin armed' /\ c \in armed
      BY <1>1, <1>3, <1>4, <2>3 DEF InBatch
    <3> QED
      BY <1>2, <2>2, <3>1 DEF Custody
  <2>4. CASE c \notin events
    <3>1. InBatch(c)' => InBatch(c)
      BY <1>4, <2>1, <2>4 DEF InBatch
    <3>2. c \in armed' <=> c \in armed
      BY <1>1, <2>4
    <3> QED
      BY <1>2, <2>2, <3>1, <3>2 DEF Custody
  <2> QED
    BY <2>3, <2>4
<1> QED
  BY <1>5, <1>6

\* The listener hands a connection to the workers.
LEMMA DispatchCustody ==
    ASSUME TypeOK, HeldOnce, \A c \in Conns : Custody(c), NEW l \in Listeners, Dispatch(l)
    PROVE  HeldOnce' /\ \A c \in Conns : Custody(c)'
<1>1. PICK x \in batch[l] \ {Stop} :
          queue' = Append(queue, x) /\ batch' = [batch EXCEPT ![l] = @ \ {x}]
  BY DEF Dispatch
<1>2. /\ UNCHANGED <<wpc, wconn, armed, ctrlQueue, parked, sink, life>>
      /\ batch \in [Listeners -> SUBSET (Conns \cup {Stop})] /\ queue \in Seq(Conns)
  BY DEF Dispatch, TypeOK, workerVars, aggVars, dataVars
<1>3. x \in Conns /\ InBatch(x) /\ Home[x] = l
  BY <1>1, <1>2 DEF InBatch, HeldOnce
<1>4. x \notin Range(queue)
  BY <1>3 DEF Custody
<1>5. Range(queue') = Range(queue) \cup {x} /\ IsInjective(queue')
  BY <1>1, <1>2, <1>3, <1>4, AppendElems DEF HeldOnce
<1>6. batch'[l] = batch[l] \ {x} /\ \A m \in Listeners \ {l} : batch'[m] = batch[m]
  BY <1>1, <1>2
<1>7. HeldOnce'
  BY <1>2, <1>5, <1>6 DEF HeldOnce
<1>8. ASSUME NEW c \in Conns PROVE Custody(c)'
  <2>1. InWork(c)' <=> InWork(c)
    BY <1>2 DEF InWork
  <2>2. c # Stop
    BY ConnAssumption
  <2>3. InBatch(c)' <=> InBatch(c) /\ c # x
    BY <1>3, <1>6, <2>2 DEF InBatch, HeldOnce
  <2> QED
    BY <1>2, <1>3, <1>5, <2>1, <2>3 DEF Custody
<1> QED
  BY <1>7, <1>8

\* EV_SHUTDOWN: the listener forgets the rest of its batch.
LEMMA StopCustody ==
    ASSUME TypeOK, HeldOnce, \A c \in Conns : Custody(c), NEW l \in Listeners, ListenerStop(l)
    PROVE  HeldOnce' /\ \A c \in Conns : Custody(c)'
<1>1. /\ UNCHANGED <<wpc, wconn, armed, queue, ctrlQueue, parked, sink, life>>
      /\ batch'[l] = {} /\ \A m \in Listeners \ {l} : batch'[m] = batch[m]
  BY DEF ListenerStop, TypeOK, workerVars, aggVars, dataVars
<1>2. HeldOnce'
  BY <1>1 DEF HeldOnce
<1>3. ASSUME NEW c \in Conns PROVE Custody(c)'
  <2>1. (InWork(c)' <=> InWork(c)) /\ (InBatch(c)' => InBatch(c))
    BY <1>1 DEF InWork, InBatch
  <2> QED
    BY <1>1, <2>1 DEF Custody
<1> QED
  BY <1>2, <1>3

\* A worker takes a connection off the work queue.
LEMMA PopCustody ==
    ASSUME TypeOK, HeldOnce, \A c \in Conns : Custody(c), NEW w \in Workers, Pop(w)
    PROVE  HeldOnce' /\ \A c \in Conns : Custody(c)'
<1> DEFINE x == Head(queue)
<1>1. x \in Conns /\ x \in Range(queue)
      /\ Range(queue') = Range(queue) \ {x} /\ IsInjective(queue')
  BY TailElems DEF Pop, HeldOnce, TypeOK
<1>2. /\ UNCHANGED <<batch, armed, ctrlQueue, parked, sink, life>>
      /\ wpc[w] = "pop"
      /\ wconn' = [wconn EXCEPT ![w] = x] /\ wpc' = [wpc EXCEPT ![w] = "work"]
      /\ wconn \in [Workers -> Conns \cup {NoConn}]
      /\ wpc \in [Workers -> {"pop", "work", "end", "none"}]
  BY DEF Pop, TypeOK, listenerVars, aggVars, dataVars
<1> HIDE DEF x
<1>3. x # NoConn /\ wconn[w] = NoConn
  BY <1>1, <1>2, ConnAssumption DEF HeldOnce
<1>4. \A v \in Workers : wconn[v] # x
  BY <1>1 DEF Custody, InWork
<1>5. /\ wconn'[w] = x /\ wpc'[w] = "work"
      /\ \A v \in Workers \ {w} : wconn'[v] = wconn[v] /\ wpc'[v] = wpc[v]
  BY <1>2
<1>6. HeldOnce'
  BY <1>1, <1>2, <1>3, <1>4, <1>5 DEF HeldOnce
<1>7. ASSUME NEW c \in Conns PROVE Custody(c)'
  <2>1. InBatch(c)' <=> InBatch(c)
    BY <1>2 DEF InBatch
  <2>2. c # NoConn
    BY ConnAssumption
  <2>3. InWork(c)' <=> InWork(c) \/ c = x
    BY <1>3, <1>5, <2>2 DEF InWork
  <2> QED
    BY <1>1, <1>2, <2>1, <2>3 DEF Custody
<1> QED
  BY <1>6, <1>7

\* The worker that has a connection is the only one, and gives it up.
LEMMA ReleaseCustody ==
    ASSUME TypeOK, HeldOnce, NEW w \in Workers, wpc[w] = "work", Release(w)
    PROVE  /\ wconn[w] \in Conns /\ InWork(wconn[w])
           /\ \A c \in Conns : InWork(c)' <=> InWork(c) /\ c # wconn[w]
           /\ \A v \in Workers : wconn'[v] = NoConn <=> wpc'[v] # "work"
           /\ \A u, v \in Workers : wconn'[u] = wconn'[v] /\ wconn'[u] # NoConn => u = v
<1>1. /\ wconn \in [Workers -> Conns \cup {NoConn}]
      /\ wpc \in [Workers -> {"pop", "work", "end", "none"}]
  BY DEF TypeOK
<1>2. /\ wconn'[w] = NoConn /\ wpc'[w] = "pop"
      /\ \A v \in Workers \ {w} : wconn'[v] = wconn[v] /\ wpc'[v] = wpc[v]
  BY <1>1 DEF Release
<1>3. /\ \A v \in Workers : wconn[v] = NoConn <=> wpc[v] # "work"
      /\ \A u, v \in Workers : wconn[u] = wconn[v] /\ wconn[u] # NoConn => u = v
  BY DEF HeldOnce
<1>4. wconn[w] \in Conns /\ InWork(wconn[w])
  BY <1>1, <1>3 DEF InWork
<1>5. NoConn \notin Conns
  BY ConnAssumption
<1>6. ASSUME NEW c \in Conns PROVE InWork(c)' <=> InWork(c) /\ c # wconn[w]
  BY <1>2, <1>3, <1>5 DEF InWork
<1> QED
  BY <1>2, <1>3, <1>4, <1>6

\* A worker's connection goes back to epoll, to the park list or to the
\* aggregator, or is freed.
LEMMA WorkCustody ==
    ASSUME TypeOK, HeldOnce, \A c \in Conns : Custody(c), NEW w \in Workers,
           WorkPark(w) \/ WorkRearm(w) \/ WorkClose(w) \/ WorkHandOff(w)
    PROVE  HeldOnce' /\ \A c \in Conns : Custody(c)'
<1> DEFINE x == wconn[w]
<1>1. wpc[w] = "work" /\ Release(w) /\ UNCHANGED <<batch, queue, sink>>
  BY DEF WorkPark, WorkRearm, WorkClose, WorkHandOff, listenerVars, aggVars, dataVars
<1>2. /\ x \in Conns /\ InWork(x)
      /\ \A c \in Conns : InWork(c)' <=> InWork(c) /\ c # x
      /\ \A v \in Workers : wconn'[v] = NoConn <=> wpc'[v] # "work"
      /\ \A u, v \in Workers : wconn'[u] = wconn'[v] /\ wconn'[u] # NoConn => u = v
  BY <1>1, ReleaseCustody
<1>3. /\ x \notin armed /\ ~InBatch(x) /\ x \notin Range(queue) /\ x \notin Range(ctrlQueue)
      /\ x \notin Range(parked) /\ x # sink /\ life[x] = "live"
  BY <1>2 DEF Custody
<1>4. \A c \in Conns : InBatch(c)' <=> InBatch(c)
  BY <1>1 DEF InBatch
<1>5. /\ life \in [Conns -> {"new", "live", "freed"}]
      /\ parked \in Seq(Sources) /\ ctrlQueue \in Seq(Sinks)
      /\ IsInjective(queue) /\ IsInjective(ctrlQueue) /\ IsInjective(parked)
      /\ \A l \in Listeners : \A c \in batch[l] \ {Stop} : Home[c] = l
  BY DEF TypeOK, HeldOnce
<1>6. CASE WorkPark(w)
  <2>1. /\ parked' = Append(parked, x) /\ x \in Sources
        /\ UNCHANGED <<armed, ctrlQueue, life>>
    BY <1>6 DEF WorkPark, listenerVars, aggVars, dataVars
  <2> HIDE DEF x
  <2>2. Range(parked') = Range(parked) \cup {x} /\ IsInjective(parked')
    BY <1>3, <1>5, <2>1, AppendElems
  <2>3. HeldOnce'
    BY <1>1, <1>2, <1>5, <2>1, <2>2 DEF HeldOnce
  <2>4. ASSUME NEW c \in Conns PROVE Custody(c)'
    BY <1>1, <1>2, <1>3, <1>4, <2>1, <2>2 DEF Custody
  <2> QED
    BY <2>3, <2>4
<1>7. CASE WorkRearm(w)
  <2>1. armed' = armed \cup {x} /\ UNCHANGED <<ctrlQueue, parked, life>>
    BY <1>7 DEF WorkRearm, listenerVars, aggVars, dataVars
  <2> HIDE DEF x
  <2>2. HeldOnce'
    BY <1>1, <1>2, <1>5, <2>1 DEF HeldOnce
  <2>3. ASSUME NEW c \in Conns PROVE Custody(c)'
    BY <1>1, <1>2, <1>3, <1>4, <2>1 DEF Custody
  <2> QED
    BY <2>2, <2>3
<1>8. CASE WorkClose(w)
  <2>1. life' = [life EXCEPT ![x] = "freed"] /\ UNCHANGED <<armed, ctrlQueue, parked>>
    BY <1>8 DEF WorkClose, listenerVars, aggVars, dataVars
  <2> HIDE DEF x
  <2>2. HeldOnce'
    BY <1>1, <1>2, <1>5, <2>1 DEF HeldOnce
  <2>3. ASSUME NEW c \in Conns PROVE Custody(c)'
    <3>1. c # x => life'[c] = life[c]
      BY <1>5, <2>1
    <3> QED
      BY <1>1, <1>2, <1>3, <1>4, <2>1, <3>1 DEF Custody
  <2> QED
    BY <2>2, <2>3
<1>9. CASE WorkHandOff(w)
  <2>1. /\ ctrlQueue' = Append(ctrlQueue, x) /\ x \in Sinks
        /\ UNCHANGED <<armed, parked, life>>
    BY <1>9 DEF WorkHandOff, listenerVars, aggVars, dataVars
  <2> HIDE DEF x
  <2>2. Range(ctrlQueue') = Range(ctrlQueue) \cup {x} /\ IsInjective(ctrlQueue')
    BY <1>3, <1>5, <2>1, AppendElems
  <2>3. HeldOnce'
    BY <1>1, <1>2, <1>5, <2>1, <2>2 DEF HeldOnce
  <2>4. ASSUME NEW c \in Conns PROVE Custody(c)'
    BY <1>1, <1>2, <1>3, <1>4, <2>1, <2>2 DEF Custody
  <2> QED
    BY <2>3, <2>4
<1> QED
  BY <1>6, <1>7, <1>8, <1>9

\* The aggregator adopts a sink, and frees the one it had.
LEMMA AdoptCustody ==
    ASSUME TypeOK, HeldOnce, \A c \in Conns : Custody(c), AdoptSink \/ DrainCtrl
    PROVE  HeldOnce' /\ \A c \in Conns : Custody(c)'
<1> DEFINE x == Head(ctrlQueue)
<1>1. /\ ctrlQueue # <<>> /\ sink' = x /\ ctrlQueue' = Tail(ctrlQueue)
      /\ life' = IF sink = NoConn THEN life ELSE [life EXCEPT ![sink] = "freed"]
      /\ UNCHANGED <<batch, wpc, wconn, armed, queue, parked>>
  BY DEF AdoptSink, DrainCtrl, Adopt, listenerVars, workerVars
<1>2. /\ ctrlQueue \in Seq(Sinks) /\ life \in [Conns -> {"new", "live", "freed"}]
      /\ sink \in Conns \cup {NoConn}
  BY DEF TypeOK, Conns
<1>3. /\ x \in Conns /\ x \in Range(ctrlQueue)
      /\ Range(ctrlQueue') = Range(ctrlQueue) \ {x} /\ IsInjective(ctrlQueue')
  <2>1. x \in Sinks /\ IsInjective(ctrlQueue)
    BY <1>1, <1>2 DEF HeldOnce
  <2> QED
    BY <1>1, <1>2, <2>1, TailElems DEF Conns
<1> HIDE DEF x
<1>4. HeldOnce'
  BY <1>1, <1>3 DEF HeldOnce
<1>5. ASSUME NEW c \in Conns PROVE Custody(c)'
  <2>1. (InBatch(c)' <=> InBatch(c)) /\ (InWork(c)' <=> InWork(c))
    BY <1>1 DEF InBatch, InWork
  <2>2. c # sink => life'[c] = life[c]
    BY <1>1, <1>2
  <2>3. CASE c = sink
    <3>1. c # x
      BY <1>3, <2>3 DEF Custody
    <3> QED
      BY <1>1, <1>3, <2>1, <2>3, <3>1 DEF Custody
  <2>4. CASE c # sink
    BY <1>1, <1>3, <2>1, <2>2, <2>4 DEF Custody
  <2> QED
    BY <2>3, <2>4
<1> QED
  BY <1>4, <1>5

\* The aggregator frees its sink; when it returns, it forgets the park list too.
LEMMA CloseCustody ==
    ASSUME TypeOK, HeldOnce, \A c \in Conns : Custody(c), SinkGone \/ AggEnd
    PROVE  HeldOnce' /\ \A c \in Conns : Custody(c)'
<1>1. /\ UNCHANGED <<batch, wpc, wconn, armed, queue, ctrlQueue>>
      /\ parked' = parked \/ parked' = <<>>
      /\ sink' = NoConn
      /\ life' = IF sink = NoConn THEN life ELSE [life EXCEPT ![sink] = "freed"]
  BY DEF SinkGone, AggEnd, CloseSink, listenerVars, workerVars, dataVars
<1>2. life \in [Conns -> {"new", "live", "freed"}] /\ NoConn \notin Conns
  BY ConnAssumption DEF TypeOK
<1>3. IsInjective(parked') /\ Range(parked') \subseteq Range(parked)
  BY <1>1 DEF HeldOnce, IsInjective, Range
<1>4. HeldOnce'
  BY <1>1, <1>3 DEF HeldOnce
<1>5. ASSUME NEW c \in Conns PROVE Custody(c)'
  <2>1. (InBatch(c)' <=> InBatch(c)) /\ (InWork(c)' <=> InWork(c)) /\ c # sink'
    BY <1>1, <1>2 DEF InBatch, InWork
  <2>2. c # sink => life'[c] = life[c]
    BY <1>1, <1>2
  <2> QED
    BY <1>1, <1>3, <2>1, <2>2 DEF Custody
<1> QED
  BY <1>4, <1>5

\* aggPump() arms the source it resumes.
LEMMA PumpCustody ==
    ASSUME TypeOK, HeldOnce, \A c \in Conns : Custody(c), PumpTake
    PROVE  HeldOnce' /\ \A c \in Conns : Custody(c)'
<1> DEFINE x == Head(parked)
           resumed == IF data <= LWM /\ parked # <<>> THEN {x} ELSE {}
<1>1. /\ UNCHANGED <<batch, wpc, wconn, queue, ctrlQueue, sink, life>>
      /\ parked' = IF resumed = {} THEN parked ELSE Tail(parked)
      /\ armed' = armed \cup resumed
  BY DEF PumpTake, listenerVars, workerVars
<1>2. CASE resumed = {}
  BY <1>1, <1>2, IdleCustody
<1>3. CASE resumed # {}
  <2>1. parked # <<>> /\ armed' = armed \cup {x} /\ parked' = Tail(parked)
    BY <1>1, <1>3
  <2>2. parked \in Seq(Sources) /\ IsInjective(parked)
    BY DEF TypeOK, HeldOnce
  <2>3. x \in Conns /\ x \in Range(parked)
        /\ Range(parked') = Range(parked) \ {x} /\ IsInjective(parked')
    BY <2>1, <2>2, TailElems DEF Conns
  <2> HIDE DEF x
  <2>4. HeldOnce'
    BY <1>1, <2>3 DEF HeldOnce
  <2>5. ASSUME NEW c \in Conns PROVE Custody(c)'
    <3>1. (InBatch(c)' <=> InBatch(c)) /\ (InWork(c)' <=> InWork(c))
      BY <1>1 DEF InBatch, InWork
    <3> QED
      BY <1>1, <2>1, <2>3, <3>1 DEF Custody
  <2> QED
    BY <2>4, <2>5
<1> QED
  BY <1>2, <1>3

\* When the connections are freed, every other thread has returned.
LEMMA SettledCustody ==
    ASSUME StopInv, TypeOK, "conns" \in freed, [Next]_vars
    PROVE  "conns" \in freed' /\ UNCHANGED <<batch, wpc, wconn, queue, ctrlQueue, parked>>
<1>1. /\ Ended(lpc, Listeners) /\ Ended(wpc, Workers) /\ upc \in Over /\ apc \in Over
  BY DEF StopInv, Order, FreedLate
<1>2. /\ \A l \in Listeners : lpc[l] \notin {"wait", "batch"}
      /\ \A w \in Workers : wpc[w] \notin {"pop", "work"}
      /\ upc # "run"
      /\ apc \notin {"ctrl", "pump", "check", "wait", "drain", "ending"}
  BY <1>1 DEF Ended, Over
<1>3. \A l \in Listeners : ~ListenerStep(l)
  BY <1>2 DEF ListenerStep, Collect, Dispatch, BatchDone, ListenerStop
<1>4. \A w \in Workers : ~WorkerStep(w)
  BY <1>2 DEF WorkerStep, Pop, PopEnd, WorkPush, WorkPark, WorkRearm, WorkClose, WorkHandOff
<1>5. ~UpPush /\ ~UpEnd
  BY <1>2 DEF UpPush, UpEnd
<1>6. ~AggStep /\ ~SinkGone
  BY <1>2 DEF AggStep, AdoptSink, CtrlEmpty, PumpSent, PumpBlocked, PumpTake, Check, Wait,
              DrainCtrl, DrainData, AggEnd, SinkGone, Adopt, Agg
<1>7. CASE Signal \/ MainStep
  BY <1>7 DEF Signal, MainStep, Wake, JoinUpstream, JoinListeners, JoinWorkers, StopCtrl,
              JoinAgg, FreeConns, FreeQueues, Main, threadVars, listenerVars, workerVars, dataVars
<1>8. ASSUME NEW c \in Conns, Accept(c)
      PROVE  UNCHANGED <<freed, batch, wpc, wconn, queue, ctrlQueue, parked>>
  BY <1>8 DEF Accept, mainVars, listenerVars, workerVars, dataVars
<1>9. CASE SinkDrain
  BY <1>9 DEF SinkDrain, mainVars, listenerVars, workerVars, dataVars
<1>10. CASE UNCHANGED vars
  BY <1>10 DEF vars, mainVars, listenerVars, workerVars, dataVars
<1> QED
  BY <1>3, <1>4, <1>5, <1>6, <1>7, <1>8, <1>9, <1>10 DEF Next

\* Until then, every step leaves each connection with one holder at most.
LEMMA StepCustody ==
    ASSUME TypeOK, HeldOnce, \A c \in Conns : Custody(c), [Next]_vars
    PROVE  HeldOnce' /\ ("conns" \notin freed' => \A c \in Conns : Custody(c)')
<1> USE DEF mainVars, listenerVars, workerVars, aggVars, dataVars, threadVars, Main, Agg
<1> DEFINE Idle == /\ UNCHANGED <<batch, wconn, armed, queue, ctrlQueue, parked, sink, life>>
                   /\ \A w \in Workers : wpc'[w] = "work" <=> wpc[w] = "work"
<1>1. Idle => HeldOnce' /\ \A c \in Conns : Custody(c)'
  BY IdleCustody
<1>2. CASE Signal \/ MainStep
  <2>1. CASE FreeConns
    BY <2>1 DEF FreeConns, HeldOnce
  <2>2. CASE ~FreeConns
    <3>1. Idle
      BY <1>2, <2>2 DEF Signal, MainStep, Wake, JoinUpstream, JoinListeners, JoinWorkers,
                        StopCtrl, JoinAgg, FreeQueues
    <3> QED
      BY <1>1, <3>1
  <2> QED
    BY <2>1, <2>2
<1>3. ASSUME NEW c \in Conns, Accept(c)
      PROVE  HeldOnce' /\ \A d \in Conns : Custody(d)'
  BY <1>3, AcceptCustody
<1>4. ASSUME NEW l \in Listeners, ListenerStep(l)
      PROVE  HeldOnce' /\ \A c \in Conns : Custody(c)'
  <2>1. CASE BatchDone(l)
    <3>1. Idle
      BY <2>1 DEF BatchDone
    <3> QED
      BY <1>1, <3>1
  <2> QED
    BY <1>4, <2>1, CollectCustody, DispatchCustody, StopCustody DEF ListenerStep
<1>5. ASSUME NEW w \in Workers, WorkerStep(w)
      PROVE  HeldOnce' /\ \A c \in Conns : Custody(c)'
  <2>1. CASE PopEnd(w) \/ WorkPush(w)
    <3>1. wpc \in [Workers -> {"pop", "work", "end", "none"}]
      BY DEF TypeOK
    <3>2. Idle
      BY <2>1, <3>1 DEF PopEnd, WorkPush
    <3> QED
      BY <1>1, <3>2
  <2> QED
    BY <1>5, <2>1, PopCustody, WorkCustody DEF WorkerStep
<1>6. CASE UpPush \/ UpEnd
  <2>1. Idle
    BY <1>6 DEF UpPush, UpEnd
  <2> QED
    BY <1>1, <2>1
<1>7. CASE AggStep \/ SinkGone
  <2>1. CASE CtrlEmpty \/ PumpSent \/ PumpBlocked \/ Check \/ Wait \/ DrainData
    <3>1. Idle
      BY <2>1 DEF CtrlEmpty, PumpSent, PumpBlocked, Check, Wait, DrainData
    <3> QED
      BY <1>1, <3>1
  <2> QED
    BY <1>7, <2>1, AdoptCustody, CloseCustody, PumpCustody DEF AggStep
<1>8. CASE SinkDrain \/ UNCHANGED vars
  <2>1. Idle
    BY <1>8 DEF SinkDrain, vars
  <2> QED
    BY <1>1, <2>1
<1> QED
  BY <1>2, <1>3, <1>4, <1>5, <1>6, <1>7, <1>8 DEF Next

\* The inductive invariant: every connection has one holder at most, and only a
\* connection in the registry has one.
THEOREM CustodyInvariant == Spec => []CustodyInv
<1>1. StopInv /\ CustodyInv /\ [Next]_vars => CustodyInv'
  <2> SUFFICES ASSUME StopInv, CustodyInv, [Next]_vars PROVE CustodyInv'
    OBVIOUS
  <2>1. TypeOK /\ HeldOnce /\ data <= msgs /\ ("conns" \notin freed => \A c \in Conns : Custody(c))
    BY DEF CustodyInv
  <2>2. TypeOK' /\ data' <= msgs'
    BY <2>1, TypesKept
  <2>3. CASE "conns" \in freed
    <3>1. "conns" \in freed' /\ HeldOnce'
      BY <2>1, <2>3, SettledCustody DEF HeldOnce
    <3> QED
      BY <2>2, <3>1 DEF CustodyInv
  <2>4. CASE "conns" \notin freed
    <3>1. HeldOnce' /\ ("conns" \notin freed' => \A c \in Conns : Custody(c)')
      BY <2>1, <2>4, StepCustody
    <3> QED
      BY <2>2, <3>1 DEF CustodyInv
  <2> QED
    BY <2>3, <2>4
<1> QED
  BY InitCustody, StopInductive, <1>1, PTL DEF Spec

\* A connection that is freed, or not accepted yet, is out of everybody's reach:
\* no epoll set, batch, queue, park list or thread has it.
THEOREM NoDanglingAlways == Spec => []NoDangling
<1>1. CustodyInv => NoDangling
  <2> SUFFICES ASSUME CustodyInv, "conns" \notin freed, NEW c \in Conns, life[c] # "live"
               PROVE  /\ c \notin armed
                      /\ \A l \in Listeners : c \notin batch[l]
                      /\ \A w \in Workers : wconn[w] # c
                      /\ c # sink
                      /\ c \notin Range(queue) \cup Range(ctrlQueue) \cup Range(parked)
    BY DEF CustodyInv, NoDangling
  <2> QED
    BY DEF CustodyInv, Custody, InBatch, InWork
<1> QED
  BY <1>1, CustodyInvariant, PTL
=============================================================================
