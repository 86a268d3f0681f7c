--------------------------- MODULE PipelineProofs ---------------------------
(***************************************************************************)
(* Theorems about Pipeline for any number of sources and workers, any      *)
(* scripts and any watermarks: the state is well typed, the data queue is  *)
(* bounded, one thread at a time works on a connection, nothing is read    *)
(* from a parked source, and Pipeline implements FanIn.                    *)
(***************************************************************************)
EXTENDS Pipeline, SequenceLemmas

-----------------------------------------------------------------------------
(* Where a connection is *)

\* Initially every source is armed in epoll.
LEMMA InitPlaced == Init => PlaceInv
<1> SUFFICES ASSUME Init PROVE PlaceInv
  OBVIOUS
<1>1. IsInjective(<<>>) /\ Range(<<>>) = {}
  BY DEF IsInjective, Range
<1>2. Range(queue) = {} /\ Range(parkList) = {}
      /\ IsInjective(queue) /\ IsInjective(parkList)
  BY <1>1 DEF Init
<1>3. HolderPcs
  BY <1>2 DEF Init, HolderPcs
<1>4. ASSUME NEW s \in Sources
      PROVE  PlacesApart(s)
  <2>1. Armed(s) /\ live[s]
    BY DEF Init, Armed
  <2>2. NoConn # s
    BY ConnAssumption
  <2>3. aconn # s /\ \A w \in Workers : wconn[w] # s
    BY <2>2 DEF Init
  <2> QED
    BY <1>2, <2>1, <2>3 DEF PlacesApart, Queued, InWorker, Parked, Owned
<1> QED
  BY <1>3, <1>4 DEF PlaceInv

\* A step of the listener.
LEMMA ListenerPlaces ==
    ASSUME TypeOK, PlaceInv, NEW x \in Sources, ListenerPush(x)
    PROVE  PlaceInv'
<1> USE DEF workerVars, aggVars, connVars
<1>1. x \notin Range(queue)
  BY DEF ListenerPush, PlaceInv, PlacesApart, Queued, Armed
<1>2. Range(queue') = Range(queue) \cup {x} /\ IsInjective(queue')
  BY <1>1, AppendElems DEF ListenerPush, PlaceInv, HolderPcs, TypeOK
<1>3. HolderPcs'
  BY <1>2 DEF ListenerPush, PlaceInv, HolderPcs
<1>4. ASSUME NEW s \in Sources
      PROVE  PlacesApart(s)'
  <2>1. PlacesApart(s) /\ PlacesApart(x)
    BY DEF PlaceInv
  <2>2. epoll' = [epoll EXCEPT ![x] = "off"] /\ Armed(x) /\ epoll \in [Sources -> {"in", "inout", "off", "absent"}]
    BY DEF ListenerPush, TypeOK
  <2>3. UNCHANGED <<live, parkList, wpc, wconn, apc, aconn, addFailed>>
    BY DEF ListenerPush
  <2> QED
    BY <1>2, <2>1, <2>2, <2>3 DEF PlacesApart, Armed, Queued, InWorker, Parked, Owned
<1> QED
  BY <1>3, <1>4 DEF PlaceInv
  
\* A worker takes a connection off the work queue.
LEMMA PopPlaces ==
    ASSUME TypeOK, PlaceInv, NEW w \in Workers, WorkerPop(w)
    PROVE  PlaceInv'
<1> DEFINE x == Head(queue)
<1> USE DEF workerVars, aggVars, connVars
<1>1. x \in Sources /\ x \in Range(queue)
      /\ Range(queue') = Range(queue) \ {x} /\ IsInjective(queue')
  <2>1. queue \in Seq(Sources) /\ queue # <<>> /\ queue' = Tail(queue) /\ IsInjective(queue)
    BY DEF WorkerPop, PlaceInv, HolderPcs, TypeOK
  <2>2. x \in Sources
    BY ONLY <2>1
  <2>3. /\ x \in Range(queue) /\ IsInjective(Tail(queue))
        /\ Range(Tail(queue)) = Range(queue) \ {x}
    BY ONLY <2>1, TailElems
  <2> QED
    BY ONLY <2>1, <2>2, <2>3
<1>2. /\ wconn' = [wconn EXCEPT ![w] = x] /\ wpc' = [wpc EXCEPT ![w] = "parse"]
      /\ wpc[w] = "pop"
      /\ UNCHANGED <<live, epoll, parkList, apc, aconn, addFailed>>
      /\ wconn \in [Workers -> Sources \cup {NoConn}]
      /\ wpc \in [Workers -> {"pop", "parse", "push", "park", "del"}]
  BY DEF WorkerPop, TypeOK
<1> HIDE DEF x
<1>3. PlacesApart(x)
  BY <1>1 DEF PlaceInv
<1>4. HolderPcs'
  BY <1>1, <1>2, <1>3 DEF PlaceInv, HolderPcs, PlacesApart, Queued, InWorker, ConnAssumption
<1>5. ASSUME NEW s \in Sources
      PROVE  PlacesApart(s)'
  <2>1. PlacesApart(s) /\ wconn[w] = NoConn /\ NoConn # s
    BY <1>2, ConnAssumption DEF PlaceInv, HolderPcs
  <2>2. CASE s = x
    <3>1. wconn'[w] = s /\ wpc'[w] = "parse"
      BY <1>2, <2>2
    <3> QED
      BY <1>1, <1>2, <2>1, <2>2, <3>1 DEF PlacesApart, Armed, Queued, InWorker, Parked, Owned
  <2>3. CASE s # x
    <3>1. /\ wconn'[w] # s /\ wconn[w] # s
          /\ \A v \in Workers : v # w => wconn'[v] = wconn[v] /\ wpc'[v] = wpc[v]
      BY <1>2, <2>1, <2>3
    <3>2. (Owned(s)' <=> Owned(s)) /\ (InWorker(s)' <=> InWorker(s))
      BY <3>1 DEF Owned, InWorker
    <3>3. (Queued(s)' <=> Queued(s))
      BY <1>1, <2>3 DEF Queued
    <3> QED
      BY <1>2, <2>1, <3>2, <3>3 DEF PlacesApart, Armed, Parked
  <2> QED
    BY <2>2, <2>3
<1> QED
  BY <1>4, <1>5 DEF PlaceInv

\* A worker goes from one point of its handler to another.
LEMMA BusyPlaces ==
    ASSUME TypeOK, PlaceInv, NEW w \in Workers,
           wpc[w] \in {"parse", "push", "park"},
           NEW pc \in {"parse", "push", "park"}, wpc' = [wpc EXCEPT ![w] = pc],
           UNCHANGED <<live, epoll, queue, parkList, wconn, apc, aconn, addFailed>>
    PROVE  PlaceInv'
<1>1. wpc \in [Workers -> {"pop", "parse", "push", "park", "del"}]
  BY DEF TypeOK
<1>2. HolderPcs'
  BY <1>1 DEF PlaceInv, HolderPcs
<1>3. ASSUME NEW s \in Sources
      PROVE  PlacesApart(s)'
  <2>1. Owned(s)' <=> Owned(s)
    BY <1>1 DEF Owned
  <2>2. PlacesApart(s)
    BY DEF PlaceInv
  <2> QED
    BY <2>1, <2>2 DEF PlacesApart, Armed, Queued, InWorker, Parked
<1> QED
  BY <1>2, <1>3 DEF PlaceInv

\* A worker puts its connection on the park list.
LEMMA ParkPlaces ==
    ASSUME TypeOK, ConnInHand, PlaceInv, NEW w \in Workers, Park(w)
    PROVE  PlaceInv'
<1> DEFINE x == wconn[w]
<1>1. /\ x \in Sources /\ wpc[w] = "park" /\ wpc' = [wpc EXCEPT ![w] = "del"]
      /\ wpc \in [Workers -> {"pop", "parse", "push", "park", "del"}]
      /\ UNCHANGED <<live, epoll, queue, wconn, apc, aconn, addFailed>>
  BY DEF Park, TypeOK, ConnInHand, connVars, aggVars
<1>2. PlacesApart(x) /\ Owned(x)
  BY <1>1 DEF PlaceInv, Owned
<1>3. x \notin Range(parkList)
  BY <1>2 DEF PlacesApart, Parked
<1>4. Range(parkList') = Range(parkList) \cup {x} /\ IsInjective(parkList')
  BY <1>1, <1>3, AppendElems DEF Park, PlaceInv, HolderPcs, TypeOK
<1>5. HolderPcs'
  BY <1>1, <1>4 DEF PlaceInv, HolderPcs
<1>6. \A v \in Workers : v # w => wconn[v] # x /\ wpc'[v] = wpc[v]
  BY <1>1, ConnAssumption DEF PlaceInv, HolderPcs
<1>7. ASSUME NEW s \in Sources
      PROVE  PlacesApart(s)'
  <2>1. PlacesApart(s)
    BY DEF PlaceInv
  <2>2. CASE s = x
    <3>1. wconn[w] = s /\ wpc'[w] = "del"
      BY <1>1, <2>2
    <3>2. ~Owned(s)'
      BY <1>1, <1>6, <2>2, <3>1 DEF Owned
    <3>3. InWorker(s) /\ Owned(s)
      BY <1>1, <2>2, <3>1 DEF InWorker, Owned
    <3> QED
      BY <1>1, <1>4, <2>1, <2>2, <3>2, <3>3 DEF PlacesApart, Armed, Queued, InWorker, Parked
  <2>3. CASE s # x
    <3>1. (Owned(s)' <=> Owned(s)) /\ (Parked(s)' <=> Parked(s))
      BY <1>1, <1>4, <2>3 DEF Owned, Parked
    <3> QED
      BY <1>1, <2>1, <3>1 DEF PlacesApart, Armed, Queued, InWorker
  <2> QED
    BY <2>2, <2>3
<1> QED
  BY <1>5, <1>7 DEF PlaceInv

\* A worker that has unregistered its parked connection forgets it.
LEMMA UnregisterPlaces ==
    ASSUME TypeOK, ConnInHand, PlaceInv, NEW w \in Workers, Unregister(w)
    PROVE  PlaceInv'
<1> DEFINE x == wconn[w]
<1>1. /\ x \in Sources /\ wpc[w] = "del"
      /\ wpc' = [wpc EXCEPT ![w] = "pop"] /\ wconn' = [wconn EXCEPT ![w] = NoConn]
      /\ epoll' = [epoll EXCEPT ![x] = "absent"]
      /\ wpc \in [Workers -> {"pop", "parse", "push", "park", "del"}]
      /\ wconn \in [Workers -> Sources \cup {NoConn}]
      /\ epoll \in [Sources -> {"in", "inout", "off", "absent"}]
      /\ UNCHANGED <<live, queue, parkList, apc, aconn, addFailed>>
  BY DEF Unregister, Release, TypeOK, ConnInHand, connVars, aggVars
<1>2. HolderPcs'
  BY <1>1 DEF PlaceInv, HolderPcs
<1>3. \A v \in Workers : v # w => wconn[v] # x /\ wpc'[v] = wpc[v] /\ wconn'[v] = wconn[v]
  BY <1>1, ConnAssumption DEF PlaceInv, HolderPcs
<1>4. ASSUME NEW s \in Sources
      PROVE  PlacesApart(s)'
  <2>1. PlacesApart(s) /\ wconn'[w] = NoConn /\ NoConn # s
    BY <1>1, ConnAssumption DEF PlaceInv
  <2>2. CASE s = x
    <3>1. InWorker(s)
      BY <2>2 DEF InWorker
    <3>2. ~Owned(s) /\ ~Owned(s)' /\ ~InWorker(s)'
      BY <1>1, <1>3, <2>1, <2>2 DEF Owned, InWorker
    <3> QED
      BY <1>1, <2>1, <2>2, <3>1, <3>2 DEF PlacesApart, Armed, Queued, Parked
  <2>3. CASE s # x
    <3>1. (Owned(s)' <=> Owned(s)) /\ (InWorker(s)' <=> InWorker(s))
      BY <1>1, <1>3, <2>1, <2>3 DEF Owned, InWorker
    <3> QED
      BY <1>1, <2>1, <2>3, <3>1 DEF PlacesApart, Armed, Queued, Parked
  <2> QED
    BY <2>2, <2>3
<1> QED
  BY <1>2, <1>4 DEF PlaceInv

\* A worker gives its connection back to epoll, or closes it.
LEMMA FlushPlaces ==
    ASSUME TypeOK, ConnInHand, PlaceInv, NEW w \in Workers,
           FlushAll(w) \/ FlushSome(w) \/ FlushError(w)
    PROVE  PlaceInv'
<1> DEFINE x == wconn[w]
<1>1. PICK open \in BOOLEAN, e \in {"in", "inout", "absent"} :
        /\ live' = [live EXCEPT ![x] = open]
        /\ epoll' = [epoll EXCEPT ![x] = e]
        /\ open <=> e # "absent"
  <2>1. CASE FlushAll(w)
    <3> DEFINE close == closing[x] \/ weof[w]
    <3>1. /\ live' = [live EXCEPT ![x] = ~close]
          /\ epoll' = [epoll EXCEPT ![x] = IF close THEN "absent" ELSE "in"]
      BY <2>1 DEF FlushAll
    <3> HIDE DEF close
    <3>2. CASE close
      BY <3>1, <3>2
    <3>3. CASE ~close
      BY <3>1, <3>3
    <3> QED
      BY <3>2, <3>3
  <2>2. CASE FlushSome(w)
    <3>1. /\ live' = [live EXCEPT ![x] = ~weof[w]] /\ weof[w] \in BOOLEAN
          /\ epoll' = [epoll EXCEPT ![x] = IF weof[w] THEN "absent" ELSE "inout"]
      BY <2>2 DEF FlushSome, TypeOK
    <3>2. CASE weof[w]
      BY <3>1, <3>2
    <3>3. CASE ~weof[w]
      BY <3>1, <3>3
    <3> QED
      BY <3>2, <3>3
  <2>3. CASE FlushError(w)
    BY <2>3 DEF FlushError
  <2> QED
    BY <2>1, <2>2, <2>3
<1>2. /\ wpc[w] = "parse" /\ x \in Sources
      /\ wpc' = [wpc EXCEPT ![w] = "pop"] /\ wconn' = [wconn EXCEPT ![w] = NoConn]
      /\ wpc \in [Workers -> {"pop", "parse", "push", "park", "del"}]
      /\ wconn \in [Workers -> Sources \cup {NoConn}]
      /\ epoll \in [Sources -> {"in", "inout", "off", "absent"}]
      /\ live \in [Sources -> BOOLEAN]
      /\ UNCHANGED <<queue, parkList, apc, aconn, addFailed>>
  BY DEF FlushAll, FlushSome, FlushError, ParsedAll, Release, TypeOK, ConnInHand, aggVars
<1>3. HolderPcs'
  BY <1>2 DEF PlaceInv, HolderPcs
<1>4. \A v \in Workers : v # w => wconn[v] # x /\ wpc'[v] = wpc[v] /\ wconn'[v] = wconn[v]
  BY <1>2, ConnAssumption DEF PlaceInv, HolderPcs
<1>5. ASSUME NEW s \in Sources
      PROVE  PlacesApart(s)'
  <2>1. PlacesApart(s) /\ wconn'[w] = NoConn /\ NoConn # s
    BY <1>2, ConnAssumption DEF PlaceInv
  <2>2. CASE s = x
    <3>1. InWorker(s) /\ Owned(s)
      BY <1>2, <2>2 DEF InWorker, Owned
    <3>2. ~Owned(s)' /\ ~InWorker(s)'
      BY <1>2, <1>4, <2>1, <2>2 DEF Owned, InWorker
    <3>3. epoll'[s] = e /\ (live'[s] <=> e # "absent")
      BY <1>1, <1>2, <2>2
    <3> QED
      BY <1>2, <2>1, <2>2, <3>1, <3>2, <3>3 DEF PlacesApart, Armed, Queued, Parked
  <2>3. CASE s # x
    <3>1. (Owned(s)' <=> Owned(s)) /\ (InWorker(s)' <=> InWorker(s))
      BY <1>2, <1>4, <2>1, <2>3 DEF Owned, InWorker
    <3>2. epoll'[s] = epoll[s] /\ live'[s] = live[s]
      BY <1>1, <1>2, <2>3
    <3> QED
      BY <1>2, <2>1, <3>1, <3>2 DEF PlacesApart, Armed, Queued, Parked
  <2> QED
    BY <2>2, <2>3
<1> QED
  BY <1>3, <1>5 DEF PlaceInv

\* The aggregator does something else than resuming a source.
LEMMA IdlePlaces ==
    ASSUME PlaceInv, aconn' = aconn,
           apc' = apc \/ (apc \notin {"push", "add"} /\ apc' \notin {"push", "add"})
                      \/ (apc = "push" /\ apc' = "add"),
           UNCHANGED <<live, epoll, queue, parkList, wpc, wconn, addFailed>>
    PROVE  PlaceInv'
  BY DEF PlaceInv, HolderPcs, PlacesApart, Armed, Queued, Parked, InWorker, Owned

\* The aggregator takes a source off the park list.
LEMMA UnparkPlaces ==
    ASSUME TypeOK, PlaceInv, Unpark
    PROVE  PlaceInv'
<1> DEFINE x == Head(parkList)
<1>1. CASE parkList = <<>>
  BY <1>1, IdlePlaces DEF Unpark, connVars, workerVars
<1>2. CASE parkList # <<>>
  <2>2. /\ aconn' = x /\ apc' = "push" /\ apc = "unpark" /\ parkList' = Tail(parkList)
        /\ UNCHANGED <<live, epoll, queue, wpc, wconn, addFailed>>
    BY <1>2 DEF Unpark, connVars, workerVars
  <2>1. /\ x \in Sources /\ x \in Range(parkList)
        /\ Range(parkList') = Range(parkList) \ {x} /\ IsInjective(parkList')
    BY <1>2, <2>2, TailElems DEF PlaceInv, HolderPcs, TypeOK
  <2> HIDE DEF x
  <2>3. HolderPcs'
    BY <2>1, <2>2 DEF PlaceInv, HolderPcs
  <2>4. ASSUME NEW s \in Sources
        PROVE  PlacesApart(s)'
    <3>1. PlacesApart(s) /\ PlacesApart(x) /\ aconn = NoConn /\ NoConn # s
      BY <2>1, <2>2, ConnAssumption DEF PlaceInv, HolderPcs
    <3>2. (Owned(s)' <=> Owned(s)) /\ (InWorker(s)' <=> InWorker(s))
      BY <2>2 DEF Owned, InWorker
    <3> QED
      BY <2>1, <2>2, <3>1, <3>2 DEF PlacesApart, Armed, Queued, Parked
  <2> QED
    BY <2>3, <2>4 DEF PlaceInv
<1> QED
  BY <1>1, <1>2

\* The aggregator registers a source again, or fails to.
LEMMA ResumePlaces ==
    ASSUME TypeOK, ConnInHand, PlaceInv, ResumeAdd
    PROVE  PlaceInv'
<1>1. /\ aconn \in Sources /\ aconn' = NoConn /\ apc' = "take" /\ apc = "add"
      /\ epoll \in [Sources -> {"in", "inout", "off", "absent"}]
      /\ UNCHANGED <<live, queue, parkList, wpc, wconn>>
  BY DEF ResumeAdd, ConnInHand, TypeOK, connVars, workerVars
<1>2. \/ /\ epoll[aconn] = "absent" /\ addFailed' = addFailed
         /\ epoll' = [epoll EXCEPT ![aconn] = "in"] \/ epoll' = [epoll EXCEPT ![aconn] = "inout"]
      \/ addFailed' = addFailed \cup {aconn} /\ epoll' = epoll
  BY DEF ResumeAdd
<1>3. HolderPcs'
  BY <1>1 DEF PlaceInv, HolderPcs
<1>4. ASSUME NEW s \in Sources
      PROVE  PlacesApart(s)'
  <2>1. PlacesApart(s) /\ NoConn # s
    BY ConnAssumption DEF PlaceInv
  <2>2. (Owned(s)' <=> Owned(s)) /\ (InWorker(s)' <=> InWorker(s))
    BY <1>1 DEF Owned, InWorker
  <2>3. Owned(s) => InWorker(s)
    BY DEF Owned, InWorker
  <2>4. CASE s = aconn
    BY <1>1, <1>2, <2>1, <2>2, <2>3, <2>4 DEF PlacesApart, Armed, Queued, Parked
  <2>5. CASE s # aconn
    BY <1>1, <1>2, <2>1, <2>2, <2>5 DEF PlacesApart, Armed, Queued, Parked
  <2> QED
    BY <2>4, <2>5
<1> QED
  BY <1>3, <1>4 DEF PlaceInv

\* Every step keeps the connections apart.
LEMMA StepPlaced == TypeOK /\ ConnInHand /\ PlaceInv /\ [Next]_vars => PlaceInv'
<1> SUFFICES ASSUME TypeOK, ConnInHand, PlaceInv, [Next]_vars
             PROVE  PlaceInv'
  OBVIOUS
<1> USE DEF peerVars, connVars, workerVars, aggVars
<1>1. ASSUME NEW s \in Sources, PeerStep(s)
      PROVE  PlaceInv'
  BY <1>1, IdlePlaces DEF PeerStep, PeerSend, PeerClose, PeerDrain
<1>2. ASSUME NEW s \in Sources, ListenerPush(s)
      PROVE  PlaceInv'
  BY <1>2, ListenerPlaces
<1>3. ASSUME NEW w \in Workers, ParseControl(w)
      PROVE  PlaceInv'
  BY <1>3, IdlePlaces DEF ParseControl
<1>4. ASSUME NEW w \in Workers, CommitPush(w) \/ CommitPark(w) \/ Push(w)
      PROVE  PlaceInv'
  <2>1. PICK pc \in {"parse", "push", "park"} :
          /\ wpc' = [wpc EXCEPT ![w] = pc]
          /\ UNCHANGED <<live, epoll, queue, parkList, wconn, apc, aconn, addFailed>>
    BY <1>4 DEF CommitPush, CommitPark, Push
  <2>2. wpc[w] \in {"parse", "push", "park"}
    BY <1>4 DEF CommitPush, CommitPark, Push, Parsing
  <2> QED
    BY <2>1, <2>2, BusyPlaces
<1>5. ASSUME NEW w \in Workers, WorkerStep(w)
      PROVE  PlaceInv'
  BY <1>3, <1>4, <1>5, PopPlaces, ParkPlaces, UnregisterPlaces, FlushPlaces
     DEF WorkerStep
<1>6. CASE SinkStep
  BY <1>6, IdlePlaces DEF SinkStep, SinkJoin, SinkDrain, SinkGone
<1>7. CASE \/ AdoptSink \/ CtrlEmpty \/ PumpSent \/ PumpBlocked \/ PumpError
           \/ CheckLow \/ ResumePush \/ Take \/ HandleEvents \/ WaitTimeout
  <2>1. /\ \/ apc' = apc
           \/ apc \notin {"push", "add"} /\ apc' \notin {"push", "add"}
           \/ apc = "push" /\ apc' = "add"
        /\ UNCHANGED <<live, epoll, queue, parkList, wpc, wconn, aconn, addFailed>>
    BY <1>7 DEF AdoptSink, CtrlEmpty, PumpSent, PumpBlocked, PumpError, CheckLow,
                ResumePush, Take, HandleEvents, WaitTimeout
  <2> QED
    BY <2>1, IdlePlaces
<1>8. CASE AggStep
  BY <1>7, <1>8, UnparkPlaces, ResumePlaces DEF AggStep
<1>9. CASE UNCHANGED vars
  BY <1>9, IdlePlaces DEF vars
<1> QED
  BY <1>1, <1>2, <1>5, <1>6, <1>8, <1>9 DEF Next

\* A source that is in one place, or in none, is owned once.
LEMMA OwnedFromPlaces == TypeOK /\ PlaceInv => OwnedOnce
<1> SUFFICES ASSUME PlaceInv, NEW s \in Sources
             PROVE  /\ \A p, q \in Places(s) : p = q
                    /\ Places(s) = {} => ~live[s] \/ s \in addFailed
                    /\ Places(s) # {} => live[s]
  BY DEF OwnedOnce
<1>1. PlacesApart(s)
  BY DEF PlaceInv
<1>2. \A w \in Owners(s) : Owned(s) /\ InWorker(s)
  BY DEF Owners, Owned, InWorker
<1>3. \A i \in DOMAIN queue : queue[i] = s => Queued(s)
  BY DEF Queued, Range
<1>4. \A i \in DOMAIN parkList : parkList[i] = s => Parked(s)
  BY DEF Parked, Range
<1>5. \A v, w \in Owners(s) : v = w
  BY ConnAssumption DEF Owners, PlaceInv, HolderPcs
<1>6. \A i, j \in DOMAIN queue : queue[i] = s /\ queue[j] = s => i = j
  BY DEF PlaceInv, HolderPcs, IsInjective
<1>7. \A i, j \in DOMAIN parkList : parkList[i] = s /\ parkList[j] = s => i = j
  BY DEF PlaceInv, HolderPcs, IsInjective
<1>8. \A p \in Places(s) :
        \/ Armed(s) /\ p = <<"epoll", 0>>
        \/ Queued(s) /\ \E i \in DOMAIN queue : queue[i] = s /\ p = <<"queue", i>>
        \/ Owned(s) /\ InWorker(s) /\ \E w \in Owners(s) : p = <<"worker", w>>
        \/ Parked(s) /\ \E i \in DOMAIN parkList : parkList[i] = s /\ p = <<"parked", i>>
        \/ aconn = s /\ p = <<"aggregator", 0>>
  BY <1>2, <1>3, <1>4 DEF Places
<1>9. /\ ~(Armed(s) /\ Queued(s)) /\ ~(Armed(s) /\ InWorker(s))
      /\ ~(Armed(s) /\ Parked(s)) /\ ~(Armed(s) /\ aconn = s)
      /\ ~(Queued(s) /\ InWorker(s)) /\ ~(Queued(s) /\ Parked(s))
      /\ ~(Queued(s) /\ aconn = s) /\ ~(Owned(s) /\ Parked(s))
      /\ ~(Owned(s) /\ aconn = s) /\ ~(Parked(s) /\ aconn = s)
  BY <1>1 DEF PlacesApart, Armed
<1>10. \A p, q \in Places(s) : p = q
  BY <1>5, <1>6, <1>7, <1>8, <1>9
<1>11. Places(s) # {} => live[s]
  BY <1>1, <1>8 DEF PlacesApart
<1>12. ASSUME Places(s) = {} PROVE ~live[s] \/ s \in addFailed
  <2>1. ~Armed(s) /\ aconn # s
    BY <1>12 DEF Places
  <2>2. ~Owned(s)
    BY <1>12 DEF Places, Owners, Owned
  <2>3. ~Queued(s)
    <3> SUFFICES ASSUME Queued(s) PROVE FALSE
      OBVIOUS
    <3>1. PICK i \in DOMAIN queue : queue[i] = s
      BY DEF Queued, Range
    <3>2. <<"queue", i>> \in Places(s)
      BY <3>1 DEF Places
    <3> QED
      BY ONLY <1>12, <3>2
  <2>4. ~Parked(s)
    <3> SUFFICES ASSUME Parked(s) PROVE FALSE
      OBVIOUS
    <3>1. PICK i \in DOMAIN parkList : parkList[i] = s
      BY DEF Parked, Range
    <3>2. <<"parked", i>> \in Places(s)
      BY <3>1 DEF Places
    <3> QED
      BY ONLY <1>12, <3>2
  <2> QED
    BY <1>1, <2>1, <2>2, <2>3, <2>4 DEF PlacesApart
<1> QED
  BY <1>10, <1>11, <1>12

\* No step reads from a parked source.
LEMMA StepPaused ==
    TypeOK /\ PlaceInv /\ [Next]_vars =>
        [\A s \in Sources : Parked(s) => recvd'[s] = recvd[s]]_vars
<1> SUFFICES ASSUME TypeOK, PlaceInv, Next, NEW s \in Sources, Parked(s)
             PROVE  recvd'[s] = recvd[s]
  OBVIOUS
<1> USE DEF peerVars, connVars, workerVars, aggVars, sinkVars
<1>1. ASSUME NEW w \in Workers, WorkerPop(w)
      PROVE  recvd'[s] = recvd[s]
  <2>0. queue # <<>> /\ queue \in Seq(Sources)
    BY <1>1 DEF WorkerPop, TypeOK
  <2>1. Head(queue) \in Sources /\ Head(queue) \in Range(queue)
    BY <2>0, TailElems
  <2>2. Head(queue) # s
    BY <2>1 DEF PlaceInv, PlacesApart, Queued
  <2>3. recvd' = [recvd EXCEPT ![Head(queue)] = sent[Head(queue)]]
    BY <1>1 DEF WorkerPop
  <2> QED
    BY <2>2, <2>3 DEF TypeOK
<1>2. ASSUME NEW w \in Workers, WorkerStep(w), ~WorkerPop(w)
      PROVE  recvd' = recvd
  BY <1>2 DEF WorkerStep, ParseControl, CommitPush, CommitPark, Push, Park,
              Unregister, FlushAll, FlushSome, FlushError
<1>3. CASE \E x \in Sources : PeerStep(x) \/ ListenerPush(x)
  BY <1>3 DEF PeerStep, PeerSend, PeerClose, PeerDrain, ListenerPush
<1>4. CASE SinkStep
  BY <1>4 DEF SinkStep, SinkJoin, SinkDrain, SinkGone
<1>5. CASE AggStep
  BY <1>5 DEF AggStep, AdoptSink, CtrlEmpty, PumpSent, PumpBlocked, PumpError,
              CheckLow, Unpark, ResumePush, ResumeAdd, Take, HandleEvents, WaitTimeout
<1> QED
  BY <1>1, <1>2, <1>3, <1>4, <1>5 DEF Next

-----------------------------------------------------------------------------
(* Facts about the operators *)

\* A number of messages is a natural number.
LEMMA MessagesInType ==
    ASSUME NEW s \in Sources, NEW k \in Nat
    PROVE  MessagesIn(s, k) \in Nat
<1> DEFINE D == {j \in 1..k : Script[s][j] = "data"}
<1>1. IsFiniteSet(1..k)
  BY FS_Interval
<1>2. IsFiniteSet(D)
  BY <1>1, FS_Subset
<1>3. Cardinality(D) \in Nat
  BY <1>2, FS_CardinalityType
<1> QED
  BY <1>3 DEF MessagesIn

\* No more threads push than there are: the workers and the aggregator.
LEMMA PushersCount ==
    ASSUME NEW S, S \subseteq Workers \cup {NoConn}
    PROVE  /\ IsFiniteSet(S)
           /\ Cardinality(S) \in Nat
           /\ Cardinality(Workers) \in Nat
           /\ Cardinality(S) <= Cardinality(Workers) + 1
<1>1. /\ IsFiniteSet(Workers \cup {NoConn})
      /\ Cardinality(Workers \cup {NoConn}) = Cardinality(Workers) + 1
  BY FS_AddElement, WorkerAssumption, ConnAssumption
<1>2. /\ IsFiniteSet(S)
      /\ Cardinality(S) <= Cardinality(Workers \cup {NoConn})
  BY <1>1, FS_Subset
<1>3. Cardinality(S) \in Nat /\ Cardinality(Workers) \in Nat
  BY <1>2, FS_CardinalityType, WorkerAssumption
<1> QED
  BY <1>1, <1>2, <1>3

-----------------------------------------------------------------------------
(* Types *)

\* An empty sequence of messages is one.
LEMMA EmptyTyped == \A p : p = <<>> => p \in Seq(Msgs) /\ Len(p) <= 1
  OBVIOUS

\* Initially every variable has its type and no handler runs.
LEMMA InitTyped == Init => TypeOK /\ ConnInHand
<1> SUFFICES ASSUME Init PROVE TypeOK /\ ConnInHand
  OBVIOUS
<1>1. queue \in Seq(Sources) /\ parkList \in Seq(Sources)
  BY DEF Init
<1>2. /\ dataQueue \in Seq(Msgs) /\ delivered \in Seq(Msgs)
      /\ pending \in Seq(Msgs) /\ Len(pending) <= 1
  BY EmptyTyped DEF Init
<1>3. TypeOK
  BY <1>1, <1>2 DEF Init, TypeOK
<1>4. ConnInHand
  BY DEF Init, ConnInHand
<1> QED
  BY <1>3, <1>4

\* Every step keeps the types, and gives a connection to a thread before the
\* thread handles it.
LEMMA StepTyped == TypeOK /\ ConnInHand /\ [Next]_vars => TypeOK' /\ ConnInHand'
<1> SUFFICES ASSUME TypeOK, ConnInHand, [Next]_vars
             PROVE  TypeOK' /\ ConnInHand'
  OBVIOUS
<1> USE DEF TypeOK, ConnInHand, peerVars, connVars, workerVars, sinkVars, aggVars
<1>1. ASSUME NEW s \in Sources, PeerSend(s)
     PROVE  TypeOK' /\ ConnInHand'
  <2>1. sent' = [sent EXCEPT ![s] = sent[s] + 1] /\ sent \in [Sources -> Nat]
    BY <1>1 DEF PeerSend
  <2>2. sent' \in [Sources -> Nat]
    BY ONLY <2>1, s \in Sources
  <2>3. UNCHANGED <<wpc, wconn, apc, aconn>>
    BY <1>1 DEF PeerSend
  <2>4. TypeOK'
    BY <1>1, <2>2 DEF PeerSend
  <2>5. ConnInHand'
    BY ONLY ConnInHand, <2>3 DEF ConnInHand
  <2> QED
    BY ONLY <2>4, <2>5
<1>2. ASSUME NEW s \in Sources, PeerClose(s)
     PROVE  TypeOK' /\ ConnInHand'
  BY <1>2 DEF PeerClose
<1>3. ASSUME NEW s \in Sources, PeerDrain(s)
     PROVE  TypeOK' /\ ConnInHand'
  BY <1>3 DEF PeerDrain
<1>4. ASSUME NEW s \in Sources, ListenerPush(s)
     PROVE  TypeOK' /\ ConnInHand'
  <2>1. queue' \in Seq(Sources)
    BY <1>4 DEF ListenerPush
  <2>2. epoll' = [epoll EXCEPT ![s] = "off"] /\ epoll \in [Sources -> {"in", "inout", "off", "absent"}]
    BY <1>4 DEF ListenerPush
  <2>3. epoll' \in [Sources -> {"in", "inout", "off", "absent"}]
    BY ONLY <2>2
  <2>4. UNCHANGED <<wpc, wconn, apc, aconn>>
    BY <1>4 DEF ListenerPush
  <2>5. TypeOK'
    BY <1>4, <2>1, <2>3 DEF ListenerPush
  <2>6. ConnInHand'
    BY ONLY ConnInHand, <2>4 DEF ConnInHand
  <2> QED
    BY ONLY <2>5, <2>6
<1>5. ASSUME NEW w \in Workers, WorkerPop(w)
     PROVE  TypeOK' /\ ConnInHand'
  <2>1. Head(queue) \in Sources /\ Tail(queue) \in Seq(Sources)
    BY <1>5 DEF WorkerPop
  <2>2. TypeOK'
    BY <1>5, <2>1 DEF WorkerPop
  <2>3. ConnInHand'
    BY <1>5, <2>1 DEF WorkerPop
  <2> QED
    BY <2>2, <2>3
<1>6. ASSUME NEW w \in Workers, ParseControl(w)
     PROVE  TypeOK' /\ ConnInHand'
  <2>1. wconn[w] \in Sources
    BY <1>6 DEF ParseControl, Parsing
  <2>2. tx' \in [Sources -> {"empty", "queued", "blocked"}]
    <3>1. tx' = tx \/ QueueReply(wconn[w])
      BY <1>6 DEF ParseControl
    <3>2. ASSUME QueueReply(wconn[w])
          PROVE  tx' = tx \/ tx' = [tx EXCEPT ![wconn[w]] = "queued"]
      BY <2>1, <3>2 DEF QueueReply
    <3> QED
      BY <3>1, <3>2
  <2>3. parsed' \in [Sources -> Nat] /\ closing' \in [Sources -> BOOLEAN]
    <3>1. PICK x \in Sources : x = wconn[w]
      BY <2>1
    <3>2. /\ parsed \in [Sources -> Nat] /\ closing \in [Sources -> BOOLEAN]
          /\ parsed' = [parsed EXCEPT ![x] = parsed[x] + 1]
      BY <1>6, <3>1 DEF ParseControl, Parsing
    <3>3. closing' = [closing EXCEPT ![x] = (NextFrame(x) = "close")]
      BY <1>6, <3>1 DEF ParseControl
    <3>4. parsed' \in [Sources -> Nat]
      BY ONLY <3>2, x \in Sources
    <3>5. closing' \in [Sources -> BOOLEAN]
      BY ONLY <3>2, <3>3, x \in Sources
    <3> QED
      BY <3>4, <3>5
  <2>4. TypeOK'
    BY <1>6, <2>1, <2>2, <2>3 DEF ParseControl, Parsing, QueueReply
  <2>5. ConnInHand'
    BY <1>6, <2>1, <2>2, <2>3 DEF ParseControl, Parsing, QueueReply
  <2> QED
    BY <2>4, <2>5
<1>7. ASSUME NEW w \in Workers, CommitPush(w)
     PROVE  TypeOK' /\ ConnInHand'
  <2>1. wconn[w] \in Sources /\ parsed[wconn[w]] + 1 \in Nat
    BY <1>7 DEF CommitPush, Parsing
  <2>2. MessagesIn(wconn[w], parsed[wconn[w]] + 1) \in Nat
    BY <2>1, MessagesInType
  <2>3. parsed' \in [Sources -> Nat] /\ wmsg' \in [Workers -> Nat]
    BY <1>7, <2>1, <2>2 DEF CommitPush, Parsing
  <2>4. wpc' \in [Workers -> {"pop", "parse", "push", "park", "del"}]
    BY <1>7 DEF CommitPush
  <2>5. TypeOK'
    BY <1>7, <2>1, <2>2, <2>3, <2>4 DEF CommitPush, Parsing
  <2>6. ConnInHand'
    BY <1>7, <2>1, <2>2, <2>3, <2>4 DEF CommitPush, Parsing
  <2> QED
    BY <2>5, <2>6
<1>8. ASSUME NEW w \in Workers, Push(w)
     PROVE  TypeOK' /\ ConnInHand'
  <2>1. <<wconn[w], wmsg[w]>> \in Msgs
    BY <1>8 DEF Push, Msgs
  <2>2. dataQueue' \in Seq(Msgs)
    BY <1>8, <2>1 DEF Push
  <2>3. wmsg' \in [Workers -> Nat]
    BY <1>8 DEF Push
  <2>4. wpc' \in [Workers -> {"pop", "parse", "push", "park", "del"}]
    BY <1>8 DEF Push
  <2>5. TypeOK'
    BY <1>8, <2>1, <2>2, <2>3, <2>4 DEF Push
  <2>6. ConnInHand'
    BY <1>8, <2>1, <2>2, <2>3, <2>4 DEF Push
  <2> QED
    BY <2>5, <2>6
<1>9. ASSUME NEW w \in Workers, CommitPark(w)
     PROVE  TypeOK' /\ ConnInHand'
  <2>1. wconn[w] \in Sources /\ parsed[wconn[w]] + 1 \in Nat
    BY <1>9 DEF CommitPark, Parsing
  <2>2. MessagesIn(wconn[w], parsed[wconn[w]] + 1) \in Nat
    BY <2>1, MessagesInType
  <2>3. parsed' \in [Sources -> Nat] /\ pendingMsg' \in [Sources -> Nat]
    BY <1>9, <2>1, <2>2 DEF CommitPark, Parsing
  <2>4. wpc' \in [Workers -> {"pop", "parse", "push", "park", "del"}]
    BY <1>9 DEF CommitPark
  <2>5. TypeOK'
    BY <1>9, <2>1, <2>2, <2>3, <2>4 DEF CommitPark, Parsing
  <2>6. ConnInHand'
    BY <1>9, <2>1, <2>2, <2>3, <2>4 DEF CommitPark, Parsing
  <2> QED
    BY <2>5, <2>6
<1>10. ASSUME NEW w \in Workers, Park(w)
     PROVE  TypeOK' /\ ConnInHand'
  <2>1. wconn[w] \in Sources
    BY <1>10 DEF Park
  <2>2. parkList' \in Seq(Sources)
    BY <1>10, <2>1 DEF Park
  <2>3. wpc' \in [Workers -> {"pop", "parse", "push", "park", "del"}]
    BY <1>10 DEF Park
  <2>4. TypeOK'
    BY <1>10, <2>1, <2>2, <2>3 DEF Park
  <2>5. ConnInHand'
    BY <1>10, <2>1, <2>2, <2>3 DEF Park
  <2> QED
    BY <2>4, <2>5
<1>11. ASSUME NEW w \in Workers, Unregister(w)
     PROVE  TypeOK' /\ ConnInHand'
  BY <1>11 DEF Unregister, Release
<1>12. ASSUME NEW w \in Workers, FlushAll(w)
     PROVE  TypeOK' /\ ConnInHand'
  BY <1>12 DEF FlushAll, ParsedAll, Release
<1>13. ASSUME NEW w \in Workers, FlushSome(w)
     PROVE  TypeOK' /\ ConnInHand'
  BY <1>13 DEF FlushSome, ParsedAll, Release
<1>14. ASSUME NEW w \in Workers, FlushError(w)
     PROVE  TypeOK' /\ ConnInHand'
  BY <1>14 DEF FlushError, ParsedAll, Release
<1>15. ASSUME SinkJoin
     PROVE  TypeOK' /\ ConnInHand'
  <2>1. joined' \in Nat /\ wake' \in BOOLEAN
    BY <1>15 DEF SinkJoin
  <2>2. UNCHANGED <<wpc, wconn, apc, aconn>>
    BY <1>15 DEF SinkJoin
  <2>3. TypeOK'
    BY <1>15, <2>1 DEF SinkJoin
  <2>4. ConnInHand'
    BY ONLY ConnInHand, <2>2 DEF ConnInHand
  <2> QED
    BY ONLY <2>3, <2>4
<1>16. ASSUME SinkDrain
     PROVE  TypeOK' /\ ConnInHand'
  BY <1>16 DEF SinkDrain
<1>17. ASSUME SinkGone
     PROVE  TypeOK' /\ ConnInHand'
  <2>1. sinkState' \in {"ok", "full", "gone"}
    BY <1>17 DEF SinkGone
  <2>2. UNCHANGED <<wpc, wconn, apc, aconn>>
    BY <1>17 DEF SinkGone
  <2>3. TypeOK'
    BY <1>17, <2>1 DEF SinkGone
  <2>4. ConnInHand'
    BY ONLY ConnInHand, <2>2 DEF ConnInHand
  <2> QED
    BY ONLY <2>3, <2>4
<1>18. ASSUME AdoptSink
     PROVE  TypeOK' /\ ConnInHand'
  <2>1. adopted' \in Nat /\ sink' \in Nat /\ sinkState' \in {"ok", "full", "gone"}
    BY <1>18 DEF AdoptSink
  <2>2. pending' \in Seq(Msgs) /\ Len(pending') <= 1
    BY <1>18, EmptyTyped DEF AdoptSink
  <2>3. UNCHANGED <<wpc, wconn, apc, aconn>>
    BY <1>18 DEF AdoptSink
  <2>4. TypeOK'
    BY <1>18, <2>1, <2>2 DEF AdoptSink
  <2>5. ConnInHand'
    BY ONLY ConnInHand, <2>3 DEF ConnInHand
  <2> QED
    BY ONLY <2>4, <2>5
<1>19. ASSUME CtrlEmpty
     PROVE  TypeOK' /\ ConnInHand'
  BY <1>19 DEF CtrlEmpty
<1>20. ASSUME PumpSent
     PROVE  TypeOK' /\ ConnInHand'
  <2>1. pending' \in Seq(Msgs) /\ Len(pending') <= 1
    BY <1>20, EmptyTyped DEF PumpSent
  <2>2. delivered' \in Seq(Msgs)
    BY <1>20 DEF PumpSent
  <2>3. TypeOK'
    BY <1>20, <2>1, <2>2 DEF PumpSent
  <2>4. ConnInHand'
    BY <1>20, <2>1, <2>2 DEF PumpSent
  <2> QED
    BY <2>3, <2>4
<1>21. ASSUME PumpBlocked
     PROVE  TypeOK' /\ ConnInHand'
  BY <1>21 DEF PumpBlocked
<1>22. ASSUME PumpError
     PROVE  TypeOK' /\ ConnInHand'
  BY <1>22 DEF PumpError, CloseSink
<1>23. ASSUME CheckLow
     PROVE  TypeOK' /\ ConnInHand'
  BY <1>23 DEF CheckLow
<1>24. ASSUME Unpark
     PROVE  TypeOK' /\ ConnInHand'
  <2>1. parkList # <<>> => Head(parkList) \in Sources /\ Tail(parkList) \in Seq(Sources)
    OBVIOUS
  <2>2. \/ parkList' = parkList /\ aconn' = aconn /\ apc' = "take"
        \/ parkList # <<>> /\ parkList' = Tail(parkList) /\ aconn' = Head(parkList) /\ apc' = "push"
    BY <1>24 DEF Unpark
  <2>3. parkList' \in Seq(Sources)
    BY <2>1, <2>2
  <2>4. /\ aconn' \in Sources \cup {NoConn}
        /\ apc' \in {"push", "add"} => aconn' \in Sources
    BY <2>1, <2>2
  <2>5. TypeOK'
    BY <1>24, <2>1, <2>2, <2>3, <2>4 DEF Unpark
  <2>6. ConnInHand'
    BY <1>24, <2>1, <2>2, <2>3, <2>4 DEF Unpark
  <2> QED
    BY <2>5, <2>6
<1>25. ASSUME ResumePush
     PROVE  TypeOK' /\ ConnInHand'
  <2>1. <<aconn, pendingMsg[aconn]>> \in Msgs
    BY <1>25 DEF ResumePush, Msgs
  <2>2. TypeOK'
    <3>1. dataQueue' \in Seq(Msgs)
      BY <1>25, <2>1 DEF ResumePush
    <3>2. pendingMsg' \in [Sources -> Nat]
      BY <1>25 DEF ResumePush
    <3> QED
      BY <1>25, <3>1, <3>2 DEF ResumePush
  <2>3. ConnInHand'
    BY <1>25, <2>1 DEF ResumePush
  <2> QED
    BY <2>2, <2>3
<1>26. ASSUME ResumeAdd
     PROVE  TypeOK' /\ ConnInHand'
  <2>1. aconn \in Sources
    BY <1>26 DEF ResumeAdd
  <2>2. epoll' \in [Sources -> {"in", "inout", "off", "absent"}]
    <3>1. \/ epoll' = epoll
          \/ epoll' = [epoll EXCEPT ![aconn] = "in"]
          \/ epoll' = [epoll EXCEPT ![aconn] = "inout"]
      BY <1>26 DEF ResumeAdd
    <3> QED
      BY <3>1
  <2>3. addFailed' \subseteq Sources
    BY <1>26, <2>1 DEF ResumeAdd
  <2>4. /\ aconn' = NoConn /\ apc' = "take"
        /\ UNCHANGED <<peerVars, connVars, queue, dataQueue, parkList, wake,
                       workerVars, sinkVars>>
    BY <1>26 DEF ResumeAdd
  <2> QED
    BY <2>2, <2>3, <2>4
<1>27. ASSUME Take
     PROVE  TypeOK' /\ ConnInHand'
  <2>1. dataQueue # <<>> => Head(dataQueue) \in Msgs /\ Tail(dataQueue) \in Seq(Msgs)
    OBVIOUS
  <2>2. \/ dataQueue' = dataQueue /\ pending' = pending /\ apc' = "wait"
        \/ dataQueue # <<>> /\ dataQueue' = Tail(dataQueue) /\ pending' = <<Head(dataQueue)>> /\ apc' = "pump"
    BY <1>27 DEF Take
  <2>3. dataQueue' \in Seq(Msgs)
    BY <2>1, <2>2
  <2>4. dataQueue # <<>> => <<Head(dataQueue)>> \in Seq(Msgs) /\ Len(<<Head(dataQueue)>>) <= 1
    BY <2>1
  <2>5. pending' \in Seq(Msgs) /\ Len(pending') <= 1
    BY <2>2, <2>4
  <2>6. TypeOK'
    BY <1>27, <2>1, <2>2, <2>3, <2>4, <2>5 DEF Take
  <2>7. ConnInHand'
    BY <1>27, <2>1, <2>2, <2>3, <2>4, <2>5 DEF Take
  <2> QED
    BY <2>6, <2>7
<1>28. ASSUME HandleEvents
     PROVE  TypeOK' /\ ConnInHand'
  <2>1. \/ sink' = 0 /\ pending' = <<>> /\ sinkState' = "ok"
        \/ UNCHANGED <<pending, sink, sinkState>>
    BY <1>28 DEF HandleEvents, CloseSink
  <2>2. pending' \in Seq(Msgs) /\ Len(pending') <= 1
    BY <2>1, EmptyTyped
  <2>3. sink' \in Nat /\ sinkState' \in {"ok", "full", "gone"}
    BY <2>1
  <2>4. TypeOK'
    BY <1>28, <2>1, <2>2, <2>3 DEF HandleEvents, CloseSink
  <2>5. ConnInHand'
    BY <1>28, <2>1, <2>2, <2>3 DEF HandleEvents, CloseSink
  <2> QED
    BY <2>4, <2>5
<1>29. ASSUME WaitTimeout
     PROVE  TypeOK' /\ ConnInHand'
  BY <1>29 DEF WaitTimeout
<1>30. CASE UNCHANGED vars
  BY <1>30 DEF vars
<1> QED
  BY <1>1, <1>2, <1>3, <1>4, <1>5, <1>6, <1>7, <1>8, <1>9, <1>10, <1>11, <1>12, <1>13, <1>14, <1>15, <1>16, <1>17, <1>18, <1>19, <1>20, <1>21, <1>22, <1>23, <1>24, <1>25, <1>26, <1>27, <1>28, <1>29, <1>30
     DEF Next, PeerStep, WorkerStep, SinkStep, AggStep

-----------------------------------------------------------------------------
(* The bound of the data queue *)

\* Pushers is a set of threads, before and after a step.
LEMMA PushersAreThreads ==
    /\ Pushers \subseteq Workers \cup {NoConn}
    /\ Pushers' \subseteq Workers \cup {NoConn}
  BY DEF Pushers

\* A step that adds neither a message nor a thread about to push keeps the room.
LEMMA RoomKept ==
    ASSUME TypeOK, TypeOK', RoomForPushers,
           Len(dataQueue') <= Len(dataQueue), Pushers' \subseteq Pushers
    PROVE  RoomForPushers'
<1>1. /\ IsFiniteSet(Pushers) /\ Cardinality(Pushers) \in Nat
      /\ Cardinality(Pushers') \in Nat /\ Cardinality(Workers) \in Nat
  BY PushersAreThreads, PushersCount
<1>2. Cardinality(Pushers') <= Cardinality(Pushers)
  BY <1>1, FS_Subset
<1>3. dataQueue \in Seq(Msgs) /\ dataQueue' \in Seq(Msgs)
  BY DEF TypeOK
<1>4. Len(dataQueue) \in Nat /\ Len(dataQueue') \in Nat
  BY <1>3
<1> QED
  BY <1>1, <1>2, <1>4, WatermarkAssumption DEF RoomForPushers

\* A thread that saw the queue below the high watermark may become a pusher.
LEMMA RoomSeen ==
    ASSUME TypeOK', Len(dataQueue') < HWM
    PROVE  RoomForPushers'
<1>1. /\ Cardinality(Pushers') \in Nat /\ Cardinality(Workers) \in Nat
      /\ Cardinality(Pushers') <= Cardinality(Workers) + 1
  BY PushersAreThreads, PushersCount
<1>2. Len(dataQueue') \in Nat
  BY DEF TypeOK
<1> QED
  BY <1>1, <1>2, WatermarkAssumption DEF RoomForPushers

\* A push uses the room its thread had.
LEMMA RoomUsed ==
    ASSUME TypeOK, RoomForPushers, NEW x \in Pushers,
           Len(dataQueue') = Len(dataQueue) + 1, Pushers' = Pushers \ {x}
    PROVE  RoomForPushers'
<1>1. /\ IsFiniteSet(Pushers) /\ Cardinality(Pushers) \in Nat
      /\ Cardinality(Workers) \in Nat
  BY PushersAreThreads, PushersCount
<1>2. Cardinality(Pushers') = Cardinality(Pushers) - 1
  BY <1>1, FS_RemoveElement
<1>3. Len(dataQueue) \in Nat
  BY DEF TypeOK
<1> QED
  BY <1>1, <1>2, <1>3, WatermarkAssumption DEF RoomForPushers

\* Initially the queue is empty and nobody pushes.
LEMMA InitRoom == Init => RoomForPushers
<1> SUFFICES ASSUME Init PROVE RoomForPushers
  OBVIOUS
<1>1. Pushers = {} /\ Len(dataQueue) = 0
  BY DEF Init, Pushers
<1>2. Cardinality(Pushers) = 0 /\ Cardinality(Workers) \in Nat
  BY <1>1, FS_EmptySet, FS_CardinalityType, WorkerAssumption
<1> QED
  BY <1>1, <1>2, WatermarkAssumption DEF RoomForPushers

\* Every step leaves room for the pushes to come.
LEMMA StepRoom == IndInv /\ TypeOK' /\ [Next]_vars => RoomForPushers'
<1> SUFFICES ASSUME TypeOK, ConnInHand, RoomForPushers, TypeOK', [Next]_vars
             PROVE  RoomForPushers'
  BY DEF IndInv
<1>1. ASSUME UNCHANGED <<wpc, apc, dataQueue>>
      PROVE  RoomForPushers'
  <2>1. Pushers' = Pushers /\ Len(dataQueue') <= Len(dataQueue)
    BY <1>1 DEF Pushers, TypeOK
  <2> QED
    BY <2>1, RoomKept
<1>2. ASSUME NEW s \in Sources, PeerStep(s) \/ ListenerPush(s)
      PROVE  RoomForPushers'
  BY <1>1, <1>2 DEF PeerStep, PeerSend, PeerClose, PeerDrain, ListenerPush,
                    workerVars, aggVars
<1>3. ASSUME NEW w \in Workers, NEW pc \in {"pop", "parse", "park", "del"},
             wpc' = [wpc EXCEPT ![w] = pc], UNCHANGED <<apc, dataQueue>>
      PROVE  RoomForPushers'
  <2>1. Pushers' \subseteq Pushers
    BY <1>3 DEF Pushers, TypeOK
  <2>2. Len(dataQueue') <= Len(dataQueue)
    BY <1>3 DEF TypeOK
  <2> QED
    BY <2>1, <2>2, RoomKept
<1>4. ASSUME NEW w \in Workers,
             \/ WorkerPop(w) \/ CommitPark(w) \/ Park(w) \/ Unregister(w)
             \/ FlushAll(w) \/ FlushSome(w) \/ FlushError(w)
      PROVE  RoomForPushers'
  <2>1. /\ \E pc \in {"pop", "parse", "park", "del"} : wpc' = [wpc EXCEPT ![w] = pc]
        /\ UNCHANGED <<apc, dataQueue>>
    BY <1>4 DEF WorkerPop, CommitPark, Park, Unregister, FlushAll, FlushSome,
                FlushError, Release, aggVars
  <2> QED
    BY <2>1, <1>3
<1>5. ASSUME NEW w \in Workers, ParseControl(w)
      PROVE  RoomForPushers'
  BY <1>1, <1>5 DEF ParseControl, workerVars, aggVars
<1>6. ASSUME NEW w \in Workers, CommitPush(w)
      PROVE  RoomForPushers'
  <2>1. Len(dataQueue') < HWM
    BY <1>6 DEF CommitPush
  <2> QED
    BY <2>1, RoomSeen
<1>7. ASSUME NEW w \in Workers, Push(w)
      PROVE  RoomForPushers'
  <2>1. w \in Pushers /\ w # NoConn
    BY <1>7, ConnAssumption DEF Push, Pushers
  <2>2. Pushers' = Pushers \ {w}
    BY <1>7, <2>1 DEF Push, Pushers, TypeOK, aggVars
  <2>3. Len(dataQueue') = Len(dataQueue) + 1
    BY <1>7 DEF Push, TypeOK
  <2> QED
    BY <2>1, <2>2, <2>3, RoomUsed
<1>8. CASE SinkStep
  BY <1>1, <1>8 DEF SinkStep, SinkJoin, SinkDrain, SinkGone, workerVars, aggVars
<1>9. ASSUME NEW pc \in {"ctrl", "pump", "take", "wait", "add"},
             apc' = pc, UNCHANGED <<wpc, dataQueue>>
      PROVE  RoomForPushers'
  <2>1. Pushers' \subseteq Pushers
    BY <1>9 DEF Pushers
  <2>2. Len(dataQueue') <= Len(dataQueue)
    BY <1>9 DEF TypeOK
  <2> QED
    BY <2>1, <2>2, RoomKept
<1>10. CASE \/ CtrlEmpty \/ PumpBlocked \/ PumpError \/ ResumeAdd
            \/ HandleEvents \/ WaitTimeout
  <2>1. /\ \E pc \in {"ctrl", "pump", "take", "wait", "add"} : apc' = pc
        /\ UNCHANGED <<wpc, dataQueue>>
    BY <1>10 DEF CtrlEmpty, PumpBlocked, PumpError, ResumeAdd, HandleEvents,
                 WaitTimeout, workerVars
  <2> QED
    BY <2>1, <1>9
<1>11. CASE AdoptSink \/ PumpSent
  BY <1>1, <1>11 DEF AdoptSink, PumpSent, workerVars, aggVars
<1>12. CASE CheckLow
  <2>1. CASE Len(dataQueue) <= LWM
    <3>1. Len(dataQueue') < HWM
      BY <1>12, <2>1, WatermarkAssumption DEF CheckLow, TypeOK
    <3> QED
      BY <3>1, RoomSeen
  <2>2. CASE ~(Len(dataQueue) <= LWM)
    BY <1>9, <1>12, <2>2 DEF CheckLow, workerVars
  <2> QED
    BY <2>1, <2>2
<1>13. CASE Unpark
  <2>1. Pushers' \subseteq Pushers
    BY <1>13 DEF Unpark, Pushers, workerVars
  <2>2. Len(dataQueue') <= Len(dataQueue)
    BY <1>13 DEF Unpark, TypeOK
  <2> QED
    BY <2>1, <2>2, RoomKept
<1>14. CASE ResumePush
  <2>1. NoConn \in Pushers
    BY <1>14 DEF ResumePush, Pushers
  <2>2. Pushers' = Pushers \ {NoConn}
    BY <1>14, ConnAssumption DEF ResumePush, Pushers, workerVars
  <2>3. Len(dataQueue') = Len(dataQueue) + 1
    BY <1>14 DEF ResumePush, TypeOK
  <2> QED
    BY <2>1, <2>2, <2>3, RoomUsed
<1>15. CASE Take
  <2>1. Pushers' \subseteq Pushers
    BY <1>15 DEF Take, Pushers, workerVars
  <2>2. dataQueue # <<>> => Len(Tail(dataQueue)) <= Len(dataQueue)
    BY DEF TypeOK
  <2>3. Len(dataQueue') <= Len(dataQueue)
    BY <1>15, <2>2 DEF Take, TypeOK
  <2> QED
    BY <2>1, <2>3, RoomKept
<1>16. CASE UNCHANGED vars
  BY <1>1, <1>16 DEF vars, workerVars, aggVars
<1>17. ASSUME NEW w \in Workers, WorkerStep(w)
       PROVE  RoomForPushers'
  BY <1>4, <1>5, <1>6, <1>7, <1>17 DEF WorkerStep
<1>18. CASE AggStep
  BY <1>10, <1>11, <1>12, <1>13, <1>14, <1>15, <1>18 DEF AggStep
<1> QED
  BY <1>2, <1>8, <1>16, <1>17, <1>18 DEF Next

-----------------------------------------------------------------------------
(* The theorems *)

\* The inductive invariant: types, a connection in every busy thread's hand,
\* and room in the data queue for all pushes to come.
THEOREM Inductive == Spec => []IndInv
<1>1. Init => IndInv
  BY InitTyped, InitRoom DEF IndInv
<1>2. IndInv /\ [Next]_vars => IndInv'
  BY StepTyped, StepRoom DEF IndInv
<1> QED
  BY <1>1, <1>2, PTL DEF Spec

\* Every variable keeps its type: no thread handles a connection it does not
\* have, and the aggregator has at most one frame in flight (agg.h:77-81).
THEOREM TypeCorrect == Spec => []TypeOK
<1>1. IndInv => TypeOK
  BY DEF IndInv
<1> QED
  BY <1>1, Inductive, PTL

\* However the threads interleave, the data queue never holds more than the
\* high watermark and one message for each worker, although push() itself has
\* no limit and the size is read under a lock that is given up before the push.
THEOREM DataQueueBounded == Spec => []DataQueueBound
<1>1. IndInv => DataQueueBound
  <2> SUFFICES ASSUME IndInv PROVE DataQueueBound
    OBVIOUS
  <2>1. Cardinality(Pushers) \in Nat /\ Cardinality(Workers) \in Nat
    BY PushersAreThreads, PushersCount
  <2>2. Len(dataQueue) \in Nat
    BY DEF IndInv, TypeOK
  <2> QED
    BY <2>1, <2>2, WatermarkAssumption DEF IndInv, RoomForPushers, DataQueueBound
<1> QED
  BY <1>1, Inductive, PTL


\* The inductive invariant of the connections.
THEOREM PlacesInvariant == Spec => []PlaceInv
<1>1. IndInv => TypeOK /\ ConnInHand
  BY DEF IndInv
<1> QED
  BY <1>1, Inductive, InitPlaced, StepPlaced, PTL DEF Spec

\* One thread at a time works on a connection: EPOLLONESHOT, the work queue and
\* the park list pass it on, and even the worker that is still to unregister a
\* parked connection shares it with nobody. It is lost only when the ADD of its
\* resume fails.
THEOREM OwnedOnceAlways == Spec => []OwnedOnce
  BY OwnedFromPlaces, TypeCorrect, PlacesInvariant, PTL

\* While a source is parked nothing more is read from its socket: only a worker
\* reads, and only from a connection it took off the work queue, where a parked
\* one cannot be.
THEOREM PausedNotReadAlways == Spec => PausedNotRead
<1>1. IndInv => TypeOK
  BY DEF IndInv
<1> QED
  BY <1>1, StepPaused, Inductive, PlacesInvariant, PTL DEF Spec, PausedNotRead

-----------------------------------------------------------------------------
(* Pipeline implements FanIn. What a step does to the messages is one of   *)
(* six effects (Effect below): nothing, or a message is held back, queued, *)
(* picked, sent or dropped. That each step has one of them needs the       *)
(* invariants that say where a connection and its message are (PlaceInv,   *)
(* HoldInv); that each of them is a step of FanIn needs the order of the   *)
(* messages (OrderInv).                                                    *)

-----------------------------------------------------------------------------
(* Counting messages *)

\* No frames, no messages; a data frame completes one more, another frame none.
LEMMA MessagesCount ==
    ASSUME NEW s \in Sources
    PROVE  /\ MessagesIn(s, 0) = 0
           /\ \A k \in Nat : MessagesIn(s, k + 1) =
                  IF Script[s][k + 1] = "data" THEN MessagesIn(s, k) + 1 ELSE MessagesIn(s, k)
<1> DEFINE D(k) == {j \in 1..k : Script[s][j] = "data"}
<1>1. D(0) = {}
  OBVIOUS
<1>2. MessagesIn(s, 0) = 0
  BY <1>1, FS_EmptySet DEF MessagesIn
<1>3. ASSUME NEW k \in Nat
      PROVE  MessagesIn(s, k + 1) =
                 IF Script[s][k + 1] = "data" THEN MessagesIn(s, k) + 1 ELSE MessagesIn(s, k)
  <2>1. IsFiniteSet(1..k) /\ 1..(k + 1) = (1..k) \cup {k + 1} /\ k + 1 \notin 1..k
    BY FS_Interval
  <2>2. IsFiniteSet(D(k)) /\ k + 1 \notin D(k)
    BY <2>1, FS_Subset
  <2>3. CASE Script[s][k + 1] = "data"
    <3>1. D(k + 1) = D(k) \cup {k + 1}
      BY <2>1, <2>3
    <3>2. Cardinality(D(k + 1)) = Cardinality(D(k)) + 1
      BY <2>2, <3>1, FS_AddElement
    <3> QED
      BY <2>3, <3>2 DEF MessagesIn
  <2>4. CASE Script[s][k + 1] # "data"
    <3>1. D(k + 1) = D(k)
      BY <2>1, <2>4
    <3> QED
      BY <2>4, <3>1 DEF MessagesIn
  <2> QED
    BY <2>3, <2>4
<1> QED
  BY <1>2, <1>3

-----------------------------------------------------------------------------
(* What is held back *)

\* Initially nothing is held back.
LEMMA InitHeld == Init => HoldInv
<1> SUFFICES ASSUME Init PROVE HoldInv
  OBVIOUS
<1>1. Range(parkList) = {}
  BY DEF Init, Range
<1> QED
  BY <1>1 DEF Init, HoldInv, Armed, Queued, Parked

\* While a worker has a connection, nobody else has it.
LEMMA HolderAlone ==
    ASSUME PlaceInv, ConnInHand, NEW w \in Workers, wpc[w] \in {"parse", "push", "park"}
    PROVE  /\ wconn[w] \in Sources
           /\ ~Armed(wconn[w]) /\ ~Queued(wconn[w]) /\ ~Parked(wconn[w]) /\ aconn # wconn[w]
           /\ \A v \in Workers : v # w => wconn[v] # wconn[w]
<1> DEFINE x == wconn[w]
<1>1. x \in Sources
  BY DEF ConnInHand
<1>2. InWorker(x) /\ Owned(x)
  BY DEF InWorker, Owned
<1>3. PlacesApart(x)
  BY <1>1 DEF PlaceInv
<1>4. \A v \in Workers : v # w => wconn[v] # x
  BY <1>1, ConnAssumption DEF PlaceInv, HolderPcs
<1> QED
  BY <1>1, <1>2, <1>3, <1>4 DEF PlacesApart

\* The listener queues a connection that holds nothing back.
LEMMA ListenerHeld ==
    ASSUME TypeOK, PlaceInv, HoldInv, NEW x \in Sources, ListenerPush(x)
    PROVE  HoldInv'
<1> USE DEF workerVars, aggVars, connVars, sinkVars
<1>1. Range(queue') = Range(queue) \cup {x}
  BY AppendElems DEF ListenerPush, TypeOK
<1>2. epoll' = [epoll EXCEPT ![x] = "off"] /\ Armed(x)
  BY DEF ListenerPush
<1>3. ASSUME NEW s \in Sources, (Armed(s) \/ Queued(s))'
      PROVE  Armed(s) \/ Queued(s)
  BY <1>1, <1>2, <1>3 DEF TypeOK, Armed, Queued
<1>4. UNCHANGED <<pendingMsg, parkList, wpc, wconn, apc, aconn, pending, sink>>
  BY DEF ListenerPush
<1> QED
  BY <1>3, <1>4 DEF HoldInv, Parked

\* A worker takes a connection that holds nothing back.
LEMMA PopHeld ==
    ASSUME TypeOK, PlaceInv, HoldInv, NEW w \in Workers, WorkerPop(w)
    PROVE  HoldInv'
<1> DEFINE x == Head(queue)
<1> USE DEF workerVars, aggVars, connVars, sinkVars
<1>1. queue # <<>> /\ queue \in Seq(Sources)
  BY DEF WorkerPop, TypeOK
<1>2. x \in Range(queue) /\ x \in Sources /\ Range(Tail(queue)) \subseteq Range(queue)
  BY <1>1, TailElems
<1>3. /\ wconn' = [wconn EXCEPT ![w] = x] /\ wpc' = [wpc EXCEPT ![w] = "parse"]
      /\ queue' = Tail(queue)
      /\ UNCHANGED <<pendingMsg, epoll, parkList, apc, aconn, pending, sink>>
      /\ wconn \in [Workers -> Sources \cup {NoConn}]
      /\ wpc \in [Workers -> {"pop", "parse", "push", "park", "del"}]
  BY DEF WorkerPop, TypeOK
<1>4. pendingMsg[x] = 0
  BY <1>2 DEF HoldInv, Queued
<1> HIDE DEF x
<1>5. \A s \in Sources : (Armed(s) \/ Queued(s))' => Armed(s) \/ Queued(s)
  BY <1>2, <1>3 DEF Armed, Queued
<1> QED
  BY <1>3, <1>4, <1>5 DEF HoldInv, Parked

\* A worker holds a message back, and parks the connection with it.
LEMMA CommitHeld ==
    ASSUME TypeOK, ConnInHand, PlaceInv, HoldInv, NEW w \in Workers,
           CommitPush(w) \/ CommitPark(w) \/ Push(w) \/ Park(w)
    PROVE  HoldInv'
<1> DEFINE x == wconn[w]
<1> USE DEF workerVars, aggVars, connVars, sinkVars
<1>1. wpc[w] \in {"parse", "push", "park"}
  BY DEF CommitPush, CommitPark, Push, Park, Parsing
<1>2. /\ x \in Sources
      /\ ~Armed(x) /\ ~Queued(x) /\ ~Parked(x) /\ aconn # x
      /\ \A v \in Workers : v # w => wconn[v] # x
  BY <1>1, HolderAlone
<1>3. UNCHANGED <<queue, epoll, wconn, apc, aconn, pending, sink>>
  BY DEF CommitPush, CommitPark, Push, Park
<1>4. /\ wpc \in [Workers -> {"pop", "parse", "push", "park", "del"}]
      /\ pendingMsg \in [Sources -> Nat] /\ parkList \in Seq(Sources)
      /\ parsed \in [Sources -> Nat]
  BY DEF TypeOK
<1>5. CASE CommitPush(w) \/ Push(w)
  <2>1. PICK pc \in {"parse", "push"} :
          wpc' = [wpc EXCEPT ![w] = pc] /\ wpc[w] \in {"parse", "push"}
          /\ UNCHANGED <<pendingMsg, parkList>>
    BY <1>5 DEF CommitPush, Push, Parsing
  <2> QED
    BY <1>3, <1>4, <2>1 DEF HoldInv, Armed, Queued, Parked
<1>6. CASE CommitPark(w)
  <2>1. /\ pendingMsg' = [pendingMsg EXCEPT ![x] = MessagesIn(x, parsed[x] + 1)]
        /\ wpc' = [wpc EXCEPT ![w] = "park"] /\ parkList' = parkList
        /\ HasFrame(x) /\ NextFrame(x) = "data" 
    BY <1>6 DEF CommitPark, Parsing
  <2>2. MessagesIn(x, parsed[x] + 1) # 0
    <3>1. parsed[x] \in Nat /\ MessagesIn(x, parsed[x]) \in Nat
      BY <1>2, <1>4, MessagesInType
    <3>2. MessagesIn(x, parsed[x] + 1) = MessagesIn(x, parsed[x]) + 1
      BY <1>2, <2>1, <3>1, MessagesCount DEF NextFrame
    <3> QED
      BY <3>1, <3>2
  <2>3. pendingMsg'[x] # 0 /\ \A s \in Sources : s # x => pendingMsg'[s] = pendingMsg[s]
    BY <1>2, <1>4, <2>1, <2>2
  <2>4. wpc'[w] = "park" /\ \A v \in Workers : v # w => wpc'[v] = wpc[v]
    BY <1>4, <2>1
  <2>5. \A v \in Workers : v # w /\ wpc[v] \in {"parse", "push", "park"} => wconn[v] \in Sources
    BY DEF ConnInHand
  <2>6. apc \in {"push", "add"} => aconn \in Sources
    BY DEF ConnInHand
  <2> QED
    BY <1>2, <1>3, <2>1, <2>3, <2>4, <2>5, <2>6 DEF HoldInv, Armed, Queued, Parked
<1>7. CASE Park(w)
  <2>1. /\ wpc' = [wpc EXCEPT ![w] = "del"] /\ pendingMsg' = pendingMsg /\ wpc[w] = "park"
        /\ parkList' = Append(parkList, x)
    BY <1>7 DEF Park
  <2>2. Range(parkList') = Range(parkList) \cup {x}
    BY <1>2, <1>4, <2>1, AppendElems
  <2> QED
    BY <1>3, <1>4, <2>1, <2>2 DEF HoldInv, Armed, Queued, Parked
<1> QED
  BY <1>5, <1>6, <1>7

\* A worker gives back a connection that holds nothing back, or leaves a
\* parked one.
LEMMA ReleaseHeld ==
    ASSUME TypeOK, ConnInHand, PlaceInv, HoldInv, NEW w \in Workers,
           Unregister(w) \/ FlushAll(w) \/ FlushSome(w) \/ FlushError(w)
    PROVE  HoldInv'
<1> DEFINE x == wconn[w]
<1> USE DEF workerVars, aggVars, connVars, sinkVars
<1>1. /\ wpc' = [wpc EXCEPT ![w] = "pop"] /\ wconn' = [wconn EXCEPT ![w] = NoConn]
      /\ UNCHANGED <<pendingMsg, queue, parkList, apc, aconn, pending, sink>>
      /\ wpc \in [Workers -> {"pop", "parse", "push", "park", "del"}]
      /\ wconn \in [Workers -> Sources \cup {NoConn}]
      /\ epoll \in [Sources -> {"in", "inout", "off", "absent"}]
      /\ wpc[w] \in {"del", "parse"}
  BY DEF Unregister, FlushAll, FlushSome, FlushError, Release, ParsedAll, TypeOK
<1>2. x \in Sources
  BY <1>1 DEF ConnInHand
<1>3. PICK e \in {"in", "inout", "absent"} :
         epoll' = [epoll EXCEPT ![x] = e] /\ (e = "absent" \/ wpc[w] = "parse")
  BY DEF Unregister, FlushAll, FlushSome, FlushError, ParsedAll
<1>4. \A s \in Sources : (Armed(s) \/ Queued(s))' => Armed(s) \/ Queued(s) \/ (s = x /\ wpc[w] = "parse")
  BY <1>1, <1>2, <1>3 DEF Armed, Queued
<1> QED
  BY <1>1, <1>4 DEF HoldInv, Parked

\* A source leaves the park list with its message.
LEMMA UnparkHeld ==
    ASSUME TypeOK, HoldInv, Unpark
    PROVE  HoldInv'
<1> USE DEF workerVars, aggVars, connVars, sinkVars
<1>1. CASE parkList = <<>>
  BY <1>1 DEF Unpark, HoldInv, Armed, Queued, Parked
<1>2. CASE parkList # <<>>
  <2>1. /\ aconn' = Head(parkList) /\ apc' = "push" /\ parkList' = Tail(parkList) /\ apc = "unpark"
        /\ UNCHANGED <<pendingMsg, epoll, queue, wpc, wconn, pending, sink>>
    BY <1>2 DEF Unpark
  <2>2. /\ Head(parkList) \in Sources /\ Head(parkList) \in Range(parkList)
        /\ Range(Tail(parkList)) \subseteq Range(parkList)
    <3>1. parkList \in Seq(Sources)
      BY DEF TypeOK
    <3>2. Head(parkList) \in Sources
      BY ONLY <1>2, <3>1
    <3>3. /\ Head(parkList) \in Range(parkList)
          /\ Range(parkList) = Range(Tail(parkList)) \cup {Head(parkList)}
      BY ONLY <1>2, <3>1, TailElems
    <3> QED
      BY ONLY <3>2, <3>3
  <2> QED
    BY <2>1, <2>2 DEF HoldInv, Armed, Queued, Parked
<1> QED
  BY <1>1, <1>2

\* A source is registered again after its message has been pushed.
LEMMA ResumeHeld ==
    ASSUME TypeOK, ConnInHand, PlaceInv, HoldInv, ResumePush \/ ResumeAdd
    PROVE  HoldInv'
<1> USE DEF workerVars, aggVars, connVars, sinkVars
<1>1. /\ aconn \in Sources
      /\ UNCHANGED <<queue, parkList, wpc, wconn, pending, sink>>
      /\ pendingMsg \in [Sources -> Nat]
      /\ epoll \in [Sources -> {"in", "inout", "off", "absent"}]
      /\ apc \in {"push", "add"}
  BY DEF ResumePush, ResumeAdd, ConnInHand, TypeOK
<1>2. CASE ResumePush
  <2>1. /\ pendingMsg' = [pendingMsg EXCEPT ![aconn] = 0] /\ aconn' = aconn
        /\ apc' = "add" /\ epoll' = epoll
    BY <1>2 DEF ResumePush
  <2>2. ~Parked(aconn) /\ ~Owned(aconn)
    BY <1>1 DEF PlaceInv, PlacesApart
  <2>3. \A w \in Workers : wpc[w] = "park" => wconn[w] # aconn /\ wconn[w] \in Sources
    BY <2>2 DEF Owned, ConnInHand
  <2>4. \A w \in Workers : wpc[w] \in {"parse", "push"} => wconn[w] \in Sources
    BY DEF ConnInHand
  <2> QED
    BY <1>1, <2>1, <2>2, <2>3, <2>4 DEF HoldInv, Armed, Queued, Parked
<1>3. CASE ResumeAdd
  <2>1. /\ pendingMsg' = pendingMsg /\ apc' = "take" /\ apc = "add"
        /\ \/ epoll' = epoll
           \/ \E e \in {"in", "inout"} : epoll' = [epoll EXCEPT ![aconn] = e]
    BY <1>3 DEF ResumeAdd
  <2>2. \A s \in Sources : (Armed(s) \/ Queued(s))' => Armed(s) \/ Queued(s) \/ s = aconn
    BY <1>1, <2>1 DEF Armed, Queued
  <2> QED
    BY <1>1, <2>1, <2>2 DEF HoldInv, Parked
<1> QED
  BY <1>2, <1>3

\* The other steps of the aggregator: a frame is written only to a sink.
LEMMA AggHeld ==
    ASSUME TypeOK, HoldInv,
           \/ AdoptSink \/ CtrlEmpty \/ PumpSent \/ PumpBlocked \/ PumpError
           \/ CheckLow \/ Take \/ HandleEvents \/ WaitTimeout
    PROVE  HoldInv'
<1>1. /\ UNCHANGED <<pendingMsg, epoll, queue, parkList, wpc, wconn, aconn>>
      /\ apc' \notin {"push", "add"}
  BY DEF AdoptSink, CtrlEmpty, PumpSent, PumpBlocked, PumpError, CheckLow, Take,
         HandleEvents, WaitTimeout, connVars, workerVars, aggVars
<1>2. /\ pending' # <<>> \/ apc' \in {"pump", "unpark", "push", "add", "take"} => sink' # 0
      /\ apc' \in {"unpark", "push", "add", "take"} => pending' = <<>>
  <2>1. CASE AdoptSink
    BY <2>1 DEF AdoptSink, TypeOK
  <2>2. CASE CtrlEmpty \/ WaitTimeout \/ PumpBlocked
    BY <2>2 DEF CtrlEmpty, WaitTimeout, PumpBlocked, HoldInv, sinkVars
  <2>3. CASE PumpSent \/ PumpError
    BY <2>3 DEF PumpSent, PumpError, CloseSink, HoldInv
  <2>4. CASE CheckLow
    BY <2>4 DEF CheckLow, sinkVars, HoldInv
  <2>5. CASE Take
    BY <2>5 DEF Take, HoldInv
  <2>6. CASE HandleEvents
    BY <2>6 DEF HandleEvents, CloseSink, HoldInv
  <2> QED
    BY <2>1, <2>2, <2>3, <2>4, <2>5, <2>6
<1> QED
  BY <1>1, <1>2 DEF HoldInv, Armed, Queued, Parked

\* Every step keeps the messages held back with their connections.
LEMMA StepHeld == TypeOK /\ ConnInHand /\ PlaceInv /\ HoldInv /\ [Next]_vars => HoldInv'
<1> SUFFICES ASSUME TypeOK, ConnInHand, PlaceInv, HoldInv, [Next]_vars
             PROVE  HoldInv'
  OBVIOUS
<1> USE DEF peerVars, connVars, workerVars, aggVars, sinkVars
<1>1. ASSUME UNCHANGED <<pendingMsg, epoll, queue, parkList, wpc, wconn, apc, aconn,
                         pending, sink>>
      PROVE  HoldInv'
  BY <1>1 DEF HoldInv, Armed, Queued, Parked
<1>2. ASSUME NEW s \in Sources, PeerStep(s)
      PROVE  HoldInv'
  BY <1>1, <1>2 DEF PeerStep, PeerSend, PeerClose, PeerDrain
<1>3. ASSUME NEW w \in Workers, WorkerStep(w)
      PROVE  HoldInv'
  <2>1. CASE ParseControl(w)
    BY <1>1, <2>1 DEF ParseControl
  <2> QED
    BY <1>3, <2>1, PopHeld, CommitHeld, ReleaseHeld DEF WorkerStep
<1>4. CASE SinkStep
  BY <1>1, <1>4 DEF SinkStep, SinkJoin, SinkDrain, SinkGone
<1>5. CASE AggStep
  BY <1>5, UnparkHeld, ResumeHeld, AggHeld DEF AggStep
<1>6. CASE UNCHANGED vars
  BY <1>1, <1>6 DEF vars
<1> QED
  BY <1>2, <1>3, <1>4, <1>5, <1>6, ListenerHeld DEF Next

-----------------------------------------------------------------------------
(* The order of the messages of a source *)

\* A later message may be appended.
LEMMA AppendInOrder ==
    ASSUME NEW q \in Seq(Msgs), NEW e \in Msgs, InOrder(q),
           \A m \in Range(q) : m[1] = e[1] => m[2] < e[2]
    PROVE  InOrder(Append(q, e))
<1> DEFINE a == Append(q, e)
<1>1. /\ DOMAIN a = 1..(Len(q) + 1) /\ DOMAIN q = 1..Len(q) /\ Len(q) \in Nat
      /\ \A i \in DOMAIN a : a[i] = IF i = Len(q) + 1 THEN e ELSE q[i]
  OBVIOUS
<1>2. \A i, j \in DOMAIN a : i < j => i \in DOMAIN q /\ a[i] = q[i]
                                      /\ (a[j] = e \/ (j \in DOMAIN q /\ a[j] = q[j]))
  BY <1>1
<1>3. \A i \in DOMAIN q : q[i] \in Range(q)
  BY DEF Range
<1> HIDE DEF a
<1>4. InOrder(a)
  BY <1>2, <1>3 DEF InOrder
<1> QED
  BY <1>4 DEF a

\* The first message may be taken, and is the oldest of its source.
LEMMA TailInOrder ==
    ASSUME NEW q \in Seq(Msgs), q # <<>>, InOrder(q)
    PROVE  /\ InOrder(Tail(q))
           /\ \A m \in Range(Tail(q)) : m[1] = Head(q)[1] => Head(q)[2] < m[2]
<1> DEFINE t == Tail(q)
<1>1. /\ Len(q) \in Nat /\ Len(q) # 0 /\ DOMAIN q = 1..Len(q)
      /\ DOMAIN t = 1..(Len(q) - 1)
      /\ Head(q) = q[1] /\ \A i \in DOMAIN t : t[i] = q[i+1]
  OBVIOUS
<1>2. \A i, j \in DOMAIN t : i < j => i + 1 < j + 1
  BY <1>1
<1>3. \A i \in DOMAIN t : i + 1 \in DOMAIN q /\ 1 < i + 1 /\ 1 \in DOMAIN q
  BY <1>1
<1> HIDE DEF t
<1>4. InOrder(t)
  BY <1>1, <1>2, <1>3 DEF InOrder
<1>5. \A m \in Range(t) : m[1] = Head(q)[1] => Head(q)[2] < m[2]
  BY <1>1, <1>3 DEF InOrder, Range
<1> QED
  BY <1>4, <1>5 DEF t

\* What is held back of a source, spelled out.
LEMMA HeldMember ==
    ASSUME NEW s \in Sources, NEW n
    PROVE  /\ n \in HeldBack(s) <=>
                \/ \E w \in Workers : wconn[w] = s /\ wpc[w] = "push" /\ n = wmsg[w]
                \/ n = pendingMsg[s] /\ n # 0
           /\ n \in HeldBack(s)' <=>
                \/ \E w \in Workers : wconn'[w] = s /\ wpc'[w] = "push" /\ n = wmsg'[w]
                \/ n = pendingMsg'[s] /\ n # 0
  BY DEF HeldBack

\* What is held back are numbers.
LEMMA HeldTyped ==
    ASSUME NEW s \in Sources
    PROVE  (TypeOK => HeldBack(s) \subseteq Nat) /\ (TypeOK' => HeldBack(s)' \subseteq Nat)
<1>1. ASSUME TypeOK, NEW n \in HeldBack(s)
      PROVE  n \in Nat
  <2>1. wmsg \in [Workers -> Nat] /\ pendingMsg \in [Sources -> Nat]
    BY <1>1 DEF TypeOK
  <2>2. \/ \E w \in Workers : n = wmsg[w]
        \/ n = pendingMsg[s]
    BY HeldMember
  <2> QED
    BY <2>1, <2>2
<1>2. ASSUME TypeOK', NEW n \in HeldBack(s)'
      PROVE  n \in Nat
  <2>1. wmsg' \in [Workers -> Nat] /\ pendingMsg' \in [Sources -> Nat]
    BY <1>2 DEF TypeOK
  <2>2. \/ \E w \in Workers : n = wmsg'[w]
        \/ n = pendingMsg'[s]
    BY HeldMember
  <2> QED
    BY <2>1, <2>2
<1> QED
  BY <1>1, <1>2

\* What is on its way are messages.
LEMMA TransitTyped ==
    /\ TypeOK => InTransit \subseteq Msgs
    /\ TypeOK' => InTransit' \subseteq Msgs
<1>1. \A q \in Seq(Msgs) : Range(q) \subseteq Msgs
  BY DEF Range
<1> QED
  BY <1>1 DEF TypeOK, InTransit

\* Accepted numbers are numbers.
LEMMA AcceptedTyped ==
    ASSUME NEW s \in Sources
    PROVE  (TypeOK => Accepted(s) \in Nat) /\ (TypeOK' => Accepted(s)' \in Nat)
  BY MessagesInType DEF TypeOK, Accepted

\* A step that brings no message anywhere keeps the order.
LEMMA OrderKept ==
    ASSUME TypeOK, TypeOK', OrderInv, dataQueue' = dataQueue,
           pending' = pending \/ pending' = <<>>,
           \A s \in Sources : HeldBack(s)' \subseteq HeldBack(s),
           \A s \in Sources : Accepted(s) <= Accepted(s)'
    PROVE  OrderInv'
<1>1. Range(pending') \subseteq Range(pending) /\ InTransit' \subseteq InTransit
  BY DEF Range, InTransit
<1>2. \A s \in Sources : Accepted(s) \in Nat /\ Accepted(s)' \in Nat
  BY AcceptedTyped
<1>3. InTransit \subseteq Msgs
  BY TransitTyped
<1>4. ASSUME NEW m \in InTransit'
      PROVE  m[2] <= Accepted(m[1])'
  <2>1. m \in InTransit /\ m[1] \in Sources /\ m[2] \in Nat
    BY <1>1, <1>3 DEF Msgs
  <2> QED
    BY <1>2, <2>1 DEF OrderInv
<1>5. ASSUME NEW s \in Sources, NEW n \in HeldBack(s)'
      PROVE  n <= Accepted(s)' /\ \A m \in InTransit' : m[1] = s => m[2] < n
  <2>1. n \in HeldBack(s) /\ n \in Nat
    BY <1>5, HeldTyped
  <2>2. n <= Accepted(s)'
    BY <1>2, <2>1 DEF OrderInv
  <2> QED
    BY <1>1, <2>1, <2>2 DEF OrderInv
<1> QED
  BY <1>1, <1>4, <1>5 DEF OrderInv

\* The next message of a source is held back.
LEMMA CommitOrder ==
    ASSUME TypeOK, TypeOK', OrderInv, NEW x \in Sources,
           UNCHANGED <<dataQueue, pending>>,
           Accepted(x)' = Accepted(x) + 1,
           HeldBack(x)' \subseteq {Accepted(x) + 1},
           \A s \in Sources : s # x => HeldBack(s)' \subseteq HeldBack(s)
                                       /\ Accepted(s)' = Accepted(s)
    PROVE  OrderInv'
<1>1. InTransit' = InTransit
  BY DEF InTransit
<1>2. \A s \in Sources : Accepted(s) \in Nat
  BY AcceptedTyped
<1>3. ASSUME NEW m \in InTransit
      PROVE  m[2] <= Accepted(m[1])' /\ m[2] \in Nat /\ m[2] <= Accepted(m[1])
  <2>1. m[1] \in Sources /\ m[2] \in Nat
    BY TransitTyped DEF Msgs
  <2>2. m[2] <= Accepted(m[1])
    BY DEF OrderInv
  <2>3. Accepted(m[1])' = Accepted(m[1]) + 1 \/ Accepted(m[1])' = Accepted(m[1])
    BY <2>1
  <2> QED
    BY <1>2, <2>1, <2>2, <2>3
<1>4. ASSUME NEW s \in Sources, NEW n \in HeldBack(s)'
      PROVE  n <= Accepted(s)' /\ \A m \in InTransit : m[1] = s => m[2] < n
  <2>1. CASE s = x
    BY <1>2, <1>3, <1>4, <2>1
  <2>2. CASE s # x
    BY <1>4, <2>2 DEF OrderInv
  <2> QED
    BY <2>1, <2>2
<1> QED
  BY <1>1, <1>3, <1>4 DEF OrderInv

\* A message held back goes to the end of the data queue.
LEMMA PushOrder ==
    ASSUME TypeOK, TypeOK', OrderInv, NEW x \in Sources, NEW n \in HeldBack(x),
           dataQueue' = Append(dataQueue, <<x, n>>), UNCHANGED <<pending, parsed>>,
           HeldBack(x)' = {},
           \A s \in Sources : s # x => HeldBack(s)' \subseteq HeldBack(s)
    PROVE  OrderInv'
<1>1. n \in Nat /\ <<x, n>> \in Msgs
  BY HeldMember DEF TypeOK, Msgs
<1>2. dataQueue \in Seq(Msgs)
  BY DEF TypeOK
<1>3. Range(dataQueue') = Range(dataQueue) \cup {<<x, n>>}
  BY <1>1, <1>2, AppendElems
<1>4. InTransit' = InTransit \cup {<<x, n>>}
  BY <1>3 DEF InTransit
<1>5. n <= Accepted(x) /\ \A m \in InTransit : m[1] = x => m[2] < n
  BY DEF OrderInv
<1>6. InOrder(dataQueue')
  <2>1. \A m \in Range(dataQueue) : m[1] = x => m[2] < n
    BY <1>5 DEF InTransit
  <2> QED
    BY <1>1, <1>2, <2>1, AppendInOrder DEF OrderInv
<1>7. \A p \in Range(pending'), m \in Range(dataQueue') : p[1] = m[1] => p[2] < m[2]
  BY <1>3, <1>5 DEF OrderInv, InTransit
<1>8. \A s \in Sources : Accepted(s)' = Accepted(s)
  BY DEF Accepted, MessagesIn
<1>9. \A s \in Sources : \A k \in HeldBack(s)' :
          k <= Accepted(s)' /\ \A m \in InTransit' : m[1] = s => m[2] < k
  BY <1>4, <1>8 DEF OrderInv
<1>10. ASSUME NEW m \in InTransit'
       PROVE  m[2] <= Accepted(m[1])'
  <2>1. m[1] \in Sources
    BY TransitTyped DEF Msgs
  <2> QED
    BY <1>4, <1>5, <1>8, <2>1 DEF OrderInv
<1> QED
  BY <1>6, <1>7, <1>9, <1>10 DEF OrderInv

\* The oldest message of the data queue becomes the one being written.
LEMMA TakeOrder ==
    ASSUME TypeOK, TypeOK', OrderInv, dataQueue # <<>>, pending = <<>>,
           dataQueue' = Tail(dataQueue), pending' = <<Head(dataQueue)>>,
           \A s \in Sources : HeldBack(s)' = HeldBack(s) /\ Accepted(s)' = Accepted(s)
    PROVE  InTransit' = InTransit /\ OrderInv'
<1> DEFINE h == Head(dataQueue)
<1>1. dataQueue \in Seq(Msgs)
  BY DEF TypeOK
<1>2. Range(dataQueue) = Range(dataQueue') \cup {h}
  BY <1>1, TailElems
<1>3. Range(<<h>>) = {h} /\ Range(<<>>) = {}
  BY DEF Range
<1>4. InTransit' = InTransit
  BY <1>2, <1>3 DEF InTransit
<1>5. /\ InOrder(dataQueue')
      /\ \A m \in Range(dataQueue') : m[1] = h[1] => h[2] < m[2]
  BY <1>1, TailInOrder DEF OrderInv
<1>6. \A m \in InTransit : m[1] \in Sources
  BY TransitTyped DEF Msgs
<1> HIDE DEF h
<1>7. \A p \in Range(pending'), m \in Range(dataQueue') : p[1] = m[1] => p[2] < m[2]
  BY <1>3, <1>5 DEF h
<1>8. \A m \in InTransit' : m[2] <= Accepted(m[1])'
  BY <1>4, <1>6 DEF OrderInv
<1>9. \A s \in Sources : \A n \in HeldBack(s)' :
          n <= Accepted(s)' /\ \A m \in InTransit' : m[1] = s => m[2] < n
  BY <1>4 DEF OrderInv
<1> QED
  BY <1>4, <1>5, <1>7, <1>8, <1>9 DEF OrderInv

-----------------------------------------------------------------------------
(* What a step does to the messages *)

heldSame == \A s \in Sources : HeldBack(s)' = HeldBack(s)
writtenSame == UNCHANGED <<delivered, adopted, sink>>

\* Nothing.
Quiet ==
    /\ heldSame /\ \A s \in Sources : Accepted(s)' = Accepted(s)
    /\ UNCHANGED <<dataQueue, pending>> /\ writtenSame
\* The next message of x is held back,
Holds(x) ==
    /\ HeldBack(x) = {} /\ HeldBack(x)' = {Accepted(x) + 1}
    /\ Accepted(x)' = Accepted(x) + 1
    /\ \A s \in Sources : s # x => HeldBack(s)' = HeldBack(s) /\ Accepted(s)' = Accepted(s)
    /\ UNCHANGED <<dataQueue, pending>> /\ writtenSame
\* goes into the data queue,
Queues(x, n) ==
    /\ HeldBack(x) = {n} /\ HeldBack(x)' = {}
    /\ \A s \in Sources : s # x => HeldBack(s)' = HeldBack(s)
    /\ dataQueue' = Append(dataQueue, <<x, n>>)
    /\ UNCHANGED <<parsed, pending>> /\ writtenSame
\* becomes the one being written,
Picks ==
    /\ dataQueue # <<>> /\ dataQueue' = Tail(dataQueue)
    /\ pending = <<>> /\ pending' = <<Head(dataQueue)>>
    /\ heldSame /\ parsed' = parsed /\ writtenSame
\* is written,
Sends ==
    /\ sink # 0 /\ pending # <<>>
    /\ pending' = <<>> /\ delivered' = delivered \o pending
    /\ heldSame /\ UNCHANGED <<parsed, dataQueue, adopted, sink>>
\* or is lost with the sink.
Drops ==
    /\ pending # <<>> => sink # 0
    /\ pending' = <<>>
    /\ \/ adopted' = adopted + 1 /\ sink' # 0
       \/ adopted' = adopted /\ sink # 0 /\ sink' = 0
    /\ heldSame /\ UNCHANGED <<parsed, dataQueue, delivered>>

Effect ==
    \/ Quiet
    \/ \E x \in Sources : Holds(x) \/ \E n \in Nat : Queues(x, n)
    \/ Picks \/ Sends \/ Drops

\* What is held back changes only with the worker or the message in question.
LEMMA HeldSame ==
    ASSUME pendingMsg' = pendingMsg,
           \A v \in Workers : /\ wpc[v] = "push" <=> wpc'[v] = "push"
                              /\ wpc[v] = "push" => wconn'[v] = wconn[v] /\ wmsg'[v] = wmsg[v]
    PROVE  heldSame
<1> SUFFICES ASSUME NEW s \in Sources, NEW n
             PROVE  n \in HeldBack(s)' <=> n \in HeldBack(s)
  BY DEF heldSame
<1> QED
  BY HeldMember

\* A worker is about to push or to park a message.
LEMMA HoldEffect ==
    ASSUME TypeOK, ConnInHand, PlaceInv, HoldInv, NEW w \in Workers,
           CommitPush(w) \/ CommitPark(w), NEW x, x = wconn[w]
    PROVE  x \in Sources /\ Holds(x)
<1> DEFINE k == Accepted(x) + 1
<1>1. wpc[w] = "parse" /\ parsed' = [parsed EXCEPT ![x] = @ + 1]
      /\ NextFrame(x) = "data" /\ UNCHANGED <<wconn, dataQueue, pending>> /\ writtenSame
  BY DEF CommitPush, CommitPark, Parsing, sinkVars, writtenSame
<1>2. /\ x \in Sources
      /\ \A v \in Workers : v # w => wconn[v] # x
  BY <1>1, HolderAlone
<1>3. pendingMsg[x] = 0
  BY <1>1 DEF HoldInv
<1>4. parsed \in [Sources -> Nat] /\ wpc \in [Workers -> {"pop", "parse", "push", "park", "del"}]
      /\ wmsg \in [Workers -> Nat] /\ pendingMsg \in [Sources -> Nat]
  BY DEF TypeOK
<1>5. MessagesIn(x, parsed[x] + 1) = k /\ k \in Nat /\ k # 0
  BY <1>1, <1>2, <1>4, MessagesCount, MessagesInType DEF NextFrame, Accepted
<1>6. parsed'[x] = parsed[x] + 1 /\ \A s \in Sources : s # x => parsed'[s] = parsed[s]
  BY <1>1, <1>2, <1>4
<1>7. Accepted(x)' = k
  <2>1. Accepted(x)' = MessagesIn(x, parsed'[x])
    BY DEF Accepted, MessagesIn
  <2> QED
    BY <2>1, <1>5, <1>6
<1>8. \A s \in Sources : s # x => Accepted(s)' = Accepted(s)
  BY <1>6 DEF Accepted, MessagesIn
<1>9. HeldBack(x) = {}
  BY <1>1, <1>2, <1>3, HeldMember
<1> HIDE DEF k
<1>10. /\ HeldBack(x)' = {k}
       /\ \A s \in Sources : s # x => HeldBack(s)' = HeldBack(s)
  <2>1. CASE CommitPush(w)
    <3>1. /\ pendingMsg' = pendingMsg /\ wmsg'[w] = k /\ wpc'[w] = "push"
          /\ \A v \in Workers : v # w => wmsg'[v] = wmsg[v] /\ wpc'[v] = wpc[v]
      BY <1>4, <1>5, <2>1 DEF CommitPush
    <3>2. \A n : n \in HeldBack(x)' <=> n = k
      BY <1>1, <1>2, <1>3, <3>1, HeldMember
    <3>3. ASSUME NEW s \in Sources, s # x, NEW n
          PROVE  n \in HeldBack(s)' <=> n \in HeldBack(s)
      BY <1>1, <3>1, <3>3, HeldMember
    <3> QED
      BY <3>2, <3>3
  <2>2. CASE CommitPark(w)
    <3>1. /\ pendingMsg'[x] = k /\ wmsg' = wmsg /\ wpc'[w] = "park"
          /\ \A v \in Workers : v # w => wpc'[v] = wpc[v]
          /\ \A s \in Sources : s # x => pendingMsg'[s] = pendingMsg[s]
      BY <1>2, <1>4, <1>5, <2>2 DEF CommitPark
    <3>2. \A n : n \in HeldBack(x)' <=> n = k
      BY <1>1, <1>2, <1>5, <3>1, HeldMember
    <3>3. ASSUME NEW s \in Sources, s # x, NEW n
          PROVE  n \in HeldBack(s)' <=> n \in HeldBack(s)
      BY <1>1, <3>1, <3>3, HeldMember
    <3> QED
      BY <3>2, <3>3
  <2> QED
    BY <2>1, <2>2
<1> QED
  BY <1>1, <1>2, <1>7, <1>8, <1>9, <1>10 DEF Holds, k

\* A worker pushes its message.
LEMMA PushEffect ==
    ASSUME TypeOK, ConnInHand, PlaceInv, HoldInv, NEW w \in Workers, Push(w),
           NEW x, x = wconn[w], NEW n, n = wmsg[w]
    PROVE  x \in Sources /\ n \in Nat /\ Queues(x, n)
<1>1. /\ wpc[w] = "push" /\ dataQueue' = Append(dataQueue, <<x, n>>)
      /\ UNCHANGED <<wconn, pendingMsg, parsed, pending>> /\ writtenSame
  BY DEF Push, connVars, sinkVars, writtenSame
<1>2. x \in Sources /\ \A v \in Workers : v # w => wconn[v] # x
  BY <1>1, HolderAlone
<1>3. pendingMsg[x] = 0
  BY <1>1 DEF HoldInv
<1>4. n \in Nat /\ wpc'[w] = "parse"
      /\ \A v \in Workers : v # w => wmsg'[v] = wmsg[v] /\ wpc'[v] = wpc[v]
  BY DEF Push, TypeOK
<1>5. \A k : (k \in HeldBack(x) <=> k = n) /\ k \notin HeldBack(x)'
  BY <1>1, <1>2, <1>3, <1>4, HeldMember
<1>6. ASSUME NEW s \in Sources, s # x, NEW k
      PROVE  k \in HeldBack(s)' <=> k \in HeldBack(s)
  BY <1>1, <1>4, <1>6, HeldMember
<1>7. HeldBack(x) = {n} /\ HeldBack(x)' = {}
  BY <1>5
<1> QED
  BY <1>1, <1>2, <1>4, <1>6, <1>7 DEF Queues

\* The aggregator pushes the message of the source it resumes.
LEMMA ResumeEffect ==
    ASSUME TypeOK, ConnInHand, PlaceInv, HoldInv, ResumePush,
           NEW x, x = aconn, NEW n, n = pendingMsg[aconn]
    PROVE  x \in Sources /\ n \in Nat /\ Queues(x, n)
<1>1. /\ apc = "push" /\ dataQueue' = Append(dataQueue, <<x, n>>)
      /\ UNCHANGED <<wconn, wpc, wmsg, aconn, parsed, pending>> /\ writtenSame
      /\ pendingMsg' = [pendingMsg EXCEPT ![x] = 0]
  BY DEF ResumePush, workerVars, sinkVars, writtenSame
<1>2. x \in Sources /\ n \in Nat /\ n # 0
  BY <1>1 DEF ConnInHand, HoldInv, TypeOK
<1>3. \A w \in Workers : wpc[w] = "push" => wconn[w] # x
  BY <1>2 DEF PlaceInv, PlacesApart, Owned
<1>4. pendingMsg'[x] = 0 /\ \A s \in Sources : s # x => pendingMsg'[s] = pendingMsg[s]
  BY <1>1, <1>2 DEF TypeOK
<1>5. \A k : (k \in HeldBack(x) <=> k = n) /\ k \notin HeldBack(x)'
  BY <1>1, <1>2, <1>3, <1>4, HeldMember
<1>6. ASSUME NEW s \in Sources, s # x, NEW k
      PROVE  k \in HeldBack(s)' <=> k \in HeldBack(s)
  BY <1>1, <1>4, <1>6, HeldMember
<1>7. HeldBack(x) = {n} /\ HeldBack(x)' = {}
  BY <1>5
<1> QED
  BY <1>1, <1>2, <1>6, <1>7 DEF Queues

\* The other steps of a worker do nothing to the messages: no message is in the
\* hands of a worker that takes or gives back a connection, or parses on.
LEMMA WorkerEffect ==
    ASSUME TypeOK, ConnInHand, NEW w \in Workers, WorkerStep(w),
           ~CommitPush(w), ~CommitPark(w), ~Push(w)
    PROVE  Quiet
<1> USE DEF aggVars, sinkVars, connVars, workerVars
<1>1. wpc \in [Workers -> {"pop", "parse", "push", "park", "del"}]
      /\ wconn \in [Workers -> Sources \cup {NoConn}] /\ parsed \in [Sources -> Nat]
  BY DEF TypeOK
<1>2. /\ UNCHANGED <<dataQueue, pending>> /\ writtenSame
      /\ pendingMsg' = pendingMsg /\ wmsg' = wmsg
  BY DEF WorkerStep, WorkerPop, ParseControl, Park, Unregister, FlushAll, FlushSome,
         FlushError, writtenSame
<1>3. wpc' = wpc \/ \E pc \in {"pop", "parse", "del"} : wpc' = [wpc EXCEPT ![w] = pc]
  BY DEF WorkerStep, WorkerPop, ParseControl, Park, Unregister, FlushAll, FlushSome,
         FlushError, Release
<1>4. wpc[w] # "push"
  BY DEF WorkerStep, WorkerPop, ParseControl, Park, Unregister, FlushAll, FlushSome,
         FlushError, ParsedAll, Parsing
<1>5. wconn' = wconn \/ \E c : wconn' = [wconn EXCEPT ![w] = c]
  BY DEF WorkerStep, WorkerPop, ParseControl, Park, Unregister, FlushAll, FlushSome,
         FlushError, Release
<1>6. heldSame
  BY <1>1, <1>2, <1>3, <1>4, <1>5, HeldSame
<1>7. ASSUME NEW s \in Sources
      PROVE  Accepted(s)' = Accepted(s)
  <2>1. CASE ParseControl(w)
    <3>1. /\ parsed' = [parsed EXCEPT ![wconn[w]] = @ + 1]
          /\ NextFrame(wconn[w]) # "data" /\ wpc[w] = "parse"
      BY <2>1 DEF ParseControl, Parsing
    <3>2. wconn[w] \in Sources
      BY <3>1 DEF ConnInHand
    <3>3. CASE s = wconn[w]
      <4>1. Script[s][parsed[s] + 1] # "data" /\ parsed'[s] = parsed[s] + 1
            /\ parsed[s] \in Nat
        BY <1>1, <3>1, <3>2, <3>3 DEF NextFrame
      <4>2. MessagesIn(s, parsed[s] + 1) = MessagesIn(s, parsed[s])
        BY <4>1, MessagesCount
      <4>3. Accepted(s)' = MessagesIn(s, parsed'[s])
        BY DEF Accepted, MessagesIn
      <4> QED
        BY <4>1, <4>2, <4>3 DEF Accepted
    <3>4. CASE s # wconn[w]
      BY <1>1, <3>1, <3>2, <3>4 DEF Accepted, MessagesIn
    <3> QED
      BY <3>3, <3>4
  <2>2. CASE ~ParseControl(w)
    <3>1. parsed' = parsed
      BY <2>2 DEF WorkerStep, WorkerPop, Park, Unregister, FlushAll, FlushSome, FlushError
    <3> QED
      BY <3>1 DEF Accepted, MessagesIn
  <2> QED
    BY <2>1, <2>2
<1> QED
  BY <1>2, <1>6, <1>7 DEF Quiet

\* Every step has one of the effects.
LEMMA StepEffect ==
    TypeOK /\ ConnInHand /\ PlaceInv /\ HoldInv /\ [Next]_vars => Effect
<1> SUFFICES ASSUME TypeOK, ConnInHand, PlaceInv, HoldInv, [Next]_vars
             PROVE  Effect
  OBVIOUS
<1> USE DEF peerVars, connVars, workerVars, aggVars, sinkVars
<1>1. ASSUME UNCHANGED <<pendingMsg, parsed, wpc, wconn, wmsg>>
      PROVE  heldSame /\ \A s \in Sources : Accepted(s)' = Accepted(s)
  BY <1>1, HeldSame DEF Accepted, MessagesIn
<1>2. ASSUME UNCHANGED <<pendingMsg, parsed, wpc, wconn, wmsg, dataQueue, pending,
                         delivered, adopted, sink>>
      PROVE  Effect
  BY <1>1, <1>2 DEF Effect, Quiet, writtenSame
<1>3. ASSUME NEW s \in Sources, PeerStep(s) \/ ListenerPush(s)
      PROVE  Effect
  BY <1>2, <1>3 DEF PeerStep, PeerSend, PeerClose, PeerDrain, ListenerPush
<1>4. ASSUME NEW w \in Workers, WorkerStep(w)
      PROVE  Effect
  <2>1. CASE CommitPush(w) \/ CommitPark(w)
    BY <2>1, HoldEffect DEF Effect
  <2>2. CASE Push(w)
    BY <2>2, PushEffect DEF Effect
  <2> QED
    BY <1>4, <2>1, <2>2, WorkerEffect DEF Effect
<1>5. CASE SinkStep
  BY <1>2, <1>5 DEF SinkStep, SinkJoin, SinkDrain, SinkGone
<1>6. CASE AggStep
  <2>1. CASE CtrlEmpty \/ PumpBlocked \/ CheckLow \/ Unpark \/ ResumeAdd \/ WaitTimeout
    BY <1>2, <2>1 DEF CtrlEmpty, PumpBlocked, CheckLow, Unpark, ResumeAdd, WaitTimeout
  <2>2. CASE ResumePush
    BY <2>2, ResumeEffect DEF Effect
  <2>3. CASE Take
    <3>1. CASE dataQueue = <<>>
      BY <1>2, <2>3, <3>1 DEF Take
    <3>2. CASE dataQueue # <<>>
      <4>1. Picks
        BY <1>1, <2>3, <3>2 DEF Take, Picks, writtenSame, HoldInv
      <4> QED
        BY <4>1 DEF Effect
    <3> QED
      BY <3>1, <3>2
  <2>4. CASE PumpSent
    <3>1. Sends
      BY <1>1, <2>4 DEF PumpSent, Sends, HoldInv
    <3> QED
      BY <3>1 DEF Effect
  <2>5. CASE AdoptSink
    <3>1. adopted + 1 # 0
      BY DEF TypeOK
    <3>2. Drops
      BY <1>1, <2>5, <3>1 DEF AdoptSink, Drops, HoldInv
    <3> QED
      BY <3>2 DEF Effect
  <2>6. CASE PumpError
    <3>1. Drops
      BY <1>1, <2>6 DEF PumpError, CloseSink, Drops, HoldInv
    <3> QED
      BY <3>1 DEF Effect
  <2>7. CASE HandleEvents
    <3>1. CASE sink # 0 /\ sinkState = "gone"
      <4>1. Drops
        BY <1>1, <2>7, <3>1 DEF HandleEvents, CloseSink, Drops
      <4> QED
        BY <4>1 DEF Effect
    <3>2. CASE ~(sink # 0 /\ sinkState = "gone")
      BY <1>2, <2>7, <3>2 DEF HandleEvents
    <3> QED
      BY <3>1, <3>2
  <2> QED
    BY <1>6, <2>1, <2>2, <2>3, <2>4, <2>5, <2>6, <2>7 DEF AggStep
<1>7. CASE UNCHANGED vars
  BY <1>2, <1>7 DEF vars
<1> QED
  BY <1>3, <1>4, <1>5, <1>6, <1>7 DEF Next

-----------------------------------------------------------------------------
(* The order is kept *)

\* Initially there are no messages.
LEMMA InitOrder == Init => OrderInv
<1> SUFFICES ASSUME Init PROVE OrderInv
  OBVIOUS
<1>1. dataQueue = <<>> /\ Range(pending) = {} /\ Range(dataQueue) = {}
  BY DEF Init, Range
<1>2. \A s \in Sources : HeldBack(s) = {}
  BY HeldMember DEF Init
<1> QED
  BY <1>1, <1>2 DEF OrderInv, InOrder, InTransit

\* Every step keeps the messages in order.
LEMMA StepOrder == TypeOK /\ TypeOK' /\ OrderInv /\ Effect => OrderInv'
<1> SUFFICES ASSUME TypeOK, TypeOK', OrderInv, Effect
             PROVE  OrderInv'
  OBVIOUS
<1> USE DEF heldSame, writtenSame
<1>1. \A s \in Sources : Accepted(s) \in Nat
  BY AcceptedTyped
<1>2. parsed' = parsed => \A s \in Sources : Accepted(s)' = Accepted(s)
  BY DEF Accepted, MessagesIn
<1>3. CASE Quiet
  BY <1>1, <1>3, OrderKept DEF Quiet
<1>4. ASSUME NEW x \in Sources, Holds(x)
      PROVE  OrderInv'
  BY <1>4, CommitOrder DEF Holds
<1>5. ASSUME NEW x \in Sources, NEW n \in Nat, Queues(x, n)
      PROVE  OrderInv'
  <2>1. n \in HeldBack(x)
    BY <1>5 DEF Queues
  <2> QED
    BY <1>5, <2>1, PushOrder DEF Queues
<1>6. CASE Picks
  BY <1>2, <1>6, TakeOrder DEF Picks
<1>7. CASE Sends \/ Drops
  BY <1>1, <1>2, <1>7, OrderKept DEF Sends, Drops
<1> QED
  BY <1>3, <1>4, <1>5, <1>6, <1>7 DEF Effect

-----------------------------------------------------------------------------
(* The refinement *)

\* The flow of a source, spelled out.
LEMMA FlowMember ==
    ASSUME NEW s \in Sources, NEW n
    PROVE  /\ TypeOK => (n \in Flow(s) <=> <<s, n>> \in InTransit \/ n \in HeldBack(s))
           /\ TypeOK' => (n \in Flow(s)' <=> <<s, n>> \in InTransit' \/ n \in HeldBack(s)')
<1>1. \A m \in Msgs : m = <<m[1], m[2]>>
  BY DEF Msgs
<1>2. TypeOK => (n \in Flow(s) <=> <<s, n>> \in InTransit \/ n \in HeldBack(s))
  BY <1>1, TransitTyped DEF Flow
<1>3. TypeOK' => (n \in Flow(s)' <=> <<s, n>> \in InTransit' \/ n \in HeldBack(s)')
  BY <1>1, TransitTyped DEF Flow
<1> QED
  BY <1>2, <1>3

\* The frame being written is the oldest message of its source; without it the
\* rest of the flow is the same.
LEMMA PendingOldest ==
    ASSUME TypeOK, TypeOK', OrderInv, pending # <<>>, pending' = <<>>,
           heldSame, dataQueue' = dataQueue
    PROVE  \E x \in Sources, n \in Nat :
               /\ pending = <<<<x, n>>>>
               /\ n \in Flow(x) /\ \A k \in Flow(x) : n <= k
               /\ Flow(x)' = Flow(x) \ {n}
               /\ \A s \in Sources : s # x => Flow(s)' = Flow(s)
<1>1. PICK x \in Sources, n \in Nat : pending = <<<<x, n>>>>
  <2>1. pending \in Seq(Msgs) /\ Len(pending) <= 1
    BY DEF TypeOK
  <2>2. Len(pending) # 0 /\ Len(pending) \in Nat
    BY <2>1
  <2>3. Len(pending) = 1
    <3> HIDE DEF Msgs
    <3>1. \A k \in Nat : k <= 1 /\ k # 0 => k = 1
      OBVIOUS
    <3> QED
      BY <2>1, <2>2, <3>1
  <2>4. pending[1] \in Msgs
    BY <2>1, <2>3
  <2>5. pending = <<pending[1]>>
    BY <2>1, <2>3
  <2> QED
    BY <2>4, <2>5 DEF Msgs
<1>2. Range(pending) = {<<x, n>>} /\ Range(pending') = {}
  BY <1>1 DEF Range
<1>3. InTransit = InTransit' \cup {<<x, n>>} /\ InTransit' = Range(dataQueue)
  BY <1>2 DEF InTransit
<1>4. \A k : <<x, k>> \in InTransit' => n < k
  BY <1>2, <1>3 DEF OrderInv
<1>5. \A k \in HeldBack(x) : n < k
  <2>1. \A k \in HeldBack(x) : \A m \in InTransit : m[1] = x => m[2] < k
    BY DEF OrderInv
  <2>2. <<x, n>> \in InTransit
    BY <1>3
  <2> QED
    BY <2>1, <2>2
<1>6. n \in Flow(x)
  BY <1>3, FlowMember
<1>7. ASSUME NEW k \in Flow(x)
      PROVE  n <= k
  <2>1. k = n \/ <<x, k>> \in InTransit' \/ k \in HeldBack(x)
    BY <1>3, FlowMember
  <2>2. k \in Nat
    BY <2>1, TransitTyped, HeldTyped DEF Msgs
  <2> QED
    BY <1>4, <1>5, <2>1, <2>2
<1>8. ASSUME NEW k
      PROVE  k \in Flow(x)' <=> k \in Flow(x) /\ k # n
  <2>1. k \in Flow(x)' <=> <<x, k>> \in InTransit' \/ k \in HeldBack(x)
    BY FlowMember DEF heldSame
  <2>2. k \in Flow(x) <=> k = n \/ <<x, k>> \in InTransit' \/ k \in HeldBack(x)
    BY <1>3, FlowMember
  <2>3. <<x, n>> \notin InTransit' /\ n \notin HeldBack(x)
    BY <1>4, <1>5
  <2> QED
    BY <2>1, <2>2, <2>3
<1>9. ASSUME NEW s \in Sources, s # x, NEW k
      PROVE  k \in Flow(s)' <=> k \in Flow(s)
  BY <1>3, <1>9, FlowMember DEF heldSame
<1> QED
  BY <1>1, <1>6, <1>7, <1>8, <1>9

\* Each effect is a step of FanIn, or no step.
LEMMA EffectRefines ==
    TypeOK /\ TypeOK' /\ OrderInv /\ Effect => [Abstract!Next]_(Abstract!vars)
<1> SUFFICES ASSUME TypeOK, TypeOK', OrderInv, Effect
             PROVE  Abstract!Next \/ UNCHANGED Abstract!vars
  BY DEF Abstract!vars
<1> DEFINE acc == [s \in Sources |-> Accepted(s)]
           flow == [s \in Sources |-> Flow(s)]
<1> USE DEF heldSame, writtenSame
<1>1. parsed' = parsed => acc' = acc
  BY DEF Accepted, MessagesIn
<1>2. CASE Quiet
  <2>1. acc' = acc
    BY <1>2 DEF Quiet
  <2>2. \A s \in Sources : Flow(s)' = Flow(s)
    BY <1>2 DEF Quiet, Flow, InTransit
  <2> QED
    BY <1>2, <2>1, <2>2 DEF Quiet, Abstract!vars
<1>3. ASSUME NEW x \in Sources, Holds(x)
      PROVE  Abstract!Next
  <2>1. acc' = [acc EXCEPT ![x] = @ + 1]
    BY <1>3 DEF Holds
  <2>2. ASSUME NEW k
        PROVE  k \in Flow(x)' <=> k \in Flow(x) \cup {acc[x] + 1}
    BY <1>3, FlowMember DEF Holds, InTransit
  <2>3. \A s \in Sources : s # x => Flow(s)' = Flow(s)
    BY <1>3 DEF Holds, Flow, InTransit
  <2>4. flow' = [flow EXCEPT ![x] = @ \cup {acc[x] + 1}]
    BY <2>2, <2>3
  <2>5. Abstract!Accept(x)
    BY <1>3, <2>1, <2>4 DEF Abstract!Accept, Holds
  <2> QED
    BY <2>5 DEF Abstract!Next
<1>4. ASSUME NEW x \in Sources, NEW n \in Nat, Queues(x, n)
      PROVE  UNCHANGED Abstract!vars
  <2>1. InTransit' = InTransit \cup {<<x, n>>}
    <3>0. dataQueue \in Seq(Msgs) /\ <<x, n>> \in Msgs
      BY DEF TypeOK, Msgs
    <3>1. Range(dataQueue') = Range(dataQueue) \cup {<<x, n>>}
      BY <1>4, <3>0, AppendElems DEF Queues
    <3> QED
      BY <1>4, <3>1 DEF Queues, InTransit
  <2>2. ASSUME NEW s \in Sources, NEW k
        PROVE  k \in Flow(s)' <=> k \in Flow(s)
    <3>1. CASE s = x
      BY <1>4, <2>1, <3>1, FlowMember DEF Queues
    <3>2. CASE s # x
      BY <1>4, <2>1, <3>2, FlowMember DEF Queues
    <3> QED
      BY <3>1, <3>2
  <2>3. \A s \in Sources : Flow(s)' = Flow(s)
    BY <2>2
  <2> QED
    BY <1>1, <1>4, <2>3 DEF Queues, Abstract!vars
<1>5. CASE Picks
  <2>1. \A s \in Sources : Accepted(s)' = Accepted(s)
    BY <1>5 DEF Picks, Accepted, MessagesIn
  <2>2. InTransit' = InTransit
    BY <1>5, <2>1, TakeOrder DEF Picks
  <2>3. \A s \in Sources : Flow(s)' = Flow(s)
    BY <1>5, <2>2 DEF Picks, Flow
  <2> QED
    BY <1>1, <1>5, <2>3 DEF Picks, Abstract!vars
<1>6. CASE Sends
  <2>1. PICK x \in Sources, n \in Nat :
          /\ pending = <<<<x, n>>>>
          /\ n \in Flow(x) /\ \A k \in Flow(x) : n <= k
          /\ Flow(x)' = Flow(x) \ {n}
          /\ \A s \in Sources : s # x => Flow(s)' = Flow(s)
    BY <1>6, PendingOldest DEF Sends
  <2>2. flow' = [flow EXCEPT ![x] = @ \ {n}]
    BY <2>1
  <2>3. delivered' = Append(delivered, <<x, n>>)
    <3>1. \A q \in Seq(Msgs), m \in Msgs : q \o <<m>> = Append(q, m)
      OBVIOUS
    <3>2. delivered \in Seq(Msgs) /\ <<x, n>> \in Msgs
      BY DEF TypeOK, Msgs
    <3> QED
      BY <1>6, <2>1, <3>1, <3>2 DEF Sends
  <2>4. Abstract!Oldest(x, n)
    BY <2>1 DEF Abstract!Oldest
  <2>5. Abstract!Deliver(x)
    BY <1>1, <1>6, <2>1, <2>2, <2>3, <2>4 DEF Abstract!Deliver, Sends
  <2> QED
    BY <2>5 DEF Abstract!Next
<1>7. CASE Drops
  <2>1. Abstract!SinkArrives \/ Abstract!SinkLeaves
    BY <1>7 DEF Drops, Abstract!SinkArrives, Abstract!SinkLeaves
  <2>2. CASE pending = <<>>
    <3>1. \A s \in Sources : Flow(s)' = Flow(s)
      BY <1>7, <2>2 DEF Drops, Flow, InTransit
    <3>2. Abstract!LoseNone
      BY <1>1, <1>7, <3>1 DEF Drops, Abstract!LoseNone
    <3> QED
      BY <2>1, <3>2 DEF Abstract!Next, Abstract!Switch
  <2>3. CASE pending # <<>>
    <3>1. PICK x \in Sources, n \in Nat :
            /\ n \in Flow(x) /\ \A k \in Flow(x) : n <= k
            /\ Flow(x)' = Flow(x) \ {n}
            /\ \A s \in Sources : s # x => Flow(s)' = Flow(s)
      BY <1>7, <2>3, PendingOldest DEF Drops
    <3>2. flow' = [flow EXCEPT ![x] = @ \ {n}]
      BY <3>1
    <3>3. Abstract!Oldest(x, n)
      BY <3>1 DEF Abstract!Oldest
    <3>4. Abstract!LoseOne(x)
      BY <1>1, <1>7, <2>3, <3>1, <3>2, <3>3 DEF Drops, Abstract!LoseOne
    <3> QED
      BY <2>1, <3>4 DEF Abstract!Next, Abstract!Switch
  <2> QED
    BY <2>2, <2>3
<1> QED
  BY <1>2, <1>3, <1>4, <1>5, <1>6, <1>7 DEF Effect

\* The invariant of the messages: what is held back is with its connection, and
\* the messages of a source are in order through the whole data path.
THEOREM MessagesInvariant == Spec => [](HoldInv /\ OrderInv)
<1>1. IndInv => TypeOK /\ ConnInHand
  BY DEF IndInv
<1>2. Init => HoldInv /\ OrderInv
  BY InitHeld, InitOrder
<1>3. TypeOK /\ TypeOK' /\ ConnInHand /\ PlaceInv /\ HoldInv /\ OrderInv /\ [Next]_vars
        => HoldInv' /\ OrderInv'
  BY StepHeld, StepEffect, StepOrder
<1> QED
  BY <1>1, <1>2, <1>3, Inductive, PlacesInvariant, PTL DEF Spec

\* The data path implements FanIn: every message that a source has completed is
\* written to a sink once and in its order, and is lost only with a sink
\* connection, at most one for each; whatever the workers, the park list and the
\* reconnecting sinks do in between.
THEOREM FanInImplemented == Spec => ImplementsFanIn
<1>1. Init => Abstract!Init
  <2> SUFFICES ASSUME Init PROVE Abstract!Init
    OBVIOUS
  <2>1. \A s \in Sources : Accepted(s) = 0
    BY MessagesCount DEF Init, Accepted
  <2>2. Range(pending) = {} /\ Range(dataQueue) = {}
    BY DEF Init, Range
  <2>3. \A s \in Sources : HeldBack(s) = {}
    BY HeldMember DEF Init
  <2>4. \A s \in Sources : Flow(s) = {}
    BY <2>2, <2>3 DEF Flow, InTransit
  <2> QED
    BY <2>1, <2>4 DEF Init, Abstract!Init
<1>2. TypeOK /\ TypeOK' /\ ConnInHand /\ PlaceInv /\ HoldInv /\ OrderInv /\ [Next]_vars
        => [Abstract!Next]_(Abstract!vars)
  BY StepEffect, EffectRefines
<1>3. IndInv => TypeOK /\ ConnInHand
  BY DEF IndInv
<1> QED
  BY <1>1, <1>2, <1>3, Inductive, PlacesInvariant, MessagesInvariant, PTL
     DEF Spec, ImplementsFanIn, Abstract!Spec
=============================================================================
