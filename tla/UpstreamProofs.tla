--------------------------- MODULE UpstreamProofs ---------------------------
(***************************************************************************)
(* Proofs about the upstream reactor. The inductive invariant is IndInv of *)
(* Upstream: what every client record obeys, how its attempts relate to    *)
(* the failures counted, and what each point of the handler knows of the   *)
(* client in hand, of the rest of the batch and of the data queue.         *)
(*                                                                         *)
(* A handler's step is proved in three parts: what the operators on the    *)
(* record do (first sections), that the step goes Onward with a coherent   *)
(* record or drops the client, and that such a step keeps the invariant    *)
(* (OnwardInv, DropStep).                                                  *)
(*                                                                         *)
(* The second half is about what the clients read. Every step has one of a *)
(* few effects on the streams (Effect); each effect keeps StreamInv, and   *)
(* is a step of Feed or one that the data queue does not see.              *)
(***************************************************************************)
EXTENDS Upstream, FiniteSetTheorems, TLAPS

-----------------------------------------------------------------------------
(* The client record. The types of its fields are given names, which stay  *)
(* folded where only the record matters.                                   *)

States == {"DISCONNECTED", "CONNECTING", "HANDSHAKE", "OPEN", "CLOSING"}
Events == SUBSET {"in", "out"}
TxStates == {"empty", "queued", "blocked"}
Flags == BOOLEAN
Positions == Nat
Frames == Seq(Nat)
Messages == Seq(Seq(Nat))
Attempts == 0..MaxAttempt
Waits == 0..30000
Records ==
    [state : States, fd : Flags, interest : Events, recvd : Positions, parsed : Positions,
     tx : TxStates, fragmenting : Flags, msg : Frames, pendingMsg : Messages,
     readPaused : Flags, attempt : Attempts, wait : Waits]

\* The records are the ClientType of the specification.
LEMMA SameRecords == ClientType = Records
  BY DEF ClientType, Records, States, Events, TxStates, Flags, Positions, Frames, Messages,
         Attempts, Waits

\* The fields of a client have their types.
LEMMA Fields ==
    ASSUME NEW r \in Records
    PROVE  /\ r.state \in States /\ r.fd \in Flags /\ r.interest \in Events
           /\ r.recvd \in Positions /\ r.parsed \in Positions /\ r.tx \in TxStates
           /\ r.fragmenting \in Flags /\ r.msg \in Frames /\ r.pendingMsg \in Messages
           /\ r.readPaused \in Flags /\ r.attempt \in Attempts /\ r.wait \in Waits
  BY DEF Records

\* What no operation but a pause, a disconnect or a connect changes, ...
Kept(q, r) ==
    /\ q.fd = r.fd /\ q.pendingMsg = r.pendingMsg /\ q.readPaused = r.readPaused
    /\ q.attempt = r.attempt /\ q.wait = r.wait
\* ... what the reading of data does not change either, ...
Untouched(q, r) ==
    Kept(q, r) /\ q.state = r.state /\ q.interest = r.interest /\ q.tx = r.tx
\* ... and what updateEvents() leaves behind.
Renewed(q) == q.interest = Wanted(q)
\* The delay after n failures in a row.
DelayAfter(n) == IF n < 5 THEN Delays[n + 1] ELSE 30000
\* A client put off once more.
Delayed(q, r) ==
    /\ q.attempt = IF r.attempt < MaxAttempt THEN r.attempt + 1 ELSE MaxAttempt
    /\ q.wait = DelayAfter(r.attempt)

\* The loop of reconnectDelayMs() doubles one second five times and is then cut.
LEMMA DelayValues == \A a \in Attempts : ReconnectDelayMs(a) = DelayAfter(a)
<1> DEFINE body(f) == [a \in 0..MaxAttempt |-> IF a = 0 THEN 1000
            ELSE IF f[a - 1] < 30000 THEN 2 * f[a - 1] ELSE f[a - 1]]
           g == [a \in 0..MaxAttempt |-> IF a = 0 THEN 1000 ELSE IF a = 1 THEN 2000
                  ELSE IF a = 2 THEN 4000 ELSE IF a = 3 THEN 8000
                  ELSE IF a = 4 THEN 16000 ELSE 32000]
           d == CHOOSE f : f = body(f)
<1>1. g = body(g)
  BY DEF MaxAttempt
<1>3. \A a \in 0..MaxAttempt : ReconnectDelayMs(a) = IF d[a] > 30000 THEN 30000 ELSE d[a]
  BY DEF ReconnectDelayMs
<1>2. d = body(d)
  <2> HIDE DEF body, g
  <2>1. \E f : f = body(f)
    BY <1>1
  <2> QED
    BY <2>1
<1> HIDE DEF d, g
<1>4. /\ d[0] = 1000
      /\ \A a \in 0..9 : d[a + 1] = IF d[a] < 30000 THEN 2 * d[a] ELSE d[a]
  <2>1. \A a \in 0..MaxAttempt : d[a] = IF a = 0 THEN 1000
            ELSE IF d[a - 1] < 30000 THEN 2 * d[a - 1] ELSE d[a - 1]
    <3>1. \A a \in 0..MaxAttempt : body(d)[a] = IF a = 0 THEN 1000
            ELSE IF d[a - 1] < 30000 THEN 2 * d[a - 1] ELSE d[a - 1]
      OBVIOUS
    <3> HIDE DEF body
    <3> QED
      BY <1>2, <3>1
  <2>2. ASSUME NEW a \in 0..9 PROVE a + 1 \in 0..MaxAttempt /\ a + 1 # 0 /\ (a + 1) - 1 = a
    BY DEF MaxAttempt
  <2>3. d[0] = 1000
    BY <2>1 DEF MaxAttempt
  <2> QED
    BY <2>1, <2>2, <2>3
<1> HIDE DEF body
<1>5. d[1] = 2000 /\ d[2] = 4000 /\ d[3] = 8000 /\ d[4] = 16000
  <2>1. d[1] = 2000
    BY <1>4
  <2>2. d[2] = 4000
    BY <1>4, <2>1
  <2>3. d[3] = 8000
    BY <1>4, <2>2
  <2> QED
    BY <1>4, <2>1, <2>2, <2>3
<1>6. d[5] = 32000 /\ d[6] = 32000 /\ d[7] = 32000
      /\ d[8] = 32000 /\ d[9] = 32000 /\ d[10] = 32000
  <2>1. d[5] = 32000 /\ d[6] = 32000
    BY <1>4, <1>5
  <2>2. d[7] = 32000 /\ d[8] = 32000
    BY <1>4, <2>1
  <2> QED
    BY <1>4, <2>1, <2>2
<1>7. ASSUME NEW a \in 0..MaxAttempt
      PROVE  a \in {0, 1, 2, 3, 4, 5, 6, 7, 8, 9, 10}
  BY DEF MaxAttempt
<1>8. \A a \in 0..MaxAttempt : ReconnectDelayMs(a) = IF a < 5 THEN Delays[a + 1] ELSE 30000
  BY <1>3, <1>4, <1>5, <1>6, <1>7 DEF Delays
<1> QED
  BY <1>8 DEF DelayAfter, Attempts

\* Every delay is between one and thirty seconds.
LEMMA DelayRange == \A a \in Attempts : DelayAfter(a) \in Waits /\ DelayAfter(a) # 0
<1>1. ASSUME NEW a \in Attempts
      PROVE  a \in {0, 1, 2, 3, 4} \/ ~(a < 5)
  BY DEF Attempts, MaxAttempt
<1>2. \A a \in {0, 1, 2, 3, 4} : Delays[a + 1] \in {1000, 2000, 4000, 8000, 16000} /\ a < 5
  BY DEF Delays
<1>3. ASSUME NEW a \in Attempts
      PROVE  DelayAfter(a) \in {1000, 2000, 4000, 8000, 16000, 30000}
  BY <1>1, <1>2 DEF DelayAfter
<1>4. ASSUME NEW a \in Attempts
      PROVE  DelayAfter(a) \in Waits /\ DelayAfter(a) # 0
  <2>1. PICK d : d = DelayAfter(a)
    OBVIOUS
  <2>2. d \in {1000, 2000, 4000, 8000, 16000, 30000}
    BY <1>3, <2>1
  <2>3. d \in Waits /\ d # 0
    BY <2>2 DEF Waits
  <2> QED
    BY <2>1, <2>3
<1> QED
  BY <1>4

\* reconnectDelayMs() and the counter put a client off and touch nothing else.
LEMMA PutOffRecord ==
    ASSUME NEW r \in Records
    PROVE  /\ PutOff(r) \in Records /\ Delayed(PutOff(r), r)
           /\ PutOff(r).state = r.state /\ PutOff(r).fd = r.fd
           /\ PutOff(r).interest = r.interest /\ PutOff(r).tx = r.tx
           /\ PutOff(r).pendingMsg = r.pendingMsg /\ PutOff(r).readPaused = r.readPaused
<1> DEFINE w == ReconnectDelayMs(r.attempt)
           a == IF r.attempt < MaxAttempt THEN r.attempt + 1 ELSE r.attempt
<1>1. r.attempt \in 0..MaxAttempt
  BY Fields DEF Attempts
<1>2. w \in Waits /\ w = DelayAfter(r.attempt)
  BY Fields, DelayValues, DelayRange
<1>3. a \in Attempts
  BY <1>1 DEF Attempts, MaxAttempt
<1>6. a = IF r.attempt < MaxAttempt THEN r.attempt + 1 ELSE MaxAttempt
  BY <1>1 DEF MaxAttempt
<1>7. w \in Waits
  BY <1>2
<1>4. PutOff(r) = [r EXCEPT !.wait = w, !.attempt = a]
  BY DEF PutOff
<1> HIDE DEF w, a
<1>5. PutOff(r) \in Records /\ PutOff(r).attempt = a /\ PutOff(r).wait = w
      /\ PutOff(r).state = r.state /\ PutOff(r).fd = r.fd
           /\ PutOff(r).interest = r.interest /\ PutOff(r).tx = r.tx
           /\ PutOff(r).pendingMsg = r.pendingMsg /\ PutOff(r).readPaused = r.readPaused
  BY <1>3, <1>7, <1>4 DEF Records
<1> QED
  BY <1>2, <1>6, <1>5 DEF Delayed

\* calloc() in upstreamAdd() makes a client that is disconnected.
LEMMA FreshRecord ==
    /\ Fresh \in Records /\ Fresh.state = "DISCONNECTED"
    /\ Fresh.fd = FALSE /\ Fresh.readPaused = FALSE
    /\ Fresh.pendingMsg = <<>> /\ Fresh.attempt = 0 /\ Fresh.wait = 0
<1>1. /\ "DISCONNECTED" \in States /\ FALSE \in Flags /\ {} \in Events /\ 0 \in Positions
      /\ "empty" \in TxStates /\ <<>> \in Frames /\ <<>> \in Messages
      /\ 0 \in Attempts /\ 0 \in Waits
  BY DEF States, Flags, Events, Positions, TxStates, Frames, Messages, Attempts,
         Waits, MaxAttempt
<1> QED
  BY <1>1 DEF Records, Fresh

\* upstreamDisconnect() leaves a client without socket, pause or message.
LEMMA DisconnectedRecord ==
    ASSUME NEW r \in Records
    PROVE  /\ Disconnected(r) \in Records /\ Coherent(Disconnected(r))
           /\ Delayed(Disconnected(r), r)
           /\ Disconnected(r).state = "DISCONNECTED" /\ Disconnected(r).fd = FALSE
           /\ Disconnected(r).readPaused = FALSE
<1> DEFINE e == [Fresh EXCEPT !.attempt = r.attempt]
<1>1. e \in Records /\ e.attempt = r.attempt
      /\ e.state = "DISCONNECTED" /\ e.fd = FALSE /\ e.readPaused = FALSE /\ e.pendingMsg = <<>>
  BY Fields, FreshRecord DEF Records
<1>2. Disconnected(r) = PutOff(e)
  BY DEF Disconnected
<1> HIDE DEF e
<1>3. PutOff(e) \in Records /\ Delayed(PutOff(e), e) /\ PutOff(e).state = "DISCONNECTED"
      /\ PutOff(e).fd = FALSE /\ PutOff(e).readPaused = FALSE /\ PutOff(e).pendingMsg = <<>>
  BY <1>1, PutOffRecord
<1>4. Delayed(PutOff(e), r)
  BY <1>1, <1>3 DEF Delayed
<1> QED
  BY <1>2, <1>3, <1>4 DEF Coherent

\* updateEvents() leaves the registration that state, pause and tx want.
LEMMA EventsRecord ==
    ASSUME NEW r \in Records
    PROVE  /\ WithEvents(r) \in Records /\ Kept(WithEvents(r), r) /\ Renewed(WithEvents(r))
           /\ WithEvents(r).state = r.state /\ WithEvents(r).tx = r.tx
<1>1. Wanted(r) \in Events
  BY DEF Wanted, Events
<1>2. /\ WithEvents(r) \in Records /\ Kept(WithEvents(r), r)
      /\ WithEvents(r).state = r.state /\ WithEvents(r).tx = r.tx
      /\ WithEvents(r).interest = Wanted(r) /\ WithEvents(r).readPaused = r.readPaused
  BY <1>1 DEF WithEvents, Records, Kept
<1>3. Wanted(WithEvents(r)) = Wanted(r)
  BY <1>2 DEF Wanted
<1> QED
  BY <1>2, <1>3 DEF Renewed

\* queueMaskedFrame() fills tx and brings the registration up to date.
LEMMA FrameRecord ==
    ASSUME NEW r \in Records
    PROVE  /\ WithFrame(r) \in Records /\ Kept(WithFrame(r), r) /\ Renewed(WithFrame(r))
           /\ WithFrame(r).state = r.state
<1>1. (IF r.tx = "blocked" THEN r.tx ELSE "queued") \in TxStates
  BY DEF TxStates
<1>2. WithTx(r) \in Records /\ Kept(WithTx(r), r) /\ WithTx(r).state = r.state
  BY <1>1 DEF WithTx, Records, Kept
<1> QED
  BY <1>2, EventsRecord DEF WithFrame, Kept

\* An assignment to state touches nothing else.
LEMMA StateRecord ==
    ASSUME NEW r \in Records, NEW s \in States
    PROVE  /\ [r EXCEPT !.state = s] \in Records /\ Kept([r EXCEPT !.state = s], r)
           /\ [r EXCEPT !.state = s].state = s /\ [r EXCEPT !.state = s].interest = r.interest
           /\ [r EXCEPT !.state = s].tx = r.tx
  BY DEF Records, Kept

\* beginClose() sets the state before it queues the frame.
LEMMA ClosingRecord ==
    ASSUME NEW r \in Records
    PROVE  /\ Closing(r) \in Records /\ Kept(Closing(r), r) /\ Renewed(Closing(r))
           /\ Closing(r).state = "CLOSING"
<1>1. "CLOSING" \in States
  BY DEF States
<1> DEFINE q == [r EXCEPT !.state = "CLOSING"]
<1>2. q \in Records /\ Kept(q, r) /\ q.state = "CLOSING"
  BY <1>1, StateRecord
<1>3. Closing(r) = WithFrame(q)
  BY DEF Closing
<1> HIDE DEF q
<1>4. /\ WithFrame(q) \in Records /\ Kept(WithFrame(q), q)
      /\ Renewed(WithFrame(q)) /\ WithFrame(q).state = q.state
  BY <1>2, FrameRecord
<1> QED
  BY <1>2, <1>3, <1>4 DEF Kept

\* A frame taken out of rx touches nothing of the connection.
LEMMA ConsumeRecord ==
    ASSUME NEW r \in Records
    PROVE  /\ Consume(r) \in Records /\ Untouched(Consume(r), r)
           /\ Consume(r).parsed = r.parsed + 1
           /\ Consume(r).msg = r.msg /\ Consume(r).fragmenting = r.fragmenting
<1>1. r.parsed + 1 \in Positions
  BY Fields DEF Positions
<1> QED
  BY <1>1 DEF Consume, Records, Untouched, Kept

\* A frame copied to msg touches nothing of the connection.
LEMMA DataRecord ==
    ASSUME NEW r \in Records, NEW p \in Nat
    PROVE  WithData(r, p) \in Records /\ Untouched(WithData(r, p), r)
<1> DEFINE m == IF r.fragmenting THEN Append(r.msg, p) ELSE <<p>>
<1>1. m \in Frames
  BY Fields DEF Frames
<1>2. WithData(r, p) = [Consume(r) EXCEPT !.msg = m, !.fragmenting = TRUE]
  BY ConsumeRecord DEF WithData
<1>3. TRUE \in Flags
  BY DEF Flags
<1> DEFINE q == Consume(r)
<1>4. q \in Records /\ Untouched(q, r)
  BY ConsumeRecord
<1> HIDE DEF m, q
<1>5. [q EXCEPT !.msg = m, !.fragmenting = TRUE] \in Records
  BY <1>1, <1>3, <1>4 DEF Records
<1>6. Untouched([q EXCEPT !.msg = m, !.fragmenting = TRUE], q)
  BY <1>4 DEF Records, Untouched, Kept
<1> QED
  BY <1>2, <1>4, <1>5, <1>6 DEF q, Untouched, Kept

\* A completed message touches nothing of the connection.
LEMMA CompletedRecord ==
    ASSUME NEW r \in Records
    PROVE  Completed(r) \in Records /\ Untouched(Completed(r), r)
<1>1. r.parsed + 1 \in Nat
  BY Fields DEF Positions
<1>2. FALSE \in Flags
  BY DEF Flags
<1> DEFINE d == WithData(r, r.parsed + 1)
<1>3. d \in Records /\ Untouched(d, r)
  BY <1>1, DataRecord
<1>4. Completed(r) = [d EXCEPT !.fragmenting = FALSE]
  BY DEF Completed
<1> HIDE DEF d
<1> QED
  BY <1>2, <1>3, <1>4 DEF Records, Untouched, Kept

\* Reading of data keeps a client coherent.
LEMMA UntouchedCoherent ==
    ASSUME NEW r, NEW q, Coherent(r), Untouched(q, r)
    PROVE  Coherent(q)
  BY DEF Coherent, Untouched, Kept, Wanted

-----------------------------------------------------------------------------
(* What a step does to the clients *)

ClientsInv ==
    /\ client \in [Clients -> Records]
    /\ streak \in [Clients -> Nat]
    /\ \A c \in Clients : Coherent(client[c]) /\ AttemptIs(client[c], streak[c])

NetRecords ==
    [link : {"none", "connecting", "up", "broken"},
     fin : BOOLEAN, sent : Nat, conn : Nat]

RestOK ==
    /\ net \in [Clients -> NetRecords]
    /\ size \in Nat /\ others \in [checked : 0..MaxOthers, hand : 0..Others]
    /\ loop \in {"top", "reconnect", "resume", "wait", "batch", "done"}
    /\ idx \in 0..(N + 1)
    /\ DOMAIN batch \subseteq Clients
    /\ \A c \in DOMAIN batch : batch[c] \subseteq {"in", "out", "err", "hup"}
    /\ cur \in 0..N
    /\ hpc \in {"idle", "out", "in", "frames", "push", "resume", "recv", "hup"}
    /\ shutdown \in BOOLEAN
    /\ fed \in Seq(Clients \X Nat \X Seq(Nat))

Parts == ClientsInv /\ RestOK /\ HandlerInv

\* The inductive invariant in parts: clients, handler, the types of the rest, and
\* the room in the data queue, which has an argument of its own.
LEMMA PartsOfInv == IndInv <=> Parts /\ QueueRoom
  BY SameRecords DEF IndInv, TypeOK, ClientsInv, RestOK, Parts, NetRecords

BackoffStep ==
    \A c \in Clients :
        client[c].wait = 0 /\ client'[c].wait # 0 =>
            client'[c].wait = DelayAfter(streak[c])

\* The attempts of a client put off count the failures in a row, and its delay is
\* that of the failures before this one.
LEMMA DelayedClient ==
    ASSUME NEW r, NEW q, NEW n \in Nat, AttemptIs(r, n), Delayed(q, r)
    PROVE  AttemptIs(q, n + 1) /\ q.wait = DelayAfter(n)
  BY DEF AttemptIs, Delayed, DelayAfter, MaxAttempt

\* A step that replaces one coherent client by another keeps them all coherent.
LEMMA Replaced ==
    ASSUME ClientsInv, NEW c \in Clients, NEW q \in Records, NEW n \in Nat,
           Coherent(q), AttemptIs(q, n),
           q.wait \in {0, client[c].wait, DelayAfter(streak[c])},
           client' = [client EXCEPT ![c] = q],
           streak' = [streak EXCEPT ![c] = n]
    PROVE  /\ ClientsInv' /\ BackoffStep
           /\ client'[c] = q /\ \A d \in Clients \ {c} : client'[d] = client[d]
<1>1. client' \in [Clients -> Records] /\ client'[c] = q
      /\ \A d \in Clients \ {c} : client'[d] = client[d]
  BY DEF ClientsInv
<1>2. streak' \in [Clients -> Nat] /\ streak'[c] = n
      /\ \A d \in Clients \ {c} : streak'[d] = streak[d]
  BY DEF ClientsInv
<1>3. \A d \in Clients : Coherent(client'[d]) /\ AttemptIs(client'[d], streak'[d])
  BY <1>1, <1>2 DEF ClientsInv
<1>4. BackoffStep
  BY <1>1, Zenon DEF BackoffStep
<1> QED
  BY <1>1, <1>2, <1>3, <1>4 DEF ClientsInv

\* So does one that keeps the attempts and the delay.
LEMMA KeptClient ==
    ASSUME ClientsInv, NEW c \in Clients, NEW q \in Records,
           Coherent(q), Kept(q, client[c]),
           client' = [client EXCEPT ![c] = q], UNCHANGED streak
    PROVE  /\ ClientsInv' /\ BackoffStep
           /\ client'[c] = q /\ \A d \in Clients \ {c} : client'[d] = client[d]
<1>1. streak[c] \in Nat /\ streak' = [streak EXCEPT ![c] = streak[c]]
  BY DEF ClientsInv
<1>2. AttemptIs(q, streak[c]) /\ q.wait = client[c].wait
  BY DEF ClientsInv, AttemptIs, Kept
<1> QED
  BY <1>1, <1>2, Replaced

\* A step that changes no client keeps them coherent.
LEMMA UnchangedClients ==
    ASSUME ClientsInv, UNCHANGED <<client, streak>>
    PROVE  ClientsInv' /\ BackoffStep
  BY DEF ClientsInv, BackoffStep

\* upstreamDisconnect() keeps all clients coherent and leaves the others alone.
LEMMA DropClient ==
    ASSUME ClientsInv, cur \in Clients, Drop
    PROVE  /\ ClientsInv' /\ BackoffStep
           /\ client'[cur].state = "DISCONNECTED" /\ ~client'[cur].readPaused
           /\ \A d \in Clients \ {cur} : client'[d] = client[d]
<1> DEFINE r == client[cur]  q == Disconnected(r)
<1>1. r \in Records /\ AttemptIs(r, streak[cur]) /\ streak[cur] \in Nat
  BY DEF ClientsInv
<1>2. /\ q \in Records /\ Coherent(q) /\ Delayed(q, r)
      /\ q.state = "DISCONNECTED" /\ q.readPaused = FALSE
  BY <1>1, DisconnectedRecord
<1>3. client' = [client EXCEPT ![cur] = q] /\ streak' = [streak EXCEPT ![cur] = streak[cur] + 1]
  BY DEF Drop
<1> HIDE DEF q
<1>4. AttemptIs(q, streak[cur] + 1) /\ q.wait = DelayAfter(streak[cur])
      /\ streak[cur] + 1 \in Nat
  BY <1>1, <1>2, DelayedClient
<1> QED
  BY <1>2, <1>3, <1>4, Replaced

-----------------------------------------------------------------------------
(* The steps outside the reactor *)

\* The reactor starts with clients that are all to be connected.
LEMMA InitInv == Init => Parts
<1> SUFFICES ASSUME Init PROVE Parts
  OBVIOUS
<1>1. Coherent(Fresh) /\ AttemptIs(Fresh, 0)
  BY FreshRecord DEF Coherent, AttemptIs, MaxAttempt
<1>2. ClientsInv
  BY <1>1, FreshRecord DEF Init, ClientsInv
<1>3. RestOK
  <2>1. \A c \in Clients : NoNet(0) \in NetRecords
    BY DEF NoNet, NetRecords
  <2>2. DOMAIN NoBatch = {}
    BY DEF NoBatch
  <2>3. fed \in Seq(Clients \X Nat \X Seq(Nat))
    BY DEF Init
  <2>4. net \in [Clients -> NetRecords]
    BY <2>1 DEF Init
  <2>5. DOMAIN batch = {}
    BY <2>2 DEF Init
  <2>6. idx \in 0..(N + 1) /\ cur \in 0..N /\ size \in Nat
        /\ others \in [checked : 0..MaxOthers, hand : 0..Others]
    BY ClientAssumption, OthersAssumption DEF Init
  <2> QED
    BY <2>3, <2>4, <2>5, <2>6 DEF Init, RestOK
<1>4. HandlerInv
  BY DEF Init, HandlerInv
<1> QED
  BY <1>2, <1>3, <1>4 DEF Parts

\* The network and the servers: connect() ends, data and ends of stream arrive.
LEMMA NetworkStep ==
    ASSUME Parts, NEW c \in Clients, Accept(c) \/ Break(c) \/ PeerSend(c) \/ PeerFin(c)
    PROVE  Parts' /\ BackoffStep
<1>1. ClientsInv /\ RestOK /\ HandlerInv
  BY DEF Parts
<1>2. UNCHANGED <<client, size, others, loopVars, shutdown, streak, fed>>
  BY DEF Accept, Break, PeerSend, PeerFin
<1>3. ClientsInv' /\ BackoffStep
  BY <1>1, <1>2, UnchangedClients
<1>4. net' \in [Clients -> NetRecords]
  <2>1. net \in [Clients -> NetRecords] /\ net[c] \in NetRecords
    BY <1>1 DEF RestOK
  <2>2. ASSUME NEW n \in NetRecords
        PROVE  /\ \A l \in {"up", "broken"} : [n EXCEPT !.link = l] \in NetRecords
               /\ [n EXCEPT !.sent = @ + 1] \in NetRecords
               /\ [n EXCEPT !.fin = TRUE] \in NetRecords
    <3>1. \A l \in {"up", "broken"} : [n EXCEPT !.link = l] \in NetRecords
      BY DEF NetRecords
    <3>2. [n EXCEPT !.sent = @ + 1] \in NetRecords
      BY DEF NetRecords
    <3>3. [n EXCEPT !.fin = TRUE] \in NetRecords
      BY DEF NetRecords
    <3> QED
      BY <3>1, <3>2, <3>3
  <2>3. CASE Accept(c)
    <3>1. net' = [net EXCEPT ![c] = [net[c] EXCEPT !.link = "up"]]
      BY <2>1, <2>3 DEF Accept
    <3> QED
      BY <2>1, <2>2, <3>1
  <2>4. CASE Break(c)
    <3>1. net' = [net EXCEPT ![c] = [net[c] EXCEPT !.link = "broken"]]
      BY <2>1, <2>4 DEF Break
    <3> QED
      BY <2>1, <2>2, <3>1
  <2>5. CASE PeerSend(c)
    <3>1. net' = [net EXCEPT ![c] = [net[c] EXCEPT !.sent = @ + 1]]
      BY <2>1, <2>5 DEF PeerSend
    <3> QED
      BY <2>1, <2>2, <3>1
  <2>6. CASE PeerFin(c)
    <3>1. net' = [net EXCEPT ![c] = [net[c] EXCEPT !.fin = TRUE]]
      BY <2>1, <2>6 DEF PeerFin
    <3> QED
      BY <2>1, <2>2, <3>1
  <2> QED
    BY <2>3, <2>4, <2>5, <2>6
<1>5. RestOK' /\ HandlerInv'
  BY <1>1, <1>2, <1>4 DEF RestOK, HandlerInv, loopVars
<1> QED
  BY <1>3, <1>5 DEF Parts

\* The points of the loop and the handler look at no more of a client than this.
LEMMA HandlerFrame ==
    ASSUME RestOK, HandlerInv, UNCHANGED <<size, loopVars>>,
           \A c \in Clients : /\ client'[c].fd = client[c].fd
                              /\ client'[c].state = client[c].state
                              /\ client'[c].readPaused = client[c].readPaused
    PROVE  HandlerInv'
<1>1. cur \in Clients \/ cur = 0
  BY ClientAssumption DEF RestOK, Clients
<1>2. UNCHANGED <<loop, idx, batch, cur, hpc, size>>
  BY DEF loopVars
<1>3. \A c \in DOMAIN batch : c \in Clients
  BY DEF RestOK
<1>4. \A c \in DOMAIN batch : /\ client'[c].fd = client[c].fd
                              /\ client'[c].readPaused = client[c].readPaused
  BY <1>3
<1>5. cur # 0 => /\ client'[cur].state = client[cur].state
                 /\ client'[cur].readPaused = client[cur].readPaused
  BY <1>1
<1> QED
  BY <1>2, <1>4, <1>5 DEF HandlerInv

\* The peer reads from a full socket: tx holds bytes before and after.
LEMMA PeerDrainStep ==
    ASSUME Parts, NEW c \in Clients, PeerDrain(c)
    PROVE  Parts' /\ BackoffStep
<1>1. ClientsInv /\ RestOK /\ HandlerInv
  BY DEF Parts
<1> DEFINE r == client[c]  q == [r EXCEPT !.tx = "queued"]
<1>2. r \in Records /\ Coherent(r) /\ r.tx = "blocked"
  BY <1>1 DEF ClientsInv, PeerDrain
<1>3. q \in Records /\ Kept(q, r) /\ q.tx = "queued"
      /\ q.state = r.state /\ q.interest = r.interest
  <2>1. "queued" \in TxStates
    BY DEF TxStates
  <2> QED
    BY <1>2, <2>1 DEF Records, Kept
<1>4. client' = [client EXCEPT ![c] = q]
  BY <1>1 DEF PeerDrain, ClientsInv
<1> HIDE DEF q
<1>5. Coherent(q)
  BY <1>2, <1>3 DEF Coherent, Wanted, Kept
<1>6. UNCHANGED <<net, size, others, loopVars, shutdown, streak, fed>>
  BY DEF PeerDrain
<1>7. /\ ClientsInv' /\ BackoffStep
      /\ client'[c] = q /\ \A d \in Clients \ {c} : client'[d] = client[d]
  BY <1>1, <1>3, <1>4, <1>5, <1>6, KeptClient
<1>8. \A d \in Clients : /\ client'[d].fd = client[d].fd /\ client'[d].state = client[d].state
                         /\ client'[d].readPaused = client[d].readPaused
  BY <1>3, <1>7 DEF Kept
<1>9. RestOK'
  BY <1>1, <1>6 DEF RestOK, loopVars
<1>10. HandlerInv'
  BY <1>1, <1>6, <1>8, HandlerFrame
<1> QED
  BY <1>7, <1>9, <1>10 DEF Parts

\* The time of the next attempt comes.
LEMMA ElapseStep ==
    ASSUME Parts, NEW c \in Clients, Elapse(c)
    PROVE  Parts' /\ BackoffStep
<1>1. ClientsInv /\ RestOK /\ HandlerInv
  BY DEF Parts
<1> DEFINE r == client[c]  q == [r EXCEPT !.wait = 0]
<1>2. r \in Records /\ Coherent(r) /\ AttemptIs(r, streak[c]) /\ streak[c] \in Nat
  BY <1>1 DEF ClientsInv
<1>3. /\ q \in Records /\ q.wait = 0 /\ q.attempt = r.attempt
      /\ q.state = r.state /\ q.fd = r.fd /\ q.interest = r.interest /\ q.tx = r.tx
      /\ q.readPaused = r.readPaused /\ q.pendingMsg = r.pendingMsg
  <2>1. 0 \in Waits
    BY DEF Waits
  <2> QED
    BY <1>2, <2>1 DEF Records
<1>4. client' = [client EXCEPT ![c] = q] /\ streak' = [streak EXCEPT ![c] = streak[c]]
  BY <1>1 DEF Elapse, ClientsInv
<1> HIDE DEF q
<1>5. Coherent(q) /\ AttemptIs(q, streak[c])
  BY <1>2, <1>3 DEF Coherent, Wanted, AttemptIs
<1>6. UNCHANGED <<net, size, others, loopVars, shutdown, streak, fed>>
  BY DEF Elapse
<1>7. /\ ClientsInv' /\ BackoffStep
      /\ client'[c] = q /\ \A d \in Clients \ {c} : client'[d] = client[d]
  BY <1>1, <1>2, <1>3, <1>4, <1>5, Replaced
<1>8. \A d \in Clients : /\ client'[d].fd = client[d].fd /\ client'[d].state = client[d].state
                         /\ client'[d].readPaused = client[d].readPaused
  BY <1>3, <1>7
<1>9. RestOK'
  BY <1>1, <1>6 DEF RestOK, loopVars
<1>10. HandlerInv'
  BY <1>1, <1>6, <1>8, HandlerFrame
<1> QED
  BY <1>7, <1>9, <1>10 DEF Parts

\* The other threads at the data queue, and main().
LEMMA OthersStep ==
    ASSUME Parts, OthersCheck \/ OthersPush \/ AggTake \/ Stop
    PROVE  Parts' /\ BackoffStep
<1>1. ClientsInv /\ RestOK /\ HandlerInv
  BY DEF Parts
<1>2. UNCHANGED <<net, client, loopVars, streak, fed>>
  BY DEF OthersCheck, OthersPush, AggTake, Stop
<1>3. ClientsInv' /\ BackoffStep
  BY <1>1, <1>2, UnchangedClients
<1>4. /\ size' \in Nat /\ shutdown' \in BOOLEAN
      /\ others' \in [checked : 0..MaxOthers, hand : 0..Others]
  <2>1. /\ size \in Nat /\ shutdown \in BOOLEAN
        /\ others \in [checked : 0..MaxOthers, hand : 0..Others]
        /\ MaxOthers \in Nat /\ Others \in Nat
    BY <1>1, OthersAssumption DEF RestOK
  <2>2. CASE OthersPush
    BY <2>1, <2>2 DEF OthersPush
  <2>5. CASE OthersCheck
    BY <2>1, <2>5 DEF OthersCheck
  <2>3. CASE AggTake
    BY <2>1, <2>3 DEF AggTake
  <2>4. CASE Stop
    BY <2>1, <2>4 DEF Stop
  <2> QED
    BY <2>2, <2>3, <2>4, <2>5
<1>5. RestOK' /\ HandlerInv'
  BY <1>1, <1>2, <1>4 DEF RestOK, HandlerInv, loopVars
<1> QED
  BY <1>3, <1>5 DEF Parts

-----------------------------------------------------------------------------
(* The loop of the reactor *)

\* Steps of the loop that touch no client.
LEMMA LoopOnly ==
    ASSUME Parts, Turn \/ NotDue \/ ResumeCheck \/ ResumeNext \/ BatchDone
    PROVE  Parts' /\ BackoffStep
<1>1. ClientsInv /\ RestOK /\ HandlerInv
  BY DEF Parts
<1>2. UNCHANGED <<net, client, size, others, batch, shutdown, streak, fed>>
  BY DEF Turn, NotDue, ResumeCheck, ResumeNext, BatchDone
<1>3. ClientsInv' /\ BackoffStep
  BY <1>1, <1>2, UnchangedClients
<1>4. /\ N \in Nat /\ HWM \in Nat /\ size \in Nat /\ idx \in 0..(N + 1) /\ cur \in 0..N
  BY <1>1, ClientAssumption, MarksAssumption DEF RestOK
<1>5. CASE Turn
  <2>1. loop' \in {"done", "reconnect"} /\ idx' \in 0..(N + 1) /\ hpc' = hpc /\ cur' = cur
    BY <1>4, <1>5 DEF Turn
  <2>2. hpc = "idle"
    BY <1>1, <1>5 DEF Turn, HandlerInv
  <2> QED
    BY <1>1, <1>2, <1>3, <2>1, <2>2 DEF RestOK, HandlerInv, Parts
<1>6. CASE NotDue
  <2>1. loop' = loop /\ loop = "reconnect" /\ idx' \in 0..(N + 1) /\ hpc' = hpc /\ cur' = cur
    BY <1>4, <1>6 DEF NotDue, Reconnecting, Clients
  <2>2. hpc = "idle"
    BY <1>1, <2>1 DEF HandlerInv
  <2> QED
    BY <1>1, <1>2, <1>3, <2>1, <2>2 DEF RestOK, HandlerInv, Parts
<1>7. CASE ResumeCheck
  <2>1. loop' \in {"wait", "resume"} /\ loop = "reconnect" /\ idx' \in 0..(N + 1)
        /\ hpc' = hpc /\ cur' = cur
    BY <1>4, <1>7 DEF ResumeCheck
  <2>2. hpc = "idle"
    BY <1>1, <2>1 DEF HandlerInv
  <2> QED
    BY <1>1, <1>2, <1>3, <2>1, <2>2 DEF RestOK, HandlerInv, Parts
<1>8. CASE ResumeNext
  <2>1. loop = "resume" /\ hpc = "idle" /\ cur = 0
    BY <1>1, <1>8 DEF ResumeNext, Resuming, HandlerInv
  <2>2. \/ /\ loop' \in {"resume", "wait"} /\ idx' \in 0..(N + 1)
           /\ hpc' = "idle" /\ cur' = 0
        \/ /\ loop' = "resume" /\ idx' = idx /\ hpc' = "resume" /\ cur' = idx
           /\ idx \in Clients /\ client[idx].readPaused
    <3>1. CASE idx \in Clients
      BY <1>4, <1>8, <2>1, <3>1 DEF ResumeNext, Clients
    <3>2. CASE idx \notin Clients
      BY <1>4, <1>8, <2>1, <3>2 DEF ResumeNext
    <3> QED
      BY <3>1, <3>2
  <2>3. CASE hpc' = "idle"
    BY <1>1, <1>2, <1>3, <2>1, <2>2, <2>3, <1>4 DEF RestOK, HandlerInv, Parts
  <2>4. CASE hpc' = "resume"
    <3>1. idx \in 1..N /\ idx # 0
      BY <2>2, <2>4, <1>4 DEF Clients
    <3>2. RestOK'
      BY <1>1, <1>2, <1>4, <2>2, <2>4, <3>1 DEF RestOK
    <3>3. HandlerInv'
      BY <1>1, <1>2, <2>2, <2>4, <3>1 DEF HandlerInv
    <3> QED
      BY <1>3, <3>2, <3>3 DEF Parts
  <2> QED
    BY <2>2, <2>3, <2>4
<1>9. CASE BatchDone
  <2>1. loop' = "top" /\ idx' = idx /\ hpc' = hpc /\ cur' = cur /\ hpc = "idle"
    BY <1>9 DEF BatchDone
  <2> QED
    BY <1>1, <1>2, <1>3, <2>1 DEF RestOK, HandlerInv, Parts
<1> QED
  BY <1>5, <1>6, <1>7, <1>8, <1>9

\* epoll_wait() reports a client only if it has a socket, and EPOLLIN only if it is
\* not paused.
LEMMA WaitStep ==
    ASSUME Parts, Wait
    PROVE  Parts' /\ BackoffStep
<1>1. ClientsInv /\ RestOK /\ HandlerInv
  BY DEF Parts
<1>2. UNCHANGED <<net, client, size, others, idx, cur, hpc, shutdown, streak, fed>>
      /\ loop = "wait" /\ loop' = "batch"
      /\ batch' = [c \in {d \in Clients : Mask(d) # {}} |-> Mask(c)]
  BY DEF Wait
<1>3. ClientsInv' /\ BackoffStep
  BY <1>1, <1>2, UnchangedClients
<1>4. ASSUME NEW c \in Clients, Mask(c) # {}
      PROVE  /\ client[c].fd /\ Mask(c) \subseteq {"in", "out", "err", "hup"}
             /\ "in" \in Mask(c) => ~client[c].readPaused
  <2>1. Coherent(client[c]) /\ client[c] \in Records
    BY <1>1 DEF ClientsInv
  <2>2. client[c].fd /\ client[c].interest = Wanted(client[c])
    BY <1>4, <2>1 DEF Mask, Coherent
  <2>3. client[c].interest \subseteq {"in", "out"}
    BY <2>1, Fields DEF Events
  <2>4. "in" \in Mask(c) => "in" \in client[c].interest
    BY <1>4 DEF Mask
  <2> QED
    BY <2>2, <2>3, <2>4 DEF Mask, Wanted
<1>5. /\ DOMAIN batch' \subseteq Clients
      /\ \A c \in DOMAIN batch' :
             /\ client[c].fd /\ batch'[c] \subseteq {"in", "out", "err", "hup"}
             /\ "in" \in batch'[c] => ~client[c].readPaused
  BY <1>2, <1>4
<1>6. RestOK'
  BY <1>1, <1>2, <1>5 DEF RestOK
<1>7. hpc = "idle"
  BY <1>1, <1>2 DEF HandlerInv
<1>8. HandlerInv'
  BY <1>1, <1>2, <1>5, <1>7 DEF HandlerInv
<1> QED
  BY <1>3, <1>6, <1>8 DEF Parts

\* The next event of the batch: its client is still as epoll_wait() found it.
LEMMA HandleStep ==
    ASSUME Parts, NEW c \in Clients, Handle(c)
    PROVE  Parts' /\ BackoffStep
<1>1. ClientsInv /\ RestOK /\ HandlerInv
  BY DEF Parts
<1>2. /\ UNCHANGED <<net, client, size, others, loop, idx, batch, shutdown, streak, fed>>
      /\ loop = "batch" /\ hpc = "idle" /\ c \in DOMAIN batch /\ cur' = c /\ hpc' = "out"
  BY DEF Handle
<1>3. ClientsInv' /\ BackoffStep
  BY <1>1, <1>2, UnchangedClients
<1>4. c \in 0..N /\ c # 0 /\ cur = 0
  BY <1>1, <1>2, ClientAssumption DEF Clients, HandlerInv
<1>5. RestOK'
  BY <1>1, <1>2, <1>4 DEF RestOK
<1>6. \A d \in DOMAIN batch : d \in 1..N
  BY <1>1 DEF RestOK, Clients
<1>7. \A d \in DOMAIN batch : client[d].fd /\ ("in" \in batch[d] => ~client[d].readPaused)
  BY <1>1, <1>2, <1>4, <1>6 DEF HandlerInv
<1>8. HandlerInv'
  BY <1>1, <1>2, <1>4, <1>7 DEF HandlerInv
<1> QED
  BY <1>3, <1>5, <1>8 DEF Parts

\* A connect() on its way, or one that failed at once.
LEMMA ConnectStep ==
    ASSUME Parts, ConnectStarted \/ ConnectFailed \/ ConnectUnwatched
    PROVE  Parts' /\ BackoffStep
<1>1. ClientsInv /\ RestOK /\ HandlerInv
  BY DEF Parts
<1> DEFINE r == client[idx]
<1>2. /\ UNCHANGED <<size, others, loop, batch, cur, hpc, shutdown, fed>>
      /\ idx \in Clients /\ loop = "reconnect" /\ idx' = idx + 1
      /\ r.state = "DISCONNECTED" /\ r.wait = 0
  BY DEF ConnectStarted, ConnectFailed, ConnectUnwatched, Reconnecting, Due
<1>3. r \in Records /\ Coherent(r) /\ AttemptIs(r, streak[idx]) /\ streak[idx] \in Nat
  BY <1>1, <1>2 DEF ClientsInv
<1>4. ~r.fd /\ ~r.readPaused /\ r.pendingMsg = <<>>
  BY <1>2, <1>3 DEF Coherent
<1>5. net' \in [Clients -> NetRecords]
  <2>1. CASE ConnectStarted
    <3>1. [NoNet(net[idx].conn + 1) EXCEPT !.link = "connecting"] \in NetRecords
      <4>1. net[idx].conn \in Nat
        BY <1>1, <1>2 DEF RestOK, NetRecords
      <4>2. ASSUME NEW k \in Nat
            PROVE  [NoNet(k) EXCEPT !.link = "connecting"] \in NetRecords
        <5>1. NoNet(k) \in NetRecords
          BY DEF NoNet, NetRecords
        <5>2. \A n \in NetRecords : [n EXCEPT !.link = "connecting"] \in NetRecords
          BY DEF NetRecords
        <5> QED
          BY <5>1, <5>2
      <4> QED
        BY <4>1, <4>2
    <3> QED
      BY <1>1, <2>1, <3>1 DEF ConnectStarted, RestOK
  <2>2. CASE ConnectFailed \/ ConnectUnwatched
    BY <1>1, <2>2 DEF ConnectFailed, ConnectUnwatched, RestOK
  <2> QED
    BY <2>1, <2>2
<1>6. RestOK'
  BY <1>1, <1>2, <1>5, ClientAssumption DEF RestOK, Clients
<1>7. hpc = "idle" /\ cur = 0
  BY <1>1, <1>2 DEF HandlerInv
<1>8. HandlerInv'
  BY <1>1, <1>2, <1>7 DEF HandlerInv
<1>9. ClientsInv' /\ BackoffStep
  <2>1. CASE ConnectStarted
    <3> DEFINE q == [r EXCEPT !.state = "CONNECTING", !.fd = TRUE, !.interest = {"out"}]
    <3>1. "CONNECTING" \in States /\ TRUE \in Flags /\ {"out"} \in Events
      BY DEF States, Flags, Events
    <3>2. /\ q \in Records /\ q.state = "CONNECTING" /\ q.fd = TRUE /\ q.interest = {"out"}
          /\ q.pendingMsg = r.pendingMsg /\ q.readPaused = r.readPaused
          /\ q.attempt = r.attempt /\ q.wait = r.wait
      BY <1>3, <3>1 DEF Records
    <3>3. client' = [client EXCEPT ![idx] = q] /\ streak' = [streak EXCEPT ![idx] = streak[idx]]
      BY <1>1, <1>2, <2>1 DEF ConnectStarted, ClientsInv
    <3> HIDE DEF q
    <3>4. Coherent(q) /\ AttemptIs(q, streak[idx])
      BY <1>3, <1>4, <3>2 DEF Coherent, AttemptIs, Wanted
    <3> QED
      BY <1>1, <1>2, <1>3, <3>2, <3>3, <3>4, Replaced
  <2>2. CASE ConnectFailed
    <3> DEFINE q == PutOff(r)
    <3>1. /\ q \in Records /\ Delayed(q, r) /\ q.state = "DISCONNECTED" /\ q.fd = r.fd
          /\ q.pendingMsg = r.pendingMsg /\ q.readPaused = r.readPaused
      BY <1>2, <1>3, PutOffRecord
    <3>2. client' = [client EXCEPT ![idx] = q]
          /\ streak' = [streak EXCEPT ![idx] = streak[idx] + 1]
      BY <2>2 DEF ConnectFailed
    <3> HIDE DEF q
    <3>3. Coherent(q)
      BY <1>4, <3>1 DEF Coherent
    <3>4. AttemptIs(q, streak[idx] + 1) /\ q.wait = DelayAfter(streak[idx])
          /\ streak[idx] + 1 \in Nat
      BY <1>3, <3>1, DelayedClient
    <3> QED
      BY <1>1, <1>2, <3>1, <3>2, <3>3, <3>4, Replaced
  <2>3. CASE ConnectUnwatched
    <3> DEFINE e == [r EXCEPT !.state = "CONNECTING"]  q == PutOff(e)
    <3>1. "CONNECTING" \in States
      BY DEF States
    <3>2. e \in Records /\ e.state = "CONNECTING" /\ Kept(e, r)
      BY <1>3, <3>1, StateRecord
    <3> HIDE DEF e
    <3>3. /\ q \in Records /\ Delayed(q, e) /\ q.state = "CONNECTING" /\ q.fd = e.fd
          /\ q.pendingMsg = e.pendingMsg /\ q.readPaused = e.readPaused
      BY <3>2, PutOffRecord
    <3>4. client' = [client EXCEPT ![idx] = q]
          /\ streak' = [streak EXCEPT ![idx] = streak[idx] + 1]
      BY <2>3 DEF ConnectUnwatched, e
    <3> HIDE DEF q
    <3>5. Coherent(q) /\ Delayed(q, r)
      BY <1>4, <3>2, <3>3 DEF Coherent, Kept, Delayed
    <3>6. AttemptIs(q, streak[idx] + 1) /\ q.wait = DelayAfter(streak[idx])
          /\ streak[idx] + 1 \in Nat
      BY <1>3, <3>5, DelayedClient
    <3> QED
      BY <1>1, <1>2, <3>3, <3>4, <3>5, <3>6, Replaced
  <2> QED
    BY <2>1, <2>2, <2>3
<1> QED
  BY <1>6, <1>8, <1>9 DEF Parts

-----------------------------------------------------------------------------
(* The handler *)

\* What the reactor holds of the client in hand.
InHand == /\ cur \in Clients /\ cur # 0 /\ client[cur] \in Records /\ Coherent(client[cur])
          /\ AttemptIs(client[cur], streak[cur]) /\ streak[cur] \in Nat

\* While a handler runs it has a client, and that client is coherent.
LEMMA Holding ==
    ASSUME Parts, hpc # "idle"
    PROVE  InHand
<1>1. ClientsInv /\ RestOK /\ HandlerInv
  BY DEF Parts
<1>2. cur \in Clients /\ cur # 0
  BY <1>1, ClientAssumption DEF RestOK, HandlerInv, Clients
<1> QED
  BY <1>1, <1>2 DEF ClientsInv, InHand

\* Return leaves the loop with nothing in hand and cur's events handled.
LEMMA ReturnInv ==
    ASSUME Parts, hpc # "idle", Return, loop' = loop,
           UNCHANGED size,
           \A d \in Clients \ {cur} : client'[d] = client[d]
    PROVE  /\ HandlerInv' /\ idx' \in 0..(N + 1) /\ cur' \in 0..N /\ hpc' = "idle"
           /\ DOMAIN batch' \subseteq Clients
           /\ \A c \in DOMAIN batch' : batch'[c] \subseteq {"in", "out", "err", "hup"}
<1>1. RestOK /\ HandlerInv
  BY DEF Parts
<1>2. cur \in 1..N /\ loop \in {"batch", "resume"} /\ N \in Nat
  BY Holding, <1>1, ClientAssumption DEF InHand, Clients, HandlerInv
<1>3. hpc' = "idle" /\ cur' = 0
  BY DEF Return
<1>4. CASE loop = "resume"
  <2>1. idx' = idx + 1 /\ batch' = batch /\ idx = cur
    BY <1>1, <1>4 DEF Return, HandlerInv
  <2>2. HandlerInv'
    BY <1>1, <1>3, <1>4, <2>1 DEF HandlerInv
  <2> QED
    BY <1>1, <1>2, <1>3, <2>1, <2>2 DEF RestOK
<1>5. CASE loop = "batch"
  <2>1. idx' = idx /\ batch' = [c \in DOMAIN batch \ {cur} |-> batch[c]]
    BY <1>5 DEF Return
  <2>2. /\ DOMAIN batch' = DOMAIN batch \ {cur}
        /\ \A d \in DOMAIN batch' : /\ d \in DOMAIN batch /\ d \in Clients \ {cur}
                                    /\ batch'[d] = batch[d]
    BY <1>1, <2>1 DEF RestOK
  <2>3. \A d \in DOMAIN batch' : /\ client'[d].fd
                                 /\ "in" \in batch'[d] => ~client'[d].readPaused
    BY <1>1, <1>5, <2>2 DEF HandlerInv
  <2>4. HandlerInv'
    BY <1>1, <1>3, <1>5, <2>3 DEF HandlerInv
  <2> QED
    BY <1>1, <1>2, <1>3, <2>1, <2>2, <2>4 DEF RestOK
<1> QED
  BY <1>2, <1>4, <1>5

\* upstreamDisconnect() keeps the invariant wherever the handler calls it.
LEMMA DropStep ==
    ASSUME Parts, hpc # "idle", Drop
    PROVE  Parts' /\ BackoffStep
<1>1. ClientsInv /\ RestOK /\ HandlerInv
  BY DEF Parts
<1>2. cur \in Clients
  BY Holding DEF InHand
<1>3. /\ ClientsInv' /\ BackoffStep
      /\ \A d \in Clients \ {cur} : client'[d] = client[d]
  BY <1>1, <1>2, DropClient
<1>4. UNCHANGED <<size, others, loop, shutdown, fed>> /\ Return
  BY DEF Drop
<1>5. /\ HandlerInv' /\ idx' \in 0..(N + 1) /\ cur' \in 0..N /\ hpc' = "idle"
      /\ DOMAIN batch' \subseteq Clients
      /\ \A c \in DOMAIN batch' : batch'[c] \subseteq {"in", "out", "err", "hup"}
  BY <1>3, <1>4, ReturnInv
<1>6. net' \in [Clients -> NetRecords]
  <2>1. net[cur].conn \in Nat
    BY <1>1, <1>2 DEF RestOK, NetRecords
  <2>2. NoNet(net[cur].conn) \in NetRecords
    BY <2>1 DEF NoNet, NetRecords
  <2>3. net' = [net EXCEPT ![cur] = NoNet(net[cur].conn)]
    BY DEF Drop
  <2> QED
    BY <1>1, <2>2, <2>3 DEF RestOK
<1>7. RestOK'
  BY <1>1, <1>4, <1>5, <1>6 DEF RestOK
<1> QED
  BY <1>3, <1>5, <1>7 DEF Parts

\* The handler goes on with its client, or returns, and the client keeps its
\* descriptor; it is still read if frames are to follow.
Leaves == Return /\ UNCHANGED size
Continues(q) ==
    /\ UNCHANGED <<idx, batch, cur>>
    /\ \/ size' = size
       \/ hpc \in {"push", "resume"} /\ size' = size + 1 /\ hpc' = "frames"
    /\ hpc' \in {"in", "frames", "push", "recv", "hup"}
    /\ hpc' = "in" => hpc = "out" /\ q.readPaused = client[cur].readPaused
    /\ hpc' \in {"in", "recv", "hup"} => loop = "batch"
    /\ hpc' \in {"frames", "push", "recv"} => q.state = "OPEN" /\ ~q.readPaused
Onward(q) ==
    /\ q \in Records /\ Coherent(q)
    /\ client' = [client EXCEPT ![cur] = q]
    /\ q.fd = client[cur].fd
    /\ UNCHANGED <<net, others, loop, shutdown>>
    /\ Leaves \/ Continues(q)

\* Going on with, or returning from, a client that is coherent keeps the invariant.
LEMMA OnwardInv ==
    ASSUME Parts, hpc # "idle", NEW q, Onward(q),
           fed' \in Seq(Clients \X Nat \X Seq(Nat)), ClientsInv', BackoffStep
    PROVE  Parts' /\ BackoffStep
<1>1. ClientsInv /\ RestOK /\ HandlerInv /\ InHand
  BY Holding DEF Parts
<1>2. UNCHANGED <<net, others, loop, shutdown>> /\ q.fd = client[cur].fd
  BY DEF Onward
<1>3. client'[cur] = q /\ \A d \in Clients \ {cur} : client'[d] = client[d]
  BY <1>1 DEF ClientsInv, InHand, Onward
<1>4. CASE Leaves
  <2>1. /\ HandlerInv' /\ idx' \in 0..(N + 1) /\ cur' \in 0..N /\ hpc' = "idle"
        /\ DOMAIN batch' \subseteq Clients
        /\ \A c \in DOMAIN batch' : batch'[c] \subseteq {"in", "out", "err", "hup"}
    BY <1>2, <1>3, <1>4, ReturnInv DEF Leaves
  <2> QED
    BY <1>1, <1>2, <1>4, <2>1 DEF RestOK, Parts, Leaves
<1>5. CASE Continues(q)
  <2>1. size' \in Nat
    BY <1>1, <1>5 DEF Continues, RestOK
  <2>2. RestOK'
    BY <1>1, <1>2, <1>5, <2>1 DEF RestOK, Continues
  <2>3. loop = "batch" =>
           \A d \in DOMAIN batch :
               /\ client'[d].fd
               /\ "in" \in batch[d] /\ (d = cur => hpc' \in {"out", "in"}) =>
                      ~client'[d].readPaused
    <3> SUFFICES ASSUME loop = "batch", NEW d \in DOMAIN batch
                 PROVE  /\ client'[d].fd
                        /\ "in" \in batch[d] /\ (d = cur => hpc' \in {"out", "in"}) =>
                               ~client'[d].readPaused
      OBVIOUS
    <3>1. d \in Clients /\ client[d].fd
      BY <1>1 DEF RestOK, HandlerInv
    <3>2. CASE d # cur
      BY <1>1, <1>3, <3>1, <3>2 DEF HandlerInv
    <3>3. CASE d = cur
      BY <1>1, <1>2, <1>3, <1>5, <3>1, <3>3 DEF HandlerInv, Continues
    <3> QED
      BY <3>2, <3>3
  <2>4. cur # 0 /\ loop \in {"batch", "resume"} /\ (loop = "resume" => cur = idx)
        /\ (loop = "batch" => cur \in DOMAIN batch)
    BY <1>1 DEF InHand, HandlerInv
  <2>5. HandlerInv'
    BY <1>2, <1>3, <1>5, <2>1, <2>3, <2>4 DEF HandlerInv, Continues
  <2> QED
    BY <2>2, <2>5 DEF Parts
<1> QED
  BY <1>4, <1>5 DEF Onward

\* resumePausedClients() pushes the message held back, and EPOLLIN comes back.
LEMMA ResumePushStep ==
    ASSUME Parts, ResumePush
    PROVE  Parts' /\ BackoffStep
<1>1. hpc = "resume" /\ hpc # "idle" /\ ClientsInv /\ RestOK /\ HandlerInv
  BY DEF ResumePush, Parts
<1>2. InHand
  BY <1>1, Holding
<1> DEFINE r == client[cur]
           p == [r EXCEPT !.pendingMsg = <<>>, !.readPaused = FALSE]
           q == WithEvents(p)
<1>3. r \in Records /\ Coherent(r) /\ r.readPaused /\ cur \in Clients
  BY <1>1, <1>2 DEF HandlerInv, InHand
<1>4. r.state = "OPEN" /\ r.pendingMsg # <<>> /\ r.fd = TRUE
  BY <1>3, Fields DEF Coherent, Flags
<1>5. /\ p \in Records /\ p.state = "OPEN" /\ p.fd = r.fd /\ p.pendingMsg = <<>>
      /\ p.readPaused = FALSE /\ p.attempt = r.attempt /\ p.wait = r.wait
  <2>1. <<>> \in Messages /\ FALSE \in Flags
    BY DEF Messages, Flags
  <2> QED
    BY <1>3, <1>4, <2>1 DEF Records
<1>6. client' = [client EXCEPT ![cur] = q] /\ streak' = [streak EXCEPT ![cur] = streak[cur]]
  BY <1>1 DEF ResumePush, ClientsInv
<1> HIDE DEF p
<1>7. q \in Records /\ Kept(q, p) /\ Renewed(q) /\ q.state = "OPEN"
  BY <1>5, EventsRecord
<1> HIDE DEF q
<1>8. Coherent(q) /\ AttemptIs(q, streak[cur]) /\ q.fd = r.fd /\ ~q.readPaused
      /\ q.wait = r.wait
  BY <1>2, <1>4, <1>5, <1>7 DEF Coherent, Kept, Renewed, AttemptIs, InHand
<1>9. ClientsInv' /\ BackoffStep
  BY <1>1, <1>2, <1>6, <1>7, <1>8, Replaced DEF InHand
<1>10. Onward(q)
  BY <1>1, <1>6, <1>7, <1>8 DEF Onward, Continues, ResumePush
<1>11. fed' \in Seq(Clients \X Nat \X Seq(Nat))
  <2>1. r.pendingMsg[1] \in Seq(Nat)
    <3>1. r.pendingMsg \in Seq(Seq(Nat))
      BY <1>3, Fields DEF Messages
    <3> QED
      BY <1>4, <3>1
  <2>2. net[cur].conn \in Nat
    BY <1>1, <1>3 DEF RestOK, NetRecords
  <2>3. <<cur, net[cur].conn, r.pendingMsg[1]>> \in Clients \X Nat \X Seq(Nat)
    BY <1>3, <2>1, <2>2
  <2>4. fed' = Append(fed, <<cur, net[cur].conn, r.pendingMsg[1]>>)
        /\ fed \in Seq(Clients \X Nat \X Seq(Nat))
    BY <1>1 DEF ResumePush, RestOK
  <2> QED
    BY <2>3, <2>4
<1> QED
  BY <1>1, <1>9, <1>10, <1>11, OnwardInv

\* Steps of the handler that change nothing of the client.
LEMMA PassStep ==
    ASSUME Parts, hpc # "idle",
           UNCHANGED <<net, client, size, others, loop, shutdown, streak, fed>>,
           Return \/ Continues(client[cur])
    PROVE  Parts' /\ BackoffStep
<1> DEFINE q == client[cur]
<1>1. ClientsInv /\ RestOK /\ InHand
  BY Holding DEF Parts
<1>2. ClientsInv' /\ BackoffStep
  BY <1>1, UnchangedClients
<1>3. client' = [client EXCEPT ![cur] = q]
  BY <1>1 DEF ClientsInv
<1>4. q \in Records /\ Coherent(q) /\ q.fd = client[cur].fd
  BY <1>1 DEF InHand
<1>5. Leaves \/ Continues(q)
  BY DEF Leaves
<1>6. Onward(q)
  BY <1>3, <1>4, <1>5 DEF Onward
<1>7. fed' \in Seq(Clients \X Nat \X Seq(Nat))
  BY <1>1 DEF RestOK
<1> QED
  BY <1>2, <1>6, <1>7, OnwardInv

\* Steps of the handler that change the client but not its attempts.
LEMMA KeepStep ==
    ASSUME Parts, hpc # "idle", NEW q, Onward(q), Kept(q, client[cur]), UNCHANGED streak,
           fed' \in Seq(Clients \X Nat \X Seq(Nat))
    PROVE  Parts' /\ BackoffStep
<1>1. ClientsInv /\ RestOK /\ InHand
  BY Holding DEF Parts
<1>2. streak' = [streak EXCEPT ![cur] = streak[cur]]
  BY <1>1 DEF ClientsInv
<1>3. AttemptIs(q, streak[cur]) /\ q.wait = client[cur].wait
  BY <1>1 DEF InHand, AttemptIs, Kept
<1>4. ClientsInv' /\ BackoffStep
  BY <1>1, <1>2, <1>3, Replaced DEF Onward, InHand
<1> QED
  BY <1>4, OnwardInv

\* The part before the frames: the error, the connect, the output.
LEMMA OutputStep ==
    ASSUME Parts,
           \/ EventError \/ ConnectComplete
           \/ FlushAll \/ FlushSome \/ FlushError \/ NoOutput
    PROVE  Parts' /\ BackoffStep
<1>1. hpc = "out" /\ hpc # "idle" /\ ClientsInv /\ RestOK /\ HandlerInv
  BY DEF EventError, ConnectComplete, FlushAll, FlushSome, FlushError, NoOutput, Parts
<1>2. InHand /\ loop = "batch"
  BY <1>1, Holding DEF HandlerInv
<1>0. fed \in Seq(Clients \X Nat \X Seq(Nat))
  BY <1>1 DEF RestOK
<1> DEFINE r == client[cur]
<1>3. r \in Records /\ Coherent(r) /\ r.fd = TRUE
  BY <1>1, <1>2, Fields DEF InHand, HandlerInv, Flags
<1>4. CASE EventError \/ FlushError
  BY <1>1, <1>4, DropStep DEF EventError, FlushError
<1>5. CASE NoOutput
  <2>1. UNCHANGED <<net, client, size, others, loop, idx, batch, cur, shutdown, streak, fed>>
        /\ hpc' = "in"
    BY <1>5 DEF NoOutput
  <2>2. Continues(r)
    BY <1>1, <1>2, <2>1 DEF Continues
  <2> QED
    BY <1>1, <2>1, <2>2, PassStep
<1>6. CASE ConnectComplete
  <2>1. CASE net[cur].link = "broken"
    BY <1>1, <1>6, <2>1, DropStep DEF ConnectComplete
  <2>2. CASE net[cur].link # "broken"
    <3> DEFINE p == [r EXCEPT !.state = "HANDSHAKE"]  q == WithFrame(p)
    <3>1. "HANDSHAKE" \in States
      BY DEF States
    <3>2. p \in Records /\ Kept(p, r) /\ p.state = "HANDSHAKE"
      BY <1>3, <3>1, StateRecord
    <3>3. /\ client' = [client EXCEPT ![cur] = q] /\ Return
          /\ UNCHANGED <<net, size, others, loop, shutdown, streak, fed>>
      BY <1>6, <2>2 DEF ConnectComplete
    <3>4. r.state = "CONNECTING"
      BY <1>6 DEF ConnectComplete
    <3> HIDE DEF p
    <3>5. q \in Records /\ Kept(q, p) /\ Renewed(q) /\ q.state = "HANDSHAKE"
      BY <3>2, FrameRecord
    <3> HIDE DEF q
    <3>6. Coherent(q) /\ Kept(q, r)
      BY <1>3, <3>2, <3>4, <3>5 DEF Coherent, Kept, Renewed
    <3>7. Onward(q)
      BY <3>3, <3>5, <3>6 DEF Onward, Kept, Leaves
    <3> QED
      BY <1>0, <1>1, <3>3, <3>6, <3>7, KeepStep
  <2> QED
    BY <2>1, <2>2
<1>7. ASSUME NEW t \in {"empty", "blocked"},
             client' = [client EXCEPT ![cur] = WithEvents([r EXCEPT !.tx = t])],
             hpc' = "in",
             UNCHANGED <<net, size, others, loop, idx, batch, cur, shutdown, streak, fed>>
      PROVE  Parts' /\ BackoffStep
  <2> DEFINE p == [r EXCEPT !.tx = t]  q == WithEvents(p)
  <2>1. t \in TxStates
    BY DEF TxStates
  <2>2. p \in Records /\ Kept(p, r) /\ p.state = r.state
    BY <1>3, <2>1 DEF Records, Kept
  <2> HIDE DEF p
  <2>3. q \in Records /\ Kept(q, p) /\ Renewed(q) /\ q.state = r.state
    BY <2>2, EventsRecord
  <2>4. client' = [client EXCEPT ![cur] = q]
    BY <1>7 DEF p
  <2> HIDE DEF q
  <2>5. Coherent(q) /\ Kept(q, r)
    BY <1>3, <2>2, <2>3 DEF Coherent, Kept, Renewed
  <2>6. Continues(q)
    BY <1>1, <1>2, <1>7, <2>5 DEF Kept, Continues
  <2>7. Onward(q)
    BY <1>7, <2>3, <2>4, <2>5, <2>6 DEF Onward, Kept
  <2> QED
    BY <1>0, <1>1, <1>7, <2>5, <2>7, KeepStep
<1>8. CASE FlushAll
  <2>1. CASE client[cur].state = "CLOSING"
    BY <1>1, <1>8, <2>1, DropStep DEF FlushAll
  <2>2. CASE client[cur].state # "CLOSING"
    BY <1>7, <1>8, <2>2 DEF FlushAll
  <2> QED
    BY <2>1, <2>2
<1>9. CASE FlushSome
  BY <1>7, <1>9 DEF FlushSome
<1> QED
  BY <1>4, <1>5, <1>6, <1>8, <1>9

\* The handshake's answer, and the way to the frames.
LEMMA InputStep ==
    ASSUME Parts, ReadHandshake \/ ReadOpen \/ NoInput
    PROVE  Parts' /\ BackoffStep
<1>1. hpc = "in" /\ hpc # "idle" /\ ClientsInv /\ RestOK /\ HandlerInv
  BY DEF ReadHandshake, ReadOpen, NoInput, InputIn, Parts
<1>2. InHand /\ loop = "batch"
  BY <1>1, Holding DEF HandlerInv
<1>0. fed \in Seq(Clients \X Nat \X Seq(Nat))
  BY <1>1 DEF RestOK
<1> DEFINE r == client[cur]
<1>3. /\ r \in Records /\ Coherent(r) /\ r.fd
      /\ "in" \in batch[cur] => ~r.readPaused
  BY <1>1, <1>2 DEF InHand, HandlerInv
<1>4. CASE NoInput
  <2>1. UNCHANGED <<net, client, size, others, loop, idx, batch, cur, shutdown, streak, fed>>
        /\ hpc' = "hup"
    BY <1>4 DEF NoInput
  <2>2. Continues(r)
    BY <1>1, <1>2, <2>1 DEF Continues
  <2> QED
    BY <1>1, <2>1, <2>2, PassStep
<1>5. CASE ReadOpen
  <2>1. UNCHANGED <<net, client, size, others, loop, idx, batch, cur, shutdown, streak, fed>>
        /\ hpc' = "frames" /\ r.state = "OPEN" /\ ~r.readPaused
    BY <1>3, <1>5 DEF ReadOpen, InputIn
  <2>2. Continues(r)
    BY <1>1, <1>2, <2>1 DEF Continues
  <2> QED
    BY <1>1, <2>1, <2>2, PassStep
<1>6. CASE ReadHandshake
  <2>1. CASE Drop
    BY <1>1, <2>1, DropStep
  <2>2. CASE ~Drop
    <3> DEFINE s == net[cur].sent
               p == [r EXCEPT !.state = "OPEN", !.attempt = 0, !.parsed = 1, !.recvd = s]
               q == WithEvents(p)
    <3>1. /\ client' = [client EXCEPT ![cur] = q]
          /\ streak' = [streak EXCEPT ![cur] = 0] /\ hpc' = "frames"
          /\ UNCHANGED <<net, size, others, loop, idx, batch, cur, shutdown, fed>>
      BY <1>6, <2>2 DEF ReadHandshake
    <3>2. r.state = "HANDSHAKE" /\ ~r.readPaused
      BY <1>3, <1>6 DEF ReadHandshake, InputIn
    <3>3. "OPEN" \in States /\ 0 \in Attempts /\ 1 \in Positions /\ s \in Positions
      <4>1. s \in Nat
        BY <1>1, <1>2 DEF RestOK, NetRecords, InHand
      <4> QED
        BY <4>1 DEF States, Attempts, Positions, MaxAttempt
    <3> HIDE DEF s
    <3>4. /\ p \in Records /\ p.state = "OPEN" /\ p.attempt = 0 /\ p.fd = r.fd
          /\ p.readPaused = r.readPaused /\ p.pendingMsg = r.pendingMsg /\ p.wait = r.wait
      BY <1>3, <3>3 DEF Records
    <3> HIDE DEF p
    <3>5. q \in Records /\ Kept(q, p) /\ Renewed(q) /\ q.state = "OPEN"
      BY <3>4, EventsRecord
    <3> HIDE DEF q
    <3>6. Coherent(q) /\ AttemptIs(q, 0) /\ q.wait = r.wait /\ q.fd = r.fd /\ ~q.readPaused
      BY <1>3, <3>2, <3>4, <3>5 DEF Coherent, Kept, Renewed, AttemptIs, MaxAttempt
    <3>7. ClientsInv' /\ BackoffStep
      BY <1>1, <1>2, <3>1, <3>5, <3>6, Replaced DEF InHand
    <3>10. Continues(q)
      BY <1>1, <3>1, <3>5, <3>6 DEF Continues
    <3>8. Onward(q)
      BY <3>1, <3>5, <3>6, <3>10 DEF Onward
    <3>9. fed' \in Seq(Clients \X Nat \X Seq(Nat))
      BY <1>1, <3>1 DEF RestOK
    <3> QED
      BY <1>1, <3>7, <3>8, <3>9, OnwardInv
  <2> QED
    BY <2>1, <2>2
<1> QED
  BY <1>4, <1>5, <1>6

\* A control frame: a pong is put into tx, or nothing happens.
LEMMA PingStep ==
    ASSUME Parts, ParsePing
    PROVE  Parts' /\ BackoffStep
<1>1. hpc = "frames" /\ hpc # "idle" /\ ClientsInv /\ RestOK /\ HandlerInv
  BY DEF ParsePing, Processing, Parts
<1>2. InHand
  BY <1>1, Holding
<1>0. fed \in Seq(Clients \X Nat \X Seq(Nat))
  BY <1>1 DEF RestOK
<1> DEFINE r == client[cur]
           q == IF NextFrame(cur) = "ping" THEN Consume(WithFrame(r)) ELSE Consume(r)
<1>3. r \in Records /\ Coherent(r) /\ r.state = "OPEN" /\ ~r.readPaused
  BY <1>1, <1>2 DEF InHand, HandlerInv
<1>4. client' = [client EXCEPT ![cur] = q]
      /\ UNCHANGED <<net, size, others, loop, idx, batch, cur, hpc, shutdown, streak, fed>>
  BY DEF ParsePing, loopVars
<1>5. q \in Records /\ Coherent(q) /\ Kept(q, r) /\ q.state = "OPEN"
  <2>1. CASE NextFrame(cur) = "ping"
    <3> DEFINE p == WithFrame(r)
    <3>1. p \in Records /\ Kept(p, r) /\ Renewed(p) /\ p.state = "OPEN"
      BY <1>3, FrameRecord
    <3>2. Coherent(p)
      BY <1>3, <3>1 DEF Coherent, Kept, Renewed
    <3> HIDE DEF p
    <3>3. Consume(p) \in Records /\ Untouched(Consume(p), p)
      BY <3>1, ConsumeRecord
    <3>4. q = Consume(p)
      BY <2>1 DEF p
    <3> QED
      BY <3>1, <3>2, <3>3, <3>4, UntouchedCoherent DEF Untouched, Kept
  <2>2. CASE NextFrame(cur) # "ping"
    <3>1. Consume(r) \in Records /\ Untouched(Consume(r), r)
      BY <1>3, ConsumeRecord
    <3>2. q = Consume(r)
      BY <2>2
    <3> QED
      BY <1>3, <3>1, <3>2, UntouchedCoherent DEF Untouched
  <2> QED
    BY <2>1, <2>2
<1> HIDE DEF q
<1>6. Continues(q)
  BY <1>1, <1>3, <1>4, <1>5 DEF Continues, Kept
<1>7. Onward(q)
  BY <1>4, <1>5, <1>6 DEF Onward, Kept
<1> QED
  BY <1>0, <1>1, <1>4, <1>5, <1>7, KeepStep

\* processBufferedFrames() returns: to the next paused client, or to the check
\* of EPOLLHUP.
LEMMA LeaveInv ==
    ASSUME Parts, hpc = "frames", LeaveFrames, UNCHANGED size, NEW q
    PROVE  Leaves \/ Continues(q)
<1>1. CASE loop = "resume"
  BY <1>1 DEF LeaveFrames, Leaves
<1>2. CASE loop = "batch"
  BY <1>2 DEF LeaveFrames, Continues
<1> QED
  BY <1>1, <1>2 DEF Parts, HandlerInv

\* A CLOSE from either side, and a frame that breaks the protocol.
LEMMA CloseStep ==
    ASSUME Parts, ParseClose \/ ParseBad
    PROVE  Parts' /\ BackoffStep
<1>1. hpc = "frames" /\ hpc # "idle" /\ ClientsInv /\ RestOK /\ HandlerInv
  BY DEF ParseClose, ParseBad, Processing, Parts
<1>2. InHand
  BY <1>1, Holding
<1>0. fed \in Seq(Clients \X Nat \X Seq(Nat))
  BY <1>1 DEF RestOK
<1> DEFINE r == client[cur]
<1>3. r \in Records /\ Coherent(r) /\ r.state = "OPEN" /\ ~r.readPaused
  BY <1>1, <1>2 DEF InHand, HandlerInv
<1>4. LeaveFrames /\ UNCHANGED <<net, size, others, loop, shutdown, streak, fed>>
  BY DEF ParseClose, ParseBad
<1>5. PICK p \in Records : /\ Kept(p, r)
                           /\ client' = [client EXCEPT ![cur] = Closing(p)]
  <2>1. CASE ParseClose
    BY <1>3, <2>1, ConsumeRecord DEF ParseClose, Untouched
  <2>2. CASE ParseBad
    BY <1>3, <2>2 DEF ParseBad, Kept
  <2> QED
    BY <2>1, <2>2
<1> DEFINE q == Closing(p)
<1>6. q \in Records /\ Kept(q, p) /\ Renewed(q) /\ q.state = "CLOSING"
  BY ClosingRecord
<1>7. client' = [client EXCEPT ![cur] = q]
  BY <1>5
<1> HIDE DEF q
<1>8. Coherent(q) /\ Kept(q, r)
  BY <1>3, <1>5, <1>6 DEF Coherent, Kept, Renewed
<1>9. Leaves \/ Continues(q)
  BY <1>1, <1>4, LeaveInv
<1>10. Onward(q)
  BY <1>4, <1>6, <1>7, <1>8, <1>9 DEF Onward, Kept
<1> QED
  BY <1>0, <1>1, <1>4, <1>8, <1>10, KeepStep

\* Data frames: copied to msg, completed below the mark, or completed at it.
LEMMA DataStep ==
    ASSUME Parts, ParseFragment \/ CompletePush \/ CompletePause
    PROVE  Parts' /\ BackoffStep
<1>1. hpc = "frames" /\ hpc # "idle" /\ ClientsInv /\ RestOK /\ HandlerInv
  BY DEF ParseFragment, CompletePush, CompletePause, Processing, Parts
<1>2. InHand
  BY <1>1, Holding
<1>0. fed \in Seq(Clients \X Nat \X Seq(Nat))
  BY <1>1 DEF RestOK
<1> DEFINE r == client[cur]
<1>3. r \in Records /\ Coherent(r) /\ r.state = "OPEN" /\ ~r.readPaused
  BY <1>1, <1>2 DEF InHand, HandlerInv
<1>4. ASSUME NEW q \in Records, Untouched(q, r),
             client' = [client EXCEPT ![cur] = q], hpc' \in {"frames", "push"},
             UNCHANGED <<net, size, others, loop, idx, batch, cur, shutdown, streak, fed>>
      PROVE  Parts' /\ BackoffStep
  <2>1. Coherent(q) /\ Kept(q, r) /\ q.state = "OPEN"
    BY <1>3, <1>4, UntouchedCoherent DEF Untouched
  <2>2. Continues(q)
    BY <1>1, <1>3, <1>4, <2>1 DEF Continues, Kept
  <2>3. Onward(q)
    BY <1>4, <2>1, <2>2 DEF Onward, Kept
  <2> QED
    BY <1>0, <1>1, <1>4, <2>1, <2>3, KeepStep
<1>5. CASE ParseFragment
  <2> DEFINE q == WithData(r, r.parsed + 1)
  <2>1. r.parsed + 1 \in Nat
    BY <1>3, Fields DEF Positions
  <2>2. q \in Records /\ Untouched(q, r)
    BY <1>3, <2>1, DataRecord
  <2>3. client' = [client EXCEPT ![cur] = q] /\ hpc' = "frames"
        /\ UNCHANGED <<net, size, others, loop, idx, batch, cur, shutdown, streak, fed>>
    BY <1>1, <1>5 DEF ParseFragment, loopVars
  <2> HIDE DEF q
  <2> QED
    BY <1>4, <2>2, <2>3
<1>6. CASE CompletePush
  <2> DEFINE q == Completed(r)
  <2>1. q \in Records /\ Untouched(q, r)
    BY <1>3, CompletedRecord
  <2>2. client' = [client EXCEPT ![cur] = q] /\ hpc' = "push"
        /\ UNCHANGED <<net, size, others, loop, idx, batch, cur, shutdown, streak, fed>>
    BY <1>6 DEF CompletePush
  <2> HIDE DEF q
  <2> QED
    BY <1>4, <2>1, <2>2
<1>7. CASE CompletePause
  <2> DEFINE e == Completed(r)
             p == [e EXCEPT !.pendingMsg = <<e.msg>>, !.readPaused = TRUE, !.msg = <<>>]
             q == WithEvents(p)
  <2>1. e \in Records /\ Untouched(e, r)
    BY <1>3, CompletedRecord
  <2>2. client' = [client EXCEPT ![cur] = q] /\ LeaveFrames
        /\ UNCHANGED <<net, size, others, loop, shutdown, streak, fed>>
    BY <1>7 DEF CompletePause
  <2> HIDE DEF e
  <2>3. <<e.msg>> \in Messages /\ <<e.msg>> # <<>> /\ TRUE \in Flags /\ <<>> \in Frames
    BY <2>1, Fields DEF Messages, Frames, Flags
  <2>4. /\ p \in Records /\ p.state = e.state /\ p.fd = e.fd /\ p.readPaused = TRUE
        /\ p.pendingMsg = <<e.msg>> /\ p.attempt = e.attempt /\ p.wait = e.wait
    BY <2>1, <2>3 DEF Records
  <2> HIDE DEF p
  <2>5. q \in Records /\ Kept(q, p) /\ Renewed(q) /\ q.state = p.state
    BY <2>4, EventsRecord
  <2> HIDE DEF q
  <2>6. /\ q.state = "OPEN" /\ q.fd = r.fd /\ q.readPaused = TRUE /\ q.pendingMsg # <<>>
        /\ q.attempt = r.attempt /\ q.wait = r.wait
    BY <1>3, <2>1, <2>3, <2>4, <2>5 DEF Untouched, Kept
  <2>7. r.fd
    BY <1>3 DEF Coherent
  <2>8. Coherent(q)
    BY <2>5, <2>6, <2>7 DEF Coherent, Renewed
  <2>9. Leaves \/ Continues(q)
    BY <1>1, <2>2, LeaveInv
  <2>10. Onward(q)
    BY <2>2, <2>5, <2>6, <2>8, <2>9 DEF Onward
  <2>11. AttemptIs(q, streak[cur]) /\ streak' = [streak EXCEPT ![cur] = streak[cur]]
    BY <1>1, <1>2, <2>2, <2>6 DEF AttemptIs, InHand, ClientsInv
  <2>12. ClientsInv' /\ BackoffStep
    BY <1>1, <1>2, <2>2, <2>5, <2>6, <2>8, <2>11, Replaced DEF InHand
  <2>13. fed' \in Seq(Clients \X Nat \X Seq(Nat))
    BY <1>0, <2>2
  <2> QED
    BY <1>1, <2>10, <2>12, <2>13, OnwardInv
<1> QED
  BY <1>5, <1>6, <1>7

\* push() of a message completed below the mark takes the queue at most one past it.
LEMMA PushStep ==
    ASSUME Parts, Push
    PROVE  Parts' /\ BackoffStep
<1>1. hpc = "push" /\ hpc # "idle" /\ ClientsInv /\ RestOK /\ HandlerInv
  BY DEF Push, Parts
<1>2. InHand
  BY <1>1, Holding
<1> DEFINE r == client[cur]
           q == [r EXCEPT !.msg = <<>>]
<1>3. r \in Records /\ Coherent(r) /\ r.state = "OPEN" /\ ~r.readPaused /\ cur \in Clients
  BY <1>1, <1>2 DEF InHand, HandlerInv
<1>4. /\ client' = [client EXCEPT ![cur] = q] /\ hpc' = "frames" /\ size' = size + 1
      /\ UNCHANGED <<net, others, loop, idx, batch, cur, shutdown, streak>>
  BY <1>1 DEF Push, ClientsInv
<1>5. q \in Records /\ Untouched(q, r)
  <2>1. <<>> \in Frames
    BY DEF Frames
  <2> QED
    BY <1>3, <2>1 DEF Records, Untouched, Kept
<1> HIDE DEF q
<1>6. Coherent(q) /\ Kept(q, r) /\ q.state = "OPEN"
  BY <1>3, <1>5, UntouchedCoherent DEF Untouched
<1>7. Continues(q)
  BY <1>1, <1>3, <1>4, <1>6 DEF Continues, Kept
<1>8. Onward(q)
  BY <1>4, <1>5, <1>6, <1>7 DEF Onward, Kept
<1>9. fed' \in Seq(Clients \X Nat \X Seq(Nat))
  <2>1. r.msg \in Seq(Nat)
    BY <1>3, Fields DEF Frames
  <2>2. net[cur].conn \in Nat
    BY <1>1, <1>3 DEF RestOK, NetRecords
  <2>3. <<cur, net[cur].conn, r.msg>> \in Clients \X Nat \X Seq(Nat)
    BY <1>3, <2>1, <2>2
  <2>4. fed' = Append(fed, <<cur, net[cur].conn, r.msg>>)
        /\ fed \in Seq(Clients \X Nat \X Seq(Nat))
    BY <1>1 DEF Push, RestOK
  <2> QED
    BY <2>3, <2>4
<1> QED
  BY <1>1, <1>4, <1>6, <1>8, <1>9, KeepStep

\* The end of the frames, recv() and the end of the handler.
LEMMA ReceiveStep ==
    ASSUME Parts, FramesDone \/ Recv \/ RecvEnd \/ CheckHup
    PROVE  Parts' /\ BackoffStep
<1>1. hpc # "idle" /\ ClientsInv /\ RestOK /\ HandlerInv
  BY DEF FramesDone, Recv, RecvEnd, CheckHup, Parts
<1>2. InHand
  BY <1>1, Holding
<1> DEFINE r == client[cur]
<1>3. r \in Records /\ Coherent(r) /\ cur \in Clients
  BY <1>2 DEF InHand
<1>4. CASE FramesDone
  <2>1. hpc = "frames" /\ UNCHANGED <<net, client, size, others, loop, shutdown, streak, fed>>
        /\ r.state = "OPEN" /\ ~r.readPaused
    BY <1>1, <1>4 DEF FramesDone, HandlerInv
  <2>2. CASE loop = "resume"
    <3>1. Return
      BY <1>4, <2>2 DEF FramesDone
    <3> QED
      BY <1>1, <2>1, <3>1, PassStep
  <2>3. CASE loop = "batch"
    <3>1. hpc' = "recv" /\ UNCHANGED <<idx, batch, cur>>
      BY <1>4, <2>3 DEF FramesDone
    <3>2. Continues(r)
      BY <2>1, <2>3, <3>1 DEF Continues
    <3> QED
      BY <1>1, <2>1, <3>2, PassStep
  <2> QED
    BY <1>1, <2>2, <2>3 DEF HandlerInv
<1>5. CASE Recv
  <2>1. PICK k \in (client[cur].recvd + 1)..net[cur].sent :
            client' = [client EXCEPT ![cur].recvd = k]
    BY <1>5 DEF Recv
  <2> DEFINE q == [r EXCEPT !.recvd = k]
  <2>2. hpc = "recv" /\ hpc' = "frames"
        /\ UNCHANGED <<net, size, others, loop, idx, batch, cur, shutdown, streak, fed>>
    BY <1>5 DEF Recv
  <2>3. r.state = "OPEN" /\ ~r.readPaused
    BY <1>1, <2>2 DEF HandlerInv
  <2>4. k \in Positions
    <3>1. r.recvd \in Nat /\ net[cur].sent \in Nat
      BY <1>1, <1>3, Fields DEF Positions, RestOK, NetRecords
    <3> QED
      BY <3>1 DEF Positions
  <2>5. q \in Records /\ Untouched(q, r)
    BY <1>3, <2>4 DEF Records, Untouched, Kept
  <2>6. client' = [client EXCEPT ![cur] = q]
    BY <1>1, <2>1 DEF ClientsInv
  <2> HIDE DEF q
  <2>7. Coherent(q) /\ Kept(q, r) /\ q.state = "OPEN"
    BY <1>3, <2>3, <2>5, UntouchedCoherent DEF Untouched
  <2>8. Continues(q)
    BY <2>2, <2>3, <2>7 DEF Continues, Kept
  <2>9. Onward(q)
    BY <2>2, <2>5, <2>6, <2>7, <2>8 DEF Onward, Kept
  <2>10. fed' \in Seq(Clients \X Nat \X Seq(Nat))
    BY <1>1, <2>2 DEF RestOK
  <2> QED
    BY <1>1, <2>2, <2>7, <2>9, <2>10, KeepStep
<1>6. CASE RecvEnd
  <2>1. CASE Drop
    BY <1>1, <2>1, DropStep
  <2>2. CASE ~Drop
    <3>1. hpc = "recv" /\ hpc' = "hup"
          /\ UNCHANGED <<net, client, size, others, loop, idx, batch, cur, shutdown, streak, fed>>
      BY <1>6, <2>2 DEF RecvEnd
    <3>2. loop = "batch"
      BY <1>1, <3>1 DEF HandlerInv
    <3>3. Continues(r)
      BY <3>1, <3>2 DEF Continues
    <3> QED
      BY <1>1, <3>1, <3>3, PassStep
  <2> QED
    BY <2>1, <2>2
<1>7. CASE CheckHup
  <2>1. CASE Drop
    BY <1>1, <2>1, DropStep
  <2>2. CASE ~Drop
    <3>1. Return /\ UNCHANGED <<net, client, size, others, loop, shutdown, streak, fed>>
      BY <1>7, <2>2 DEF CheckHup
    <3> QED
      BY <1>1, <3>1, PassStep
  <2> QED
    BY <2>1, <2>2
<1> QED
  BY <1>4, <1>5, <1>6, <1>7

-----------------------------------------------------------------------------
(* The theorems *)

\* Every step keeps the invariant, and puts a client off by the delay its failures
\* in a row call for.
LEMMA NextParts == Parts /\ [Next]_vars => Parts' /\ BackoffStep
<1> SUFFICES ASSUME Parts, [Next]_vars
             PROVE  Parts' /\ BackoffStep
  OBVIOUS
<1>1. CASE UNCHANGED vars
  <2>1. UNCHANGED <<net, client, size, others, loopVars, shutdown, streak, fed>>
    BY <1>1 DEF vars
  <2>2. ClientsInv /\ RestOK /\ HandlerInv
    BY DEF Parts
  <2>3. ClientsInv' /\ BackoffStep
    BY <2>1, <2>2, UnchangedClients
  <2>4. RestOK' /\ HandlerInv'
    BY <2>1, <2>2 DEF RestOK, HandlerInv, loopVars
  <2> QED
    BY <2>3, <2>4 DEF Parts
<1>2. ASSUME NEW c \in Clients, NetStep(c) \/ Elapse(c) PROVE Parts' /\ BackoffStep
  BY <1>2, NetworkStep, PeerDrainStep, ElapseStep DEF NetStep
<1>3. CASE OthersCheck \/ OthersPush \/ AggTake \/ Stop
  BY <1>3, OthersStep
<1>4. CASE LoopStep
  <2>1. CASE Turn \/ NotDue \/ ResumeCheck \/ ResumeNext \/ BatchDone
    BY <2>1, LoopOnly
  <2>2. CASE ConnectStarted \/ ConnectFailed \/ ConnectUnwatched
    BY <2>2, ConnectStep
  <2>3. CASE ResumePush
    BY <2>3, ResumePushStep
  <2>4. CASE Wait
    BY <2>4, WaitStep
  <2>5. ASSUME NEW c \in Clients, Handle(c) PROVE Parts' /\ BackoffStep
    BY <2>5, HandleStep
  <2> QED
    BY <1>4, <2>1, <2>2, <2>3, <2>4, <2>5 DEF LoopStep
<1>5. CASE HandlerStep
  BY <1>5, OutputStep, InputStep, PingStep, CloseStep, DataStep, PushStep, ReceiveStep
     DEF HandlerStep
<1> QED
  BY <1>1, <1>2, <1>3, <1>4, <1>5 DEF Next, ReactorStep

-----------------------------------------------------------------------------
(* The room in the data queue *)

\* Steps that neither push nor take, and bring no message on its way.
Steady ==
    /\ UNCHANGED <<size, others>>
    /\ hpc' = hpc \/ hpc' \notin {"push", "resume"}

\* Outside the reactor only the threads at the data queue change its room.
LEMMA SteadyOutside ==
    ASSUME Stop \/ UNCHANGED vars \/ \E c \in Clients : NetStep(c) \/ Elapse(c)
    PROVE  Steady
  BY DEF Stop, NetStep, Accept, Break, PeerSend, PeerFin, PeerDrain, Elapse, vars, loopVars,
         Steady

\* The loop looks at the size before it resumes a client, and pushes then.
LEMMA SteadyLoop ==
    ASSUME RestOK, LoopStep
    PROVE  \/ Steady
           \/ /\ size < HWM /\ UNCHANGED <<size, others>>
              /\ hpc = "idle" /\ hpc' = "resume"
           \/ hpc = "resume" /\ hpc' = "frames" /\ size' = size + 1 /\ others' = others
<1>1. CASE Turn \/ NotDue \/ ConnectStarted \/ ConnectFailed \/ ConnectUnwatched
  BY <1>1 DEF Turn, NotDue, ConnectStarted, ConnectFailed, ConnectUnwatched, Steady
<1>2. CASE ResumeCheck \/ Wait \/ BatchDone \/ \E c \in Clients : Handle(c)
  BY <1>2 DEF ResumeCheck, Wait, BatchDone, Handle, Steady
<1>3. CASE ResumeNext
  <2>1. CASE UNCHANGED hpc
    BY <1>3, <2>1 DEF ResumeNext, Steady
  <2>2. CASE hpc' # hpc
    <3>1. idx \in Clients /\ client[idx].readPaused /\ ~(size >= HWM) /\ hpc' = "resume"
      BY <1>3, <2>2 DEF ResumeNext
    <3> QED
      BY <1>3, <3>1, MarksAssumption DEF ResumeNext, Resuming, RestOK
  <2> QED
    BY <2>1, <2>2
<1>4. CASE ResumePush
  BY <1>4 DEF ResumePush
<1> QED
  BY <1>1, <1>2, <1>3, <1>4 DEF LoopStep

\* So does publishReactorMessage().
LEMMA SteadyHandler ==
    ASSUME HandlerStep
    PROVE  \/ Steady
           \/ /\ size < HWM /\ UNCHANGED <<size, others>>
              /\ hpc = "frames" /\ hpc' = "push"
           \/ hpc = "push" /\ hpc' = "frames" /\ size' = size + 1 /\ others' = others
<1>1. CASE \/ EventError \/ ConnectComplete \/ FlushAll \/ FlushSome \/ FlushError
           \/ NoOutput \/ ReadHandshake \/ ReadOpen \/ NoInput
  BY <1>1 DEF EventError, ConnectComplete, FlushAll, FlushSome, FlushError, NoOutput,
              ReadHandshake, ReadOpen, NoInput, Drop, Return, Steady
<1>2. CASE \/ ParsePing \/ ParseClose \/ ParseBad \/ ParseFragment \/ CompletePause
           \/ FramesDone \/ Recv \/ RecvEnd \/ CheckHup
  BY <1>2 DEF ParsePing, ParseClose, ParseBad, ParseFragment, CompletePause, FramesDone,
              Recv, RecvEnd, CheckHup, LeaveFrames, Drop, Return, Steady, loopVars
<1>3. CASE CompletePush \/ Push
  BY <1>3 DEF CompletePush, Push, Processing
<1> QED
  BY <1>1, <1>2, <1>3 DEF HandlerStep

\* A thread looks before it has a message on its way, and whoever looks last finds
\* fewer than HWM in the queue: there is room for what all of them have.
LEMMA RoomStep ==
    ASSUME Parts, QueueRoom, [Next]_vars
    PROVE  QueueRoom'
<1>1. /\ RestOK /\ size \in Nat /\ others.hand \in 0..Others /\ others.checked \in Nat
      /\ HWM \in Nat /\ Others \in Nat
  BY MarksAssumption, OthersAssumption DEF Parts, RestOK
<1>2. CASE Steady
  BY <1>1, <1>2 DEF Steady, QueueRoom, OnTheWay
<1>3. CASE /\ size < HWM /\ UNCHANGED <<size, others>>
           /\ hpc' \in {"push", "resume"}
  BY <1>1, <1>3 DEF QueueRoom, OnTheWay
<1>4. CASE /\ hpc \in {"push", "resume"} /\ hpc' = "frames"
           /\ size' = size + 1 /\ others' = others
  BY <1>1, <1>4 DEF QueueRoom, OnTheWay
<1>5. CASE OthersCheck
  <2>1. size < HWM /\ size' = size /\ hpc' = hpc /\ others'.hand = others.hand + 1
        /\ others.hand < Others
    BY <1>5 DEF OthersCheck, loopVars
  <2> QED
    BY <1>1, <2>1 DEF QueueRoom, OnTheWay
<1>6. CASE OthersPush
  <2>1. size' = size + 1 /\ hpc' = hpc /\ others'.hand = others.hand - 1
    BY <1>6 DEF OthersPush, loopVars, Parts, RestOK
  <2> QED
    BY <1>1, <2>1 DEF QueueRoom, OnTheWay
<1>7. CASE AggTake
  BY <1>1, <1>7 DEF AggTake, QueueRoom, OnTheWay, loopVars
<1>8. CASE LoopStep
  BY <1>1, <1>2, <1>3, <1>4, <1>8, SteadyLoop
<1>9. CASE HandlerStep
  BY <1>2, <1>3, <1>4, <1>9, SteadyHandler
<1>10. CASE Stop \/ UNCHANGED vars \/ \E c \in Clients : NetStep(c) \/ Elapse(c)
  BY <1>2, <1>10, SteadyOutside
<1> QED
  BY <1>5, <1>6, <1>7, <1>8, <1>9, <1>10 DEF Next, ReactorStep

-----------------------------------------------------------------------------
(* The invariant *)

\* The inductive invariant, in the form that was proved ...
THEOREM PartsInvariant == Spec => []Parts
<1>1. Init => Parts
  BY InitInv
<1>2. Parts /\ [Next]_vars => Parts'
  BY NextParts
<1> QED
  BY <1>1, <1>2, PTL DEF Spec

\* ... and in the one the specification gives: types, coherence of every client,
\* attempts that count the failures in a row, what the handler relies on, and room
\* in the data queue for all that is on its way there.
THEOREM InvariantAlways == Spec => []IndInv
<1>1. Init => QueueRoom
  BY MarksAssumption, OthersAssumption DEF Init, QueueRoom, OnTheWay
<1>2. Parts /\ QueueRoom /\ [Next]_vars => QueueRoom'
  BY RoomStep
<1>3. Spec => []QueueRoom
  BY <1>1, <1>2, PartsInvariant, PTL DEF Spec
<1> QED
  BY <1>3, PartsInvariant, PartsOfInv, PTL

\* The backpressure of publishReactorMessage() and resumePausedClients(), for any
\* number of clients and of other threads: a pause and its message belong together,
\* only an OPEN connection is paused, and the queue passes the high watermark by at
\* most one message of every thread but one.
THEOREM BackpressureAlways == Spec => []Backpressure
<1>1. IndInv => Backpressure
  <2> SUFFICES ASSUME IndInv PROVE Backpressure
    OBVIOUS
  <2>1. ASSUME NEW c \in Clients
        PROVE  /\ client[c].readPaused <=> client[c].pendingMsg # <<>>
               /\ client[c].readPaused => client[c].state = "OPEN" /\ client[c].fd
    BY DEF IndInv, Coherent
  <2>2. size <= HWM + Others
    <3>1. size \in Nat /\ others.hand \in Nat /\ HWM \in Nat /\ Others \in Nat
      BY MarksAssumption, OthersAssumption DEF IndInv, TypeOK
    <3> QED
      BY <3>1 DEF IndInv, QueueRoom, OnTheWay
  <2> QED
    BY <2>1, <2>2 DEF Backpressure, PauseHoldsMessage, QueueBound
<1> QED
  BY <1>1, InvariantAlways, PTL

\* updateEvents() is never forgotten: at rest every client that has a socket is
\* registered for exactly what its state, its pause and tx call for.
THEOREM InterestFollowsAlways == Spec => []InterestFollows
<1>1. IndInv => InterestFollows
  BY DEF IndInv, InterestFollows, Coherent
<1> QED
  BY <1>1, InvariantAlways, PTL

\* reconnectDelayMs(): the n-th failure in a row waits twice as long as the one
\* before, at most 30 seconds, through every path that gives a client up.
THEOREM BackoffAlways == Spec => Backoff
<1>1. Parts /\ [Next]_vars =>
        [\A c \in Clients :
            client[c].wait = 0 /\ client'[c].wait # 0 =>
                client'[c].wait = IF streak[c] < 5 THEN Delays[streak[c] + 1] ELSE 30000]_vars
  BY NextParts DEF BackoffStep, DelayAfter
<1> QED
  BY <1>1, PartsInvariant, PTL DEF Spec, Backoff

-----------------------------------------------------------------------------
(* Streams: what one more frame does to what is open, begun and complete   *)

\* The data frames of the open message, after one more frame.
LEMMA OpenNext ==
    ASSUME NEW s, NEW p \in Nat
    PROVE  /\ s[p + 1] \notin DataKinds => OpenFrames(s, p + 1) = OpenFrames(s, p)
           /\ s[p + 1] \in {"begin", "more"} =>
                  OpenFrames(s, p + 1) = OpenFrames(s, p) \cup {p + 1}
           /\ s[p + 1] \in {"whole", "end"} =>
                  /\ OpenFrames(s, p + 1) = {}
                  /\ FramesOf(s, p + 1) = OpenFrames(s, p) \cup {p + 1}
<1>1. /\ 1..(p + 1) = (1..p) \cup {p + 1}
      /\ \A q \in 1..p : q..(p + 1) = (q..p) \cup {p + 1}
      /\ (p + 1)..(p + 1) = {p + 1}
      /\ \A q \in 1..(p + 1) : p + 1 \in q..(p + 1)
  OBVIOUS
<1>2. (p + 1) - 1 = p /\ (p + 1)..p = {}
  OBVIOUS
<1>3. ASSUME s[p + 1] \notin DataKinds
      PROVE  OpenFrames(s, p + 1) = OpenFrames(s, p)
  <2>1. s[p + 1] \notin {"whole", "end"}
    BY <1>3 DEF DataKinds
  <2> QED
    BY <1>1, <1>3, <2>1 DEF OpenFrames
<1>4. ASSUME s[p + 1] \in {"begin", "more"}
      PROVE  OpenFrames(s, p + 1) = OpenFrames(s, p) \cup {p + 1}
  <2>1. s[p + 1] \notin {"whole", "end"} /\ s[p + 1] \in DataKinds
    BY <1>4 DEF DataKinds
  <2> QED
    BY <1>1, <2>1 DEF OpenFrames
<1>5. ASSUME s[p + 1] \in {"whole", "end"}
      PROVE  /\ OpenFrames(s, p + 1) = {}
             /\ FramesOf(s, p + 1) = OpenFrames(s, p) \cup {p + 1}
  <2>1. OpenFrames(s, p + 1) = {}
    BY <1>1, <1>5 DEF OpenFrames
  <2>2. s[p + 1] \in DataKinds
    BY <1>5 DEF DataKinds
  <2>3. FramesOf(s, p + 1) =
            {q \in 1..(p + 1) : s[q] \in DataKinds /\ \A x \in q..p : s[x] \notin {"whole", "end"}}
    BY <1>2 DEF FramesOf
  <2> QED
    BY <1>1, <1>2, <2>1, <2>2, <2>3 DEF OpenFrames
<1> QED
  BY <1>3, <1>4, <1>5

\* A message has begun, after one more frame.
LEMMA InMessageNext ==
    ASSUME NEW s, NEW p \in Nat
    PROVE  /\ s[p + 1] \notin {"begin", "end"} =>
                  (InMessage(s, (p + 1) + 1) <=> InMessage(s, p + 1))
           /\ s[p + 1] = "begin" => InMessage(s, (p + 1) + 1)
           /\ s[p + 1] = "end" => ~InMessage(s, (p + 1) + 1)
<1>1. /\ 1..(p + 1) = (1..p) \cup {p + 1}
      /\ \A q \in 1..p : q..(p + 1) = (q..p) \cup {p + 1}
      /\ (p + 1)..(p + 1) = {p + 1}
      /\ \A q \in 1..(p + 1) : p + 1 \in q..(p + 1)
      /\ (p + 1) - 1 = p /\ ((p + 1) + 1) - 1 = p + 1
  OBVIOUS
<1>2. /\ InMessage(s, p + 1) <=>
             \E q \in 1..p : s[q] = "begin" /\ \A x \in q..p : s[x] # "end"
      /\ InMessage(s, (p + 1) + 1) <=>
             \E q \in 1..(p + 1) : s[q] = "begin" /\ \A x \in q..(p + 1) : s[x] # "end"
  BY <1>1 DEF InMessage
<1>3. ASSUME s[p + 1] \notin {"begin", "end"}
      PROVE  InMessage(s, (p + 1) + 1) <=> InMessage(s, p + 1)
  BY <1>1, <1>2, <1>3
<1>4. ASSUME s[p + 1] = "begin"
      PROVE  InMessage(s, (p + 1) + 1)
  BY <1>1, <1>2, <1>4
<1>5. ASSUME s[p + 1] = "end"
      PROVE  ~InMessage(s, (p + 1) + 1)
  BY <1>1, <1>2, <1>5
<1> QED
  BY <1>3, <1>4, <1>5

\* The messages complete, after one more frame.
LEMMA FinalsNext ==
    ASSUME NEW s, NEW p \in Nat
    PROVE  /\ Cardinality(Finals(s, p)) \in Nat
           /\ s[p + 1] \notin {"whole", "end"} => Finals(s, p + 1) = Finals(s, p)
           /\ s[p + 1] \in {"whole", "end"} =>
                  Cardinality(Finals(s, p + 1)) = Cardinality(Finals(s, p)) + 1
<1>1. 1..(p + 1) = (1..p) \cup {p + 1} /\ p + 1 \notin 1..p
  OBVIOUS
<1>2. IsFiniteSet(Finals(s, p))
  <2>1. IsFiniteSet(1..p)
    BY FS_Interval
  <2> QED
    BY <2>1, FS_Subset DEF Finals
<1>3. Cardinality(Finals(s, p)) \in Nat
  BY <1>2, FS_CardinalityType
<1>4. s[p + 1] \notin {"whole", "end"} => Finals(s, p + 1) = Finals(s, p)
  BY <1>1 DEF Finals
<1>5. ASSUME s[p + 1] \in {"whole", "end"}
      PROVE  Cardinality(Finals(s, p + 1)) = Cardinality(Finals(s, p)) + 1
  <2>1. Finals(s, p + 1) = Finals(s, p) \cup {p + 1} /\ p + 1 \notin Finals(s, p)
    BY <1>1, <1>5 DEF Finals
  <2> QED
    BY <1>2, <2>1, FS_AddElement
<1> QED
  BY <1>3, <1>4, <1>5

\* The frames of a message, with one more.
LEMMA ListsNext ==
    ASSUME NEW p \in Nat, NEW f \in Seq(Nat), NEW P, P \subseteq 1..p, Lists(f, P)
    PROVE  /\ Lists(Append(f, p + 1), P \cup {p + 1})
           /\ Append(f, p + 1) \in Seq(Nat)
           /\ Append(f, p + 1)[Len(Append(f, p + 1))] = p + 1
<1> DEFINE a == Append(f, p + 1)
<1>1. /\ Len(f) \in Nat /\ DOMAIN f = 1..Len(f)
      /\ a \in Seq(Nat) /\ Len(a) = Len(f) + 1 /\ DOMAIN a = 1..(Len(f) + 1)
      /\ \A i \in DOMAIN f : a[i] = f[i]
      /\ a[Len(f) + 1] = p + 1
  OBVIOUS
<1>2. /\ \A i \in DOMAIN a : i \in DOMAIN f \/ i = Len(f) + 1
      /\ \A i \in DOMAIN f : i \in DOMAIN a /\ i < Len(f) + 1
      /\ Len(f) + 1 \in DOMAIN a
  BY <1>1
<1> HIDE DEF a
<1>3. \A i \in DOMAIN f : f[i] \in P /\ f[i] < p + 1
  BY DEF Lists
<1>4. a # <<>>
  BY <1>1, <1>2
<1>5. ASSUME NEW j \in DOMAIN a, NEW k \in DOMAIN a, j < k
      PROVE  a[j] < a[k]
  <2>1. CASE k \in DOMAIN f
    <3>1. j \in DOMAIN f
      BY <1>1, <1>5, <2>1
    <3> QED
      BY <1>1, <1>5, <2>1, <3>1 DEF Lists
  <2>2. CASE k = Len(f) + 1
    <3>1. j \in DOMAIN f
      BY <1>1, <1>5, <2>2
    <3> QED
      BY <1>1, <1>3, <2>2, <3>1
  <2> QED
    BY <1>2, <2>1, <2>2
<1>6. {a[j] : j \in DOMAIN a} = P \cup {p + 1}
  <2>1. P = {f[j] : j \in DOMAIN f}
    BY DEF Lists
  <2> QED
    BY <1>1, <1>2, <2>1
<1> QED
  BY <1>1, <1>4, <1>5, <1>6 DEF Lists, a

\* A message of one frame, so far.
LEMMA ListsOne ==
    ASSUME NEW p \in Nat
    PROVE  /\ Lists(<<p>>, {p}) /\ <<p>> \in Seq(Nat) /\ <<p>>[Len(<<p>>)] = p
<1>1. /\ <<p>> \in Seq(Nat) /\ Len(<<p>>) = 1 /\ DOMAIN <<p>> = {1}
      /\ <<p>>[1] = p /\ <<p>> # <<>>
  OBVIOUS
<1> QED
  BY <1>1 DEF Lists

-----------------------------------------------------------------------------
(* What a client has collected, after one more frame                       *)

\* msg after a data frame was copied to it.
Copied(r) == IF r.fragmenting THEN Append(r.msg, r.parsed + 1) ELSE <<r.parsed + 1>>

\* The frames copied are those of the open message and the new one.
LEMMA CopiedFrames ==
    ASSUME NEW s, NEW r, r.parsed \in Nat, r.msg \in Seq(Nat), r.fragmenting \in BOOLEAN,
           Collects(s, r)
    PROVE  /\ Copied(r) \in Seq(Nat)
           /\ Lists(Copied(r), OpenFrames(s, r.parsed) \cup {r.parsed + 1})
           /\ Copied(r)[Len(Copied(r))] = r.parsed + 1
<1>1. OpenFrames(s, r.parsed) \subseteq 1..r.parsed
  BY DEF OpenFrames
<1>2. CASE r.fragmenting
  <2>1. Lists(r.msg, OpenFrames(s, r.parsed)) /\ Copied(r) = Append(r.msg, r.parsed + 1)
    BY <1>2 DEF Collects, Copied
  <2> QED
    BY <1>1, <2>1, ListsNext
<1>3. CASE ~r.fragmenting
  <2>1. OpenFrames(s, r.parsed) = {} /\ Copied(r) = <<r.parsed + 1>> /\ r.parsed + 1 \in Nat
    BY <1>3 DEF Collects, Copied
  <2>2. OpenFrames(s, r.parsed) \cup {r.parsed + 1} = {r.parsed + 1}
    BY <2>1
  <2> QED
    BY <2>1, <2>2, ListsOne
<1> QED
  BY <1>2, <1>3

\* A control frame changes nothing of the message.
LEMMA CollectsControl ==
    ASSUME NEW s, NEW r, NEW q, r.parsed \in Nat, Collects(s, r), ~q.readPaused,
           s[r.parsed + 1] \in {"ping", "pong", "close"},
           q.parsed = r.parsed + 1, q.fragmenting = r.fragmenting, q.msg = r.msg
    PROVE  Collects(s, q)
<1>1. s[r.parsed + 1] \notin DataKinds /\ s[r.parsed + 1] \notin {"begin", "end"}
  BY DEF DataKinds
<1>2. OpenFrames(s, q.parsed) = OpenFrames(s, r.parsed)
  BY <1>1, OpenNext
<1>3. InMessage(s, q.parsed + 1) <=> InMessage(s, r.parsed + 1)
  BY <1>1, InMessageNext
<1> QED
  BY <1>2, <1>3 DEF Collects

\* A fragment is added to it.
LEMMA CollectsFragment ==
    ASSUME NEW s, NEW r, NEW q, r.parsed \in Nat, r.msg \in Seq(Nat), r.fragmenting \in BOOLEAN,
           Collects(s, r), ~q.readPaused,
           s[r.parsed + 1] \in {"begin", "more"}, r.fragmenting <=> s[r.parsed + 1] = "more",
           q.parsed = r.parsed + 1, q.fragmenting = TRUE, q.msg = Copied(r)
    PROVE  Collects(s, q)
<1>1. OpenFrames(s, q.parsed) = OpenFrames(s, r.parsed) \cup {r.parsed + 1}
  <2>1. PICK p \in Nat : p = r.parsed
    OBVIOUS
  <2>2. s[p + 1] \in {"begin", "more"}
    BY <2>1
  <2>3. OpenFrames(s, p + 1) = OpenFrames(s, p) \cup {p + 1}
    BY <2>2, OpenNext
  <2> QED
    BY <2>1, <2>3
<1>2. Lists(q.msg, OpenFrames(s, q.parsed))
  BY <1>1, CopiedFrames
<1>3. InMessage(s, q.parsed + 1)
  <2>1. CASE s[r.parsed + 1] = "begin"
    BY <2>1, InMessageNext
  <2>2. CASE s[r.parsed + 1] = "more"
    <3>1. InMessage(s, r.parsed + 1)
      BY <2>2 DEF Collects
    <3> QED
      BY <2>2, <3>1, InMessageNext
  <2> QED
    BY <2>1, <2>2
<1> QED
  BY <1>2, <1>3 DEF Collects

\* The last frame completes it: the message is whole.
LEMMA CollectsFinal ==
    ASSUME NEW s, NEW r, NEW q, r.parsed \in Nat, r.msg \in Seq(Nat), r.fragmenting \in BOOLEAN,
           Collects(s, r),
           s[r.parsed + 1] \in {"whole", "end"}, r.fragmenting <=> s[r.parsed + 1] = "end",
           q.parsed = r.parsed + 1, q.fragmenting = FALSE,
           q.readPaused => q.pendingMsg[1] = Copied(r)
    PROVE  Collects(s, q) /\ EndsAt(s, Copied(r), q.parsed)
<1>1. OpenFrames(s, q.parsed) = {}
      /\ FramesOf(s, q.parsed) = OpenFrames(s, r.parsed) \cup {r.parsed + 1}
  BY OpenNext
<1>2. EndsAt(s, Copied(r), q.parsed)
  BY <1>1, CopiedFrames DEF EndsAt, Whole
<1>3. ~InMessage(s, q.parsed + 1)
  <2>1. CASE s[r.parsed + 1] = "end"
    BY <2>1, InMessageNext
  <2>2. CASE s[r.parsed + 1] = "whole"
    <3>1. ~InMessage(s, r.parsed + 1)
      BY <2>2 DEF Collects
    <3> QED
      BY <2>2, <3>1, InMessageNext
  <2> QED
    BY <2>1, <2>2
<1> QED
  BY <1>1, <1>2, <1>3 DEF Collects

\* Before the first frame nothing is collected.
LEMMA CollectsNothing ==
    ASSUME NEW s, NEW q, ~q.fragmenting, ~q.readPaused,
           q.parsed = 0 \/ (q.parsed = 1 /\ s[1] = "101")
    PROVE  Collects(s, q)
<1>1. CASE q.parsed = 0
  <2>1. OpenFrames(s, 0) = {} /\ ~InMessage(s, 0 + 1)
    BY DEF OpenFrames, InMessage
  <2> QED
    BY <1>1, <2>1 DEF Collects
<1>2. CASE q.parsed = 1 /\ s[1] = "101"
  <2>1. OpenFrames(s, 1) = {}
    BY <1>2 DEF OpenFrames, DataKinds
  <2>2. ~InMessage(s, 1 + 1)
    BY <1>2 DEF InMessage
  <2> QED
    BY <1>2, <2>1, <2>2 DEF Collects
<1> QED
  BY <1>1, <1>2

\* Collects looks at these fields only.
LEMMA CollectsSame ==
    ASSUME NEW s, NEW r, NEW q, Collects(s, r),
           q.parsed = r.parsed, q.fragmenting = r.fragmenting,
           q.fragmenting => q.msg = r.msg,
           q.readPaused => r.readPaused /\ q.pendingMsg = r.pendingMsg
    PROVE  Collects(s, q)
  BY DEF Collects

-----------------------------------------------------------------------------
(* What a step does to the streams: one of the effects below               *)

\* A step leaves what client d has read of its stream alone.
SameClient(d) ==
    /\ net'[d].conn = net[d].conn
    /\ client'[d].state = client[d].state /\ client'[d].fd = client[d].fd
    /\ client'[d].parsed = client[d].parsed
    /\ client'[d].fragmenting = client[d].fragmenting /\ client'[d].msg = client[d].msg
    /\ client'[d].readPaused = client[d].readPaused
    /\ client'[d].pendingMsg = client[d].pendingMsg

Only(c) == \A d \in Clients \ {c} : SameClient(d)
NoPush == hpc # "push" /\ hpc' # "push" /\ fed' = fed

\* No stream is touched.
Idle ==
    /\ \A d \in Clients : SameClient(d)
    /\ fed' = fed /\ (hpc' = "push" <=> hpc = "push") /\ (hpc = "push" => cur' = cur)

\* The connection of c is given up, or does not come about.
Down(c) ==
    /\ Only(c) /\ NoPush
    /\ net'[c].conn = net[c].conn
    /\ ~client'[c].fd /\ client'[c].state \in {"DISCONNECTED", "CONNECTING"}
    /\ client'[c].parsed = 0 /\ ~client'[c].fragmenting /\ ~client'[c].readPaused

\* The next one begins.
Begin(c) ==
    /\ Only(c) /\ NoPush
    /\ client[c].state = "DISCONNECTED"
    /\ net'[c].conn = net[c].conn + 1
    /\ client'[c].state = "CONNECTING"
    /\ client'[c].parsed = client[c].parsed
    /\ ~client'[c].fragmenting /\ ~client'[c].readPaused

\* It is established, ...
Greet(c) ==
    /\ Only(c) /\ NoPush
    /\ net'[c].conn = net[c].conn
    /\ client[c].state = "CONNECTING" /\ client[c].fd
    /\ client'[c].state = "HANDSHAKE"
    /\ client'[c].parsed = client[c].parsed
    /\ client'[c].fragmenting = client[c].fragmenting /\ client'[c].msg = client[c].msg
    /\ ~client'[c].readPaused

\* ... and upgraded.
Open(c) ==
    /\ Only(c) /\ NoPush
    /\ net'[c].conn = net[c].conn
    /\ client[c].state = "HANDSHAKE" /\ client[c].fd
    /\ client'[c].state = "OPEN"
    /\ Stream(c)[1] = "101" /\ client'[c].parsed = 1
    /\ client'[c].fragmenting = client[c].fragmenting
    /\ ~client'[c].readPaused

\* A frame of an open session is looked at; it keeps the session open ...
Reads(c, kinds) ==
    /\ Only(c) /\ fed' = fed /\ hpc # "push"
    /\ net'[c].conn = net[c].conn
    /\ client[c].state = "OPEN" /\ ~client[c].readPaused
    /\ Stream(c)[client[c].parsed + 1] \in kinds

\* ... as a PING or a PONG, ...
Skip(c) ==
    /\ Reads(c, {"ping", "pong"}) /\ hpc' # "push"
    /\ client'[c].state = "OPEN" /\ ~client'[c].readPaused
    /\ client'[c].parsed = client[c].parsed + 1
    /\ client'[c].fragmenting = client[c].fragmenting /\ client'[c].msg = client[c].msg

\* ... as a fragment, ...
Grow(c) ==
    /\ Reads(c, {"begin", "more"}) /\ hpc' # "push"
    /\ client[c].fragmenting <=> Stream(c)[client[c].parsed + 1] = "more"
    /\ client'[c].state = "OPEN" /\ ~client'[c].readPaused
    /\ client'[c].parsed = client[c].parsed + 1
    /\ client'[c].fragmenting = TRUE /\ client'[c].msg = Copied(client[c])

\* ... or as the end of a message, which is about to be pushed or held back.
Finish(c) ==
    /\ Reads(c, {"whole", "end"})
    /\ client[c].fragmenting <=> Stream(c)[client[c].parsed + 1] = "end"
    /\ client'[c].state = "OPEN"
    /\ client'[c].parsed = client[c].parsed + 1
    /\ client'[c].fragmenting = FALSE
    /\ \/ /\ hpc' = "push" /\ cur' = c
          /\ ~client'[c].readPaused /\ client'[c].msg = Copied(client[c])
       \/ /\ hpc' # "push"
          /\ client'[c].readPaused /\ client'[c].pendingMsg[1] = Copied(client[c])

\* A CLOSE that is answered, or a frame that breaks the protocol, closes it.
Shut(c) ==
    /\ Reads(c, {"close", "bad"} \cup DataKinds) /\ hpc' # "push"
    /\ client'[c].state = "CLOSING" /\ ~client'[c].readPaused
    /\ client'[c].fragmenting = client[c].fragmenting /\ client'[c].msg = client[c].msg
    /\ LET kind == Stream(c)[client[c].parsed + 1] IN
       \/ kind = "close" /\ client'[c].parsed = client[c].parsed + 1
       \/ /\ kind = "bad" \/ (kind \in DataKinds /\ client[c].fragmenting # (kind \in {"more", "end"}))
          /\ client'[c].parsed = client[c].parsed

\* The message in hand, or the one held back, goes to the queue.
Publish(c) ==
    /\ Only(c)
    /\ net'[c].conn = net[c].conn
    /\ hpc \in {"push", "resume"} /\ cur = c /\ hpc' # "push"
    /\ client[c].state = "OPEN" /\ (hpc = "resume" <=> client[c].readPaused)
    /\ client'[c].state = "OPEN" /\ ~client'[c].readPaused
    /\ client'[c].parsed = client[c].parsed
    /\ client'[c].fragmenting = client[c].fragmenting
    /\ client'[c].fragmenting => client'[c].msg = client[c].msg
    /\ fed' = Append(fed, <<c, net[c].conn,
                            IF hpc = "push" THEN client[c].msg ELSE client[c].pendingMsg[1]>>)

Effect ==
    \/ Idle
    \/ \E c \in Clients :
           \/ Down(c) \/ Begin(c) \/ Greet(c) \/ Open(c)
           \/ Skip(c) \/ Grow(c) \/ Finish(c) \/ Shut(c) \/ Publish(c)

-----------------------------------------------------------------------------
(* Each effect keeps the invariant                                         *)

\* As much of the types as it needs.
StreamTypes ==
    /\ hpc # "idle" => cur \in Clients
    /\ fed \in Seq(Clients \X Nat \X Seq(Nat))
    /\ \A c \in Clients :
           /\ net[c].conn \in Nat
           /\ client[c].parsed \in Nat /\ client[c].msg \in Seq(Nat)
           /\ client[c].fragmenting \in BOOLEAN /\ client[c].readPaused \in BOOLEAN
           /\ client[c].readPaused =>
                  client[c].state = "OPEN" /\ client[c].pendingMsg[1] \in Seq(Nat)
           /\ client[c].state \in {"HANDSHAKE", "OPEN", "CLOSING"} => client[c].fd

\* The invariant of the records gives these types.
LEMMA PartsStreamTypes == Parts => StreamTypes
<1> SUFFICES ASSUME Parts PROVE StreamTypes
  OBVIOUS
<1>1. ClientsInv /\ RestOK
  BY DEF Parts
<1>2. fed \in Seq(Clients \X Nat \X Seq(Nat)) /\ (hpc # "idle" => cur \in Clients)
  BY <1>1, Holding DEF RestOK, InHand
<1>3. ASSUME NEW c \in Clients
      PROVE  /\ net[c].conn \in Nat
             /\ client[c].parsed \in Nat /\ client[c].msg \in Seq(Nat)
             /\ client[c].fragmenting \in BOOLEAN /\ client[c].readPaused \in BOOLEAN
             /\ client[c].readPaused =>
                    client[c].state = "OPEN" /\ client[c].pendingMsg[1] \in Seq(Nat)
             /\ client[c].state \in {"HANDSHAKE", "OPEN", "CLOSING"} => client[c].fd
  <2>1. client[c] \in Records /\ Coherent(client[c]) /\ net[c].conn \in Nat
    BY <1>1 DEF ClientsInv, RestOK, NetRecords
  <2>2. /\ client[c].parsed \in Nat /\ client[c].msg \in Seq(Nat)
        /\ client[c].fragmenting \in BOOLEAN /\ client[c].readPaused \in BOOLEAN
        /\ client[c].pendingMsg \in Seq(Seq(Nat)) /\ client[c].fd \in BOOLEAN
    BY <2>1, Fields DEF Positions, Frames, Flags, Messages
  <2>3. client[c].readPaused => client[c].state = "OPEN" /\ client[c].pendingMsg # <<>>
    BY <2>1 DEF Coherent
  <2>4. client[c].pendingMsg # <<>> => client[c].pendingMsg[1] \in Seq(Nat)
    BY <2>2
  <2>5. client[c].state \in {"HANDSHAKE", "OPEN", "CLOSING"} => client[c].fd
    BY <2>1 DEF Coherent
  <2> QED
    BY <2>1, <2>2, <2>3, <2>4, <2>5
<1> QED
  BY <1>2, <1>3 DEF StreamTypes

\* A client that a step does not touch stays what it was.
LEMMA SessionKept ==
    ASSUME NEW d \in Clients, SessionInv(d), SameClient(d),
           Published(d)' = Published(d), Held(d)' = Held(d)
    PROVE  SessionInv(d)'
<1>1. Stream(d)' = Stream(d)
  BY DEF Stream, SameClient
<1>2. Collects(Stream(d)', client'[d])
  BY <1>1, CollectsSame DEF SessionInv, SameClient
<1> QED
  BY <1>1, <1>2 DEF SessionInv, SameClient

\* What is published of d when nothing is pushed and its connection stays.
LEMMA PublishedKept ==
    ASSUME NEW d, fed' = fed, net'[d].conn = net[d].conn
    PROVE  Published(d)' = Published(d)
  BY DEF Published

\* A step that pushes nothing and touches client c only keeps the invariant if it
\* keeps what is said of c.
LEMMA OnlyInv ==
    ASSUME StreamInv, StreamTypes, NEW c \in Clients, Only(c), hpc # "push", fed' = fed,
           net'[c].conn \in {net[c].conn, net[c].conn + 1},
           SessionInv(c)',
           hpc' = "push" => /\ cur' = c /\ ~client'[c].fragmenting
                            /\ EndsAt(Stream(c)', client'[c].msg, client'[c].parsed)
    PROVE  StreamInv'
<1>1. ASSUME NEW d \in Clients
      PROVE  SessionInv(d)'
  <2>1. CASE d # c
    <3>1. SameClient(d) /\ SessionInv(d)
      BY <2>1 DEF Only, StreamInv
    <3>2. Published(d)' = Published(d)
      BY <3>1, PublishedKept DEF SameClient
    <3>3. Held(d)' = Held(d)
      BY <2>1, <3>1 DEF Held, SameClient
    <3> QED
      BY <3>1, <3>2, <3>3, SessionKept
  <2> QED
    BY <2>1
<1>2. ASSUME NEW i \in DOMAIN fed
      PROVE  fed[i][2] <= net'[fed[i][1]].conn
  <2>1. fed[i] \in Clients \X Nat \X Seq(Nat)
    BY DEF StreamTypes
  <2>2. PICK d \in Clients : d = fed[i][1]
    BY <2>1
  <2>3. fed[i][2] \in Nat /\ fed[i][2] <= net[d].conn /\ net[d].conn \in Nat
    BY <2>1, <2>2 DEF StreamInv, StreamTypes
  <2>4. net'[d].conn \in {net[d].conn, net[d].conn + 1}
    BY DEF Only, SameClient
  <2> QED
    BY <2>2, <2>3, <2>4
<1>3. FragmentsTogether'
  BY DEF StreamInv, FragmentsTogether
<1>4. hpc' = "push" => /\ ~client'[cur'].fragmenting
                       /\ EndsAt(Stream(cur)', client'[cur'].msg, client'[cur'].parsed)
  BY DEF Stream
<1> QED
  BY <1>1, <1>2, <1>3, <1>4 DEF StreamInv

\* What touches no stream keeps the invariant.
LEMMA IdleInv == StreamInv /\ StreamTypes /\ Idle => StreamInv'
<1> SUFFICES ASSUME StreamInv, StreamTypes, Idle PROVE StreamInv'
  OBVIOUS
<1>1. ASSUME NEW d \in Clients PROVE SessionInv(d)'
  <2>1. SameClient(d) /\ SessionInv(d)
    BY DEF Idle, StreamInv
  <2>2. Published(d)' = Published(d)
    BY <2>1, PublishedKept DEF SameClient, Idle
  <2>3. Held(d)' = Held(d)
    BY <2>1 DEF Held, SameClient, Idle
  <2> QED
    BY <2>1, <2>2, <2>3, SessionKept
<1>2. ASSUME NEW i \in DOMAIN fed PROVE fed[i][2] <= net'[fed[i][1]].conn
  <2>1. fed[i][1] \in Clients
    BY DEF StreamTypes
  <2> QED
    BY <2>1 DEF StreamInv, Idle, SameClient
<1>3. ASSUME hpc' = "push"
      PROVE  /\ ~client'[cur'].fragmenting
             /\ EndsAt(Stream(cur)', client'[cur'].msg, client'[cur'].parsed)
  <2>1. hpc = "push" /\ cur' = cur
    BY <1>3 DEF Idle
  <2>2. cur \in Clients
    BY <2>1 DEF StreamTypes
  <2>3. SameClient(cur)
    BY <2>2 DEF Idle
  <2>4. Stream(cur)' = Stream(cur)
    BY <2>1, <2>3 DEF Stream, SameClient
  <2> QED
    BY <2>1, <2>3, <2>4 DEF StreamInv, SameClient
<1>4. fed' = fed /\ FragmentsTogether'
  BY DEF StreamInv, FragmentsTogether, Idle
<1> QED
  BY <1>1, <1>2, <1>3, <1>4 DEF StreamInv

\* A client without a connection has collected nothing.
LEMMA DownInv ==
    ASSUME StreamInv, StreamTypes, NEW c \in Clients, Down(c)
    PROVE  StreamInv'
<1>1. Collects(Stream(c)', client'[c])
  BY CollectsNothing DEF Down
<1>2. SessionInv(c)'
  BY <1>1 DEF SessionInv, Down
<1> QED
  BY <1>2, OnlyInv DEF Down, NoPush

\* A connection that begins has published nothing yet.
LEMMA BeginInv ==
    ASSUME StreamInv, StreamTypes, NEW c \in Clients, Begin(c)
    PROVE  StreamInv' /\ Published(c)' = {}
<1>1. client'[c].parsed = 0
  BY DEF StreamInv, SessionInv, Begin
<1>2. Collects(Stream(c)', client'[c])
  BY <1>1, CollectsNothing DEF Begin
<1>3. net[c].conn \in Nat /\ net'[c].conn = net[c].conn + 1
  BY DEF StreamTypes, Begin
<1>4. ASSUME NEW i \in DOMAIN fed, fed[i][1] = c
      PROVE  fed[i][2] # net'[c].conn
  <2>1. fed[i][2] \in Nat /\ fed[i][2] <= net[c].conn
    BY <1>4 DEF StreamTypes, StreamInv
  <2> QED
    BY <1>3, <2>1
<1>5. Published(c)' = {}
  BY <1>4 DEF Published, Begin, NoPush
<1>6. SessionInv(c)'
  BY <1>1, <1>2, <1>3, <1>5 DEF SessionInv, Begin
<1> QED
  BY <1>5, <1>6, OnlyInv DEF Begin, NoPush

\* The upgrade request changes nothing of it.
LEMMA GreetInv ==
    ASSUME StreamInv, StreamTypes, NEW c \in Clients, Greet(c)
    PROVE  StreamInv'
<1>1. SessionInv(c) /\ client[c].parsed = 0
  BY DEF StreamInv, SessionInv, Greet
<1>2. Stream(c)' = Stream(c) /\ Published(c)' = Published(c)
  BY PublishedKept DEF Stream, Greet, NoPush
<1>3. Collects(Stream(c)', client'[c])
  BY <1>1, <1>2, CollectsSame DEF SessionInv, Greet
<1>4. SessionInv(c)'
  BY <1>1, <1>2, <1>3 DEF SessionInv, Greet
<1> QED
  BY <1>4, OnlyInv DEF Greet, NoPush

\* After the answer to the upgrade the session has begun with no message.
LEMMA OpenInv ==
    ASSUME StreamInv, StreamTypes, NEW c \in Clients, Open(c)
    PROVE  StreamInv'
<1>1. SessionInv(c) /\ client[c].parsed = 0
  BY DEF StreamInv, SessionInv, Open
<1>2. Stream(c)' = Stream(c) /\ Published(c)' = Published(c)
  BY PublishedKept DEF Stream, Open, NoPush
<1>3. net[c].conn > 0 /\ Published(c) = {}
  BY <1>1 DEF SessionInv, Open
<1>4. ~client'[c].fragmenting
  <2>1. ~InMessage(Stream(c), 0 + 1)
    BY DEF InMessage
  <2> QED
    BY <1>1, <2>1 DEF SessionInv, Collects, Open
<1>5. Collects(Stream(c)', client'[c])
  BY <1>2, <1>4, CollectsNothing DEF Open
<1>6. Finals(Stream(c), 1) = {}
  BY DEF Finals, Open
<1>7. Held(c)' = 0
  BY DEF Held, Open, NoPush
<1>8. Cardinality(Published(c)') + Held(c)' = Cardinality(Finals(Stream(c)', client'[c].parsed))
  BY <1>2, <1>3, <1>6, <1>7, FS_EmptySet DEF Open
<1>9. SessionInv(c)'
  BY <1>2, <1>3, <1>5, <1>8 DEF SessionInv, Open
<1> QED
  BY <1>9, OnlyInv DEF Open, NoPush

\* What is known when a frame is looked at.
LEMMA ReadsKnown ==
    ASSUME StreamInv, StreamTypes, NEW c \in Clients, NEW kinds, Reads(c, kinds)
    PROVE  /\ SessionInv(c) /\ Collects(Stream(c), client[c])
           /\ Stream(c)' = Stream(c) /\ Published(c)' = Published(c)
           /\ client[c].parsed \in Nat /\ client[c].msg \in Seq(Nat)
           /\ client[c].fragmenting \in BOOLEAN
           /\ Held(c) = 0 /\ net[c].conn > 0
           /\ Cardinality(Published(c)) \in Nat
           /\ Cardinality(Published(c)) = Cardinality(Finals(Stream(c), client[c].parsed))
<1>1. SessionInv(c)
  BY DEF StreamInv
<1>2. Stream(c)' = Stream(c) /\ Published(c)' = Published(c)
  BY PublishedKept DEF Stream, Reads
<1>3. /\ client[c].parsed \in Nat /\ client[c].msg \in Seq(Nat)
      /\ client[c].fragmenting \in BOOLEAN
  BY DEF StreamTypes
<1>4. Held(c) = 0
  BY DEF Held, Reads
<1>5. net[c].conn > 0
      /\ Cardinality(Published(c)) + 0 = Cardinality(Finals(Stream(c), client[c].parsed))
  BY <1>1, <1>4 DEF SessionInv, Reads
<1>6. IsFiniteSet(Published(c))
  <2>1. DOMAIN fed = 1..Len(fed) /\ Len(fed) \in Int
    BY DEF StreamTypes
  <2>2. IsFiniteSet(1..Len(fed))
    BY <2>1, FS_Interval
  <2> QED
    BY <2>1, <2>2, FS_Subset DEF Published
<1>7. Cardinality(Published(c)) \in Nat
  BY <1>6, FS_CardinalityType
<1> QED
  BY <1>1, <1>2, <1>3, <1>4, <1>5, <1>7 DEF SessionInv

\* A PING or a PONG leaves the message that is being collected as it was.
LEMMA SkipInv ==
    ASSUME StreamInv, StreamTypes, NEW c \in Clients, Skip(c)
    PROVE  StreamInv'
<1> DEFINE s == Stream(c)  r == client[c]  q == client'[c]
<1>1. /\ Collects(s, r) /\ Stream(c)' = s /\ Published(c)' = Published(c)
      /\ r.parsed \in Nat /\ net[c].conn > 0
      /\ Cardinality(Published(c)) \in Nat
      /\ Cardinality(Published(c)) = Cardinality(Finals(s, r.parsed))
  BY ReadsKnown DEF Skip
<1>2. s[r.parsed + 1] \in {"ping", "pong"} /\ s[r.parsed + 1] \notin {"whole", "end"}
  BY DEF Skip, Reads
<1>3. Collects(s, q)
  BY <1>1, <1>2, CollectsControl DEF Skip
<1>4. Finals(s, q.parsed) = Finals(s, r.parsed)
  BY <1>1, <1>2, FinalsNext DEF Skip
<1>5. Held(c)' = 0
  BY DEF Held, Skip
<1>6. SessionInv(c)'
  BY <1>1, <1>3, <1>4, <1>5 DEF SessionInv, Skip, Reads
<1> QED
  BY <1>6, OnlyInv DEF Skip, Reads

\* A fragment is collected and completes nothing.
LEMMA GrowInv ==
    ASSUME StreamInv, StreamTypes, NEW c \in Clients, Grow(c)
    PROVE  StreamInv'
<1> DEFINE s == Stream(c)  r == client[c]  q == client'[c]
<1>1. /\ Collects(s, r) /\ Stream(c)' = s /\ Published(c)' = Published(c)
      /\ r.parsed \in Nat /\ r.msg \in Seq(Nat) /\ r.fragmenting \in BOOLEAN /\ net[c].conn > 0
      /\ Cardinality(Published(c)) \in Nat
      /\ Cardinality(Published(c)) = Cardinality(Finals(s, r.parsed))
  BY ReadsKnown DEF Grow
<1>2. s[r.parsed + 1] \in {"begin", "more"} /\ s[r.parsed + 1] \notin {"whole", "end"}
  BY DEF Grow, Reads
<1>3. Collects(s, q)
  BY <1>1, <1>2, CollectsFragment DEF Grow
<1>4. Finals(s, q.parsed) = Finals(s, r.parsed)
  BY <1>1, <1>2, FinalsNext DEF Grow
<1>5. Held(c)' = 0
  BY DEF Held, Grow
<1>6. SessionInv(c)'
  BY <1>1, <1>3, <1>4, <1>5 DEF SessionInv, Grow, Reads
<1> QED
  BY <1>6, OnlyInv DEF Grow, Reads

\* The last frame makes the message whole, and the client holds it.
LEMMA FinishInv ==
    ASSUME StreamInv, StreamTypes, NEW c \in Clients, Finish(c)
    PROVE  StreamInv'
<1> DEFINE s == Stream(c)  r == client[c]  q == client'[c]
<1>1. /\ Collects(s, r) /\ Stream(c)' = s /\ Published(c)' = Published(c)
      /\ r.parsed \in Nat /\ r.msg \in Seq(Nat) /\ r.fragmenting \in BOOLEAN /\ net[c].conn > 0
      /\ Cardinality(Published(c)) \in Nat
      /\ Cardinality(Published(c)) = Cardinality(Finals(s, r.parsed))
  BY ReadsKnown DEF Finish
<1>2. s[r.parsed + 1] \in {"whole", "end"} /\ (r.fragmenting <=> s[r.parsed + 1] = "end")
      /\ q.parsed = r.parsed + 1 /\ q.fragmenting = FALSE
      /\ (q.readPaused => q.pendingMsg[1] = Copied(r))
  BY DEF Finish, Reads
<1>3. Collects(s, q) /\ EndsAt(s, Copied(r), q.parsed)
  BY <1>1, <1>2, CollectsFinal
<1>4. Cardinality(Finals(s, q.parsed)) = Cardinality(Finals(s, r.parsed)) + 1
  BY <1>1, <1>2, FinalsNext
<1>5. Held(c)' = 1
  BY DEF Held, Finish
<1>6. SessionInv(c)'
  BY <1>1, <1>3, <1>4, <1>5 DEF SessionInv, Finish, Reads
<1>7. hpc' = "push" => /\ cur' = c /\ ~client'[c].fragmenting
                       /\ EndsAt(Stream(c)', client'[c].msg, client'[c].parsed)
  BY <1>1, <1>3 DEF Finish
<1> QED
  BY <1>6, <1>7, OnlyInv DEF Finish, Reads

\* The session closes for a CLOSE or for a frame that does not conform.
LEMMA ShutInv ==
    ASSUME StreamInv, StreamTypes, NEW c \in Clients, Shut(c)
    PROVE  StreamInv'
<1> DEFINE s == Stream(c)  r == client[c]  q == client'[c]
<1>1. /\ Collects(s, r) /\ Stream(c)' = s /\ Published(c)' = Published(c)
      /\ r.parsed \in Nat /\ r.fragmenting \in BOOLEAN
  BY ReadsKnown DEF Shut
<1>2. CASE s[r.parsed + 1] = "close" /\ q.parsed = r.parsed + 1
  <2>1. Collects(s, q)
    BY <1>1, <1>2, CollectsControl DEF Shut
  <2>2. SessionInv(c)'
    BY <1>1, <1>2, <2>1 DEF SessionInv, Shut, Reads
  <2> QED
    BY <2>2, OnlyInv DEF Shut, Reads
<1>3. CASE /\ \/ s[r.parsed + 1] = "bad"
              \/ /\ s[r.parsed + 1] \in DataKinds
                 /\ r.fragmenting # (s[r.parsed + 1] \in {"more", "end"})
           /\ q.parsed = r.parsed
  <2>1. Collects(s, q)
    BY <1>1, <1>3, CollectsSame DEF Shut
  <2>2. r.fragmenting <=> InMessage(s, r.parsed + 1)
    BY <1>1 DEF Collects
  <2>3. ~Conforms(s, r.parsed + 1)
    <3>1. CASE s[r.parsed + 1] = "bad"
      BY <3>1 DEF Conforms
    <3>2. CASE s[r.parsed + 1] \in DataKinds /\ r.fragmenting # (s[r.parsed + 1] \in {"more", "end"})
      <4>1. InMessage(s, r.parsed + 1) \in BOOLEAN
        BY DEF InMessage
      <4> QED
        BY <1>1, <2>2, <3>2, <4>1 DEF Conforms
    <3> QED
      BY <1>3, <3>1, <3>2
  <2>4. SessionInv(c)'
    BY <1>1, <1>3, <2>1, <2>3 DEF SessionInv, Shut, Reads
  <2> QED
    BY <2>4, OnlyInv DEF Shut, Reads
<1> QED
  BY <1>2, <1>3 DEF Shut

\* The message that goes to the queue: whole, and the last that was completed.
PublishedMessage(c) == IF hpc = "push" THEN client[c].msg ELSE client[c].pendingMsg[1]

\* It ends where the client has read to, and is the one message it holds.
LEMMA MessageKnown ==
    ASSUME StreamInv, StreamTypes, NEW c \in Clients, Publish(c)
    PROVE  /\ PublishedMessage(c) \in Seq(Nat)
           /\ EndsAt(Stream(c), PublishedMessage(c), client[c].parsed)
           /\ Held(c) = 1
<1>1. CASE hpc = "push"
  BY <1>1 DEF Publish, PublishedMessage, StreamInv, StreamTypes, Held
<1>2. CASE hpc = "resume"
  <2>1. client[c].readPaused /\ SessionInv(c)
    BY <1>2 DEF Publish, StreamInv
  <2>2. EndsAt(Stream(c), client[c].pendingMsg[1], client[c].parsed)
    BY <2>1 DEF SessionInv, Collects
  <2> QED
    BY <1>2, <2>1, <2>2 DEF PublishedMessage, StreamTypes, Held
<1> QED
  BY <1>1, <1>2 DEF Publish

\* What a push does to the history and to what is published of each client.
LEMMA PushedEntry ==
    ASSUME StreamInv, StreamTypes, NEW c \in Clients, Publish(c),
           NEW e, e = <<c, net[c].conn, PublishedMessage(c)>>, NEW n, n = Len(fed)
    PROVE  /\ n \in Nat /\ DOMAIN fed = 1..n /\ DOMAIN fed' = 1..(n + 1)
           /\ \A i \in 1..n : fed'[i] = fed[i]
           /\ fed'[n + 1] = e /\ fed' = Append(fed, e)
           /\ \A d \in Clients : net'[d].conn = net[d].conn
           /\ \A d \in Clients \ {c} : Published(d)' = Published(d)
           /\ Published(c)' = Published(c) \cup {n + 1}
           /\ Cardinality(Published(c)) \in Nat
           /\ Cardinality(Published(c)') = Cardinality(Published(c)) + 1
<1>1. e \in Clients \X Nat \X Seq(Nat)
  BY MessageKnown DEF StreamTypes
<1>2. fed' = Append(fed, e) /\ fed \in Seq(Clients \X Nat \X Seq(Nat))
  BY DEF Publish, PublishedMessage, StreamTypes
<1>3. /\ n \in Nat /\ DOMAIN fed = 1..n /\ DOMAIN fed' = 1..(n + 1)
      /\ \A i \in 1..n : fed'[i] = fed[i]
      /\ fed'[n + 1] = e
  BY <1>1, <1>2
<1>4. 1..(n + 1) = (1..n) \cup {n + 1} /\ n + 1 \notin 1..n
  BY <1>3
<1>5. \A d \in Clients : net'[d].conn = net[d].conn
  BY DEF Publish, Only, SameClient
<1>6. e[1] = c /\ e[2] = net[c].conn
  OBVIOUS
<1>7. \A d \in Clients \ {c} : Published(d)' = Published(d)
  BY <1>3, <1>4, <1>5, <1>6 DEF Published
<1>8. Published(c)' = Published(c) \cup {n + 1} /\ n + 1 \notin Published(c)
  BY <1>3, <1>4, <1>5, <1>6 DEF Published
<1>9. IsFiniteSet(Published(c))
  <2>1. IsFiniteSet(1..n)
    BY <1>3, FS_Interval
  <2> QED
    BY <1>3, <2>1, FS_Subset DEF Published
<1>10. /\ Cardinality(Published(c)) \in Nat
       /\ Cardinality(Published(c)') = Cardinality(Published(c)) + 1
  BY <1>8, <1>9, FS_CardinalityType, FS_AddElement
<1> QED
  BY <1>2, <1>3, <1>5, <1>7, <1>8, <1>10

\* A push keeps the history whole and the count of the session right.
LEMMA PublishInv ==
    ASSUME StreamInv, StreamTypes, NEW c \in Clients, Publish(c)
    PROVE  StreamInv'
<1>1. PICK e : e = <<c, net[c].conn, PublishedMessage(c)>>
  OBVIOUS
<1>2. PICK n : n = Len(fed)
  OBVIOUS
<1>3. /\ n \in Nat /\ DOMAIN fed = 1..n /\ DOMAIN fed' = 1..(n + 1)
      /\ \A i \in 1..n : fed'[i] = fed[i]
      /\ fed'[n + 1] = e
      /\ \A d \in Clients : net'[d].conn = net[d].conn
      /\ \A d \in Clients \ {c} : Published(d)' = Published(d)
      /\ Cardinality(Published(c)) \in Nat
      /\ Cardinality(Published(c)') = Cardinality(Published(c)) + 1
  BY <1>1, <1>2, PushedEntry
<1>4. /\ EndsAt(Stream(c), PublishedMessage(c), client[c].parsed)
      /\ Held(c) = 1
  BY MessageKnown
<1>5. \A i \in DOMAIN fed' : i \in DOMAIN fed \/ i = n + 1
  BY <1>3
<1>6. SessionInv(c)'
  <2>1. SessionInv(c) /\ client[c].state = "OPEN" /\ net[c].conn > 0
        /\ Cardinality(Published(c)) + 1 = Cardinality(Finals(Stream(c), client[c].parsed))
    BY <1>4 DEF StreamInv, SessionInv, Publish
  <2>2. Stream(c)' = Stream(c) /\ Held(c)' = 0
    BY <1>3 DEF Stream, Held, Publish
  <2>3. Collects(Stream(c), client'[c])
    BY <2>1, CollectsSame DEF SessionInv, Publish
  <2>4. Cardinality(Published(c)') + Held(c)' = Cardinality(Finals(Stream(c), client'[c].parsed))
    BY <1>3, <2>1, <2>2 DEF Publish
  <2> QED
    BY <1>3, <2>1, <2>2, <2>3, <2>4 DEF SessionInv, Publish
<1>7. ASSUME NEW d \in Clients \ {c} PROVE SessionInv(d)'
  <2>1. SameClient(d) /\ SessionInv(d)
    BY DEF Publish, Only, StreamInv
  <2>2. Held(d)' = Held(d)
    BY <2>1 DEF Held, Publish, SameClient
  <2> QED
    BY <1>3, <2>1, <2>2, SessionKept
<1>8. ASSUME NEW i \in DOMAIN fed'
      PROVE  /\ fed'[i][2] <= net'[fed'[i][1]].conn
             /\ Whole(Script[fed'[i][1]][fed'[i][2]], fed'[i][3])
  <2>1. CASE i \in DOMAIN fed
    <3>1. fed'[i] = fed[i] /\ fed[i][1] \in Clients
      BY <1>3, <2>1 DEF StreamTypes
    <3> QED
      BY <1>3, <2>1, <3>1 DEF StreamInv, FragmentsTogether
  <2>2. CASE i = n + 1
    <3>1. fed'[i][1] = c /\ fed'[i][2] = net[c].conn /\ fed'[i][3] = PublishedMessage(c)
      BY <1>1, <1>3, <2>2
    <3>2. net[c].conn \in Nat /\ net'[c].conn = net[c].conn
      BY <1>3 DEF StreamTypes
    <3>3. Whole(Script[c][net[c].conn], PublishedMessage(c))
      BY <1>4 DEF EndsAt, Stream
    <3> QED
      BY <3>1, <3>2, <3>3
  <2> QED
    BY <1>5, <2>1, <2>2
<1>9. FragmentsTogether'
  BY <1>8 DEF FragmentsTogether
<1>10. hpc' # "push"
  BY DEF Publish
<1> QED
  BY <1>6, <1>7, <1>8, <1>9, <1>10 DEF StreamInv

\* So no step breaks it.
LEMMA EffectInv == StreamInv /\ StreamTypes /\ Effect => StreamInv'
<1> SUFFICES ASSUME StreamInv, StreamTypes, Effect PROVE StreamInv'
  OBVIOUS
<1>1. CASE Idle
  BY <1>1, IdleInv
<1>2. ASSUME NEW c \in Clients, Down(c) PROVE StreamInv'
  BY <1>2, DownInv
<1>3. ASSUME NEW c \in Clients, Begin(c) PROVE StreamInv'
  BY <1>3, BeginInv
<1>4. ASSUME NEW c \in Clients, Greet(c) PROVE StreamInv'
  BY <1>4, GreetInv
<1>5. ASSUME NEW c \in Clients, Open(c) PROVE StreamInv'
  BY <1>5, OpenInv
<1>6. ASSUME NEW c \in Clients, Skip(c) PROVE StreamInv'
  BY <1>6, SkipInv
<1>7. ASSUME NEW c \in Clients, Grow(c) PROVE StreamInv'
  BY <1>7, GrowInv
<1>8. ASSUME NEW c \in Clients, Finish(c) PROVE StreamInv'
  BY <1>8, FinishInv
<1>9. ASSUME NEW c \in Clients, Shut(c) PROVE StreamInv'
  BY <1>9, ShutInv
<1>10. ASSUME NEW c \in Clients, Publish(c) PROVE StreamInv'
  BY <1>10, PublishInv
<1> QED
  BY <1>1, <1>2, <1>3, <1>4, <1>5, <1>6, <1>7, <1>8, <1>9, <1>10 DEF Effect

-----------------------------------------------------------------------------
(* Every step has one of the effects                                       *)

\* The fields of a record that its stream is about.
SameFields(q, r) == q.parsed = r.parsed /\ q.fragmenting = r.fragmenting /\ q.msg = r.msg

\* Registration, frames that are sent, closing and waiting do not touch them.
LEMMA OutputFields ==
    ASSUME NEW r \in Records
    PROVE  /\ SameFields(WithEvents(r), r) /\ SameFields(WithFrame(r), r)
           /\ SameFields(Closing(r), r) /\ SameFields(PutOff(r), r)
<1>1. \A q \in Records : SameFields(WithEvents(q), q)
  BY DEF WithEvents, Records, SameFields
<1>2. \A q \in Records : WithTx(q) \in Records /\ SameFields(WithTx(q), q)
  <2>1. ASSUME NEW q \in Records PROVE WithTx(q) \in Records /\ SameFields(WithTx(q), q)
    <3>1. (IF q.tx = "blocked" THEN q.tx ELSE "queued") \in TxStates
      BY DEF TxStates
    <3> QED
      BY <3>1 DEF WithTx, Records, SameFields
  <2> QED
    BY <2>1
<1>3. \A q \in Records : SameFields(WithFrame(q), q)
  BY <1>1, <1>2 DEF WithFrame, SameFields
<1>4. SameFields(Closing(r), r)
  <2>1. PICK q : q = [r EXCEPT !.state = "CLOSING"]
    OBVIOUS
  <2>2. q \in Records
    BY <2>1, StateRecord DEF States
  <2>3. SameFields(q, r)
    BY <2>1 DEF Records, SameFields
  <2>4. SameFields(WithFrame(q), q) /\ Closing(r) = WithFrame(q)
    BY <1>3, <2>1, <2>2 DEF Closing
  <2> QED
    BY <2>3, <2>4 DEF SameFields
<1>5. SameFields(PutOff(r), r)
  BY DEF PutOff, Records, SameFields
<1> QED
  BY <1>1, <1>3, <1>4, <1>5

\* After upstreamDisconnect() nothing of the stream is left.
LEMMA DisconnectedFields ==
    ASSUME NEW r \in Records
    PROVE  Disconnected(r).parsed = 0 /\ ~Disconnected(r).fragmenting
<1>1. PICK e : e = [Fresh EXCEPT !.attempt = r.attempt]
  OBVIOUS
<1>2. e \in Records /\ e.parsed = 0 /\ ~e.fragmenting
  BY <1>1, Fields, FreshRecord DEF Records, Fresh
<1>3. SameFields(PutOff(e), e) /\ Disconnected(r) = PutOff(e)
  BY <1>1, <1>2, OutputFields DEF Disconnected
<1> QED
  BY <1>2, <1>3 DEF SameFields

\* A data frame is copied to msg, and the last one ends the message.
LEMMA DataFields ==
    ASSUME NEW r \in Records
    PROVE  /\ WithData(r, r.parsed + 1).parsed = r.parsed + 1
           /\ WithData(r, r.parsed + 1).fragmenting = TRUE
           /\ WithData(r, r.parsed + 1).msg = Copied(r)
           /\ Completed(r).parsed = r.parsed + 1
           /\ Completed(r).fragmenting = FALSE
           /\ Completed(r).msg = Copied(r)
<1>1. PICK q : q = Consume(r)
  OBVIOUS
<1>2. q \in Records /\ q.parsed = r.parsed + 1 /\ q.msg = r.msg
  BY <1>1, ConsumeRecord
<1>3. WithData(r, r.parsed + 1) = [q EXCEPT !.msg = Copied(r), !.fragmenting = TRUE]
  BY <1>1, <1>2 DEF WithData, Copied
<1>4. PICK d : d = WithData(r, r.parsed + 1)
  OBVIOUS
<1>5. d.parsed = r.parsed + 1 /\ d.fragmenting = TRUE /\ d.msg = Copied(r)
  BY <1>2, <1>3, <1>4 DEF Records
<1>6. d \in Records
  BY <1>4, DataRecord, Fields DEF Positions
<1>7. Completed(r) = [d EXCEPT !.fragmenting = FALSE]
  BY <1>4 DEF Completed
<1> QED
  BY <1>4, <1>5, <1>6, <1>7 DEF Records

\* A step that replaces the record of c leaves the other clients alone.
LEMMA OnlyOne ==
    ASSUME ClientsInv, NEW c \in Clients, NEW q,
           client' = [client EXCEPT ![c] = q],
           \A d \in Clients : d # c => net'[d] = net[d]
    PROVE  client'[c] = q /\ Only(c)
<1>1. client'[c] = q /\ \A d \in Clients \ {c} : client'[d] = client[d]
  BY DEF ClientsInv
<1> QED
  BY <1>1 DEF Only, SameClient

\* A step that changes no record and no connection is idle.
LEMMA Unmoved ==
    ASSUME client' = client, \A d \in Clients : net'[d].conn = net[d].conn,
           fed' = fed, hpc # "push", hpc' # "push"
    PROVE  Effect
  BY DEF Effect, Idle, SameClient

\* Neither is one that changes nothing of a record that matters here.
LEMMA IdleClient ==
    ASSUME ClientsInv, NEW c \in Clients, NEW q,
           client' = [client EXCEPT ![c] = q], net' = net, fed' = fed,
           hpc' = "push" <=> hpc = "push", hpc = "push" => cur' = cur,
           SameFields(q, client[c]), q.state = client[c].state, q.fd = client[c].fd,
           q.readPaused = client[c].readPaused, q.pendingMsg = client[c].pendingMsg
    PROVE  Effect
<1>1. client'[c] = q /\ Only(c)
  BY OnlyOne
<1>2. \A d \in Clients : SameClient(d)
  BY <1>1 DEF Only, SameClient, SameFields
<1> QED
  BY <1>2 DEF Effect, Idle

\* upstreamDisconnect() takes the connection down.
LEMMA DropDown ==
    ASSUME ClientsInv, RestOK, cur \in Clients, hpc # "push", Drop
    PROVE  Effect
<1>1. PICK q : q = Disconnected(client[cur])
  OBVIOUS
<1>2. client[cur] \in Records /\ net \in [Clients -> NetRecords]
  BY DEF ClientsInv, RestOK
<1>3. /\ client' = [client EXCEPT ![cur] = q]
      /\ net' = [net EXCEPT ![cur] = NoNet(net[cur].conn)] /\ fed' = fed /\ hpc' = "idle"
  BY <1>1 DEF Drop, Return
<1>4. client'[cur] = q /\ Only(cur)
  BY <1>2, <1>3, OnlyOne
<1>5. net'[cur].conn = net[cur].conn
  BY <1>2, <1>3 DEF NoNet
<1>6. /\ q.fd = FALSE /\ q.state = "DISCONNECTED" /\ q.readPaused = FALSE
      /\ q.parsed = 0 /\ ~q.fragmenting
  BY <1>1, <1>2, DisconnectedRecord, DisconnectedFields
<1>7. Down(cur)
  BY <1>3, <1>4, <1>5, <1>6 DEF Down, NoPush
<1> QED
  BY <1>7 DEF Effect

\* The steps outside the reactor touch no stream.
LEMMA OutsideEffect ==
    ASSUME Parts,
           \/ OthersCheck \/ OthersPush \/ AggTake \/ Stop
           \/ \E c \in Clients : NetStep(c) \/ Elapse(c)
    PROVE  Effect
<1>1. ClientsInv /\ RestOK
  BY DEF Parts
<1>2. CASE OthersCheck \/ OthersPush \/ AggTake \/ Stop
  <2>1. UNCHANGED <<net, client, fed, hpc, cur>>
    BY <1>2 DEF OthersCheck, OthersPush, AggTake, Stop, loopVars
  <2> QED
    BY <2>1 DEF Effect, Idle, SameClient
<1>3. ASSUME NEW c \in Clients, Accept(c) \/ Break(c) \/ PeerSend(c) \/ PeerFin(c)
      PROVE  Effect
  <2>1. UNCHANGED <<client, fed, hpc, cur>>
    BY <1>3 DEF Accept, Break, PeerSend, PeerFin, loopVars
  <2>2. net \in [Clients -> NetRecords]
    BY <1>1 DEF RestOK
  <2>3. net[c] \in NetRecords /\ \E q \in NetRecords :
            q.conn = net[c].conn /\ net' = [net EXCEPT ![c] = q]
    <3>1. CASE Accept(c)
      BY <2>2, <3>1 DEF Accept, NetRecords
    <3>2. CASE Break(c)
      BY <2>2, <3>2 DEF Break, NetRecords
    <3>3. CASE PeerSend(c)
      <4>1. PICK q : q = [net[c] EXCEPT !.sent = @ + 1]
        OBVIOUS
      <4>2. net[c] \in NetRecords
        BY <2>2
      <4>3. q \in NetRecords /\ q.conn = net[c].conn
        BY <4>1, <4>2 DEF NetRecords
      <4> QED
        BY <3>3, <4>1, <4>2, <4>3 DEF PeerSend
    <3>4. CASE PeerFin(c)
      BY <2>2, <3>4 DEF PeerFin, NetRecords
    <3> QED
      BY <1>3, <3>1, <3>2, <3>3, <3>4
  <2>4. \A d \in Clients : net'[d].conn = net[d].conn
    BY <2>2, <2>3
  <2> QED
    BY <2>1, <2>4 DEF Effect, Idle, SameClient
<1>4. ASSUME NEW c \in Clients, PeerDrain(c) PROVE Effect
  <2>1. PICK q : q = [client[c] EXCEPT !.tx = "queued"]
    OBVIOUS
  <2>2. client[c] \in Records
    BY <1>1 DEF ClientsInv
  <2>3. /\ SameFields(q, client[c]) /\ q.state = client[c].state /\ q.fd = client[c].fd
        /\ q.readPaused = client[c].readPaused /\ q.pendingMsg = client[c].pendingMsg
    BY <2>1, <2>2 DEF Records, SameFields
  <2>4. client' = [client EXCEPT ![c] = q] /\ UNCHANGED <<net, fed, hpc, cur>>
    BY <1>4, <2>1 DEF PeerDrain, loopVars
  <2> QED
    BY <1>1, <2>3, <2>4, IdleClient
<1>5. ASSUME NEW c \in Clients, Elapse(c) PROVE Effect
  <2>1. PICK q : q = [client[c] EXCEPT !.wait = 0]
    OBVIOUS
  <2>2. client[c] \in Records
    BY <1>1 DEF ClientsInv
  <2>3. /\ SameFields(q, client[c]) /\ q.state = client[c].state /\ q.fd = client[c].fd
        /\ q.readPaused = client[c].readPaused /\ q.pendingMsg = client[c].pendingMsg
    BY <2>1, <2>2 DEF Records, SameFields
  <2>4. client' = [client EXCEPT ![c] = q] /\ UNCHANGED <<net, fed, hpc, cur>>
    BY <1>5, <2>1 DEF Elapse, loopVars
  <2> QED
    BY <1>1, <2>3, <2>4, IdleClient
<1> QED
  BY <1>2, <1>3, <1>4, <1>5 DEF NetStep

\* Nor do the steps of the loop that change no client.
LEMMA LoopEffect ==
    ASSUME Parts,
           \/ Turn \/ NotDue \/ ResumeCheck \/ ResumeNext \/ Wait \/ BatchDone
           \/ \E c \in Clients : Handle(c)
    PROVE  Effect
<1>1. HandlerInv
  BY DEF Parts
<1>2. UNCHANGED <<client, net, fed>>
  BY DEF Turn, NotDue, ResumeCheck, ResumeNext, Wait, BatchDone, Handle
<1>3. hpc # "push"
  BY <1>1 DEF HandlerInv, Turn, NotDue, Reconnecting, ResumeCheck, ResumeNext, Resuming, Wait,
              BatchDone, Handle
<1>4. hpc' # "push"
  BY <1>3 DEF Turn, NotDue, ResumeCheck, ResumeNext, Wait, BatchDone, Handle
<1> QED
  BY <1>2, <1>3, <1>4, Unmoved

\* reconnectClients() begins a connection, or does not get one.
LEMMA ConnectEffect ==
    ASSUME Parts, StreamInv, ConnectStarted \/ ConnectFailed \/ ConnectUnwatched
    PROVE  Effect
<1>1. ClientsInv /\ RestOK /\ HandlerInv
  BY DEF Parts
<1>2. Reconnecting /\ Due(idx) /\ idx \in Clients /\ hpc = "idle" /\ hpc' = hpc /\ fed' = fed
  BY <1>1 DEF ConnectStarted, ConnectFailed, ConnectUnwatched, Reconnecting, HandlerInv
<1>3. PICK c \in Clients : c = idx
  BY <1>2
<1>4. /\ client[c] \in Records /\ Coherent(client[c]) /\ client[c].state = "DISCONNECTED"
      /\ net \in [Clients -> NetRecords]
  BY <1>1, <1>2, <1>3 DEF ClientsInv, RestOK, Due
<1>5. client[c].parsed = 0 /\ ~client[c].fragmenting
  <2>1. SessionInv(c)
    BY DEF StreamInv
  <2>2. client[c].parsed = 0 /\ Collects(Stream(c), client[c])
    BY <1>4, <2>1 DEF SessionInv
  <2>3. ~InMessage(Stream(c), 0 + 1)
    BY DEF InMessage
  <2> QED
    BY <2>2, <2>3 DEF Collects
<1>6. ~client[c].readPaused /\ ~client[c].fd /\ client[c].fd \in BOOLEAN
  BY <1>4, Fields DEF Coherent, Flags
<1>7. CASE ConnectStarted
  <2>1. PICK q : q = [client[c] EXCEPT !.state = "CONNECTING", !.fd = TRUE,
                                       !.interest = {"out"}]
    OBVIOUS
  <2>2. client' = [client EXCEPT ![c] = q]
    BY <1>1, <1>3, <1>7, <2>1 DEF ConnectStarted, ClientsInv
  <2>3. net' = [net EXCEPT ![c] = [NoNet(net[c].conn + 1) EXCEPT !.link = "connecting"]]
    BY <1>3, <1>7 DEF ConnectStarted
  <2>4. net'[c].conn = net[c].conn + 1 /\ \A d \in Clients : d # c => net'[d] = net[d]
    BY <1>4, <2>3 DEF NoNet
  <2>5. client'[c] = q /\ Only(c)
    BY <1>1, <2>2, <2>4, OnlyOne
  <2>6. q.state = "CONNECTING" /\ SameFields(q, client[c]) /\ ~q.readPaused
    BY <1>4, <1>6, <2>1 DEF Records, SameFields
  <2>7. Begin(c)
    BY <1>2, <1>4, <1>5, <2>4, <2>5, <2>6 DEF Begin, NoPush, SameFields
  <2> QED
    BY <2>7 DEF Effect
<1>8. CASE ConnectFailed
  <2>1. PICK q : q = PutOff(client[c])
    OBVIOUS
  <2>2. client' = [client EXCEPT ![c] = q] /\ net' = net
    BY <1>3, <1>8, <2>1 DEF ConnectFailed
  <2>3. /\ SameFields(q, client[c]) /\ q.state = client[c].state /\ q.fd = client[c].fd
        /\ q.readPaused = client[c].readPaused /\ q.pendingMsg = client[c].pendingMsg
    BY <1>4, <2>1, OutputFields, PutOffRecord
  <2> QED
    BY <1>1, <1>2, <2>2, <2>3, IdleClient
<1>9. CASE ConnectUnwatched
  <2>1. PICK p : p = [client[c] EXCEPT !.state = "CONNECTING"]
    OBVIOUS
  <2>2. PICK q : q = PutOff(p)
    OBVIOUS
  <2>3. client' = [client EXCEPT ![c] = q] /\ net' = net
    BY <1>3, <1>9, <2>1, <2>2 DEF ConnectUnwatched
  <2>4. p \in Records /\ Kept(p, client[c]) /\ p.state = "CONNECTING"
    BY <1>4, <2>1, StateRecord DEF States
  <2>5. SameFields(p, client[c])
    BY <1>4, <2>1 DEF Records, SameFields
  <2>6. SameFields(q, p) /\ q.state = p.state /\ q.fd = p.fd /\ q.readPaused = p.readPaused
    BY <2>2, <2>4, OutputFields, PutOffRecord
  <2>7. client'[c] = q /\ Only(c)
    BY <1>1, <2>3, OnlyOne
  <2>8. Down(c)
    BY <1>2, <1>5, <1>6, <2>3, <2>4, <2>5, <2>6, <2>7 DEF Down, NoPush, SameFields, Kept
  <2> QED
    BY <2>8 DEF Effect
<1> QED
  BY <1>7, <1>8, <1>9

\* What the reactor knows of the client in hand, here.
LEMMA HandlerKnown ==
    ASSUME Parts, hpc # "idle"
    PROVE  /\ ClientsInv /\ RestOK /\ HandlerInv
           /\ cur \in Clients /\ client[cur] \in Records /\ Coherent(client[cur])
           /\ client[cur].parsed \in Nat /\ client[cur].fd \in BOOLEAN
           /\ client[cur].fragmenting \in BOOLEAN /\ client[cur].readPaused \in BOOLEAN
<1>1. ClientsInv /\ RestOK /\ HandlerInv
  BY DEF Parts
<1>2. cur \in Clients /\ client[cur] \in Records /\ Coherent(client[cur])
  BY Holding DEF InHand
<1> QED
  BY <1>1, <1>2, Fields DEF Positions, Flags

\* The first part of the handler: a connection is established or lost.
LEMMA OutputEffect ==
    ASSUME Parts,
           EventError \/ ConnectComplete \/ FlushAll \/ FlushSome \/ FlushError \/ NoOutput
    PROVE  Effect
<1>1. hpc = "out"
  BY DEF EventError, ConnectComplete, FlushAll, FlushSome, FlushError, NoOutput
<1> DEFINE r == client[cur]
<1>2. ClientsInv /\ RestOK /\ HandlerInv /\ cur \in Clients /\ r \in Records /\ Coherent(r)
  BY <1>1, HandlerKnown
<1>3. r.fd
  BY <1>1, <1>2 DEF HandlerInv
<1>4. CASE Drop
  BY <1>1, <1>2, <1>4, DropDown
<1>5. CASE ~Drop /\ ConnectComplete
  <2>1. PICK p : p = [r EXCEPT !.state = "HANDSHAKE"]
    OBVIOUS
  <2>2. PICK q : q = WithFrame(p)
    OBVIOUS
  <2>3. /\ r.state = "CONNECTING" /\ client' = [client EXCEPT ![cur] = q]
        /\ net' = net /\ fed' = fed /\ hpc' = "idle"
    BY <1>5, <2>1, <2>2 DEF ConnectComplete, Return
  <2>4. p \in Records /\ Kept(p, r) /\ p.state = "HANDSHAKE"
    BY <1>2, <2>1, StateRecord DEF States
  <2>5. SameFields(p, r)
    BY <1>2, <2>1 DEF Records, SameFields
  <2>6. SameFields(q, p) /\ Kept(q, p) /\ q.state = p.state
    BY <2>2, <2>4, OutputFields, FrameRecord
  <2>7. client'[cur] = q /\ Only(cur)
    BY <1>2, <2>3, OnlyOne
  <2>8. ~q.readPaused
    BY <1>2, <2>3, <2>4, <2>6 DEF Kept, Coherent
  <2>9. Greet(cur)
    BY <1>1, <1>3, <2>3, <2>4, <2>5, <2>6, <2>7, <2>8 DEF Greet, NoPush, SameFields
  <2> QED
    BY <1>2, <2>9 DEF Effect
<1>6. CASE ~Drop /\ (FlushAll \/ FlushSome)
  <2>1. PICK t \in TxStates : client' = [client EXCEPT ![cur] = WithEvents([r EXCEPT !.tx = t])]
    BY <1>6 DEF FlushAll, FlushSome, TxStates
  <2>2. net' = net /\ fed' = fed /\ hpc' = "in"
    BY <1>6 DEF FlushAll, FlushSome
  <2>3. PICK p : p = [r EXCEPT !.tx = t]
    OBVIOUS
  <2>4. PICK q : q = WithEvents(p)
    OBVIOUS
  <2>5. p \in Records /\ SameFields(p, r) /\ Kept(p, r) /\ p.state = r.state
    BY <1>2, <2>3 DEF Records, SameFields, Kept
  <2>6. SameFields(q, p) /\ Kept(q, p) /\ q.state = p.state
    BY <2>4, <2>5, OutputFields, EventsRecord
  <2>7. /\ SameFields(q, r) /\ q.state = r.state /\ q.fd = r.fd
        /\ q.readPaused = r.readPaused /\ q.pendingMsg = r.pendingMsg
    BY <2>5, <2>6 DEF SameFields, Kept
  <2>8. client' = [client EXCEPT ![cur] = q]
    BY <2>1, <2>3, <2>4
  <2> QED
    BY <1>1, <1>2, <2>2, <2>7, <2>8, IdleClient
<1>7. CASE ~Drop /\ NoOutput
  BY <1>1, <1>7, Unmoved DEF NoOutput
<1> QED
  BY <1>4, <1>5, <1>6, <1>7 DEF EventError, FlushError

\* The second: the answer to the upgrade opens the session.
LEMMA InputEffect ==
    ASSUME Parts, ReadHandshake \/ ReadOpen \/ NoInput
    PROVE  Effect
<1>1. hpc = "in"
  BY DEF ReadHandshake, ReadOpen, NoInput, InputIn
<1> DEFINE r == client[cur]
<1>2. ClientsInv /\ RestOK /\ HandlerInv /\ cur \in Clients /\ r \in Records /\ Coherent(r)
  BY <1>1, HandlerKnown
<1>3. r.fd
  BY <1>1, <1>2 DEF HandlerInv
<1>4. CASE Drop
  BY <1>1, <1>2, <1>4, DropDown
<1>5. CASE ~Drop /\ ReadHandshake
  <2>1. PICK p : p = [r EXCEPT !.state = "OPEN", !.attempt = 0, !.parsed = 1,
                               !.recvd = net[cur].sent]
    OBVIOUS
  <2>2. PICK q : q = WithEvents(p)
    OBVIOUS
  <2>3. /\ r.state = "HANDSHAKE" /\ client' = [client EXCEPT ![cur] = q]
        /\ net' = net /\ fed' = fed /\ hpc' = "frames" /\ Stream(cur)[1] = "101"
    BY <1>5, <2>1, <2>2 DEF ReadHandshake, InputIn
  <2>4. net[cur].sent \in Positions /\ 1 \in Positions /\ 0 \in Attempts /\ "OPEN" \in States
    BY <1>2 DEF RestOK, NetRecords, Positions, Attempts, MaxAttempt, States
  <2>5. /\ p \in Records /\ p.state = "OPEN" /\ p.parsed = 1
        /\ p.fragmenting = r.fragmenting /\ p.readPaused = r.readPaused
    BY <1>2, <2>1, <2>4 DEF Records
  <2>6. SameFields(q, p) /\ Kept(q, p) /\ q.state = p.state
    BY <2>2, <2>5, OutputFields, EventsRecord
  <2>7. client'[cur] = q /\ Only(cur)
    BY <1>2, <2>3, OnlyOne
  <2>8. ~q.readPaused
    BY <1>2, <2>3, <2>5, <2>6 DEF Kept, Coherent
  <2>9. Open(cur)
    BY <1>1, <1>3, <2>3, <2>5, <2>6, <2>7, <2>8 DEF Open, NoPush, SameFields
  <2> QED
    BY <1>2, <2>9 DEF Effect
<1>6. CASE ~Drop /\ (ReadOpen \/ NoInput)
  <2>1. UNCHANGED <<client, net, fed>> /\ hpc' # "push"
    BY <1>6 DEF ReadOpen, NoInput
  <2> QED
    BY <1>1, <2>1, Unmoved
<1> QED
  BY <1>4, <1>5, <1>6

\* A frame is looked at only in an open session that is not paused.
LEMMA ProcessingKnown ==
    ASSUME Parts, NEW kinds, Processing(kinds)
    PROVE  /\ ClientsInv /\ cur \in Clients /\ client[cur] \in Records
           /\ client[cur].state = "OPEN" /\ ~client[cur].readPaused
           /\ client[cur].fragmenting \in BOOLEAN
           /\ hpc = "frames" /\ NextFrame(cur) \in kinds
           /\ NextFrame(cur) = Stream(cur)[client[cur].parsed + 1]
<1>1. hpc = "frames" /\ NextFrame(cur) \in kinds
  BY DEF Processing
<1>2. client[cur].state = "OPEN" /\ ~client[cur].readPaused
  BY <1>1, HandlerKnown DEF HandlerInv
<1> QED
  BY <1>1, <1>2, HandlerKnown DEF NextFrame

\* PING and PONG are skipped.
LEMMA PingEffect ==
    ASSUME Parts, ParsePing
    PROVE  Effect
<1> DEFINE r == client[cur]
<1>1. /\ ClientsInv /\ cur \in Clients /\ r \in Records
      /\ r.state = "OPEN" /\ ~r.readPaused /\ hpc = "frames"
      /\ NextFrame(cur) \in {"ping", "pong"} /\ NextFrame(cur) = Stream(cur)[r.parsed + 1]
  BY ProcessingKnown DEF ParsePing
<1>2. PICK p : p = IF NextFrame(cur) = "ping" THEN WithFrame(r) ELSE r
  OBVIOUS
<1>3. PICK q : q = Consume(p)
  OBVIOUS
<1>4. /\ client' = [client EXCEPT ![cur] = q]
      /\ net' = net /\ fed' = fed /\ hpc' = "frames"
  BY <1>1, <1>2, <1>3 DEF ParsePing, loopVars
<1>5. p \in Records /\ SameFields(p, r) /\ p.state = r.state /\ p.readPaused = r.readPaused
  BY <1>1, <1>2, OutputFields, FrameRecord DEF SameFields, Kept
<1>6. /\ q.parsed = p.parsed + 1 /\ q.msg = p.msg /\ q.fragmenting = p.fragmenting
      /\ q.state = p.state /\ q.readPaused = p.readPaused
  BY <1>3, <1>5, ConsumeRecord DEF Untouched, Kept
<1>7. client'[cur] = q /\ Only(cur)
  BY <1>1, <1>4, OnlyOne
<1>8. Skip(cur)
  BY <1>1, <1>4, <1>5, <1>6, <1>7 DEF Skip, Reads, SameFields
<1> QED
  BY <1>1, <1>8 DEF Effect

\* A CLOSE, or a frame that breaks the protocol, closes the session.
LEMMA CloseEffect ==
    ASSUME Parts, ParseClose \/ ParseBad
    PROVE  Effect
<1> DEFINE r == client[cur]
           all == {"close", "bad"} \cup DataKinds
<1>1. PICK k \in {"close", "frame"} :
          /\ k = "close" => ParseClose
          /\ k = "frame" => ParseBad
  OBVIOUS
<1>2. /\ ClientsInv /\ cur \in Clients /\ r \in Records
      /\ r.state = "OPEN" /\ ~r.readPaused /\ r.fragmenting \in BOOLEAN /\ hpc = "frames"
      /\ NextFrame(cur) = Stream(cur)[r.parsed + 1]
      /\ (k = "close" => NextFrame(cur) = "close")
      /\ (k = "frame" => NextFrame(cur) \in {"bad"} \cup DataKinds)
  <2>1. CASE k = "close"
    <3>1. Processing({"close"})
      BY <1>1, <2>1 DEF ParseClose
    <3> QED
      BY <2>1, <3>1, ProcessingKnown
  <2>2. CASE k = "frame"
    <3>1. Processing({"bad"} \cup DataKinds)
      BY <1>1, <2>2 DEF ParseBad
    <3> QED
      BY <2>2, <3>1, ProcessingKnown
  <2> QED
    BY <2>1, <2>2
<1>3. PICK p : p = IF k = "close" THEN Consume(r) ELSE r
  OBVIOUS
<1>4. PICK q : q = Closing(p)
  OBVIOUS
<1>5. client' = [client EXCEPT ![cur] = q] /\ net' = net /\ fed' = fed /\ LeaveFrames
  BY <1>1, <1>3, <1>4 DEF ParseClose, ParseBad
<1>6. hpc' # "push"
  BY <1>5 DEF LeaveFrames, Return
<1>7. p \in Records /\ p.readPaused = r.readPaused /\ p.msg = r.msg
      /\ p.fragmenting = r.fragmenting
      /\ p.parsed = IF k = "close" THEN r.parsed + 1 ELSE r.parsed
  BY <1>2, <1>3, ConsumeRecord DEF Untouched, Kept
<1>8. SameFields(q, p) /\ q.state = "CLOSING" /\ q.readPaused = p.readPaused
  BY <1>4, <1>7, OutputFields, ClosingRecord DEF Kept
<1>9. client'[cur] = q /\ Only(cur)
  BY <1>2, <1>5, OnlyOne
<1>10. Reads(cur, all)
  BY <1>2, <1>5, <1>9 DEF Reads
<1>11. CASE k = "close"
  <2>1. Shut(cur)
    BY <1>2, <1>6, <1>7, <1>8, <1>9, <1>10, <1>11 DEF Shut, SameFields
  <2> QED
    BY <1>2, <2>1 DEF Effect
<1>12. CASE k = "frame"
  <2>1. \/ NextFrame(cur) = "bad"
        \/ /\ NextFrame(cur) \in DataKinds
           /\ r.fragmenting # (NextFrame(cur) \in {"more", "end"})
    BY <1>1, <1>2, <1>12 DEF ParseBad, Misplaced
  <2>2. Shut(cur)
    BY <1>2, <1>6, <1>7, <1>8, <1>9, <1>10, <1>12, <2>1 DEF Shut, SameFields
  <2> QED
    BY <1>2, <2>2 DEF Effect
<1> QED
  BY <1>11, <1>12

\* A data frame grows the message of the session, or finishes it.
LEMMA DataEffect ==
    ASSUME Parts, ParseFragment \/ CompletePush \/ CompletePause
    PROVE  Effect
<1> DEFINE r == client[cur]
<1>1. CASE ParseFragment
  <2>1. /\ ClientsInv /\ cur \in Clients /\ r \in Records
        /\ r.state = "OPEN" /\ ~r.readPaused /\ r.fragmenting \in BOOLEAN /\ hpc = "frames"
        /\ NextFrame(cur) \in {"begin", "more"} /\ NextFrame(cur) = Stream(cur)[r.parsed + 1]
    BY <1>1, ProcessingKnown DEF ParseFragment
  <2>2. PICK q : q = WithData(r, r.parsed + 1)
    OBVIOUS
  <2>3. /\ client' = [client EXCEPT ![cur] = q]
        /\ net' = net /\ fed' = fed /\ hpc' = "frames"
    BY <1>1, <2>1, <2>2 DEF ParseFragment, loopVars
  <2>4. q.parsed = r.parsed + 1 /\ q.fragmenting = TRUE /\ q.msg = Copied(r)
    BY <2>1, <2>2, DataFields
  <2>5. q.state = r.state /\ q.readPaused = r.readPaused
    <3>1. r.parsed + 1 \in Nat
      BY <2>1, Fields DEF Positions
    <3>2. Untouched(q, r)
      BY <2>1, <2>2, <3>1, DataRecord
    <3> QED
      BY <3>2 DEF Untouched, Kept
  <2>6. client'[cur] = q /\ Only(cur)
    BY <2>1, <2>3, OnlyOne
  <2>7. r.fragmenting <=> NextFrame(cur) = "more"
    BY <1>1, <2>1 DEF ParseFragment, Misplaced
  <2>8. Grow(cur)
    BY <2>1, <2>3, <2>4, <2>5, <2>6, <2>7 DEF Grow, Reads
  <2> QED
    BY <2>1, <2>8 DEF Effect
<1>2. CASE CompletePush \/ CompletePause
  <2>1. /\ ClientsInv /\ cur \in Clients /\ r \in Records
        /\ r.state = "OPEN" /\ ~r.readPaused /\ r.fragmenting \in BOOLEAN /\ hpc = "frames"
        /\ NextFrame(cur) \in {"whole", "end"} /\ NextFrame(cur) = Stream(cur)[r.parsed + 1]
    BY <1>2, ProcessingKnown DEF CompletePush, CompletePause
  <2>2. r.fragmenting <=> NextFrame(cur) = "end"
    BY <1>2, <2>1 DEF CompletePush, CompletePause, Misplaced
  <2>3. PICK p : p = Completed(r)
    OBVIOUS
  <2>4. /\ p \in Records /\ p.parsed = r.parsed + 1 /\ p.fragmenting = FALSE
        /\ p.msg = Copied(r)
    BY <2>1, <2>3, DataFields, CompletedRecord
  <2>5. p.state = "OPEN" /\ ~p.readPaused
    BY <2>1, <2>3, CompletedRecord DEF Untouched, Kept
  <2>6. CASE CompletePush
    <3>1. /\ client' = [client EXCEPT ![cur] = p]
          /\ net' = net /\ fed' = fed /\ hpc' = "push" /\ cur' = cur
      BY <2>3, <2>6 DEF CompletePush
    <3>2. client'[cur] = p /\ Only(cur)
      BY <2>1, <3>1, OnlyOne
    <3>3. Reads(cur, {"whole", "end"})
      BY <2>1, <3>1, <3>2 DEF Reads
    <3>4. Finish(cur)
      BY <2>1, <2>2, <2>4, <2>5, <3>1, <3>2, <3>3 DEF Finish
    <3> QED
      BY <2>1, <3>4 DEF Effect
  <2>7. CASE CompletePause
    <3>1. PICK h : h = [p EXCEPT !.pendingMsg = <<p.msg>>, !.readPaused = TRUE, !.msg = <<>>]
      OBVIOUS
    <3>2. PICK q : q = WithEvents(h)
      OBVIOUS
    <3>3. client' = [client EXCEPT ![cur] = q] /\ net' = net /\ fed' = fed /\ LeaveFrames
      BY <2>3, <2>7, <3>1, <3>2 DEF CompletePause
    <3>4. hpc' # "push"
      BY <3>3 DEF LeaveFrames, Return
    <3>5. p.msg \in Frames /\ <<p.msg>> \in Messages /\ <<>> \in Frames /\ TRUE \in Flags
      BY <2>4, Fields DEF Frames, Messages, Flags
    <3>6. /\ h \in Records /\ h.state = "OPEN" /\ h.readPaused = TRUE /\ h.pendingMsg = <<p.msg>>
          /\ h.parsed = p.parsed /\ h.fragmenting = p.fragmenting
      BY <2>4, <2>5, <3>1, <3>5 DEF Records
    <3>7. SameFields(q, h) /\ Kept(q, h) /\ q.state = h.state
      BY <3>2, <3>6, OutputFields, EventsRecord
    <3>8. client'[cur] = q /\ Only(cur)
      BY <2>1, <3>3, OnlyOne
    <3>9. Reads(cur, {"whole", "end"})
      BY <2>1, <3>3, <3>8 DEF Reads
    <3>10. /\ q.pendingMsg[1] = Copied(r) /\ q.readPaused /\ q.state = "OPEN"
           /\ q.parsed = r.parsed + 1 /\ q.fragmenting = FALSE
      BY <2>4, <3>6, <3>7 DEF Kept, SameFields
    <3>11. Finish(cur)
      BY <2>1, <2>2, <3>4, <3>8, <3>9, <3>10 DEF Finish
    <3> QED
      BY <2>1, <3>11 DEF Effect
  <2> QED
    BY <1>2, <2>6, <2>7
<1> QED
  BY <1>1, <1>2

\* The two places that push() a message publish it.
LEMMA PushEffect ==
    ASSUME Parts, StreamInv, Push \/ ResumePush
    PROVE  Effect
<1> DEFINE r == client[cur]
<1>1. hpc \in {"push", "resume"}
  BY DEF Push, ResumePush
<1>2. /\ ClientsInv /\ HandlerInv /\ cur \in Clients /\ r \in Records /\ Coherent(r)
  BY <1>1, HandlerKnown
<1>3. r.state = "OPEN" /\ (hpc = "resume" <=> r.readPaused)
  BY <1>1, <1>2 DEF HandlerInv, Coherent
<1>4. CASE Push
  <2>1. hpc = "push" /\ ~r.fragmenting
    BY <1>4 DEF Push, StreamInv
  <2>2. PICK q : q = [r EXCEPT !.msg = <<>>]
    OBVIOUS
  <2>3. /\ client' = [client EXCEPT ![cur] = q] /\ net' = net /\ hpc' = "frames"
        /\ fed' = Append(fed, <<cur, net[cur].conn, r.msg>>)
    BY <1>4, <2>2 DEF Push
  <2>4. /\ q.state = r.state /\ q.readPaused = r.readPaused /\ q.parsed = r.parsed
        /\ q.fragmenting = r.fragmenting
    BY <1>2, <2>2 DEF Records
  <2>5. client'[cur] = q /\ Only(cur)
    BY <1>2, <2>3, OnlyOne
  <2>6. Publish(cur)
    BY <1>3, <2>1, <2>3, <2>4, <2>5 DEF Publish
  <2> QED
    BY <1>2, <2>6 DEF Effect
<1>5. CASE ResumePush
  <2>1. hpc = "resume"
    BY <1>5 DEF ResumePush
  <2>2. PICK p : p = [r EXCEPT !.pendingMsg = <<>>, !.readPaused = FALSE]
    OBVIOUS
  <2>3. PICK q : q = WithEvents(p)
    OBVIOUS
  <2>4. /\ client' = [client EXCEPT ![cur] = q] /\ net' = net /\ hpc' = "frames"
        /\ fed' = Append(fed, <<cur, net[cur].conn, r.pendingMsg[1]>>)
    BY <1>5, <2>2, <2>3 DEF ResumePush
  <2>5. <<>> \in Messages /\ FALSE \in Flags
    BY DEF Messages, Flags
  <2>6. p \in Records /\ SameFields(p, r) /\ p.state = r.state /\ p.readPaused = FALSE
    BY <1>2, <2>2, <2>5 DEF Records, SameFields
  <2>7. SameFields(q, p) /\ q.state = p.state /\ q.readPaused = p.readPaused
    BY <2>3, <2>6, OutputFields, EventsRecord DEF Kept
  <2>8. client'[cur] = q /\ Only(cur)
    BY <1>2, <2>4, OnlyOne
  <2>9. Publish(cur)
    BY <1>3, <2>1, <2>4, <2>6, <2>7, <2>8 DEF Publish, SameFields
  <2> QED
    BY <1>2, <2>9 DEF Effect
<1> QED
  BY <1>4, <1>5

\* The last part of the handler reads, or gives the client up.
LEMMA ReceiveEffect ==
    ASSUME Parts, FramesDone \/ Recv \/ RecvEnd \/ CheckHup
    PROVE  Effect
<1>1. hpc \in {"frames", "recv", "hup"}
  BY DEF FramesDone, Recv, RecvEnd, CheckHup
<1> DEFINE r == client[cur]
<1>2. ClientsInv /\ RestOK /\ HandlerInv /\ cur \in Clients /\ r \in Records
  BY <1>1, HandlerKnown
<1>3. CASE Drop
  BY <1>1, <1>2, <1>3, DropDown
<1>4. CASE ~Drop /\ (FramesDone \/ RecvEnd \/ CheckHup)
  <2>1. UNCHANGED <<client, net, fed>>
    BY <1>4 DEF FramesDone, RecvEnd, CheckHup
  <2>2. hpc' # "push"
    BY <1>4 DEF FramesDone, RecvEnd, CheckHup, Return
  <2> QED
    BY <1>1, <2>1, <2>2, Unmoved
<1>5. CASE Recv
  <2>1. PICK k : client' = [client EXCEPT ![cur].recvd = k]
    BY <1>5 DEF Recv
  <2>2. PICK q : q = [r EXCEPT !.recvd = k]
    OBVIOUS
  <2>3. client' = [client EXCEPT ![cur] = q] /\ net' = net /\ fed' = fed /\ hpc' = "frames"
    BY <1>5, <2>1, <2>2 DEF Recv
  <2>4. /\ SameFields(q, r) /\ q.state = r.state /\ q.fd = r.fd
        /\ q.readPaused = r.readPaused /\ q.pendingMsg = r.pendingMsg
    BY <1>2, <2>2 DEF Records, SameFields
  <2> QED
    BY <1>1, <1>2, <2>3, <2>4, IdleClient
<1> QED
  BY <1>3, <1>4, <1>5

\* So every step has an effect.
LEMMA Effects == Parts /\ StreamInv /\ [Next]_vars => Effect
<1> SUFFICES ASSUME Parts, StreamInv, [Next]_vars PROVE Effect
  OBVIOUS
<1>1. CASE UNCHANGED vars
  BY <1>1 DEF vars, loopVars, Effect, Idle, SameClient
<1>2. CASE \/ OthersCheck \/ OthersPush \/ AggTake \/ Stop
           \/ \E c \in Clients : NetStep(c) \/ Elapse(c)
  BY <1>2, OutsideEffect
<1>3. CASE LoopStep
  BY <1>3, LoopEffect, ConnectEffect, PushEffect DEF LoopStep
<1>4. CASE HandlerStep
  BY <1>4, OutputEffect, InputEffect, PingEffect, CloseEffect, DataEffect, PushEffect,
     ReceiveEffect DEF HandlerStep
<1> QED
  BY <1>1, <1>2, <1>3, <1>4 DEF Next, ReactorStep

-----------------------------------------------------------------------------
(* The theorems about the streams                                          *)

\* Before the first connection nothing is read and nothing is pushed.
LEMMA InitStreams == Init => StreamInv
<1> SUFFICES ASSUME Init PROVE StreamInv
  OBVIOUS
<1>1. hpc = "idle" /\ fed = <<>>
  BY DEF Init
<1>2. ASSUME NEW c \in Clients PROVE SessionInv(c)
  <2>1. client[c] = Fresh
    BY DEF Init
  <2>2. /\ Fresh.state = "DISCONNECTED" /\ Fresh.parsed = 0
        /\ Fresh.fragmenting = FALSE /\ Fresh.readPaused = FALSE
    BY DEF Fresh
  <2>3. Collects(Stream(c), client[c])
    BY <2>1, <2>2, CollectsNothing
  <2> QED
    BY <2>1, <2>2, <2>3 DEF SessionInv
<1> QED
  BY <1>1, <1>2 DEF StreamInv, FragmentsTogether

\* The inductive invariant: what every client has collected of its message, and
\* what its session has published, follow from how far it has read its stream.
THEOREM StreamInvariant == Spec => []StreamInv
<1>1. Parts /\ StreamInv /\ [Next]_vars => StreamInv'
  BY PartsStreamTypes, Effects, EffectInv
<1> QED
  BY <1>1, InitStreams, PartsInvariant, PTL DEF Spec

\* A message that processBufferedFrames() publishes consists of its own fragments
\* and no others, across control frames, pauses and reconnects.
THEOREM FragmentsTogetherAlways == Spec => []FragmentsTogether
<1>1. StreamInv => FragmentsTogether
  BY DEF StreamInv
<1> QED
  BY <1>1, StreamInvariant, PTL

\* beginClose() and the answer to a CLOSE: a stream that keeps to the protocol is
\* never refused.
THEOREM ConformingNotRefusedAlways == Spec => []ConformingNotRefused
<1>1. StreamInv => ConformingNotRefused
  BY DEF StreamInv, SessionInv, ConformingNotRefused
<1> QED
  BY <1>1, StreamInvariant, PTL

-----------------------------------------------------------------------------
(* What the data queue sees: the refinement of Feed                        *)

\* A sequence mapped element by element, with one more.
LEMMA MapAppend ==
    ASSUME NEW n \in Nat, NEW g
    PROVE  [i \in 1..(n + 1) |-> g[i]] = Append([i \in 1..n |-> g[i]], g[n + 1])
<1> DEFINE S == {g[i] : i \in 1..(n + 1)}
           f == [i \in 1..n |-> g[i]]
<1>1. f \in Seq(S) /\ Len(f) = n
  OBVIOUS
<1>2. g[n + 1] \in S
  OBVIOUS
<1>3. \A i \in 1..n : f[i] = g[i]
  OBVIOUS
<1> HIDE DEF f, S
<1>4. /\ Append(f, g[n + 1]) = [i \in 1..(n + 1) |-> Append(f, g[n + 1])[i]]
      /\ \A i \in 1..n : Append(f, g[n + 1])[i] = f[i]
      /\ Append(f, g[n + 1])[n + 1] = g[n + 1]
  BY <1>1, <1>2
<1>5. \A i \in 1..(n + 1) : Append(f, g[n + 1])[i] = g[i]
  BY <1>3, <1>4
<1> QED
  BY <1>4, <1>5 DEF f

\* A step that pushes nothing and keeps all connections is not seen.
LEMMA Unseen ==
    ASSUME fed' = fed, \A d \in Clients : net'[d].conn = net[d].conn
    PROVE  UNCHANGED Abstract!vars
<1>1. \A d \in Clients : Published(d)' = Published(d)
  BY PublishedKept
<1> QED
  BY <1>1 DEF Abstract!vars, Message

\* A connection that begins starts the numbering again.
LEMMA BeginSeen ==
    ASSUME StreamInv, StreamTypes, NEW c \in Clients, Begin(c)
    PROVE  Abstract!Begin(c)
<1>1. fed' = fed /\ net'[c].conn = net[c].conn + 1
      /\ \A d \in Clients \ {c} : net'[d].conn = net[d].conn
  BY DEF Begin, NoPush, Only, SameClient
<1>2. \A d \in Clients \ {c} : Published(d)' = Published(d)
  BY <1>1, PublishedKept
<1>3. Cardinality(Published(c)') + 1 = 1
  BY BeginInv, FS_EmptySet
<1>4. [d \in Clients |-> net'[d].conn] =
          [[d \in Clients |-> net[d].conn] EXCEPT ![c] = net[c].conn + 1]
  BY <1>1
<1>5. [d \in Clients |-> Cardinality(Published(d)') + 1] =
          [[d \in Clients |-> Cardinality(Published(d)) + 1] EXCEPT ![c] = 1]
  BY <1>2, <1>3
<1>6. [i \in DOMAIN fed' |-> Message(fed'[i])] = [i \in DOMAIN fed |-> Message(fed[i])]
  BY <1>1
<1> QED
  BY <1>4, <1>5, <1>6 DEF Abstract!Begin, Message

\* What is pushed is the next message of the session.
LEMMA PublishSeen ==
    ASSUME StreamInv, StreamTypes, NEW c \in Clients, Publish(c)
    PROVE  Abstract!Publish(c)
<1>1. PICK e : e = <<c, net[c].conn, PublishedMessage(c)>>
  OBVIOUS
<1>2. PICK n : n = Len(fed)
  OBVIOUS
<1>3. /\ n \in Nat /\ DOMAIN fed = 1..n /\ DOMAIN fed' = 1..(n + 1)
      /\ \A i \in 1..n : fed'[i] = fed[i]
      /\ fed'[n + 1] = e
      /\ \A d \in Clients : net'[d].conn = net[d].conn
      /\ \A d \in Clients \ {c} : Published(d)' = Published(d)
      /\ Cardinality(Published(c)) \in Nat
      /\ Cardinality(Published(c)') = Cardinality(Published(c)) + 1
  BY <1>1, <1>2, PushedEntry
<1>4. net[c].conn > 0
      /\ Cardinality(Published(c)) + 1 = Cardinality(Finals(Stream(c), client[c].parsed))
  <2>1. SessionInv(c) /\ client[c].state = "OPEN" /\ Held(c) = 1
    BY MessageKnown DEF StreamInv, Publish
  <2> QED
    BY <2>1 DEF SessionInv
<1>5. Message(e) = <<c, net[c].conn, Cardinality(Published(c)) + 1>>
  <2>1. PublishedMessage(c)[Len(PublishedMessage(c))] = client[c].parsed
    BY MessageKnown DEF EndsAt
  <2>2. e[1] = c /\ e[2] = net[c].conn /\ e[3] = PublishedMessage(c)
    BY <1>1
  <2> QED
    BY <1>4, <2>1, <2>2 DEF Message, Stream
<1>6. [i \in DOMAIN fed' |-> Message(fed'[i])] =
          Append([i \in DOMAIN fed |-> Message(fed[i])],
                 <<c, net[c].conn, Cardinality(Published(c)) + 1>>)
  <2>1. PICK g : g = [i \in 1..(n + 1) |-> Message(fed'[i])]
    OBVIOUS
  <2>2. n + 1 \in 1..(n + 1) /\ \A i \in 1..n : i \in 1..(n + 1)
    BY <1>3
  <2>3. g[n + 1] = Message(e) /\ \A i \in 1..n : g[i] = Message(fed[i])
    BY <1>3, <2>1, <2>2
  <2>4. [i \in 1..(n + 1) |-> g[i]] = [i \in DOMAIN fed' |-> Message(fed'[i])]
    BY <1>3, <2>1
  <2>5. [i \in 1..n |-> g[i]] = [i \in DOMAIN fed |-> Message(fed[i])]
    BY <1>3, <2>3
  <2> QED
    BY <1>3, <1>5, <2>3, <2>4, <2>5, MapAppend
<1> QED
  BY <1>3, <1>4, <1>6 DEF Abstract!Publish, Message

\* Every effect is a step of Feed, or is not seen.
LEMMA EffectSeen ==
    ASSUME StreamInv, StreamTypes, Effect
    PROVE  [Abstract!Next]_(Abstract!vars)
<1>1. CASE Idle
  BY <1>1, Unseen DEF Idle, SameClient
<1>2. ASSUME NEW c \in Clients, Down(c) \/ Greet(c) \/ Open(c)
      PROVE  UNCHANGED Abstract!vars
  BY <1>2, Unseen DEF Down, Greet, Open, NoPush, Only, SameClient
<1>3. ASSUME NEW c \in Clients, Skip(c) \/ Grow(c) \/ Finish(c) \/ Shut(c)
      PROVE  UNCHANGED Abstract!vars
  BY <1>3, Unseen DEF Skip, Grow, Finish, Shut, Reads, Only, SameClient
<1>4. ASSUME NEW c \in Clients, Begin(c)
      PROVE  Abstract!Next
  BY <1>4, BeginSeen DEF Abstract!Next
<1>5. ASSUME NEW c \in Clients, Publish(c)
      PROVE  Abstract!Next
  BY <1>5, PublishSeen DEF Abstract!Next
<1> QED
  BY <1>1, <1>2, <1>3, <1>4, <1>5 DEF Effect

\* The reactor implements Feed: each session's messages reach the data queue in
\* order and without a gap, paused or not, and none after the next connection.
THEOREM FeedImplemented == Spec => ImplementsFeed
<1>1. Init => Abstract!Init
  <2> SUFFICES ASSUME Init PROVE Abstract!Init
    OBVIOUS
  <2>1. fed = <<>> /\ \A c \in Clients : net[c].conn = 0
    BY DEF Init, NoNet
  <2>2. \A c \in Clients : Published(c) = {}
    BY <2>1 DEF Published
  <2>3. \A c \in Clients : Cardinality(Published(c)) + 1 = 1
    BY <2>2, FS_EmptySet
  <2>4. [i \in DOMAIN fed |-> Message(fed[i])] = <<>>
    BY <2>1
  <2> QED
    BY <2>1, <2>3, <2>4 DEF Abstract!Init
<1>2. Parts /\ StreamInv /\ [Next]_vars => [Abstract!Next]_(Abstract!vars)
  BY PartsStreamTypes, Effects, EffectSeen
<1> QED
  BY <1>1, <1>2, PartsInvariant, StreamInvariant, PTL DEF Spec, ImplementsFeed, Abstract!Spec
=============================================================================
