----------------------------- MODULE SinkWriter -----------------------------
(***************************************************************************)
(* The aggregator's end of the sink connection (agg.c): two slots for      *)
(* outgoing frames, one for data and one for a PONG, each with an offset,  *)
(* written by non-blocking send() into a socket buffer of limited room;    *)
(* the frames the sink sends; the replacement of a sink by the next; and   *)
(* the end of the thread, with or without a drain of the data queue.       *)
(*                                                                         *)
(* A frame is a number of units (bytes, or runs of bytes). What reaches    *)
(* the wire is a sequence of units <<kind, frame, index>>. Data frames are *)
(* numbered as they come from the data queue, PONGs by the PING they       *)
(* answer. CLOSE frames go past the slots, best effort.                    *)
(***************************************************************************)
EXTENDS Naturals, Sequences, FiniteSets

CONSTANTS
    DataLen, CtrlLen,   \* units of a data frame and of a control frame
    Room,               \* units the socket buffer of a sink takes
    SinkKinds,          \* what a sink may send: "ping", "close" (or an error,
                        \* which is the same but for the code), "other",
                        \* "long" (more than rx takes before it is handled)
    MaxFrames,          \* bound: frames a sink sends
    MaxMsgs,            \* bound: messages in the data queue
    MaxSinks            \* bound: sinks that connect

ASSUME LenAssumption == DataLen \in Nat \ {0} /\ CtrlLen \in Nat \ {0}
\* What a sink reads while a frame is sent it might as well have read before.
ASSUME RoomAssumption == Room \in Nat /\ Room >= DataLen
ASSUME KindAssumption == SinkKinds \subseteq {"ping", "close", "other", "long"}
ASSUME BoundAssumption == MaxFrames \in Nat /\ MaxMsgs \in Nat /\ MaxSinks \in Nat

VARIABLES
    \* the sink's socket
    room,       \* units send() can take at the moment
    inbox,      \* frames received and not read yet
    peer,       \* "open", "fin" (it has closed its end) or "reset"
    \* Agg_t
    sink,       \* number of the adopted sink, 0 if NULL
    pending, pendingOff,
    pendingCtrl, pendingCtrlOff,
    interest,   \* events asked for by the last epoll_ctl()
    \* the thread
    pc,
    joined, adopted,    \* sinks put into ctrlQueue, and taken from it
    made, taken,        \* messages put into the data queue, and taken from it
    down,       \* both queues are shut down
    pings,      \* PINGs read
    whole,      \* history: messages taken before the drain
    received,   \* frames the current sink has sent
    complete,   \* history: messages whose last unit was written to a sink
    wire        \* history: what was written to the socket of the current sink

slots == <<pending, pendingOff, pendingCtrl, pendingCtrlOff>>
socket == <<room, inbox, peer, received>>
counts == <<joined, adopted, made, taken, down, pings, whole>>
history == <<complete, wire>>
vars == <<socket, sink, slots, interest, pc, counts, history>>

TypeOK ==
    /\ room \in 0..Room
    /\ inbox \in Seq(SinkKinds) /\ received \in 0..MaxFrames
    /\ peer \in {"open", "fin", "reset"}
    /\ sink \in 0..MaxSinks
    /\ pending \in 0..MaxMsgs /\ pendingOff \in 0..DataLen
    /\ pendingCtrl \in Nat /\ pendingCtrlOff \in 0..CtrlLen
    /\ interest \subseteq {"in", "out"}
    /\ pc \in {"ctrl", "flushCtrl", "flush", "take", "check", "wait",
              "drainCtrl", "drain", "ending", "end"}
    /\ joined \in 0..MaxSinks /\ adopted \in 0..MaxSinks
    /\ made \in 0..MaxMsgs /\ taken \in 0..made /\ whole \in 0..taken
    /\ down \in BOOLEAN /\ pings \in Nat
    /\ complete \subseteq 1..MaxMsgs
    /\ wire \in Seq({"data", "pong", "close"} \X Nat \X Nat)

Init ==
    /\ room = Room /\ inbox = <<>> /\ peer = "open" /\ received = 0
    /\ sink = 0
    /\ pending = 0 /\ pendingOff = 0 /\ pendingCtrl = 0 /\ pendingCtrlOff = 0
    /\ interest = {} /\ pc = "ctrl"
    /\ joined = 0 /\ adopted = 0 /\ made = 0 /\ taken = 0 /\ whole = 0
    /\ down = FALSE /\ pings = 0
    /\ complete = {} /\ wire = <<>>

-----------------------------------------------------------------------------
(* The sinks, the sources and the stop *)

\* A worker hands a new sink to the aggregator.
SinkJoin ==
    /\ joined < MaxSinks /\ ~down
    /\ joined' = joined + 1
    /\ UNCHANGED <<socket, sink, slots, interest, pc, adopted, made, taken, down, pings,
                   whole, history>>

SourcePush ==
    /\ made < MaxMsgs /\ ~down
    /\ made' = made + 1
    /\ UNCHANGED <<socket, sink, slots, interest, pc, joined, adopted, taken, down, pings,
                   whole, history>>

\* main() has joined the workers and shuts both queues down.
Stop ==
    /\ ~down
    /\ down' = TRUE
    /\ UNCHANGED <<socket, sink, slots, interest, pc, joined, adopted, made, taken, pings,
                   whole, history>>

SinkReads ==
    /\ sink # 0 /\ peer # "reset" /\ room < Room
    /\ room' = room + 1
    /\ UNCHANGED <<inbox, peer, received, sink, slots, interest, pc, counts, history>>

SinkSends ==
    /\ sink # 0 /\ peer = "open" /\ received < MaxFrames
    /\ \E kind \in SinkKinds : inbox' = Append(inbox, kind)
    /\ received' = received + 1
    /\ UNCHANGED <<room, peer, sink, slots, interest, pc, counts, history>>

SinkCloses ==
    /\ sink # 0 /\ peer # "reset"
    /\ peer' \in {"fin", "reset"} \ {peer}
    /\ UNCHANGED <<room, inbox, received, sink, slots, interest, pc, counts, history>>

-----------------------------------------------------------------------------
(* Writing *)

Least(a, b) == IF a < b THEN a ELSE b

\* Units from + 1 .. to of a frame.
Units(kind, frame, from, to) == [i \in 1..(to - from) |-> <<kind, frame, from + i>>]

\* closeSink() drops what was being written.
ClearSlots ==
    /\ pending' = 0 /\ pendingOff' = 0
    /\ pendingCtrl' = 0 /\ pendingCtrlOff' = 0

CloseSink == sink' = 0 /\ interest' = {} /\ ClearSlots

\* sendCloseBestEffort(): as much of the CLOSE frame as the socket takes.
SendClose ==
    IF peer = "reset"
    THEN wire' = wire
    ELSE wire' = wire \o Units("close", 0, 0, Least(room, CtrlLen))

\* adoptSink() first closes the sink that is there ...
ReplaceSink ==
    /\ pc \in {"ctrl", "drainCtrl"} /\ adopted < joined /\ sink # 0
    /\ SendClose
    /\ CloseSink
    /\ UNCHANGED <<socket, pc, counts, complete>>

\* ... and then registers the new one for input.
AdoptSink ==
    /\ pc \in {"ctrl", "drainCtrl"} /\ adopted < joined /\ sink = 0
    /\ adopted' = adopted + 1
    /\ sink' = adopted + 1
    /\ interest' = {"in"}
    /\ room' = Room /\ inbox' = <<>> /\ peer' = "open" /\ received' = 0
    /\ wire' = <<>>
    /\ UNCHANGED <<slots, pc, joined, made, taken, down, pings, whole, complete>>

\* Mutant: aggPump() is for new messages only.
CtrlEmpty_NotWhilePending ==
    /\ pc = "ctrl" /\ adopted = joined
    /\ pc' = IF sink = 0 \/ pending # 0 THEN "check" ELSE "flushCtrl"
    /\ UNCHANGED <<socket, sink, slots, interest, counts, history>>

CtrlEmpty ==
    /\ pc = "ctrl" /\ adopted = joined
    /\ pc' = IF sink = 0 THEN "check" ELSE "flushCtrl"
    /\ UNCHANGED <<socket, sink, slots, interest, counts, history>>

\* sinkArm()
SlotEvents == {"in"} \cup (IF pending # 0 \/ pendingCtrl # 0 THEN {"out"} ELSE {})

\* Mutant: only the data slot asks for EPOLLOUT.
Arm_DataOnly == interest' = {"in"} \cup (IF pending # 0 THEN {"out"} ELSE {})

Arm == interest' = SlotEvents

\* sinkFlushOne() with the control slot: one send(), and the frame is freed
\* with its last unit.
SendCtrl ==
    /\ pc = "flushCtrl" /\ pendingCtrl # 0 /\ peer # "reset" /\ room > 0
    /\ LET to == pendingCtrlOff + Least(room, CtrlLen - pendingCtrlOff) IN
        /\ wire' = wire \o Units("pong", pendingCtrl, pendingCtrlOff, to)
        /\ room' = room - (to - pendingCtrlOff)
        /\ IF to = CtrlLen
           THEN pendingCtrl' = 0 /\ pendingCtrlOff' = 0
           ELSE pendingCtrl' = pendingCtrl /\ pendingCtrlOff' = to
    /\ UNCHANGED <<inbox, peer, received, sink, pending, pendingOff, interest, pc, counts,
                   complete>>

\* sinkFlush() goes on to the data slot when the control slot is empty.
CtrlWritten ==
    /\ pc = "flushCtrl" /\ pendingCtrl = 0
    /\ pc' = "flush"
    /\ UNCHANGED <<socket, sink, slots, interest, counts, history>>

\* Mutant: every send() starts with the first byte.
SendData_Restart ==
    /\ pc = "flush" /\ pending # 0 /\ peer # "reset" /\ room > 0
    /\ LET to == Least(room, DataLen) IN
        /\ wire' = wire \o Units("data", pending, 0, to)
        /\ room' = room - to
        /\ IF to = DataLen
           THEN pending' = 0 /\ pendingOff' = 0 /\ complete' = complete \cup {pending}
           ELSE pending' = pending /\ pendingOff' = to /\ complete' = complete
    /\ UNCHANGED <<inbox, peer, received, sink, pendingCtrl, pendingCtrlOff, interest,
                   pc, counts>>

\* The same with the data slot.
SendData ==
    /\ pc = "flush" /\ pending # 0 /\ peer # "reset" /\ room > 0
    /\ LET to == pendingOff + Least(room, DataLen - pendingOff) IN
        /\ wire' = wire \o Units("data", pending, pendingOff, to)
        /\ room' = room - (to - pendingOff)
        /\ IF to = DataLen
           THEN pending' = 0 /\ pendingOff' = 0 /\ complete' = complete \cup {pending}
           ELSE pending' = pending /\ pendingOff' = to /\ complete' = complete
    /\ UNCHANGED <<inbox, peer, received, sink, pendingCtrl, pendingCtrlOff, interest,
                   pc, counts>>

Writing == (pc = "flushCtrl" /\ pendingCtrl # 0) \/ (pc = "flush" /\ pending # 0)

\* Mutant: EAGAIN is taken for the end of the frame.
SendBlocked_GoOn ==
    /\ Writing /\ peer # "reset" /\ room = 0
    /\ Arm
    /\ pc' = IF pc = "flush" THEN "take" ELSE "check"
    /\ UNCHANGED <<socket, sink, slots, counts, history>>

\* EAGAIN in either slot: sinkArm() and back to epoll_wait().
SendBlocked ==
    /\ Writing /\ peer # "reset" /\ room = 0
    /\ Arm
    /\ pc' = "check"
    /\ UNCHANGED <<socket, sink, slots, counts, history>>

\* send() fails: "отвалился при записи".
SendFailed ==
    /\ Writing /\ peer = "reset"
    /\ CloseSink
    /\ pc' = "check"
    /\ UNCHANGED <<socket, counts, history>>

AllWritten ==
    /\ pc = "flush" /\ pending = 0
    /\ pc' = "take"
    /\ UNCHANGED <<socket, sink, slots, interest, counts, history>>

\* trypop(conf->dataQueue, ...) and aggOnMessage() into the data slot.
Take ==
    /\ pc = "take" /\ taken < made
    /\ taken' = taken + 1 /\ whole' = taken + 1
    /\ pending' = taken + 1 /\ pendingOff' = 0
    /\ pc' = "flushCtrl"
    /\ UNCHANGED <<socket, sink, pendingCtrl, pendingCtrlOff, interest, joined, adopted,
                   made, down, pings, history>>

TakeNone ==
    /\ pc = "take" /\ taken = made
    /\ Arm
    /\ pc' = "check"
    /\ UNCHANGED <<socket, sink, slots, counts, history>>

-----------------------------------------------------------------------------
(* The end of the thread *)

QueuesDone == down /\ taken = made /\ adopted = joined

\* No matter what is in the slots.
CheckDone ==
    /\ pc = "check" /\ QueuesDone
    /\ pc' = "ending"
    /\ UNCHANGED <<socket, sink, slots, interest, counts, history>>

CheckDrain ==
    /\ pc = "check" /\ ~QueuesDone /\ down /\ sink = 0
    /\ pc' = "drainCtrl"
    /\ UNCHANGED <<socket, sink, slots, interest, counts, history>>

CheckNot ==
    /\ pc = "check" /\ ~QueuesDone /\ ~(down /\ sink = 0)
    /\ pc' = "wait"
    /\ UNCHANGED <<socket, sink, slots, interest, counts, history>>

\* aggDrainForShutdown(): sinks that came late are adopted ...
DrainCtrlEmpty ==
    /\ pc = "drainCtrl" /\ adopted = joined
    /\ pc' = "drain"
    /\ UNCHANGED <<socket, sink, slots, interest, counts, history>>

\* ... and get of each message what send() takes; the rest is freed.
DrainMessage ==
    /\ pc = "drain" /\ taken < made
    /\ taken' = taken + 1
    /\ LET n == IF sink = 0 \/ peer = "reset" THEN 0 ELSE Least(room, DataLen) IN
        /\ wire' = wire \o Units("data", taken + 1, 0, n)
        /\ room' = room - n
        /\ complete' = IF n = DataLen THEN complete \cup {taken + 1} ELSE complete
    /\ UNCHANGED <<inbox, peer, received, sink, slots, interest, pc, joined, adopted, made,
                   down, pings, whole>>

DrainDone ==
    /\ pc = "drain" /\ taken = made
    /\ pc' = "ending"
    /\ UNCHANGED <<socket, sink, slots, interest, counts, history>>

\* "going away" for the sink that is there.
End ==
    /\ pc = "ending"
    /\ IF sink # 0 THEN SendClose /\ CloseSink ELSE UNCHANGED <<sink, slots, interest, wire>>
    /\ pc' = "end"
    /\ UNCHANGED <<socket, counts, complete>>

-----------------------------------------------------------------------------
(* The events of the sink's socket, and the timeout *)

\* EPOLLHUP or EPOLLERR, before any input is looked at.
SinkHungUp ==
    /\ pc = "wait" /\ sink # 0 /\ peer = "reset"
    /\ CloseSink
    /\ pc' = "ctrl"
    /\ UNCHANGED <<socket, counts, history>>

\* A CLOSE frame and a protocol error end the loop over rx; what rx does not
\* take (DEFAULT_MAX_FRAME + 64) counts as the end of the stream. The PINGs
\* before either are handled.
Ending == \E i \in DOMAIN inbox : inbox[i] = "close" /\ \A j \in 1..i : inbox[j] # "long"
Overlong == \E i \in DOMAIN inbox : inbox[i] = "long"
HandledPings ==
    Cardinality({i \in DOMAIN inbox :
                     inbox[i] = "ping" /\ \A j \in 1..i : inbox[j] \notin {"close", "long"}})

\* Of n PINGs the first is answered, if the control slot is free.
PongSlot(n) ==
    IF n > 0 /\ pendingCtrl = 0
    THEN pendingCtrl' = pings + 1 /\ pendingCtrlOff' = 0
    ELSE UNCHANGED <<pendingCtrl, pendingCtrlOff>>

Readable ==
    /\ sink # 0 /\ "in" \in interest /\ peer # "reset"
    /\ inbox # <<>> \/ peer = "fin"

\* Mutant: recv() that returns 0 is taken for EAGAIN.
SinkInput_IgnoreEnd ==
    /\ pc = "wait" /\ Readable
    /\ inbox' = <<>>
    /\ pings' = pings + HandledPings
    /\ IF Ending THEN SendClose ELSE wire' = wire
    /\ IF Ending \/ Overlong
       THEN CloseSink
       ELSE PongSlot(HandledPings) /\ UNCHANGED <<sink, interest, pending, pendingOff>>
    /\ pc' = "ctrl"
    /\ UNCHANGED <<room, peer, received, joined, adopted, made, taken, down, whole,
                   complete>>

\* sinkReadAndHandle() reads all there is and handles the complete frames; the
\* answer to a CLOSE or to an error is sent at once, then the sink is closed.
SinkInput ==
    /\ pc = "wait" /\ Readable
    /\ inbox' = <<>>
    /\ pings' = pings + HandledPings
    /\ IF Ending THEN SendClose ELSE wire' = wire
    /\ IF Ending \/ Overlong \/ peer = "fin"
       THEN CloseSink
       ELSE PongSlot(HandledPings) /\ UNCHANGED <<sink, interest, pending, pendingOff>>
    /\ pc' = "ctrl"
    /\ UNCHANGED <<room, peer, received, joined, adopted, made, taken, down, whole,
                   complete>>

\* EPOLLOUT needs no handler: the loop goes round and pumps.
SinkWritable ==
    /\ pc = "wait" /\ sink # 0 /\ "out" \in interest /\ room > 0
    /\ pc' = "ctrl"
    /\ UNCHANGED <<socket, sink, slots, interest, counts, history>>

\* An eventfd (a message or a new sink), the timer, or the timeout of 1000 ms.
OtherEvent ==
    /\ pc = "wait"
    /\ pc' = "ctrl"
    /\ UNCHANGED <<socket, sink, slots, interest, counts, history>>

SinkStep == SinkJoin \/ SourcePush \/ Stop \/ SinkReads \/ SinkSends \/ SinkCloses

AggStep ==
    \/ ReplaceSink \/ AdoptSink \/ CtrlEmpty
    \/ SendCtrl \/ CtrlWritten \/ SendData \/ SendBlocked \/ SendFailed \/ AllWritten
    \/ Take \/ TakeNone
    \/ CheckDone \/ CheckDrain \/ CheckNot
    \/ DrainCtrlEmpty \/ DrainMessage \/ DrainDone \/ End
    \/ SinkHungUp \/ SinkInput \/ SinkWritable \/ OtherEvent

Next == SinkStep \/ AggStep

Spec == Init /\ [][Next]_vars

\* The aggregator's thread runs, and handles the events of a batch; a sink that
\* is there reads what it is sent.
Fairness ==
    /\ WF_vars(AggStep) /\ WF_vars(SinkReads)
    /\ SF_vars(SinkInput) /\ SF_vars(SinkHungUp)

FairSpec == Spec /\ Fairness

-----------------------------------------------------------------------------
(* What is on the wire *)

Of(kind) == {i \in DOMAIN wire : wire[i][1] = kind}
First(kind, i) == i \in Of(kind) /\ \A j \in Of(kind) : i <= j
Last(kind, i) == i \in Of(kind) /\ \A j \in Of(kind) : j <= i
Successive(kind, i, j) ==
    /\ i \in Of(kind) /\ j \in Of(kind) /\ i < j
    /\ \A k \in Of(kind) : k <= i \/ j <= k

\* Frames that the drain has written may be cut.
Cuttable(u) == u[1] = "data" /\ u[2] > whole

\* Unit v may follow unit u of the same kind: the next unit of the frame, or
\* the first of a frame that is newer (for data: of the next message).
Follows(u, v, len) ==
    \/ v[2] = u[2] /\ v[3] = u[3] + 1
    \/ /\ v[3] = 1 /\ v[2] > u[2]
       /\ Cuttable(u) \/ (u[3] = len /\ (u[1] = "data" => v[2] = u[2] + 1))

\* The units of one kind make whole frames, except that the last one may go on
\* from the slot that holds it.
Chained(kind, len) ==
    /\ \A i \in Of(kind) : First(kind, i) => wire[i][3] = 1
    /\ \A i, j \in Of(kind) : Successive(kind, i, j) => Follows(wire[i], wire[j], len)

GoesOn(kind, len, frame, off) ==
    \A i \in Of(kind) : sink # 0 /\ Last(kind, i) =>
        IF wire[i][3] < len /\ ~Cuttable(wire[i])
        THEN wire[i][2] = frame /\ wire[i][3] = off
        ELSE off = 0

Contiguous(kind, len, frame, off) == Chained(kind, len) /\ GoesOn(kind, len, frame, off)

\* What one sink gets: short writes and EAGAIN neither lose nor repeat a byte of
\* a data frame or of a PONG, each in its slot (lines 314-345), and a new sink
\* starts with the first byte of a frame. Before the drain only the last frame
\* of a kind may be unfinished: as long as the sink is there the slot holds its
\* rest, and closeSink() drops that (lines 267-283), so nothing of the frame
\* reaches the next sink. Every frame that the drain writes may be cut
\* (lines 474-487), but no byte of it is repeated. After a CLOSE (lines 250-265)
\* nothing more is written to that sink.
FramesIntact ==
    /\ TypeOK
    /\ \A i \in 1..(Len(wire) - 1) : wire[i][1] = "close" => wire[i + 1][1] = "close"
    /\ Contiguous("data", DataLen, pending, pendingOff)
    /\ Contiguous("pong", CtrlLen, pendingCtrl, pendingCtrlOff)

\* Messages taken before the drain that are neither on a wire to the last byte
\* nor in the slot.
Lost == (1..whole) \ (complete \cup {pending})
Closed == adopted - (IF sink # 0 THEN 1 ELSE 0)

\* A sink that is replaced, hangs up or is there at the end costs at most one
\* message, the one in the slot when closeSink() clears it (lines 267-283): as
\* many are lost as sinks were closed, however the writes were cut and whatever
\* came between. Only the drain, which has no slot, may lose more.
OneLostPerSink == Cardinality(Lost) <= Closed

\* agg.h:77-80 "агрегатор не начинает кодировать следующее сообщение, пока не
\* отправит текущее целиком": frame follows frame on the wire, no unit of one
\* lies inside another. The code keeps this for data alone; a PONG (which has
\* priority, lines 336-345) or a CLOSE (lines 250-265) goes into the middle of
\* a data frame that was written in part.
FramesNotInterleaved ==
    \A i \in 1..(Len(wire) - 1) :
        wire[i][1] = "data" /\ wire[i][3] < DataLen =>
            wire[i + 1] = <<"data", wire[i][2], wire[i][3] + 1>>

\* While the thread waits, EPOLLOUT is asked for exactly when a slot is full:
\* never forgotten after a short write, and never left on, which would make
\* epoll_wait() return at once for ever.
ArmedForSlots ==
    pc = "wait" /\ sink # 0 => interest = SlotEvents

-----------------------------------------------------------------------------
(* The inductive invariant behind both *)

\* The slots: an offset lies inside a frame, the data slot holds the message
\* taken last, and a sink that is closed takes both with it.
SlotInv ==
    /\ IF pending = 0 THEN pendingOff = 0
       ELSE pending = taken /\ pending = whole /\ pendingOff < DataLen
    /\ IF pendingCtrl = 0 THEN pendingCtrlOff = 0
       ELSE pendingCtrl <= pings /\ pendingCtrlOff < CtrlLen
    /\ sink = 0 => pending = 0 /\ pendingCtrl = 0

\* What the thread knows at each point.
PcInv ==
    /\ pc \in {"flushCtrl", "flush", "take"} => sink # 0
    /\ pc \in {"take", "drainCtrl", "drain"} => pending = 0
    /\ pc \in {"drainCtrl", "drain"} => pendingCtrl = 0
    /\ pc \notin {"drainCtrl", "drain", "ending", "end"} => whole = taken
    /\ pc \in {"check", "wait"} /\ sink # 0 => interest = SlotEvents

\* The wire: a CLOSE is the last a sink gets, units are inside frames that were
\* made, and what the drain finds on the wire of a sink it has written itself.
WireInv ==
    /\ sink # 0 => Of("close") = {}
    /\ \A i \in 1..(Len(wire) - 1) : wire[i][1] = "close" => wire[i + 1][1] = "close"
    /\ \A i \in Of("data") : wire[i][2] <= taken /\ wire[i][3] <= DataLen
    /\ \A i \in Of("pong") : wire[i][2] <= pings /\ wire[i][3] <= CtrlLen
    /\ pc \in {"drainCtrl", "drain"} /\ sink # 0 => \A i \in Of("data") : Cuttable(wire[i])
    /\ Chained("data", DataLen) /\ Chained("pong", CtrlLen)

\* The last unit of each kind belongs to the frame in the slot, as far as that is
\* written, or else it ends the frame before. Only the drain may have cut it.
TailInv ==
    /\ pendingOff # 0 =>
           \E i \in Of("data") : Last("data", i) /\ wire[i][2] = pending /\ wire[i][3] = pendingOff
    /\ pendingOff = 0 /\ sink # 0 =>
           \A i \in Of("data") : Last("data", i) =>
               \/ Cuttable(wire[i])
               \/ /\ wire[i][3] = DataLen
                  /\ wire[i][2] = IF pending = 0 THEN whole ELSE whole - 1
    /\ pendingCtrlOff # 0 =>
           \E i \in Of("pong") : Last("pong", i) /\ wire[i][2] = pendingCtrl
                                 /\ wire[i][3] = pendingCtrlOff
    /\ pendingCtrlOff = 0 /\ sink # 0 =>
           \A i \in Of("pong") : Last("pong", i) =>
               /\ wire[i][3] = CtrlLen
               /\ pendingCtrl # 0 => wire[i][2] < pendingCtrl

WriterInv == TypeOK /\ SlotInv /\ PcInv /\ WireInv /\ TailInv

\* The same for OneLostPerSink: only sinks that were adopted are there.
LossInv == (sink # 0 => adopted # 0) /\ OneLostPerSink

-----------------------------------------------------------------------------
(* Progress *)

\* A frame that was begun gets written, or its sink is closed: neither slot
\* waits for an event that does not come.
SlotsEmpty ==
    /\ pending # 0 ~> pending = 0
    /\ pendingCtrl # 0 ~> pendingCtrl = 0

\* What the sink sends is read, and its end closes the connection, whatever waits
\* in the slots, once the pump has run dry or has met EAGAIN. Here it does: a
\* bound on the messages stands for sources that pause. aggPump() looks at
\* nothing else as long as the data queue is not empty (Pump.tla).
SinkIsHeard ==
    \A n \in 1..MaxSinks :
        /\ sink = n /\ inbox # <<>> ~> inbox = <<>> \/ sink # n
        /\ sink = n /\ peer # "open" ~> sink # n
=============================================================================
