-------------------------------- MODULE Pump --------------------------------
(***************************************************************************)
(* The aggregator's loop as a scheduler of what it has to do: it reads the *)
(* control queue, pumps the data queue into the sink, and goes to sleep in *)
(* epoll_wait(), behind which lies the input of the sink (agg.c:535-619).  *)
(*                                                                         *)
(* SinkWriter has the bytes, the slots, errors and the stop. Here messages *)
(* and frames are only counted, so that sources which never pause fit into *)
(* a finite model: the question is what is never done while they push. The *)
(* socket of the sink does not fail, and the server is not stopped.        *)
(***************************************************************************)
EXTENDS Naturals

CONSTANTS
    Cap,        \* bound: messages in the data queue
    Room        \* frames that the socket buffer of a sink takes

VARIABLES
    data,       \* length of the data queue
    waiting,    \* a MSG_SINK_ADD is in the control queue
    sink,       \* agg->sink is not NULL
    slot,       \* agg->pending is not NULL
    room,       \* frames send() can take
    input,      \* the sink has sent something
    pc          \* "ctrl", "flush", "take" (in aggPump) or "wait" (in epoll_wait)

vars == <<data, waiting, sink, slot, room, input, pc>>

Init ==
    /\ data = 0 /\ waiting = FALSE
    /\ sink = FALSE /\ slot = FALSE /\ room = Room /\ input = FALSE
    /\ pc = "ctrl"

\* A worker pushes a message of a source.
SourcePush ==
    /\ data < Cap
    /\ data' = data + 1
    /\ UNCHANGED <<waiting, sink, slot, room, input, pc>>

\* A worker hands over a sink, the first one or one that replaces it.
SinkArrives ==
    /\ ~waiting
    /\ waiting' = TRUE
    /\ UNCHANGED <<data, sink, slot, room, input, pc>>

SinkReads ==
    /\ sink /\ room < Room
    /\ room' = room + 1
    /\ UNCHANGED <<data, waiting, sink, slot, input, pc>>

SinkSends ==
    /\ sink /\ ~input
    /\ input' = TRUE
    /\ UNCHANGED <<data, waiting, sink, slot, room, pc>>

\* The loop over the control queue; adoptSink() closes the sink that is there.
Adopt ==
    /\ pc = "ctrl" /\ waiting
    /\ waiting' = FALSE
    /\ sink' = TRUE /\ slot' = FALSE /\ room' = Room /\ input' = FALSE
    /\ UNCHANGED <<data, pc>>

ControlEmpty ==
    /\ pc = "ctrl" /\ ~waiting
    /\ pc' = IF sink THEN "flush" ELSE "wait"
    /\ UNCHANGED <<data, waiting, sink, slot, room, input>>

\* One turn of the loop of aggPump(): sinkFlush() ...
Flush ==
    /\ pc = "flush" /\ (slot => room > 0)
    /\ room' = IF slot THEN room - 1 ELSE room
    /\ slot' = FALSE
    /\ pc' = "take"
    /\ UNCHANGED <<data, waiting, sink, input>>

\* ... which may meet EAGAIN ...
FlushBlocked ==
    /\ pc = "flush" /\ slot /\ room = 0
    /\ pc' = "wait"
    /\ UNCHANGED <<data, waiting, sink, slot, room, input>>

\* ... and then the next message, if there is one.
Take ==
    /\ pc = "take"
    /\ IF data > 0
       THEN data' = data - 1 /\ slot' = TRUE /\ pc' = "flush"
       ELSE pc' = "wait" /\ UNCHANGED <<data, slot>>
    /\ UNCHANGED <<waiting, sink, room, input>>

\* sinkReadAndHandle()
ReadSink ==
    /\ pc = "wait" /\ input
    /\ input' = FALSE
    /\ pc' = "ctrl"
    /\ UNCHANGED <<data, waiting, sink, slot, room>>

\* An eventfd, EPOLLOUT, the timer, or the timeout of 1000 ms.
OtherEvent ==
    /\ pc = "wait"
    /\ pc' = "ctrl"
    /\ UNCHANGED <<data, waiting, sink, slot, room, input>>

AggStep ==
    Adopt \/ ControlEmpty \/ Flush \/ FlushBlocked \/ Take \/ ReadSink \/ OtherEvent

Next == SourcePush \/ SinkArrives \/ SinkReads \/ SinkSends \/ AggStep

\* The thread runs, the events of a batch are all handled, and the sink reads.
FairSpec == Init /\ [][Next]_vars /\ WF_vars(AggStep) /\ SF_vars(ReadSink) /\ WF_vars(SinkReads)

\* README.md:156-160: control events go through a queue of their own "который
\* разбирается немедленно — иначе новый приёмник не смог бы подключиться, пока
\* dataQueue переполнена" (inc/server.h:55 says the same): whatever the data
\* queue holds, a sink that waits is adopted. aggPump() (agg.c:425-462) does not
\* return to the control queue, nor to the input of the sink, while there is a
\* message to take and the socket takes it.
ControlHandled == waiting ~> ~waiting
=============================================================================
