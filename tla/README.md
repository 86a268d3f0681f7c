# wsServer in TLA+

wsServer takes WebSocket messages from many sources and writes them, in one
stream, to one sink. This directory holds a model of it: TLA+ modules
translated from `src/src/*.c`, the TLC configurations that check them on small
instances, and proofs checked by TLAPS. Line numbers refer to the files of this
repository; `agg.c:293` means `src/src/agg.c`, line 293, `README.md:250` the
server's own README.

Contents

1. The system
2. Modules and how they correspond to the code
3. What is checked
4. Bounds
5. Fairness
6. What is proved
7. Where the code and its documents disagree
8. Only model-checked, and not modelled
9. Plan

## 1. The system

```
 sources ──► listeners ──► work queue ──► workers ──► data queue ──► aggregator ──► sink
 (sockets)   epoll,        (Conn_t*)      parse,       (Msg_t*)       JSON, two
             ONESHOT                      park                        slots
                ▲                            │  ctrl queue (new sinks) ──► │
                └──────── re-arm / EPOLL_CTL_ADD of a parked source ◄──────┘
 upstream servers ◄──► upstream reactor (one thread, one epoll) ──► data queue
 main(): starts everything, waits for a signal, stops everything in order
```

| Component | State | Operations | Meets others through | Hard behaviour | Correct when |
|---|---|---|---|---|---|
| Message queues (`queue.c`) | list, size, shutdown flag, condition variable, eventfd | `push`, `pop`, `trypop`, `queueSize`, `shutdownQueue`, `queueEnableNotify` | all threads | wake-ups by two mechanisms, eventfd written outside the mutex, shutdown | FIFO, no item stranded, no reader asleep beside an item, all readers return |
| Listeners (`listener.c`) | epoll set, batch of events | accept, register with ONESHOT, push to the work queue, stop | work queue, registry, shutdown eventfd | a batch cut short by the stop, one eventfd for many threads | an event gives a connection to one worker |
| Workers, handshake (`worker.c:89-166`) | `state`, `role`, `tx`, `closeAfterSend` of a `Conn_t` | read the request, judge it, write the answer, hand a sink over | work queue, control queue, two epoll sets | partial reads and writes, frames and EOF behind the request, change of owner | one owner, nothing served before a complete 101, each request answered |
| Workers, frames (`worker.c:168-310`) | `rx`, `tx`, message under assembly, `pendingMsg` | parse, answer control frames, push or park | data queue, park list, epoll | check of the watermark apart from the push, park against resume | order kept, bounded queue, a paused source is not read and is resumed |
| Aggregator (`agg.c`) | sink, park list, data slot, control slot, table of sources | pump, resume, adopt and close a sink, read the sink, tick, drain | data and control queue, park list, the listeners' epoll sets | short writes in two slots, change of sink, sleep | whole frames in order, at most one message lost with a sink |
| Upstream reactor (`ws_client.c:42-1305`) | table of clients with buffers and timers | connect, handshake, frames, pause and resume, reconnect | data queue, shutdown flag | five places where a connection fails, stale batches, backoff | whole messages in order, reconnects, one pause one message |
| Connections and registry (`conn.c`) | `Conn_t`, doubly linked list under a mutex | `connNew`, `connClose`, `registryDestroyAll` | all | the last pass at the stop | freed once, never reachable afterwards |
| Buffers (`conn.c`) | pointer, offset, length, capacity | `bufReserve`, `bufRecv`, `bufSend`, `bufConsume` | owner of the connection | limits, compaction | contents kept, limit kept |
| Codec (`ws.c`) | state of the UTF-8 automaton | `wsParseFrameHeader`, `wsEncodeFrameHeader`, `wsUtf8Feed`, `wsIsValidCloseCode` | workers, aggregator, reactor | cut input, widths | as RFC 6455 and RFC 3629 |
| HTTP (`http.c`) | none | parse a request, build an answer | workers | headers twice, lists as values, request lines that lack a word | as RFC 6455, section 4.2.1 |
| Options (`options.c`) | `Options_t` | `parseArgs`, `parsePositive`, `addUpstreamUrl` | everything, as limits | casts, brackets and colons, one option against another | what is accepted is safe for the rest |
| Start and stop (`server.c`) | flags, thread handles | start, `sigwait`, wake, join, free | all | order of the stop, threads that did not start | all threads return, nothing freed in use, nothing stranded |

Hazards are listed at their lines in `PROJECT.json`; the list is what the
properties of section 3 are for.

## 2. Modules and how they correspond to the code

Each module begins with a comment on its subject. The state of a module is the
state of the code under the names of the code where TLA+ allows; the `map` of
`PROJECT.json` gives the lines of every definition. A step of a model is the
code between two points at which another thread can see or change shared state:
a critical section, a system call on a shared descriptor, a read of a flag. What
runs in between touches only the thread's own data and is part of the step.
Operators named `X_Something` and marked *Mutant* are variants of a definition
with a plausible mistake; no specification uses them, each shows that some
property notices the mistake.

| Module | Code | Abstract specification | Operators from |
|---|---|---|---|
| Pipeline | `listener.c`, `worker.c:168-340`, `agg.c` | FanIn | |
| MsgQueue | `queue.c`, and its readers | Channel | |
| SinkWriter | `agg.c:40-135`, `agg.c:244-632` | | |
| Pump | `agg.c:425-462`, `agg.c:535-619` | | |
| Source | `worker.c:34-87`, `worker.c:168-310`, `conn.c:15-170`, `agg.c:157-242` | Receiver | Codec, Buffer, Options, Aggregate |
| Upstream | `ws_client.c:42-1305` | Feed | |
| Handshake | `worker.c:89-166`, `listener.c`, `http.c` | Session | Http |
| Shutdown | `server.c:176-385`, `conn.c:190-240`, all threads | | |

**Pipeline** – the data path. A source is the pair of its peer (frames sent, end
of stream) and its `Conn_t` (frames in `rx`, frames parsed, `tx`,
`closeAfterSend`, `pendingMsg`), with its registration in the listeners' epoll.
Worker threads have a program counter through `handleWsOpen()`: pop, read,
parse, push or park, unregister, flush, then one disposition. The park is three
steps, as in the code: `parkListPush()`, `EPOLL_CTL_DEL`, return; the resume of
the aggregator likewise: pop from the list, push of the message, `EPOLL_CTL_ADD`.
A message is *(source, number)*. `pop()` and the `recv()` after it are one step:
the connection belongs to the worker from the pop on and nobody else reads the
socket. The wake-ups of the aggregator are one flag, `wake`; that the eventfds
behave like it is what MsgQueue shows. **FanIn** is its abstract specification:
messages of one source go out in order, once, and only the end of a sink
connection loses one. What is inside the server is a set of message numbers for
each source.

**MsgQueue** – `queue.c` as pointers (`head`, `tail`, `next`). Who reads is
chosen in `Init`: the workers, which block in `pop()` (the work queue), or the
aggregator, which polls and sleeps on the eventfd (the data and the control
queue). A critical section is
a step; the write to the eventfd after the unlock is a step of its own; so are
the two reads (`shutdown`, `size`) with which the aggregator decides to return.
`main()` shuts a queue down after the threads that push to it have returned, with
one exception: the aggregator pushes the message of a source it resumes
(`agg.c:302-304`) into the queue it reads, also after the shutdown, at which
`push()` does not look (`ResumePush`). Its abstract specification is **Channel**:
after the shutdown only a reader may put something in, and not once the readers
have left.

**SinkWriter** – `agg.c` towards the sink, below the level of Pipeline: frames
are units, `send()` takes any number of them up to the room in the socket. Two
slots with offsets, EPOLLOUT, PING and CLOSE of the sink, more input than `rx`
takes at once (`agg.c:359`), change of sink; the messages that are pushed, the
stop, and the end of the thread. That has two forms. With a sink the thread goes
on pumping until both queues are empty (`agg.c:552-556`), and leaves with what is
in the slots. Without one, when the data queue is shut down, it drains
(`agg.c:557-560`): `aggDrainForShutdown()` adopts a sink that is still in the
control queue, and only such a sink gets the rest of the data queue, one try for
each frame; without it the messages are freed. In both forms a sink that is there
gets a CLOSE. `wire` is what the sink's connection received, `complete` which
messages were written to any sink to the last byte.

**Pump** – the same thread as a scheduler of its duties: control queue, pump,
`epoll_wait()`. Messages and frames are only counted, so that sources which never
pause fit into a finite model; SinkWriter, where messages are numbered, runs out
of them.

**Source** – `handleWsOpen()` for one connection, byte by byte where it matters,
with the real sizes: `recv()` in chunks of 4096 bytes into a buffer that grows
and is compacted, the header parser at whatever has arrived, fragments, the
UTF-8 automaton across them, control frames in between, the two limits, the code
of each CLOSE, `flushTx()` and the re-arm. A frame is what the peer meant
(opcode, form of the length, payload); `HeadBytes` builds its bytes, rightly or
wrongly, and from there on the model sees bytes only. Payloads have `TextBytes`
bytes that are told apart, behind them only `Filler`. Four modules of operators
belong to it: **Codec** (`ws.c`: header parser, encoder, close codes, UTF-8
automaton), **Buffer** (`conn.c`: reserve, fill, consume), **Aggregate** (`agg.c`:
the JSON object of a message, its allocation, the frame for the sink) and
**Options** (`options.c`: the command line, which sets the limits). The
abstract specification **Receiver** shares nothing with them: it judges frame *i*
by RFC 6455 from the frames before it, with UTF-8 defined by code points.

**Upstream** – the reactor: table of clients, one batch of events handled client
by client while the network goes on, `readUpstreamFrames()` as receive, parse,
publish or pause, and the loops of reconnection and resume with their index. The
other users of the data queue are `OthersCheck`, `OthersPush` and `AggTake`:
`Others` threads that look at the size and push in two steps, as the workers
(`worker.c:285`, `worker.c:298`) and the aggregator (`agg.c:441`, `agg.c:303`) do,
and one that takes. The delay before
the next attempt is the value the code computes; the clock only makes it elapse.
Its abstract specification is **Feed**: within a connection, messages are
published in order with no gap; nothing of an old connection comes after the
next one has begun.

**Handshake** – a connection from `accept()` to its service, hand-over or end.
Sizes and limits are in units (2048 bytes in the instances), a request and an
answer may pass in pieces, frames and end of stream may come right behind the
request. What a request says is a record of the words of its first line and its
headers; **Http** judges it as `httpParseHandshake()` does, with
`httpFindHeader()` and `httpHeaderHasToken()`, and states what the RFC asks for,
for comparison. Which connection sends which request is chosen in `Init` from the
set `Cases`. Its abstract specification is **Session**: the state diagram of
README.md:218-237 without the arrows to and from `parked`. A source that is served
is here always re-armed for input or closed; the park is in Pipeline.

**Shutdown** – `main()` from the start of the threads on: any subset of those in
`Failing` does not start, the rest runs until the signal and is stopped. The
threads are reduced to what they hold and on which conditions they return;
`main()`'s flags, joins and frees are complete and in order. Freed memory is the
set `freed` and `life[c] = "freed"`.

**PipelineProofs**, **QueueProofs**, **SinkWriterProofs**, **SourceProofs**,
**UpstreamProofs**, **HandshakeProofs**, **ShutdownProofs** – theorems and proofs
(each also has the refinement of its module, where there is one);
**SequenceLemmas** – lemmas they share. **MC…** – constants of the instances.
SinkWriter is checked without an MC module, its constants are numbers and strings.

How they overlap: Handshake ends where Pipeline and Source begin (`ST_WS_OPEN`,
with what has come behind the request in `rx`). Source opens the frame that
Pipeline has in one of four kinds, and has room in the data queue at all times,
where Pipeline has the watermark and the parking. Pipeline writes a frame to the
sink as one unit, which SinkWriter opens, and what is in the frame is in
Aggregate. Pipeline uses a queue as a sequence, which MsgQueue justifies.
Upstream is one more pusher beside the workers of Pipeline. Each thread that
pushes can pass the high mark by one message: Pipeline states HWM and one for each
worker, Upstream HWM and one for each thread other than the reactor. Threads end
in Shutdown, and the aggregator also in SinkWriter, with its frames.

## 3. What is checked

Runs that pass:

| Run | Instance | Properties |
|---|---|---|
| `pipeline_order` | two workers; a source that may park, a source that sends CLOSE; two sinks that may stall or go, the second replacing the first or coming later | `OwnedOnce`: a live source is armed, queued, with one worker or parked, never two of these. `ImplementsFanIn`: per source in order, once, lost only with a sink |
| `pipeline_flow` | one worker, four messages, more than the queue may hold, a sink that comes and may stall or go | `DataQueueBound`: at most HWM and one message for each worker. `PausedNotRead`: a parked source is not read. `MessagesMove`: an accepted message leaves the server. `InputIsRead`: what is in the socket of a source is read |
| `queue` | two producers; workers that block, or an aggregator that polls and pushes an item itself; shutdown | `ListIntact`: pointers and size agree. `NothingLeft`: after the last reader nothing is in the list. `ImplementsChannel`. `EveryItemTaken` with no timeout to help. `EveryoneReturns` |
| `sink` | two messages, two sinks that send PING, CLOSE or more than `rx` takes, short writes, EAGAIN, the stop at any moment | `FramesIntact`, for what one sink gets: the units of data frames and those of PONGs form frames in order and none comes twice; before the drain only the last frame of a kind is unfinished, and the slot holds its rest as long as the sink is there; a new sink starts with a first unit; nothing follows a CLOSE. Every frame of the drain may be cut. `OneLostPerSink`: of the messages taken before the drain, as many at most are neither written whole nor in the slot as sinks were closed. `ArmedForSlots`: EPOLLOUT exactly when a frame waits. `SlotsEmpty`: both slots get written to a sink that reads. `SinkIsHeard`: its input and its end are noticed once the pump has run dry or met EAGAIN (section 7, `ControlHandled`, for when it does not) |
| `source` | 2538 cases of frames, arrivals and command lines (section 4), end of stream or reset at any moment | `ImplementsReceiver`: messages, answers and refusals are those of RFC 6455 and the limits, however the bytes arrive. `BufferIntact`: nothing lost or repeated by growth and compaction. `EndHandled`: complete frames before an end of stream are handled. `NothingLeftBehind`: a connection that waits has no complete frame in `rx`. `OutputWhole`: the sink reads back what a message held. `OptionsSafe`: an accepted command line keeps the ranges the rest relies on, numbers beyond an `int` included; each upstream is stored with the host, port and path of its URL; a correct URL is accepted |
| `upstream_one` | one client, four connections (a fragmented message with control frames in between, a refusal, a frame out of place), failures at each stage, another thread between its look at the queue and its push, the stop | `FragmentsTogether`, `ConformingNotRefused`. `Backpressure`: a paused client holds one message, and the queue holds HWM and one message for each other thread at most. `InterestFollows`: the epoll registration is what the state calls for whenever the handler is done. `Backoff`: delay by number of failures, capped, reset after a success. `BufferedFramesProcessed`. `Reconnects`: a lost connection is tried again, with a socket, unless `epoll_ctl(ADD)` refused it (section 7, `SocketlessIsRetried`). `ReactorEnds` |
| `upstream_two` | two busy clients | `ImplementsFeed` |
| `handshake` | two connections, two workers, ten pairs of requests | `OneHolder`: a connection is in one hand, through hand-over and change of sink, and in none when freed. `UpgradeFirst`: each request is judged by the rules, and no frame is parsed before a complete 101. `ImplementsSession`. `RequestsAnswered`. `EndsClosed`: refused connections are closed, and those whose end of stream came in any stage of this module, the park not being one |
| `shutdown` | a source, two sinks, two listeners, a worker, the reactor, any of four threads missing; the stop at any moment; sinks that read | `NothingFreedInUse`, `NoDangling`: what is freed is in no queue, list, epoll set or hand. `QueuesDrained`: no queue holds anything once a reader of it has returned. `Terminates`, also when listeners, worker, reactor or aggregator did not start |

Type correctness is the first conjunct of another invariant (`OwnedOnce`,
`FramesIntact`, `InterestFollows`, `OneHolder`, `NoDangling`), and in `queue` and
`source` part of `ListIntact` and `BufferIntact`.

For each of these properties `PROJECT.json` names a mutant of a definition under
which TLC finds it violated in the same run, so none holds by construction. The
runs that end in a violation are in section 7.

`CHECK_DEADLOCK FALSE` stands where the system may really stop: in `handshake`
and `source` all connections may have been closed (or the command line refused),
in `shutdown`, `sink`, `sink_pong` and `upstream_one` the threads have returned.
Everywhere else a state without a successor would be an error.

## 4. Bounds

* **Pipeline** HWM = 2, LWM = 1, the smallest pair `options.c:371` accepts. The
  source that comes with a third message parks, the aggregator drains to the low
  mark and resumes it, and the other source competes for the place at each step.
  Two workers are enough for a pair of steps of `handleWsOpen()` to overlap, and
  being interchangeable they allow symmetry; two sinks are enough for a
  replacement and for a gap. `pipeline_flow` uses one worker, with the aggregator
  as the second pusher and resumer, to afford a longer script and liveness.
* **MsgQueue** two pushes by each of two producers: the list runs empty, holds
  one node, holds several. `MaxResume` = 1: one item the aggregator puts in itself,
  before or after the shutdown.
* **SinkWriter** frames of 2 units, room for 2: a short write can stop inside a
  frame of either kind, and two frames do not fit. Two messages, one of which can
  be in the slot while the other waits for the drain; two sinks, so that a
  message can be lost with the first and one with the second.
* **Pump** two messages in the queue and two frames in the socket. A source
  pushes whenever there is room, without end: that is what the run needs.
* **Source** the sizes are those of the code (`Chunk` = 4096, limits from the
  command line, a request of 300 bytes). Bytes arrive frame by frame or up to the
  first and second byte of a header, its end, and the last byte but one of a
  frame. `TextBytes` = 8 holds two characters of the longest form and all escapes. The cases:
  `InOrder` (fragments with control frames in between, and a CLOSE), `Growing`
  (texts of escapes only, and lengths that need a longer form after the
  object is put around them), `Large` (each limit, one byte less and more, the two
  together, and a buffer that is full), `OutOfOrder` (twelve kinds of wrong
  frame), `Closes` (close codes at each boundary of the ranges, half a code,
  reasons that are cut or no text), `Texts` (each boundary of the table of RFC
  3629, whole and cut by a frame boundary), `Lines` (command lines: numbers at
  each boundary, watermarks against each other, authorities of up to five pieces).
  `IntBits` = 18 stands for the 32 bits of an `int`: numbers of `--port`,
  `--workers`, `--listeners` and `--tick` turn into others from 2^17 and 2^18 on
  instead of 2^31 and 2^32, and the cases have some that come out in range and
  some that do not.
* **Upstream** one client where its own states matter, two where they meet. The
  delay reaches its cap of 30 s at the sixth failure in a row: `MaxStreak` = 5
  failed connects and, before them, a connection that is lost. One other thread is
  enough for the queue to reach its bound HWM + `Others`: both threads have seen
  the last free place.
* **Handshake** `HandshakeMax` = 4 units of 2048 bytes and `Chunk` = 2 are the
  real 8192 and 4096. Requests of 1, 2 and 4 units are below, at and above the
  room a chunk leaves. Four pairs make connections meet (two sinks, a source and
  a sink in pieces, a refusal beside a request that is too long), six bring a
  dozen odd requests: a header twice, lists, a missing word, wrong versions and
  keys, an empty path and one that is too long.
* **Shutdown** two listeners, of which one serves the connections and one only
  has to be woken and to return; two sinks, so that one can be replaced during
  the stop. With HWM = 2 the source parks with its third message, `MaxMsgs` = 3;
  a parked source can be left to the stop or resumed by the drain. One listener,
  the worker, the aggregator and the reactor may be missing, in any combination.
* `MaxSinks`, `MaxMsgs`, `MaxPush`, `MaxFrames`, `MaxEarly`, `MaxOthers` bound how
  much the environment does and appear only in guards of the environment (in
  Shutdown also of the handler that turns input into messages).

## 5. Fairness

Safety is checked under `Spec`, without fairness; `source` has safety only. The
others use:

* weak fairness of each thread's step. Threads of the process are scheduled, the
  mutexes are held for a few instructions, and the `epoll_wait()` calls of the
  aggregator, the reactor and the listeners have timeouts (`agg.c:562`,
  `ws_client.c:556`, `listener.c:143`). An event that stays armed and ready is
  delivered in the end (`WF` of `ListenerPush`, per connection).
* weak fairness of a peer that reads its socket, and of the sink in the runs
  that say so. Without it nothing the server does can help (section 7,
  `Terminates`).
* strong fairness of a complete write (`PumpSent` of Pipeline and Shutdown,
  `FlushAll` of Handshake) and of the delivery of sink events (`SinkInput`,
  `SinkHungUp` of SinkWriter). A
  write alternates with EAGAIN, so it is enabled again and again and not for
  ever; the peer reads and only this write fills its buffer, hence it succeeds
  in the end. An event that stays ready is in one of the batches to come.
* `upstream_one`: a `connect()` ends in success or failure, timers elapse, the
  aggregator goes on taking messages.
* No fairness for: arrivals, data from peers, closes, failures, the signal,
  spurious wake-ups, a producer outside `push()`.

MsgQueue has no timeout at all: that no item is stranded follows there from the
wake-ups alone. In Pipeline the one-second timeout of the aggregator is modelled
and needed: a source that parks after the aggregator has found the queue empty
causes no event (`agg.c:441-446` looks at the park list only in a round of
`aggPump()`), and only the timeout gets it resumed. The mutant
`WaitTimeout_Never` shows that.

## 6. What is proved

Proved for every value of the constants, from the `ASSUME`s of the modules: each
safety property and action property of the runs, and every refinement. The
proofs are in eight modules.
**PipelineProofs**, **QueueProofs**, **SinkWriterProofs**, **SourceProofs**,
**UpstreamProofs**, **HandshakeProofs** and **ShutdownProofs** are about the
module they extend, **SequenceLemmas** holds what several of them need: what
`Append`, `Tail`, `SubSeq` and `\o` do to the elements of a sequence, the least and
the greatest of a set of numbers, induction, and that a recursive function or a
fold is what its definition says.

SourceProofs is as long as the rest together and goes by the banners in it: first
the operators (folds, bytes of a number, capacities, header, stream, command
line, buffer), then the invariants from the bytes received to the answers, each
with its theorem, then the addresses of upstreams, UTF-8, and last Receiver.

The library's theorems on induction and recursion take an operator as a
parameter, which the provers cannot instantiate. SequenceLemmas has them with sets
and functions in the place of operators, each from the least number outside a set:
`NatUp` (a set that has 0 and with *n* also *n* + 1 has every number),
`RankedRecursion` (a function defined by recursion on a rank exists, so that its
`CHOOSE` equals its own body), `LeftFold` and `FoldDefined` (the same for
`FoldLeft` and for `MapThenFoldSet`). So what the byte loops of the code compute
is proved for every length.

They have one shape. A property says too little to be kept by a step, so each
rests on a stronger invariant, stated next to the properties (that of Shutdown's
`main()` in its proofs), which TLC checked on the instance of the run before it was proved. Then come: it holds
initially, each action keeps it (one step for each action, one lemma for
each way in which several actions disturb it), and it implies the property. Where many actions
do one of a few things to what the property looks at, these things have a
definition of their own (`Effect`), and the proof is in two halves: each action
has one of the effects, each effect is allowed.

**Pipeline**, for any sources, workers, scripts, watermarks and number of sinks.

| Theorem | What it rests on |
|---|---|
| `TypeCorrect`, `DataQueueBounded` (`DataQueueBound`) | `IndInv`. A thread reads `queueSize()` under the mutex, gives it back and pushes later; the bound says nothing of the time in between. `RoomForPushers` counts the messages in the queue and the threads about to push, `ConnInHand` says that a thread inside a handler has a connection, so that its message is one. |
| `OwnedOnceAlways` (`OwnedOnce`), `PausedNotReadAlways` (`PausedNotRead`) | `PlaceInv`. A connection is armed, queued, with one worker, on the park list or in the hand of the aggregator. Parking and resuming move it in three steps each, which overlap (section 7), so what is exclusive depends on where the worker and the aggregator are. |
| `FanInImplemented` (`ImplementsFanIn`) | `HoldInv`: which thread, slot or list has the message of a source. `OrderInv`: from slot to queue to park list the numbers of a source increase, and the next to be accepted is above them. Every step holds back, queues, picks, sends or drops a message, or none of these, and each is a step of FanIn. |

**MsgQueue**, for any producers, number of pushes and readers (any number that
block, or at most one that polls): `ListIntactAlways` (`ListIntact`),
`NothingLeftAlways` (`NothingLeft`), `ChannelImplemented` (`ImplementsChannel`).
`QueueInv` says that `head`, `tail`, the links and `size` spell a sequence
(`Spells`) of items that were pushed, so that the next node is a new one, that a
queue is shut down after the threads that only push have returned, and that the
last reader to return found it shut down and empty. The items that the aggregator
puts in itself need no such order: it looks at the size after its last push, and
nobody else pushes by then. The refinement
takes the list for *the* sequence spelled; that there is no other follows by
looking at the first position in which two would differ.

**SinkWriter**, for any lengths of frames, room in the socket, number of messages,
sinks and frames from a sink: `FramesIntactAlways` (`FramesIntact`),
`OneLostPerSinkAlways` (`OneLostPerSink`), `ArmedForSlotsAlways`
(`ArmedForSlots`). `WriterInv` relates the end of the wire
to the offsets of the two slots (`WireInv`, `TailInv`), the slots to the
registration (`SlotInv`) and all to the place of the thread (`PcInv`); the case
that needs it is a frame written in part, a PONG behind it, and EAGAIN or the end
of the sink. `OneLostPerSink` is counted on top of it (`LossInv`): the message in
the slot is the last one taken, so closing a sink loses that one or none.

**Upstream**, for any clients, streams and watermarks.

| Theorem | What it rests on |
|---|---|
| `BackpressureAlways` (`Backpressure`), `InterestFollowsAlways` (`InterestFollows`), `BackoffAlways` (`Backoff`) | `IndInv`: what each client obeys between two steps (`Coherent`), the attempts as the number of failures in a row, and what a handler knows of the client in hand and of the events of the batch it has not come to (`HandlerInv`). The bound of the queue is `QueueRoom`: the messages in it, and those of the threads that have looked and not pushed yet (`OnTheWay`), are HWM + `Others` at most. The loop of `reconnectDelayMs()` is unfolded for its eleven arguments. |
| `FragmentsTogetherAlways` (`FragmentsTogether`), `ConformingNotRefusedAlways` (`ConformingNotRefused`) | `StreamInv`: `msg` holds exactly the data frames since the last final one, `fragmenting` says whether there are any, and the final frames read so far are as many as the messages published and the one held back (`SessionInv`). Each step has one of ten effects. |
| `FeedImplemented` (`ImplementsFeed`) | The same invariant: the number of a message in its session is the number of final frames up to its own. Of the effects the data queue sees the beginning of a connection and a push. |

**Handshake**, for any connections, requests, sizes and workers.

| Theorem | What it rests on |
|---|---|
| `TypeCorrect`, `OneHolderAlways` (`OneHolder`) | `PlaceInv`: the listeners' epoll, the work queue, a worker, the control queue and the aggregator are apart for each connection (`PlacesApart`, `HeldOnce`). |
| `UpgradeFirstAlways` (`UpgradeFirst`) | `StageInv`: what has been read, judged and answered at each place of the worker, and what is still in `tx` after it. |
| `SessionImplemented` (`ImplementsSession`) | Both: each state of a connection is one of the stages of Session, and each step leads along an arrow between them or stays (`Stages`). |

**Source**, for any set of cases (streams of frames of any length and form, bytes
that arrive in any pieces, command lines), any chunk and any number of payload
bytes told apart.

| Theorem | What it rests on |
|---|---|
| `BufferIsIntact` (`BufferIntact`) | `InputInv`: the bytes consumed end at the end of a frame (`AtFrame`), what is in `rx` is what was taken and not consumed, between offset and end and within the capacity (`Held`), and the capacity is the handshake's or within the hard cap (`Capped`). It needs the header parser to be right about the length of every frame, hence the numbers of one, two and eight bytes, and a command line to leave positive limits (`ParsedTyped`, along the fold over the arguments). |
| `EndIsHandled` (`EndHandled`), `NothingIsLeftBehind` (`NothingLeftBehind`) | `WorkerInv`: what is behind the end of the stream (`Ended`), that behind the loop over the frames `rx` has no whole frame unless a CLOSE is going out (`Left`), what a waiting connection has asked for (`Waits`), why a connection ends (`Over`). That the header parser answers "incomplete" exactly when a frame is incomplete is the lemma under `Left`. |
| `OutputIsWhole` (`OutputWhole`) | `MessageInv`, `AnswerInv`: a message has a length, below what has been consumed, and its text is bytes (`PartOf`, `Sized`). From it, for every message: the escapes written by the loop over the bytes are read back, token by token, as those bytes (`JsonReads`; `ReadsEscape` takes the 256 bytes by kind), six bytes for each are enough (`SixFold`, `StaysShort`), and the header of the frame, in each of its three forms, says its length (`HeaderWritten`). |
| `PublishedTextsAreText`, `TextsAreRefusedRightly` | `TextInv`: `msgUtf8` is the automaton after all the text of the message so far. The automaton goes by bytes, `IsText` of Receiver by the code points of RFC 3629 (shortest form, no surrogates, none above U+10FFFF). Both directions go by the last character: the bytes the automaton has taken since it was last between characters spell a code point (`TextAccepted`), and what it refuses no bytes can complete. The first says that the aggregator never sees a text that is not UTF-8, the second that the server sends no CLOSE 1007 without cause, wherever fragments cut a character. |
| `ReceiverImplemented` (`ImplementsReceiver`) | All of the above and `ReceiverInv`: as long as no CLOSE has been sent, `fragmenting`, `msgOpcode` and `msg` are what Receiver reads off the frames consumed (`JoinInv`); `closing` says whether the last answer is a CLOSE (`ClosingInv`); the buffer never gets smaller than in the handshake (`RoomInv`). The frames consumed are counted by `used` (`TakenIs`, from `AtFrame`). Then the verdicts agree: a header the parser refuses has a ground and one it accepts has none (`HeaderRefused`, `HeaderAccepted`), so for the place and length of a frame of data (`PlaceJudged`, `DataJudged`), its text (`TextJudged`; for a text that breaks off, also `GoodIsSoFar`: what the automaton has not refused can be completed), and a CLOSE (`CloseJudged`). Each action is one of Receiver's (`StepRefines`): `RecvFull` is `Overload` because of `RoomInv`, which is why the limit there is the larger of the two. |
| `OptionsAreSafe` (`OptionsSafe`) | What is in range follows from the loop of `parseArgs()` step by step (`ParseSteps`, `StepTyped`), after the narrowing to an `int` (`ValueBy`), the upstreams from the options collected so far (`Collected`). That a URL is taken apart as it reads: what `HasPort` finds is an address in one of two forms (`Plain`, `Boxed`; `Split`), in each form host and port are a meaning of it (`SplitMeaning`), and it has no other (`MeaningSplit`). |

Of the constants of Source it assumes `SizesAssumption` (a chunk is not empty, a
request and a chunk fit in the buffer of the handshake, `Filler` is a letter) and
`CasesAssumption` (arguments and frames are what `Options` and `FrameType` describe,
cuts are positions of the stream, and a stream has fewer than 2^56 bytes, so that
no `size_t` computed from a length wraps around).

**Shutdown**, for any listeners, workers and connections, whichever threads did
not start.

| Theorem | What it rests on |
|---|---|
| `NoUseAfterFree` (`NothingFreedInUse`), `NothingStranded` (`QueuesDrained`) | `StopInv`, which relates the stage of `main()` to the threads it has joined (`StagesPassed`), the shutdown of a queue to the end of its producers and the end of a reader to a queue that is shut down and empty (`Order`), and what has been freed to the end of those who use it (`FreedLate`). README.md:325-329 makes this argument in a sentence. |
| `NoDanglingAlways` (`NoDangling`) | `CustodyInv`: at each stage, who can still reach which connection. A connection that is closed has left every queue, list and set before it is freed; at the end `registryDestroyAll()` frees those that are left when no thread can reach them. |

Some assumptions deserve a word. The watermarks are those `options.c` accepts
(which `OptionsSafe` checks). `TextAssumption` says that a request is
one of `Requests`: without it a request could be anything, and `Http` says
nothing of a value that is not a record of words and headers. `PathAssumption`
keeps the path of the sink apart from the string that stands for a path running
on into the headers, which contains blanks and line ends and is never the sink's. `RoomAssumption` (a socket takes a data frame) is about the
environment: what the peer reads during a write counts as read before it. The rest
say that pools are finite and not empty, that lengths are not zero, and that
model values are distinct.

## 7. Where the code and its documents disagree

Three of them are runs that TLC ends with a counterexample; the quotations are in
`PROJECT.json`.

| Run | What happens |
|---|---|
| `pipeline_orphan` | The worker puts a source on the park list and then removes its descriptor from epoll (`worker.c:293-294`). If the aggregator resumes it in between, its `EPOLL_CTL_ADD` fails with EEXIST, unnoticed, and the worker's `DEL` follows: the source is in no epoll set and on no list until the server stops. |
| `pipeline_stranded` | Frames that were in `rx` when a source was parked are not parsed when it is resumed (`agg.c:302-312`), only with its next input, which may never come. |
| `sink_pong` | A PONG is written into the middle of a half-sent data frame (`agg.c:336-345`). |

The others are stated in the modules next to the properties that hold. They are
not among the regular runs; named in the configuration given here, each ends in
a counterexample too.

| Definition | Configuration | What happens |
|---|---|---|
| `Terminates` | `Shutdown_stop.cfg` under `ThreadsSpec` | A sink that stays connected and does not read keeps the aggregator (`agg.c:552`), and so `main()`, from returning; README.md:394-397 has the stop end on its own. |
| `ControlHandled` | `Pump_busy.cfg` | `aggPump()` (`agg.c:425-462`) goes round as long as the data queue is not empty and the socket takes frames. While sources keep it so, a new sink in the control queue is not adopted, although README.md:156-160 has that queue handled at once; nor is the input of the old one read. |
| `CloseLosesNothing` | `Upstream_one.cfg` | When a server closes while its client is paused, the message held back and what is still unread are dropped (`ws_client.c:754`). |
| `SocketlessIsRetried` | `Upstream_one.cfg` | After a failed `epoll_ctl(ADD)` the client stays CONNECTING without a socket and is never tried again (`ws_client.c:372-385`). |
| `NumbersKept` | `Source_all.cfg` | A number of `--port`, `--workers`, `--listeners` or `--tick` that does not fit an `int` is not refused but turns into another, which is used (`options.c:289`, 298, 307, 355). |
| `WithinLimitAccepted` | `Handshake_all.cfg` | Requests of more than 4096 bytes get 431 although the documented limit is 8192 (`conn.c:94`). |
| `ReadBeforeEndIsHandled` | `Handshake_all.cfg` | Frames that come in one read with the request and the end of stream are dropped (`worker.c:139`). |

One more is part of what Receiver allows. `bufRecv()` reads all there is before
the first frame is looked at, and refuses with 1009 when the unread bytes pass
`max(8192, max-message + max-frame) - 4096` (`worker.c:174`, `conn.c:94`).
README.md:205-210 speaks of a limit for each frame and each message; many small
frames at once, or one message of nearly `--max-message` behind another, can meet
the other one first. `Overload` of Receiver states exactly when.

## 8. Only model-checked, and not modelled

Only model-checked:

* all liveness: fairness and ENABLED are outside TLAPS. `ReactorEnds` rests on
  servers that send finitely much, as those of the instances do. One that sends
  faster than `recv()` empties the socket would keep `readUpstreamFrames()` in its
  loop (`ws_client.c:779-802`), which does not look at the shutdown flag.

The runs that show a violation have no theorem.

Left out, with the reason:

* Out of memory. `push()`, `msgNew()`, `frameNew()`, `bufReserve()` fail only then
  (or at the limit, which is modelled).
* The park in Handshake (`worker.c:285-296`): an open source is there re-armed or
  closed. A parked source is in no epoll set, so its end of stream is not seen
  until it is resumed, and never if it is orphaned (section 7).
* Failures of `epoll_ctl(MOD)` and of `accept()` for lack of descriptors.
  A failed `ADD` is modelled where the code's reaction matters (Upstream, accept
  in Handshake, resume in Pipeline).
* The clean-up on the paths of `main()` that return before any thread exists
  (`server.c:52-175`): one thread, one path for each failure.
* The table of 256 sources, its counters, and the statistics line of the tick:
  they feed the log and the number a source has in the JSON object. The 257th
  source gets a number of its own no more, and no document promises one.
* The doubly linked list of the registry: three assignments in one critical
  section. Handshake and Shutdown have it as the set of live connections.
* Byte loops of `http.c` for CRLF and blanks; the masking of payloads, which is
  its own inverse.
* SHA-1, Base64, the logger: standard algorithms and output.
* `wsClientThread()` (`ws_client.c:1308-2048`): not called from anywhere.
* `MSG_SRC_DOWN`: handled by the aggregator, sent by nobody.
* The file server, the web page, the benchmarks, the report, the test client.

Undefined behaviour: the flag `conf->shutdown` is atomic and the queues are
locked; no data race is modelled because the model met none. What a step reads
and later uses without the lock (`queueSize()`) is two steps in Pipeline, Upstream
and MsgQueue. In Shutdown the look at the mark and the push are one step
(`WorkPush`, `UpPush`): its properties ask who can reach what and whether a queue
has been emptied, not how many messages are in one.

## 9. Plan

Every safety property, action property and refinement of the runs has its theorem.
What a change of the code would call for next:

1. if the table of sources (256 entries, `agg.c:137`) gets a way to take a source
   out again, it belongs into Pipeline: numbers would be given twice;
2. if `MSG_SRC_DOWN` is sent one day, FanIn has to say where it comes among the
   messages of its source, and the park list what becomes of those held back;
3. a bound on the time a client spends in HANDSHAKE (`ws_client.c:703` has none)
   would be one more step of the loop on the timer (`loop = "reconnect"`) of Upstream.
