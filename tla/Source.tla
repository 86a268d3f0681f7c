------------------------------- MODULE Source -------------------------------
(***************************************************************************)
(* A source that has been upgraded (handleWsOpen(), worker.c): the bytes   *)
(* of its frames, read until EAGAIN into a buffer that may not grow past   *)
(* its limit, taken apart into frames, messages and answers. The data      *)
(* queue has room here; Pipeline says what happens when it has not.        *)
(*                                                                         *)
(* The peer sends the bytes of the frames in stream (see Receiver for the  *)
(* fields of a frame), right or wrong. Bytes are numbered from 0; the      *)
(* socket holds those from taken to arrived, the unread part of rx those   *)
(* from used to taken.                                                     *)
(***************************************************************************)
EXTENDS Codec, Buffer, Options, Aggregate

CONSTANTS
    Cases,          \* what may happen: [args, stream, cuts]
    Chunk,          \* room bufRecv() asks for, 4096
    RequestLen,     \* bytes of the handshake request
    Filler,         \* the byte all long payloads go on with, an ASCII letter
    TextBytes       \* bytes of a payload that are told apart

VARIABLES
    \* the peer
    args, stream, cuts, \* the server's command line, the frames, and the
                        \* positions at which bytes arrive; from Cases
    arrived,        \* bytes that have reached the server's socket
    peer,           \* "open", "fin" (it has closed its end) or "reset"
    blocked,        \* it does not read, send() gives EAGAIN
    \* Conn_t
    rx, taken, used,    \* Buf_t; bytes received into it and consumed from it
    tx,             \* answers that are not sent completely
    closing,        \* closeAfterSend
    fragmenting, msgOpcode, msg, msgUtf8,   \* the message under assembly
    armed,          \* events asked for in epoll
    \* the worker
    pc, eof,
    \* history
    published,      \* messages pushed to the data queue
    answers         \* frames appended to tx

peerVars == <<args, stream, cuts, arrived, peer, blocked>>
msgVars == <<fragmenting, msgOpcode, msg, msgUtf8>>
history == <<published, answers>>
vars == <<peerVars, rx, taken, used, tx, closing, msgVars, armed, pc, eof, history>>

conf == ParseArgs(args).conf
HardCap == conf.maxMessage + conf.maxFrame

-----------------------------------------------------------------------------
(* The bytes of the stream *)

\* RFC 6455, section 5.2, as a peer builds it, rightly or not.
HeadBytes(f) ==
    <<(IF f.fin THEN 128 ELSE 0) + 16 * f.rsv + f.op>> \o
    (LET mask == IF f.masked THEN 128 ELSE 0 IN
     CASE f.form = 7  -> <<mask + f.size>>
       [] f.form = 16 -> <<mask + 126>> \o BytesOf(f.size, 2)
       [] f.form = 64 -> <<mask + 127>> \o BytesOf(f.size, 8)
       [] f.form = 63 -> <<mask + 127, 128>> \o BytesOf(f.size, 7)) \o
    (IF f.masked THEN <<0, 0, 0, 0>> ELSE <<>>)

FrameLen(f) == Len(HeadBytes(f)) + f.size

\* Bounds(frames)[i] bytes come before the end of frame i.
Bounds(frames) ==
    LET end[i \in 0..Len(frames)] == IF i = 0 THEN 0 ELSE end[i - 1] + FrameLen(frames[i])
    IN  end

EndOf(i) == Bounds(stream)[i]
Total == EndOf(Len(stream))

\* The byte at a position, with the payload unmasked: of a payload the body,
\* then fillers.
ByteAt(p) ==
    IF p >= Total THEN Filler
    ELSE LET k == CHOOSE i \in DOMAIN stream : p \in EndOf(i - 1)..(EndOf(i) - 1)
             bytes == HeadBytes(stream[k]) \o stream[k].body
             i == p - EndOf(k - 1) + 1
         IN  IF i <= Len(bytes) THEN bytes[i] ELSE Filler

\* Frames that can be written down: the length fits into its form.
FrameType ==
    {f \in [fin : BOOLEAN, rsv : 0..7, op : 0..15, masked : BOOLEAN,
            form : {7, 16, 63, 64}, size : Nat, body : Seq(Byte)] :
        /\ Len(f.body) <= f.size
        /\ CASE f.form = 7  -> f.size <= 125
             [] f.form = 16 -> ShiftedRight(f.size, 2) = 0
             [] f.form = 63 -> ShiftedRight(f.size, 7) = 0
             [] f.form = 64 -> ShiftedRight(f.size, 7) < 128}

\* The bytes behind the request fit into the buffer of the handshake (one of
\* more than handshakeMax - Chunk bytes is refused).
ASSUME SizesAssumption ==
    /\ Chunk \in Nat \ {0} /\ RequestLen \in Nat
    /\ RequestLen + Chunk <= Defaults.handshakeMax
    /\ TextBytes \in Nat /\ Filler \in (65..90) \cup (97..122)

\* Bytes arrive at positions of the stream, of which there are fewer than 2^56:
\* no size_t computed from a length wraps around (agg.c:72, 221).
ASSUME CasesAssumption ==
    \A case \in Cases :
        /\ case.args \in Seq(Arguments) /\ case.stream \in Seq(FrameType)
        /\ case.cuts \subseteq 0..Bounds(case.stream)[Len(case.stream)]
        /\ ShiftedRight(Bounds(case.stream)[Len(case.stream)], 7) = 0

\* The header the parser sees, of any length it may have.
Header == [i \in 0..13 |-> ByteAt(used + i)]
Avail == Unread(rx)

\* A payload of n bytes behind it: as much of it as is told apart.
Payload(h, n) ==
    [i \in 1..Min({n, TextBytes}) |-> ByteAt(used + HeaderLen(h) + i - 1)]

-----------------------------------------------------------------------------

\* handleHandshakeSend() goes straight on to handleWsOpen(): the request has
\* been consumed, and bytes behind it may be in the buffer already, which has
\* its size from the handshake.
Init ==
    \E case \in Cases : \E early \in {n \in case.cuts \cup {0} : n <= Chunk \div 2} :
        /\ args = case.args /\ stream = case.stream /\ cuts = case.cuts
        /\ arrived = early /\ peer = "open" /\ blocked = FALSE
        /\ rx = Consume([cap |-> Defaults.handshakeMax, len |-> RequestLen + early, off |-> 0],
                        RequestLen)
        /\ taken = early /\ used = 0
        /\ tx = 0 /\ closing = FALSE
        /\ fragmenting = FALSE /\ msgOpcode = OpCont
        /\ msg = [len |-> 0, text |-> <<>>] /\ msgUtf8 = Utf8Start
        /\ armed = {} /\ eof = FALSE
        /\ pc = IF ParseArgs(case.args).rc = "ok" THEN "recv" ELSE "refused"
        /\ published = <<>> /\ answers = <<>>

-----------------------------------------------------------------------------
(* The peer *)

PeerSend ==
    /\ pc \notin {"closed", "refused"} /\ peer = "open"
    /\ arrived' \in {n \in cuts : n > arrived}
    /\ UNCHANGED <<args, stream, cuts, peer, blocked, rx, taken, used, tx, closing,
                   msgVars, armed, pc, eof, history>>

PeerClose ==
    /\ pc \notin {"closed", "refused"} /\ peer # "reset"
    /\ peer' \in {"fin", "reset"} \ {peer}
    /\ UNCHANGED <<args, stream, cuts, arrived, blocked, rx, taken, used, tx, closing,
                   msgVars, armed, pc, eof, history>>

PeerReads ==
    /\ blocked
    /\ blocked' = FALSE
    /\ UNCHANGED <<args, stream, cuts, arrived, peer, rx, taken, used, tx, closing,
                   msgVars, armed, pc, eof, history>>

-----------------------------------------------------------------------------
(* bufRecv() *)

connVars == <<used, tx, closing, msgVars, history>>

\* An event, a listener, and a worker that pops the connection.
Event ==
    /\ pc = "idle"
    /\ \/ arrived > taken \/ peer # "open"
       \/ "out" \in armed /\ ~blocked
    /\ armed' = {}
    /\ pc' = "recv"
    /\ UNCHANGED <<peerVars, rx, taken, connVars, eof>>

Room == Reserve(rx, Chunk, HardCap)
HasRoom == CanReserve(rx, Chunk, HardCap)

\* Mutant: the offset is left where it was when the buffer is compacted.
Recv_KeepOff ==
    /\ pc = "recv" /\ HasRoom /\ peer # "reset" /\ arrived > taken
    /\ LET n == Min({arrived - taken, Room.cap - Room.len}) IN
        /\ rx' = Fill([Room EXCEPT !.off = rx.off], n)
        /\ taken' = taken + n
    /\ UNCHANGED <<peerVars, connVars, armed, pc, eof>>

\* One recv() that returns something; the loop goes on.
Recv ==
    /\ pc = "recv" /\ HasRoom /\ peer # "reset" /\ arrived > taken
    /\ LET n == Min({arrived - taken, Room.cap - Room.len}) IN
        /\ rx' = Fill(Room, n)
        /\ taken' = taken + n
    /\ UNCHANGED <<peerVars, connVars, armed, pc, eof>>

\* EAGAIN
RecvNone ==
    /\ pc = "recv" /\ HasRoom /\ peer = "open" /\ arrived = taken
    /\ rx' = Room /\ eof' = FALSE
    /\ pc' = "parse"
    /\ UNCHANGED <<peerVars, taken, connVars, armed>>

\* End of stream, or an error, which takes what was not read with it.
RecvEnd ==
    /\ pc = "recv" /\ HasRoom
    /\ peer = "reset" \/ (peer = "fin" /\ arrived = taken)
    /\ rx' = Room /\ eof' = TRUE
    /\ pc' = "parse"
    /\ UNCHANGED <<peerVars, taken, connVars, armed>>

\* sendCloseAndMark()
SendClose(code) ==
    /\ tx' = tx + 1
    /\ answers' = Append(answers, [kind |-> "close", code |-> code, len |-> 2, text |-> <<>>])
    /\ closing' = TRUE

\* -2: the buffer may not grow any more.
RecvFull ==
    /\ pc = "recv" /\ ~HasRoom
    /\ rx' = Room /\ eof' = FALSE
    /\ pc' = "parse"
    /\ IF closing THEN UNCHANGED <<tx, answers, closing>> ELSE SendClose(1009)
    /\ UNCHANGED <<peerVars, taken, used, msgVars, armed, published>>

-----------------------------------------------------------------------------
(* The loop over the frames in rx *)

Parsing == pc = "parse" /\ ~closing

\* A frame that is refused stays in the buffer.
Refuse(code) ==
    /\ SendClose(code)
    /\ UNCHANGED <<peerVars, rx, taken, used, msgVars, armed, pc, eof, published>>

RefuseHeader ==
    /\ Parsing
    /\ \/ HeaderError(Header, Avail)
       \/ HeaderComplete(Header, Avail) /\ ~Masked(Header)
    /\ Refuse(1002)

HeaderGood == Parsing /\ HeaderComplete(Header, Avail) /\ Masked(Header)

RefuseSize ==
    /\ HeaderGood /\ PayloadLen(Header) > conf.maxFrame
    /\ Refuse(1009)

\* A complete frame.
HasFrame ==
    /\ HeaderGood /\ PayloadLen(Header) <= conf.maxFrame
    /\ Avail >= HeaderLen(Header) + PayloadLen(Header)

Size == PayloadLen(Header)
Bytes == Payload(Header, Size)

ConsumeFrame ==
    /\ rx' = Consume(rx, HeaderLen(Header) + Size)
    /\ used' = used + HeaderLen(Header) + Size

\* Mutant: the loop is left behind a PING.
Ping_Break ==
    /\ HasFrame /\ Opcode(Header) = OpPing
    /\ tx' = tx + 1
    /\ answers' = Append(answers, [kind |-> "pong", code |-> 0, len |-> Size, text |-> Bytes])
    /\ ConsumeFrame
    /\ pc' = "flush"
    /\ UNCHANGED <<peerVars, taken, closing, msgVars, armed, eof, published>>

Ping ==
    /\ HasFrame /\ Opcode(Header) = OpPing
    /\ tx' = tx + 1
    /\ answers' = Append(answers, [kind |-> "pong", code |-> 0, len |-> Size, text |-> Bytes])
    /\ ConsumeFrame
    /\ UNCHANGED <<peerVars, taken, closing, msgVars, armed, pc, eof, published>>

Pong ==
    /\ HasFrame /\ Opcode(Header) = OpPong
    /\ ConsumeFrame
    /\ UNCHANGED <<peerVars, taken, tx, closing, msgVars, armed, pc, eof, history>>

\* The code of the answer: that of the CLOSE, unless it or the reason is wrong.
ClosingCode ==
    LET code == 256 * Bytes[1] + Bytes[2]
        reason == Utf8Feed(Utf8Start, SubSeq(Bytes, 3, Len(Bytes)))
    IN  IF Size = 0 THEN 1000
        ELSE IF Size = 1 \/ ~IsValidCloseCode(code) THEN 1002
        ELSE IF reason.kind = "bad" \/ ~Utf8Done(reason) THEN 1007
        ELSE code

CloseFrame ==
    /\ HasFrame /\ Opcode(Header) = OpClose
    /\ SendClose(ClosingCode)
    /\ ConsumeFrame
    /\ UNCHANGED <<peerVars, taken, msgVars, armed, pc, eof, published>>

HasData == HasFrame /\ ~IsControl(Opcode(Header))

\* A continuation needs a message that is open, anything else one that is not.
InPlace == (Opcode(Header) = OpCont) = fragmenting

RefusePlace == HasData /\ ~InPlace /\ Refuse(1002)

\* Mutant: the automaton starts anew with each frame.
Assembly_FreshUtf8 ==
    IF fragmenting THEN [op |-> msgOpcode, msg |-> msg, utf8 |-> Utf8Start]
    ELSE [op |-> Opcode(Header), msg |-> [len |-> 0, text |-> <<>>], utf8 |-> Utf8Start]

\* The message the frame goes on with, or begins.
Assembly ==
    IF fragmenting THEN [op |-> msgOpcode, msg |-> msg, utf8 |-> msgUtf8]
    ELSE [op |-> Opcode(Header), msg |-> [len |-> 0, text |-> <<>>], utf8 |-> Utf8Start]

TooLong == Assembly.msg.len + Size > conf.maxMessage
FedUtf8 == IF Assembly.op = OpText THEN Utf8Feed(Assembly.utf8, Bytes) ELSE Assembly.utf8
WithFrame == [len |-> Assembly.msg.len + Size, text |-> Assembly.msg.text \o Bytes]

RefuseMessage ==
    /\ HasData /\ InPlace
    /\ TooLong \/ FedUtf8.kind = "bad"
    /\ SendClose(IF TooLong THEN 1009 ELSE 1007)
    /\ fragmenting' = TRUE
    /\ msgOpcode' = Assembly.op /\ msg' = Assembly.msg /\ msgUtf8' = Assembly.utf8
    /\ UNCHANGED <<peerVars, rx, taken, used, armed, pc, eof, published>>

DataInOrder == HasData /\ InPlace /\ ~TooLong /\ FedUtf8.kind # "bad"

Fragment ==
    /\ DataInOrder /\ ~Fin(Header)
    /\ ConsumeFrame
    /\ fragmenting' = TRUE
    /\ msgOpcode' = Assembly.op /\ msg' = WithFrame /\ msgUtf8' = FedUtf8
    /\ UNCHANGED <<peerVars, taken, tx, closing, armed, pc, eof, history>>

\* The last frame of a text that breaks off inside a character.
RefuseText ==
    /\ DataInOrder /\ Fin(Header) /\ Assembly.op = OpText /\ ~Utf8Done(FedUtf8)
    /\ SendClose(1007)
    /\ ConsumeFrame
    /\ fragmenting' = FALSE
    /\ msgOpcode' = Assembly.op /\ msg' = WithFrame /\ msgUtf8' = FedUtf8
    /\ UNCHANGED <<peerVars, taken, armed, pc, eof, published>>

\* msgNewData() and push(): the last frame of a message in order.
Publish ==
    /\ DataInOrder /\ Fin(Header) /\ (Assembly.op = OpText => Utf8Done(FedUtf8))
    /\ ConsumeFrame
    /\ published' = Append(published, [op |-> Assembly.op, len |-> WithFrame.len,
                                       text |-> WithFrame.text])
    /\ fragmenting' = FALSE
    /\ msgOpcode' = Assembly.op /\ msg' = [len |-> 0, text |-> <<>>] /\ msgUtf8' = FedUtf8
    /\ UNCHANGED <<peerVars, taken, tx, closing, armed, pc, eof, answers>>

HandleFrame ==
    \/ RefuseHeader \/ RefuseSize
    \/ Ping \/ Pong \/ CloseFrame
    \/ RefusePlace \/ RefuseMessage \/ Fragment \/ RefuseText \/ Publish

NeedMore ==
    /\ ~HeaderError(Header, Avail)
    /\ HeaderComplete(Header, Avail) =>
           /\ Masked(Header) /\ Size <= conf.maxFrame
           /\ Avail < HeaderLen(Header) + Size

\* Mutant: at the end of the stream the buffer is not looked at any more.
LoopEnds_AtEof ==
    /\ pc = "parse"
    /\ closing \/ eof \/ NeedMore
    /\ pc' = "flush"
    /\ UNCHANGED <<peerVars, rx, taken, connVars, armed, eof>>

\* The loop ends with a CLOSE, or for lack of bytes.
LoopEnds ==
    /\ pc = "parse"
    /\ closing \/ NeedMore
    /\ pc' = "flush"
    /\ UNCHANGED <<peerVars, rx, taken, connVars, armed, eof>>

-----------------------------------------------------------------------------
(* flushTx(), and what becomes of the connection *)

flushed == <<args, stream, cuts, arrived, peer, rx, taken, used, closing, msgVars, eof, history>>

FlushAll ==
    /\ pc = "flush"
    /\ tx = 0 \/ (~blocked /\ peer # "reset")
    /\ tx' = 0
    /\ pc' = IF closing \/ eof THEN "closed" ELSE "idle"
    /\ armed' = IF closing \/ eof THEN {} ELSE {"in"}
    /\ UNCHANGED <<flushed, blocked>>

FlushSome ==
    /\ pc = "flush" /\ tx # 0 /\ peer # "reset"
    /\ tx' \in (IF blocked THEN {tx} ELSE 1..tx)
    /\ blocked' = TRUE
    /\ pc' = IF eof THEN "closed" ELSE "idle"
    /\ armed' = IF eof THEN {} ELSE {"in", "out"}
    /\ UNCHANGED flushed

FlushError ==
    /\ pc = "flush" /\ tx # 0 /\ peer = "reset"
    /\ pc' = "closed" /\ armed' = {}
    /\ UNCHANGED <<flushed, tx, blocked>>

WorkerStep ==
    \/ Event \/ Recv \/ RecvNone \/ RecvEnd \/ RecvFull
    \/ HandleFrame \/ LoopEnds
    \/ FlushAll \/ FlushSome \/ FlushError

Next == PeerSend \/ PeerClose \/ PeerReads \/ WorkerStep

Spec == Init /\ [][Next]_vars

-----------------------------------------------------------------------------
(* Properties *)

\* Growth, compaction and consumption lose and repeat nothing (conn.c:15-67):
\* what is unread in rx is what was received and not consumed, and the parser
\* is at the beginning of a frame. The capacity keeps its limit, which for the
\* buffer of the handshake is the larger of the two.
BufferIntact ==
    /\ rx \in BufferType /\ rx.off <= rx.len /\ rx.len <= rx.cap
    /\ pc # "refused" => rx.cap <= Max({HardCap, Defaults.handshakeMax})
    /\ Unread(rx) = taken - used /\ taken <= arrived
    /\ \E i \in 0..Len(stream) : used = EndOf(i)

\* What Receiver speaks of: the limits, and how many frames have been consumed.
FrameLimits == [frame |-> conf.maxFrame, message |-> conf.maxMessage,
                buffer |-> Max({HardCap, Defaults.handshakeMax})]
FramesTaken == Cardinality({i \in DOMAIN stream : EndOf(i) <= used})
Frames == INSTANCE Receiver WITH
    Spare <- Chunk, limits <- FrameLimits, done <- FramesTaken, open <- (pc # "closed")

\* Every frame has the effect RFC 6455 and the limits give it: each message of
\* frames in order is published once, whole and in order, however the bytes
\* arrive; a PING is answered with its payload; a CLOSE and each kind of error
\* get an answer that fits (worker.c:179-299, ws.c:7-89, ws.c:144-204).
ImplementsReceiver == Frames!Spec

\* Whatever a message holds and however long it is, the sink can read it back:
\* the escapes fit into what is allocated, the object is closed, and the header
\* says how long the frame is (agg.c:157-242, 68-82, ws.c:99-123); an answer
\* to the source is read back as well.
OutputWhole ==
    /\ \A i \in DOMAIN published :
           LET m == published[i]
               out == AggOnMessage(m)
           IN  /\ ReadsAs(out.head, IF m.op = OpBin THEN OpBin ELSE OpText, out.len)
               /\ IF m.op = OpBin THEN out.data = m.text /\ out.len = m.len
                  ELSE JsonText(out.data) = m.text /\ out.len < Capacity(m.len)
    /\ \A i \in DOMAIN answers :
           LET op == IF answers[i].kind = "pong" THEN OpPong ELSE OpClose
           IN  ReadsAs(EncodeHeader(op, answers[i].len), op, answers[i].len)

\* README.md:321-324: frames that came right before the end of the stream are
\* handled, although the connection is closed in the same run of the handler.
EndHandled ==
    pc = "closed" /\ peer = "fin" /\ ~closing =>
        \A i \in DOMAIN stream : EndOf(i) <= arrived => EndOf(i) <= used

\* The descriptor is edge-triggered, and what was left in rx or tx when the
\* handler re-armed it is no event (worker.c:34-60, 75-87, 179-200): a connection that
\* waits has no complete frame in rx, unless it got a CLOSE; what is not sent
\* yet has asked for EPOLLOUT; and a CLOSE that is sent has ended it.
NothingLeftBehind ==
    pc = "idle" =>
        /\ closing \/ \A i \in DOMAIN stream : EndOf(i) <= taken => EndOf(i) <= used
        /\ "in" \in armed /\ (tx # 0 => "out" \in armed)
        /\ closing => tx # 0

-----------------------------------------------------------------------------
(* The command line *)

Colon == [mark |-> ":", len |-> 1, num |-> 0, clean |-> FALSE]

Bracket(mark) == [mark |-> mark, len |-> 1, num |-> 0, clean |-> FALSE]

\* What an authority says: a host and a port behind the last colon, or an IPv6
\* address in brackets and a port.
Meanings(pieces) ==
    LET n == Len(pieces)
        hosts == UNION {{SubSeq(pieces, i, j) : j \in i..n} : i \in 1..n}
    IN  {m \in hosts \X {<<pieces[i]>> : i \in DOMAIN pieces} :
            /\ IsPort(m[2])
            /\ \/ pieces = m[1] \o <<Colon>> \o m[2] /\ m[1][1].mark # "["
               \/ /\ \A i \in DOMAIN m[1] : m[1][i].mark # "]"
                  /\ pieces = <<Bracket("[")>> \o m[1] \o <<Bracket("]"), Colon>> \o m[2]}

\* The --upstream options among the first i arguments.
UrlsUpTo(i) ==
    LET urls[j \in 0..Len(args)] ==
            IF j = 0 THEN <<>>
            ELSE urls[j - 1] \o (IF args[j].opt = "upstream" THEN <<args[j]>> ELSE <<>>)
    IN  urls[i]

UrlArgs == UrlsUpTo(Len(args))

HasMeaning(url) ==
    url.ws /\ url.path < PathMax /\ \E m \in Meanings(url.authority) : Length(m[1]) < HostMax

\* An upstream stored with the host and the port that its URL has, and no others, and
\* with its path, or "/" (of length 1) if it has none.
StoredAs(upstream, url) ==
    \E m \in Meanings(url.authority) :
        /\ Meanings(url.authority) = {m}
        /\ upstream.host = m[1] /\ upstream.port = m[2][1].num
        /\ upstream.path = IF url.path = 0 THEN 1 ELSE url.path

\* What main() goes on with is what the other parts of the server rely on
\* (options.c:39-216, 251-378): the watermarks are apart and above zero, there
\* are threads and a port however large the numbers are that were cast to int, and
\* every --upstream has the host, the port and the path its URL names. A URL that
\* names a host and a port is not refused.
OptionsSafe ==
    LET c == ParseArgs(args).conf IN
    /\ ParseArgs(args).rc = "ok" =>
        /\ 1 <= c.lwm /\ c.lwm < c.hwm
        /\ c.workers \in 1..MaxWorkers /\ c.listeners \in 1..MaxListeners
        /\ c.port \in Ports /\ c.maxFrame > 0 /\ c.maxMessage > 0
        /\ Len(c.upstreams) = Len(UrlArgs)
        /\ \A i \in DOMAIN UrlArgs : StoredAs(c.upstreams[i], UrlArgs[i].val)
    /\ Len(UrlArgs) = Len(args) =>
        (ParseArgs(args).rc = "ok" <=> \A i \in DOMAIN UrlArgs : HasMeaning(UrlArgs[i].val))

\* The number of an option as the rest of the server has it, and the last of several
\* options of a kind, which counts.
NumberOptions ==
    {"port", "workers", "listeners", "hwm", "lwm", "maxFrame", "maxMessage", "tickMs"}
Used(opt) == IF opt = "tickMs" THEN TimerPeriod(conf) ELSE conf[opt]
IsLast(i) == \A j \in (i + 1)..Len(args) : args[j].opt # args[i].opt

\* options.c:291 "порт должен быть от 1 до 65535", likewise 300 and 309, and 28
\* "Период тика статистики/агрегации, мс": the number an option gives is the one
\* the server uses, or it is refused. The code does not keep this for a number that
\* an int cannot hold: atoi() (lines 289, 298, 307) and the cast of --tick (line
\* 355) make another one of it, and agg.c:524 the default of a tick that is no
\* longer above zero.
NumbersKept ==
    ParseArgs(args).rc = "ok" =>
        \A i \in DOMAIN args :
            args[i].opt \in NumberOptions /\ IsLast(i) =>
                Used(args[i].opt) = args[i].val.num

=============================================================================
