------------------------------ MODULE MCSource ------------------------------
\* Streams, arrivals and command lines for Source.
EXTENDS Source

Frame(op, size, body) ==
    [fin |-> TRUE, rsv |-> 0, op |-> op, masked |-> TRUE,
     form |-> IF size <= 125 THEN 7 ELSE IF size <= 65535 THEN 16 ELSE 64,
     size |-> size, body |-> body]
Short(op, body) == Frame(op, Len(body), body)
Part(frame) == [frame EXCEPT !.fin = FALSE]

Number(n) == [num |-> n, clean |-> TRUE]
Option(opt, n) == [opt |-> opt, val |-> Number(n)]
Limits(frame, message) == <<Option("maxFrame", frame), Option("maxMessage", message)>>

\* Bytes arrive frame by frame, or up to the inside of a frame as well.
Ends(frames) == {Bounds(frames)[i] : i \in DOMAIN frames}
Inside(frames) ==
    UNION {{Bounds(frames)[i - 1] + n :
               n \in {1, 2, FrameLen(frames[i]) - frames[i].size, FrameLen(frames[i]) - 1}}
               : i \in DOMAIN frames}

Case(options, frames, positions) == [args |-> options, stream |-> frames, cuts |-> positions]
Slowly(options, frames) == Case(options, frames, Ends(frames) \cup Inside(frames))
ByFrame(options, frames) == Case(options, frames, Ends(frames))
AtOnce(options, frames) == Case(options, frames, {Bounds(frames)[Len(frames)]} \ {0})

-----------------------------------------------------------------------------

Euro == <<226, 130, 172>>
Hello == Short(OpText, <<72, 105>>)

\* Messages, whole and in fragments, with control frames in between.
InOrder == {
    Slowly(<<>>, <<Part(Short(OpText, <<226, 130>>)), Short(OpPing, <<1>>),
                   Short(OpCont, <<172>>), Short(OpClose, <<3, 232>>)>>),
    Slowly(<<>>, <<Frame(OpBin, 200, <<>>), Short(OpPong, <<>>), Short(OpClose, <<>>)>>),
    ByFrame(<<>>, <<Part(Short(OpBin, <<226>>)), Short(OpCont, <<>>), Hello,
                    Short(OpPing, <<>>), Part(Hello), Hello>>)}

\* Texts that grow on their way to the sink, to the longer forms of a length too.
Growing == {
    AtOnce(<<>>, <<Short(OpText, <<34, 92, 10, 13, 9, 1, 31, 65>>)>>),
    AtOnce(<<>>, <<Short(OpText, [i \in 1..TextBytes |-> i])>>),
    AtOnce(<<>>, <<Frame(OpText, 125, <<0, 127>>), Frame(OpText, 65500, <<92>>)>>)}

\* At the limits and beyond.
Large == {
    Slowly(<<>>, <<Frame(OpBin, 65536, <<>>), Hello>>),
    Slowly(<<>>, <<Hello, Frame(OpBin, 65537, <<>>)>>),
    ByFrame(Limits(4096, 6000), <<Part(Frame(OpBin, 4000, <<>>)), Frame(OpCont, 2000, <<>>), Hello>>),
    ByFrame(Limits(4096, 6000), <<Part(Frame(OpText, 4000, <<>>)), Frame(OpCont, 2001, <<>>)>>),
    ByFrame(Limits(4096, 4096), <<Frame(OpBin, 3000, <<>>), Hello, Frame(OpBin, 3000, <<>>)>>),
    Slowly(Limits(4096, 4096), <<Hello, Frame(OpBin, 4096, <<>>)>>),
    ByFrame(Limits(100, 100), <<Frame(OpBin, 100, <<>>), Frame(OpBin, 101, <<>>)>>)}

\* One frame that is out of order, behind one that is not.
Wrong == {
    [Hello EXCEPT !.rsv = 4], [Hello EXCEPT !.masked = FALSE],
    [Hello EXCEPT !.op = 3], [Hello EXCEPT !.op = 11], [Hello EXCEPT !.op = 15],
    [Hello EXCEPT !.form = 16], [Hello EXCEPT !.form = 64], [Hello EXCEPT !.form = 63],
    [Frame(OpBin, 126, <<>>) EXCEPT !.form = 64],
    Part(Short(OpPing, <<>>)), Frame(OpPing, 126, <<>>), Short(OpCont, <<>>)}
OutOfOrder ==
    {Slowly(<<>>, <<Short(OpPing, <<7>>), frame>>) : frame \in Wrong}

Codes == {0, 999, 1000, 1003, 1004, 1005, 1006, 1007, 1011, 1012, 1015, 2999, 3000, 4999, 5000}
Closes ==
    {AtOnce(<<>>, <<Short(OpClose, <<code \div 256, code % 256>>)>>) : code \in Codes}
        \cup {AtOnce(<<>>, <<Short(OpClose, body), Hello>>) :
                 body \in {<<3>>, <<3, 232>> \o Euro, <<3, 232, 226, 130>>, <<3, 232, 255>>}}

-----------------------------------------------------------------------------

\* Texts around every boundary of the table of RFC 3629, whole and cut.
Leads == {65, 127, 128, 191, 192, 193, 194, 223, 224, 225, 236, 237, 238, 239,
          240, 241, 243, 244, 245, 255}
Nexts == {65, 127, 128, 143, 144, 159, 160, 191, 192}
Words ==
    {<<a>> : a \in Leads} \cup {<<a, b>> : a \in Leads, b \in Nexts}
        \cup {<<a, b, c>> : a \in {194, 224, 225, 237, 240, 244}, b \in Nexts, c \in {65, 128, 191, 192}}
        \cup {<<a, b, c, d>> : a \in {240, 241, 244}, b \in {127, 128, 143, 144, 191}, c \in {65, 128},
                               d \in {65, 191, 192}}
Cut(word, n) ==
    <<Part(Short(OpText, SubSeq(word, 1, n))), Short(OpCont, SubSeq(word, n + 1, Len(word)))>>
Texts ==
    {AtOnce(<<>>, <<Short(OpText, word)>>) : word \in Words}
        \cup {AtOnce(<<>>, Cut(word, Len(word) \div 2)) : word \in {w \in Words : Len(w) > 1}}

-----------------------------------------------------------------------------

Text1(len, n) == [mark |-> "text", len |-> len, num |-> n, clean |-> n # 0]
SomePieces == {Colon, Bracket("["), Bracket("]"), Text1(3, 0), Text1(2, 80)}
Authorities ==
    UNION {[1..n -> SomePieces] : n \in 0..4}
        \cup {<<Bracket("[")>> \o s : s \in [1..4 -> SomePieces]}
        \cup {<<Text1(256, 0), Colon, Text1(2, 80)>>, <<Text1(3, 0), Colon, Text1(5, 65536)>>}
Url(authority, path) == [opt |-> "upstream", val |-> [ws |-> TRUE, authority |-> authority, path |-> path]]
Good == Url(<<Text1(3, 0), Colon, Text1(2, 80)>>, 5)

CommandLines ==
    {<<Url(authority, 0)>> : authority \in Authorities}
        \cup {<<Good, Url(<<Text1(3, 0), Colon, Text1(5, 65535)>>, path)>> : path \in {1, 511, 512}}
        \cup {<<Option(opt, n)>> :
                 opt \in {"port", "workers", "listeners", "hwm", "lwm", "maxFrame", "maxMessage", "tickMs"},
                 n \in {0, 1, 16, 17, 64, 65, 128, 256, 65535, 65536}}
        \cup {<<Option("tickMs", 2 ^ (IntBits - 1))>>, <<Option("tickMs", 2 ^ IntBits)>>}
        \cup {<<Option(opt, 2 ^ IntBits + n)>> :
                 opt \in {"port", "workers", "listeners"}, n \in {-1, 0, 16, 17, 64, 65, 65535, 65536}}
        \cup {<<[opt |-> opt, val |-> [num |-> 5, clean |-> FALSE]]>> : opt \in {"port", "hwm"}}
        \cup {<<Option("hwm", 10), Option("lwm", 9)>>, <<Option("lwm", 300), Option("hwm", 301)>>,
              <<Option("lwm", 300), Option("hwm", 300)>>}
        \cup {<<Good, [opt |-> "help", val |-> 0]>>, <<[opt |-> "other", val |-> 0], Good>>,
              <<[opt |-> "sinkPath", val |-> [slash |-> FALSE, text |-> "out"]]>>,
              <<[opt |-> "sinkPath", val |-> [slash |-> TRUE, text |-> "/out"]], Good>>}

Lines == {Case(line, <<>>, {}) : line \in CommandLines}

AllCases == InOrder \cup Growing \cup Large \cup OutOfOrder \cup Closes \cup Texts \cup Lines
=============================================================================
