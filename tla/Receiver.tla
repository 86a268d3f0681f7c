------------------------------ MODULE Receiver ------------------------------
(***************************************************************************)
(* What a server makes of the frames of one source, by RFC 6455 and the    *)
(* two limits: which messages it publishes, what it answers, and on which  *)
(* grounds it may refuse. A verdict on a frame is defined over the frames  *)
(* before it, with no state carried from one to the next.                  *)
(*                                                                         *)
(* A frame is a record [fin, rsv, op, masked, form, size, body]: form is   *)
(* the number of bits its length is sent in (7, 16, 64, or 63 for a 64-bit *)
(* length with its top bit set), body the payload up to its last byte that *)
(* is not Filler.                                                          *)
(***************************************************************************)
EXTENDS Integers, Sequences, SequencesExt, FiniteSetsExt

CONSTANTS
    Filler,     \* the byte all long payloads go on with, an ASCII letter
    TextBytes,  \* bytes of a payload that are told apart
    Spare       \* room the server keeps free before it reads

VARIABLES
    stream,     \* the frames, as the source sends them
    limits,     \* [frame, message, buffer]: --max-frame, --max-message and what
                \* the input buffer may grow to
    arrived,    \* bytes of the stream that have reached the server
    done,       \* frames taken
    published,  \* messages
    answers,    \* PONGs, and a CLOSE at the end
    open        \* the connection is there

vars == <<stream, limits, arrived, done, published, answers, open>>

FrameLen(f) ==
    f.size + (IF f.masked THEN 4 ELSE 0)
        + (CASE f.form = 7 -> 2 [] f.form = 16 -> 4 [] OTHER -> 10)

\* Bytes before the end of frame i.
EndOf(i) ==
    LET end[j \in 0..Len(stream)] == IF j = 0 THEN 0 ELSE end[j - 1] + FrameLen(stream[j])
    IN  end[i]

\* A payload of n bytes that begins with body, as far as bytes are told apart.
Text(body, n) ==
    [i \in 1..Min({n, TextBytes}) |-> IF i <= Len(body) THEN body[i] ELSE Filler]

-----------------------------------------------------------------------------
(* UTF-8 by code points (RFC 3629) *)

Tails(s) == \A i \in 2..Len(s) : s[i] \in 128..191
Value(lead, s) == FoldLeft(LAMBDA v, byte : 64 * v + byte - 128, lead, Tail(s))

IsSurrogate(v) == v >= 55296 /\ v <= 57343

IsChar(s) ==
    \/ Len(s) = 1 /\ s[1] <= 127
    \/ Tails(s) /\ \/ Len(s) = 2 /\ s[1] \in 192..223 /\ Value(s[1] - 192, s) >= 128
                   \/ /\ Len(s) = 3 /\ s[1] \in 224..239 /\ Value(s[1] - 224, s) >= 2048
                      /\ ~IsSurrogate(Value(s[1] - 224, s))
                   \/ /\ Len(s) = 4 /\ s[1] \in 240..247 /\ Value(s[1] - 240, s) >= 65536
                      /\ Value(s[1] - 240, s) <= 1114111

\* s is a sequence of characters ...
IsText(s) ==
    LET textFrom[i \in 1..(Len(s) + 1)] ==
            \/ i = Len(s) + 1
            \/ \E j \in i..Min({i + 3, Len(s)}) : IsChar(SubSeq(s, i, j)) /\ textFrom[j + 1]
    IN  textFrom[1]

\* ... or the beginning of one: the last character can be completed.
IsTextSoFar(s) ==
    \/ IsText(s)
    \/ \E k \in 0..Min({2, Len(s) - 1}) :
           /\ IsText(SubSeq(s, 1, Len(s) - 1 - k))
           /\ \E n \in 1..3 : \E rest \in [1..n -> {128, 144, 160}] :
                  IsChar(SubSeq(s, Len(s) - k, Len(s)) \o rest)

-----------------------------------------------------------------------------
(* Messages *)

IsData(i) == stream[i].op \in {0, 1, 2}
DataBefore(i) == {j \in 1..(i - 1) : IsData(j)}

\* A message is unfinished before frame i.
Unfinished(i) == DataBefore(i) # {} /\ ~stream[Max(DataBefore(i))].fin

\* The frame that began the message frame i belongs to.
First(i) == Max({j \in 1..i : IsData(j) /\ stream[j].op # 0})

\* What the data frames from there to frame i hold.
SoFar(i) ==
    LET held[j \in 0..i] ==
            IF j < First(i) THEN [len |-> 0, text |-> <<>>]
            ELSE IF ~IsData(j) THEN held[j - 1]
            ELSE [len  |-> held[j - 1].len + stream[j].size,
                  text |-> held[j - 1].text \o Text(stream[j].body, stream[j].size)]
    IN  held[i]

Message(i) == [op |-> stream[First(i)].op, len |-> SoFar(i).len, text |-> SoFar(i).text]
-----------------------------------------------------------------------------
(* Grounds for a refusal *)

ShortestForm(size) == IF size <= 125 THEN 7 ELSE IF size <= 65535 THEN 16 ELSE 64

Malformed(f) ==
    \/ f.rsv # 0 \/ f.op \notin {0, 1, 2, 8, 9, 10} \/ ~f.masked
    \/ f.form # ShortestForm(f.size)
    \/ f.op >= 8 /\ (~f.fin \/ f.size > 125)

\* What is wrong with a CLOSE: half a code, a code nobody may send, or a reason
\* that is no text.
CloseCode(f) == 256 * Text(f.body, f.size)[1] + Text(f.body, f.size)[2]
SendableCodes == (1000..1003) \cup (1007..1011) \cup (3000..4999)
CloseGrounds(f) ==
    IF f.size = 0 THEN {}
    ELSE IF f.size = 1 \/ CloseCode(f) \notin SendableCodes THEN {1002}
    ELSE IF IsText(SubSeq(Text(f.body, f.size), 3, Min({f.size, TextBytes}))) THEN {}
    ELSE {1007}

TextBad(i) ==
    /\ Message(i).op = 1
    /\ IF stream[i].fin THEN ~IsText(Message(i).text) ELSE ~IsTextSoFar(Message(i).text)

DataGrounds(i) ==
    IF (stream[i].op = 0) # Unfinished(i) THEN {1002}
    ELSE (IF Message(i).len > limits.message THEN {1009} ELSE {})
             \cup (IF TextBad(i) THEN {1007} ELSE {})

\* The codes with which frame i may be refused; none for a frame in order.
Grounds(i) ==
    LET f == stream[i] IN
    IF Malformed(f) THEN {1002}
    ELSE (IF f.size > limits.frame THEN {1009} ELSE {})
             \cup (IF IsData(i) THEN DataGrounds(i)
                   ELSE IF f.op = 8 THEN CloseGrounds(f) ELSE {})

-----------------------------------------------------------------------------

Pong(f) == [kind |-> "pong", code |-> 0, len |-> f.size, text |-> Text(f.body, f.size)]
Close(code) == [kind |-> "close", code |-> code, len |-> 2, text |-> <<>>]

Closing == answers # <<>> /\ Last(answers).kind = "close"
Serving == open /\ ~Closing

Init ==
    /\ arrived \in Nat /\ done = 0
    /\ published = <<>> /\ answers = <<>> /\ open = TRUE

Arrive ==
    /\ open
    /\ arrived' \in {n \in arrived..EndOf(Len(stream)) : n > arrived}
    /\ UNCHANGED <<stream, limits, done, published, answers, open>>

\* The next frame is there as a whole, and in order: it has its effect.
Accept ==
    LET i == done + 1 IN
    /\ Serving /\ i <= Len(stream) /\ arrived >= EndOf(i) /\ Grounds(i) = {}
    /\ done' = i
    /\ published' = IF IsData(i) /\ stream[i].fin THEN Append(published, Message(i))
                    ELSE published
    /\ answers' =
           CASE stream[i].op = 9 -> Append(answers, Pong(stream[i]))
             [] stream[i].op = 8 ->
                    Append(answers, Close(IF stream[i].size = 0 THEN 1000
                                          ELSE CloseCode(stream[i])))
             [] OTHER -> answers
    /\ UNCHANGED <<stream, limits, arrived, open>>

\* The next frame has begun, and there are grounds: the answer is a CLOSE with
\* one of them. Whether the frame counts as taken makes no difference.
Refuse ==
    LET i == done + 1 IN
    /\ Serving /\ i <= Len(stream) /\ arrived >= EndOf(done) + 2
    /\ \E code \in Grounds(i) : answers' = Append(answers, Close(code))
    /\ done' \in {done, i}
    /\ UNCHANGED <<stream, limits, arrived, published, open>>

\* More is unread than the input buffer may hold beside the room kept free.
Overload ==
    /\ Serving
    /\ arrived - EndOf(done) + Spare > limits.buffer
    /\ answers' = Append(answers, Close(1009))
    /\ UNCHANGED <<stream, limits, arrived, done, published, open>>

\* The connection ends.
End == open /\ open' = FALSE /\ UNCHANGED <<stream, limits, arrived, done, published, answers>>

Next == Arrive \/ Accept \/ Refuse \/ Overload \/ End

Spec == Init /\ [][Next]_vars
=============================================================================
