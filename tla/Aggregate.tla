------------------------------ MODULE Aggregate ------------------------------
(***************************************************************************)
(* What the aggregator makes of a message (aggOnMessage() and frameNew(),  *)
(* agg.c): one frame for the sink, a binary one as it is, a text inside a  *)
(* JSON object. A message is [op, len, text]: text has the bytes that are  *)
(* told apart, the other ones need no escape.                              *)
(***************************************************************************)
EXTENDS Codec

\* Digits of a source, a number, the seconds and the microseconds of a time,
\* and the characters between them.
Digits == 20 + 20 + 20 + 6
ObjectHead == 29 + Digits
ObjectTail == 2

Hex(n) == IF n < 10 THEN 48 + n ELSE 87 + n

Escape(byte) ==
    CASE byte = 34 -> <<92, 34>>
      [] byte = 92 -> <<92, 92>>
      [] byte = 10 -> <<92, 110>>
      [] byte = 13 -> <<92, 114>>
      [] byte = 9  -> <<92, 116>>
      [] byte \in (0..31) \ {9, 10, 13} -> <<92, 117, 48, 48, Hex(byte \div 16), Hex(byte % 16)>>
      [] OTHER     -> <<byte>>

\* jsonEscapeInto(): it stops at the first byte there is no room for.
EscapeInto(cap, text) ==
    LET Put(st, byte) ==
            IF st.full \/ Len(st.out) + Len(Escape(byte)) > cap THEN [st EXCEPT !.full = TRUE]
            ELSE [st EXCEPT !.out = @ \o Escape(byte)]
    IN  FoldLeft(Put, [out |-> <<>>, full |-> FALSE], text).out

\* Mutant: an escape is taken to double a byte at most.
Capacity_Twice(len) == 2 * len + 64

\* What is allocated for the object.
Capacity(len) == 6 * len + 128

\* The data of the object, and the size of the whole.
Data(m) == EscapeInto(Capacity(m.len) - ObjectHead - 3 - (m.len - Len(m.text)), m.text)
ObjectLen(m) == ObjectHead + Len(Data(m)) + (m.len - Len(m.text)) + ObjectTail

AggOnMessage(m) ==
    IF m.op = OpBin THEN [head |-> EncodeHeader(OpBin, m.len), len |-> m.len, data |-> m.text]
    ELSE [head |-> EncodeHeader(OpText, ObjectLen(m)), len |-> ObjectLen(m), data |-> Data(m)]

-----------------------------------------------------------------------------
(* What a receiver reads *)

\* A JSON string (RFC 8259, section 7): the bytes it stands for, or "none".
Unescaped(s) ==
    CASE s = <<92, 34>> -> 34 [] s = <<92, 92>> -> 92
      [] s = <<92, 110>> -> 10 [] s = <<92, 114>> -> 13 [] s = <<92, 116>> -> 9
      [] OTHER -> CHOOSE b \in Byte :
             \/ s = <<b>> /\ b \notin (0..31) \cup {34, 92}
             \/ /\ Len(s) = 6 /\ SubSeq(s, 1, 4) = <<92, 117, 48, 48>>
                /\ \E hi, lo \in 0..15 : s[5] = Hex(hi) /\ s[6] = Hex(lo) /\ b = 16 * hi + lo

\* The tokens of a string begin where no escape goes on.
JsonText(s) ==
    LET size(i) == IF s[i] # 92 THEN 1 ELSE IF s[i + 1] = 117 THEN 6 ELSE 2
        from[i \in 1..(Len(s) + 6)] ==
            IF i > Len(s) THEN <<>>
            ELSE <<Unescaped(SubSeq(s, i, i + size(i) - 1))>> \o from[i + size(i)]
    IN  from[1]

\* A header is read back as it was meant: final, without a mask, with this
\* opcode and length, and no longer than it is.
ReadsAs(head, op, len) ==
    LET b == [i \in 0..13 |-> IF i < Len(head) THEN head[i + 1] ELSE 0] IN
    /\ HeaderComplete(b, Len(head)) /\ HeaderLen(b) = Len(head)
    /\ Fin(b) /\ ~Masked(b) /\ Opcode(b) = op /\ PayloadLen(b) = len
=============================================================================
