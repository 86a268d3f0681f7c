-------------------------------- MODULE Codec --------------------------------
(***************************************************************************)
(* ws.c: frame headers as bytes, the codes of a CLOSE and the UTF-8        *)
(* automaton. Everything here is a function of its arguments.              *)
(***************************************************************************)
EXTENDS Integers, Sequences, SequencesExt

Byte == 0..255

OpCont == 0
OpText == 1
OpBin == 2
OpClose == 8
OpPing == 9
OpPong == 10

IsControl(op) == op >= 8

-----------------------------------------------------------------------------
(* wsParseHeader(). b[0], b[1], ... are the bytes from the start of a      *)
(* frame, of which avail have been received.                               *)

Fin(b) == b[0] >= 128
Rsv(b) == (b[0] \div 16) % 8
Opcode(b) == b[0] % 16
Masked(b) == b[1] >= 128
Len7(b) == b[1] % 128

\* Bytes of an extended length.
Extended(b) == CASE Len7(b) = 126 -> 2 [] Len7(b) = 127 -> 8 [] OTHER -> 0

BigEndian(bytes) == LET Shift(n, byte) == 256 * n + byte IN FoldLeft(Shift, 0, bytes)

PayloadLen(b) ==
    IF Extended(b) = 0 THEN Len7(b)
    ELSE BigEndian([i \in 1..Extended(b) |-> b[i + 1]])

HeaderLen(b) == 2 + Extended(b) + (IF Masked(b) THEN 4 ELSE 0)

BadFirstByte(b) == Rsv(b) # 0 \/ Opcode(b) \in (3..7) \cup (11..15)
\* The top bit of a 64-bit length, or a length a shorter form could hold.
BadLength(b) ==
    \/ Extended(b) = 2 /\ PayloadLen(b) < 126
    \/ Extended(b) = 8 /\ (b[2] < 128 => PayloadLen(b) <= 65535)
BadControl(b) == IsControl(Opcode(b)) /\ ~(Fin(b) /\ Len7(b) <= 125)

\* WS_ERR_PROTO: each test is made as soon as the bytes it needs are there.
HeaderError(b, avail) ==
    \/ avail >= 2 /\ BadFirstByte(b)
    \/ avail >= 2 + Extended(b) /\ avail >= 2 /\ BadLength(b)
    \/ avail >= HeaderLen(b) /\ avail >= 2 /\ BadControl(b)

\* WS_OK
HeaderComplete(b, avail) ==
    avail >= 2 /\ avail >= HeaderLen(b) /\ ~HeaderError(b, avail)

-----------------------------------------------------------------------------
(* wsEncodeHeader(): FIN, no mask, the shortest length. *)

\* payloadLen >> (8 * places)
ShiftedRight(n, places) ==
    LET shifted[k \in Nat] == IF k = 0 THEN n ELSE shifted[k - 1] \div 256
    IN  shifted[places]
BytesOf(n, count) == [i \in 1..count |-> ShiftedRight(n, count - i) % 256]

EncodeHeader(op, n) ==
    <<128 + op>> \o
    (IF n <= 125 THEN <<n>>
     ELSE IF n <= 65535 THEN <<126>> \o BytesOf(n, 2)
     ELSE <<127>> \o BytesOf(n, 8))

\* wsIsValidCloseCode()
IsValidCloseCode(code) == code \in (1000..1003) \cup (1007..1011) \cup (3000..4999)

-----------------------------------------------------------------------------
(* wsUtf8Feed(): need continuation bytes are missing; kind restricts the   *)
(* first of them. "bad" is the return value -1.                            *)

Utf8Start == [need |-> 0, kind |-> "none"]
Utf8Bad == [need |-> 0, kind |-> "bad"]

Lead(byte) ==
    LET Expect(n, kind) == [need |-> n, kind |-> kind] IN
    CASE byte <= 127            -> Utf8Start
      [] byte \in 194..223      -> Expect(1, "gen")
      [] byte = 224             -> Expect(2, "E0")
      [] byte = 237             -> Expect(2, "ED")
      [] byte \in 225..239 \ {237} -> Expect(2, "gen")
      [] byte = 240             -> Expect(3, "F0")
      [] byte \in 241..243      -> Expect(3, "gen")
      [] byte = 244             -> Expect(3, "F4")
      [] OTHER                  -> Utf8Bad

Continuation(kind) ==
    CASE kind = "E0" -> 160..191
      [] kind = "ED" -> 128..159
      [] kind = "F0" -> 144..191
      [] kind = "F4" -> 128..143
      [] OTHER       -> 128..191

Utf8Next(st, byte) ==
    IF st.kind = "bad" THEN st
    ELSE IF st.need = 0 THEN Lead(byte)
    ELSE IF byte \in Continuation(st.kind) THEN [need |-> st.need - 1, kind |-> "gen"]
    ELSE Utf8Bad

Utf8Feed(st, bytes) == FoldLeft(Utf8Next, st, bytes)

\* wsUtf8Done()
Utf8Done(st) == st.need = 0
=============================================================================
