------------------------------- MODULE Buffer -------------------------------
(***************************************************************************)
(* Buf_t (conn.c): a growing buffer with the part that was consumed kept   *)
(* in front until the next compaction. A buffer is a record of its three   *)
(* sizes; what it holds is told by who fills and empties it.               *)
(***************************************************************************)
EXTENDS Naturals

\* cap bytes are allocated, len are filled, the first off of them consumed.
BufferType == [cap : Nat, len : Nat, off : Nat]

\* bufLen(): what is filled and not consumed.
Unread(b) == b.len - b.off

\* bufCompact(): the unread part moves to the front.
Compact(b) == [b EXCEPT !.len = Unread(b), !.off = 0]

\* Capacity doubles from 256 until it is enough.
Doubled(cap, need) ==
    LET enough[c \in Nat \ {0}] == IF c < need THEN enough[2 * c] ELSE c
    IN  enough[cap]

Fits(b, extra) == b.cap - b.len >= extra

\* The limit is asked about only when the buffer has to grow; 0 is no limit.
CanReserve(b, extra, hardCap) ==
    \/ Fits(Compact(b), extra)
    \/ hardCap = 0
    \/ Unread(b) + extra <= hardCap

Grown(b, extra, hardCap) ==
    LET newCap == Doubled(IF b.cap = 0 THEN 256 ELSE b.cap, b.len + extra)
    IN  [b EXCEPT !.cap = IF hardCap # 0 /\ newCap > hardCap THEN hardCap ELSE newCap]

\* bufReserve(), which may fail: then the buffer is compacted all the same.
Reserve(b, extra, hardCap) ==
    IF Fits(b, extra) THEN b
    ELSE IF Fits(Compact(b), extra) \/ ~CanReserve(b, extra, hardCap) THEN Compact(b)
    ELSE Grown(Compact(b), extra, hardCap)

\* bufConsume(): an empty buffer starts again at the front.
Consume(b, n) ==
    IF b.off + n >= b.len THEN [b EXCEPT !.len = 0, !.off = 0]
    ELSE [b EXCEPT !.off = @ + n]

\* recv() adds n bytes to a buffer with room for them.
Fill(b, n) == [b EXCEPT !.len = @ + n]
=============================================================================
