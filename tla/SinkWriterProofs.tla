-------------------------- MODULE SinkWriterProofs --------------------------
(***************************************************************************)
(* Theorems about SinkWriter for any lengths of frames, any room in the    *)
(* socket, any number of messages, sinks and frames of a sink: the frames  *)
(* of each slot are whole and in order on the wire, and EPOLLOUT is asked  *)
(* for exactly when a slot is full.                                        *)
(***************************************************************************)
EXTENDS SinkWriter, FiniteSetTheorems, SequenceTheorems, TLAPS

Kinds == {"data", "pong", "close"}
AllUnits == Kinds \X Nat \X Nat

-----------------------------------------------------------------------------
(* Units on the wire *)

\* The smaller of two numbers.
LEMMA LeastBounds ==
    ASSUME NEW a \in Nat, NEW b \in Nat
    PROVE  /\ Least(a, b) \in Nat /\ Least(a, b) <= a /\ Least(a, b) <= b
           /\ a > 0 /\ b > 0 => Least(a, b) > 0
  BY DEF Least

\* v is W and some units of a frame behind it.
Extends(v, W, kind, frame, from, to) == v = W \o Units(kind, frame, from, to)
Writes(kind, frame, from, to) == Extends(wire', wire, kind, frame, from, to)

\* What is written goes behind what was there, unit by unit.
LEMMA Appended ==
    ASSUME NEW W \in Seq(AllUnits), NEW kind \in Kinds, NEW frame \in Nat,
           NEW from \in Nat, NEW to \in Nat, from <= to,
           NEW v, Extends(v, W, kind, frame, from, to)
    PROVE  /\ v \in Seq(AllUnits)
           /\ Len(W) \in Nat /\ Len(v) \in Nat /\ Len(v) = Len(W) + (to - from)
           /\ \A i \in 1..Len(W) : v[i] = W[i]
           /\ \A i \in (Len(W) + 1)..Len(v) :
                  v[i][1] = kind /\ v[i][2] = frame /\ v[i][3] = from + (i - Len(W))
<1> DEFINE u == Units(kind, frame, from, to)
<1>1. to - from \in Nat
  OBVIOUS
<1>2. \A i \in 1..(to - from) : <<kind, frame, from + i>> \in AllUnits
  BY DEF AllUnits
<1>3. u \in Seq(AllUnits) /\ Len(u) = to - from
      /\ \A i \in 1..(to - from) : u[i] = <<kind, frame, from + i>>
  <2>1. u = [i \in 1..(to - from) |-> <<kind, frame, from + i>>]
    BY DEF Units
  <2> HIDE DEF u
  <2>2. PICK m \in Nat : m = to - from
    BY <1>1
  <2>3. u \in [1..m -> AllUnits] /\ \A i \in 1..m : u[i] = <<kind, frame, from + i>>
    BY <1>2, <2>1, <2>2, Zenon
  <2>4. u \in Seq(AllUnits) /\ Len(u) = m
    BY <2>3
  <2> QED
    BY <2>2, <2>3, <2>4, Zenon
<1>a. v = W \o u
  BY DEF Extends
<1> HIDE DEF u
<1>4. v \in Seq(AllUnits) /\ Len(v) = Len(W) + Len(u)
  BY <1>3, <1>a, ConcatProperties
<1>b. \A i \in 1..(Len(W) + Len(u)) : v[i] = IF i <= Len(W) THEN W[i] ELSE u[i - Len(W)]
  BY <1>3, <1>a, ConcatProperties
<1>5. Len(W) \in Nat
  OBVIOUS
<1>6. ASSUME NEW n \in Nat, NEW m \in Nat
      PROVE  /\ n + m \in Nat
             /\ \A i \in 1..n : i \in 1..(n + m) /\ i <= n
             /\ \A i \in (n + 1)..(n + m) : i \in 1..(n + m) /\ ~(i <= n) /\ i - n \in 1..m
  OBVIOUS
<1>7. \A i \in 1..Len(W) : v[i] = W[i]
  BY <1>1, <1>3, <1>4, <1>b, <1>5, <1>6
<1>8. ASSUME NEW i \in (Len(W) + 1)..Len(v)
      PROVE  v[i] = <<kind, frame, from + (i - Len(W))>>
  <2>1. i \in 1..(Len(W) + Len(u)) /\ ~(i <= Len(W)) /\ i - Len(W) \in 1..(to - from)
    BY <1>1, <1>3, <1>4, <1>5
  <2>2. v[i] = u[i - Len(W)]
    BY <1>b, <2>1
  <2> QED
    BY <1>3, <2>1, <2>2, Zenon
<1>9. \A i \in (Len(W) + 1)..Len(v) :
          v[i][1] = kind /\ v[i][2] = frame /\ v[i][3] = from + (i - Len(W))
  BY <1>8
<1> QED
  BY <1>1, <1>3, <1>4, <1>5, <1>6, <1>7, <1>9

\* A sequence of units: its places are numbers.
LEMMA UnitPlaces ==
    ASSUME NEW W \in Seq(AllUnits)
    PROVE  /\ Len(W) \in Nat /\ DOMAIN W = 1..Len(W)
           /\ \A i \in DOMAIN W : W[i][1] \in Kinds /\ W[i][2] \in Nat /\ W[i][3] \in Nat
<1>1. Len(W) \in Nat /\ DOMAIN W = 1..Len(W) /\ \A i \in DOMAIN W : W[i] \in AllUnits
  OBVIOUS
<1>2. \A u \in AllUnits : u[1] \in Kinds /\ u[2] \in Nat /\ u[3] \in Nat
  BY DEF AllUnits
<1> QED
  BY <1>1, <1>2

\* The wire is one.
LEMMA OnWire ==
    ASSUME TypeOK
    PROVE  /\ wire \in Seq(AllUnits) /\ Len(wire) \in Nat /\ DOMAIN wire = 1..Len(wire)
           /\ \A kind : Of(kind) \subseteq 1..Len(wire)
<1>1. wire \in Seq(AllUnits)
  BY DEF TypeOK, AllUnits, Kinds
<1>2. Len(wire) \in Nat /\ DOMAIN wire = 1..Len(wire)
  BY <1>1
<1> QED
  BY <1>1, <1>2 DEF Of

\* What holds of the wire after somebody has written.
LEMMA Written ==
    ASSUME TypeOK, NEW kind \in Kinds, NEW frame \in Nat,
           NEW from \in Nat, NEW to \in Nat, from <= to,
           Writes(kind, frame, from, to)
    PROVE  /\ wire' \in Seq(AllUnits) /\ Len(wire) \in Nat /\ Len(wire') \in Nat
           /\ Len(wire') = Len(wire) + (to - from)
           /\ DOMAIN wire = 1..Len(wire) /\ DOMAIN wire' = 1..Len(wire')
           /\ \A i \in 1..Len(wire) : wire'[i] = wire[i]
           /\ \A i \in (Len(wire) + 1)..Len(wire') :
                  wire'[i][1] = kind /\ wire'[i][2] = frame /\ wire'[i][3] = from + (i - Len(wire))
<1>1. wire \in Seq(AllUnits)
  BY OnWire
<1>2. PICK v : v = wire'
  OBVIOUS
<1>3. /\ v \in Seq(AllUnits) /\ Len(v) \in Nat /\ Len(v) = Len(wire) + (to - from)
      /\ \A i \in 1..Len(wire) : v[i] = wire[i]
      /\ \A i \in (Len(wire) + 1)..Len(v) :
             v[i][1] = kind /\ v[i][2] = frame /\ v[i][3] = from + (i - Len(wire))
  <2>1. Extends(v, wire, kind, frame, from, to)
    BY <1>2 DEF Writes
  <2> QED
    BY <1>1, <2>1, Appended
<1>4. DOMAIN v = 1..Len(v)
  BY <1>3, UnitPlaces
<1> QED
  BY <1>2, <1>3, <1>4, OnWire, Zenon

\* Whoever writes a frame of one kind leaves the others where they are.
LEMMA OtherKinds ==
    ASSUME TypeOK, NEW kind \in Kinds, NEW frame \in Nat,
           NEW from \in Nat, NEW to \in Nat, from <= to,
           Writes(kind, frame, from, to),
           NEW other, other # kind
    PROVE  /\ Of(other)' = Of(other)
           /\ \A i \in Of(other) : wire'[i] = wire[i]
<1>1. /\ Len(wire) \in Nat /\ Len(wire') \in Nat /\ Len(wire') = Len(wire) + (to - from)
      /\ \A i \in 1..Len(wire) : wire'[i] = wire[i]
      /\ \A i \in (Len(wire) + 1)..Len(wire') : wire'[i][1] = kind
  BY Written
<1>2. DOMAIN wire = 1..Len(wire) /\ DOMAIN wire' = 1..Len(wire')
  BY Written
<1>3. \A i \in DOMAIN wire : i \in DOMAIN wire' /\ wire'[i] = wire[i]
  BY <1>1, <1>2
<1>4. \A i \in DOMAIN wire' : i \in DOMAIN wire \/ wire'[i][1] = kind
  BY <1>1, <1>2
<1> QED
  BY <1>3, <1>4 DEF Of

\* Its own kind gains the units written, behind all that were there.
LEMMA OwnKind ==
    ASSUME TypeOK, NEW kind \in Kinds, NEW frame \in Nat,
           NEW from \in Nat, NEW to \in Nat, from <= to,
           Writes(kind, frame, from, to)
    PROVE  /\ Of(kind)' = Of(kind) \cup ((Len(wire) + 1)..Len(wire'))
           /\ Len(wire') = Len(wire) + (to - from)
           /\ \A i \in Of(kind) : wire'[i] = wire[i] /\ i <= Len(wire)
           /\ \A i \in (Len(wire) + 1)..Len(wire') :
                  wire'[i][2] = frame /\ wire'[i][3] = from + (i - Len(wire))
<1>1. /\ Len(wire) \in Nat /\ Len(wire') \in Nat /\ Len(wire') = Len(wire) + (to - from)
      /\ \A i \in 1..Len(wire) : wire'[i] = wire[i]
      /\ \A i \in (Len(wire) + 1)..Len(wire') :
             wire'[i][1] = kind /\ wire'[i][2] = frame /\ wire'[i][3] = from + (i - Len(wire))
  BY Written
<1>2. DOMAIN wire = 1..Len(wire) /\ DOMAIN wire' = 1..Len(wire')
  BY Written
<1>3. \A i \in DOMAIN wire : i \in DOMAIN wire' /\ wire'[i] = wire[i] /\ i <= Len(wire)
  BY <1>1, <1>2
<1>4. \A i \in DOMAIN wire' : i \in DOMAIN wire \/ i \in (Len(wire) + 1)..Len(wire')
  BY <1>1, <1>2
<1>5. (Len(wire) + 1)..Len(wire') \subseteq DOMAIN wire'
  BY <1>1, <1>2
<1> QED
  BY <1>1, <1>3, <1>4, <1>5 DEF Of

\* Frames of another kind stay as they are.
LEMMA ChainKept ==
    ASSUME NEW other, NEW len, Of(other)' = Of(other),
           \A i \in Of(other) : wire'[i] = wire[i],
           whole' = whole, Chained(other, len)
    PROVE  Chained(other, len)'
  BY DEF Chained, First, Successive, Follows, Cuttable

\* Units that begin with the first of a newer frame, or go on where the last one
\* stopped, make the chain longer.
LEMMA ChainGrows ==
    ASSUME TypeOK, NEW kind \in Kinds, NEW frame \in Nat,
           NEW from \in Nat, NEW to \in Nat, from <= to, NEW len,
           Writes(kind, frame, from, to),
           whole' = whole, Chained(kind, len),
           from = 0 \/ \E i \in Of(kind) : Last(kind, i),
           \A i \in Of(kind) : Last(kind, i) => Follows(wire[i], <<kind, frame, from + 1>>, len)
    PROVE  Chained(kind, len)'
<1> DEFINE n == Len(wire)
           New == (n + 1)..Len(wire')
<1>1. n \in Nat /\ Len(wire') \in Nat /\ Of(kind) \subseteq 1..n
  BY OnWire, Written, Zenon
<1>2. /\ Of(kind)' = Of(kind) \cup New
      /\ \A i \in Of(kind) : wire'[i] = wire[i] /\ i <= n
      /\ \A i \in New : wire'[i][2] = frame /\ wire'[i][3] = from + (i - n)
  <2>1. Of(kind)' = Of(kind) \cup New
    BY OwnKind
  <2>2. \A i \in Of(kind) : wire'[i] = wire[i] /\ i <= n
    BY OwnKind
  <2>3. \A i \in New : wire'[i][2] = frame /\ wire'[i][3] = from + (i - n)
    BY OwnKind
  <2> QED
    BY <2>1, <2>2, <2>3, Zenon
<1>3. \A i \in New : wire'[i][1] = kind
  BY <1>2 DEF Of
<1> HIDE DEF n
<1>4. ASSUME NEW i \in Of(kind)', First(kind, i)'
      PROVE  wire'[i][3] = 1
  <2>1. CASE i \in Of(kind)
    <3>1. First(kind, i)
      BY <1>2, <1>4, <2>1 DEF First
    <3> QED
      BY <1>2, <2>1, <3>1 DEF Chained
  <2>2. CASE i \in New
    <3>1. Of(kind) = {}
      BY <1>1, <1>2, <1>4, <2>2 DEF First
    <3>2. from = 0
      BY <3>1
    <3>3. i = n + 1
      BY <1>1, <1>2, <1>4, <2>2 DEF First
    <3> QED
      BY <1>1, <1>2, <2>2, <3>2, <3>3
  <2> QED
    BY <1>2, <2>1, <2>2
<1>5. ASSUME NEW i \in Of(kind)', NEW j \in Of(kind)', Successive(kind, i, j)'
      PROVE  Follows(wire[i], wire[j], len)'
  <2>1. CASE j \in Of(kind)
    <3>1. i \in Of(kind)
      BY <1>1, <1>2, <1>5, <2>1 DEF Successive
    <3>2. Successive(kind, i, j)
      BY <1>2, <1>5, <2>1, <3>1 DEF Successive
    <3> QED
      BY <1>2, <2>1, <3>1, <3>2 DEF Chained, Follows, Cuttable
  <2>2. CASE i \in Of(kind) /\ j \in New
    <3>1. j = n + 1
      <4>1. n + 1 \in New /\ n + 1 \in Of(kind)' /\ n + 1 <= j /\ i < n + 1
        BY <1>1, <1>2, <2>2
      <4>2. n + 1 <= i \/ j <= n + 1
        BY <1>5, <4>1 DEF Successive
      <4> QED
        BY <1>1, <1>2, <2>2, <4>1, <4>2
    <3>2. Last(kind, i)
      BY <1>1, <1>2, <1>5, <2>2 DEF Successive, Last
    <3>3. Follows(wire[i], <<kind, frame, from + 1>>, len)
      BY <2>2, <3>2
    <3>4. wire'[j][2] = frame /\ wire'[j][3] = from + 1 /\ wire'[i] = wire[i]
      BY <1>1, <1>2, <2>2, <3>1
    <3> QED
      BY <3>3, <3>4 DEF Follows, Cuttable
  <2>3. CASE i \in New /\ j \in New
    <3>1. j = i + 1
      <4>1. i < j
        BY <1>5 DEF Successive
      <4>2. i + 1 \in New
        BY <1>1, <2>3, <4>1
      <4>3. i + 1 <= i \/ j <= i + 1
        BY <1>2, <1>5, <4>2 DEF Successive
      <4> QED
        BY <1>1, <2>3, <4>1, <4>3
    <3>2. wire'[i][2] = frame /\ wire'[i][3] = from + (i - n)
          /\ wire'[j][2] = frame /\ wire'[j][3] = from + (j - n)
      BY <1>2, <2>3
    <3>3. from + (j - n) = (from + (i - n)) + 1
      BY <1>1, <2>3, <3>1
    <3> QED
      BY <3>2, <3>3 DEF Follows
  <2> QED
    BY <1>1, <1>2, <2>1, <2>2, <2>3
<1> QED
  BY <1>4, <1>5 DEF Chained

\* The last of the units written is the last of its kind.
LEMMA LastWritten ==
    ASSUME TypeOK, NEW kind \in Kinds, NEW frame \in Nat,
           NEW from \in Nat, NEW to \in Nat, from < to,
           Writes(kind, frame, from, to)
    PROVE  /\ \E i \in Of(kind)' : Last(kind, i)'
           /\ \A i \in Of(kind)' : Last(kind, i)' => wire'[i][2] = frame /\ wire'[i][3] = to
<1> DEFINE n == Len(wire)
           e == Len(wire')
<1> from <= to
  OBVIOUS
<1>1. n \in Nat /\ e \in Nat /\ Of(kind) \subseteq 1..n
  BY OnWire, Written, Zenon
<1>2. /\ Of(kind)' = Of(kind) \cup ((n + 1)..e) /\ e = n + (to - from)
      /\ \A i \in (n + 1)..e : wire'[i][2] = frame /\ wire'[i][3] = from + (i - n)
  <2>1. from <= to
    OBVIOUS
  <2> QED
    BY <2>1, OwnKind
<1> HIDE DEF n, e
<1>3. e \in (n + 1)..e /\ from + (e - n) = to
  BY <1>1, <1>2
<1>4. \A i \in Of(kind)' : i \in Nat /\ i <= e
  BY <1>1, <1>2
<1>5. wire'[e][2] = frame /\ wire'[e][3] = to /\ e \in Of(kind)'
  BY <1>2, <1>3
<1>6. \A i \in Of(kind)' : Last(kind, i)' <=> i = e
  BY <1>1, <1>4, <1>5 DEF Last
<1> QED
  BY <1>5, <1>6

-----------------------------------------------------------------------------
(* Types *)

\* The PINGs handled are a number of frames.
LEMMA PingsCounted == TypeOK => HandledPings \in Nat
<1> SUFFICES ASSUME TypeOK PROVE HandledPings \in Nat
  OBVIOUS
<1> DEFINE P == {i \in DOMAIN inbox :
                   inbox[i] = "ping" /\ \A j \in 1..i : inbox[j] \notin {"close", "long"}}
<1>1. DOMAIN inbox = 1..Len(inbox) /\ Len(inbox) \in Nat
  BY DEF TypeOK
<1>2. IsFiniteSet(1..Len(inbox))
  BY <1>1, FS_Interval
<1>3. P \subseteq 1..Len(inbox)
  BY <1>1
<1> HIDE DEF P
<1>4. IsFiniteSet(P)
  BY <1>2, <1>3, FS_Subset
<1>5. Cardinality(P) \in Nat
  BY <1>4, FS_CardinalityType
<1> QED
  BY <1>5 DEF HandledPings, P

\* A CLOSE frame is written as far as there is room for it.
LEMMA CloseWritten ==
    ASSUME TypeOK, SendClose
    PROVE  wire' = wire \/ \E n \in Nat : Writes("close", 0, 0, n)
<1>1. CASE peer = "reset"
  BY <1>1 DEF SendClose
<1>2. CASE peer # "reset"
  <2>1. Least(room, CtrlLen) \in Nat
    <3>1. room \in Nat /\ CtrlLen \in Nat
      BY LenAssumption, RoomAssumption DEF TypeOK
    <3> QED
      BY <3>1, LeastBounds
  <2>2. Writes("close", 0, 0, Least(room, CtrlLen))
    BY <1>2 DEF SendClose, Writes, Extends
  <2> QED
    BY <2>1, <2>2
<1> QED
  BY <1>1, <1>2

\* The wire stays a sequence of units.
LEMMA WireTyped ==
    ASSUME TypeOK, NEW kind \in Kinds, NEW frame \in Nat, NEW from \in Nat, NEW to \in Nat,
           from <= to, Writes(kind, frame, from, to)
    PROVE  wire' \in Seq({"data", "pong", "close"} \X Nat \X Nat)
<1>1. wire' \in Seq(AllUnits)
  BY Written
<1> QED
  BY <1>1 DEF AllUnits, Kinds

LEMMA CloseTyped ==
    ASSUME TypeOK, SendClose
    PROVE  wire' \in Seq({"data", "pong", "close"} \X Nat \X Nat)
<1>1. CASE wire' = wire
  BY <1>1 DEF TypeOK
<1>2. CASE \E n \in Nat : Writes("close", 0, 0, n)
  <2>1. PICK n \in Nat : Writes("close", 0, 0, n)
    BY <1>2
  <2>2. "close" \in Kinds /\ 0 \in Nat /\ 0 <= n
    BY DEF Kinds
  <2> QED
    BY <2>1, <2>2, WireTyped
<1> QED
  BY <1>1, <1>2, CloseWritten

\* Where a send() on a slot ends.
LEMMA SlotWritten ==
    ASSUME TypeOK, NEW len \in Nat \ {0}, NEW off \in 0..len, NEW to,
           to = off + Least(room, len - off)
    PROVE  /\ to \in Nat /\ off <= to /\ to <= len
           /\ room > 0 /\ off < len => off < to
           /\ room - (to - off) \in 0..Room
<1>1. room \in Nat /\ room <= Room /\ len - off \in Nat /\ off \in Nat
  BY RoomAssumption DEF TypeOK
<1>2. PICK n \in Nat : n = Least(room, len - off)
  BY <1>1, LeastBounds
<1>3. n <= room /\ n <= len - off /\ (room > 0 /\ len - off > 0 => n > 0)
  BY <1>1, <1>2, LeastBounds
<1>4. to = off + n
  BY <1>2
<1>5. to - off = n /\ to <= len /\ off <= to
  BY <1>1, <1>2, <1>3, <1>4
<1>6. room - n \in 0..Room
  BY <1>1, <1>2, <1>3, RoomAssumption
<1> QED
  BY <1>1, <1>2, <1>3, <1>4, <1>5, <1>6

\* Every step keeps the types.
LEMMA StepTyped == TypeOK /\ [Next]_vars => TypeOK'
<1> SUFFICES ASSUME TypeOK, [Next]_vars PROVE TypeOK'
  OBVIOUS
<1> USE DEF TypeOK, slots, socket, counts, history
<1>1. CASE SinkJoin
  BY <1>1, BoundAssumption DEF SinkJoin
<1>2. CASE SourcePush
  BY <1>2, BoundAssumption DEF SourcePush
<1>3. CASE Stop
  BY <1>3 DEF Stop
<1>4. CASE SinkReads
  BY <1>4, RoomAssumption DEF SinkReads
<1>5. CASE SinkSends
  BY <1>5, BoundAssumption DEF SinkSends
<1>6. CASE SinkCloses
  BY <1>6 DEF SinkCloses
<1>7. CASE ReplaceSink
  <2>1. wire' \in Seq({"data", "pong", "close"} \X Nat \X Nat)
    BY <1>7, CloseTyped DEF ReplaceSink
  <2> QED
    BY <1>7, <2>1, BoundAssumption, LenAssumption DEF ReplaceSink, CloseSink, ClearSlots
<1>8. CASE AdoptSink
  BY <1>8, BoundAssumption, RoomAssumption DEF AdoptSink
<1>9. CASE CtrlEmpty
  BY <1>9 DEF CtrlEmpty
<1>10. CASE SendCtrl
  <2>1. PICK to : to = pendingCtrlOff + Least(room, CtrlLen - pendingCtrlOff)
    OBVIOUS
  <2>2. to \in Nat /\ pendingCtrlOff <= to /\ to <= CtrlLen
        /\ room - (to - pendingCtrlOff) \in 0..Room
    BY <2>1, SlotWritten, LenAssumption
  <2>3. Writes("pong", pendingCtrl, pendingCtrlOff, to)
    BY <1>10, <2>1 DEF SendCtrl, Writes, Extends
  <2>4. "pong" \in Kinds /\ pendingCtrlOff \in Nat /\ pendingCtrl \in Nat
    BY LenAssumption DEF Kinds
  <2>5. wire' \in Seq({"data", "pong", "close"} \X Nat \X Nat)
    BY <2>2, <2>3, <2>4, WireTyped
  <2>6. /\ room' = room - (to - pendingCtrlOff)
        /\ \/ pendingCtrl' = 0 /\ pendingCtrlOff' = 0
           \/ pendingCtrl' = pendingCtrl /\ pendingCtrlOff' = to
        /\ UNCHANGED <<inbox, peer, received, sink, pending, pendingOff, interest, pc, counts,
                       complete>>
    BY <1>10, <2>1 DEF SendCtrl
  <2>7. pendingCtrl' \in Nat /\ pendingCtrlOff' \in 0..CtrlLen /\ room' \in 0..Room
    BY <2>2, <2>4, <2>6, LenAssumption
  <2> QED
    BY <2>5, <2>6, <2>7
<1>11. CASE CtrlWritten
  BY <1>11 DEF CtrlWritten
<1>12. CASE SendData
  <2>1. PICK to : to = pendingOff + Least(room, DataLen - pendingOff)
    OBVIOUS
  <2>2. to \in Nat /\ pendingOff <= to /\ to <= DataLen
        /\ room - (to - pendingOff) \in 0..Room
    BY <2>1, SlotWritten, LenAssumption
  <2>3. Writes("data", pending, pendingOff, to)
    BY <1>12, <2>1 DEF SendData, Writes, Extends
  <2>4. "data" \in Kinds /\ pendingOff \in Nat /\ pending \in Nat
    BY LenAssumption, BoundAssumption DEF Kinds
  <2>5. wire' \in Seq({"data", "pong", "close"} \X Nat \X Nat)
    BY <2>2, <2>3, <2>4, WireTyped
  <2>6. /\ room' = room - (to - pendingOff)
        /\ \/ pending' = 0 /\ pendingOff' = 0
           \/ pending' = pending /\ pendingOff' = to
        /\ pending # 0 /\ complete' \in {complete, complete \cup {pending}}
        /\ UNCHANGED <<inbox, peer, received, sink, pendingCtrl, pendingCtrlOff, interest, pc,
                       counts>>
    BY <1>12, <2>1 DEF SendData
  <2>7. pending' \in 0..MaxMsgs /\ pendingOff' \in 0..DataLen /\ room' \in 0..Room
    BY <2>2, <2>4, <2>6, LenAssumption, BoundAssumption
  <2>8. complete' \subseteq 1..MaxMsgs
    BY <2>6, BoundAssumption
  <2> QED
    BY <2>5, <2>6, <2>7, <2>8
<1>13. CASE SendBlocked
  BY <1>13 DEF SendBlocked, Arm, SlotEvents
<1>14. CASE SendFailed
  BY <1>14, BoundAssumption, LenAssumption DEF SendFailed, CloseSink, ClearSlots
<1>15. CASE AllWritten
  BY <1>15 DEF AllWritten
<1>16. CASE Take
  BY <1>16, BoundAssumption, LenAssumption DEF Take
<1>17. CASE TakeNone
  BY <1>17 DEF TakeNone, Arm, SlotEvents
<1>18. CASE CheckDone \/ CheckDrain \/ CheckNot
  BY <1>18 DEF CheckDone, CheckDrain, CheckNot
<1>19. CASE DrainCtrlEmpty \/ DrainDone
  BY <1>19 DEF DrainCtrlEmpty, DrainDone
<1>20. CASE DrainMessage
  <2>1. PICK n : n = IF sink = 0 \/ peer = "reset" THEN 0 ELSE Least(room, DataLen)
    OBVIOUS
  <2>2. n \in Nat /\ room - n \in 0..Room
    <3>1. room \in Nat /\ room <= Room /\ DataLen \in Nat
      BY LenAssumption, RoomAssumption
    <3>2. n \in Nat /\ n <= room
      BY <2>1, <3>1, LeastBounds
    <3> QED
      BY <3>1, <3>2, RoomAssumption
  <2>3. Writes("data", taken + 1, 0, n)
    BY <1>20, <2>1 DEF DrainMessage, Writes, Extends
  <2>4. "data" \in Kinds /\ 0 \in Nat /\ taken + 1 \in Nat /\ 0 <= n
    BY <2>2, BoundAssumption DEF Kinds
  <2>5. wire' \in Seq({"data", "pong", "close"} \X Nat \X Nat)
    BY <2>2, <2>3, <2>4, WireTyped
  <2>6. /\ room' = room - n
        /\ taken < made /\ taken' = taken + 1
        /\ complete' \in {complete, complete \cup {taken + 1}}
        /\ UNCHANGED <<inbox, peer, received, sink, slots, interest, pc, joined, adopted, made,
                       down, pings, whole>>
    BY <1>20, <2>1 DEF DrainMessage
  <2>7. taken' \in 0..made' /\ whole' \in 0..taken'
    BY <2>6, BoundAssumption
  <2>8. complete' \subseteq 1..MaxMsgs
    BY <2>6, BoundAssumption
  <2> QED
    BY <2>2, <2>5, <2>6, <2>7, <2>8
<1>21. CASE End
  <2>1. CASE sink # 0
    BY <1>21, <2>1, CloseTyped, BoundAssumption, LenAssumption DEF End, CloseSink, ClearSlots
  <2>2. CASE sink = 0
    BY <1>21, <2>2 DEF End
  <2> QED
    BY <2>1, <2>2
<1>22. CASE SinkHungUp
  BY <1>22, BoundAssumption, LenAssumption DEF SinkHungUp, CloseSink, ClearSlots
<1>23. CASE SinkInput
  <2>1. pings + HandledPings \in Nat
    BY PingsCounted
  <2>2. wire' \in Seq({"data", "pong", "close"} \X Nat \X Nat)
    BY <1>23, CloseTyped DEF SinkInput
  <2>3. /\ sink' \in 0..MaxSinks /\ interest' \subseteq {"in", "out"}
        /\ pending' \in 0..MaxMsgs /\ pendingOff' \in 0..DataLen
        /\ pendingCtrl' \in Nat /\ pendingCtrlOff' \in 0..CtrlLen
    <3>1. CASE Ending \/ Overlong \/ peer = "fin"
      BY <1>23, <3>1, BoundAssumption, LenAssumption DEF SinkInput, CloseSink, ClearSlots
    <3>2. CASE ~(Ending \/ Overlong \/ peer = "fin")
      <4>1. PongSlot(HandledPings) /\ UNCHANGED <<sink, interest, pending, pendingOff>>
        BY <1>23, <3>2 DEF SinkInput
      <4>2. pendingCtrl' \in Nat /\ pendingCtrlOff' \in 0..CtrlLen
        <5>1. pendingCtrl' \in {pings + 1, pendingCtrl} /\ pendingCtrlOff' \in {0, pendingCtrlOff}
          BY <4>1 DEF PongSlot
        <5>2. pings + 1 \in Nat /\ 0 \in 0..CtrlLen
          BY LenAssumption
        <5> QED
          BY <5>1, <5>2
      <4> QED
        BY <4>1, <4>2
    <3> QED
      BY <3>1, <3>2
  <2>4. /\ inbox' = <<>> /\ pings' = pings + HandledPings /\ pc' = "ctrl"
        /\ UNCHANGED <<room, peer, received, joined, adopted, made, taken, down, whole,
                       complete>>
    BY <1>23 DEF SinkInput
  <2>5. inbox' \in Seq(SinkKinds) /\ pings' \in Nat
    BY <2>1, <2>4
  <2> HIDE DEF slots, socket, counts, history
  <2> QED
    BY <2>2, <2>3, <2>4, <2>5
<1>24. CASE SinkWritable \/ OtherEvent
  BY <1>24 DEF SinkWritable, OtherEvent
<1>25. CASE UNCHANGED vars
  BY <1>25 DEF vars
<1> QED
  BY <1>1, <1>2, <1>3, <1>4, <1>5, <1>6, <1>7, <1>8, <1>9, <1>10, <1>11, <1>12, <1>13, <1>14,
     <1>15, <1>16, <1>17, <1>18, <1>19, <1>20, <1>21, <1>22, <1>23, <1>24, <1>25
     DEF Next, SinkStep, AggStep

-----------------------------------------------------------------------------
(* The slots and the thread *)

\* A send() frees the frame with its last unit; what else it leaves is an offset
\* inside the frame.
LEMMA SlotKept ==
    ASSUME TypeOK, SlotInv, SendCtrl \/ SendData
    PROVE  /\ IF pending' = 0 THEN pendingOff' = 0
              ELSE pending' = taken /\ pending' = whole /\ pendingOff' < DataLen
           /\ IF pendingCtrl' = 0 THEN pendingCtrlOff' = 0
              ELSE pendingCtrl' <= pings /\ pendingCtrlOff' < CtrlLen
           /\ pending' \in {0, pending} /\ pendingCtrl' \in {0, pendingCtrl}
<1>1. CASE SendCtrl
  <2>1. PICK to : to = pendingCtrlOff + Least(room, CtrlLen - pendingCtrlOff)
    OBVIOUS
  <2>2. to \in Nat /\ to <= CtrlLen
    BY <2>1, SlotWritten, LenAssumption DEF TypeOK
  <2>3. /\ \/ pendingCtrl' = 0 /\ pendingCtrlOff' = 0
           \/ to # CtrlLen /\ pendingCtrl' = pendingCtrl /\ pendingCtrlOff' = to
        /\ pendingCtrl # 0
        /\ pending' = pending /\ pendingOff' = pendingOff
    BY <1>1, <2>1 DEF SendCtrl
  <2> QED
    BY <2>2, <2>3, LenAssumption DEF SlotInv
<1>2. CASE SendData
  <2>1. PICK to : to = pendingOff + Least(room, DataLen - pendingOff)
    OBVIOUS
  <2>2. to \in Nat /\ to <= DataLen
    BY <2>1, SlotWritten, LenAssumption DEF TypeOK
  <2>3. /\ \/ pending' = 0 /\ pendingOff' = 0
           \/ to # DataLen /\ pending' = pending /\ pendingOff' = to
        /\ pending # 0
        /\ pendingCtrl' = pendingCtrl /\ pendingCtrlOff' = pendingCtrlOff
    BY <1>2, <2>1 DEF SendData
  <2> QED
    BY <2>2, <2>3, LenAssumption DEF SlotInv
<1> QED
  BY <1>1, <1>2

\* Every step keeps what is known of the slots and of the thread.
LEMMA StepSlots == TypeOK /\ SlotInv /\ PcInv /\ [Next]_vars => SlotInv' /\ PcInv'
<1> SUFFICES ASSUME TypeOK, SlotInv, PcInv, [Next]_vars PROVE SlotInv' /\ PcInv'
  OBVIOUS
<1> USE DEF SlotInv, PcInv, SlotEvents, slots, socket, counts, history
<1>1. CASE SinkJoin \/ SourcePush \/ Stop
  BY <1>1 DEF SinkJoin, SourcePush, Stop
<1>2. CASE SinkReads \/ SinkSends \/ SinkCloses
  BY <1>2 DEF SinkReads, SinkSends, SinkCloses
<1>3. CASE ReplaceSink
  BY <1>3 DEF ReplaceSink, CloseSink, ClearSlots
<1>4. CASE AdoptSink
  <2>1. adopted + 1 # 0
    BY BoundAssumption DEF TypeOK
  <2> QED
    BY <1>4, <2>1 DEF AdoptSink
<1>5. CASE CtrlEmpty \/ CtrlWritten \/ AllWritten
  BY <1>5 DEF CtrlEmpty, CtrlWritten, AllWritten
<1>6. CASE SendCtrl \/ SendData
  <2>1. /\ UNCHANGED <<sink, interest, pc, counts>>
        /\ pc \in {"flushCtrl", "flush"}
    BY <1>6 DEF SendCtrl, SendData
  <2>2. SlotInv'
    BY <1>6, <2>1, SlotKept
  <2>3. PcInv'
    BY <2>1
  <2> QED
    BY <2>2, <2>3
<1>7. CASE SendBlocked \/ TakeNone
  BY <1>7 DEF SendBlocked, TakeNone, Arm, Writing
<1>8. CASE SendFailed
  BY <1>8 DEF SendFailed, CloseSink, ClearSlots, Writing
<1>9. CASE Take
  <2>1. taken + 1 # 0 /\ 0 < DataLen
    BY BoundAssumption, LenAssumption DEF TypeOK
  <2> QED
    BY <1>9, <2>1 DEF Take
<1>10. CASE CheckDone \/ CheckDrain \/ CheckNot
  BY <1>10 DEF CheckDone, CheckDrain, CheckNot
<1>11. CASE DrainCtrlEmpty \/ DrainDone \/ DrainMessage
  BY <1>11 DEF DrainCtrlEmpty, DrainDone, DrainMessage
<1>12. CASE End
  BY <1>12 DEF End, CloseSink, ClearSlots
<1>13. CASE SinkHungUp
  BY <1>13 DEF SinkHungUp, CloseSink, ClearSlots
<1>14. CASE SinkInput
  <2>1. HandledPings \in Nat /\ pings \in Nat /\ pendingCtrl \in Nat
    BY PingsCounted DEF TypeOK
  <2>2. pc' = "ctrl" /\ pings' = pings + HandledPings /\ taken' = taken /\ whole' = whole /\ pc = "wait"
    BY <1>14 DEF SinkInput
  <2>3. CASE Ending \/ Overlong \/ peer = "fin"
    BY <1>14, <2>2, <2>3 DEF SinkInput, CloseSink, ClearSlots
  <2>4. CASE ~(Ending \/ Overlong \/ peer = "fin")
    <3>1. PongSlot(HandledPings) /\ UNCHANGED <<sink, interest, pending, pendingOff>> /\ sink # 0
      BY <1>14, <2>4 DEF SinkInput, Readable
    <3>2. \/ HandledPings > 0 /\ pendingCtrl' = pings + 1 /\ pendingCtrlOff' = 0
          \/ pendingCtrl' = pendingCtrl /\ pendingCtrlOff' = pendingCtrlOff
      BY <3>1 DEF PongSlot
    <3>3. IF pendingCtrl' = 0 THEN pendingCtrlOff' = 0
          ELSE pendingCtrl' <= pings' /\ pendingCtrlOff' < CtrlLen
      BY <2>1, <2>2, <3>2, LenAssumption
    <3> QED
      BY <2>2, <3>1, <3>3
  <2> QED
    BY <2>3, <2>4
<1>15. CASE SinkWritable \/ OtherEvent
  BY <1>15 DEF SinkWritable, OtherEvent
<1>16. CASE UNCHANGED vars
  BY <1>16 DEF vars
<1> QED
  BY <1>1, <1>2, <1>3, <1>4, <1>5, <1>6, <1>7, <1>8, <1>9, <1>10, <1>11, <1>12, <1>13, <1>14,
     <1>15, <1>16 DEF Next, SinkStep, AggStep

-----------------------------------------------------------------------------
(* The wire *)

\* A step that writes nothing, or that closes the sink.
LEMMA QuietWire ==
    ASSUME TypeOK, WireInv, wire' = wire, whole' = whole, taken' = taken,
           pings' \in Nat, pings <= pings', sink' = sink \/ sink' = 0,
           pc' \in {"drainCtrl", "drain"} /\ sink' # 0 => pc \in {"drainCtrl", "drain"}
    PROVE  WireInv'
<1>1. \A kind : Of(kind)' = Of(kind)
  BY DEF Of
<1>2. Chained("data", DataLen)' /\ Chained("pong", CtrlLen)'
  BY <1>1, ChainKept DEF WireInv
<1>3. \A i \in Of("pong") : wire[i][2] <= pings' /\ wire[i][3] <= CtrlLen
  <2>1. ASSUME NEW i \in Of("pong")
        PROVE  wire[i][2] <= pings'
    <3>1. wire[i][2] \in Nat /\ pings \in Nat /\ wire[i][2] <= pings
      BY OnWire, UnitPlaces DEF WireInv, Of, TypeOK
    <3> QED
      BY <3>1
  <2> QED
    BY <2>1 DEF WireInv
<1> QED
  BY <1>1, <1>2, <1>3 DEF WireInv, Cuttable

LEMMA QuietTail ==
    ASSUME TailInv, wire' = wire, whole' = whole, UNCHANGED slots, sink' # 0 => sink # 0
    PROVE  TailInv'
<1>1. \A kind : Of(kind)' = Of(kind)
  BY DEF Of
<1> QED
  BY <1>1 DEF TailInv, Last, Cuttable, slots

\* Without a sink nothing is said of the slots.
LEMMA ClosedTail ==
    ASSUME sink' = 0, pendingOff' = 0, pendingCtrlOff' = 0
    PROVE  TailInv'
  BY DEF TailInv

\* A sink that is closed has got a CLOSE last, or nothing more.
LEMMA ClosedWire ==
    ASSUME TypeOK, WireInv, SendClose, sink' = 0, whole' = whole, taken' = taken,
           pings' \in Nat, pings <= pings'
    PROVE  WireInv'
<1>1. CASE wire' = wire
  BY <1>1, QuietWire
<1>2. CASE \E n \in Nat : Writes("close", 0, 0, n)
  <2>1. PICK n \in Nat : Writes("close", 0, 0, n)
    BY <1>2
  <2>2. "close" \in Kinds /\ 0 \in Nat /\ 0 <= n
    BY DEF Kinds
  <2>3. /\ Of("data")' = Of("data") /\ \A i \in Of("data") : wire'[i] = wire[i]
        /\ Of("pong")' = Of("pong") /\ \A i \in Of("pong") : wire'[i] = wire[i]
    BY <2>1, <2>2, OtherKinds
  <2>4. Chained("data", DataLen)' /\ Chained("pong", CtrlLen)'
    BY <2>3, ChainKept DEF WireInv
  <2>5. \A i \in Of("pong") : wire[i][2] <= pings' /\ wire[i][3] <= CtrlLen
    <3>1. ASSUME NEW i \in Of("pong")
          PROVE  wire[i][2] <= pings'
      <4>1. wire[i][2] \in Nat /\ pings \in Nat /\ wire[i][2] <= pings
        BY OnWire, UnitPlaces DEF WireInv, Of, TypeOK
      <4> QED
        BY <4>1
    <3> QED
      BY <3>1 DEF WireInv
  <2>6. ASSUME NEW i \in 1..(Len(wire') - 1), wire'[i][1] = "close"
        PROVE  wire'[i + 1][1] = "close"
    <3>1. /\ Len(wire) \in Nat /\ Len(wire') \in Nat
          /\ \A j \in 1..Len(wire) : wire'[j] = wire[j]
          /\ \A j \in (Len(wire) + 1)..Len(wire') : wire'[j][1] = "close"
      BY <2>1, <2>2, Written
    <3>2. CASE i < Len(wire)
      <4>1. i \in 1..(Len(wire) - 1) /\ i \in 1..Len(wire) /\ i + 1 \in 1..Len(wire)
        BY <3>1, <3>2
      <4> QED
        BY <2>6, <3>1, <4>1 DEF WireInv
    <3>3. CASE ~(i < Len(wire))
      <4>1. i + 1 \in (Len(wire) + 1)..Len(wire')
        BY <3>1, <3>3
      <4> QED
        BY <3>1, <4>1
    <3> QED
      BY <3>2, <3>3
  <2> QED
    BY <2>3, <2>4, <2>5, <2>6 DEF WireInv
<1> QED
  BY <1>1, <1>2, CloseWritten

\* There is at most one last unit of a kind.
LEMMA OneLast ==
    ASSUME TypeOK, NEW kind, NEW i \in Of(kind), NEW j \in Of(kind), Last(kind, i), Last(kind, j)
    PROVE  i = j
<1>1. i \in Nat /\ j \in Nat
  BY OnWire
<1> QED
  BY <1>1 DEF Last

\* A PONG is written from where its slot stands.
LEMMA CtrlWire ==
    ASSUME TypeOK, SlotInv, PcInv, WireInv, TailInv, SendCtrl
    PROVE  WireInv' /\ TailInv'
<1>1. PICK to : to = pendingCtrlOff + Least(room, CtrlLen - pendingCtrlOff)
  OBVIOUS
<1>2. /\ pendingCtrlOff \in Nat /\ to \in Nat /\ to <= CtrlLen /\ pendingCtrlOff < to
      /\ pendingCtrl \in Nat /\ pendingCtrl <= pings /\ pings \in Nat
  <2>1. room > 0 /\ pendingCtrlOff \in 0..CtrlLen /\ pendingCtrlOff < CtrlLen
        /\ pendingCtrl \in Nat /\ pendingCtrl <= pings /\ pings \in Nat
    BY LenAssumption DEF SendCtrl, SlotInv, TypeOK
  <2>2. CtrlLen \in Nat \ {0}
    BY LenAssumption
  <2>3. to \in Nat /\ to <= CtrlLen /\ pendingCtrlOff < to
    BY <1>1, <2>1, <2>2, SlotWritten
  <2>4. pendingCtrlOff \in Nat
    BY <2>1, <2>2
  <2> QED
    BY <2>1, <2>3, <2>4
<1>3. Writes("pong", pendingCtrl, pendingCtrlOff, to) /\ "pong" \in Kinds
  BY <1>1 DEF SendCtrl, Writes, Extends, Kinds
<1>4. /\ UNCHANGED <<sink, pending, pendingOff, pc, pings, taken, whole>>
      /\ sink # 0 /\ pc = "flushCtrl" /\ pendingCtrl # 0
      /\ \/ to = CtrlLen /\ pendingCtrl' = 0 /\ pendingCtrlOff' = 0
         \/ to # CtrlLen /\ pendingCtrl' = pendingCtrl /\ pendingCtrlOff' = to
  BY <1>1 DEF SendCtrl, PcInv, counts
<1>5. /\ Of("data")' = Of("data") /\ \A i \in Of("data") : wire'[i] = wire[i]
      /\ Of("close")' = {}
  <2>1. pendingCtrlOff <= to
    BY <1>2
  <2> QED
    BY <1>2, <1>3, <1>4, <2>1, OtherKinds DEF WireInv
<1>6. /\ Of("pong")' = Of("pong") \cup ((Len(wire) + 1)..Len(wire'))
      /\ Len(wire') = Len(wire) + (to - pendingCtrlOff)
      /\ \A i \in Of("pong") : wire'[i] = wire[i]
      /\ \A i \in (Len(wire) + 1)..Len(wire') :
             wire'[i][2] = pendingCtrl /\ wire'[i][3] = pendingCtrlOff + (i - Len(wire))
  <2>1. pendingCtrlOff <= to
    BY <1>2
  <2>2. /\ Of("pong")' = Of("pong") \cup ((Len(wire) + 1)..Len(wire'))
        /\ Len(wire') = Len(wire) + (to - pendingCtrlOff)
    BY <1>2, <1>3, <2>1, OwnKind
  <2>3. \A i \in Of("pong") : wire'[i] = wire[i]
    BY <1>2, <1>3, <2>1, OwnKind
  <2>4. \A i \in (Len(wire) + 1)..Len(wire') :
            wire'[i][2] = pendingCtrl /\ wire'[i][3] = pendingCtrlOff + (i - Len(wire))
    BY <1>2, <1>3, <2>1, OwnKind
  <2> QED
    BY <2>2, <2>3, <2>4
<1>7. Chained("data", DataLen)'
  BY <1>4, <1>5, ChainKept DEF WireInv
<1>8. Chained("pong", CtrlLen)'
  <2>1. pendingCtrlOff = 0 \/ \E i \in Of("pong") : Last("pong", i)
    BY DEF TailInv
  <2>2. ASSUME NEW i \in Of("pong"), Last("pong", i)
        PROVE  Follows(wire[i], <<"pong", pendingCtrl, pendingCtrlOff + 1>>, CtrlLen)
    <3>1. wire[i][1] = "pong"
      BY DEF Of
    <3>2. CASE pendingCtrlOff = 0
      <4>1. wire[i][3] = CtrlLen /\ wire[i][2] < pendingCtrl
        BY <1>4, <2>2, <3>2 DEF TailInv
      <4>2. wire[i][2] \in Nat
        BY OnWire, UnitPlaces DEF Of
      <4> QED
        BY <1>2, <3>1, <3>2, <4>1, <4>2 DEF Follows
    <3>3. CASE pendingCtrlOff # 0
      <4>1. wire[i][2] = pendingCtrl /\ wire[i][3] = pendingCtrlOff
        BY <2>2, <3>3, OneLast DEF TailInv
      <4> QED
        BY <4>1 DEF Follows
    <3> QED
      BY <3>2, <3>3
  <2>3. pendingCtrlOff <= to /\ Chained("pong", CtrlLen)
    BY <1>2 DEF WireInv
  <2> QED
    BY <1>2, <1>3, <1>4, <2>1, <2>2, <2>3, ChainGrows
<1>9. ASSUME NEW i \in Of("pong")'
      PROVE  wire'[i][2] <= pings' /\ wire'[i][3] <= CtrlLen
  <2>1. CASE i \in Of("pong")
    BY <1>4, <1>6, <2>1 DEF WireInv
  <2>2. CASE i \in (Len(wire) + 1)..Len(wire')
    <3>1. Len(wire) \in Nat
      BY OnWire
    <3>2. i - Len(wire) <= to - pendingCtrlOff /\ i - Len(wire) \in Nat
      BY <1>2, <1>6, <2>2, <3>1
    <3>3. pendingCtrlOff + (i - Len(wire)) <= CtrlLen
      BY <1>2, <3>2, LenAssumption
    <3> QED
      BY <1>2, <1>4, <1>6, <2>2, <3>3
  <2> QED
    BY <1>6, <2>1, <2>2
<1>10. \A i \in 1..(Len(wire') - 1) : wire'[i][1] # "close"
  <2>1. DOMAIN wire' = 1..Len(wire') /\ Len(wire') \in Nat
    <3>1. pendingCtrlOff <= to
      BY <1>2
    <3> QED
      BY <1>2, <1>3, <3>1, Written
  <2>2. \A i \in DOMAIN wire' : wire'[i][1] # "close"
    BY <1>5 DEF Of
  <2> QED
    BY <2>1, <2>2
<1>11. WireInv'
  <2>1. \A i \in Of("data")' : wire'[i][2] <= taken' /\ wire'[i][3] <= DataLen
    BY <1>4, <1>5 DEF WireInv
  <2>2. \A i \in 1..(Len(wire') - 1) : wire'[i][1] = "close" => wire'[i + 1][1] = "close"
    BY <1>10
  <2>3. \A i \in Of("pong")' : wire'[i][2] <= pings' /\ wire'[i][3] <= CtrlLen
    BY <1>9
  <2>4. pc' \notin {"drainCtrl", "drain"}
    BY <1>4
  <2> QED
    BY <1>5, <1>7, <1>8, <2>1, <2>2, <2>3, <2>4, Zenon DEF WireInv
<1>12. /\ \E i \in Of("pong")' : Last("pong", i)'
       /\ \A i \in Of("pong")' : Last("pong", i)' => wire'[i][2] = pendingCtrl /\ wire'[i][3] = to
  BY <1>2, <1>3, LastWritten
<1>13. TailInv'
  <2>1. \A i \in Of("data") : Last("data", i)' <=> Last("data", i)
    BY <1>5 DEF Last
  <2>2. pendingOff' # 0 =>
            \E i \in Of("data")' : Last("data", i)' /\ wire'[i][2] = pending' /\ wire'[i][3] = pendingOff'
    BY <1>4, <1>5, <2>1 DEF TailInv
  <2>3. ASSUME pendingOff' = 0, NEW i \in Of("data")', Last("data", i)'
        PROVE  \/ Cuttable(wire[i])'
               \/ /\ wire'[i][3] = DataLen
                  /\ wire'[i][2] = IF pending' = 0 THEN whole' ELSE whole' - 1
    BY <1>4, <1>5, <2>1, <2>3 DEF TailInv, Cuttable
  <2>4. pendingCtrlOff' # 0 =>
            \E i \in Of("pong")' : Last("pong", i)' /\ wire'[i][2] = pendingCtrl'
                                   /\ wire'[i][3] = pendingCtrlOff'
    BY <1>4, <1>12
  <2>5. ASSUME pendingCtrlOff' = 0, NEW i \in Of("pong")', Last("pong", i)'
        PROVE  wire'[i][3] = CtrlLen /\ (pendingCtrl' # 0 => wire'[i][2] < pendingCtrl')
    BY <1>2, <1>4, <1>12, <2>5
  <2> QED
    BY <2>2, <2>3, <2>4, <2>5, Zenon DEF TailInv
<1> QED
  BY <1>11, <1>13

\* Before the drain no unit of a data frame may have been cut.
LEMMA NoneCuttable ==
    ASSUME TypeOK, WireInv, whole = taken, NEW i \in Of("data")
    PROVE  wire[i][2] \in Nat /\ ~Cuttable(wire[i])
<1>1. wire[i][2] \in Nat /\ wire[i][2] <= taken
  BY OnWire, UnitPlaces DEF Of, WireInv
<1>2. taken \in Nat
  BY BoundAssumption DEF TypeOK
<1> QED
  BY <1>1, <1>2 DEF Cuttable

\* A message is written from where its slot stands.
LEMMA DataWire ==
    ASSUME TypeOK, SlotInv, PcInv, WireInv, TailInv, SendData
    PROVE  WireInv' /\ TailInv'
<1>1. PICK to : to = pendingOff + Least(room, DataLen - pendingOff)
  OBVIOUS
<1>2. /\ pendingOff \in Nat /\ to \in Nat /\ to <= DataLen /\ pendingOff < to
      /\ pending \in Nat /\ pending = taken /\ whole = taken
  <2>1. /\ room > 0 /\ pendingOff \in 0..DataLen /\ pendingOff < DataLen
        /\ pending \in Nat /\ pending = taken /\ whole = taken
    BY LenAssumption, BoundAssumption DEF SendData, SlotInv, PcInv, TypeOK
  <2>2. DataLen \in Nat \ {0}
    BY LenAssumption
  <2>3. to \in Nat /\ to <= DataLen /\ pendingOff < to
    BY <1>1, <2>1, <2>2, SlotWritten
  <2>4. pendingOff \in Nat
    BY <2>1, <2>2
  <2> QED
    BY <2>1, <2>3, <2>4
<1>3. Writes("data", pending, pendingOff, to) /\ "data" \in Kinds
  BY <1>1 DEF SendData, Writes, Extends, Kinds
<1>4. /\ UNCHANGED <<sink, pendingCtrl, pendingCtrlOff, pc, pings, taken, whole>>
      /\ sink # 0 /\ pc = "flush" /\ pending # 0
      /\ \/ to = DataLen /\ pending' = 0 /\ pendingOff' = 0
         \/ to # DataLen /\ pending' = pending /\ pendingOff' = to
  BY <1>1 DEF SendData, PcInv, counts
<1>5. /\ Of("pong")' = Of("pong") /\ \A i \in Of("pong") : wire'[i] = wire[i]
      /\ Of("close")' = {}
  <2>1. pendingOff <= to
    BY <1>2
  <2> QED
    BY <1>2, <1>3, <1>4, <2>1, OtherKinds DEF WireInv
<1>6. /\ Of("data")' = Of("data") \cup ((Len(wire) + 1)..Len(wire'))
      /\ Len(wire') = Len(wire) + (to - pendingOff)
      /\ \A i \in Of("data") : wire'[i] = wire[i]
      /\ \A i \in (Len(wire) + 1)..Len(wire') :
             wire'[i][2] = pending /\ wire'[i][3] = pendingOff + (i - Len(wire))
  <2>1. pendingOff <= to
    BY <1>2
  <2>2. /\ "data" \in Kinds /\ pending \in Nat /\ pendingOff \in Nat /\ to \in Nat
        /\ Writes("data", pending, pendingOff, to)
    BY ONLY <1>2, <1>3
  <2>3. PICK kind \in Kinds, frame \in Nat, from \in Nat :
            kind = "data" /\ frame = pending /\ from = pendingOff
    BY ONLY <2>2
  <2>4. from <= to /\ Writes(kind, frame, from, to)
    BY ONLY <2>1, <2>2, <2>3
  <2>5. /\ Of(kind)' = Of(kind) \cup ((Len(wire) + 1)..Len(wire'))
        /\ Len(wire') = Len(wire) + (to - from)
        /\ \A i \in Of(kind) : wire'[i] = wire[i] /\ i <= Len(wire)
        /\ \A i \in (Len(wire) + 1)..Len(wire') :
               wire'[i][2] = frame /\ wire'[i][3] = from + (i - Len(wire))
    BY <2>2, <2>4, OwnKind
  <2> QED
    BY <2>3, <2>5
<1>7. Chained("pong", CtrlLen)'
  BY <1>4, <1>5, ChainKept DEF WireInv
<1>8. Chained("data", DataLen)'
  <2>1. pendingOff = 0 \/ \E i \in Of("data") : Last("data", i)
    BY DEF TailInv
  <2>2. ASSUME NEW i \in Of("data"), Last("data", i)
        PROVE  Follows(wire[i], <<"data", pending, pendingOff + 1>>, DataLen)
    <3>1. wire[i][1] = "data"
      BY DEF Of
    <3>2. CASE pendingOff = 0
      <4>1. ~Cuttable(wire[i]) /\ wire[i][2] \in Nat
        BY <1>2, NoneCuttable
      <4>2. wire[i][3] = DataLen /\ wire[i][2] = whole - 1
        BY <1>4, <2>2, <3>2, <4>1 DEF TailInv
      <4> QED
        BY <1>2, <3>1, <3>2, <4>1, <4>2 DEF Follows
    <3>3. CASE pendingOff # 0
      <4>1. wire[i][2] = pending /\ wire[i][3] = pendingOff
        BY <2>2, <3>3, OneLast DEF TailInv
      <4> QED
        BY <4>1 DEF Follows
    <3> QED
      BY <3>2, <3>3
  <2>3. pendingOff <= to /\ Chained("data", DataLen)
    BY <1>2 DEF WireInv
  <2> QED
    BY <1>2, <1>3, <1>4, <2>1, <2>2, <2>3, ChainGrows
<1>9. ASSUME NEW i \in Of("data")'
      PROVE  wire'[i][2] <= taken' /\ wire'[i][3] <= DataLen
  <2>1. CASE i \in Of("data")
    BY <1>4, <1>6, <2>1 DEF WireInv
  <2>2. CASE i \in (Len(wire) + 1)..Len(wire')
    <3>1. Len(wire) \in Nat
      BY OnWire
    <3>2. i - Len(wire) <= to - pendingOff /\ i - Len(wire) \in Nat
      BY <1>2, <1>6, <2>2, <3>1
    <3>3. pendingOff + (i - Len(wire)) <= DataLen
      BY <1>2, <3>2, LenAssumption
    <3> QED
      BY <1>2, <1>4, <1>6, <2>2, <3>3
  <2> QED
    BY <1>6, <2>1, <2>2
<1>10. \A i \in 1..(Len(wire') - 1) : wire'[i][1] # "close"
  <2>1. DOMAIN wire' = 1..Len(wire') /\ Len(wire') \in Nat
    <3>1. pendingOff <= to
      BY <1>2
    <3> QED
      BY <1>2, <1>3, <3>1, Written
  <2>2. \A i \in DOMAIN wire' : wire'[i][1] # "close"
    BY <1>5 DEF Of
  <2> QED
    BY <2>1, <2>2
<1>11. WireInv'
  <2>1. \A i \in Of("pong")' : wire'[i][2] <= pings' /\ wire'[i][3] <= CtrlLen
    BY <1>4, <1>5 DEF WireInv
  <2>2. \A i \in 1..(Len(wire') - 1) : wire'[i][1] = "close" => wire'[i + 1][1] = "close"
    BY <1>10
  <2>3. \A i \in Of("data")' : wire'[i][2] <= taken' /\ wire'[i][3] <= DataLen
    BY <1>9
  <2>4. pc' \notin {"drainCtrl", "drain"}
    BY <1>4
  <2> QED
    BY <1>5, <1>7, <1>8, <2>1, <2>2, <2>3, <2>4, Zenon DEF WireInv
<1>12. /\ \E i \in Of("data")' : Last("data", i)'
       /\ \A i \in Of("data")' : Last("data", i)' => wire'[i][2] = pending /\ wire'[i][3] = to
  BY <1>2, <1>3, LastWritten
<1>13. TailInv'
  <2>1. \A i \in Of("pong") : Last("pong", i)' <=> Last("pong", i)
    BY <1>5 DEF Last
  <2>2. pendingCtrlOff' # 0 =>
            \E i \in Of("pong")' : Last("pong", i)' /\ wire'[i][2] = pendingCtrl'
                                   /\ wire'[i][3] = pendingCtrlOff'
    BY <1>4, <1>5, <2>1 DEF TailInv
  <2>3. ASSUME pendingCtrlOff' = 0, NEW i \in Of("pong")', Last("pong", i)'
        PROVE  wire'[i][3] = CtrlLen /\ (pendingCtrl' # 0 => wire'[i][2] < pendingCtrl')
    BY <1>4, <1>5, <2>1, <2>3 DEF TailInv
  <2>4. pendingOff' # 0 =>
            \E i \in Of("data")' : Last("data", i)' /\ wire'[i][2] = pending' /\ wire'[i][3] = pendingOff'
    BY <1>4, <1>12
  <2>5. ASSUME pendingOff' = 0, NEW i \in Of("data")', Last("data", i)'
        PROVE  \/ Cuttable(wire[i])'
               \/ /\ wire'[i][3] = DataLen
                  /\ wire'[i][2] = IF pending' = 0 THEN whole' ELSE whole' - 1
    BY <1>2, <1>4, <1>12, <2>5
  <2> QED
    BY <2>2, <2>3, <2>4, <2>5, Zenon DEF TailInv
<1> QED
  BY <1>11, <1>13

\* The next message is taken when the one before is out as a whole.
LEMMA TakeWire ==
    ASSUME TypeOK, SlotInv, PcInv, WireInv, TailInv, Take
    PROVE  WireInv' /\ TailInv'
<1>1. /\ wire' = wire /\ UNCHANGED <<sink, pendingCtrl, pendingCtrlOff, pings>>
      /\ taken' = taken + 1 /\ whole' = taken + 1 /\ pending' = taken + 1 /\ pendingOff' = 0
      /\ pc' = "flushCtrl" /\ whole = taken /\ sink # 0 /\ pending = 0 /\ pendingOff = 0
  BY DEF Take, PcInv, SlotInv, socket, history
<1>2. taken \in Nat
  BY BoundAssumption DEF TypeOK
<1>3. \A kind : Of(kind)' = Of(kind)
  BY <1>1 DEF Of
<1>4. \A i \in Of("data") : wire[i][2] \in Nat /\ ~Cuttable(wire[i]) /\ ~Cuttable(wire[i])'
  <2>1. ASSUME NEW i \in Of("data")
        PROVE  wire[i][2] \in Nat /\ ~Cuttable(wire[i]) /\ ~(wire[i][2] > taken + 1)
    <3>1. wire[i][2] \in Nat /\ ~Cuttable(wire[i]) /\ wire[i][2] <= taken
      BY <1>1, NoneCuttable DEF WireInv
    <3> QED
      BY <1>2, <3>1
  <2> QED
    BY <1>1, <2>1 DEF Cuttable
<1>5. Chained("data", DataLen)'
  <2>1. ASSUME NEW i \in Of("data"), First("data", i)'
        PROVE  wire'[i][3] = 1
    BY <1>1, <1>3, <2>1 DEF First, Chained, WireInv
  <2>2. ASSUME NEW i \in Of("data"), NEW j \in Of("data"), Successive("data", i, j)'
        PROVE  Follows(wire[i], wire[j], DataLen)'
    <3>1. Successive("data", i, j)
      BY <1>3, <2>2 DEF Successive
    <3>2. Follows(wire[i], wire[j], DataLen)
      BY <3>1 DEF WireInv, Chained
    <3> QED
      BY <1>1, <1>4, <3>2 DEF Follows
  <2> QED
    BY <1>3, <2>1, <2>2 DEF Chained
<1>6. Chained("pong", CtrlLen)'
  <2>1. ASSUME NEW i \in Of("pong"), First("pong", i)'
        PROVE  wire'[i][3] = 1
    BY <1>1, <1>3, <2>1 DEF First, Chained, WireInv
  <2>2. ASSUME NEW i \in Of("pong"), NEW j \in Of("pong"), Successive("pong", i, j)'
        PROVE  Follows(wire[i], wire[j], CtrlLen)'
    <3>1. Successive("pong", i, j)
      BY <1>3, <2>2 DEF Successive
    <3>2. Follows(wire[i], wire[j], CtrlLen) /\ wire[i][1] = "pong"
      BY <3>1 DEF WireInv, Chained, Of
    <3> QED
      BY <1>1, <3>2 DEF Follows, Cuttable
  <2> QED
    BY <1>3, <2>1, <2>2 DEF Chained
<1>7. WireInv'
  <2>1. ASSUME NEW i \in Of("data")
        PROVE  wire[i][2] <= taken + 1 /\ wire[i][3] <= DataLen
    <3>1. wire[i][2] <= taken /\ wire[i][3] <= DataLen /\ wire[i][2] \in Nat
      BY <1>4 DEF WireInv
    <3> QED
      BY <1>2, <3>1
  <2> QED
    BY <1>1, <1>3, <1>5, <1>6, <2>1 DEF WireInv
<1>8. TailInv'
  <2>1. \A kind : \A i \in Of(kind) : Last(kind, i)' <=> Last(kind, i)
    BY <1>3 DEF Last
  <2>2. pendingCtrlOff' # 0 =>
            \E i \in Of("pong")' : Last("pong", i)' /\ wire'[i][2] = pendingCtrl'
                                   /\ wire'[i][3] = pendingCtrlOff'
    BY <1>1, <1>3, <2>1 DEF TailInv
  <2>3. ASSUME pendingCtrlOff' = 0, NEW i \in Of("pong")', Last("pong", i)'
        PROVE  wire'[i][3] = CtrlLen /\ (pendingCtrl' # 0 => wire'[i][2] < pendingCtrl')
    BY <1>1, <1>3, <2>1, <2>3 DEF TailInv
  <2>4. ASSUME NEW i \in Of("data")', Last("data", i)'
        PROVE  /\ wire'[i][3] = DataLen
               /\ wire'[i][2] = IF pending' = 0 THEN whole' ELSE whole' - 1
    <3>1. wire[i][3] = DataLen /\ wire[i][2] = whole
      BY <1>1, <1>3, <1>4, <2>1, <2>4 DEF TailInv
    <3>2. pending' # 0 /\ whole' - 1 = whole
      BY <1>1, <1>2
    <3> QED
      BY <1>1, <3>1, <3>2
  <2> QED
    BY <1>1, <2>2, <2>3, <2>4, Zenon DEF TailInv
<1> QED
  BY <1>7, <1>8

\* The drain writes the beginning of a message, and may leave it at that.
LEMMA DrainWire ==
    ASSUME TypeOK, SlotInv, PcInv, WireInv, TailInv, DrainMessage
    PROVE  WireInv' /\ TailInv'
<1>1. PICK n : n = IF sink = 0 \/ peer = "reset" THEN 0 ELSE Least(room, DataLen)
  OBVIOUS
<1>2. n \in Nat /\ n <= DataLen /\ (sink = 0 => n = 0)
  <2>1. room \in Nat /\ DataLen \in Nat
    BY LenAssumption, RoomAssumption DEF TypeOK
  <2> QED
    BY <1>1, <2>1, LeastBounds
<1>3. PICK m : m = taken + 1
  OBVIOUS
<1>4. Writes("data", m, 0, n) /\ "data" \in Kinds
  BY <1>1, <1>3 DEF DrainMessage, Writes, Extends, Kinds
<1>5. m \in Nat /\ taken \in Nat /\ taken < m /\ whole \in Nat /\ whole < m /\ 0 <= n /\ 0 \in Nat
  BY <1>2, <1>3, BoundAssumption DEF TypeOK
<1>6. /\ UNCHANGED <<sink, slots, pc, pings, whole>> /\ taken' = m
      /\ pc = "drain" /\ pending = 0 /\ pendingCtrl = 0 /\ pendingOff = 0 /\ pendingCtrlOff = 0
  BY <1>3 DEF DrainMessage, PcInv, SlotInv
<1>7. /\ Of("pong")' = Of("pong") /\ \A i \in Of("pong") : wire'[i] = wire[i]
      /\ Of("close")' = Of("close") /\ \A i \in Of("close") : wire'[i] = wire[i]
  BY <1>2, <1>4, <1>5, OtherKinds
<1>8. /\ Of("data")' = Of("data") \cup ((Len(wire) + 1)..Len(wire'))
      /\ Len(wire') = Len(wire) + n /\ Len(wire) \in Nat
      /\ \A i \in Of("data") : wire'[i] = wire[i]
      /\ \A i \in (Len(wire) + 1)..Len(wire') :
             wire'[i][2] = m /\ wire'[i][3] = 0 + (i - Len(wire))
  <2>1. Of("data")' = Of("data") \cup ((Len(wire) + 1)..Len(wire'))
    BY <1>2, <1>4, <1>5, OwnKind
  <2>2. Len(wire') = Len(wire) + (n - 0) /\ Len(wire) \in Nat
    <3>1. n \in Nat /\ m \in Nat /\ 0 \in Nat /\ 0 <= n
      BY <1>2, <1>5
    <3>2. "data" \in Kinds /\ Writes("data", m, 0, n)
      BY <1>4
    <3>3. Len(wire) \in Nat
      BY <3>1, <3>2, Written, Zenon
    <3>4. Len(wire') = Len(wire) + (n - 0)
      BY <3>1, <3>2, Written
    <3> QED
      BY <3>3, <3>4
  <2>3. \A i \in Of("data") : wire'[i] = wire[i]
    BY <1>2, <1>4, <1>5, OwnKind
  <2>4. \A i \in (Len(wire) + 1)..Len(wire') :
            wire'[i][2] = m /\ wire'[i][3] = 0 + (i - Len(wire))
    BY <1>2, <1>4, <1>5, OwnKind
  <2> QED
    BY <1>2, <2>1, <2>2, <2>3, <2>4
<1>9. Chained("pong", CtrlLen)'
  BY <1>6, <1>7, ChainKept DEF WireInv
<1>10. \A i \in Of("data") : wire[i][2] \in Nat /\ wire[i][2] <= taken /\ wire[i][1] = "data"
  BY OnWire, UnitPlaces DEF Of, WireInv
<1>11. CASE n = 0
  <2>1. Of("data")' = Of("data")
    BY <1>8, <1>11
  <2>2. Chained("data", DataLen)'
    BY <1>6, <1>8, <2>1, ChainKept DEF WireInv
  <2>3. ASSUME NEW i \in Of("data")'
        PROVE  wire'[i][2] <= taken' /\ wire'[i][3] <= DataLen
    <3>1. wire'[i] = wire[i] /\ wire[i][2] <= taken /\ wire[i][3] <= DataLen /\ wire[i][2] \in Nat
      BY <1>8, <1>10, <2>1 DEF WireInv
    <3> QED
      BY <1>5, <1>6, <3>1
  <2>4. ASSUME NEW i \in 1..(Len(wire') - 1)
        PROVE  wire'[i][1] = "close" => wire'[i + 1][1] = "close"
    <3>1. i \in 1..(Len(wire) - 1) /\ i \in 1..Len(wire) /\ i + 1 \in 1..Len(wire)
      BY <1>8, <1>11
    <3>2. \A j \in 1..Len(wire) : wire'[j] = wire[j]
      BY <1>2, <1>4, <1>5, Written
    <3> QED
      BY <3>1, <3>2 DEF WireInv
  <2>5. sink' # 0 => Of("close")' = {}
    BY <1>6, <1>7 DEF WireInv
  <2>6. \A i \in Of("pong")' : wire'[i][2] <= pings' /\ wire'[i][3] <= CtrlLen
    BY <1>6, <1>7 DEF WireInv
  <2>7. sink' # 0 => \A i \in Of("data")' : Cuttable(wire[i])'
    BY <1>6, <1>8, <2>1 DEF WireInv, Cuttable
  <2>8. WireInv'
    BY <1>9, <2>2, <2>3, <2>4, <2>5, <2>6, <2>7, Zenon DEF WireInv
  <2>9. TailInv'
    <3>1. \A i \in Of("pong") : Last("pong", i)' <=> Last("pong", i)
      BY <1>7 DEF Last
    <3>2. \A i \in Of("data") : Last("data", i)' <=> Last("data", i)
      BY <2>1 DEF Last
    <3> QED
      BY <1>6, <1>7, <1>8, <2>1, <3>1, <3>2 DEF TailInv, Cuttable, slots
  <2> QED
    BY <2>8, <2>9
<1>12. CASE n # 0
  <2>1. sink # 0 /\ \A i \in Of("data") : Cuttable(wire[i])
    BY <1>2, <1>6, <1>12 DEF WireInv
  <2>2. ASSUME NEW i \in Of("data"), Last("data", i)
        PROVE  Follows(wire[i], <<"data", m, 0 + 1>>, DataLen)
    <3>1. wire[i][2] \in Nat /\ wire[i][2] < m /\ Cuttable(wire[i])
      BY <1>5, <1>10, <2>1
    <3> QED
      BY <1>5, <3>1 DEF Follows
  <2>3. Chained("data", DataLen)'
    <3>1. Chained("data", DataLen)
      BY DEF WireInv
    <3> QED
      BY <1>2, <1>4, <1>5, <1>6, <2>2, <3>1, ChainGrows
  <2>4. ASSUME NEW i \in Of("data")'
        PROVE  wire'[i][2] <= taken' /\ wire'[i][3] <= DataLen /\ Cuttable(wire[i])'
    <3>1. CASE i \in Of("data")
      <4>1. wire'[i] = wire[i] /\ wire[i][2] <= taken /\ wire[i][3] <= DataLen
            /\ wire[i][2] \in Nat /\ Cuttable(wire[i])
        BY <1>8, <1>10, <2>1, <3>1 DEF WireInv
      <4> QED
        BY <1>5, <1>6, <4>1 DEF Cuttable
    <3>2. CASE i \in (Len(wire) + 1)..Len(wire')
      <4>1. wire'[i][1] = "data" /\ wire'[i][2] = m
        BY <1>8, <3>2 DEF Of
      <4>2. wire'[i][3] <= DataLen
        BY <1>2, <1>8, <3>2, LenAssumption
      <4> QED
        BY <1>5, <1>6, <4>1, <4>2 DEF Cuttable
    <3> QED
      BY <1>8, <3>1, <3>2
  <2>5. Of("close")' = {}
    BY <1>7, <2>1 DEF WireInv
  <2>6. \A i \in 1..(Len(wire') - 1) : wire'[i][1] # "close"
    <3>1. DOMAIN wire' = 1..Len(wire') /\ Len(wire') \in Nat
      BY <1>2, <1>4, <1>5, Written
    <3>2. \A i \in DOMAIN wire' : wire'[i][1] # "close"
      BY <2>5 DEF Of
    <3> QED
      BY <3>1, <3>2
  <2>7. \A i \in Of("pong")' : wire'[i][2] <= pings' /\ wire'[i][3] <= CtrlLen
    BY <1>6, <1>7 DEF WireInv
  <2>8. WireInv'
    BY <1>9, <2>3, <2>4, <2>5, <2>6, <2>7, Zenon DEF WireInv
  <2>9. TailInv'
    <3>1. \A i \in Of("pong") : Last("pong", i)' <=> Last("pong", i)
      BY <1>7 DEF Last
    <3>2. ASSUME pendingCtrlOff' = 0, sink' # 0, NEW i \in Of("pong")', Last("pong", i)'
          PROVE  wire'[i][3] = CtrlLen /\ (pendingCtrl' # 0 => wire'[i][2] < pendingCtrl')
      BY <1>6, <1>7, <3>1, <3>2 DEF TailInv, slots
    <3>3. pendingOff' = 0 /\ pendingCtrlOff' = 0
      BY <1>6 DEF slots
    <3> QED
      BY <2>4, <3>2, <3>3, Zenon DEF TailInv
  <2> QED
    BY <2>8, <2>9
<1> QED
  BY <1>11, <1>12

\* The wire of a new sink is empty.
LEMMA AdoptWire ==
    ASSUME TypeOK, SlotInv, AdoptSink
    PROVE  WireInv' /\ TailInv'
<1>1. wire' = <<>> /\ pendingOff' = 0 /\ pendingCtrlOff' = 0
  BY DEF AdoptSink, SlotInv, slots
<1>2. DOMAIN wire' = {} /\ Len(wire') = 0
  BY <1>1
<1>3. \A kind : Of(kind)' = {}
  BY <1>2 DEF Of
<1>4. 1..(Len(wire') - 1) = {}
  BY <1>2
<1>5. Chained("data", DataLen)' /\ Chained("pong", CtrlLen)'
  BY <1>3 DEF Chained
<1> QED
  BY <1>1, <1>3, <1>4, <1>5 DEF WireInv, TailInv

\* What the sink sends costs it the connection, or is answered in the control slot.
LEMMA InputWire ==
    ASSUME TypeOK, SlotInv, PcInv, WireInv, TailInv, SinkInput
    PROVE  WireInv' /\ TailInv'
<1>1. HandledPings \in Nat /\ pings \in Nat
  BY PingsCounted DEF TypeOK
<1>2. /\ pc' = "ctrl" /\ pings' = pings + HandledPings /\ taken' = taken /\ whole' = whole
      /\ sink # 0
  BY DEF SinkInput, Readable
<1>3. pings' \in Nat /\ pings <= pings'
  BY <1>1, <1>2
<1>4. CASE Ending \/ Overlong \/ peer = "fin"
  <2>1. sink' = 0 /\ pendingOff' = 0 /\ pendingCtrlOff' = 0
    BY <1>4 DEF SinkInput, CloseSink, ClearSlots
  <2>2. WireInv'
    <3>1. CASE Ending
      BY <1>2, <1>3, <2>1, <3>1, ClosedWire DEF SinkInput
    <3>2. CASE ~Ending
      <4>1. wire' = wire
        BY <3>2 DEF SinkInput
      <4> QED
        BY <1>2, <1>3, <2>1, <4>1, QuietWire
    <3> QED
      BY <3>1, <3>2
  <2> QED
    BY <2>1, <2>2, ClosedTail
<1>5. CASE ~(Ending \/ Overlong \/ peer = "fin")
  <2>1. wire' = wire /\ PongSlot(HandledPings) /\ UNCHANGED <<sink, interest, pending, pendingOff>>
    BY <1>5 DEF SinkInput
  <2>2. WireInv'
    BY <1>2, <1>3, <2>1, QuietWire
  <2>3. CASE pendingCtrl' = pendingCtrl /\ pendingCtrlOff' = pendingCtrlOff
    BY <1>2, <2>1, <2>2, <2>3, QuietTail DEF slots
  <2>4. CASE pendingCtrl = 0 /\ pendingCtrl' = pings + 1 /\ pendingCtrlOff' = 0
    <3>1. \A kind : Of(kind)' = Of(kind)
      BY <2>1 DEF Of
    <3>2. \A kind : \A i \in Of(kind) : Last(kind, i)' <=> Last(kind, i)
      BY <3>1 DEF Last
    <3>3. ASSUME NEW i \in Of("pong")', Last("pong", i)'
          PROVE  wire'[i][3] = CtrlLen /\ wire'[i][2] < pendingCtrl'
      <4>1. wire[i][3] = CtrlLen
        BY <1>2, <2>4, <3>1, <3>2, <3>3 DEF TailInv, SlotInv
      <4>2. wire[i][2] \in Nat /\ wire[i][2] <= pings
        BY <3>1, OnWire, UnitPlaces DEF WireInv, Of
      <4> QED
        BY <1>1, <2>1, <2>4, <4>1, <4>2
    <3>4. pendingOff' # 0 =>
              \E i \in Of("data")' : Last("data", i)' /\ wire'[i][2] = pending' /\ wire'[i][3] = pendingOff'
      BY <2>1, <3>1, <3>2 DEF TailInv
    <3>5. ASSUME pendingOff' = 0, NEW i \in Of("data")', Last("data", i)'
          PROVE  \/ Cuttable(wire[i])'
                 \/ /\ wire'[i][3] = DataLen
                    /\ wire'[i][2] = IF pending' = 0 THEN whole' ELSE whole' - 1
      BY <1>2, <2>1, <3>1, <3>2, <3>5 DEF TailInv, Cuttable
    <3> QED
      BY <2>2, <2>4, <3>3, <3>4, <3>5, Zenon DEF TailInv
  <2> QED
    BY <2>1, <2>3, <2>4 DEF PongSlot
<1> QED
  BY <1>4, <1>5

\* Every step keeps what is known of the wire.
LEMMA StepWire ==
    TypeOK /\ SlotInv /\ PcInv /\ WireInv /\ TailInv /\ [Next]_vars => WireInv' /\ TailInv'
<1> SUFFICES ASSUME TypeOK, SlotInv, PcInv, WireInv, TailInv, [Next]_vars
             PROVE  WireInv' /\ TailInv'
  OBVIOUS
<1>1. pings \in Nat /\ pings <= pings
  BY DEF TypeOK
<1>2. CASE /\ UNCHANGED <<wire, slots, sink, whole, taken, pings>>
           /\ pc' \in {"drainCtrl", "drain"} => sink = 0 \/ pc \in {"drainCtrl", "drain"}
  BY <1>1, <1>2, QuietWire, QuietTail
<1>3. CASE SinkJoin \/ SourcePush \/ Stop
  BY <1>2, <1>3 DEF SinkJoin, SourcePush, Stop, history
<1>4. CASE SinkReads \/ SinkSends \/ SinkCloses
  BY <1>2, <1>4 DEF SinkReads, SinkSends, SinkCloses, counts, history
<1>5. CASE ReplaceSink
  <2>1. SendClose /\ sink' = 0 /\ pendingOff' = 0 /\ pendingCtrlOff' = 0
        /\ UNCHANGED <<whole, taken, pings>>
    BY <1>5 DEF ReplaceSink, CloseSink, ClearSlots, counts, history
  <2> QED
    BY <1>1, <2>1, ClosedWire, ClosedTail
<1>6. CASE AdoptSink
  BY <1>6, AdoptWire
<1>7. CASE CtrlEmpty \/ CtrlWritten \/ AllWritten \/ SendBlocked \/ TakeNone
  BY <1>2, <1>7 DEF CtrlEmpty, CtrlWritten, AllWritten, SendBlocked, TakeNone, counts, history
<1>8. CASE SendCtrl
  BY <1>8, CtrlWire
<1>9. CASE SendData
  BY <1>9, DataWire
<1>10. CASE SendFailed \/ SinkHungUp
  <2>1. /\ sink' = 0 /\ pendingOff' = 0 /\ pendingCtrlOff' = 0
        /\ UNCHANGED <<whole, taken, pings, wire>>
    BY <1>10 DEF SendFailed, SinkHungUp, CloseSink, ClearSlots, counts, history
  <2> QED
    BY <1>1, <2>1, QuietWire, ClosedTail
<1>11. CASE Take
  BY <1>11, TakeWire
<1>12. CASE CheckDone \/ CheckDrain \/ CheckNot
  BY <1>2, <1>12 DEF CheckDone, CheckDrain, CheckNot, counts, history
<1>13. CASE DrainCtrlEmpty \/ DrainDone
  BY <1>2, <1>13 DEF DrainCtrlEmpty, DrainDone, counts, history
<1>14. CASE DrainMessage
  BY <1>14, DrainWire
<1>15. CASE End
  <2>1. CASE sink = 0
    BY <1>2, <1>15, <2>1 DEF End, slots, counts, history
  <2>2. CASE sink # 0
    <3>1. SendClose /\ sink' = 0 /\ pendingOff' = 0 /\ pendingCtrlOff' = 0
          /\ UNCHANGED <<whole, taken, pings>>
      BY <1>15, <2>2 DEF End, CloseSink, ClearSlots, counts, history
    <3> QED
      BY <1>1, <3>1, ClosedWire, ClosedTail
  <2> QED
    BY <2>1, <2>2
<1>16. CASE SinkInput
  BY <1>16, InputWire
<1>17. CASE SinkWritable \/ OtherEvent
  BY <1>2, <1>17 DEF SinkWritable, OtherEvent, counts, history
<1>18. CASE UNCHANGED vars
  BY <1>2, <1>18 DEF vars, counts, history
<1> QED
  BY <1>3, <1>4, <1>5, <1>6, <1>7, <1>8, <1>9, <1>10, <1>11, <1>12, <1>13, <1>14, <1>15, <1>16,
     <1>17, <1>18 DEF Next, SinkStep, AggStep

\* It holds of the empty wire.
LEMMA InitWriter == Init => WriterInv
<1> SUFFICES ASSUME Init PROVE WriterInv
  OBVIOUS
<1>1. TypeOK
  <2>1. room \in 0..Room /\ received \in 0..MaxFrames /\ sink \in 0..MaxSinks
    BY RoomAssumption, BoundAssumption DEF Init
  <2>2. pending \in 0..MaxMsgs /\ pendingOff \in 0..DataLen
        /\ pendingCtrl \in Nat /\ pendingCtrlOff \in 0..CtrlLen
    BY LenAssumption, BoundAssumption DEF Init
  <2>3. joined \in 0..MaxSinks /\ adopted \in 0..MaxSinks /\ made \in 0..MaxMsgs
        /\ taken \in 0..made /\ whole \in 0..taken /\ pings \in Nat
    BY BoundAssumption DEF Init
  <2>6. complete \subseteq 1..MaxMsgs
    BY DEF Init
  <2>4. inbox \in Seq(SinkKinds) /\ wire \in Seq({"data", "pong", "close"} \X Nat \X Nat)
    BY DEF Init
  <2>5. peer \in {"open", "fin", "reset"} /\ interest \subseteq {"in", "out"} /\ down \in BOOLEAN
        /\ pc \in {"ctrl", "flushCtrl", "flush", "take", "check", "wait",
                   "drainCtrl", "drain", "ending", "end"}
    BY DEF Init
  <2> QED
    BY <2>1, <2>2, <2>3, <2>4, <2>5, <2>6 DEF TypeOK
<1>2. SlotInv /\ PcInv
  BY DEF Init, SlotInv, PcInv
<1>3. DOMAIN wire = {} /\ Len(wire) = 0
  BY DEF Init
<1>4. \A kind : Of(kind) = {}
  BY <1>3 DEF Of
<1>5. 1..(Len(wire) - 1) = {}
  BY <1>3
<1>6. WireInv
  BY <1>4, <1>5 DEF WireInv, Chained
<1>7. TailInv
  BY <1>4 DEF Init, TailInv
<1> QED
  BY <1>1, <1>2, <1>6, <1>7 DEF WriterInv

-----------------------------------------------------------------------------
(* What is lost with a sink *)

\* The messages lost are a number of messages, the sinks closed a number of sinks.
LEMMA LossCounted ==
    ASSUME TypeOK, sink # 0 => adopted # 0
    PROVE  IsFiniteSet(Lost) /\ Cardinality(Lost) \in Nat /\ Closed \in Nat
<1>1. whole \in Nat /\ adopted \in Nat
  BY BoundAssumption DEF TypeOK
<1>2. IsFiniteSet(1..whole)
  BY <1>1, FS_Interval
<1>3. IsFiniteSet(Lost)
  BY <1>2, FS_Subset DEF Lost
<1>4. Cardinality(Lost) \in Nat
  BY <1>3, FS_CardinalityType
<1>5. Closed \in Nat
  BY <1>1 DEF Closed
<1> QED
  BY <1>3, <1>4, <1>5

\* A step that loses nothing.
LEMMA NoLoss ==
    ASSUME TypeOK, LossInv, Lost' \subseteq Lost, Closed' = Closed, sink' # 0 => adopted' # 0
    PROVE  LossInv'
<1>1. IsFiniteSet(Lost) /\ Cardinality(Lost) \in Nat /\ Closed \in Nat
  BY LossCounted DEF LossInv
<1>2. PICK L : L = Lost'
  OBVIOUS
<1>3. IsFiniteSet(L) /\ Cardinality(L) <= Cardinality(Lost)
  BY <1>1, <1>2, FS_Subset
<1>4. Cardinality(L) \in Nat
  BY <1>3, FS_CardinalityType
<1>5. Cardinality(L) <= Closed
  BY <1>1, <1>3, <1>4 DEF LossInv, OneLostPerSink
<1> QED
  BY <1>2, <1>5 DEF LossInv, OneLostPerSink

\* A sink that is closed takes the message of the slot with it.
LEMMA CloseLoses ==
    ASSUME TypeOK, LossInv, sink # 0, CloseSink, UNCHANGED <<complete, whole, adopted>>
    PROVE  LossInv'
<1>1. IsFiniteSet(Lost) /\ Cardinality(Lost) \in Nat /\ Closed \in Nat
  BY LossCounted DEF LossInv
<1>2. sink' = 0 /\ Closed' = Closed + 1
  <2>1. adopted \in Nat /\ sink' = 0
    BY BoundAssumption DEF TypeOK, CloseSink
  <2>2. Closed = adopted - 1 /\ Closed' = adopted
    BY <2>1 DEF Closed
  <2> QED
    BY <2>1, <2>2
<1>3. Lost' \subseteq Lost \cup {pending}
  BY DEF Lost
<1>4. PICK M : M = Lost \cup {pending}
  OBVIOUS
<1>5. /\ IsFiniteSet(M)
      /\ Cardinality(M) = Cardinality(Lost) \/ Cardinality(M) = Cardinality(Lost) + 1
  BY <1>1, <1>4, FS_AddElement
<1>6. PICK L : L = Lost'
  OBVIOUS
<1>7. Cardinality(L) <= Cardinality(M)
  BY <1>3, <1>4, <1>5, <1>6, FS_Subset
<1>8. Cardinality(L) \in Nat /\ Cardinality(M) \in Nat
  BY <1>3, <1>4, <1>5, <1>6, FS_Subset, FS_CardinalityType
<1>9. Cardinality(L) <= Closed + 1
  BY <1>1, <1>5, <1>7, <1>8 DEF LossInv, OneLostPerSink
<1> QED
  BY <1>2, <1>6, <1>9 DEF LossInv, OneLostPerSink

\* Every step keeps the losses within the sinks closed.
LEMMA StepLoss == TypeOK /\ SlotInv /\ PcInv /\ LossInv /\ [Next]_vars => LossInv'
<1> SUFFICES ASSUME TypeOK, SlotInv, PcInv, LossInv, [Next]_vars PROVE LossInv'
  OBVIOUS
<1>1. CASE UNCHANGED <<complete, pending, whole, sink, adopted>>
  BY <1>1 DEF LossInv, OneLostPerSink, Lost, Closed
<1>2. ASSUME sink # 0, CloseSink, UNCHANGED <<complete, whole, adopted>>
      PROVE  LossInv'
  BY <1>2, CloseLoses
<1>3. CASE AdoptSink
  <2>1. adopted \in Nat /\ sink = 0 /\ sink' = adopted + 1 /\ adopted' = adopted + 1
    BY <1>3, BoundAssumption DEF AdoptSink, TypeOK
  <2>2. Closed' = Closed /\ adopted' # 0
    BY <2>1 DEF Closed
  <2>3. Lost' = Lost
    BY <1>3 DEF AdoptSink, Lost, slots
  <2> QED
    BY <2>2, <2>3, NoLoss
<1>4. CASE SendData
  <2>1. UNCHANGED <<whole, sink, adopted>>
    BY <1>4 DEF SendData, counts
  <2>2. \/ pending' = pending /\ complete' = complete
        \/ pending' = 0 /\ complete' = complete \cup {pending}
    BY <1>4 DEF SendData
  <2>3. Lost' \subseteq Lost
    BY <2>1, <2>2 DEF Lost
  <2>4. Closed' = Closed /\ (sink' # 0 => adopted' # 0)
    BY <2>1 DEF Closed, LossInv
  <2> QED
    BY <2>3, <2>4, NoLoss
<1>5. CASE Take
  <2>1. /\ whole' = whole + 1 /\ pending' = whole + 1 /\ pending = 0
        /\ UNCHANGED <<complete, sink, adopted>>
    BY <1>5 DEF Take, PcInv, history
  <2>2. whole \in Nat
    BY BoundAssumption DEF TypeOK
  <2>3. Lost' \subseteq Lost
    BY <2>1, <2>2 DEF Lost
  <2>4. Closed' = Closed /\ (sink' # 0 => adopted' # 0)
    BY <2>1 DEF Closed, LossInv
  <2> QED
    BY <2>3, <2>4, NoLoss
<1>6. CASE DrainMessage
  <2>1. UNCHANGED <<pending, whole, sink, adopted>> /\ complete \subseteq complete'
    BY <1>6 DEF DrainMessage, slots
  <2>2. Lost' \subseteq Lost
    BY <2>1 DEF Lost
  <2>3. Closed' = Closed /\ (sink' # 0 => adopted' # 0)
    BY <2>1 DEF Closed, LossInv
  <2> QED
    BY <2>2, <2>3, NoLoss
<1>7. CASE ReplaceSink \/ SendFailed \/ SinkHungUp
  <2>1. sink # 0 /\ CloseSink /\ UNCHANGED <<complete, whole, adopted>>
    BY <1>7 DEF ReplaceSink, SendFailed, SinkHungUp, Writing, PcInv, counts, history
  <2> QED
    BY <1>2, <2>1
<1>8. CASE SinkInput
  <2>1. sink # 0 /\ UNCHANGED <<complete, whole, adopted>>
    BY <1>8 DEF SinkInput, Readable
  <2>2. CloseSink \/ UNCHANGED <<sink, pending>>
    BY <1>8 DEF SinkInput
  <2> QED
    BY <1>1, <1>2, <2>1, <2>2
<1>9. CASE End
  <2>1. UNCHANGED <<complete, whole, adopted>>
    BY <1>9 DEF End, counts
  <2>2. (sink # 0 /\ CloseSink) \/ UNCHANGED <<sink, pending>>
    BY <1>9 DEF End, slots
  <2> QED
    BY <1>1, <1>2, <2>1, <2>2
<1>10. CASE SinkStep \/ UNCHANGED vars
  BY <1>1, <1>10 DEF SinkStep, SinkJoin, SourcePush, Stop, SinkReads, SinkSends, SinkCloses,
                     vars, slots, counts, history
<1>11. CASE CtrlEmpty \/ SendCtrl \/ CtrlWritten \/ SendBlocked \/ AllWritten \/ TakeNone
  BY <1>1, <1>11 DEF CtrlEmpty, SendCtrl, CtrlWritten, SendBlocked, AllWritten, TakeNone,
                     slots, counts, history
<1>12. CASE CheckDone \/ CheckDrain \/ CheckNot \/ DrainCtrlEmpty \/ DrainDone \/ SinkWritable \/ OtherEvent
  BY <1>1, <1>12 DEF CheckDone, CheckDrain, CheckNot, DrainCtrlEmpty, DrainDone, SinkWritable,
                     OtherEvent, slots, counts, history
<1> QED
  BY <1>3, <1>4, <1>5, <1>6, <1>7, <1>8, <1>9, <1>10, <1>11, <1>12 DEF Next, AggStep

-----------------------------------------------------------------------------
(* The theorems *)

\* At every moment the offsets lie inside the frames of the slots, and the wire
\* holds what was written of them and of the frames before (agg.c:314-345).
THEOREM WriterInvariant == Spec => []WriterInv
<1>1. WriterInv /\ [Next]_vars => WriterInv'
  BY StepTyped, StepSlots, StepWire DEF WriterInv
<1> QED
  BY InitWriter, <1>1, PTL DEF Spec

\* The last unit of a kind is followed by what its slot holds.
LEMMA TailGoesOn ==
    ASSUME WriterInv
    PROVE  /\ GoesOn("data", DataLen, pending, pendingOff)
           /\ GoesOn("pong", CtrlLen, pendingCtrl, pendingCtrlOff)
<1> USE DEF WriterInv
<1>1. ASSUME NEW i \in Of("data"), sink # 0, Last("data", i)
      PROVE  IF wire[i][3] < DataLen /\ ~Cuttable(wire[i])
             THEN wire[i][2] = pending /\ wire[i][3] = pendingOff
             ELSE pendingOff = 0
  <2>1. CASE pendingOff = 0
    <3>1. Cuttable(wire[i]) \/ ~(wire[i][3] < DataLen)
      BY <1>1, <2>1, LenAssumption DEF TailInv
    <3> QED
      BY <2>1, <3>1
  <2>2. CASE pendingOff # 0
    <3>1. wire[i][2] = pending /\ wire[i][3] = pendingOff
      BY <1>1, <2>2, OneLast DEF TailInv
    <3>2. pending # 0 /\ pendingOff < DataLen /\ pending = whole
      BY <2>2 DEF SlotInv
    <3>3. whole \in Nat
      BY BoundAssumption DEF TypeOK
    <3> QED
      BY <3>1, <3>2, <3>3 DEF Cuttable
  <2> QED
    BY <2>1, <2>2
<1>2. ASSUME NEW i \in Of("pong"), sink # 0, Last("pong", i)
      PROVE  IF wire[i][3] < CtrlLen /\ ~Cuttable(wire[i])
             THEN wire[i][2] = pendingCtrl /\ wire[i][3] = pendingCtrlOff
             ELSE pendingCtrlOff = 0
  <2>1. CASE pendingCtrlOff = 0
    BY <1>2, <2>1, LenAssumption DEF TailInv
  <2>2. CASE pendingCtrlOff # 0
    <3>1. wire[i][2] = pendingCtrl /\ wire[i][3] = pendingCtrlOff /\ wire[i][1] = "pong"
      BY <1>2, <2>2, OneLast DEF TailInv, Of
    <3>2. pendingCtrlOff < CtrlLen
      BY <2>2 DEF SlotInv
    <3> QED
      BY <3>1, <3>2 DEF Cuttable
  <2> QED
    BY <2>1, <2>2
<1> QED
  BY <1>1, <1>2 DEF GoesOn

\* What one sink gets (agg.c:267-283, 314-345, 474-487), for any lengths of frames
\* and any room in the socket: no byte of a frame twice and none out of order,
\* and before the drain every frame of a kind whole but the last, whose rest the
\* slot holds as long as the sink is there. A frame that closeSink() drops and
\* those the drain writes may be cut.
THEOREM FramesIntactAlways == Spec => []FramesIntact
<1>1. WriterInv => FramesIntact
  BY TailGoesOn DEF WriterInv, WireInv, FramesIntact, Contiguous
<1> QED
  BY WriterInvariant, <1>1, PTL

\* A closed sink costs at most the one message that was in the slot, before the
\* drain (agg.c:267-283, 425-462).
THEOREM OneLostPerSinkAlways == Spec => []OneLostPerSink
<1>1. Init => LossInv
  <2> SUFFICES ASSUME Init PROVE LossInv
    OBVIOUS
  <2>1. Lost = {} /\ Closed = 0
    BY DEF Init, Lost, Closed
  <2>2. Cardinality({}) = 0
    BY FS_EmptySet
  <2> QED
    BY <2>1, <2>2 DEF Init, LossInv, OneLostPerSink
<1>2. WriterInv /\ LossInv /\ [Next]_vars => LossInv'
  BY StepLoss DEF WriterInv
<1>3. LossInv => OneLostPerSink
  BY DEF LossInv
<1> QED
  BY WriterInvariant, <1>1, <1>2, <1>3, PTL DEF Spec

\* EPOLLOUT is asked for exactly when a slot is full (agg.c:347-354).
THEOREM ArmedForSlotsAlways == Spec => []ArmedForSlots
<1>1. WriterInv => ArmedForSlots
  BY DEF WriterInv, PcInv, ArmedForSlots
<1> QED
  BY WriterInvariant, <1>1, PTL
=============================================================================
