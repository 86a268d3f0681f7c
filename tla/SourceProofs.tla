---------------------------- MODULE SourceProofs ----------------------------
(***************************************************************************)
(* Theorems about Source for any frames, any command lines, any arrivals   *)
(* of bytes and any sizes the assumptions of Source allow.                 *)
(***************************************************************************)
EXTENDS Source, SequenceLemmas

-----------------------------------------------------------------------------
(* Folds over sequences *)

\* What is left of the numbers up to k when the largest is taken out.
LEMMA LastOfInterval ==
    ASSUME NEW k \in Nat \ {0}
    PROVE  Max(1..k) = k /\ (1..k) \ {k} = 1..(k - 1) /\ 1..k # {}
<1>1. k \in 1..k /\ \A y \in 1..k : k >= y
  OBVIOUS
<1>2. \A x \in 1..k : (\A y \in 1..k : x >= y) => x = k
  BY <1>1
<1>3. Max(1..k) = k
  BY <1>1, <1>2 DEF Max
<1> QED
  BY <1>1, <1>3

\* A nonempty set of numbers with a bound has a largest one.
LEMMA MaxOfBounded ==
    ASSUME NEW n \in Nat, NEW s, s \subseteq 0..n, s # {}
    PROVE  Max(s) \in s /\ \A x \in s : x <= Max(s)
<1> DEFINE up == {m \in Nat : \A x \in s : x <= m}
<1>1. n \in up
  OBVIOUS
<1>2. PICK m \in up : \A k \in up : m <= k
  <2>1. up # {} /\ up \subseteq Nat
    BY <1>1
  <2> HIDE DEF up
  <2> QED
    BY <2>1, NatMin
<1>3. m \in s
  <2> SUFFICES ASSUME m \notin s PROVE FALSE
    OBVIOUS
  <2>1. PICK x \in s : TRUE
    OBVIOUS
  <2>2. \A y \in s : y \in Nat /\ y <= m - 1
    BY <1>2
  <2>3. m - 1 \in Nat
    BY <1>2, <2>1, <2>2
  <2>4. m - 1 \in up
    BY <2>2, <2>3
  <2> QED
    BY <1>2, <2>4
<1>4. \E x \in s : \A y \in s : x >= y
  BY <1>2, <1>3
<1>5. Max(s) \in s /\ \A y \in s : Max(s) >= y
  BY <1>4 DEF Max
<1> QED
  BY <1>5

\* A fold from left to right, one step for each number up to n, is well defined.
LEMMA LeftFold ==
    ASSUME NEW n \in Nat, NEW S, S = 1..n, NEW V, NEW base \in V, NEW op \in [S \X V -> V],
           NEW ch, ch = [s \in SUBSET S |-> Max(s)]
    PROVE  \E g : FoldOf(g, S, V, base, op, ch)
<1>1. IsFiniteSet(S)
  <2>1. n \in Int /\ 1 \in Int
    OBVIOUS
  <2> QED
    BY <2>1, FS_Interval
<1>2. Chooses(ch, S)
  <2>1. ASSUME NEW s \in SUBSET S, s # {} PROVE ch[s] \in s
    <3>1. s \subseteq 0..n
      OBVIOUS
    <3> QED
      BY <2>1, <3>1, MaxOfBounded
  <2> QED
    BY <2>1 DEF Chooses
<1> QED
  BY <1>1, <1>2, FoldDefined

-----------------------------------------------------------------------------
(* Numbers as bytes *)

\* A number is read from its bytes by steps, the highest byte first.
LEMMA BigEndianSteps ==
    ASSUME NEW bytes \in Seq(Nat)
    PROVE  \E acc :
              /\ acc[0] = 0
              /\ \A i \in 1..Len(bytes) : acc[i] = 256 * acc[i-1] + bytes[i]
              /\ BigEndian(bytes) = acc[Len(bytes)]
<1> DEFINE S == DOMAIN bytes
           Body(g) == [s \in SUBSET S |-> IF s = {} THEN 0
                                          ELSE 256 * g[s \ {Max(s)}] + bytes[Max(s)]]
           it == CHOOSE g : g = Body(g)
<1>1. BigEndian(bytes) = it[S]
  BY DEF BigEndian, FoldLeft, MapThenFoldSet
<1>2. S = 1..Len(bytes) /\ Len(bytes) \in Nat /\ \A i \in S : bytes[i] \in Nat
  OBVIOUS
<1>3. \E g : g = Body(g)
  <2> DEFINE ch == [s \in SUBSET S |-> Max(s)]
             op == [p \in S \X Nat |-> 256 * p[2] + bytes[p[1]]]
  <2>1. op \in [S \X Nat -> Nat]
    BY <1>2
  <2>2. PICK g : FoldOf(g, S, Nat, 0, op, ch)
    <3> HIDE DEF op, S
    <3> QED
      BY <1>2, <2>1, LeftFold
  <2>3. ASSUME NEW s \in SUBSET S, s # {}
        PROVE  op[<<ch[s], g[s \ {ch[s]}]>>] = 256 * g[s \ {Max(s)}] + bytes[Max(s)]
    <3>1. ch[s] = Max(s) /\ Max(s) \in S
      <4>1. s \subseteq 0..Len(bytes) /\ s \subseteq S
        BY <1>2
      <4>2. Max(s) \in s
        BY <1>2, <2>3, <4>1, MaxOfBounded
      <4> QED
        BY <4>1, <4>2
    <3>2. g[s \ {ch[s]}] \in Nat
      BY <2>2 DEF FoldOf
    <3> HIDE DEF ch
    <3> QED
      BY <3>1, <3>2
  <2>4. g = Body(g)
    <3> HIDE DEF op, ch
    <3> QED
      BY <2>2, <2>3 DEF FoldOf
  <2> HIDE DEF Body
  <2> QED
    BY ONLY <2>4
<1>4. it = Body(it)
  BY <1>3
<1> HIDE DEF it
<1>5. it[{}] = 0
  BY <1>4
<1>6. ASSUME NEW k \in 1..Len(bytes)
      PROVE  it[1..k] = 256 * it[1..(k-1)] + bytes[k]
  <2>1. k \in Nat \ {0} /\ 1..k \in SUBSET S
    BY <1>2
  <2>2. it[1..k] = IF 1..k = {} THEN 0 ELSE 256 * it[(1..k) \ {Max(1..k)}] + bytes[Max(1..k)]
    BY <1>4, <2>1
  <2> QED
    BY <2>1, <2>2, LastOfInterval
<1> DEFINE acc == [i \in 0..Len(bytes) |-> it[1..i]]
<1>7. acc[0] = 0 /\ acc[Len(bytes)] = BigEndian(bytes)
  <2>1. 1..0 = {} /\ 0 \in 0..Len(bytes) /\ Len(bytes) \in 0..Len(bytes)
    BY <1>2
  <2> QED
    BY <1>1, <1>2, <1>5, <2>1
<1>8. \A i \in 1..Len(bytes) : acc[i] = 256 * acc[i-1] + bytes[i]
  <2>1. \A i \in 1..Len(bytes) : i \in 0..Len(bytes) /\ i - 1 \in 0..Len(bytes)
    BY <1>2
  <2> QED
    BY <1>6, <2>1
<1> HIDE DEF acc
<1> QED
  BY <1>7, <1>8

\* Shifting right by whole bytes.
LEMMA Shifts ==
    ASSUME NEW n \in Nat
    PROVE  /\ ShiftedRight(n, 0) = n
           /\ \A k \in Nat : /\ ShiftedRight(n, k) \in Nat
                             /\ ShiftedRight(n, k + 1) = ShiftedRight(n, k) \div 256
<1> DEFINE Body(f) == [k \in Nat |-> IF k = 0 THEN n ELSE f[k - 1] \div 256]
           shifted == CHOOSE f : f = Body(f)
<1>1. \A k : ShiftedRight(n, k) = shifted[k]
  BY DEF ShiftedRight
<1>2. \E f : f = Body(f)
  <2> DEFINE rank == [k \in Nat |-> k]
             step == [f \in [Nat -> Nat] |-> Body(f)]
  <2>1. rank \in [Nat -> Nat] /\ step \in [[Nat -> Nat] -> [Nat -> Nat]]
    <3>1. ASSUME NEW f \in [Nat -> Nat] PROVE Body(f) \in [Nat -> Nat]
      <4>1. \A k \in Nat : k # 0 => k - 1 \in Nat
        OBVIOUS
      <4>2. \A m \in Nat : m \div 256 \in Nat
        OBVIOUS
      <4> QED
        BY <4>1, <4>2
    <3> QED
      BY <3>1
  <2>2. ASSUME NEW f \in [Nat -> Nat], NEW g \in [Nat -> Nat], NEW k \in Nat,
               \A j \in Nat : rank[j] < rank[k] => f[j] = g[j]
        PROVE  step[f][k] = step[g][k]
    <3>1. k # 0 => k - 1 \in Nat /\ k - 1 < k
      OBVIOUS
    <3>2. k # 0 => f[k - 1] = g[k - 1]
      BY <2>2, <3>1
    <3> QED
      BY <3>2
  <2>3. RankedStep(Nat, Nat, rank, step)
    <3> HIDE DEF rank, step
    <3> QED
      BY <2>1, <2>2 DEF RankedStep
  <2>4. PICK f \in [Nat -> Nat] : f = step[f]
    <3> HIDE DEF rank, step
    <3>1. Nat # {}
      OBVIOUS
    <3> QED
      BY <2>3, <3>1, RankedRecursion
  <2> QED
    BY <2>4
<1>3. shifted = Body(shifted)
  BY <1>2
<1> HIDE DEF shifted
<1>4. shifted[0] = n /\ \A k \in Nat : shifted[k + 1] = shifted[k] \div 256
  <2>1. \A k \in Nat : k + 1 \in Nat /\ k + 1 # 0 /\ (k + 1) - 1 = k
    OBVIOUS
  <2> QED
    BY <1>3, <2>1
<1>5. \A k \in Nat : shifted[k] \in Nat
  <2> DEFINE T == {k \in Nat : shifted[k] \in Nat}
  <2>1. 0 \in T /\ \A k \in Nat : k \in T => k + 1 \in T
    <3>1. \A m \in Nat : m \div 256 \in Nat
      OBVIOUS
    <3> QED
      BY <1>4, <3>1
  <2>2. \A k \in Nat : k \in T
    <3> HIDE DEF T
    <3> QED
      BY <2>1, NatUp
  <2> QED
    BY <2>2
<1> QED
  BY <1>1, <1>4, <1>5

\* Dividing by 256 leaves a byte.
LEMMA ByteRest ==
    ASSUME NEW m \in Nat
    PROVE  m \div 256 \in Nat /\ m % 256 \in Byte /\ m = 256 * (m \div 256) + (m % 256)
<1>1. m \div 256 \in Nat
  OBVIOUS
<1>2. m % 256 \in Int /\ m % 256 >= 0 /\ m % 256 <= 255
  OBVIOUS
<1>3. m % 256 \in Byte
  BY <1>2 DEF Byte
<1>4. m = 256 * (m \div 256) + (m % 256)
  OBVIOUS
<1> QED
  BY <1>1, <1>3, <1>4

\* BytesOf() writes a number, highest byte first, and reading takes it back if
\* the bytes are enough for it.
LEMMA BytesRead ==
    ASSUME NEW n \in Nat, NEW c \in Nat
    PROVE  /\ BytesOf(n, c) \in Seq(Byte) /\ Len(BytesOf(n, c)) = c
           /\ ShiftedRight(n, c) = 0 => BigEndian(BytesOf(n, c)) = n
<1> DEFINE bytes == BytesOf(n, c)
           s(k) == ShiftedRight(n, k)
<1>1. \A k \in Nat : s(k) \in Nat /\ s(k + 1) = s(k) \div 256 /\ s(k) % 256 \in Byte
                     /\ s(k) = 256 * s(k + 1) + (s(k) % 256)
  BY Shifts, ByteRest
<1>2. bytes = [i \in 1..c |-> s(c - i) % 256]
  BY DEF BytesOf
<1>3. s(0) = n
  BY Shifts
<1> HIDE DEF s, bytes
<1>4. ASSUME NEW i \in 1..c
      PROVE  c - i \in Nat /\ bytes[i] = s(c - i) % 256 /\ bytes[i] \in Byte
  <2>1. c - i \in Nat
    OBVIOUS
  <2>2. bytes[i] = s(c - i) % 256
    BY <1>2
  <2> QED
    BY <1>1, <2>1, <2>2
<1>5. bytes \in Seq(Byte) /\ Len(bytes) = c
  <2>1. bytes = [i \in 1..c |-> bytes[i]]
    BY <1>2
  <2> QED
    BY <1>4, <2>1
<1>6. ASSUME s(c) = 0 PROVE BigEndian(bytes) = n
  <2>1. bytes \in Seq(Nat)
    <3>1. ASSUME NEW i \in 1..c PROVE bytes[i] \in Nat
      <4>1. bytes[i] \in Byte
        BY <1>4
      <4> QED
        BY <4>1 DEF Byte
    <3>2. bytes = [i \in 1..c |-> bytes[i]]
      BY <1>2
    <3> QED
      BY <3>1, <3>2
  <2>2. PICK acc : /\ acc[0] = 0
                   /\ \A i \in 1..c : acc[i] = 256 * acc[i-1] + bytes[i]
                   /\ BigEndian(bytes) = acc[c]
    BY <1>5, <2>1, BigEndianSteps
  <2> DEFINE T == {i \in Nat : i <= c => acc[i] = s(c - i)}
  <2>3. 0 \in T
    BY <1>6, <2>2
  <2>4. ASSUME NEW i \in Nat, i \in T PROVE i + 1 \in T
    <3> SUFFICES ASSUME i + 1 <= c PROVE acc[i + 1] = s(c - (i + 1))
      OBVIOUS
    <3> DEFINE k == c - (i + 1)
    <3>1. k \in Nat /\ c - i = k + 1 /\ i + 1 \in 1..c /\ (i + 1) - 1 = i
      OBVIOUS
    <3>2. acc[i] = s(k + 1)
      BY <2>4, <3>1
    <3>3. bytes[i + 1] = s(k) % 256
      BY <1>4, <3>1
    <3>4. acc[i + 1] = 256 * acc[i] + bytes[i + 1]
      BY <2>2, <3>1
    <3> HIDE DEF k
    <3>5. acc[i + 1] = s(k)
      BY <1>1, <3>1, <3>2, <3>3, <3>4
    <3> QED
      BY <3>5 DEF k
  <2>5. \A i \in Nat : i \in T
    <3> HIDE DEF T
    <3> QED
      BY <2>3, <2>4, NatUp
  <2>6. acc[c] = s(0)
    BY <2>5
  <2> QED
    BY <1>3, <2>2, <2>6
<1> QED
  BY <1>5, <1>6 DEF bytes, s

-----------------------------------------------------------------------------
(* Capacities *)

\* A capacity that doubles until it is enough is enough.
LEMMA DoubledEnough ==
    ASSUME NEW cap \in Nat \ {0}, NEW need \in Nat
    PROVE  Doubled(cap, need) \in Nat /\ Doubled(cap, need) >= need /\ Doubled(cap, need) >= cap
<1> DEFINE P == Nat \ {0}
           Body(f) == [c \in P |-> IF c < need THEN f[2 * c] ELSE c]
           enough == CHOOSE f : f = Body(f)
<1>1. Doubled(cap, need) = enough[cap]
  BY DEF Doubled
<1>2. \A c \in P : c \in Nat /\ 2 * c \in P /\ c < 2 * c
  OBVIOUS
<1> DEFINE rank == [c \in P |-> IF c < need THEN need - c ELSE 0]
<1>3. rank \in [P -> Nat] /\ \A c \in P : c < need => rank[2 * c] < rank[c]
  <2>1. \A c \in P : c < need => need - c \in Nat
    OBVIOUS
  <2>2. \A c \in P : c < need => rank[2 * c] < rank[c]
    OBVIOUS
  <2> QED
    BY <2>1, <2>2
<1> HIDE DEF rank
<1>4. \E f : f = Body(f)
  <2> DEFINE step == [f \in [P -> Nat] |-> Body(f)]
  <2>1. step \in [[P -> Nat] -> [P -> Nat]]
    <3>1. ASSUME NEW f \in [P -> Nat] PROVE Body(f) \in [P -> Nat]
      <4> HIDE DEF P
      <4> QED
        BY <1>2
    <3> QED
      BY <3>1
  <2>2. ASSUME NEW f \in [P -> Nat], NEW g \in [P -> Nat], NEW c \in P,
               \A d \in P : rank[d] < rank[c] => f[d] = g[d]
        PROVE  step[f][c] = step[g][c]
    <3>1. c < need => f[2 * c] = g[2 * c]
      BY <1>2, <1>3, <2>2
    <3> QED
      BY <3>1
  <2>3. RankedStep(P, Nat, rank, step)
    <3> HIDE DEF P, step
    <3> QED
      BY <1>3, <2>1, <2>2 DEF RankedStep
  <2>4. PICK f \in [P -> Nat] : f = step[f]
    <3> HIDE DEF P, step
    <3>1. Nat # {}
      OBVIOUS
    <3> QED
      BY <2>3, <3>1, RankedRecursion
  <2> QED
    BY <2>4
<1>5. enough = Body(enough)
  BY <1>4
<1> HIDE DEF enough
<1> DEFINE T == {r \in Nat : \A c \in P : rank[c] < r =>
                     enough[c] \in Nat /\ enough[c] >= need /\ enough[c] >= c}
<1>6. 0 \in T
  BY <1>3
<1>7. ASSUME NEW r \in Nat, r \in T PROVE r + 1 \in T
  <2> SUFFICES ASSUME NEW c \in P, rank[c] < r + 1
               PROVE  enough[c] \in Nat /\ enough[c] >= need /\ enough[c] >= c
    OBVIOUS
  <2>1. enough[c] = IF c < need THEN enough[2 * c] ELSE c
    BY <1>5
  <2>2. CASE c < need
    <3>1. 2 * c \in P /\ rank[2 * c] < r
      BY <1>2, <1>3, <2>2
    <3>2. enough[2 * c] \in Nat /\ enough[2 * c] >= need /\ enough[2 * c] >= 2 * c
      BY <1>7, <3>1
    <3> QED
      BY <1>2, <2>1, <2>2, <3>2
  <2>3. CASE ~(c < need)
    BY <2>1, <2>3
  <2> QED
    BY <2>2, <2>3
<1>8. \A r \in Nat : r \in T
  <2> HIDE DEF T
  <2> QED
    BY <1>6, <1>7, NatUp
<1>9. cap \in P /\ rank[cap] + 1 \in Nat /\ rank[cap] < rank[cap] + 1
  BY <1>3
<1> QED
  BY <1>1, <1>8, <1>9

-----------------------------------------------------------------------------
(* The header of a frame *)

\* Bytes of an extended length in each form.
LenBytes(form) == CASE form = 7 -> 0 [] form = 16 -> 2 [] OTHER -> 8

\* The fields of a frame.
LEMMA FrameFields ==
    ASSUME NEW f \in FrameType
    PROVE  /\ f.fin \in BOOLEAN /\ f.rsv \in 0..7 /\ f.op \in 0..15 /\ f.masked \in BOOLEAN
           /\ f.form \in {7, 16, 63, 64} /\ f.size \in Nat /\ f.body \in Seq(Byte)
           /\ Len(f.body) <= f.size
           /\ f.form = 7 => f.size <= 125
           /\ f.form = 16 => ShiftedRight(f.size, 2) = 0
           /\ f.form = 63 => ShiftedRight(f.size, 7) = 0
           /\ f.form = 64 => ShiftedRight(f.size, 7) < 128
<1>1. /\ f \in [fin : BOOLEAN, rsv : 0..7, op : 0..15, masked : BOOLEAN,
                form : {7, 16, 63, 64}, size : Nat, body : Seq(Byte)]
      /\ Len(f.body) <= f.size
  BY DEF FrameType
<1>2. (CASE f.form = 7  -> f.size <= 125
        [] f.form = 16 -> ShiftedRight(f.size, 2) = 0
        [] f.form = 63 -> ShiftedRight(f.size, 7) = 0
        [] f.form = 64 -> ShiftedRight(f.size, 7) < 128)
  BY DEF FrameType
<1>3. f.form = 7 => f.size <= 125
  BY <1>2
<1>4. f.form = 16 => ShiftedRight(f.size, 2) = 0
  BY <1>2
<1>5. f.form = 63 => ShiftedRight(f.size, 7) = 0
  BY <1>2
<1>6. f.form = 64 => ShiftedRight(f.size, 7) < 128
  BY <1>2
<1> QED
  BY <1>1, <1>3, <1>4, <1>5, <1>6

\* What stands where in two sequences put together.
LEMMA ConcatAt ==
    ASSUME NEW S, NEW a \in Seq(S), NEW b \in Seq(S)
    PROVE  /\ a \o b \in Seq(S) /\ Len(a \o b) = Len(a) + Len(b)
           /\ \A i \in 1..Len(a) : (a \o b)[i] = a[i]
           /\ \A i \in 1..Len(b) : (a \o b)[Len(a) + i] = b[i]
  OBVIOUS

\* The bytes of a header: two, those of the length, and the key.
LEMMA HeadShape ==
    ASSUME NEW f \in FrameType, NEW h, h = HeadBytes(f)
    PROVE  /\ h \in Seq(Byte)
           /\ Len(h) = 2 + LenBytes(f.form) + (IF f.masked THEN 4 ELSE 0)
           /\ h[1] = (IF f.fin THEN 128 ELSE 0) + 16 * f.rsv + f.op
           /\ h[2] = (IF f.masked THEN 128 ELSE 0)
                     + (CASE f.form = 7 -> f.size [] f.form = 16 -> 126 [] OTHER -> 127)
           /\ f.form = 16 => \A i \in 1..2 : h[2 + i] = BytesOf(f.size, 2)[i]
           /\ f.form = 64 => \A i \in 1..8 : h[2 + i] = BytesOf(f.size, 8)[i]
           /\ f.form = 63 => h[3] = 128
<1> DEFINE first == (IF f.fin THEN 128 ELSE 0) + 16 * f.rsv + f.op
           mask == IF f.masked THEN 128 ELSE 0
           key == IF f.masked THEN <<0, 0, 0, 0>> ELSE <<>>
           mid == CASE f.form = 7  -> <<mask + f.size>>
                    [] f.form = 16 -> <<mask + 126>> \o BytesOf(f.size, 2)
                    [] f.form = 64 -> <<mask + 127>> \o BytesOf(f.size, 8)
                    [] f.form = 63 -> <<mask + 127, 128>> \o BytesOf(f.size, 7)
<1>1. h = <<first>> \o mid \o key
  BY DEF HeadBytes
<1>2. /\ f.form \in {7, 16, 63, 64} /\ f.size \in Nat /\ f.rsv \in 0..7 /\ f.op \in 0..15
      /\ f.form = 7 => f.size <= 125
  BY FrameFields
<1>3. first \in Byte /\ mask \in {0, 128} /\ first \in Nat
  BY <1>2 DEF Byte
<1>4. key \in Seq(Byte) /\ Len(key) = IF f.masked THEN 4 ELSE 0
  <2>1. 0 \in Byte
    BY DEF Byte
  <2>2. CASE f.masked
    <3>1. <<0, 0, 0, 0>> \in Seq(Byte) /\ Len(<<0, 0, 0, 0>>) = 4
      BY <2>1
    <3> QED
      BY <2>2, <3>1
  <2>3. CASE ~f.masked
    BY <2>3
  <2> QED
    BY <2>2, <2>3
<1>5. \A c \in {2, 7, 8} : BytesOf(f.size, c) \in Seq(Byte) /\ Len(BytesOf(f.size, c)) = c
  <2> SUFFICES ASSUME NEW c \in {2, 7, 8}
               PROVE  BytesOf(f.size, c) \in Seq(Byte) /\ Len(BytesOf(f.size, c)) = c
    OBVIOUS
  <2>1. c \in Nat
    OBVIOUS
  <2>2. f.size \in Nat
    BY ONLY <1>2
  <2> QED
    BY ONLY <2>1, <2>2, BytesRead
<1>6. /\ mid \in Seq(Byte) /\ Len(mid) = 1 + LenBytes(f.form)
      /\ mid[1] = mask + (CASE f.form = 7 -> f.size [] f.form = 16 -> 126 [] OTHER -> 127)
      /\ f.form = 16 => \A i \in 1..2 : mid[1 + i] = BytesOf(f.size, 2)[i]
      /\ f.form = 64 => \A i \in 1..8 : mid[1 + i] = BytesOf(f.size, 8)[i]
      /\ f.form = 63 => mid[2] = 128
  <2>0. \A x \in 0..127 : mask + x \in Byte
    BY <1>3 DEF Byte
  <2> HIDE DEF mask
  <2>1. CASE f.form = 7
    <3>1. mid = <<mask + f.size>> /\ mask + f.size \in Byte
      BY <1>2, <1>3, <2>1 DEF Byte
    <3> QED
      BY <2>1, <3>1 DEF LenBytes
  <2>2. CASE f.form = 16
    <3> DEFINE rest == BytesOf(f.size, 2)
    <3>1. mid = <<mask + 126>> \o rest
      BY <2>2
    <3>2. rest \in Seq(Byte) /\ Len(rest) = 2
      BY <1>5
    <3> HIDE DEF rest, mid
    <3> DEFINE a == <<mask + 126>>
    <3>3. a \in Seq(Byte) /\ Len(a) = 1 /\ a[1] = mask + 126
      BY <2>0
    <3>5. mid = a \o rest
      BY <3>1
    <3> HIDE DEF a
    <3>4. /\ mid \in Seq(Byte) /\ Len(mid) = 3 /\ mid[1] = mask + 126
          /\ \A i \in 1..2 : mid[1 + i] = rest[i]
      <4>0. /\ (a \o rest) \in Seq(Byte) /\ Len((a \o rest)) = Len(a) + Len(rest)
            /\ \A i \in 1..Len(a) : (a \o rest)[i] = a[i]
            /\ \A i \in 1..Len(rest) : (a \o rest)[Len(a) + i] = rest[i]
        <5>1. a \in Seq(Byte) /\ rest \in Seq(Byte)
          BY <3>2, <3>3
        <5> QED
          BY <5>1, ConcatAt
      <4>1. /\ mid \in Seq(Byte) /\ Len(mid) = Len(a) + Len(rest)
            /\ \A i \in 1..Len(a) : mid[i] = a[i]
            /\ \A i \in 1..Len(rest) : mid[Len(a) + i] = rest[i]
        BY <3>5, <4>0
      <4>2. 1 \in 1..Len(a)
        BY <3>3
      <4> QED
        BY <3>2, <3>3, <4>1, <4>2
    <3> QED
      BY <2>2, <3>4 DEF LenBytes, rest
  <2>3. CASE f.form = 64
    <3> DEFINE rest == BytesOf(f.size, 8)
    <3>1. mid = <<mask + 127>> \o rest
      BY <2>3
    <3>2. rest \in Seq(Byte) /\ Len(rest) = 8
      BY <1>5
    <3> HIDE DEF rest, mid
    <3> DEFINE a == <<mask + 127>>
    <3>3. a \in Seq(Byte) /\ Len(a) = 1 /\ a[1] = mask + 127
      BY <2>0
    <3>5. mid = a \o rest
      BY <3>1
    <3> HIDE DEF a
    <3>4. /\ mid \in Seq(Byte) /\ Len(mid) = 9 /\ mid[1] = mask + 127
          /\ \A i \in 1..8 : mid[1 + i] = rest[i]
      <4>0. /\ (a \o rest) \in Seq(Byte) /\ Len((a \o rest)) = Len(a) + Len(rest)
            /\ \A i \in 1..Len(a) : (a \o rest)[i] = a[i]
            /\ \A i \in 1..Len(rest) : (a \o rest)[Len(a) + i] = rest[i]
        <5>1. a \in Seq(Byte) /\ rest \in Seq(Byte)
          BY <3>2, <3>3
        <5> QED
          BY <5>1, ConcatAt
      <4>1. /\ mid \in Seq(Byte) /\ Len(mid) = Len(a) + Len(rest)
            /\ \A i \in 1..Len(a) : mid[i] = a[i]
            /\ \A i \in 1..Len(rest) : mid[Len(a) + i] = rest[i]
        BY <3>5, <4>0
      <4>2. 1 \in 1..Len(a)
        BY <3>3
      <4> QED
        BY <3>2, <3>3, <4>1, <4>2
    <3> QED
      BY <2>3, <3>4 DEF LenBytes, rest
  <2>4. CASE f.form = 63
    <3> DEFINE rest == BytesOf(f.size, 7)
    <3>1. mid = <<mask + 127, 128>> \o rest
      BY <2>4
    <3>2. rest \in Seq(Byte) /\ Len(rest) = 7
      BY <1>5
    <3> HIDE DEF rest, mid
    <3> DEFINE a == <<mask + 127, 128>>
    <3>3. a \in Seq(Byte) /\ Len(a) = 2 /\ a[1] = mask + 127 /\ a[2] = 128
      <4>1. 128 \in Byte
        BY DEF Byte
      <4> QED
        BY <2>0, <4>1
    <3>5. mid = a \o rest
      BY <3>1
    <3> HIDE DEF a
    <3>4. mid \in Seq(Byte) /\ Len(mid) = 9 /\ mid[1] = mask + 127 /\ mid[2] = 128
      <4>0. /\ (a \o rest) \in Seq(Byte) /\ Len((a \o rest)) = Len(a) + Len(rest)
            /\ \A i \in 1..Len(a) : (a \o rest)[i] = a[i]
        <5>1. a \in Seq(Byte) /\ rest \in Seq(Byte)
          BY <3>2, <3>3
        <5> QED
          BY <5>1, ConcatAt
      <4>1. /\ mid \in Seq(Byte) /\ Len(mid) = Len(a) + Len(rest)
            /\ \A i \in 1..Len(a) : mid[i] = a[i]
        BY <3>5, <4>0
      <4>2. 1 \in 1..Len(a) /\ 2 \in 1..Len(a)
        BY <3>3
      <4> QED
        BY <3>2, <3>3, <4>1, <4>2
    <3> QED
      BY <2>4, <3>4 DEF LenBytes
  <2> QED
    BY <1>2, <2>1, <2>2, <2>3, <2>4
<1>7. LenBytes(f.form) \in {0, 2, 8} /\ (f.form = 16 => LenBytes(f.form) = 2)
      /\ (f.form \in {63, 64} => LenBytes(f.form) = 8)
  BY <1>2 DEF LenBytes
<1> HIDE DEF first, mid, key
<1>8. <<first>> \o mid \in Seq(Byte) /\ Len(<<first>> \o mid) = 1 + Len(mid)
      /\ (<<first>> \o mid)[1] = first
      /\ \A i \in 1..Len(mid) : (<<first>> \o mid)[1 + i] = mid[i]
  BY <1>3, <1>6
<1>9. /\ h \in Seq(Byte) /\ Len(h) = 1 + Len(mid) + Len(key) /\ h[1] = first
      /\ \A i \in 1..Len(mid) : h[1 + i] = mid[i]
  <2> DEFINE front == <<first>> \o mid
  <2>1. h = front \o key /\ front \in Seq(Byte) /\ key \in Seq(Byte) /\ mid \in Seq(Byte)
    BY <1>1, <1>4, <1>6, <1>8
  <2>2. Len(front) = 1 + Len(mid) /\ front[1] = first
        /\ \A i \in 1..Len(mid) : front[1 + i] = mid[i]
    BY <1>8
  <2> HIDE DEF front
  <2>3. h \in Seq(Byte) /\ Len(h) = Len(front) + Len(key)
        /\ \A i \in 1..Len(front) : h[i] = front[i]
    BY <2>1
  <2>4. 1 \in 1..Len(front) /\ \A i \in 1..Len(mid) : 1 + i \in 1..Len(front)
    BY <2>1, <2>2
  <2> QED
    BY <2>2, <2>3, <2>4
<1>10. h[1 + 1] = mid[1]
  <2>1. 1 \in 1..Len(mid)
    BY <1>6, <1>7
  <2> QED
    BY <1>9, <2>1
<1>11. ASSUME f.form \in {16, 63, 64}, NEW i \in 1..LenBytes(f.form)
       PROVE  h[2 + i] = mid[1 + i]
  <2>1. i \in Nat /\ 1 + i \in 1..Len(mid) /\ 1 + (1 + i) = 2 + i
    BY <1>6, <1>7
  <2> QED
    BY <1>9, <2>1
<1>12. f.form = 16 => \A i \in 1..2 : h[2 + i] = BytesOf(f.size, 2)[i]
  BY <1>6, <1>7, <1>11
<1>13. f.form = 64 => \A i \in 1..8 : h[2 + i] = BytesOf(f.size, 8)[i]
  BY <1>6, <1>7, <1>11
<1>14. f.form = 63 => h[2 + 1] = 128
  BY <1>6, <1>7, <1>11
<1>15. Len(h) = 2 + LenBytes(f.form) + (IF f.masked THEN 4 ELSE 0)
  BY <1>4, <1>6, <1>7, <1>9
<1>16. h[2] = mask + (CASE f.form = 7 -> f.size [] f.form = 16 -> 126 [] OTHER -> 127)
  BY <1>6, <1>10
<1> QED
  BY <1>9, <1>12, <1>13, <1>14, <1>15, <1>16 DEF first

\* The three parts of the first byte of a header.
FirstByteIs(n, x, r, o) == x \in {0, 128} /\ r \in 0..7 /\ o \in 0..15 /\ n = x + 16 * r + o

\* They are read back by division.
LEMMA FirstByte ==
    ASSUME NEW n, NEW x, NEW r, NEW o, FirstByteIs(n, x, r, o)
    PROVE  (n >= 128 <=> x = 128) /\ (n \div 16) % 8 = r /\ n % 16 = o
<1> USE DEF FirstByteIs
<1> DEFINE y == IF x = 128 THEN 8 ELSE 0
<1>1. y \in {0, 8} /\ x = 16 * y
  OBVIOUS
<1>2. n = 16 * (y + r) + o /\ y + r \in Nat /\ n \in Nat
  BY <1>1
<1> HIDE DEF y
<1>3. n \div 16 = y + r /\ n % 16 = o
  BY <1>2
<1>4. (y + r) % 8 = r
  BY <1>1
<1> QED
  BY <1>1, <1>2, <1>3, <1>4

\* The two parts of the second.
LEMMA SecondByte ==
    ASSUME NEW m \in {0, 128}, NEW v \in 0..127, NEW n, n = m + v
    PROVE  (n >= 128 <=> m = 128) /\ n % 128 = v
  OBVIOUS

\* b[0], b[1], ... begin with the bytes of h.
Shows(b, h) == \A i \in 0..(Len(h) - 1) : b[i] = h[i + 1]

\* The parser reads the fields of a frame back from the bytes of its header.
LEMMA HeaderRead ==
    ASSUME NEW f \in FrameType, NEW h, h = HeadBytes(f),
           NEW b, Shows(b, h)
    PROVE  /\ Fin(b) = f.fin /\ Rsv(b) = f.rsv /\ Opcode(b) = f.op /\ Masked(b) = f.masked
           /\ Extended(b) = LenBytes(f.form) /\ HeaderLen(b) = Len(h)
           /\ f.form # 63 => PayloadLen(b) = f.size
           /\ f.form = 63 => b[2] = 128
<1>1. /\ f.form \in {7, 16, 63, 64} /\ f.size \in Nat /\ f.rsv \in 0..7 /\ f.op \in 0..15
      /\ f.form = 7 => f.size <= 125
      /\ f.fin \in BOOLEAN /\ f.masked \in BOOLEAN
  BY FrameFields
<1>2. /\ Len(h) = 2 + LenBytes(f.form) + (IF f.masked THEN 4 ELSE 0)
      /\ h[1] = (IF f.fin THEN 128 ELSE 0) + 16 * f.rsv + f.op
      /\ h[2] = (IF f.masked THEN 128 ELSE 0)
                + (CASE f.form = 7 -> f.size [] f.form = 16 -> 126 [] OTHER -> 127)
      /\ f.form = 16 => \A i \in 1..2 : h[2 + i] = BytesOf(f.size, 2)[i]
      /\ f.form = 64 => \A i \in 1..8 : h[2 + i] = BytesOf(f.size, 8)[i]
      /\ f.form = 63 => h[3] = 128
  BY HeadShape
<1>3. LenBytes(f.form) \in {0, 2, 8} /\ (f.form = 7 => LenBytes(f.form) = 0)
      /\ (f.form = 16 => LenBytes(f.form) = 2) /\ (f.form \in {63, 64} => LenBytes(f.form) = 8)
  BY <1>1 DEF LenBytes
<1>4. Len(h) \in Nat /\ Len(h) >= 2 + LenBytes(f.form)
  BY <1>2, <1>3
<1>5. b[0] = h[1] /\ b[1] = h[2] /\ (f.form = 63 => b[2] = h[3])
  <2>1. 0 \in 0..(Len(h) - 1) /\ 1 \in 0..(Len(h) - 1) /\ (f.form = 63 => 2 \in 0..(Len(h) - 1))
    BY <1>3, <1>4
  <2> QED
    BY <2>1 DEF Shows
<1>6. \A i \in 1..LenBytes(f.form) : b[i + 1] = h[2 + i]
  <2> SUFFICES ASSUME NEW i \in 1..LenBytes(f.form) PROVE b[i + 1] = h[2 + i]
    OBVIOUS
  <2>1. i + 1 \in 0..(Len(h) - 1) /\ (i + 1) + 1 = 2 + i
    BY <1>3, <1>4
  <2> QED
    BY <2>1 DEF Shows
<1> DEFINE x == IF f.fin THEN 128 ELSE 0
<1>7. x \in {0, 128} /\ (f.fin <=> x = 128) /\ b[0] = x + 16 * f.rsv + f.op
  BY <1>1, <1>2, <1>5
<1> HIDE DEF x
<1>8. (b[0] >= 128 <=> x = 128) /\ (b[0] \div 16) % 8 = f.rsv /\ b[0] % 16 = f.op
  <2>1. PICK n, r, o : n = b[0] /\ r = f.rsv /\ o = f.op
    OBVIOUS
  <2>2. r \in 0..7 /\ o \in 0..15 /\ n = x + 16 * r + o /\ x \in {0, 128}
    BY <1>1, <1>7, <2>1
  <2>4. FirstByteIs(n, x, r, o)
    BY <2>2 DEF FirstByteIs
  <2>3. (n >= 128 <=> x = 128) /\ (n \div 16) % 8 = r /\ n % 16 = o
    BY <2>4, FirstByte
  <2> QED
    BY <2>1, <2>3
<1> DEFINE m == IF f.masked THEN 128 ELSE 0
           v == CASE f.form = 7 -> f.size [] f.form = 16 -> 126 [] OTHER -> 127
<1>11. m \in {0, 128} /\ (f.masked <=> m = 128) /\ b[1] = m + v
  BY <1>1, <1>2, <1>5
<1>12. v \in 0..127 /\ (f.form = 7 => v = f.size /\ v <= 125) /\ (f.form = 16 => v = 126)
       /\ (f.form \in {63, 64} => v = 127)
  <2>1. CASE f.form = 7
    <3>1. v = f.size
      BY <2>1
    <3>2. f.size \in Nat /\ f.size <= 125 /\ f.form # 16 /\ f.form \notin {63, 64}
      BY <1>1, <2>1
    <3> HIDE DEF v
    <3>3. v \in 0..127
      BY <3>1, <3>2
    <3> QED
      BY <3>1, <3>2, <3>3
  <2>2. CASE f.form = 16
    BY <2>2
  <2>3. CASE f.form \in {63, 64}
    BY <2>3
  <2> QED
    BY <1>1, <2>1, <2>2, <2>3
<1> HIDE DEF m, v
<1>13. (b[1] >= 128 <=> f.masked) /\ b[1] % 128 = v
  <2>1. PICK n : n = b[1]
    OBVIOUS
  <2>2. n = m + v /\ m \in {0, 128} /\ v \in 0..127
    BY <1>11, <1>12, <2>1
  <2>3. (n >= 128 <=> m = 128) /\ n % 128 = v
    BY <2>2, SecondByte
  <2> QED
    BY <1>11, <2>1, <2>3
<1>14. Extended(b) = LenBytes(f.form)
  BY <1>1, <1>3, <1>12, <1>13 DEF Extended, Len7
<1>15. Masked(b) = f.masked
  BY <1>1, <1>13 DEF Masked
<1>16. HeaderLen(b) = Len(h)
  BY <1>2, <1>14, <1>15 DEF HeaderLen
<1>17. ASSUME f.form # 63 PROVE PayloadLen(b) = f.size
  <2>1. CASE f.form = 7
    BY <1>3, <1>12, <1>13, <1>14, <2>1 DEF PayloadLen, Len7
  <2>2. CASE f.form = 16
    <3>1. \A i \in 1..2 : b[i + 1] = BytesOf(f.size, 2)[i]
      <4>1. LenBytes(f.form) = 2
        BY <1>3, <2>2
      <4>2. \A i \in 1..2 : b[i + 1] = h[2 + i]
        BY ONLY <1>6, <4>1
      <4>3. \A i \in 1..2 : h[2 + i] = BytesOf(f.size, 2)[i]
        BY ONLY <1>2, <2>2
      <4> QED
        BY ONLY <4>2, <4>3
    <3>2. [i \in 1..2 |-> b[i + 1]] = BytesOf(f.size, 2)
      BY <3>1 DEF BytesOf
    <3>3. ShiftedRight(f.size, 2) = 0
      BY <2>2, FrameFields
    <3>4. BigEndian(BytesOf(f.size, 2)) = f.size
      <4>1. 2 \in Nat
        OBVIOUS
      <4> QED
        BY <1>1, <3>3, <4>1, BytesRead
    <3>5. PayloadLen(b) = BigEndian([i \in 1..2 |-> b[i + 1]])
      BY <1>3, <1>14, <2>2 DEF PayloadLen
    <3> QED
      BY <3>2, <3>4, <3>5
  <2>3. CASE f.form = 64
    <3>1. \A i \in 1..8 : b[i + 1] = BytesOf(f.size, 8)[i]
      <4>1. LenBytes(f.form) = 8
        BY <1>3, <2>3
      <4>2. \A i \in 1..8 : b[i + 1] = h[2 + i]
        BY ONLY <1>6, <4>1
      <4>3. \A i \in 1..8 : h[2 + i] = BytesOf(f.size, 8)[i]
        BY ONLY <1>2, <2>3
      <4> QED
        BY ONLY <4>2, <4>3
    <3>2. [i \in 1..8 |-> b[i + 1]] = BytesOf(f.size, 8)
      BY <3>1 DEF BytesOf
    <3>3. ShiftedRight(f.size, 8) = 0
      <4>1. ShiftedRight(f.size, 7) < 128
        BY <2>3, FrameFields
      <4>2. 7 \in Nat /\ 7 + 1 = 8
        OBVIOUS
      <4>3. ShiftedRight(f.size, 7) \in Nat
            /\ ShiftedRight(f.size, 8) = ShiftedRight(f.size, 7) \div 256
        <5>1. \A k \in Nat : /\ ShiftedRight(f.size, k) \in Nat
                             /\ ShiftedRight(f.size, k + 1) = ShiftedRight(f.size, k) \div 256
          BY <1>1, Shifts
        <5> QED
          BY <4>2, <5>1
      <4> QED
        BY <4>1, <4>3
    <3>4. BigEndian(BytesOf(f.size, 8)) = f.size
      <4>1. 8 \in Nat
        OBVIOUS
      <4> QED
        BY <1>1, <3>3, <4>1, BytesRead
    <3>5. PayloadLen(b) = BigEndian([i \in 1..8 |-> b[i + 1]])
      <4>1. Extended(b) = 8
        BY <1>3, <1>14, <2>3
      <4> QED
        BY <4>1 DEF PayloadLen
    <3> QED
      BY <3>2, <3>4, <3>5
  <2> QED
    BY <1>1, <1>17, <2>1, <2>2, <2>3
<1>18. Fin(b) = f.fin /\ Rsv(b) = f.rsv /\ Opcode(b) = f.op
  BY <1>1, <1>7, <1>8 DEF Fin, Rsv, Opcode
<1> QED
  BY <1>2, <1>5, <1>14, <1>15, <1>16, <1>17, <1>18

-----------------------------------------------------------------------------
(* The bytes of a stream *)

\* A frame has its header and its payload.
LEMMA FrameLenIs ==
    ASSUME NEW f \in FrameType
    PROVE  /\ HeadBytes(f) \in Seq(Byte) /\ Len(HeadBytes(f)) \in 2..14
           /\ FrameLen(f) \in Nat /\ FrameLen(f) = Len(HeadBytes(f)) + f.size
           /\ Len(HeadBytes(f)) = 2 + LenBytes(f.form) + (IF f.masked THEN 4 ELSE 0)
<1>1. PICK h : h = HeadBytes(f)
  OBVIOUS
<1>2. h \in Seq(Byte) /\ Len(h) = 2 + LenBytes(f.form) + (IF f.masked THEN 4 ELSE 0)
  BY <1>1, HeadShape
<1>3. LenBytes(f.form) \in {0, 2, 8}
  BY DEF LenBytes
<1>4. Len(h) \in 2..14
  BY <1>2, <1>3
<1>5. f.size \in Nat
  BY FrameFields
<1>6. FrameLen(f) = Len(h) + f.size
  BY <1>1 DEF FrameLen
<1> QED
  BY <1>1, <1>2, <1>4, <1>5, <1>6

\* The positions at which frames end are the sums of their lengths.
LEMMA BoundsSteps ==
    ASSUME NEW frames \in Seq(FrameType)
    PROVE  /\ \A i \in 0..Len(frames) : Bounds(frames)[i] \in Nat
           /\ Bounds(frames)[0] = 0
           /\ \A i \in 1..Len(frames) :
                  Bounds(frames)[i] = Bounds(frames)[i - 1] + FrameLen(frames[i])
<1> DEFINE D == 0..Len(frames)
           Body(g) == [i \in D |-> IF i = 0 THEN 0 ELSE g[i - 1] + FrameLen(frames[i])]
           end == CHOOSE g : g = Body(g)
<1>1. Bounds(frames) = end
  BY DEF Bounds
<1>2. Len(frames) \in Nat /\ \A i \in D : i # 0 =>
          i \in 1..Len(frames) /\ i - 1 \in D /\ i - 1 < i /\ frames[i] \in FrameType
  OBVIOUS
<1>3. \A i \in D : i # 0 => FrameLen(frames[i]) \in Nat
  BY <1>2, FrameLenIs
<1>4. D \subseteq Nat /\ 0 \in D /\ \A i \in 1..Len(frames) : i \in D /\ i # 0
  BY <1>2
<1> HIDE DEF D
<1>5. \E g \in [D -> Nat] : g = Body(g)
  <2> DEFINE rank == [i \in D |-> i]
             step == [g \in [D -> Nat] |-> Body(g)]
  <2>1. rank \in [D -> Nat] /\ step \in [[D -> Nat] -> [D -> Nat]]
    <3>1. ASSUME NEW g \in [D -> Nat] PROVE Body(g) \in [D -> Nat]
      BY <1>2, <1>3
    <3> QED
      BY <1>4, <3>1
  <2>2. ASSUME NEW f \in [D -> Nat], NEW g \in [D -> Nat], NEW i \in D,
               \A j \in D : rank[j] < rank[i] => f[j] = g[j]
        PROVE  step[f][i] = step[g][i]
    <3>1. i # 0 => f[i - 1] = g[i - 1]
      BY <1>2, <2>2
    <3> QED
      BY <3>1
  <2>3. RankedStep(D, Nat, rank, step)
    <3> HIDE DEF rank, step
    <3> QED
      BY <2>1, <2>2 DEF RankedStep
  <2>4. PICK f \in [D -> Nat] : f = step[f]
    <3> HIDE DEF rank, step
    <3>1. Nat # {}
      OBVIOUS
    <3> QED
      BY <2>3, <3>1, RankedRecursion
  <2> QED
    BY <2>4
<1>6. end = Body(end)
  BY <1>5
<1> HIDE DEF end
<1>7. end[0] = 0 /\ \A i \in 1..Len(frames) : end[i] = end[i - 1] + FrameLen(frames[i])
  BY <1>4, <1>6
<1> DEFINE T == {i \in Nat : i \in D => end[i] \in Nat}
<1>8. 0 \in T
  BY <1>7
<1>9. ASSUME NEW i \in Nat, i \in T PROVE i + 1 \in T
  <2> SUFFICES ASSUME i + 1 \in D PROVE end[i + 1] \in Nat
    OBVIOUS
  <2>1. i \in D
    BY <1>2
  <2>2. end[i] \in Nat
    BY ONLY <1>9, <2>1 DEF T
  <2>3. i + 1 \in 1..Len(frames) /\ i + 1 # 0 /\ (i + 1) - 1 = i
    BY <1>2
  <2>4. end[i + 1] = end[i] + FrameLen(frames[i + 1])
    BY <1>7, <2>3
  <2>5. FrameLen(frames[i + 1]) \in Nat
    BY <1>3, <2>3
  <2> QED
    BY ONLY <2>2, <2>4, <2>5
<1>10. \A i \in Nat : i \in T
  <2> HIDE DEF T
  <2> QED
    BY <1>8, <1>9, NatUp
<1>11. \A i \in D : end[i] \in Nat
  BY <1>4, <1>10
<1> QED
  BY <1>1, <1>7, <1>11 DEF D

\* They grow from frame to frame.
LEMMA BoundsGrow ==
    ASSUME NEW frames \in Seq(FrameType), NEW i \in 0..Len(frames), NEW j \in 0..Len(frames)
    PROVE  /\ i <= j => Bounds(frames)[i] <= Bounds(frames)[j]
           /\ i < j => Bounds(frames)[i] < Bounds(frames)[j]
<1> DEFINE B(k) == Bounds(frames)[k]
<1>1. /\ Len(frames) \in Nat /\ \A k \in 0..Len(frames) : B(k) \in Nat
      /\ \A k \in 1..Len(frames) : B(k) = B(k - 1) + FrameLen(frames[k])
  BY BoundsSteps
<1>2. \A k \in 1..Len(frames) : FrameLen(frames[k]) \in Nat /\ FrameLen(frames[k]) >= 2
  <2> SUFFICES ASSUME NEW k \in 1..Len(frames)
               PROVE  FrameLen(frames[k]) \in Nat /\ FrameLen(frames[k]) >= 2
    OBVIOUS
  <2>1. frames[k] \in FrameType
    OBVIOUS
  <2>2. PICK n \in Nat : n = frames[k].size
    BY <2>1, FrameFields
  <2>3. PICK h \in 2..14 : h = Len(HeadBytes(frames[k]))
    BY <2>1, FrameLenIs
  <2>4. FrameLen(frames[k]) = h + n
    BY <2>1, <2>2, <2>3, FrameLenIs
  <2>5. h + n \in Nat /\ h + n >= 2
    OBVIOUS
  <2> QED
    BY <2>4, <2>5
<1> HIDE DEF B
<1> DEFINE T == {n \in Nat : i + n <= Len(frames) =>
                     B(i) <= B(i + n) /\ (n # 0 => B(i) < B(i + n))}
<1>3. 0 \in T
  BY <1>1
<1>4. ASSUME NEW n \in Nat, n \in T PROVE n + 1 \in T
  <2> SUFFICES ASSUME i + (n + 1) <= Len(frames) PROVE B(i) < B(i + (n + 1))
    BY <1>1
  <2>1. i + (n + 1) \in 1..Len(frames) /\ (i + (n + 1)) - 1 = i + n /\ i + n <= Len(frames)
        /\ i + n \in 0..Len(frames)
    BY <1>1
  <2>2. B(i + (n + 1)) = B(i + n) + FrameLen(frames[i + (n + 1)])
    BY <1>1, <2>1
  <2>3. B(i) <= B(i + n)
    BY <1>4, <2>1
  <2>4. B(i) \in Nat /\ B(i + n) \in Nat
    BY <1>1, <2>1
  <2>5. FrameLen(frames[i + (n + 1)]) \in Nat /\ FrameLen(frames[i + (n + 1)]) >= 2
    BY <1>2, <2>1
  <2> QED
    BY <2>2, <2>3, <2>4, <2>5
<1>5. \A n \in Nat : n \in T
  <2> HIDE DEF T
  <2> QED
    BY <1>3, <1>4, NatUp
<1>6. ASSUME i <= j PROVE B(i) <= B(j) /\ (i < j => B(i) < B(j))
  <2>1. PICK n \in Nat : n = j - i
    BY <1>6
  <2>2. i + n = j /\ i + n <= Len(frames) /\ (i < j => n # 0)
    BY <2>1
  <2>3. n \in T
    BY <1>5
  <2> QED
    BY <2>2, <2>3
<1>7. i < j => i <= j
  BY <1>1
<1> QED
  BY <1>6, <1>7 DEF B

\* What a position of the stream holds, told from the frame it lies in.
LEMMA BytesOfFrame ==
    ASSUME stream \in Seq(FrameType), NEW k \in 1..Len(stream),
           NEW i \in 1..FrameLen(stream[k])
    PROVE  LET bytes == HeadBytes(stream[k]) \o stream[k].body IN
           ByteAt(EndOf(k - 1) + i - 1) = IF i <= Len(bytes) THEN bytes[i] ELSE Filler
<1> DEFINE B(j) == Bounds(stream)[j]
           p == EndOf(k - 1) + i - 1
<1>1. /\ Len(stream) \in Nat /\ \A j \in 0..Len(stream) : B(j) \in Nat
      /\ B(k) = B(k - 1) + FrameLen(stream[k])
  BY BoundsSteps
<1>2. stream[k] \in FrameType /\ k - 1 \in 0..Len(stream) /\ k \in 0..Len(stream)
      /\ Len(stream) \in 0..Len(stream)
  OBVIOUS
<1>3. FrameLen(stream[k]) \in Nat
  <2>1. PICK n \in Nat : n = stream[k].size
    BY <1>2, FrameFields
  <2>2. PICK h \in 2..14 : h = Len(HeadBytes(stream[k]))
    BY <1>2, FrameLenIs
  <2>3. FrameLen(stream[k]) = h + n
    BY <1>2, <2>1, <2>2, FrameLenIs
  <2> QED
    BY <2>3
<1>4. p \in Nat /\ p >= B(k - 1) /\ p < B(k) /\ p - B(k - 1) + 1 = i
  BY <1>1, <1>2, <1>3 DEF EndOf
<1>5. p < Total
  <2>1. B(k) <= B(Len(stream))
    BY <1>2, BoundsGrow
  <2> QED
    BY <1>1, <1>2, <1>4, <2>1 DEF Total, EndOf
<1>6. p \in EndOf(k - 1)..(EndOf(k) - 1)
  BY <1>1, <1>2, <1>4 DEF EndOf
<1>7. ASSUME NEW j \in DOMAIN stream, p \in EndOf(j - 1)..(EndOf(j) - 1)
      PROVE  j = k
  <2>1. j \in 1..Len(stream) /\ j - 1 \in 0..Len(stream) /\ j \in 0..Len(stream)
    OBVIOUS
  <2>2. p >= B(j - 1) /\ p < B(j) /\ B(j) \in Nat /\ B(j - 1) \in Nat
    BY <1>1, <1>4, <1>7, <2>1 DEF EndOf
  <2>3. ~(k <= j - 1)
    <3>1. k <= j - 1 => B(k) <= B(j - 1)
      BY <1>2, <2>1, BoundsGrow
    <3>2. B(k) \in Nat /\ p < B(k) /\ p >= B(j - 1) /\ B(j - 1) \in Nat /\ p \in Nat
      BY <1>1, <1>2, <1>4, <2>2
    <3> HIDE DEF B, p
    <3> QED
      BY <3>1, <3>2
  <2>4. ~(j <= k - 1)
    <3>1. j <= k - 1 => B(j) <= B(k - 1)
      BY <1>2, <2>1, BoundsGrow
    <3>2. B(k - 1) \in Nat /\ p < B(j) /\ p >= B(k - 1) /\ B(j) \in Nat /\ p \in Nat
      BY <1>1, <1>2, <1>4, <2>2
    <3> HIDE DEF B, p
    <3> QED
      BY <3>1, <3>2
  <2> QED
    BY <2>1, <2>3, <2>4
<1>8. (CHOOSE j \in DOMAIN stream : p \in EndOf(j - 1)..(EndOf(j) - 1)) = k
  BY <1>6, <1>7
<1>9. p - EndOf(k - 1) + 1 = i /\ ~(p >= Total)
  <2>1. Total \in Nat
    BY <1>1, <1>2 DEF Total, EndOf
  <2> QED
    BY <1>4, <1>5, <2>1 DEF EndOf
<1> HIDE DEF p
<1>10. ByteAt(p) = LET bytes == HeadBytes(stream[k]) \o stream[k].body IN
                   IF i <= Len(bytes) THEN bytes[i] ELSE Filler
  <2> DEFINE c == CHOOSE j \in DOMAIN stream : p \in EndOf(j - 1)..(EndOf(j) - 1)
  <2>1. ByteAt(p) = LET bytes == HeadBytes(stream[c]) \o stream[c].body
                        n == p - EndOf(c - 1) + 1
                    IN  IF n <= Len(bytes) THEN bytes[n] ELSE Filler
    BY <1>9 DEF ByteAt
  <2>2. c = k
    BY <1>8
  <2> HIDE DEF c
  <2> QED
    BY <1>9, <2>1, <2>2
<1> QED
  BY <1>10 DEF p

\* Every position holds a byte.
LEMMA BytesAreBytes ==
    ASSUME stream \in Seq(FrameType), NEW p \in Nat
    PROVE  ByteAt(p) \in Byte
<1>1. Filler \in Byte
  BY SizesAssumption DEF Byte
<1>2. CASE p >= Total
  BY <1>1, <1>2 DEF ByteAt
<1>3. CASE ~(p >= Total)
  <2> DEFINE B(j) == Bounds(stream)[j]
  <2>1. /\ Len(stream) \in Nat /\ \A j \in 0..Len(stream) : B(j) \in Nat
        /\ B(0) = 0 /\ \A j \in 1..Len(stream) : B(j) = B(j - 1) + FrameLen(stream[j])
    BY BoundsSteps
  <2>2. p < B(Len(stream))
    BY <1>3, <2>1 DEF Total, EndOf
  <2> DEFINE Above == {j \in 0..Len(stream) : p < B(j)}
  <2>3. PICK k \in Above : \A j \in Above : k <= j
    <3>1. Above # {} /\ Above \subseteq Nat
      BY <2>1, <2>2
    <3> HIDE DEF Above
    <3> QED
      BY <3>1, NatMin
  <2>4. k \in 1..Len(stream) /\ k - 1 \in 0..Len(stream) /\ k - 1 \notin Above /\ p < B(k)
    BY <2>1, <2>3
  <2>5. B(k - 1) <= p /\ B(k) = B(k - 1) + FrameLen(stream[k]) /\ B(k - 1) \in Nat /\ B(k) \in Nat
    BY <2>1, <2>4
  <2>6. stream[k] \in FrameType
    BY <2>4
  <2>7. FrameLen(stream[k]) \in Nat
    BY <2>6, FrameLenIs
  <2> DEFINE i == p - B(k - 1) + 1
             bytes == HeadBytes(stream[k]) \o stream[k].body
  <2>8. i \in 1..FrameLen(stream[k]) /\ EndOf(k - 1) + i - 1 = p /\ i \in Nat
    BY <2>4, <2>5, <2>7 DEF EndOf
  <2>9. bytes \in Seq(Byte)
    <3>1. HeadBytes(stream[k]) \in Seq(Byte) /\ stream[k].body \in Seq(Byte)
      BY <2>6, FrameLenIs, FrameFields
    <3> QED
      BY <3>1, ConcatAt
  <2> HIDE DEF i, bytes
  <2>10. ByteAt(EndOf(k - 1) + i - 1) = IF i <= Len(bytes) THEN bytes[i] ELSE Filler
    BY <2>4, <2>8, BytesOfFrame DEF bytes
  <2>11. i <= Len(bytes) => bytes[i] \in Byte
    <3>1. i \in Nat /\ i >= 1
      BY <2>8
    <3> QED
      BY <2>9, <3>1
  <2> QED
    BY <1>1, <2>8, <2>10, <2>11
<1> QED
  BY <1>2, <1>3

\* At the end of a frame the parser sees the header of the next one.
LEMMA HeaderShown ==
    ASSUME stream \in Seq(FrameType), NEW k \in 0..(Len(stream) - 1), used = EndOf(k)
    PROVE  Shows(Header, HeadBytes(stream[k + 1]))
<1> DEFINE h == HeadBytes(stream[k + 1])
           bytes == h \o stream[k + 1].body
<1>1. k + 1 \in 1..Len(stream) /\ (k + 1) - 1 = k /\ stream[k + 1] \in FrameType
      /\ k \in 0..Len(stream)
  OBVIOUS
<1>2. h \in Seq(Byte) /\ stream[k + 1].body \in Seq(Byte) /\ Len(h) \in 2..14
  BY <1>1, FrameLenIs, FrameFields
<1>3. FrameLen(stream[k + 1]) \in Nat /\ Len(h) <= FrameLen(stream[k + 1])
  <2>1. PICK n \in Nat : n = stream[k + 1].size
    BY <1>1, FrameFields
  <2>2. PICK m \in 2..14 : m = Len(h)
    BY <1>2
  <2>3. FrameLen(stream[k + 1]) = m + n
    BY <1>1, <2>1, <2>2, FrameLenIs
  <2>4. m + n \in Nat /\ m <= m + n
    OBVIOUS
  <2> QED
    BY <2>2, <2>3, <2>4
<1>4. Len(bytes) = Len(h) + Len(stream[k + 1].body) /\ \A i \in 1..Len(h) : bytes[i] = h[i]
  <2> HIDE DEF h
  <2>1. h \in Seq(Byte) /\ stream[k + 1].body \in Seq(Byte)
    BY <1>2
  <2> QED
    BY <2>1, ConcatAt
<1>5. Len(stream[k + 1].body) \in Nat
  BY <1>2
<1>6. EndOf(k) \in Nat
  BY <1>1, BoundsSteps DEF EndOf
<1> HIDE DEF h, bytes
<1>7. ASSUME NEW j \in 0..(Len(h) - 1) PROVE Header[j] = h[j + 1]
  <2>0. PICK m \in 2..14, n \in Nat, b \in Nat :
            m = Len(h) /\ n = FrameLen(stream[k + 1]) /\ b = Len(stream[k + 1].body)
    BY <1>2, <1>3, <1>5
  <2>a. m <= n /\ Len(bytes) = m + b /\ j \in 0..(m - 1)
    BY <1>3, <1>4, <2>0
  <2>b. j \in 0..13 /\ j \in Nat /\ j + 1 \in 1..m /\ j + 1 \in 1..n /\ j + 1 <= m + b
    BY <2>a
  <2>1. j \in 0..13 /\ j \in Nat /\ j + 1 \in 1..Len(h) /\ j + 1 \in 1..FrameLen(stream[k + 1])
        /\ j + 1 <= Len(bytes)
    BY <2>0, <2>a, <2>b
  <2>2. Header[j] = ByteAt(EndOf(k) + j)
    BY <2>1 DEF Header
  <2>3. EndOf(k) + j = EndOf((k + 1) - 1) + (j + 1) - 1
    BY <1>1, <1>6, <2>1
  <2>4. ByteAt(EndOf((k + 1) - 1) + (j + 1) - 1) = bytes[j + 1]
    BY <1>1, <2>1, BytesOfFrame DEF bytes, h
  <2>5. bytes[j + 1] = h[j + 1]
    BY <1>4, <2>1
  <2> QED
    BY <2>2, <2>3, <2>4, <2>5
<1> QED
  BY <1>7 DEF Shows, h

-----------------------------------------------------------------------------
(* The command line *)

\* A configuration as far as every option has been checked on its own.
ConfFields == {"port", "workers", "listeners", "sinkPath", "handshakeMax", "maxFrame",
               "maxMessage", "hwm", "lwm", "tickMs", "upstreams"}
Asked == {Upstream(url) : url \in Urls}
ConfValues ==
    Int \cup STRING \cup {"/feed"} \cup {ToInt(n) : n \in Int} \cup Seq(Asked)
ConfOk(c) ==
    /\ c.port \in Ports /\ c.workers \in 1..MaxWorkers /\ c.listeners \in 1..MaxListeners
    /\ c.maxFrame \in Nat \ {0} /\ c.maxMessage \in Nat \ {0}
    /\ c.hwm \in Nat \ {0} /\ c.lwm \in Nat \ {0}
    /\ c.upstreams \in Seq(Asked)
ConfType == {c \in [ConfFields -> ConfValues] : ConfOk(c)}

ResultType == [rc : {"go", "help", "error"}, conf : ConfType]

ParseStart == [rc |-> "go", conf |-> Defaults]

\* The defaults are a configuration.
LEMMA DefaultsTyped == ParseStart \in ResultType
<1>1. ConfOk(Defaults)
  BY DEF Defaults, ConfOk, MaxWorkers, MaxListeners, Ports
<1>2. DOMAIN Defaults = ConfFields
  BY DEF Defaults, ConfFields
<1>3. /\ \A f \in ConfFields \ {"sinkPath", "upstreams"} : Defaults[f] \in Int
      /\ Defaults["sinkPath"] = "/feed" /\ Defaults["upstreams"] = <<>>
  <2>1. /\ Defaults["port"] = 33333 /\ Defaults["workers"] = 8 /\ Defaults["listeners"] = 2
        /\ Defaults["handshakeMax"] = 8192 /\ Defaults["maxFrame"] = 65536
        /\ Defaults["maxMessage"] = 4194304 /\ Defaults["hwm"] = 256 /\ Defaults["lwm"] = 128
        /\ Defaults["tickMs"] = 1000
    BY DEF Defaults
  <2>2. Defaults["sinkPath"] = "/feed" /\ Defaults["upstreams"] = <<>>
    BY DEF Defaults
  <2>3. \A f \in ConfFields \ {"sinkPath", "upstreams"} :
            f \in {"port", "workers", "listeners", "handshakeMax", "maxFrame", "maxMessage",
                  "hwm", "lwm", "tickMs"}
    BY DEF ConfFields
  <2> QED
    BY <2>1, <2>2, <2>3
<1>4. <<>> \in ConfValues /\ "/feed" \in ConfValues /\ \A v \in Int : v \in ConfValues
  <2>1. <<>> \in Seq(Asked)
    OBVIOUS
  <2> QED
    BY <2>1 DEF ConfValues
<1>5. Defaults \in [ConfFields -> ConfValues]
  <2>1. Defaults = [f \in DOMAIN Defaults |-> Defaults[f]]
    BY DEF Defaults
  <2> QED
    BY <1>2, <1>3, <1>4, <2>1
<1>6. Defaults \in ConfType
  BY <1>1, <1>5 DEF ConfType
<1> QED
  BY <1>6 DEF ParseStart, ResultType

\* The values an argument may have.
LEMMA ArgumentVal ==
    ASSUME NEW arg \in Arguments
    PROVE  /\ arg.opt \in {"port", "workers", "listeners", "hwm", "lwm", "maxFrame", "maxMessage",
                           "tickMs", "upstream", "sinkPath", "help", "other"}
           /\ arg.opt \in {"port", "workers", "listeners", "hwm", "lwm", "maxFrame", "maxMessage",
                           "tickMs"} => arg.val.num \in Int /\ arg.val.clean \in BOOLEAN
           /\ arg.opt = "upstream" => arg.val \in Urls
           /\ arg.opt = "sinkPath" => arg.val.text \in STRING
<1>1. CASE arg \in [opt : {"port", "workers", "listeners", "hwm", "lwm", "maxFrame", "maxMessage",
                           "tickMs"}, val : Numbers]
  BY <1>1 DEF Numbers
<1>2. CASE arg \in [opt : {"upstream"}, val : Urls]
  BY <1>2
<1>3. CASE arg \in [opt : {"sinkPath"}, val : [slash : BOOLEAN, text : STRING]]
  BY <1>3
<1>4. CASE arg \in [opt : {"help", "other"}, val : {0}]
  BY <1>4
<1> QED
  BY <1>1, <1>2, <1>3, <1>4 DEF Arguments

\* What is asked of an option, one by one.
LEMMA AcceptedBy ==
    ASSUME NEW arg, Accepted(arg)
    PROVE  /\ arg.opt = "port" => Value(arg) \in Ports
           /\ arg.opt = "workers" => Value(arg) \in 1..MaxWorkers
           /\ arg.opt = "listeners" => Value(arg) \in 1..MaxListeners
           /\ arg.opt = "upstream" => UrlAccepted(arg.val)
           /\ arg.opt \in {"hwm", "lwm", "maxFrame", "maxMessage", "tickMs"} => Positive(arg.val)
           /\ arg.opt # "help" /\ arg.opt # "other"
<1>1. arg.opt = "port" => Value(arg) \in Ports
  BY DEF Accepted
<1>2. arg.opt = "workers" => Value(arg) \in 1..MaxWorkers
  BY DEF Accepted
<1>3. arg.opt = "listeners" => Value(arg) \in 1..MaxListeners
  BY DEF Accepted
<1>4. arg.opt = "upstream" => UrlAccepted(arg.val)
  BY DEF Accepted
<1>5. arg.opt \in {"hwm", "lwm", "maxFrame", "maxMessage", "tickMs"} => Positive(arg.val)
  BY DEF Accepted
<1>6. arg.opt # "help"
  BY DEF Accepted
<1>7. arg.opt # "other"
  BY DEF Accepted
<1> QED
  BY <1>1, <1>2, <1>3, <1>4, <1>5, <1>6, <1>7

\* A field that is set, and the others.
LEMMA FieldSet ==
    ASSUME NEW c \in [ConfFields -> ConfValues], NEW f \in ConfFields, NEW v \in ConfValues,
           NEW d, d = [c EXCEPT ![f] = v]
    PROVE  /\ d \in [ConfFields -> ConfValues] /\ d[f] = v
           /\ \A g \in ConfFields : g # f => d[g] = c[g]
  OBVIOUS

\* An option that is accepted sets one field.
LEMMA SetBy ==
    ASSUME NEW c, NEW arg
    PROVE  /\ arg.opt = "upstream" =>
                  Set(c, arg) = [c EXCEPT !["upstreams"] = Append(c.upstreams, Upstream(arg.val))]
           /\ arg.opt = "sinkPath" => Set(c, arg) = [c EXCEPT !["sinkPath"] = arg.val.text]
           /\ arg.opt \notin {"upstream", "sinkPath"} =>
                  Set(c, arg) = [c EXCEPT ![arg.opt] = Value(arg)]
  BY DEF Set

\* What an option stores is its number, or the number an int makes of it.
LEMMA ValueBy ==
    ASSUME NEW arg \in Arguments, arg.opt \notin {"upstream", "sinkPath", "help", "other"}
    PROVE  Value(arg) \in ConfValues
<1>1. arg.val.num \in Int
  BY ArgumentVal
<1>2. ToInt(arg.val.num) \in ConfValues /\ arg.val.num \in ConfValues
  BY <1>1 DEF ConfValues
<1> QED
  BY <1>2 DEF Value

\* An option that is accepted leaves a configuration.
LEMMA SetTyped ==
    ASSUME NEW c \in ConfType, NEW arg \in Arguments, Accepted(arg)
    PROVE  Set(c, arg) \in ConfType
<1> DEFINE d == Set(c, arg)
<1>0. c \in [ConfFields -> ConfValues] /\ ConfOk(c)
  BY DEF ConfType
<1>2. CASE arg.opt = "upstream"
  <2>1. PICK u : u = Append(c.upstreams, Upstream(arg.val))
    OBVIOUS
  <2>2. u \in Seq(Asked)
    <3>1. Upstream(arg.val) \in Asked
      BY <1>2, ArgumentVal DEF Asked
    <3>2. c.upstreams \in Seq(Asked)
      BY <1>0 DEF ConfOk
    <3> QED
      BY <2>1, <3>1, <3>2
  <2>3. d = [c EXCEPT !["upstreams"] = u]
    BY <1>2, <2>1, SetBy
  <2>4. u \in ConfValues /\ "upstreams" \in ConfFields
    BY <2>2 DEF ConfValues, ConfFields
  <2> HIDE DEF d
  <2>5. d \in [ConfFields -> ConfValues] /\ d["upstreams"] = u
        /\ \A g \in ConfFields : g # "upstreams" => d[g] = c[g]
    BY <1>0, <2>3, <2>4, FieldSet
  <2>6. ConfOk(d)
    BY <1>0, <2>2, <2>5 DEF ConfOk, ConfFields
  <2> QED
    BY <2>5, <2>6 DEF d, ConfType
<1>3. CASE arg.opt \in {"sinkPath", "tickMs"}
  <2>1. PICK v \in ConfValues : d = [c EXCEPT ![arg.opt] = v]
    <3>1. CASE arg.opt = "sinkPath"
      <4>1. arg.val.text \in ConfValues
        BY <3>1, ArgumentVal DEF ConfValues
      <4> QED
        BY <3>1, <4>1, SetBy
    <3>2. CASE arg.opt = "tickMs"
      <4>1. Value(arg) \in ConfValues
        BY <3>2, ValueBy
      <4> QED
        BY <3>2, <4>1, SetBy
    <3> QED
      BY <1>3, <3>1, <3>2
  <2>2. arg.opt \in ConfFields
    BY <1>3 DEF ConfFields
  <2> HIDE DEF d
  <2>3. d \in [ConfFields -> ConfValues] /\ \A g \in ConfFields : g # arg.opt => d[g] = c[g]
    BY <1>0, <2>1, <2>2, FieldSet
  <2>4. ConfOk(d)
    BY <1>0, <1>3, <2>3 DEF ConfOk, ConfFields
  <2> QED
    BY <2>3, <2>4 DEF d, ConfType
<1>4. CASE arg.opt \in {"port", "workers", "listeners", "hwm", "lwm", "maxFrame", "maxMessage"}
  <2>1. PICK v \in ConfValues : v = Value(arg)
    BY <1>4, ValueBy
  <2>2. d = [c EXCEPT ![arg.opt] = v]
    BY <1>4, <2>1, SetBy
  <2>3. arg.opt \in ConfFields
    BY <1>4 DEF ConfFields
  <2> HIDE DEF d
  <2>4. d \in [ConfFields -> ConfValues] /\ d[arg.opt] = v
        /\ \A g \in ConfFields : g # arg.opt => d[g] = c[g]
    BY <1>0, <2>2, <2>3, FieldSet
  <2>5. /\ arg.opt = "port" => v \in Ports
        /\ arg.opt = "workers" => v \in 1..MaxWorkers
        /\ arg.opt = "listeners" => v \in 1..MaxListeners
        /\ arg.opt \in {"hwm", "lwm", "maxFrame", "maxMessage"} => v \in Nat \ {0}
    <3>1. ASSUME arg.opt \in {"hwm", "lwm", "maxFrame", "maxMessage"}
          PROVE  v \in Nat \ {0}
      <4>1. v = arg.val.num
        BY <2>1, <3>1 DEF Value
      <4>2. arg.val.num \in Int /\ Positive(arg.val)
        BY <3>1, ArgumentVal, AcceptedBy
      <4> QED
        BY <4>1, <4>2 DEF Positive
    <3> QED
      BY <2>1, <3>1, AcceptedBy
  <2>6. ConfOk(d)
    BY <1>0, <1>4, <2>4, <2>5 DEF ConfOk, ConfFields
  <2> QED
    BY <2>4, <2>6 DEF d, ConfType
<1> QED
  BY <1>2, <1>3, <1>4, ArgumentVal, AcceptedBy

\* A step of the loop keeps the type of its result.
LEMMA StepTyped ==
    ASSUME NEW r \in ResultType, NEW arg \in Arguments
    PROVE  Step(r, arg) \in ResultType
<1>1. CASE r.rc # "go"
  BY <1>1 DEF Step
<1>2. CASE r.rc = "go" /\ arg.opt = "help"
  BY <1>2 DEF Step, ResultType
<1>3. CASE r.rc = "go" /\ arg.opt # "help" /\ Accepted(arg)
  <2>1. r.conf \in ConfType
    BY DEF ResultType
  <2>2. Set(r.conf, arg) \in ConfType
    BY <1>3, <2>1, SetTyped
  <2>3. Step(r, arg) = [r EXCEPT !.conf = Set(r.conf, arg)]
    BY <1>3 DEF Step
  <2> QED
    BY <2>2, <2>3 DEF ResultType
<1>4. CASE r.rc = "go" /\ arg.opt # "help" /\ ~Accepted(arg)
  BY <1>4 DEF Step, ResultType
<1> QED
  BY <1>1, <1>2, <1>3, <1>4

\* The loop of parseArgs(), step by step.
ParseRun(r, line) ==
    /\ \A i \in 0..Len(line) : r[i] \in ResultType
    /\ r[0] = ParseStart
    /\ \A i \in 1..Len(line) : r[i] = Step(r[i - 1], line[i])

\* The fold over the command line is a run of the loop, one step per argument.
LEMMA ParseSteps ==
    ASSUME NEW line \in Seq(Arguments)
    PROVE  \E r : ParseRun(r, line) /\ FoldLeft(Step, ParseStart, line) = r[Len(line)]
<1> DEFINE S == DOMAIN line
           Body(g) == [s \in SUBSET S |-> IF s = {} THEN ParseStart
                                          ELSE Step(g[s \ {Max(s)}], line[Max(s)])]
           it == CHOOSE g : g = Body(g)
<1>1. FoldLeft(Step, ParseStart, line) = it[S]
  BY DEF FoldLeft, MapThenFoldSet
<1>2. S = 1..Len(line) /\ Len(line) \in Nat /\ \A i \in S : line[i] \in Arguments
  OBVIOUS
<1>3. \E g : g = Body(g)
  <2> DEFINE ch == [s \in SUBSET S |-> Max(s)]
             op == [p \in S \X ResultType |-> Step(p[2], line[p[1]])]
  <2>1. op \in [S \X ResultType -> ResultType]
    BY <1>2, StepTyped
  <2>2. PICK g : FoldOf(g, S, ResultType, ParseStart, op, ch)
    <3> HIDE DEF op, S
    <3> QED
      BY <1>2, <2>1, LeftFold, DefaultsTyped
  <2>3. ASSUME NEW s \in SUBSET S, s # {}
        PROVE  op[<<ch[s], g[s \ {ch[s]}]>>] = Step(g[s \ {Max(s)}], line[Max(s)])
    <3>1. ch[s] = Max(s) /\ Max(s) \in S
      <4>1. s \subseteq 0..Len(line) /\ s \subseteq S
        BY <1>2
      <4>2. Max(s) \in s
        BY <1>2, <2>3, <4>1, MaxOfBounded
      <4> QED
        BY <4>1, <4>2
    <3>2. g[s \ {ch[s]}] \in ResultType
      BY <2>2 DEF FoldOf
    <3> HIDE DEF ch
    <3> QED
      BY <3>1, <3>2
  <2>4. g = Body(g)
    <3> HIDE DEF op, ch
    <3> QED
      BY <2>2, <2>3 DEF FoldOf
  <2> HIDE DEF Body
  <2> QED
    BY ONLY <2>4
<1>4. it = Body(it)
  BY <1>3
<1> HIDE DEF it
<1>5. it[{}] = ParseStart
  BY <1>4
<1>6. ASSUME NEW k \in 1..Len(line)
      PROVE  it[1..k] = Step(it[1..(k-1)], line[k])
  <2>1. k \in Nat \ {0} /\ 1..k \in SUBSET S
    BY <1>2
  <2>2. it[1..k] = IF 1..k = {} THEN ParseStart
                   ELSE Step(it[(1..k) \ {Max(1..k)}], line[Max(1..k)])
    BY <1>4, <2>1
  <2> QED
    BY <2>1, <2>2, LastOfInterval
<1> DEFINE r == [i \in 0..Len(line) |-> it[1..i]]
<1>7. r[0] = ParseStart /\ r[Len(line)] = FoldLeft(Step, ParseStart, line)
  <2>1. 1..0 = {} /\ 0 \in 0..Len(line) /\ Len(line) \in 0..Len(line)
    BY <1>2
  <2> QED
    BY <1>1, <1>2, <1>5, <2>1
<1>8. \A i \in 1..Len(line) : r[i] = Step(r[i-1], line[i])
  <2>1. \A i \in 1..Len(line) : i \in 0..Len(line) /\ i - 1 \in 0..Len(line)
    BY <1>2
  <2> QED
    BY <1>6, <2>1
<1> HIDE DEF r
<1>9. \A i \in 0..Len(line) : r[i] \in ResultType
  <2> DEFINE T == {i \in Nat : i <= Len(line) => r[i] \in ResultType}
  <2>1. 0 \in T
    BY <1>7, DefaultsTyped
  <2>2. ASSUME NEW i \in Nat, i \in T PROVE i + 1 \in T
    <3> SUFFICES ASSUME i + 1 <= Len(line) PROVE r[i + 1] \in ResultType
      OBVIOUS
    <3>1. i + 1 \in 1..Len(line) /\ (i + 1) - 1 = i /\ i <= Len(line)
      BY <1>2
    <3>2. r[i] \in ResultType /\ r[i + 1] = Step(r[i], line[i + 1]) /\ line[i + 1] \in Arguments
      BY <1>2, <1>8, <2>2, <3>1
    <3> QED
      BY <3>2, StepTyped
  <2>3. \A i \in Nat : i \in T
    <3> HIDE DEF T
    <3> QED
      BY <2>1, <2>2, NatUp
  <2> QED
    BY <2>3
<1> QED
  BY <1>7, <1>8, <1>9 DEF ParseRun

\* What the command line gives is a configuration; the watermarks are compared
\* before it is used.
LEMMA ParsedTyped ==
    ASSUME NEW line \in Seq(Arguments)
    PROVE  /\ ParseArgs(line).conf \in ConfType
           /\ ParseArgs(line).rc = "ok" => ParseArgs(line).conf.lwm < ParseArgs(line).conf.hwm
<1>1. PICK r : ParseRun(r, line) /\ FoldLeft(Step, ParseStart, line) = r[Len(line)]
  BY ParseSteps
<1>2. PICK result \in ResultType : result = FoldLeft(Step, ParseStart, line)
  <2>1. Len(line) \in 0..Len(line)
    OBVIOUS
  <2> QED
    BY <1>1, <2>1 DEF ParseRun
<1>3. ParseArgs(line) = [result EXCEPT !.rc = IF result.rc # "go" THEN result.rc
                             ELSE IF result.conf.lwm < result.conf.hwm THEN "ok" ELSE "error"]
  BY <1>2 DEF ParseArgs, ParseStart
<1>4. result.rc \in {"go", "help", "error"} /\ result.conf \in ConfType
  BY DEF ResultType
<1>5. /\ ParseArgs(line).conf = result.conf
      /\ ParseArgs(line).rc = IF result.rc # "go" THEN result.rc
                              ELSE IF result.conf.lwm < result.conf.hwm THEN "ok" ELSE "error"
  BY <1>3 DEF ResultType
<1> QED
  BY <1>4, <1>5

-----------------------------------------------------------------------------
(* The buffer *)

Sound(b) == b \in BufferType /\ b.off <= b.len /\ b.len <= b.cap

\* Compaction keeps what is unread.
LEMMA CompactKeeps ==
    ASSUME NEW b, Sound(b)
    PROVE  /\ Sound(Compact(b)) /\ Unread(Compact(b)) = Unread(b) /\ Compact(b).cap = b.cap
           /\ Compact(b).off = 0 /\ Compact(b).len = Unread(b) /\ Unread(b) \in Nat
<1>1. b \in BufferType /\ b.cap \in Nat /\ b.len \in Nat /\ b.off \in Nat /\ b.off <= b.len /\ b.len <= b.cap
  BY DEF Sound, BufferType
<1>2. PICK n \in Nat : n = Unread(b)
  BY <1>1 DEF Unread
<1>3. n <= b.cap
  BY <1>1, <1>2 DEF Unread
<1> DEFINE c == [b EXCEPT !.len = n, !.off = 0]
<1>4. Compact(b) = c
  BY <1>2 DEF Compact
<1>5. c \in BufferType /\ c.cap = b.cap /\ c.off = 0 /\ c.len = n
  BY <1>1 DEF BufferType
<1> HIDE DEF c
<1>6. Unread(c) = n
  BY <1>5 DEF Unread
<1> QED
  BY <1>2, <1>3, <1>4, <1>5, <1>6 DEF Sound

\* A reservation keeps what is unread. If it succeeds there is room, and a
\* buffer that has grown is within the limit.
LEMMA ReserveKeeps ==
    ASSUME NEW b, Sound(b), NEW extra \in Nat, NEW limit \in Nat \ {0},
           NEW r, r = Reserve(b, extra, limit)
    PROVE  /\ Sound(r) /\ Unread(r) = Unread(b)
           /\ CanReserve(b, extra, limit) => r.cap - r.len >= extra
           /\ r.cap = b.cap \/ r.cap <= limit
<1> DEFINE c == Compact(b)
<1>1. /\ Sound(c) /\ Unread(c) = Unread(b) /\ c.cap = b.cap /\ c.off = 0
      /\ c.len = Unread(b) /\ Unread(b) \in Nat
  BY CompactKeeps
<1>2. b.cap \in Nat /\ b.len \in Nat /\ b.off \in Nat /\ b.off <= b.len /\ b.len <= b.cap
  BY DEF Sound, BufferType
<1>3. Fits(b, extra) <=> b.cap - b.len >= extra
  BY DEF Fits
<1>4. Fits(c, extra) <=> c.cap - c.len >= extra
  BY DEF Fits
<1>5. CanReserve(b, extra, limit) <=> Fits(c, extra) \/ Unread(b) + extra <= limit
  BY DEF CanReserve
<1> HIDE DEF c
<1>6. CASE Fits(b, extra)
  <2>1. r = b
    BY <1>6 DEF Reserve
  <2> QED
    BY <1>3, <1>6, <2>1
<1>7. CASE ~Fits(b, extra) /\ Fits(c, extra)
  <2>1. r = c
    BY <1>7 DEF Reserve, c
  <2> QED
    BY <1>1, <1>4, <1>7, <2>1
<1>8. CASE ~Fits(b, extra) /\ ~Fits(c, extra) /\ ~CanReserve(b, extra, limit)
  <2>1. r = c
    BY <1>8 DEF Reserve, c
  <2> QED
    BY <1>1, <1>8, <2>1
<1>9. CASE ~Fits(b, extra) /\ ~Fits(c, extra) /\ CanReserve(b, extra, limit)
  <2>1. r = Grown(c, extra, limit)
    BY <1>9 DEF Reserve, c
  <2>2. c \in BufferType /\ c.cap \in Nat /\ c.len \in Nat /\ c.off = 0 /\ c.len <= c.cap
        /\ c.len + extra <= limit /\ c.len + extra \in Nat
    BY <1>1, <1>2, <1>5, <1>9 DEF Sound
  <2>3. PICK old \in Nat \ {0} : old = IF c.cap = 0 THEN 256 ELSE c.cap
    BY <2>2
  <2>4. PICK new \in Nat : new = Doubled(old, c.len + extra) /\ new >= c.len + extra
    BY <2>2, DoubledEnough
  <2>5. PICK cap \in Nat : cap = (IF limit # 0 /\ new > limit THEN limit ELSE new)
    OBVIOUS
  <2>6. r = [c EXCEPT !.cap = cap]
    BY <2>1, <2>3, <2>4, <2>5 DEF Grown
  <2>7. r \in BufferType /\ r.cap = cap /\ r.len = c.len /\ r.off = c.off
    BY <2>2, <2>6 DEF BufferType
  <2>8. cap <= limit /\ cap >= c.len + extra
    BY <2>2, <2>4, <2>5
  <2>9. Unread(r) = Unread(c)
    BY <2>7 DEF Unread
  <2>10. Sound(r) /\ r.cap - r.len >= extra
    BY <2>2, <2>7, <2>8 DEF Sound
  <2> QED
    BY <1>1, <2>7, <2>8, <2>9, <2>10
<1> QED
  BY <1>6, <1>7, <1>8, <1>9

\* Bytes received go to the end.
LEMMA FillKeeps ==
    ASSUME NEW b, Sound(b), NEW n \in Nat, n <= b.cap - b.len
    PROVE  Sound(Fill(b, n)) /\ Unread(Fill(b, n)) = Unread(b) + n /\ Fill(b, n).cap = b.cap
<1>1. b \in BufferType /\ b.cap \in Nat /\ b.len \in Nat /\ b.off \in Nat /\ b.off <= b.len /\ b.len <= b.cap
  BY DEF Sound, BufferType
<1>2. PICK m \in Nat : m = b.len + n
  BY <1>1
<1> DEFINE c == [b EXCEPT !.len = m]
<1>3. Fill(b, n) = c
  BY <1>2 DEF Fill
<1>4. c \in BufferType /\ c.cap = b.cap /\ c.off = b.off /\ c.len = m
  BY <1>1 DEF BufferType
<1> HIDE DEF c
<1>5. Sound(c)
  BY <1>1, <1>2, <1>4 DEF Sound
<1>6. Unread(c) = Unread(b) + n
  BY <1>1, <1>2, <1>4 DEF Unread
<1> QED
  BY <1>3, <1>4, <1>5, <1>6

\* Bytes consumed are taken off the front.
LEMMA ConsumeKeeps ==
    ASSUME NEW b, Sound(b), NEW n \in Nat, n <= Unread(b)
    PROVE  Sound(Consume(b, n)) /\ Unread(Consume(b, n)) = Unread(b) - n /\ Consume(b, n).cap = b.cap
<1>1. b \in BufferType /\ b.cap \in Nat /\ b.len \in Nat /\ b.off \in Nat /\ b.off <= b.len /\ b.len <= b.cap
  BY DEF Sound, BufferType
<1>2. n <= b.len - b.off /\ Unread(b) = b.len - b.off
  BY DEF Unread
<1>3. CASE b.off + n >= b.len
  <2> DEFINE c == [b EXCEPT !.len = 0, !.off = 0]
  <2>1. Consume(b, n) = c
    BY <1>3 DEF Consume
  <2>2. c \in BufferType /\ c.cap = b.cap /\ c.off = 0 /\ c.len = 0
    BY <1>1 DEF BufferType
  <2> HIDE DEF c
  <2>3. Sound(c)
    BY <1>1, <2>2 DEF Sound
  <2>4. Unread(c) = Unread(b) - n
    BY <1>1, <1>2, <1>3, <2>2 DEF Unread
  <2> QED
    BY <2>1, <2>2, <2>3, <2>4
<1>4. CASE ~(b.off + n >= b.len)
  <2>0. PICK m \in Nat : m = b.off + n
    BY <1>1
  <2> DEFINE c == [b EXCEPT !.off = m]
  <2>1. Consume(b, n) = c
    BY <1>4, <2>0 DEF Consume
  <2>2. c \in BufferType /\ c.cap = b.cap /\ c.off = m /\ c.len = b.len
    BY <1>1 DEF BufferType
  <2> HIDE DEF c
  <2>3. Sound(c)
    BY <1>1, <1>4, <2>0, <2>2 DEF Sound
  <2>4. Unread(c) = Unread(b) - n
    BY <1>1, <1>2, <2>0, <2>2 DEF Unread
  <2> QED
    BY <2>1, <2>2, <2>3, <2>4
<1> QED
  BY <1>3, <1>4

-----------------------------------------------------------------------------
(* The frame the parser is at *)

\* A frame that is complete has a header, and bytes that nobody sends have none.
LEMMA FrameTotal ==
    ASSUME NEW f \in FrameType
    PROVE  \E h \in 2..14, n \in Nat : h = Len(HeadBytes(f)) /\ n = f.size /\ FrameLen(f) = h + n
<1>1. PICK n \in Nat : n = f.size
  BY FrameFields
<1>2. PICK h \in 2..14 : h = Len(HeadBytes(f))
  BY FrameLenIs
<1>3. FrameLen(f) = h + n
  BY <1>1, <1>2, FrameLenIs
<1> QED
  BY <1>1, <1>2, <1>3

\* A length with its top bit set is an error as soon as the header is there.
LEMMA TopBit ==
    ASSUME NEW f \in FrameType, NEW b, Shows(b, HeadBytes(f)), f.form = 63,
           NEW n \in Nat, n >= Len(HeadBytes(f))
    PROVE  HeaderError(b, n)
<1>1. PICK h : h = HeadBytes(f) /\ Shows(b, h)
  OBVIOUS
<1>2. Extended(b) = LenBytes(f.form) /\ HeaderLen(b) = Len(h) /\ b[2] = 128
  BY <1>1, HeaderRead
<1>3. LenBytes(f.form) = 8
  BY DEF LenBytes
<1>4. PICK m \in 2..14 : m = Len(h) /\ m >= 10
  <2>1. Len(h) = 2 + LenBytes(f.form) + (IF f.masked THEN 4 ELSE 0)
    BY <1>1, FrameLenIs
  <2>2. Len(h) \in {10, 14}
    BY <1>3, <2>1
  <2> QED
    BY <2>2
<1>5. BadLength(b)
  BY <1>2, <1>3 DEF BadLength
<1>6. n >= 2 + Extended(b) /\ n >= 2
  <2>1. n >= m
    BY <1>1, <1>4
  <2> QED
    BY <1>2, <1>3, <1>4, <2>1
<1> QED
  BY <1>5, <1>6 DEF HeaderError

\* What the frame of a header that is complete is.
LEMMA FrameAt ==
    ASSUME stream \in Seq(FrameType), NEW k \in 0..Len(stream), used = EndOf(k),
           taken \in 0..Total, Avail = taken - used, HeaderComplete(Header, Avail)
    PROVE  /\ k + 1 \in 1..Len(stream) /\ stream[k + 1].form # 63
           /\ PayloadLen(Header) = stream[k + 1].size
           /\ HeaderLen(Header) = Len(HeadBytes(stream[k + 1]))
           /\ Opcode(Header) = stream[k + 1].op
           /\ Fin(Header) = stream[k + 1].fin
           /\ used + HeaderLen(Header) + PayloadLen(Header) = EndOf(k + 1)
<1> DEFINE f == stream[k + 1]
<1>1. Len(stream) \in Nat /\ EndOf(k) \in Nat /\ Total \in Nat
  <2>1. Len(stream) \in 0..Len(stream) /\ Len(stream) \in Nat
    OBVIOUS
  <2> QED
    BY <2>1, BoundsSteps DEF EndOf, Total
<1>2. Avail >= 2 /\ Avail >= HeaderLen(Header) /\ ~HeaderError(Header, Avail)
  BY DEF HeaderComplete
<1>3. Avail \in Nat
  BY <1>1, <1>2
<1>4. k # Len(stream)
  BY <1>1, <1>2 DEF Total
<1>5. k + 1 \in 1..Len(stream) /\ k \in 0..(Len(stream) - 1) /\ f \in FrameType /\ (k + 1) - 1 = k
  BY <1>1, <1>4
<1>6. Shows(Header, HeadBytes(f))
  BY <1>5, HeaderShown
<1> HIDE DEF f
<1>7. PICK h : h = HeadBytes(f) /\ Shows(Header, h)
  BY <1>6
<1>8. /\ HeaderLen(Header) = Len(h) /\ Opcode(Header) = f.op /\ Fin(Header) = f.fin
      /\ f.form # 63 => PayloadLen(Header) = f.size
  BY <1>5, <1>7, HeaderRead
<1>9. f.form # 63
  <2> SUFFICES ASSUME f.form = 63 PROVE FALSE
    OBVIOUS
  <2>1. Avail >= Len(HeadBytes(f))
    BY <1>2, <1>7, <1>8
  <2>2. HeaderError(Header, Avail)
    BY <1>3, <1>5, <1>6, <2>1, TopBit
  <2> QED
    BY <1>2, <2>2
<1>10. used + HeaderLen(Header) + PayloadLen(Header) = EndOf(k + 1)
  <2>1. EndOf(k + 1) = EndOf(k) + FrameLen(f)
    BY <1>5, BoundsSteps DEF EndOf, f
  <2>2. PICK m \in 2..14, n \in Nat : m = Len(h) /\ n = f.size /\ FrameLen(f) = m + n
    BY <1>5, <1>7, FrameTotal
  <2>3. HeaderLen(Header) = m /\ PayloadLen(Header) = n
    BY <1>8, <1>9, <2>2
  <2> QED
    BY <1>1, <2>1, <2>2, <2>3
<1> QED
  BY <1>5, <1>7, <1>8, <1>9, <1>10 DEF f

\* Every frame received as a whole has been consumed.
Parsed == \A i \in DOMAIN stream : EndOf(i) <= taken => EndOf(i) <= used

\* When the loop asks for more bytes no whole frame is left.
LEMMA NeedMoreParsed ==
    ASSUME stream \in Seq(FrameType), NEW k \in 0..Len(stream), used = EndOf(k),
           taken \in 0..Total, Avail = taken - used, Avail \in Nat, NeedMore
    PROVE  Parsed
<1> SUFFICES ASSUME NEW i \in DOMAIN stream, EndOf(i) <= taken, ~(EndOf(i) <= used)
             PROVE  FALSE
  BY DEF Parsed
<1>1. i \in 1..Len(stream) /\ i \in 0..Len(stream) /\ Len(stream) \in Nat
      /\ Len(stream) \in 0..Len(stream)
  OBVIOUS
<1>2. EndOf(i) \in Nat /\ EndOf(k) \in Nat /\ Total \in Nat
  BY <1>1, BoundsSteps DEF EndOf, Total
<1>3. k + 1 \in 1..Len(stream) /\ k + 1 \in 0..Len(stream) /\ k + 1 <= i /\ k \in 0..(Len(stream) - 1)
  <2>1. ~(i <= k)
    <3>1. i <= k => EndOf(i) <= EndOf(k)
      BY <1>1, BoundsGrow DEF EndOf
    <3> QED
      BY <1>2, <3>1
  <2> QED
    BY <1>1, <2>1
<1>4. EndOf(k + 1) <= EndOf(i) /\ EndOf(k + 1) \in Nat
  BY <1>1, <1>3, BoundsGrow, BoundsSteps DEF EndOf
<1> DEFINE f == stream[k + 1]
<1>5. f \in FrameType /\ (k + 1) - 1 = k
  BY <1>3
<1>6. EndOf(k + 1) = EndOf(k) + FrameLen(f)
  BY <1>3, <1>5, BoundsSteps DEF EndOf
<1>7. Shows(Header, HeadBytes(f))
  BY <1>3, HeaderShown
<1> HIDE DEF f
<1>8. PICK h \in 2..14, n \in Nat : h = Len(HeadBytes(f)) /\ n = f.size /\ FrameLen(f) = h + n
  BY <1>5, FrameTotal
<1>9. Avail >= h + n /\ Avail >= h /\ Avail >= 2
  <2>1. PICK u \in Nat, v \in Nat, w \in Nat : u = EndOf(k) /\ v = EndOf(k + 1) /\ w = EndOf(i)
    BY <1>2, <1>4
  <2>2. v = u + (h + n) /\ v <= w
    BY <1>4, <1>6, <1>8, <2>1
  <2>3. PICK t \in Nat : t = taken /\ w <= t /\ Avail = t - u
    BY <1>2, <2>1
  <2>4. t - u >= h + n /\ t - u >= h /\ t - u >= 2
    BY <2>2, <2>3
  <2> QED
    BY <2>3, <2>4
<1>10. ~HeaderError(Header, Avail)
  BY DEF NeedMore
<1>11. HeaderLen(Header) = h
  BY <1>5, <1>7, <1>8, HeaderRead
<1>12. HeaderComplete(Header, Avail)
  BY <1>9, <1>10, <1>11 DEF HeaderComplete
<1>13. Avail < HeaderLen(Header) + Size
  BY <1>12 DEF NeedMore
<1>14. Size = n
  BY <1>8, <1>12, FrameAt DEF Size, f
<1> QED
  BY <1>9, <1>11, <1>13, <1>14

-----------------------------------------------------------------------------
(* The inductive invariant: the bytes received *)

SourceTyped ==
    /\ args \in Seq(Arguments) /\ stream \in Seq(FrameType) /\ cuts \subseteq 0..Total
    /\ arrived \in 0..Total /\ taken \in 0..arrived
    /\ peer \in {"open", "fin", "reset"} /\ tx \in Nat
    /\ closing \in BOOLEAN /\ eof \in BOOLEAN
    /\ pc \in {"refused", "recv", "parse", "flush", "idle", "closed"}

AtFrame == \E k \in 0..Len(stream) : used = EndOf(k)
Held == Sound(rx) /\ Unread(rx) = taken - used /\ used <= taken
Capped == rx.cap = Defaults.handshakeMax \/ rx.cap <= HardCap

InputInv == SourceTyped /\ AtFrame /\ Held /\ Capped

\* A stream has a length.
LEMMA TotalTyped ==
    ASSUME stream \in Seq(FrameType)
    PROVE  Total \in Nat /\ EndOf(0) = 0 /\ \A k \in 0..Len(stream) : EndOf(k) \in Nat
<1>1. Len(stream) \in 0..Len(stream)
  OBVIOUS
<1> QED
  BY <1>1, BoundsSteps DEF Total, EndOf

\* The limit of the buffer is a positive number.
LEMMA LimitTyped ==
    ASSUME args \in Seq(Arguments)
    PROVE  HardCap \in Nat \ {0}
<1>1. conf \in ConfType
  BY ParsedTyped DEF conf
<1>2. conf.maxFrame \in Nat \ {0} /\ conf.maxMessage \in Nat \ {0}
  BY <1>1 DEF ConfType, ConfOk
<1> QED
  BY <1>2 DEF HardCap

\* The handshake hands over a buffer with what came behind the request.
LEMMA InputInit == Init => InputInv
<1> SUFFICES ASSUME Init PROVE InputInv
  OBVIOUS
<1>0. PICK case \in Cases : \E n \in {n \in case.cuts \cup {0} : n <= Chunk \div 2} :
          /\ args = case.args /\ stream = case.stream /\ cuts = case.cuts
          /\ arrived = n /\ peer = "open"
          /\ rx = Consume([cap |-> Defaults.handshakeMax, len |-> RequestLen + n, off |-> 0],
                          RequestLen)
          /\ taken = n /\ used = 0 /\ tx = 0 /\ closing = FALSE /\ eof = FALSE
          /\ pc = IF ParseArgs(case.args).rc = "ok" THEN "recv" ELSE "refused"
  BY DEF Init
<1>1. PICK early \in {n \in case.cuts \cup {0} : n <= Chunk \div 2} :
          /\ args = case.args /\ stream = case.stream /\ cuts = case.cuts
          /\ arrived = early /\ peer = "open"
          /\ rx = Consume([cap |-> Defaults.handshakeMax, len |-> RequestLen + early, off |-> 0],
                          RequestLen)
          /\ taken = early /\ used = 0 /\ tx = 0 /\ closing = FALSE /\ eof = FALSE
          /\ pc = IF ParseArgs(case.args).rc = "ok" THEN "recv" ELSE "refused"
  BY <1>0
<1>2. args \in Seq(Arguments) /\ stream \in Seq(FrameType)
      /\ cuts \subseteq 0..Bounds(stream)[Len(stream)]
  BY <1>1, CasesAssumption
<1>3. Total \in Nat /\ EndOf(0) = 0 /\ cuts \subseteq 0..Total
  BY <1>2, TotalTyped DEF Total, EndOf
<1>4. early \in 0..Total /\ early \in Nat /\ early <= Chunk
  <2>1. Chunk \in Nat
    BY SizesAssumption
  <2>2. early \in 0..Total /\ early <= Chunk \div 2
    BY <1>1, <1>3
  <2> QED
    BY <1>3, <2>1, <2>2
<1> DEFINE b == [cap |-> Defaults.handshakeMax, len |-> RequestLen + early, off |-> 0]
<1>5. Defaults.handshakeMax = 8192
  BY DEF Defaults
<1>6. RequestLen \in Nat /\ RequestLen + early \in Nat /\ RequestLen + early <= 8192
  BY <1>4, <1>5, SizesAssumption
<1>7. Sound(b) /\ Unread(b) = RequestLen + early /\ b.cap = 8192
  BY <1>5, <1>6 DEF Sound, BufferType, Unread
<1>8. rx = Consume(b, RequestLen)
  BY <1>1
<1> HIDE DEF b
<1>9. Sound(rx) /\ Unread(rx) = early /\ rx.cap = 8192
  <2>1. RequestLen <= Unread(b)
    BY <1>4, <1>6, <1>7
  <2>2. Sound(rx) /\ Unread(rx) = (RequestLen + early) - RequestLen /\ rx.cap = 8192
    BY <1>6, <1>7, <1>8, <2>1, ConsumeKeeps
  <2> QED
    BY <1>4, <1>6, <2>2
<1>10. SourceTyped
  <2>1. /\ arrived = early /\ taken = early /\ peer = "open" /\ tx = 0 /\ closing = FALSE
        /\ eof = FALSE /\ pc \in {"recv", "refused"}
    BY <1>1
  <2>2. early \in 0..early
    BY <1>4
  <2> QED
    BY <1>2, <1>3, <1>4, <2>1, <2>2 DEF SourceTyped
<1>11. AtFrame
  <2>1. 0 \in 0..Len(stream)
    BY <1>2
  <2> QED
    BY <1>1, <1>3, <2>1 DEF AtFrame
<1>12. Held
  <2>1. taken = early /\ used = 0
    BY <1>1
  <2> QED
    BY <1>4, <1>9, <2>1 DEF Held
<1>13. Capped
  BY <1>5, <1>9 DEF Capped
<1> QED
  BY <1>10, <1>11, <1>12, <1>13 DEF InputInv

\* The variables of the bytes received, and what a step may do to them.
inputVars == <<args, stream, cuts, arrived, rx, taken, used>>

Still == UNCHANGED inputVars
Arrives == arrived' \in {n \in cuts : n > arrived}
           /\ UNCHANGED <<args, stream, cuts, rx, taken, used>>
Reserved == rx' = Room /\ UNCHANGED <<args, stream, cuts, arrived, taken, used>>
Received ==
    /\ HasRoom /\ arrived > taken
    /\ \E n \in {Min({arrived - taken, Room.cap - Room.len})} :
           rx' = Fill(Room, n) /\ taken' = taken + n
    /\ UNCHANGED <<args, stream, cuts, arrived, used>>
Consumed == HasFrame /\ ConsumeFrame /\ UNCHANGED <<args, stream, cuts, arrived, taken>>

\* Every step does one of these five things.
LEMMA InputEffects ==
    ASSUME Next
    PROVE  Still \/ Arrives \/ Reserved \/ Received \/ Consumed
<1> USE DEF Still, inputVars
<1>1. CASE PeerSend
  BY <1>1 DEF PeerSend, Arrives
<1>2. CASE PeerClose
  BY <1>2 DEF PeerClose
<1>3. CASE PeerReads
  BY <1>3 DEF PeerReads
<1>4. CASE Event
  BY <1>4 DEF Event, peerVars, connVars
<1>5. CASE Recv
  BY <1>5 DEF Recv, peerVars, connVars, Received
<1>6. CASE RecvNone
  BY <1>6 DEF RecvNone, peerVars, connVars, Reserved
<1>7. CASE RecvEnd
  BY <1>7 DEF RecvEnd, peerVars, connVars, Reserved
<1>8. CASE RecvFull
  BY <1>8 DEF RecvFull, peerVars, Reserved
<1>9. CASE RefuseHeader
  BY <1>9 DEF RefuseHeader, Refuse, peerVars
<1>10. CASE RefuseSize
  BY <1>10 DEF RefuseSize, Refuse, peerVars
<1>11. CASE Ping
  BY <1>11 DEF Ping, peerVars, Consumed
<1>12. CASE Pong
  BY <1>12 DEF Pong, peerVars, Consumed
<1>13. CASE CloseFrame
  BY <1>13 DEF CloseFrame, peerVars, Consumed
<1>14. CASE RefusePlace
  BY <1>14 DEF RefusePlace, Refuse, peerVars
<1>15. CASE RefuseMessage
  BY <1>15 DEF RefuseMessage, peerVars
<1>16. CASE Fragment
  BY <1>16 DEF Fragment, DataInOrder, HasData, peerVars, Consumed
<1>17. CASE RefuseText
  BY <1>17 DEF RefuseText, DataInOrder, HasData, peerVars, Consumed
<1>18. CASE Publish
  BY <1>18 DEF Publish, DataInOrder, HasData, peerVars, Consumed
<1>19. CASE LoopEnds
  BY <1>19 DEF LoopEnds, peerVars, connVars
<1>20. CASE FlushAll
  BY <1>20 DEF FlushAll, flushed
<1>21. CASE FlushSome
  BY <1>21 DEF FlushSome, flushed
<1>22. CASE FlushError
  BY <1>22 DEF FlushError, flushed
<1> QED
  BY <1>1, <1>2, <1>3, <1>4, <1>5, <1>6, <1>7, <1>8, <1>9, <1>10, <1>11, <1>12, <1>13, <1>14,
     <1>15, <1>16, <1>17, <1>18, <1>19, <1>20, <1>21, <1>22 DEF Next, WorkerStep, HandleFrame

controlVars == <<peer, tx, closing, eof, pc>>

\* The rest of the state keeps its type.
LEMMA ControlTyped ==
    ASSUME SourceTyped, Next
    PROVE  /\ peer' \in {"open", "fin", "reset"} /\ tx' \in Nat
           /\ closing' \in BOOLEAN /\ eof' \in BOOLEAN
           /\ pc' \in {"refused", "recv", "parse", "flush", "idle", "closed"}
<1>0. /\ peer \in {"open", "fin", "reset"} /\ tx \in Nat
      /\ closing \in BOOLEAN /\ eof \in BOOLEAN
      /\ pc \in {"refused", "recv", "parse", "flush", "idle", "closed"}
      /\ tx + 1 \in Nat
  BY DEF SourceTyped
<1>1. CASE PeerSend
  BY <1>0, <1>1 DEF PeerSend
<1>2. CASE PeerClose
  BY <1>0, <1>2 DEF PeerClose
<1>3. CASE PeerReads
  BY <1>0, <1>3 DEF PeerReads
<1>4. CASE Event
  BY <1>0, <1>4 DEF Event, peerVars, connVars
<1>5. CASE Recv
  BY <1>0, <1>5 DEF Recv, peerVars, connVars
<1>6. CASE RecvNone
  BY <1>0, <1>6 DEF RecvNone, peerVars, connVars
<1>7. CASE RecvEnd
  BY <1>0, <1>7 DEF RecvEnd, peerVars, connVars
<1>8. CASE RecvFull
  <2>1. peer' = peer /\ eof' = FALSE /\ pc' = "parse"
    BY <1>8 DEF RecvFull, peerVars
  <2>2. CASE closing
    <3>1. tx' = tx /\ closing' = closing
      BY <1>8, <2>2 DEF RecvFull
    <3> QED
      BY ONLY <1>0, <2>1, <3>1
  <2>3. CASE ~closing
    <3>1. tx' = tx + 1 /\ closing' = TRUE
      BY <1>8, <2>3 DEF RecvFull, SendClose
    <3> QED
      BY ONLY <1>0, <2>1, <3>1
  <2> QED
    BY ONLY <2>2, <2>3
<1>9. CASE RefuseHeader
  BY <1>0, <1>9 DEF RefuseHeader, Refuse, SendClose, peerVars
<1>10. CASE RefuseSize
  BY <1>0, <1>10 DEF RefuseSize, Refuse, SendClose, peerVars
<1>11. CASE Ping
  BY <1>0, <1>11 DEF Ping, peerVars
<1>12. CASE Pong
  BY <1>0, <1>12 DEF Pong, peerVars
<1>13. CASE CloseFrame
  BY <1>0, <1>13 DEF CloseFrame, SendClose, peerVars
<1>14. CASE RefusePlace
  BY <1>0, <1>14 DEF RefusePlace, Refuse, SendClose, peerVars
<1>15. CASE RefuseMessage
  BY <1>0, <1>15 DEF RefuseMessage, SendClose, peerVars
<1>16. CASE Fragment
  BY <1>0, <1>16 DEF Fragment, peerVars
<1>17. CASE RefuseText
  BY <1>0, <1>17 DEF RefuseText, SendClose, peerVars
<1>18. CASE Publish
  BY <1>0, <1>18 DEF Publish, peerVars
<1>19. CASE LoopEnds
  BY <1>0, <1>19 DEF LoopEnds, peerVars, connVars
<1>20. CASE FlushAll
  BY <1>0, <1>20 DEF FlushAll, flushed
<1>21. CASE FlushSome
  BY <1>0, <1>21 DEF FlushSome, flushed
<1>22. CASE FlushError
  BY <1>0, <1>22 DEF FlushError, flushed
<1> QED
  BY <1>1, <1>2, <1>3, <1>4, <1>5, <1>6, <1>7, <1>8, <1>9, <1>10, <1>11, <1>12, <1>13, <1>14,
     <1>15, <1>16, <1>17, <1>18, <1>19, <1>20, <1>21, <1>22 DEF Next, WorkerStep, HandleFrame

\* What the limit is does not change while bytes are received.
LEMMA InputFixed ==
    ASSUME InputInv, Next
    PROVE  /\ args' = args /\ stream' = stream /\ cuts' = cuts
           /\ Total' = Total /\ HardCap' = HardCap /\ \A k : EndOf(k)' = EndOf(k)
<1>1. args' = args /\ stream' = stream /\ cuts' = cuts
  BY InputEffects DEF Still, inputVars, Arrives, Reserved, Received, Consumed
<1> QED
  BY <1>1 DEF Total, HardCap, conf, EndOf

\* Bytes received go to the end of the buffer.
LEMMA ReceivedKeeps ==
    ASSUME InputInv, Received
    PROVE  /\ taken' \in 0..arrived' /\ Sound(rx') /\ Unread(rx') = taken' - used
           /\ used <= taken' /\ (rx'.cap = Defaults.handshakeMax \/ rx'.cap <= HardCap)
<1>1. /\ arrived \in Nat /\ taken \in Nat /\ taken <= arrived /\ arrived > taken /\ arrived' = arrived
      /\ Sound(rx) /\ Unread(rx) = taken - used /\ used <= taken
      /\ args \in Seq(Arguments) /\ stream \in Seq(FrameType)
  <2>1. Total \in Nat
    BY TotalTyped DEF InputInv, SourceTyped
  <2> QED
    BY <2>1 DEF InputInv, SourceTyped, Held, Received
<1>2. used \in Nat
  BY <1>1, TotalTyped DEF InputInv, AtFrame
<1>3. HardCap \in Nat \ {0} /\ Chunk \in Nat \ {0}
  BY <1>1, LimitTyped, SizesAssumption
<1>4. /\ Sound(Room) /\ Unread(Room) = Unread(rx) /\ Room.cap - Room.len >= Chunk
      /\ (Room.cap = rx.cap \/ Room.cap <= HardCap)
  <2>1. PICK r, limit : r = Room /\ limit = HardCap
    OBVIOUS
  <2>2. r = Reserve(rx, Chunk, limit) /\ CanReserve(rx, Chunk, limit)
    BY <2>1 DEF Room, HasRoom, Received
  <2>3. Chunk \in Nat /\ limit \in Nat \ {0}
    BY <1>3, <2>1
  <2> QED
    BY <1>1, <2>1, <2>2, <2>3, ReserveKeeps
<1>5. PICK n : n = Min({arrived - taken, Room.cap - Room.len}) /\ rx' = Fill(Room, n) /\ taken' = taken + n
  BY DEF Received
<1>6. n \in Nat /\ n <= arrived - taken /\ n <= Room.cap - Room.len
  <2>1. PICK a \in Nat, b \in Nat : a = arrived - taken /\ b = Room.cap - Room.len
    <3>1. arrived - taken \in Nat
      BY <1>1
    <3>2. Room.cap \in Nat /\ Room.len \in Nat
      BY <1>4 DEF Sound, BufferType
    <3>3. Room.cap - Room.len \in Nat
      BY <1>3, <1>4, <3>2
    <3> QED
      BY <3>1, <3>3
  <2>2. \E x \in {a, b} : \A y \in {a, b} : x <= y
    OBVIOUS
  <2>3. Min({a, b}) \in {a, b} /\ \A y \in {a, b} : Min({a, b}) <= y
    BY <2>2 DEF Min
  <2> QED
    BY <1>5, <2>1, <2>3
<1>7. Sound(rx') /\ Unread(rx') = Unread(rx) + n /\ rx'.cap = Room.cap
  BY <1>4, <1>5, <1>6, FillKeeps
<1>8. rx'.cap = Defaults.handshakeMax \/ rx'.cap <= HardCap
  BY <1>4, <1>7 DEF InputInv, Capped
<1> QED
  BY <1>1, <1>2, <1>5, <1>6, <1>7, <1>8

\* A reservation alone changes nothing that counts.
LEMMA ReservedKeeps ==
    ASSUME InputInv, Reserved
    PROVE  /\ Sound(rx') /\ Unread(rx') = taken - used
           /\ (rx'.cap = Defaults.handshakeMax \/ rx'.cap <= HardCap)
<1>1. Sound(rx) /\ Unread(rx) = taken - used /\ args \in Seq(Arguments)
  BY DEF InputInv, SourceTyped, Held
<1>2. PICK limit : limit = HardCap /\ limit \in Nat \ {0}
  BY <1>1, LimitTyped
<1>3. Chunk \in Nat
  BY SizesAssumption
<1>4. rx' = Reserve(rx, Chunk, limit)
  BY <1>2 DEF Reserved, Room
<1>5. Sound(rx') /\ Unread(rx') = Unread(rx) /\ (rx'.cap = rx.cap \/ rx'.cap <= limit)
  <2>1. PICK r : r = rx' /\ r = Reserve(rx, Chunk, limit)
    BY <1>4
  <2> QED
    BY <1>1, <1>2, <1>3, <2>1, ReserveKeeps
<1> QED
  BY <1>1, <1>2, <1>5 DEF InputInv, Capped

\* A frame that is consumed is one frame, as a whole.
LEMMA ConsumedKeeps ==
    ASSUME InputInv, Consumed
    PROVE  /\ \E k \in 0..Len(stream) : used' = EndOf(k)
           /\ Sound(rx') /\ Unread(rx') = taken - used' /\ used' <= taken /\ rx'.cap = rx.cap
<1>1. /\ stream \in Seq(FrameType) /\ arrived \in 0..Total /\ taken \in 0..arrived
      /\ Sound(rx) /\ Unread(rx) = taken - used /\ used <= taken
  BY DEF InputInv, SourceTyped, Held
<1>2. PICK k \in 0..Len(stream) : used = EndOf(k)
  BY DEF InputInv, AtFrame
<1>3. Total \in Nat /\ used \in Nat /\ taken \in 0..Total /\ taken \in Nat
  BY <1>1, <1>2, TotalTyped
<1>4. /\ HeaderComplete(Header, Avail) /\ Avail >= HeaderLen(Header) + PayloadLen(Header)
      /\ Avail = taken - used
  BY <1>1 DEF Consumed, HasFrame, HeaderGood, Avail
<1>5. /\ k + 1 \in 1..Len(stream) /\ HeaderLen(Header) = Len(HeadBytes(stream[k + 1]))
      /\ PayloadLen(Header) = stream[k + 1].size
      /\ used + HeaderLen(Header) + PayloadLen(Header) = EndOf(k + 1)
  BY <1>1, <1>2, <1>3, <1>4, FrameAt
<1>6. PICK h \in 2..14, n \in Nat : h = HeaderLen(Header) /\ n = PayloadLen(Header)
  <2>1. stream[k + 1] \in FrameType
    BY <1>1, <1>5
  <2> QED
    BY <1>5, <2>1, FrameTotal
<1>7. h + n \in Nat /\ h + n <= Unread(rx)
  <2>1. PICK u : u = Unread(rx)
    OBVIOUS
  <2>2. u = taken - used /\ Avail = u /\ Avail >= h + n
    BY <1>1, <1>4, <1>6, <2>1
  <2>3. h + n \in Nat
    BY ONLY h \in 2..14, n \in Nat
  <2>4. h + n <= u
    BY ONLY <2>2
  <2> QED
    BY ONLY <2>1, <2>3, <2>4
<1>8. rx' = Consume(rx, h + n) /\ used' = used + h + n
  BY <1>6 DEF Consumed, ConsumeFrame, Size
<1>9. Sound(rx') /\ Unread(rx') = Unread(rx) - (h + n) /\ rx'.cap = rx.cap
  BY <1>1, <1>7, <1>8, ConsumeKeeps
<1>10. Unread(rx') = taken - used' /\ used' <= taken
  <2>1. PICK t \in Nat, u \in Nat : t = taken /\ u = used
    BY <1>3
  <2>2. h + n <= t - u /\ used' = u + h + n /\ Unread(rx') = (t - u) - (h + n)
    BY <1>1, <1>7, <1>8, <1>9, <2>1
  <2>3. (t - u) - (h + n) = t - (u + h + n) /\ u + h + n <= t
    BY <2>2
  <2> QED
    BY <2>1, <2>2, <2>3
<1>11. k + 1 \in 0..Len(stream) /\ used' = EndOf(k + 1)
  BY <1>1, <1>2, <1>5, <1>6, <1>8
<1> QED
  BY <1>9, <1>10, <1>11

\* The invariant is kept by every step.
LEMMA InputStep == InputInv /\ [Next]_vars => InputInv'
<1> SUFFICES ASSUME InputInv, [Next]_vars PROVE InputInv'
  OBVIOUS
<1>1. CASE UNCHANGED vars
  <2>1. Total' = Total /\ HardCap' = HardCap /\ \A k : EndOf(k)' = EndOf(k)
    BY <1>1 DEF vars, peerVars, Total, HardCap, conf, EndOf
  <2>2. SourceTyped' /\ AtFrame' /\ Held' /\ Capped'
    BY <1>1, <2>1 DEF InputInv, SourceTyped, AtFrame, Held, Capped, vars, peerVars
  <2> QED
    BY <2>2 DEF InputInv
<1>2. CASE Next
  <2>1. /\ args' = args /\ stream' = stream /\ cuts' = cuts
        /\ Total' = Total /\ HardCap' = HardCap /\ \A k : EndOf(k)' = EndOf(k)
    BY <1>2, InputFixed
  <2>2. SourceTyped /\ AtFrame /\ Held /\ Capped
    BY DEF InputInv
  <2>3. Still \/ Arrives \/ Reserved \/ Received \/ Consumed
    BY <1>2, InputEffects
  <2>4. arrived' \in 0..Total /\ taken' \in 0..arrived'
    <3>1. arrived \in 0..Total /\ taken \in 0..arrived /\ Total \in Nat /\ cuts \subseteq 0..Total
      BY <2>2, TotalTyped DEF SourceTyped
    <3>2. CASE Still \/ Reserved \/ Consumed
      BY <3>1, <3>2 DEF Still, inputVars, Reserved, Consumed
    <3>3. CASE Arrives
      BY <3>1, <3>3 DEF Arrives
    <3>4. CASE Received
      <4>1. arrived' = arrived
        BY <3>4 DEF Received
      <4> QED
        BY <3>1, <3>4, <4>1, ReceivedKeeps
    <3> QED
      BY <2>3, <3>2, <3>3, <3>4
  <2>5. SourceTyped'
    <3>1. /\ peer' \in {"open", "fin", "reset"} /\ tx' \in Nat
          /\ closing' \in BOOLEAN /\ eof' \in BOOLEAN
          /\ pc' \in {"refused", "recv", "parse", "flush", "idle", "closed"}
      BY <1>2, <2>2, ControlTyped
    <3> QED
      BY <2>1, <2>2, <2>4, <3>1 DEF SourceTyped
  <2>6. \E k \in 0..Len(stream) : used' = EndOf(k)
    <3>1. CASE Consumed
      BY <3>1, ConsumedKeeps
    <3>2. CASE ~Consumed
      <4>1. used' = used
        BY <2>3, <3>2 DEF Still, inputVars, Arrives, Reserved, Received
      <4> QED
        BY <2>2, <4>1 DEF AtFrame
    <3> QED
      BY <3>1, <3>2
  <2>7. AtFrame'
    BY <2>1, <2>6 DEF AtFrame
  <2>8. /\ Sound(rx') /\ Unread(rx') = taken' - used' /\ used' <= taken'
        /\ (rx'.cap = Defaults.handshakeMax \/ rx'.cap <= HardCap)
    <3>1. CASE Still \/ Arrives
      BY <2>2, <3>1 DEF Still, inputVars, Arrives, Held, Capped
    <3>2. CASE Reserved
      BY <2>2, <3>2, ReservedKeeps DEF Reserved, Held
    <3>3. CASE Received
      BY <3>3, ReceivedKeeps DEF Received
    <3>4. CASE Consumed
      BY <2>2, <3>4, ConsumedKeeps DEF Consumed, Capped
    <3> QED
      BY <2>3, <3>1, <3>2, <3>3, <3>4
  <2>9. Held' /\ Capped'
    BY <2>1, <2>8 DEF Held, Capped, Sound, Unread
  <2> QED
    BY <2>5, <2>7, <2>9 DEF InputInv
<1> QED
  BY <1>1, <1>2

\* The invariant says what BufferIntact asks for.
LEMMA InputIntact == InputInv => BufferIntact
<1> SUFFICES ASSUME InputInv PROVE BufferIntact
  OBVIOUS
<1>1. /\ args \in Seq(Arguments) /\ arrived \in 0..Total /\ taken \in 0..arrived
      /\ stream \in Seq(FrameType)
      /\ rx \in BufferType /\ rx.off <= rx.len /\ rx.len <= rx.cap
      /\ Unread(rx) = taken - used /\ \E k \in 0..Len(stream) : used = EndOf(k)
      /\ (rx.cap = Defaults.handshakeMax \/ rx.cap <= HardCap)
  BY DEF InputInv, SourceTyped, AtFrame, Held, Capped, Sound
<1>2. rx.cap <= Max({HardCap, Defaults.handshakeMax})
  <2>1. PICK a \in Nat, b \in Nat : a = HardCap /\ b = Defaults.handshakeMax
    <3>1. Defaults.handshakeMax \in Nat
      BY DEF Defaults
    <3> QED
      BY <1>1, <3>1, LimitTyped
  <2>2. \E x \in {a, b} : \A y \in {a, b} : x >= y
    OBVIOUS
  <2>3. Max({a, b}) \in {a, b} /\ \A y \in {a, b} : Max({a, b}) >= y
    BY <2>2 DEF Max
  <2>4. rx.cap \in Nat
    BY <1>1 DEF BufferType
  <2> QED
    BY <1>1, <2>1, <2>3, <2>4
<1>3. taken <= arrived
  BY <1>1, TotalTyped
<1> QED
  BY <1>1, <1>2, <1>3 DEF BufferIntact

\* Growth, compaction and consumption of the buffer lose and repeat nothing, the
\* parser is always at the beginning of a frame, and the capacity keeps its limit,
\* for frames of any length, bytes that arrive in any pieces, and any command line
\* (conn.c:15-67).
THEOREM BufferIsIntact == Spec => []BufferIntact
<1>1. Init => InputInv
  BY InputInit
<1>2. InputInv /\ [Next]_vars => InputInv'
  BY InputStep
<1>3. InputInv => BufferIntact
  BY InputIntact
<1> QED
  BY <1>1, <1>2, <1>3, PTL DEF Spec

-----------------------------------------------------------------------------
(* The inductive invariant: the worker and the end of the stream *)

\* The end of the stream has been seen: nothing is left in the socket, or the
\* error has taken it.
Ended ==
    eof => /\ pc \in {"parse", "flush", "closed"}
           /\ peer = "reset" \/ (peer = "fin" /\ arrived = taken)
\* Behind the loop no whole frame is left.
Left == pc \in {"flush", "idle", "closed"} => closing \/ Parsed
\* What a connection that waits has asked for.
Waits ==
    pc = "idle" =>
        /\ "in" \in armed /\ (tx # 0 => "out" \in armed)
        /\ closing => tx # 0
\* Why a connection is closed.
Over == pc = "closed" => closing \/ eof \/ peer = "reset"

WorkerInv == Ended /\ Left /\ Waits /\ Over

\* Between two steps of the loop over the frames only rx, the message and the
\* answers change.
Handles == pc = "parse" /\ UNCHANGED <<peer, arrived, taken, eof, pc>>

\* HandleFrame (one turn of the loop) reads nothing from the socket and stays in
\* the loop.
LEMMA FrameHandles ==
    ASSUME HandleFrame
    PROVE  Handles
<1> USE DEF Handles, peerVars
<1>1. CASE RefuseHeader
  BY <1>1 DEF RefuseHeader, Refuse, Parsing
<1>2. CASE RefuseSize
  BY <1>2 DEF RefuseSize, Refuse, HeaderGood, Parsing
<1>3. CASE Ping
  BY <1>3 DEF Ping, HasFrame, HeaderGood, Parsing
<1>4. CASE Pong
  BY <1>4 DEF Pong, HasFrame, HeaderGood, Parsing
<1>5. CASE CloseFrame
  BY <1>5 DEF CloseFrame, HasFrame, HeaderGood, Parsing
<1>6. CASE RefusePlace
  BY <1>6 DEF RefusePlace, Refuse, HasData, HasFrame, HeaderGood, Parsing
<1>7. CASE RefuseMessage
  BY <1>7 DEF RefuseMessage, HasData, HasFrame, HeaderGood, Parsing
<1>8. CASE Fragment
  BY <1>8 DEF Fragment, DataInOrder, HasData, HasFrame, HeaderGood, Parsing
<1>9. CASE RefuseText
  BY <1>9 DEF RefuseText, DataInOrder, HasData, HasFrame, HeaderGood, Parsing
<1>10. CASE Publish
  BY <1>10 DEF Publish, DataInOrder, HasData, HasFrame, HeaderGood, Parsing
<1> QED
  BY <1>1, <1>2, <1>3, <1>4, <1>5, <1>6, <1>7, <1>8, <1>9, <1>10 DEF HandleFrame

\* A connection starts in recv(), or not at all.
LEMMA WorkerInit == Init => WorkerInv
  BY DEF Init, WorkerInv, Ended, Left, Waits, Over

\* What a step leaves as it was stays true.
LEMMA ParsedStays ==
    ASSUME Parsed, UNCHANGED <<stream, taken, used>>
    PROVE  Parsed'
<1>1. \A i : EndOf(i)' = EndOf(i)
  BY DEF EndOf
<1> QED
  BY <1>1 DEF Parsed

\* The end of the stream is final.
LEMMA EndedStep ==
    ASSUME SourceTyped, WorkerInv, Next
    PROVE  Ended'
<1>0. /\ eof => /\ pc \in {"parse", "flush", "closed"}
                /\ peer = "reset" \/ (peer = "fin" /\ arrived = taken)
      /\ eof \in BOOLEAN /\ closing \in BOOLEAN
  BY DEF WorkerInv, Ended, SourceTyped
<1>1. CASE PeerSend
  BY <1>0, <1>1 DEF PeerSend, Ended
<1>2. CASE PeerClose
  BY <1>0, <1>2 DEF PeerClose, Ended
<1>3. CASE PeerReads
  BY <1>0, <1>3 DEF PeerReads, Ended
<1>4. CASE Event
  BY <1>0, <1>4 DEF Event, Ended
<1>5. CASE Recv
  BY <1>0, <1>5 DEF Recv, Ended
<1>6. CASE RecvNone
  BY <1>6 DEF RecvNone, Ended
<1>7. CASE RecvEnd
  BY <1>7 DEF RecvEnd, Ended, peerVars
<1>8. CASE RecvFull
  BY <1>8 DEF RecvFull, Ended
<1>9. CASE HandleFrame
  BY <1>0, <1>9, FrameHandles DEF Handles, Ended
<1>10. CASE LoopEnds
  BY <1>0, <1>10 DEF LoopEnds, peerVars, Ended
<1>11. CASE FlushAll
  BY <1>0, <1>11 DEF FlushAll, flushed, Ended
<1>12. CASE FlushSome
  BY <1>0, <1>12 DEF FlushSome, flushed, Ended
<1>13. CASE FlushError
  BY <1>0, <1>13 DEF FlushError, flushed, Ended
<1> QED
  BY <1>1, <1>2, <1>3, <1>4, <1>5, <1>6, <1>7, <1>8, <1>9, <1>10, <1>11, <1>12, <1>13
     DEF Next, WorkerStep

\* The loop ends when no whole frame is left.
LEMMA LeftStep ==
    ASSUME InputInv, WorkerInv, Next
    PROVE  Left'
<1>0. pc \in {"flush", "idle", "closed"} => closing \/ Parsed
  BY DEF WorkerInv, Left
<1>1. CASE PeerSend
  BY <1>0, <1>1, ParsedStays DEF PeerSend, Left
<1>2. CASE PeerClose
  BY <1>0, <1>2, ParsedStays DEF PeerClose, Left
<1>3. CASE PeerReads
  BY <1>0, <1>3, ParsedStays DEF PeerReads, Left
<1>4. CASE Event
  BY <1>4 DEF Event, Left
<1>5. CASE Recv
  BY <1>5 DEF Recv, Left
<1>6. CASE RecvNone
  BY <1>6 DEF RecvNone, Left
<1>7. CASE RecvEnd
  BY <1>7 DEF RecvEnd, Left
<1>8. CASE RecvFull
  BY <1>8 DEF RecvFull, Left
<1>9. CASE HandleFrame
  BY <1>9, FrameHandles DEF Handles, Left
<1>10. CASE LoopEnds
  <2>1. UNCHANGED <<stream, taken, used>> /\ closing' = closing /\ (closing \/ NeedMore)
    BY <1>10 DEF LoopEnds, peerVars, connVars
  <2>2. CASE closing
    BY <2>1, <2>2 DEF Left
  <2>3. CASE NeedMore
    <3>1. /\ stream \in Seq(FrameType) /\ arrived \in 0..Total /\ taken \in 0..arrived
          /\ Avail = taken - used /\ used <= taken
      BY DEF InputInv, SourceTyped, Held, Avail
    <3>2. PICK k \in 0..Len(stream) : used = EndOf(k)
      BY DEF InputInv, AtFrame
    <3>3. taken \in 0..Total /\ Avail \in Nat
      BY <3>1, <3>2, TotalTyped
    <3>4. Parsed
      BY <2>3, <3>1, <3>2, <3>3, NeedMoreParsed
    <3> QED
      BY <2>1, <3>4, ParsedStays DEF Left
  <2> QED
    BY <2>1, <2>2, <2>3
<1>11. CASE FlushAll
  BY <1>0, <1>11, ParsedStays DEF FlushAll, flushed, Left
<1>12. CASE FlushSome
  BY <1>0, <1>12, ParsedStays DEF FlushSome, flushed, Left
<1>13. CASE FlushError
  BY <1>0, <1>13, ParsedStays DEF FlushError, flushed, Left
<1> QED
  BY <1>1, <1>2, <1>3, <1>4, <1>5, <1>6, <1>7, <1>8, <1>9, <1>10, <1>11, <1>12, <1>13
     DEF Next, WorkerStep

\* Whoever waits has asked for the events that are needed.
LEMMA WaitsStep ==
    ASSUME SourceTyped, WorkerInv, Next
    PROVE  Waits'
<1>0. /\ pc = "idle" =>
             /\ "in" \in armed /\ (tx # 0 => "out" \in armed)
             /\ closing => tx # 0
      /\ tx \in Nat /\ closing \in BOOLEAN /\ eof \in BOOLEAN
  BY DEF WorkerInv, Waits, SourceTyped
<1>1. CASE PeerSend
  BY <1>0, <1>1 DEF PeerSend, Waits
<1>2. CASE PeerClose
  BY <1>0, <1>2 DEF PeerClose, Waits
<1>3. CASE PeerReads
  BY <1>0, <1>3 DEF PeerReads, Waits
<1>4. CASE Event
  BY <1>4 DEF Event, Waits
<1>5. CASE Recv
  BY <1>5 DEF Recv, Waits
<1>6. CASE RecvNone
  BY <1>6 DEF RecvNone, Waits
<1>7. CASE RecvEnd
  BY <1>7 DEF RecvEnd, Waits
<1>8. CASE RecvFull
  BY <1>8 DEF RecvFull, Waits
<1>9. CASE HandleFrame
  BY <1>9, FrameHandles DEF Handles, Waits
<1>10. CASE LoopEnds
  BY <1>10 DEF LoopEnds, Waits
<1>11. CASE FlushAll
  BY <1>0, <1>11 DEF FlushAll, flushed, Waits
<1>12. CASE FlushSome
  BY <1>0, <1>12 DEF FlushSome, flushed, Waits
<1>13. CASE FlushError
  BY <1>13 DEF FlushError, Waits
<1> QED
  BY <1>1, <1>2, <1>3, <1>4, <1>5, <1>6, <1>7, <1>8, <1>9, <1>10, <1>11, <1>12, <1>13
     DEF Next, WorkerStep

\* A connection is closed behind a CLOSE, at the end of the stream, or on an error.
LEMMA OverStep ==
    ASSUME SourceTyped, WorkerInv, Next
    PROVE  Over'
<1>0. /\ pc = "closed" => closing \/ eof \/ peer = "reset"
      /\ closing \in BOOLEAN /\ eof \in BOOLEAN
  BY DEF WorkerInv, Over, SourceTyped
<1>1. CASE PeerSend
  BY <1>0, <1>1 DEF PeerSend, Over
<1>2. CASE PeerClose
  BY <1>0, <1>2 DEF PeerClose, Over
<1>3. CASE PeerReads
  BY <1>0, <1>3 DEF PeerReads, Over
<1>4. CASE Event
  BY <1>4 DEF Event, Over
<1>5. CASE Recv
  BY <1>5 DEF Recv, Over
<1>6. CASE RecvNone
  BY <1>6 DEF RecvNone, Over
<1>7. CASE RecvEnd
  BY <1>7 DEF RecvEnd, Over
<1>8. CASE RecvFull
  BY <1>8 DEF RecvFull, Over
<1>9. CASE HandleFrame
  BY <1>9, FrameHandles DEF Handles, Over
<1>10. CASE LoopEnds
  BY <1>10 DEF LoopEnds, Over
<1>11. CASE FlushAll
  BY <1>0, <1>11 DEF FlushAll, flushed, Over
<1>12. CASE FlushSome
  BY <1>0, <1>12 DEF FlushSome, flushed, Over
<1>13. CASE FlushError
  BY <1>13 DEF FlushError, flushed, Over
<1> QED
  BY <1>1, <1>2, <1>3, <1>4, <1>5, <1>6, <1>7, <1>8, <1>9, <1>10, <1>11, <1>12, <1>13
     DEF Next, WorkerStep

\* The invariant is kept by every step.
LEMMA WorkerStepKeeps == InputInv /\ WorkerInv /\ [Next]_vars => WorkerInv'
<1> SUFFICES ASSUME InputInv, WorkerInv, [Next]_vars PROVE WorkerInv'
  OBVIOUS
<1>1. CASE UNCHANGED vars
  <2>1. UNCHANGED <<stream, taken, used>> /\ UNCHANGED <<peer, arrived, tx, closing, armed, pc, eof>>
    BY <1>1 DEF vars, peerVars
  <2>2. Left'
    BY <2>1, ParsedStays DEF WorkerInv, Left
  <2>3. Ended' /\ Waits' /\ Over'
    BY <2>1 DEF WorkerInv, Ended, Waits, Over
  <2> QED
    BY <2>2, <2>3 DEF WorkerInv
<1>2. CASE Next
  <2>1. SourceTyped
    BY DEF InputInv
  <2>2. Ended' /\ Left' /\ Waits' /\ Over'
    BY <1>2, <2>1, EndedStep, LeftStep, WaitsStep, OverStep
  <2> QED
    BY <2>2 DEF WorkerInv
<1> QED
  BY <1>1, <1>2

\* Frames that came whole before the end of the stream have been handled when the
\* connection is closed, unless a CLOSE has ended it before (README.md:321-324).
THEOREM EndIsHandled == Spec => []EndHandled
<1>1. Init => InputInv /\ WorkerInv
  BY InputInit, WorkerInit
<1>2. InputInv /\ WorkerInv /\ [Next]_vars => (InputInv /\ WorkerInv)'
  BY InputStep, WorkerStepKeeps
<1>3. InputInv /\ WorkerInv => EndHandled
  <2> SUFFICES ASSUME InputInv, WorkerInv, pc = "closed", peer = "fin", ~closing
               PROVE  \A i \in DOMAIN stream : EndOf(i) <= arrived => EndOf(i) <= used
    BY DEF EndHandled
  <2>1. eof /\ arrived = taken /\ Parsed
    BY DEF WorkerInv, Over, Ended, Left
  <2> QED
    BY <2>1 DEF Parsed
<1> QED
  BY <1>1, <1>2, <1>3, PTL DEF Spec

\* A connection that waits for an event has nothing left to do without one: no
\* whole frame in its buffer, nothing unsent without EPOLLOUT, no CLOSE that is
\* sent already (worker.c:34-60, 75-87, 179-200).
THEOREM NothingIsLeftBehind == Spec => []NothingLeftBehind
<1>1. Init => InputInv /\ WorkerInv
  BY InputInit, WorkerInit
<1>2. InputInv /\ WorkerInv /\ [Next]_vars => (InputInv /\ WorkerInv)'
  BY InputStep, WorkerStepKeeps
<1>3. InputInv /\ WorkerInv => NothingLeftBehind
  BY DEF NothingLeftBehind, WorkerInv, Waits, Left, Parsed
<1> QED
  BY <1>1, <1>2, <1>3, PTL DEF Spec

-----------------------------------------------------------------------------
(* What the sink reads *)

\* The digits of a hexadecimal number are different.
LEMMA HexDigits ==
    ASSUME NEW a \in 0..15, NEW b \in 0..15
    PROVE  Hex(a) \in Byte /\ Hex(a) \in Nat /\ (Hex(a) = Hex(b) => a = b)
<1>1. Hex(a) = (IF a < 10 THEN 48 + a ELSE 87 + a) /\ Hex(b) = IF b < 10 THEN 48 + b ELSE 87 + b
  BY DEF Hex
<1> QED
  BY <1>1 DEF Byte

\* Bytes with an escape of two characters, of six, and of none.
Named == {34, 92, 10, 13, 9}
Coded == (0..31) \ {9, 10, 13}

\* What an escape consists of.
LEMMA EscapeShape ==
    ASSUME NEW byte \in Byte
    PROVE  /\ byte \in Named => \E c \in {34, 92, 110, 114, 116} : Escape(byte) = <<92, c>>
           /\ byte \in Coded =>
                  Escape(byte) = <<92, 117, 48, 48, Hex(byte \div 16), Hex(byte % 16)>>
           /\ byte \notin Named \cup Coded => Escape(byte) = <<byte>> /\ byte # 92
<1>1. CASE byte \in Named
  <2>1. byte \notin Coded
    BY <1>1 DEF Named, Coded
  <2>2. CASE byte = 34
    <3>1. Escape(byte) = <<92, 34>>
      BY <2>2 DEF Escape
    <3> QED
      BY <1>1, <2>1, <3>1
  <2>3. CASE byte = 92
    <3>1. Escape(byte) = <<92, 92>>
      BY <2>3 DEF Escape
    <3> QED
      BY <1>1, <2>1, <3>1
  <2>4. CASE byte = 10
    <3>1. Escape(byte) = <<92, 110>>
      BY <2>4 DEF Escape
    <3> QED
      BY <1>1, <2>1, <3>1
  <2>5. CASE byte = 13
    <3>1. Escape(byte) = <<92, 114>>
      BY <2>5 DEF Escape
    <3> QED
      BY <1>1, <2>1, <3>1
  <2>6. CASE byte = 9
    <3>1. Escape(byte) = <<92, 116>>
      BY <2>6 DEF Escape
    <3> QED
      BY <1>1, <2>1, <3>1
  <2> QED
    BY <1>1, <2>2, <2>3, <2>4, <2>5, <2>6 DEF Named
<1>2. CASE byte \in Coded
  <2>1. byte \notin Named /\ byte # 34 /\ byte # 92 /\ byte # 10 /\ byte # 13 /\ byte # 9
    BY <1>2 DEF Named, Coded
  <2>2. Escape(byte) = <<92, 117, 48, 48, Hex(byte \div 16), Hex(byte % 16)>>
    BY <1>2, <2>1 DEF Escape, Coded
  <2> QED
    BY <1>2, <2>1, <2>2
<1>3. CASE byte \notin Named \cup Coded
  <2>1. byte # 34 /\ byte # 92 /\ byte # 10 /\ byte # 13 /\ byte # 9
    BY <1>3 DEF Named
  <2>2. Escape(byte) = <<byte>>
    BY <1>3, <2>1 DEF Escape, Coded
  <2> QED
    BY <1>3, <2>1, <2>2
<1> QED
  BY <1>1, <1>2, <1>3

\* The length of an escape, as it is told from its first two characters.
LEMMA EscapeLength ==
    ASSUME NEW byte \in Byte, NEW e, e = Escape(byte)
    PROVE  /\ e \in Seq(Byte) /\ Len(e) \in 1..6
           /\ Len(e) = IF e[1] # 92 THEN 1 ELSE IF e[2] = 117 THEN 6 ELSE 2
           /\ e[1] = 92 => Len(e) >= 2
<1>1. CASE byte \in Named
  <2>1. PICK c \in {34, 92, 110, 114, 116} : e = <<92, c>>
    BY <1>1, EscapeShape
  <2> QED
    BY <2>1 DEF Byte
<1>2. CASE byte \in Coded
  <2>1. PICK hi \in 0..15, lo \in 0..15 : hi = byte \div 16 /\ lo = byte % 16
    <3>1. byte \in 0..31
      BY <1>2 DEF Coded
    <3>2. byte \div 16 \in 0..15 /\ byte % 16 \in 0..15
      BY <3>1
    <3> QED
      BY <3>2
  <2>2. PICK x \in Byte, y \in Byte : x = Hex(hi) /\ y = Hex(lo)
    BY HexDigits
  <2>3. e = <<92, 117, 48, 48, x, y>>
    BY <1>2, <2>1, <2>2, EscapeShape
  <2>4. 92 \in Byte /\ 117 \in Byte /\ 48 \in Byte
    BY DEF Byte
  <2> QED
    BY <2>3, <2>4
<1>3. CASE byte \notin Named \cup Coded
  <2>1. e = <<byte>> /\ byte # 92
    BY <1>3, EscapeShape
  <2> QED
    BY <2>1
<1> QED
  BY <1>1, <1>2, <1>3

\* An escape is read back as its byte.
LEMMA EscapeRead ==
    ASSUME NEW byte \in Byte
    PROVE  Unescaped(Escape(byte)) = byte
<1>1. CASE byte \in Named
  <2>1. CASE byte = 34
    <3>1. Escape(byte) = <<92, 34>>
      BY <2>1 DEF Escape
    <3> QED
      BY <2>1, <3>1 DEF Unescaped
  <2>2. CASE byte = 92
    <3>1. Escape(byte) = <<92, 92>>
      BY <2>2 DEF Escape
    <3> QED
      BY <2>2, <3>1 DEF Unescaped
  <2>3. CASE byte = 10
    <3>1. Escape(byte) = <<92, 110>>
      BY <2>3 DEF Escape
    <3> QED
      BY <2>3, <3>1 DEF Unescaped
  <2>4. CASE byte = 13
    <3>1. Escape(byte) = <<92, 114>>
      BY <2>4 DEF Escape
    <3> QED
      BY <2>4, <3>1 DEF Unescaped
  <2>5. CASE byte = 9
    <3>1. Escape(byte) = <<92, 116>>
      BY <2>5 DEF Escape
    <3> QED
      BY <2>5, <3>1 DEF Unescaped
  <2> QED
    BY <1>1, <2>1, <2>2, <2>3, <2>4, <2>5 DEF Named
<1>2. CASE byte \in Coded
  <2>1. PICK hi \in 0..15, lo \in 0..15 : hi = byte \div 16 /\ lo = byte % 16 /\ byte = 16 * hi + lo
    <3>1. byte \in 0..31
      BY <1>2 DEF Coded
    <3>2. byte \div 16 \in 0..15 /\ byte % 16 \in 0..15 /\ byte = 16 * (byte \div 16) + (byte % 16)
      BY <3>1
    <3> QED
      BY <3>2
  <2>2. PICK x \in Nat, y \in Nat : x = Hex(hi) /\ y = Hex(lo)
    BY HexDigits
  <2>3. PICK s : s = Escape(byte)
    OBVIOUS
  <2>4. s = <<92, 117, 48, 48, x, y>>
    BY <1>2, <2>1, <2>2, <2>3, EscapeShape
  <2>5. s # <<92, 34>> /\ s # <<92, 92>> /\ s # <<92, 110>> /\ s # <<92, 114>> /\ s # <<92, 116>>
    BY <2>4
  <2>6. Unescaped(s) = CHOOSE b \in Byte :
             \/ s = <<b>> /\ b \notin (0..31) \cup {34, 92}
             \/ /\ Len(s) = 6 /\ SubSeq(s, 1, 4) = <<92, 117, 48, 48>>
                /\ \E h, l \in 0..15 : s[5] = Hex(h) /\ s[6] = Hex(l) /\ b = 16 * h + l
    BY <2>5 DEF Unescaped
  <2>7. Len(s) = 6 /\ SubSeq(s, 1, 4) = <<92, 117, 48, 48>> /\ s[5] = Hex(hi) /\ s[6] = Hex(lo)
    <3>1. Len(s) = 6 /\ s[1] = 92 /\ s[2] = 117 /\ s[3] = 48 /\ s[4] = 48 /\ s[5] = x /\ s[6] = y
      BY <2>4
    <3>2. s \in Seq(Nat)
      BY <2>4
    <3>3. PICK t : t = SubSeq(s, 1, 4)
      OBVIOUS
    <3>4. t \in Seq(Nat) /\ Len(t) = 4 /\ t[1] = 92 /\ t[2] = 117 /\ t[3] = 48 /\ t[4] = 48
      BY <3>1, <3>2, <3>3
    <3>5. t = <<92, 117, 48, 48>>
      BY <3>4
    <3> QED
      BY <2>2, <3>1, <3>3, <3>5
  <2>8. \A b : s # <<b>>
    BY <2>4
  <2>9. ASSUME NEW b \in Byte, NEW h \in 0..15, NEW l \in 0..15, s[5] = Hex(h), s[6] = Hex(l),
               b = 16 * h + l
        PROVE  b = byte
    BY <2>1, <2>7, <2>9, HexDigits
  <2> DEFINE Gives(b) ==
        \/ s = <<b>> /\ b \notin (0..31) \cup {34, 92}
        \/ /\ Len(s) = 6 /\ SubSeq(s, 1, 4) = <<92, 117, 48, 48>>
           /\ \E h, l \in 0..15 : s[5] = Hex(h) /\ s[6] = Hex(l) /\ b = 16 * h + l
  <2>10. Gives(byte)
    BY <2>1, <2>7
  <2>11. \A b \in Byte : Gives(b) => b = byte
    BY <2>8, <2>9
  <2>12. Unescaped(s) = CHOOSE b \in Byte : Gives(b)
    BY <2>6
  <2> HIDE DEF Gives
  <2> QED
    BY <2>3, <2>10, <2>11, <2>12
<1>3. CASE byte \notin Named \cup Coded
  <2>1. PICK s : s = Escape(byte)
    OBVIOUS
  <2>2. s = <<byte>>
    BY <1>3, <2>1, EscapeShape
  <2>3. s # <<92, 34>> /\ s # <<92, 92>> /\ s # <<92, 110>> /\ s # <<92, 114>> /\ s # <<92, 116>>
    BY <2>2
  <2>4. Unescaped(s) = CHOOSE b \in Byte :
             \/ s = <<b>> /\ b \notin (0..31) \cup {34, 92}
             \/ /\ Len(s) = 6 /\ SubSeq(s, 1, 4) = <<92, 117, 48, 48>>
                /\ \E h, l \in 0..15 : s[5] = Hex(h) /\ s[6] = Hex(l) /\ b = 16 * h + l
    BY <2>3 DEF Unescaped
  <2>5. Len(s) # 6 /\ \A b : s = <<b>> <=> b = byte
    BY <2>2
  <2>6. byte \notin (0..31) \cup {34, 92}
    BY <1>3 DEF Named, Coded
  <2> QED
    BY <2>1, <2>4, <2>5, <2>6
<1> QED
  BY <1>1, <1>2, <1>3

\* The text in the object while it is written, escape by escape.
Escaping(out, text) ==
    /\ \A i \in 0..Len(text) : out[i] \in Seq(Byte) /\ Len(out[i]) <= 6 * i
    /\ out[0] = <<>>
    /\ \A i \in 1..Len(text) : out[i] = out[i - 1] \o Escape(text[i])

\* Where there is room for the longest escapes no byte is left out.
LEMMA EscapeSteps ==
    ASSUME NEW text \in Seq(Byte), NEW cap \in Nat, 6 * Len(text) <= cap
    PROVE  \E out : Escaping(out, text) /\ EscapeInto(cap, text) = out[Len(text)]
<1> DEFINE S == DOMAIN text
           V == [out : Seq(Byte), full : BOOLEAN]
           Put(st, byte) ==
               IF st.full \/ Len(st.out) + Len(Escape(byte)) > cap THEN [st EXCEPT !.full = TRUE]
               ELSE [st EXCEPT !.out = st.out \o Escape(byte)]
           base == [out |-> <<>>, full |-> FALSE]
           Body(g) == [s \in SUBSET S |-> IF s = {} THEN base
                                          ELSE Put(g[s \ {Max(s)}], text[Max(s)])]
           it == CHOOSE g : g = Body(g)
<1>1. EscapeInto(cap, text) = it[S].out
  BY DEF EscapeInto, FoldLeft, MapThenFoldSet
<1>2. S = 1..Len(text) /\ Len(text) \in Nat /\ \A i \in S : text[i] \in Byte
  OBVIOUS
<1>3. base \in V /\ base.full = FALSE /\ base.out = <<>> /\ Len(base.out) <= 6 * 0
  OBVIOUS
<1>4. ASSUME NEW st \in V, NEW byte \in Byte PROVE Put(st, byte) \in V
  <2>1. st.out \in Seq(Byte) /\ Escape(byte) \in Seq(Byte)
    BY EscapeLength
  <2>2. PICK o : o = st.out \o Escape(byte)
    OBVIOUS
  <2>3. o \in Seq(Byte)
    BY <2>1, <2>2, ConcatAt
  <2>4. [st EXCEPT !.full = TRUE] \in V /\ [st EXCEPT !.out = o] \in V
    BY <2>3
  <2> QED
    BY <2>2, <2>4
<1> HIDE DEF V, Put, base
<1>5. \E g : g = Body(g)
  <2> DEFINE ch == [s \in SUBSET S |-> Max(s)]
             op == [p \in S \X V |-> Put(p[2], text[p[1]])]
  <2>1. op \in [S \X V -> V]
    BY <1>2, <1>4
  <2>2. PICK g : FoldOf(g, S, V, base, op, ch)
    <3> HIDE DEF op, S
    <3> QED
      BY <1>2, <1>3, <2>1, LeftFold
  <2>3. ASSUME NEW s \in SUBSET S, s # {}
        PROVE  op[<<ch[s], g[s \ {ch[s]}]>>] = Put(g[s \ {Max(s)}], text[Max(s)])
    <3>1. ch[s] = Max(s) /\ Max(s) \in S
      <4>1. s \subseteq 0..Len(text) /\ s \subseteq S
        BY <1>2
      <4>2. Max(s) \in s
        BY <1>2, <2>3, <4>1, MaxOfBounded
      <4> QED
        BY <4>1, <4>2
    <3>2. g[s \ {ch[s]}] \in V
      BY <2>2 DEF FoldOf
    <3> HIDE DEF ch
    <3> QED
      BY <3>1, <3>2
  <2>4. g = Body(g)
    <3> HIDE DEF op, ch
    <3> QED
      BY <2>2, <2>3 DEF FoldOf
  <2> QED
    BY <2>4
<1>6. it = Body(it)
  BY <1>5
<1> HIDE DEF it
<1>7. it[{}] = base
  BY <1>6
<1>8. ASSUME NEW k \in 1..Len(text)
      PROVE  it[1..k] = Put(it[1..(k-1)], text[k])
  <2>1. k \in Nat \ {0} /\ 1..k \in SUBSET S
    BY <1>2
  <2>2. it[1..k] = IF 1..k = {} THEN base ELSE Put(it[(1..k) \ {Max(1..k)}], text[Max(1..k)])
    BY <1>6, <2>1
  <2> QED
    BY <2>1, <2>2, LastOfInterval
<1> DEFINE st(i) == it[1..i]
           Good(i) == st(i) \in V /\ st(i).full = FALSE /\ Len(st(i).out) <= 6 * i
           T == {i \in Nat : i <= Len(text) => Good(i)}
<1>9. st(0) = base
  <2>1. 1..0 = {}
    OBVIOUS
  <2> QED
    BY <1>7, <2>1
<1>10. \A i \in 1..Len(text) : st(i) = Put(st(i - 1), text[i])
  BY <1>8
<1> HIDE DEF st
<1>11. ASSUME NEW i \in 1..Len(text), st(i - 1) \in V, st(i - 1).full = FALSE,
              Len(st(i - 1).out) <= 6 * (i - 1)
       PROVE  /\ st(i) \in V /\ st(i).full = FALSE /\ Len(st(i).out) <= 6 * i
              /\ st(i).out = st(i - 1).out \o Escape(text[i])
  <2>1. PICK s : s = st(i - 1)
    OBVIOUS
  <2>2. PICK e : e = Escape(text[i])
    OBVIOUS
  <2>3. s \in V /\ s.full = FALSE /\ s.out \in Seq(Byte)
    BY <1>11, <2>1 DEF V
  <2>4. e \in Seq(Byte) /\ Len(e) \in 1..6
    BY <1>2, <2>2, EscapeLength
  <2>a. Len(s.out) \in Nat
    BY <2>3
  <2>5. PICK m \in Nat, n \in 1..6, k \in Nat : m = Len(s.out) /\ n = Len(e) /\ k = Len(text)
    BY <1>2, <2>4, <2>a
  <2>6. m <= 6 * (i - 1) /\ 6 * k <= cap /\ i \in 1..k
    BY <1>11, <2>1, <2>5
  <2>7. m + n <= 6 * i /\ m + n <= cap
    BY <2>6
  <2>8. st(i) = Put(s, text[i])
    BY <1>10, <2>1
  <2>9. PICK o : o = s.out \o e
    OBVIOUS
  <2>b. ~(s.full \/ Len(s.out) + Len(Escape(text[i])) > cap)
    <3>1. Len(s.out) + Len(Escape(text[i])) = m + n
      BY <2>2, <2>5
    <3>2. ~(m + n > cap)
      BY <2>7
    <3> QED
      BY <2>3, <3>1, <3>2
  <2>10. st(i) = [s EXCEPT !.out = o]
    BY <2>2, <2>8, <2>9, <2>b DEF Put
  <2>11. o \in Seq(Byte) /\ Len(o) = m + n
    BY <2>3, <2>4, <2>5, <2>9, ConcatAt
  <2>12. st(i) \in V /\ st(i).full = FALSE /\ st(i).out = o
    BY <2>3, <2>10, <2>11 DEF V
  <2> QED
    BY <2>1, <2>2, <2>7, <2>9, <2>11, <2>12
<1>12. 0 \in T
  <2>1. Good(0)
    BY <1>3, <1>9
  <2> QED
    BY <2>1
<1>13. ASSUME NEW i \in Nat, i \in T PROVE i + 1 \in T
  <2>1. ASSUME i + 1 <= Len(text) PROVE Good(i + 1)
    <3>1. i + 1 \in 1..Len(text) /\ (i + 1) - 1 = i /\ i <= Len(text)
      BY <1>2, <2>1
    <3>2. Good(i)
      BY <1>13, <3>1
    <3>3. st(i) \in V /\ st(i).full = FALSE /\ Len(st(i).out) <= 6 * i
      BY <3>2
    <3> QED
      BY <1>11, <3>1, <3>3
  <2> HIDE DEF Good
  <2> QED
    BY <2>1
<1>14. \A i \in Nat : i \in T
  <2> HIDE DEF T
  <2> QED
    BY <1>12, <1>13, NatUp
<1>15. \A i \in 0..Len(text) : st(i) \in V /\ st(i).full = FALSE /\ Len(st(i).out) <= 6 * i
  <2>1. \A i \in 0..Len(text) : i \in Nat /\ i <= Len(text)
    BY <1>2
  <2>2. \A i \in 0..Len(text) : Good(i)
    <3> HIDE DEF Good
    <3> QED
      BY <1>14, <2>1
  <2> QED
    BY <2>2
<1> HIDE DEF T, Good
<1> DEFINE out == [i \in 0..Len(text) |-> st(i).out]
<1>16. \A i \in 0..Len(text) : out[i] \in Seq(Byte) /\ Len(out[i]) <= 6 * i
  BY <1>15 DEF V
<1>17. out[0] = <<>>
  <2>1. 0 \in 0..Len(text)
    BY <1>2
  <2> QED
    BY <1>9, <2>1 DEF base
<1>18. ASSUME NEW i \in 1..Len(text) PROVE out[i] = out[i - 1] \o Escape(text[i])
  <2>1. i \in 0..Len(text) /\ i - 1 \in 0..Len(text)
    BY <1>2
  <2>2. st(i).out = st(i - 1).out \o Escape(text[i])
    BY <1>11, <1>15, <2>1
  <2> QED
    BY <2>1, <2>2
<1>19. EscapeInto(cap, text) = out[Len(text)]
  <2>1. Len(text) \in 0..Len(text)
    BY <1>2
  <2> QED
    BY <1>1, <1>2, <2>1 DEF st
<1> HIDE DEF out
<1> QED
  BY <1>16, <1>17, <1>18, <1>19 DEF Escaping

\* What has been written stays where it is.
LEMMA EscapingPrefix ==
    ASSUME NEW text \in Seq(Byte), NEW out, Escaping(out, text), NEW i \in 0..Len(text)
    PROVE  /\ Len(out[i]) <= Len(out[Len(text)])
           /\ \A x \in 1..Len(out[i]) : out[Len(text)][x] = out[i][x]
<1>1. /\ Len(text) \in Nat
      /\ \A j \in 0..Len(text) : out[j] \in Seq(Byte) /\ Len(out[j]) \in Nat
      /\ \A j \in 1..Len(text) : out[j] = out[j - 1] \o Escape(text[j])
  <2>1. Len(text) \in Nat
    OBVIOUS
  <2>2. /\ \A j \in 0..Len(text) : out[j] \in Seq(Byte)
        /\ \A j \in 1..Len(text) : out[j] = out[j - 1] \o Escape(text[j])
    BY DEF Escaping
  <2>3. ASSUME NEW j \in 0..Len(text) PROVE Len(out[j]) \in Nat
    <3>1. out[j] \in Seq(Byte)
      BY <2>2
    <3> QED
      BY <3>1
  <2> QED
    BY <2>1, <2>2, <2>3
<1>2. ASSUME NEW j \in 1..Len(text)
      PROVE  /\ Len(out[j - 1]) <= Len(out[j])
             /\ \A x \in 1..Len(out[j - 1]) : out[j][x] = out[j - 1][x]
  <2>1. PICK a, b : a = out[j - 1] /\ b = Escape(text[j])
    OBVIOUS
  <2>2. a \in Seq(Byte) /\ b \in Seq(Byte)
    <3>1. j - 1 \in 0..Len(text) /\ text[j] \in Byte
      BY <1>1
    <3> QED
      BY <1>1, <2>1, <3>1, EscapeLength
  <2>3. out[j] = a \o b
    BY <1>1, <2>1
  <2>4. /\ Len(a \o b) = Len(a) + Len(b)
        /\ \A x \in 1..Len(a) : (a \o b)[x] = a[x]
    BY <2>2, ConcatAt
  <2>5. Len(a) \in Nat /\ Len(b) \in Nat
    BY <2>2
  <2>6. Len(a) <= Len(a) + Len(b)
    BY <2>5
  <2> QED
    BY <2>1, <2>3, <2>4, <2>6
<1> DEFINE Kept(j) == /\ Len(out[i]) <= Len(out[j])
                      /\ \A x \in 1..Len(out[i]) : out[j][x] = out[i][x]
           T == {k \in Nat : i + k <= Len(text) => Kept(i + k)}
<1>3. 0 \in T
  <2>1. i + 0 = i /\ Len(out[i]) \in Nat
    BY <1>1
  <2>2. Kept(i)
    BY <2>1
  <2> HIDE DEF Kept
  <2> QED
    BY <2>1, <2>2
<1>4. ASSUME NEW k \in Nat, k \in T PROVE k + 1 \in T
  <2>1. ASSUME i + (k + 1) <= Len(text) PROVE Kept(i + (k + 1))
    <3>1. PICK j : j = i + (k + 1)
      OBVIOUS
    <3>2. j \in 1..Len(text) /\ j - 1 = i + k /\ i + k <= Len(text) /\ j - 1 \in 0..Len(text)
          /\ j \in 0..Len(text)
      BY <1>1, <2>1, <3>1
    <3>3. Kept(j - 1)
      <4> HIDE DEF Kept
      <4> QED
        BY <1>4, <3>2
    <3>4. PICK a \in Nat, b \in Nat, c \in Nat :
              a = Len(out[i]) /\ b = Len(out[j - 1]) /\ c = Len(out[j])
      BY <1>1, <3>2
    <3>5. a <= b /\ b <= c /\ a <= c
      <4>1. b <= c
        BY <1>2, <3>2, <3>4
      <4>2. a <= b
        BY <3>3, <3>4
      <4> QED
        BY <4>1, <4>2
    <3>6. ASSUME NEW x \in 1..a PROVE out[j][x] = out[i][x]
      <4>1. x \in 1..b
        BY <3>5
      <4>2. out[j][x] = out[j - 1][x]
        BY <1>2, <3>2, <3>4, <4>1
      <4>3. out[j - 1][x] = out[i][x]
        BY <3>3, <3>4
      <4> QED
        BY <4>2, <4>3
    <3>7. Kept(j)
      BY <3>4, <3>5, <3>6
    <3> QED
      BY <3>1, <3>7
  <2> HIDE DEF Kept
  <2> QED
    BY <2>1
<1>5. \A k \in Nat : k \in T
  <2> HIDE DEF T
  <2> QED
    BY <1>3, <1>4, NatUp
<1> HIDE DEF T, Kept
<1>6. PICK k \in Nat : k = Len(text) - i
  <2>1. Len(text) - i \in Nat
    BY <1>1
  <2> QED
    BY <2>1
<1>7. i + k = Len(text) /\ i + k <= Len(text)
  BY <1>1, <1>6
<1>b. k \in T
  BY <1>5
<1>8. Kept(Len(text))
  BY <1>7, <1>b DEF T
<1> QED
  BY <1>8 DEF Kept

\* Where the escape of a byte stands in the object.
LEMMA EscapeAt ==
    ASSUME NEW text \in Seq(Byte), NEW out, Escaping(out, text), NEW i \in 1..Len(text)
    PROVE  LET s == out[Len(text)]
               e == Escape(text[i])
           IN  /\ s \in Seq(Byte) /\ Len(out[i - 1]) \in Nat
               /\ Len(out[i]) = Len(out[i - 1]) + Len(e) /\ Len(out[i]) <= Len(s)
               /\ \A x \in 1..Len(e) : s[Len(out[i - 1]) + x] = e[x]
<1>a. PICK s, e : s = out[Len(text)] /\ e = Escape(text[i])
  OBVIOUS
<1>1. /\ Len(text) \in Nat /\ i - 1 \in 0..Len(text) /\ i \in 0..Len(text)
      /\ Len(text) \in 0..Len(text) /\ text[i] \in Byte
  OBVIOUS
<1>2. PICK a : a = out[i - 1]
  OBVIOUS
<1>3. a \in Seq(Byte) /\ s \in Seq(Byte) /\ out[i] = a \o e
  BY <1>1, <1>2, <1>a DEF Escaping
<1>4. e \in Seq(Byte)
  BY <1>1, <1>a, EscapeLength
<1>5. /\ Len(a \o e) = Len(a) + Len(e)
      /\ \A x \in 1..Len(e) : (a \o e)[Len(a) + x] = e[x]
  BY <1>3, <1>4, ConcatAt
<1>6. /\ Len(out[i]) <= Len(s)
      /\ \A x \in 1..Len(out[i]) : s[x] = out[i][x]
  BY <1>1, <1>a, EscapingPrefix
<1>7. PICK m \in Nat, n \in Nat : m = Len(a) /\ n = Len(e)
  BY <1>3, <1>4
<1>8. ASSUME NEW x \in 1..n PROVE s[m + x] = e[x]
  <2>1. m + x \in 1..(m + n)
    BY <1>7
  <2>2. s[m + x] = out[i][m + x]
    BY <1>3, <1>5, <1>6, <1>7, <2>1
  <2>3. out[i][m + x] = e[x]
    BY <1>3, <1>5, <1>7
  <2> QED
    BY <2>2, <2>3
<1> QED
  BY <1>2, <1>3, <1>5, <1>6, <1>7, <1>8, <1>a

\* The length of the token at i of a JSON string.
TokenSize(s, i) == IF s[i] # 92 THEN 1 ELSE IF s[i + 1] = 117 THEN 6 ELSE 2

\* A reader goes on from token to token.
LEMMA JsonSteps ==
    ASSUME NEW s \in Seq(Byte)
    PROVE  \E from :
              /\ JsonText(s) = from[1]
              /\ from[Len(s) + 1] = <<>>
              /\ \A i \in 1..Len(s) :
                     from[i] = <<Unescaped(SubSeq(s, i, i + TokenSize(s, i) - 1))>>
                               \o from[i + TokenSize(s, i)]
<1> DEFINE D == 1..(Len(s) + 6)
           tok(i) == Unescaped(SubSeq(s, i, i + TokenSize(s, i) - 1))
           Body(g) == [i \in D |-> IF i > Len(s) THEN <<>>
                                   ELSE <<tok(i)>> \o g[i + TokenSize(s, i)]]
           from == CHOOSE g : g = Body(g)
<1>1. JsonText(s) = from[1]
  BY DEF JsonText, TokenSize
<1>2. Len(s) \in Nat
  OBVIOUS
<1> DEFINE U == {tok(i) : i \in D}
<1>3. ASSUME NEW i \in D, ~(i > Len(s))
      PROVE  i + TokenSize(s, i) \in D /\ i + TokenSize(s, i) > i
  BY <1>2, <1>3 DEF TokenSize
<1>4. D \subseteq Nat /\ Len(s) + 1 \in D /\ \A i \in 1..Len(s) : i \in D /\ ~(i > Len(s))
  BY <1>2
<1>5. \A i \in D : tok(i) \in U
  OBVIOUS
<1> DEFINE rank == [i \in D |-> (Len(s) + 6) - i]
<1>6. rank \in [D -> Nat] /\ \A i, j \in D : i < j => rank[j] < rank[i]
  BY <1>2
<1> HIDE DEF D, U, tok, rank
<1>7. \E g : g = Body(g)
  <2> DEFINE V == Seq(U)
             step == [g \in [D -> V] |-> Body(g)]
  <2>1. <<>> \in V /\ \A u \in U, q \in V : <<u>> \o q \in V
    <3>1. ASSUME NEW u \in U, NEW q \in V PROVE <<u>> \o q \in V
      <4>1. <<u>> \in Seq(U)
        OBVIOUS
      <4> QED
        BY <4>1, ConcatAt
    <3> QED
      BY <3>1
  <2> HIDE DEF V
  <2>2. step \in [[D -> V] -> [D -> V]]
    <3>1. ASSUME NEW g \in [D -> V] PROVE Body(g) \in [D -> V]
      BY <1>3, <1>5, <2>1
    <3> QED
      BY <3>1
  <2>3. ASSUME NEW f \in [D -> V], NEW g \in [D -> V], NEW i \in D,
               \A j \in D : rank[j] < rank[i] => f[j] = g[j]
        PROVE  step[f][i] = step[g][i]
    <3>1. ~(i > Len(s)) => f[i + TokenSize(s, i)] = g[i + TokenSize(s, i)]
      BY <1>3, <1>6, <2>3
    <3> QED
      BY <3>1
  <2>4. RankedStep(D, V, rank, step)
    <3> HIDE DEF step
    <3> QED
      BY <1>6, <2>2, <2>3 DEF RankedStep
  <2>5. PICK g \in [D -> V] : g = step[g]
    <3> HIDE DEF step
    <3>1. V # {}
      BY <2>1
    <3> QED
      BY <2>4, <3>1, RankedRecursion
  <2> QED
    BY <2>5
<1>8. from = Body(from)
  BY <1>7
<1> HIDE DEF from
<1>9. from[Len(s) + 1] = <<>>
  <2>1. Len(s) + 1 > Len(s)
    BY <1>2
  <2> QED
    BY <1>4, <1>8, <2>1
<1>10. \A i \in 1..Len(s) : from[i] = <<tok(i)>> \o from[i + TokenSize(s, i)]
  BY <1>4, <1>8
<1> QED
  BY <1>1, <1>9, <1>10 DEF tok

\* The bytes e are those of s behind p.
Stands(e, s, p) == p + Len(e) <= Len(s) /\ \A x \in 1..Len(e) : s[p + x] = e[x]

\* An escape that begins behind p is one token.
LEMMA TokenOfEscape ==
    ASSUME NEW byte \in Byte, NEW s \in Seq(Byte), NEW p \in Nat, Stands(Escape(byte), s, p)
    PROVE  /\ p + 1 \in 1..Len(s) /\ TokenSize(s, p + 1) = Len(Escape(byte))
           /\ Unescaped(SubSeq(s, p + 1, (p + 1) + TokenSize(s, p + 1) - 1)) = byte
<1>a. PICK e : e = Escape(byte)
  OBVIOUS
<1>b. p + Len(e) <= Len(s) /\ \A x \in 1..Len(e) : s[p + x] = e[x]
  BY <1>a DEF Stands
<1>1. /\ e \in Seq(Byte) /\ Len(e) \in 1..6
      /\ Len(e) = IF e[1] # 92 THEN 1 ELSE IF e[2] = 117 THEN 6 ELSE 2
      /\ e[1] = 92 => Len(e) >= 2
  BY <1>a, EscapeLength
<1>2. PICK n \in 1..6 : n = Len(e)
  BY <1>1
<1>3. PICK l \in Nat : l = Len(s)
  OBVIOUS
<1>4. s[p + 1] = e[1]
  BY <1>2, <1>b
<1>5. e[1] = 92 => s[(p + 1) + 1] = e[2]
  <2>1. (p + 1) + 1 = p + 2
    OBVIOUS
  <2>2. e[1] = 92 => 2 \in 1..n
    BY <1>1, <1>2
  <2> QED
    BY <1>2, <1>b, <2>1, <2>2
<1>6. TokenSize(s, p + 1) = n
  BY <1>1, <1>2, <1>4, <1>5 DEF TokenSize
<1>7. (p + 1) + n - 1 = p + n /\ p + n <= l
  BY <1>2, <1>3, <1>b
<1>8. SubSeq(s, p + 1, p + n) = e
  <2>1. PICK t : t = SubSeq(s, p + 1, p + n)
    OBVIOUS
  <2>2. t \in Seq(Byte) /\ Len(t) = n /\ \A x \in 1..n : t[x] = s[p + x]
    <3>1. p + 1 \in 1..Len(s) /\ p + n \in 1..Len(s) /\ (p + n) - (p + 1) + 1 = n
      BY <1>3, <1>7
    <3>2. \A x \in 1..n : (p + 1) + x - 1 = p + x
      OBVIOUS
    <3> QED
      BY <2>1, <3>1, <3>2
  <2>3. \A x \in 1..n : t[x] = e[x]
    BY <1>2, <1>b, <2>2
  <2> QED
    BY <1>1, <1>2, <2>1, <2>2, <2>3
<1>9. Unescaped(e) = byte
  BY <1>a, EscapeRead
<1>10. p + 1 \in 1..Len(s)
  <2>1. p + 1 \in 1..l
    BY <1>2, <1>7
  <2> QED
    BY <1>3, <2>1
<1> QED
  BY <1>2, <1>6, <1>7, <1>8, <1>9, <1>10, <1>a

\* A sequence begins with its first element.
LEMMA SubSeqHead ==
    ASSUME NEW S, NEW q \in Seq(S), NEW i \in 1..Len(q)
    PROVE  <<q[i]>> \o SubSeq(q, i + 1, Len(q)) = SubSeq(q, i, Len(q))
<1>1. PICK l \in Nat : l = Len(q)
  OBVIOUS
<1>2. i \in 1..l /\ q[i] \in S
  BY <1>1
<1>3. PICK d \in Nat : d = l - i
  <2>1. l - i \in Nat
    BY <1>2
  <2> QED
    BY <2>1
<1>4. PICK a, b, c : a = SubSeq(q, i + 1, l) /\ b = SubSeq(q, i, l) /\ c = <<q[i]>>
  OBVIOUS
<1>5. a \in Seq(S) /\ Len(a) = d /\ \A x \in 1..d : a[x] = q[i + x]
  <2>1. \A x \in 1..d : (i + 1) + x - 1 = i + x
    BY <1>2
  <2>2. a \in Seq(S) /\ Len(a) = d
    BY <1>1, <1>2, <1>3, <1>4
  <2>3. \A x \in 1..d : a[x] = q[(i + 1) + x - 1]
    BY <1>1, <1>2, <1>3, <1>4
  <2> QED
    BY <2>1, <2>2, <2>3
<1>6. b \in Seq(S) /\ Len(b) = d + 1 /\ \A x \in 1..(d + 1) : b[x] = q[i + x - 1]
  BY <1>1, <1>2, <1>3, <1>4
<1>7. c \in Seq(S) /\ Len(c) = 1 /\ c[1] = q[i]
  BY <1>2, <1>4
<1>8. PICK r : r = c \o a
  OBVIOUS
<1>9. r \in Seq(S) /\ Len(r) = d + 1 /\ r[1] = q[i] /\ \A x \in 1..d : r[1 + x] = a[x]
  <2>1. /\ c \o a \in Seq(S) /\ Len(c \o a) = Len(c) + Len(a)
        /\ \A x \in 1..Len(c) : (c \o a)[x] = c[x]
        /\ \A x \in 1..Len(a) : (c \o a)[Len(c) + x] = a[x]
    <3>1. c \in Seq(S) /\ a \in Seq(S)
      BY <1>5, <1>7
    <3> HIDE <1>4
    <3> QED
      BY ONLY <3>1, ConcatAt
  <2>2. 1 + d = d + 1 /\ 1 \in 1..1
    OBVIOUS
  <2> QED
    BY <1>5, <1>7, <1>8, <2>1, <2>2
<1>10. ASSUME NEW x \in 1..(d + 1) PROVE r[x] = b[x]
  <2>1. CASE x = 1
    <3>1. i + x - 1 = i
      BY <1>2, <2>1
    <3> QED
      BY <1>6, <1>9, <2>1, <3>1
  <2>2. CASE x # 1
    <3>1. PICK y \in 1..d : x = 1 + y
      <4>1. x - 1 \in 1..d /\ x = 1 + (x - 1)
        BY <2>2
      <4> QED
        BY <4>1
    <3>2. r[x] = q[i + y]
      BY <1>5, <1>9, <3>1
    <3>3. i + x - 1 = i + y
      BY <1>2, <3>1
    <3> QED
      BY <1>6, <3>2, <3>3
  <2> QED
    BY <2>1, <2>2
<1>11. r = b
  BY <1>6, <1>9, <1>10
<1> QED
  BY <1>1, <1>4, <1>8, <1>11

\* from gives what a reader makes of the bytes of s, from each position on.
Reading(from, s) ==
    /\ from[Len(s) + 1] = <<>>
    /\ \A i \in 1..Len(s) :
           from[i] = <<Unescaped(SubSeq(s, i, i + TokenSize(s, i) - 1))>>
                     \o from[i + TokenSize(s, i)]

\* A reader takes an escape for its byte.
LEMMA ReadsEscape ==
    ASSUME NEW text \in Seq(Byte), NEW out, Escaping(out, text), NEW i \in 1..Len(text),
           NEW from, Reading(from, out[Len(text)])
    PROVE  from[Len(out[i - 1]) + 1] = <<text[i]>> \o from[Len(out[i]) + 1]
<1>1. PICK s : s = out[Len(text)]
  OBVIOUS
<1>2. PICK e : e = Escape(text[i])
  OBVIOUS
<1>3. text[i] \in Byte
  OBVIOUS
<1>4. /\ s \in Seq(Byte) /\ Len(out[i - 1]) \in Nat
      /\ Len(out[i]) = Len(out[i - 1]) + Len(e) /\ Len(out[i]) <= Len(s)
      /\ \A x \in 1..Len(e) : s[Len(out[i - 1]) + x] = e[x]
  BY <1>1, <1>2, EscapeAt
<1>5. PICK p \in Nat : p = Len(out[i - 1])
  BY <1>4
<1>6. Stands(Escape(text[i]), s, p)
  BY <1>2, <1>4, <1>5 DEF Stands
<1>7. PICK n : n = TokenSize(s, p + 1)
  OBVIOUS
<1>8. p + 1 \in 1..Len(s) /\ n = Len(e) /\ Unescaped(SubSeq(s, p + 1, (p + 1) + n - 1)) = text[i]
  BY <1>2, <1>3, <1>4, <1>6, <1>7, TokenOfEscape
<1>9. from[p + 1] = <<text[i]>> \o from[(p + 1) + n]
  BY <1>1, <1>7, <1>8 DEF Reading
<1>10. (p + 1) + n = Len(out[i]) + 1
  <2>1. Len(e) \in Nat
    BY <1>2, <1>3, EscapeLength
  <2> QED
    BY <1>4, <1>5, <1>8, <2>1
<1> QED
  BY <1>5, <1>9, <1>10

\* The text in the object is read back, token by token.
LEMMA JsonReads ==
    ASSUME NEW text \in Seq(Byte), NEW out, Escaping(out, text)
    PROVE  JsonText(out[Len(text)]) = text
<1>1. PICK s : s = out[Len(text)]
  OBVIOUS
<1>2. PICK l \in Nat : l = Len(text)
  OBVIOUS
<1>3. s \in Seq(Byte) /\ out[0] = <<>>
  <2>1. Len(text) \in 0..Len(text)
    OBVIOUS
  <2> QED
    BY <1>1, <2>1 DEF Escaping
<1>4. PICK from : JsonText(s) = from[1] /\ Reading(from, s)
  BY <1>3, JsonSteps DEF Reading
<1> DEFINE Rest(i) == from[Len(out[i]) + 1] = SubSeq(text, i + 1, l)
           T == {k \in Nat : k <= l => Rest(l - k)}
<1>5. 0 \in T
  <2>1. l - 0 = l /\ out[l] = s
    BY <1>1, <1>2
  <2>2. SubSeq(text, l + 1, l) = <<>>
    BY <1>2
  <2>3. Rest(l)
    BY <1>4, <2>1, <2>2 DEF Reading
  <2> HIDE DEF Rest
  <2> QED
    BY <2>1, <2>3
<1>6. ASSUME NEW k \in Nat, k \in T PROVE k + 1 \in T
  <2>1. ASSUME k + 1 <= l PROVE Rest(l - (k + 1))
    <3>1. PICK i : i = l - k
      OBVIOUS
    <3>2. i \in 1..l /\ l - (k + 1) = i - 1 /\ k <= l /\ (i - 1) + 1 = i
      BY <2>1, <3>1
    <3>3. Rest(i)
      <4> HIDE DEF Rest
      <4> QED
        BY <1>6, <3>1, <3>2
    <3>4. from[Len(out[i - 1]) + 1] = <<text[i]>> \o from[Len(out[i]) + 1]
      <4> HIDE DEF Rest, T
      <4> QED
        BY <1>1, <1>2, <1>4, <3>2, ReadsEscape
    <3>5. <<text[i]>> \o SubSeq(text, i + 1, l) = SubSeq(text, i, l)
      <4> HIDE DEF Rest, T
      <4> QED
        BY <1>2, <3>2, SubSeqHead
    <3>6. Rest(i - 1)
      BY <3>2, <3>3, <3>4, <3>5
    <3> QED
      BY <3>2, <3>6
  <2> HIDE DEF Rest
  <2> QED
    BY <2>1
<1>7. \A k \in Nat : k \in T
  <2> HIDE DEF T
  <2> QED
    BY <1>5, <1>6, NatUp
<1>8. Rest(0)
  <2>1. l \in T /\ l - l = 0 /\ l <= l
    BY <1>7
  <2> HIDE DEF Rest
  <2> QED
    BY <2>1
<1>9. from[1] = SubSeq(text, 1, l)
  <2>1. Len(out[0]) + 1 = 1 /\ 0 + 1 = 1
    BY <1>3
  <2> QED
    BY <1>8, <2>1
<1>10. SubSeq(text, 1, l) = text
  BY <1>2
<1> QED
  BY <1>1, <1>4, <1>9, <1>10

-----------------------------------------------------------------------------
(* The headers the server writes *)

\* Two bytes are enough for lengths of up to 65535.
LEMMA TwoBytes ==
    ASSUME NEW n \in Nat, n <= 65535
    PROVE  ShiftedRight(n, 2) = 0
<1>1. \A k \in Nat : /\ ShiftedRight(n, k) \in Nat
                     /\ ShiftedRight(n, k + 1) = ShiftedRight(n, k) \div 256
  BY Shifts
<1>2. 0 \in Nat /\ 1 \in Nat /\ 0 + 1 = 1 /\ 1 + 1 = 2
  OBVIOUS
<1>3. PICK a, b, c : a = ShiftedRight(n, 0) /\ b = ShiftedRight(n, 1) /\ c = ShiftedRight(n, 2)
  OBVIOUS
<1>4. b = a \div 256 /\ c = b \div 256
  BY <1>1, <1>2, <1>3
<1>5. a = n
  BY <1>3, Shifts
<1>6. b <= 255 /\ b \in Nat
  BY <1>4, <1>5
<1>7. c = 0
  BY <1>4, <1>6
<1> QED
  BY <1>3, <1>7

\* The form of the shortest length, and the frame with it: final, not masked.
ShortForm(n) == IF n <= 125 THEN 7 ELSE IF n <= 65535 THEN 16 ELSE 64
Written(op, n) == [fin |-> TRUE, rsv |-> 0, op |-> op, masked |-> FALSE,
                   form |-> ShortForm(n), size |-> n, body |-> <<>>]

\* A frame of the server can be written down, and its header is what a peer
\* that builds it right would write.
LEMMA WrittenHead ==
    ASSUME NEW op \in {OpText, OpBin, OpClose, OpPing, OpPong}, NEW n \in Nat,
           ShiftedRight(n, 7) < 128
    PROVE  /\ Written(op, n) \in FrameType
           /\ HeadBytes(Written(op, n)) = EncodeHeader(op, n)
<1>1. op \in 0..15
  BY DEF OpText, OpBin, OpClose, OpPing, OpPong
<1>2. PICK form \in {7, 16, 64} :
          /\ form = ShortForm(n) /\ (form = 7 <=> n <= 125)
          /\ form = 16 <=> (n <= 65535 /\ ~(n <= 125))
  BY DEF ShortForm
<1>3. PICK f : f = Written(op, n)
  OBVIOUS
<1>4. f = [fin |-> TRUE, rsv |-> 0, op |-> op, masked |-> FALSE,
           form |-> form, size |-> n, body |-> <<>>]
  BY <1>2, <1>3 DEF Written
<1>5. f \in FrameType
  <2>1. f \in [fin : BOOLEAN, rsv : 0..7, op : 0..15, masked : BOOLEAN,
               form : {7, 16, 63, 64}, size : Nat, body : Seq(Byte)]
    <3>1. <<>> \in Seq(Byte)
      OBVIOUS
    <3> QED
      BY <1>1, <1>4, <3>1
  <2>2. Len(f.body) <= f.size
    BY <1>4
  <2>3. form = 16 => ShiftedRight(n, 2) = 0
    BY <1>2, TwoBytes
  <2> DEFINE FormFits == CASE f.form = 7  -> f.size <= 125
                           [] f.form = 16 -> ShiftedRight(f.size, 2) = 0
                           [] f.form = 63 -> ShiftedRight(f.size, 7) = 0
                           [] f.form = 64 -> ShiftedRight(f.size, 7) < 128
  <2>4. FormFits
    <3>1. f.form = form /\ f.size = n
      BY <1>4
    <3>2. CASE form = 7
      BY <1>2, <3>1, <3>2
    <3>3. CASE form = 16
      BY <2>3, <3>1, <3>3
    <3>4. CASE form = 64
      BY <3>1, <3>4
    <3> HIDE DEF FormFits
    <3> QED
      BY <1>2, <3>2, <3>3, <3>4
  <2> QED
    BY <2>1, <2>2, <2>4 DEF FrameType
<1>6. HeadBytes(f) = EncodeHeader(op, n)
  <2>1. PICK mid : mid = (CASE form = 7  -> <<n>>
                            [] form = 16 -> <<126>> \o BytesOf(n, 2)
                            [] form = 64 -> <<127>> \o BytesOf(n, 8))
    OBVIOUS
  <2>2. EncodeHeader(op, n) = <<128 + op>> \o mid
    <3>1. CASE form = 7
      BY <1>2, <2>1, <3>1 DEF EncodeHeader
    <3>2. CASE form = 16
      BY <1>2, <2>1, <3>2 DEF EncodeHeader
    <3>3. CASE form = 64
      BY <1>2, <2>1, <3>3 DEF EncodeHeader
    <3> QED
      BY <1>2, <3>1, <3>2, <3>3
  <2>3. HeadBytes(f) = <<128 + op>> \o mid \o <<>>
    <3>1. f.fin = TRUE /\ f.rsv = 0 /\ f.op = op /\ f.masked = FALSE /\ f.form = form /\ f.size = n
      BY <1>4
    <3>2. 128 + 16 * 0 + op = 128 + op /\ 0 + n = n /\ 0 + 126 = 126 /\ 0 + 127 = 127
      BY <1>1
    <3>3. CASE form = 7
      BY <2>1, <3>1, <3>2, <3>3 DEF HeadBytes
    <3>4. CASE form = 16
      BY <2>1, <3>1, <3>2, <3>4 DEF HeadBytes
    <3>5. CASE form = 64
      BY <2>1, <3>1, <3>2, <3>5 DEF HeadBytes
    <3> QED
      BY <1>2, <3>3, <3>4, <3>5
  <2>4. <<128 + op>> \o mid \in Seq(Nat)
    <3>1. BytesOf(n, 2) \in Seq(Nat) /\ BytesOf(n, 8) \in Seq(Nat)
      <4>1. 2 \in Nat /\ 8 \in Nat /\ Byte \subseteq Nat
        BY DEF Byte
      <4>2. BytesOf(n, 2) \in Seq(Byte) /\ BytesOf(n, 8) \in Seq(Byte)
        BY <4>1, BytesRead
      <4>3. ASSUME NEW q \in Seq(Byte) PROVE q \in Seq(Nat)
        <5>1. Len(q) \in Nat /\ q = [i \in 1..Len(q) |-> q[i]] /\ \A i \in 1..Len(q) : q[i] \in Byte
          OBVIOUS
        <5>2. \A i \in 1..Len(q) : q[i] \in Nat
          BY <4>1, <5>1
        <5> QED
          BY <5>1, <5>2
      <4> QED
        BY <4>2, <4>3
    <3>2. <<126>> \in Seq(Nat) /\ <<127>> \in Seq(Nat) /\ <<n>> \in Seq(Nat)
      OBVIOUS
    <3>3. mid \in Seq(Nat)
      <4>1. CASE form = 7
        BY <2>1, <3>2, <4>1
      <4>2. CASE form = 16
        BY <2>1, <3>1, <3>2, <4>2, ConcatAt
      <4>3. CASE form = 64
        BY <2>1, <3>1, <3>2, <4>3, ConcatAt
      <4> QED
        BY <1>2, <4>1, <4>2, <4>3
    <3>4. <<128 + op>> \in Seq(Nat)
      BY <1>1
    <3> QED
      BY <3>3, <3>4, ConcatAt
  <2>5. \A q \in Seq(Nat) : q \o <<>> = q
    OBVIOUS
  <2> QED
    BY <2>2, <2>3, <2>4, <2>5
<1> QED
  BY <1>3, <1>5, <1>6

\* A reader gets the opcode and the length from a header of the server.
LEMMA HeaderWritten ==
    ASSUME NEW op \in {OpText, OpBin, OpClose, OpPing, OpPong}, NEW n \in Nat,
           ShiftedRight(n, 7) < 128, op >= 8 => n <= 125
    PROVE  ReadsAs(EncodeHeader(op, n), op, n)
<1>1. PICK h : h = EncodeHeader(op, n)
  OBVIOUS
<1>2. PICK f : f = Written(op, n)
  OBVIOUS
<1>3. f \in FrameType /\ h = HeadBytes(f)
  BY <1>1, <1>2, WrittenHead
<1>4. PICK form \in {7, 16, 64} :
          /\ form = ShortForm(n) /\ (form = 7 => n <= 125)
          /\ form = 16 => n >= 126
          /\ form = 64 => n > 65535
          /\ n <= 125 => form = 7
  BY DEF ShortForm
<1>5. /\ f.fin = TRUE /\ f.rsv = 0 /\ f.op = op /\ f.masked = FALSE
      /\ f.form = form /\ f.size = n
  BY <1>2, <1>4 DEF Written
<1> DEFINE b == [i \in 0..13 |-> IF i < Len(h) THEN h[i + 1] ELSE 0]
<1>6. Len(h) \in 2..14 /\ Len(h) = 2 + LenBytes(form)
  <2>1. Len(h) \in 2..14 /\ Len(h) = 2 + LenBytes(f.form) + (IF f.masked THEN 4 ELSE 0)
    BY <1>3, FrameLenIs
  <2>2. LenBytes(form) \in {0, 2, 8}
    BY DEF LenBytes
  <2>3. Len(h) = 2 + LenBytes(form) + 0
    BY <1>5, <2>1
  <2> QED
    BY <2>1, <2>2, <2>3
<1>7. Shows(b, h)
  <2> SUFFICES ASSUME NEW i \in 0..(Len(h) - 1) PROVE b[i] = h[i + 1]
    BY DEF Shows
  <2>1. i \in 0..13 /\ i < Len(h)
    BY <1>6
  <2> QED
    BY <2>1
<1> HIDE DEF b
<1>8. /\ Fin(b) = TRUE /\ Rsv(b) = 0 /\ Opcode(b) = op /\ Masked(b) = FALSE
      /\ Extended(b) = LenBytes(form) /\ HeaderLen(b) = Len(h) /\ PayloadLen(b) = n
  <2>1. /\ Fin(b) = f.fin /\ Rsv(b) = f.rsv /\ Opcode(b) = f.op /\ Masked(b) = f.masked
        /\ Extended(b) = LenBytes(f.form) /\ HeaderLen(b) = Len(h)
        /\ f.form # 63 => PayloadLen(b) = f.size
    BY <1>3, <1>7, HeaderRead
  <2>2. f.form # 63
    BY <1>5
  <2> QED
    BY <1>5, <2>1, <2>2
<1>9. /\ form = 7 => LenBytes(form) = 0
      /\ form = 16 => LenBytes(form) = 2
      /\ form = 64 => LenBytes(form) = 8
  BY DEF LenBytes
<1>10. ~BadFirstByte(b)
  <2>1. op \notin (3..7) \cup (11..15)
    BY DEF OpText, OpBin, OpClose, OpPing, OpPong
  <2> QED
    BY <1>8, <2>1 DEF BadFirstByte
<1>11. form = 64 => b[2] < 128
  <2> SUFFICES ASSUME form = 64 PROVE b[2] < 128
    OBVIOUS
  <2>1. h[2 + 1] = BytesOf(n, 8)[1]
    <3>1. f.form = 64 => \A i \in 1..8 : h[2 + i] = BytesOf(f.size, 8)[i]
      BY <1>3, HeadShape
    <3>2. 1 \in 1..8
      OBVIOUS
    <3> QED
      BY <1>5, <3>1, <3>2
  <2>2. b[2] = h[2 + 1]
    <3>1. 2 \in 0..(Len(h) - 1)
      BY <1>6, <1>9
    <3> QED
      BY <1>7, <3>1 DEF Shows
  <2>3. BytesOf(n, 8)[1] = ShiftedRight(n, 7) % 256
    <3>1. 1 \in 1..8 /\ 8 - 1 = 7
      OBVIOUS
    <3> QED
      BY <3>1 DEF BytesOf
  <2>4. PICK s : s = ShiftedRight(n, 7)
    OBVIOUS
  <2>5. s \in Nat /\ s < 128
    <3>1. 7 \in Nat
      OBVIOUS
    <3> QED
      BY <2>4, <3>1, Shifts
  <2>6. s % 256 < 128
    BY <2>5
  <2> QED
    BY <2>1, <2>2, <2>3, <2>4, <2>6
<1>12. ~BadLength(b)
  <2>1. CASE form = 7
    BY <1>8, <1>9, <2>1 DEF BadLength
  <2>2. CASE form = 16
    BY <1>4, <1>8, <1>9, <2>2 DEF BadLength
  <2>3. CASE form = 64
    BY <1>4, <1>8, <1>9, <1>11, <2>3 DEF BadLength
  <2> QED
    BY <2>1, <2>2, <2>3
<1>13. ~BadControl(b)
  <2>1. op >= 8 => form = 7
    BY <1>4
  <2>2. form = 7 => Len7(b) = n
    BY <1>8, <1>9 DEF PayloadLen
  <2> QED
    BY <1>4, <1>8, <2>1, <2>2 DEF BadControl, IsControl
<1>14. HeaderComplete(b, Len(h))
  <2>1. Len(h) >= 2 /\ Len(h) >= HeaderLen(b)
    BY <1>6, <1>8
  <2>2. ~HeaderError(b, Len(h))
    BY <1>10, <1>12, <1>13 DEF HeaderError
  <2> QED
    BY <2>1, <2>2 DEF HeaderComplete
<1>15. /\ HeaderComplete(b, Len(h)) /\ HeaderLen(b) = Len(h)
       /\ Fin(b) /\ ~Masked(b) /\ Opcode(b) = op /\ PayloadLen(b) = n
  BY <1>8, <1>14
<1> QED
  BY <1>1, <1>15 DEF ReadsAs, b

-----------------------------------------------------------------------------
(* What becomes of one message *)

\* Six times a number and a little more: the same is true of their 256ths.
LEMMA SixFold ==
    ASSUME NEW m \in Nat, NEW n \in Nat, m <= 6 * n + 128
    PROVE  m \div 256 <= 6 * (n \div 256) + 6
<1>1. PICK a \in Nat, r \in 0..255 : a = m \div 256 /\ m = 256 * a + r
  <2>1. m \div 256 \in Nat /\ m % 256 \in 0..255 /\ m = 256 * (m \div 256) + (m % 256)
    BY ByteRest DEF Byte
  <2> QED
    BY <2>1
<1>2. PICK b \in Nat, s \in 0..255 : b = n \div 256 /\ n = 256 * b + s
  <2>1. n \div 256 \in Nat /\ n % 256 \in 0..255 /\ n = 256 * (n \div 256) + (n % 256)
    BY ByteRest DEF Byte
  <2> QED
    BY <2>1
<1>3. 256 * a <= 1536 * b + 1530 + 128
  BY <1>1, <1>2
<1>4. a <= 6 * b + 6
  BY <1>3
<1> QED
  BY <1>1, <1>2, <1>4

\* What is made of a length below 2^56 stays far below 2^63.
LEMMA StaysShort ==
    ASSUME NEW n \in Nat, ShiftedRight(n, 7) = 0, NEW m \in Nat, m <= 6 * n + 128
    PROVE  ShiftedRight(m, 7) < 128
<1> DEFINE Below(k) == ShiftedRight(m, k) <= 6 * ShiftedRight(n, k) + 128
           T == {k \in Nat : Below(k)}
<1>1. \A k \in Nat : /\ ShiftedRight(n, k) \in Nat /\ ShiftedRight(m, k) \in Nat
                     /\ ShiftedRight(n, k + 1) = ShiftedRight(n, k) \div 256
                     /\ ShiftedRight(m, k + 1) = ShiftedRight(m, k) \div 256
  <2>1. \A k \in Nat : /\ ShiftedRight(n, k) \in Nat
                       /\ ShiftedRight(n, k + 1) = ShiftedRight(n, k) \div 256
    BY Shifts
  <2>2. \A k \in Nat : /\ ShiftedRight(m, k) \in Nat
                       /\ ShiftedRight(m, k + 1) = ShiftedRight(m, k) \div 256
    BY Shifts
  <2> QED
    BY ONLY <2>1, <2>2
<1>2. 0 \in T
  BY Shifts
<1>3. ASSUME NEW k \in Nat, k \in T PROVE k + 1 \in T
  <2>1. PICK a \in Nat, b \in Nat : a = ShiftedRight(m, k) /\ b = ShiftedRight(n, k)
    BY <1>1
  <2>2. a <= 6 * b + 128
    BY <1>3, <2>1
  <2>3. a \div 256 <= 6 * (b \div 256) + 6
    BY <2>2, SixFold
  <2>4. PICK c \in Nat, d \in Nat : c = ShiftedRight(m, k + 1) /\ d = ShiftedRight(n, k + 1)
    <3>1. k + 1 \in Nat
      OBVIOUS
    <3> HIDE DEF T
    <3> QED
      BY <1>1, <3>1
  <2>5. c = a \div 256 /\ d = b \div 256
    BY <1>1, <2>1, <2>4
  <2>6. c <= 6 * d + 6
    BY <2>3, <2>5
  <2>7. c <= 6 * d + 128
    BY <2>6
  <2>8. Below(k + 1)
    BY <2>4, <2>7
  <2> QED
    BY <2>8
<1>4. 7 \in T
  <2>1. \A k \in Nat : k \in T
    <3> HIDE DEF T
    <3> QED
      BY <1>2, <1>3, NatUp
  <2> HIDE DEF T
  <2> QED
    BY <2>1
<1>5. ShiftedRight(m, 6) \in Nat /\ ShiftedRight(n, 6) \in Nat /\ 6 \in T
      /\ ShiftedRight(m, 7) = ShiftedRight(m, 6) \div 256
      /\ ShiftedRight(n, 7) = ShiftedRight(n, 6) \div 256
  <2>1. \A k \in Nat : k \in T
    <3> HIDE DEF T
    <3> QED
      BY <1>2, <1>3, NatUp
  <2>2. 6 \in Nat /\ 6 + 1 = 7
    OBVIOUS
  <2> HIDE DEF T
  <2> QED
    BY <1>1, <2>1, <2>2
<1>6. PICK a \in Nat, b \in Nat : a = ShiftedRight(m, 6) /\ b = ShiftedRight(n, 6)
  BY <1>5
<1>7. a <= 6 * b + 128
  BY <1>5, <1>6
<1>8. a \div 256 <= 6 * (b \div 256) + 6
  BY <1>7, SixFold
<1>9. b \div 256 = 0
  BY <1>5, <1>6
<1>10. a \div 256 <= 6
  BY <1>8, <1>9
<1>11. a \div 256 \in Nat
  BY <1>6
<1> QED
  BY <1>5, <1>6, <1>10, <1>11

\* Messages as they are published: the bytes told apart are some of the payload.
Message == [op : {OpText, OpBin}, len : Nat, text : Seq(Byte)]
Sized(m) == m \in Message /\ Len(m.text) <= m.len /\ ShiftedRight(m.len, 7) = 0

\* The sink reads a message back.
Whole(m) ==
    LET out == AggOnMessage(m)
    IN  /\ ReadsAs(out.head, IF m.op = OpBin THEN OpBin ELSE OpText, out.len)
        /\ IF m.op = OpBin THEN out.data = m.text /\ out.len = m.len
           ELSE JsonText(out.data) = m.text /\ out.len < Capacity(m.len)

\* No escape is cut off, and the object is shorter than what is allocated.
LEMMA TextWhole ==
    ASSUME NEW m, Sized(m)
    PROVE  /\ JsonText(Data(m)) = m.text
           /\ ObjectLen(m) \in Nat /\ ObjectLen(m) < 6 * m.len + 128
<1>1. m.len \in Nat /\ m.text \in Seq(Byte)
  BY DEF Sized, Message
<1>2. PICK l \in Nat, n \in Nat : l = m.len /\ n = Len(m.text)
  BY <1>1
<1>3. n <= l
  BY <1>2 DEF Sized
<1>4. PICK cap : cap = Capacity(m.len) - ObjectHead - 3 - (m.len - Len(m.text))
  OBVIOUS
<1>5. cap = 6 * l + 128 - 95 - 3 - (l - n)
  <2>1. Capacity(m.len) = 6 * l + 128
    BY <1>2 DEF Capacity
  <2>2. ObjectHead = 95
    BY DEF ObjectHead, Digits
  <2>3. PICK c \in Nat, h \in Nat : c = Capacity(m.len) /\ h = ObjectHead
    BY <2>1, <2>2
  <2>4. cap = c - h - 3 - (l - n)
    BY <1>2, <1>4, <2>3
  <2>5. c = 6 * l + 128 /\ h = 95
    BY <2>1, <2>2, <2>3
  <2> QED
    BY <2>4, <2>5
<1>6. cap \in Nat /\ 6 * n <= cap
  BY <1>3, <1>5
<1>7. PICK out : Escaping(out, m.text) /\ EscapeInto(cap, m.text) = out[Len(m.text)]
  BY <1>1, <1>2, <1>6, EscapeSteps
<1>8. Data(m) = out[Len(m.text)]
  BY <1>4, <1>7 DEF Data
<1>9. JsonText(out[Len(m.text)]) = m.text
  BY <1>1, <1>7, JsonReads
<1>10. PICK d \in Nat : d = Len(Data(m)) /\ d <= 6 * n
  <2>1. n \in 0..Len(m.text)
    BY <1>2
  <2>2. out[n] \in Seq(Byte) /\ Len(out[n]) <= 6 * n
    BY <1>7, <2>1 DEF Escaping
  <2>3. Len(out[n]) \in Nat
    BY <2>2
  <2> QED
    BY <1>2, <1>8, <2>2, <2>3
<1>11. ObjectLen(m) = 95 + d + (l - n) + 2
  BY <1>2, <1>10 DEF ObjectLen, ObjectHead, ObjectTail, Digits
<1>12. ObjectLen(m) \in Nat /\ ObjectLen(m) < 6 * l + 128
  BY <1>3, <1>10, <1>11
<1> QED
  BY <1>2, <1>8, <1>9, <1>12

\* A message goes to the sink whole, whatever it holds.
LEMMA MessageWhole ==
    ASSUME NEW m, Sized(m)
    PROVE  Whole(m)
<1>1. m.op \in {OpText, OpBin} /\ m.len \in Nat /\ ShiftedRight(m.len, 7) = 0
  BY DEF Sized, Message
<1>2. OpText # OpBin /\ ~(OpText >= 8) /\ ~(OpBin >= 8)
  BY DEF OpText, OpBin
<1>3. CASE m.op = OpBin
  <2>1. ReadsAs(EncodeHeader(OpBin, m.len), OpBin, m.len)
    <3>1. ShiftedRight(m.len, 7) < 128
      BY <1>1
    <3> QED
      BY <1>1, <1>2, <3>1, HeaderWritten
  <2>2. AggOnMessage(m) = [head |-> EncodeHeader(OpBin, m.len), len |-> m.len, data |-> m.text]
    BY <1>3 DEF AggOnMessage
  <2> QED
    BY <1>3, <2>1, <2>2 DEF Whole
<1>4. CASE m.op = OpText
  <2>1. PICK n \in Nat : n = ObjectLen(m) /\ n < 6 * m.len + 128
    BY TextWhole
  <2>2. ReadsAs(EncodeHeader(OpText, n), OpText, n)
    <3>1. PICK l \in Nat : l = m.len /\ ShiftedRight(l, 7) = 0
      BY <1>1
    <3>2. n <= 6 * l + 128
      BY <2>1, <3>1
    <3>3. ShiftedRight(n, 7) < 128
      BY <3>1, <3>2, StaysShort
    <3> QED
      BY <1>2, <3>3, HeaderWritten
  <2>3. AggOnMessage(m) = [head |-> EncodeHeader(OpText, n), len |-> n, data |-> Data(m)]
    BY <1>2, <1>4, <2>1 DEF AggOnMessage
  <2>4. JsonText(Data(m)) = m.text /\ n < Capacity(m.len)
    BY <2>1, TextWhole DEF Capacity
  <2> QED
    BY <1>2, <1>4, <2>2, <2>3, <2>4 DEF Whole
<1> QED
  BY <1>1, <1>3, <1>4

\* A smaller number has smaller 256ths.
LEMMA ShiftsGrow ==
    ASSUME NEW m \in Nat, NEW n \in Nat, m <= n, NEW p \in Nat
    PROVE  ShiftedRight(m, p) <= ShiftedRight(n, p)
<1> DEFINE T == {k \in Nat : ShiftedRight(m, k) <= ShiftedRight(n, k)}
<1>1. \A k \in Nat : /\ ShiftedRight(n, k) \in Nat /\ ShiftedRight(m, k) \in Nat
                     /\ ShiftedRight(n, k + 1) = ShiftedRight(n, k) \div 256
                     /\ ShiftedRight(m, k + 1) = ShiftedRight(m, k) \div 256
  <2>1. \A k \in Nat : /\ ShiftedRight(n, k) \in Nat
                       /\ ShiftedRight(n, k + 1) = ShiftedRight(n, k) \div 256
    BY Shifts
  <2>2. \A k \in Nat : /\ ShiftedRight(m, k) \in Nat
                       /\ ShiftedRight(m, k + 1) = ShiftedRight(m, k) \div 256
    BY Shifts
  <2> QED
    BY ONLY <2>1, <2>2
<1>2. 0 \in T
  BY Shifts
<1>3. ASSUME NEW k \in Nat, k \in T PROVE k + 1 \in T
  <2>1. PICK a \in Nat, b \in Nat : a = ShiftedRight(m, k) /\ b = ShiftedRight(n, k)
    BY <1>1
  <2>2. a <= b
    BY <1>3, <2>1
  <2>3. a \div 256 <= b \div 256
    BY <2>2
  <2>4. ShiftedRight(m, k + 1) <= ShiftedRight(n, k + 1) /\ k + 1 \in Nat
    BY <1>1, <2>1, <2>3
  <2> QED
    BY <2>4
<1>4. \A k \in Nat : k \in T
  <2> HIDE DEF T
  <2> QED
    BY <1>2, <1>3, NatUp
<1> QED
  BY <1>4

-----------------------------------------------------------------------------
(* The inductive invariant: messages and answers *)

Answer == [kind : {"pong", "close"}, code : Nat, len : 0..125, text : Seq(Byte)]

\* What has been assembled of a message comes from the bytes consumed.
PartOf(m, n) == m \in [len : Nat, text : Seq(Byte)] /\ Len(m.text) <= m.len /\ m.len <= n

MessageInv ==
    /\ ShiftedRight(Total, 7) = 0
    /\ fragmenting \in BOOLEAN /\ (fragmenting => msgOpcode \in {OpText, OpBin})
    /\ PartOf(msg, used)
    /\ published \in Seq(Message) /\ \A i \in DOMAIN published : Sized(published[i])

AnswerInv == answers \in Seq(Answer)

\* At first there is nothing.
LEMMA MessageInit == Init => MessageInv /\ AnswerInv
<1> SUFFICES ASSUME Init PROVE MessageInv /\ AnswerInv
  OBVIOUS
<1>1. PICK case \in Cases : stream = case.stream
  BY DEF Init
<1>2. /\ used = 0 /\ fragmenting = FALSE /\ msg = [len |-> 0, text |-> <<>>]
      /\ published = <<>> /\ answers = <<>>
  BY DEF Init
<1>3. ShiftedRight(Total, 7) = 0
  BY <1>1, CasesAssumption DEF Total, EndOf
<1>4. PartOf(msg, used)
  <2>1. <<>> \in Seq(Byte) /\ Len(<<>>) = 0
    OBVIOUS
  <2> QED
    BY <1>2, <2>1 DEF PartOf
<1>5. published \in Seq(Message) /\ \A i \in DOMAIN published : Sized(published[i])
  BY <1>2
<1>6. answers \in Seq(Answer)
  BY <1>2
<1> QED
  BY <1>2, <1>3, <1>4, <1>5, <1>6 DEF MessageInv, AnswerInv

\* A frame that is complete: its opcode, its payload, and where it ends.
LEMMA FrameRead ==
    ASSUME InputInv, HasFrame
    PROVE  /\ used \in Nat /\ Size \in Nat /\ HeaderLen(Header) \in Nat
           /\ used + HeaderLen(Header) + Size <= Total
           /\ Bytes \in Seq(Byte) /\ Len(Bytes) <= Size
           /\ Opcode(Header) \in {OpCont, OpText, OpBin, OpClose, OpPing, OpPong}
           /\ IsControl(Opcode(Header)) => Size <= 125
<1>1. /\ stream \in Seq(FrameType) /\ arrived \in 0..Total /\ taken \in 0..arrived
      /\ Unread(rx) = taken - used /\ used <= taken
  BY DEF InputInv, SourceTyped, Held
<1>2. PICK k \in 0..Len(stream) : used = EndOf(k)
  BY DEF InputInv, AtFrame
<1>3. Total \in Nat /\ used \in Nat /\ taken \in 0..Total /\ taken \in Nat
  BY <1>1, <1>2, TotalTyped
<1>4. /\ HeaderComplete(Header, Avail) /\ Avail >= HeaderLen(Header) + PayloadLen(Header)
      /\ Avail = taken - used
  BY <1>1 DEF HasFrame, HeaderGood, Avail
<1>5. /\ k + 1 \in 1..Len(stream) /\ HeaderLen(Header) = Len(HeadBytes(stream[k + 1]))
      /\ PayloadLen(Header) = stream[k + 1].size
      /\ Opcode(Header) = stream[k + 1].op
      /\ used + HeaderLen(Header) + PayloadLen(Header) = EndOf(k + 1)
  BY <1>1, <1>2, <1>3, <1>4, FrameAt
<1>6. stream[k + 1] \in FrameType
  BY <1>1, <1>5
<1>7. PICK h \in 2..14, n \in Nat : h = HeaderLen(Header) /\ n = PayloadLen(Header)
  BY <1>5, <1>6, FrameTotal
<1>8. Size = n
  BY <1>7 DEF Size
<1>9. used + HeaderLen(Header) + Size <= Total
  <2>1. PICK t \in Nat, u \in Nat : t = taken /\ u = used
    BY <1>3
  <2>2. h + n <= t - u
    BY <1>4, <1>7, <2>1
  <2>3. PICK e \in Nat : e = Total /\ t <= e
    BY <1>3, <2>1
  <2>4. u + h + n <= e
    BY <2>2, <2>3
  <2> QED
    BY <1>7, <1>8, <2>1, <2>3, <2>4
<1>10. Bytes \in Seq(Byte) /\ Len(Bytes) <= n
  <2>1. PICK m \in Nat : m = Min({n, TextBytes}) /\ m <= n
    <3>1. TextBytes \in Nat
      BY SizesAssumption
    <3>2. \E x \in {n, TextBytes} : \A y \in {n, TextBytes} : x <= y
      BY <3>1
    <3>3. Min({n, TextBytes}) \in {n, TextBytes}
          /\ \A y \in {n, TextBytes} : Min({n, TextBytes}) <= y
      BY <3>2 DEF Min
    <3> QED
      BY <3>1, <3>3
  <2>2. Bytes = [i \in 1..m |-> ByteAt(used + h + i - 1)]
    BY <1>7, <1>8, <2>1 DEF Bytes, Payload
  <2>3. ASSUME NEW i \in 1..m PROVE ByteAt(used + h + i - 1) \in Byte
    <3>1. PICK p \in Nat : p = used + h + i - 1
      <4>1. used + h + i - 1 \in Nat
        BY <1>3
      <4> QED
        BY <4>1
    <3>2. ByteAt(p) \in Byte
      BY <1>1, BytesAreBytes
    <3> QED
      BY <3>1, <3>2
  <2>4. Bytes \in Seq(Byte) /\ Len(Bytes) = m
    BY <2>2, <2>3
  <2> QED
    BY <2>1, <2>4
<1>11. ~HeaderError(Header, Avail) /\ Avail >= 2 /\ Avail >= HeaderLen(Header)
  BY <1>4 DEF HeaderComplete
<1>12. ~BadFirstByte(Header) /\ ~BadControl(Header)
  BY <1>11 DEF HeaderError
<1>13. Opcode(Header) \in {OpCont, OpText, OpBin, OpClose, OpPing, OpPong}
  <2>1. Opcode(Header) \in 0..15
    BY <1>5, <1>6, FrameFields
  <2>2. Opcode(Header) \notin (3..7) \cup (11..15)
    BY <1>12 DEF BadFirstByte
  <2> QED
    BY <2>1, <2>2 DEF OpCont, OpText, OpBin, OpClose, OpPing, OpPong
<1>14. ASSUME IsControl(Opcode(Header)) PROVE n <= 125
  <2>1. Len7(Header) <= 125
    BY <1>12, <1>14 DEF BadControl
  <2>2. PICK x \in Int : x = Len7(Header)
    <3>1. PICK f : f = stream[k + 1]
      OBVIOUS
    <3>2. Shows(Header, HeadBytes(f))
      <4>1. k \in 0..(Len(stream) - 1)
        BY <1>5
      <4> QED
        BY <1>1, <1>2, <3>1, <4>1, HeaderShown
    <3>3. ByteAt(used + 1) \in Byte
      <4>1. used + 1 \in Nat
        BY <1>3
      <4> QED
        BY <1>1, <4>1, BytesAreBytes
    <3>4. Header[1] = ByteAt(used + 1)
      BY DEF Header
    <3>5. \A y \in Byte : y % 128 \in Int
      BY DEF Byte
    <3> QED
      BY <3>3, <3>4, <3>5 DEF Len7
  <2>3. Extended(Header) = 0
    <3>1. x <= 125
      BY <2>1, <2>2
    <3>2. x # 126 /\ x # 127
      BY <3>1
    <3> QED
      BY <2>2, <3>2 DEF Extended
  <2>4. PayloadLen(Header) = Len7(Header)
    BY <2>3 DEF PayloadLen
  <2> QED
    BY <1>7, <2>1, <2>4
<1>15. Size \in Nat /\ HeaderLen(Header) \in Nat /\ Len(Bytes) <= Size
  BY <1>7, <1>8, <1>10
<1>16. IsControl(Opcode(Header)) => Size <= 125
  BY <1>8, <1>14
<1> QED
  BY <1>3, <1>9, <1>10, <1>13, <1>15, <1>16

\* Every answer that is appended is a PONG or a CLOSE that can be sent.
Answered == answers' = answers \/ \E a \in Answer : answers' = Append(answers, a)

\* What sendClose() appends is such an answer.
LEMMA ClosedWith ==
    ASSUME NEW code \in Nat, SendClose(code)
    PROVE  Answered
<1>1. [kind |-> "close", code |-> code, len |-> 2, text |-> <<>>] \in Answer
  BY DEF Answer
<1> QED
  BY <1>1 DEF SendClose, Answered

\* A PING is answered with what it carries.
LEMMA PingAnswered ==
    ASSUME InputInv, Ping
    PROVE  Answered
<1>1. HasFrame /\ IsControl(Opcode(Header))
  BY DEF Ping, IsControl, OpPing
<1>2. Size \in Nat /\ Size <= 125 /\ Bytes \in Seq(Byte)
  BY <1>1, FrameRead
<1>3. PICK a : a = [kind |-> "pong", code |-> 0, len |-> Size, text |-> Bytes]
  OBVIOUS
<1>4. Size \in 0..125
  BY <1>2
<1>5. a \in Answer
  BY <1>2, <1>3, <1>4 DEF Answer
<1>6. answers' = Append(answers, a)
  BY <1>3 DEF Ping
<1> QED
  BY <1>5, <1>6 DEF Answered

\* A CLOSE is answered with a number.
LEMMA ClosingCodeTyped == ClosingCode \in Nat
<1> DEFINE code == 256 * Bytes[1] + Bytes[2]
           reason == Utf8Feed(Utf8Start, SubSeq(Bytes, 3, Len(Bytes)))
<1>1. ClosingCode = (IF Size = 0 THEN 1000
                     ELSE IF Size = 1 \/ ~IsValidCloseCode(code) THEN 1002
                     ELSE IF reason.kind = "bad" \/ ~Utf8Done(reason) THEN 1007
                     ELSE code)
  BY DEF ClosingCode
<1> HIDE DEF code, reason
<1>2. IsValidCloseCode(code) => code \in Nat
  BY DEF IsValidCloseCode
<1> QED
  BY <1>1, <1>2

\* No step of the worker appends anything else: not the loop, not onReadable().
LEMMA AnswerEffects ==
    ASSUME InputInv, Next
    PROVE  Answered
<1>0. answers' = answers => Answered
  BY DEF Answered
<1>1. CASE PeerSend \/ PeerClose \/ PeerReads \/ Event \/ Recv \/ RecvNone \/ RecvEnd
           \/ LoopEnds \/ FlushAll \/ FlushSome \/ FlushError \/ Pong \/ Fragment \/ Publish
  BY <1>0, <1>1 DEF PeerSend, PeerClose, PeerReads, Event, Recv, RecvNone, RecvEnd, LoopEnds,
     FlushAll, FlushSome, FlushError, Pong, Fragment, Publish, connVars, flushed, history
<1>2. CASE RecvFull
  <2>1. CASE closing
    BY <1>0, <1>2, <2>1 DEF RecvFull
  <2>2. CASE ~closing
    <3>1. SendClose(1009)
      BY <1>2, <2>2 DEF RecvFull
    <3> QED
      BY <3>1, ClosedWith
  <2> QED
    BY <2>1, <2>2
<1>3. CASE RefuseHeader
  <2>1. SendClose(1002)
    BY <1>3 DEF RefuseHeader, Refuse
  <2> QED
    BY <2>1, ClosedWith
<1>4. CASE RefuseSize
  <2>1. SendClose(1009)
    BY <1>4 DEF RefuseSize, Refuse
  <2> QED
    BY <2>1, ClosedWith
<1>5. CASE Ping
  BY <1>5, PingAnswered
<1>6. CASE CloseFrame
  <2>1. PICK code \in Nat : code = ClosingCode
    BY ClosingCodeTyped
  <2>2. SendClose(code)
    BY <1>6, <2>1 DEF CloseFrame
  <2> QED
    BY <2>2, ClosedWith
<1>7. CASE RefusePlace
  <2>1. SendClose(1002)
    BY <1>7 DEF RefusePlace, Refuse
  <2> QED
    BY <2>1, ClosedWith
<1>8. CASE RefuseMessage
  <2>1. PICK code \in Nat : code = IF TooLong THEN 1009 ELSE 1007
    OBVIOUS
  <2>2. SendClose(code)
    BY <1>8, <2>1 DEF RefuseMessage
  <2> QED
    BY <2>2, ClosedWith
<1>9. CASE RefuseText
  <2>1. SendClose(1007)
    BY <1>9 DEF RefuseText
  <2> QED
    BY <2>1, ClosedWith
<1> QED
  BY <1>1, <1>2, <1>3, <1>4, <1>5, <1>6, <1>7, <1>8, <1>9 DEF Next, WorkerStep, HandleFrame

\* The answers keep their type.
LEMMA AnswerStep == InputInv /\ AnswerInv /\ [Next]_vars => AnswerInv'
<1> SUFFICES ASSUME InputInv, answers \in Seq(Answer), [Next]_vars PROVE answers' \in Seq(Answer)
  BY DEF AnswerInv
<1>1. CASE UNCHANGED vars
  BY <1>1 DEF vars, history
<1>2. CASE Next
  <2>1. Answered
    BY <1>2, AnswerEffects
  <2>2. ASSUME NEW a \in Answer PROVE Append(answers, a) \in Seq(Answer)
    OBVIOUS
  <2> QED
    BY <2>1, <2>2 DEF Answered
<1> QED
  BY <1>1, <1>2

\* A frame of data goes on with a message, or begins one.
LEMMA Assembled ==
    ASSUME InputInv, MessageInv, HasData, InPlace
    PROVE  /\ Assembly.op \in {OpText, OpBin} /\ PartOf(Assembly.msg, used)
           /\ used + HeaderLen(Header) + Size <= Total
           /\ PartOf(WithFrame, used + HeaderLen(Header) + Size)
<1>1. /\ used \in Nat /\ Size \in Nat /\ HeaderLen(Header) \in Nat
      /\ used + HeaderLen(Header) + Size <= Total
      /\ Bytes \in Seq(Byte) /\ Len(Bytes) <= Size
      /\ Opcode(Header) \in {OpCont, OpText, OpBin, OpClose, OpPing, OpPong}
  BY FrameRead DEF HasData
<1>2. Opcode(Header) \in {OpCont, OpText, OpBin}
  <2>1. ~IsControl(Opcode(Header))
    BY DEF HasData
  <2> QED
    BY <1>1, <2>1 DEF IsControl, OpClose, OpPing, OpPong
<1>3. Assembly.op \in {OpText, OpBin} /\ PartOf(Assembly.msg, used)
  <2>1. CASE fragmenting
    <3>1. Assembly.op = msgOpcode /\ Assembly.msg = msg
      BY <2>1 DEF Assembly
    <3> QED
      BY <2>1, <3>1 DEF MessageInv
  <2>2. CASE ~fragmenting
    <3>1. Assembly.op = Opcode(Header) /\ Assembly.msg = [len |-> 0, text |-> <<>>]
      BY <2>2 DEF Assembly
    <3>2. Opcode(Header) # OpCont
      BY <2>2 DEF InPlace
    <3>3. PartOf([len |-> 0, text |-> <<>>], used)
      <4>1. <<>> \in Seq(Byte) /\ Len(<<>>) = 0
        OBVIOUS
      <4> QED
        BY <1>1, <4>1 DEF PartOf
    <3> QED
      BY <1>2, <3>1, <3>2, <3>3
  <2> QED
    BY <2>1, <2>2
<1>4. PartOf(WithFrame, used + HeaderLen(Header) + Size)
  <2>1. PICK x, w : x = Assembly.msg /\ w = WithFrame
    OBVIOUS
  <2>2. x.len \in Nat /\ x.text \in Seq(Byte) /\ Len(x.text) <= x.len /\ x.len <= used
    BY <1>3, <2>1 DEF PartOf
  <2>3. PICK l \in Nat, a \in Seq(Byte) : l = x.len /\ a = x.text
    BY <2>2
  <2>4. PICK n \in Nat, u \in Nat, h \in Nat : n = Size /\ u = used /\ h = HeaderLen(Header)
    BY <1>1
  <2>5. w = [len |-> l + n, text |-> a \o Bytes]
    BY <2>1, <2>3, <2>4 DEF WithFrame
  <2>6. a \o Bytes \in Seq(Byte) /\ Len(a \o Bytes) = Len(a) + Len(Bytes)
    BY <1>1, ConcatAt
  <2>7. PICK i \in Nat, j \in Nat : i = Len(a) /\ j = Len(Bytes)
    BY <1>1
  <2>8. i + j <= l + n /\ l + n <= u + h + n /\ l + n \in Nat
    <3>1. i <= l /\ j <= n /\ l <= u
      BY <1>1, <2>2, <2>3, <2>4, <2>7
    <3> QED
      BY <3>1
  <2>9. w \in [len : Nat, text : Seq(Byte)] /\ Len(w.text) <= w.len /\ w.len <= u + h + n
    BY <2>5, <2>6, <2>7, <2>8
  <2> QED
    BY <2>1, <2>4, <2>9 DEF PartOf
<1> QED
  BY <1>1, <1>3, <1>4

\* Nothing is taken back.
LEMMA UsedGrows ==
    ASSUME InputInv, Next
    PROVE  used \in Nat /\ used' \in Nat /\ used <= used'
<1>1. used \in Nat
  BY TotalTyped DEF InputInv, SourceTyped, AtFrame
<1>2. CASE Consumed
  <2>1. PICK h \in Nat, n \in Nat : h = HeaderLen(Header) /\ n = Size
    BY <1>2, FrameRead DEF Consumed
  <2>2. used' = used + h + n
    BY <1>2, <2>1 DEF Consumed, ConsumeFrame
  <2> QED
    BY <1>1, <2>2
<1>3. CASE ~Consumed
  <2>1. used' = used
    BY <1>3, InputEffects DEF Still, inputVars, Arrives, Reserved, Received
  <2> QED
    BY <1>1, <2>1
<1> QED
  BY <1>2, <1>3

\* The message changes with a frame of data only.
LEMMA MessageEffects ==
    ASSUME Next, ~RefuseMessage, ~Fragment, ~RefuseText, ~Publish
    PROVE  UNCHANGED <<fragmenting, msgOpcode, msg, msgUtf8, published>>
<1> USE DEF msgVars
<1>1. CASE PeerSend \/ PeerClose \/ PeerReads
  BY <1>1 DEF PeerSend, PeerClose, PeerReads, history
<1>2. CASE Event \/ Recv \/ RecvNone \/ RecvEnd \/ RecvFull \/ LoopEnds
  BY <1>2 DEF Event, Recv, RecvNone, RecvEnd, RecvFull, LoopEnds, connVars, history
<1>3. CASE FlushAll \/ FlushSome \/ FlushError
  BY <1>3 DEF FlushAll, FlushSome, FlushError, flushed, history, connVars
<1>4. CASE RefuseHeader \/ RefuseSize \/ RefusePlace
  BY <1>4 DEF RefuseHeader, RefuseSize, RefusePlace, Refuse
<1>5. CASE Ping \/ Pong \/ CloseFrame
  BY <1>5 DEF Ping, Pong, CloseFrame, history
<1> QED
  BY <1>1, <1>2, <1>3, <1>4, <1>5 DEF Next, WorkerStep, HandleFrame

\* More may have been consumed than the message holds.
LEMMA PartStays ==
    ASSUME NEW m, NEW k \in Nat, NEW n \in Nat, k <= n, PartOf(m, k)
    PROVE  PartOf(m, n)
<1>1. PICK l \in Nat : l = m.len
  BY DEF PartOf
<1>2. l <= n
  BY <1>1 DEF PartOf
<1> QED
  BY <1>1, <1>2 DEF PartOf

\* A message that is published is no longer than the stream.
LEMMA PublishSized ==
    ASSUME InputInv, MessageInv, Publish
    PROVE  /\ \E m \in Message : Sized(m) /\ published' = Append(published, m)
           /\ fragmenting' = FALSE /\ PartOf(msg', used')
<1>1. HasData /\ InPlace
  BY DEF Publish, DataInOrder
<1>2. /\ Assembly.op \in {OpText, OpBin}
      /\ used + HeaderLen(Header) + Size <= Total
      /\ PartOf(WithFrame, used + HeaderLen(Header) + Size)
  BY <1>1, Assembled
<1>3. used \in Nat /\ Size \in Nat /\ HeaderLen(Header) \in Nat
  BY <1>1, FrameRead DEF HasData
<1>4. PICK w : w = WithFrame
  OBVIOUS
<1>n. PICK n \in Nat : n = used + HeaderLen(Header) + Size
  BY <1>3
<1>5. w.len \in Nat /\ w.text \in Seq(Byte) /\ Len(w.text) <= w.len /\ w.len <= n /\ n <= Total
  BY <1>2, <1>4, <1>n DEF PartOf
<1>6. PICK m : m = [op |-> Assembly.op, len |-> w.len, text |-> w.text]
  OBVIOUS
<1>7. m \in Message /\ m.len = w.len /\ m.text = w.text
  BY <1>2, <1>5, <1>6 DEF Message
<1>8. ShiftedRight(w.len, 7) = 0
  <2>1. PICK t \in Nat : t = Total /\ ShiftedRight(t, 7) = 0
    BY TotalTyped DEF InputInv, SourceTyped, MessageInv
  <2>2. PICK l \in Nat : l = w.len /\ l <= t
    BY <1>5, <2>1
  <2>3. 7 \in Nat
    OBVIOUS
  <2>4. ShiftedRight(l, 7) <= ShiftedRight(t, 7)
    BY <2>2, <2>3, ShiftsGrow
  <2>5. ShiftedRight(l, 7) \in Nat
    BY <2>3, Shifts
  <2>6. PICK s \in Nat : s = ShiftedRight(l, 7)
    BY <2>5
  <2>7. s <= 0
    BY <2>1, <2>4, <2>6
  <2>8. s = 0
    BY <2>7
  <2> QED
    BY <2>2, <2>6, <2>8
<1>9. Sized(m)
  BY <1>5, <1>7, <1>8 DEF Sized
<1>10. published' = Append(published, m)
  BY <1>4, <1>6 DEF Publish
<1>11. fragmenting' = FALSE /\ msg' = [len |-> 0, text |-> <<>>] /\ used' = n
  BY <1>n DEF Publish, ConsumeFrame
<1>12. PartOf(msg', used')
  <2>1. <<>> \in Seq(Byte) /\ Len(<<>>) = 0
    OBVIOUS
  <2> QED
    BY <1>11, <2>1 DEF PartOf
<1> QED
  BY <1>7, <1>9, <1>10, <1>11, <1>12

\* What is assembled and what is published keep their form.
LEMMA MessageStep == InputInv /\ MessageInv /\ [Next]_vars => MessageInv'
<1> SUFFICES ASSUME InputInv, MessageInv, [Next]_vars PROVE MessageInv'
  OBVIOUS
<1>1. CASE UNCHANGED vars
  <2>1. Total' = Total
    BY <1>1 DEF vars, peerVars, Total, EndOf
  <2> QED
    BY <1>1, <2>1 DEF MessageInv, vars, msgVars, history, PartOf, Sized
<1>2. CASE Next
  <2>1. Total' = Total
    BY <1>2, InputFixed
  <2>2. ShiftedRight(Total', 7) = 0
    BY <2>1 DEF MessageInv
  <2>3. used \in Nat /\ used' \in Nat /\ used <= used'
    BY <1>2, UsedGrows
  <2>4. /\ fragmenting' \in BOOLEAN /\ (fragmenting' => msgOpcode' \in {OpText, OpBin})
        /\ PartOf(msg', used')
        /\ published' \in Seq(Message) /\ \A i \in DOMAIN published' : Sized(published'[i])
    <3>0. /\ fragmenting \in BOOLEAN /\ (fragmenting => msgOpcode \in {OpText, OpBin})
          /\ PartOf(msg, used)
          /\ published \in Seq(Message) /\ \A i \in DOMAIN published : Sized(published[i])
      BY DEF MessageInv
    <3>1. CASE RefuseMessage
      <4>1. Assembly.op \in {OpText, OpBin} /\ PartOf(Assembly.msg, used)
        BY <3>1, Assembled DEF RefuseMessage
      <4>2. /\ fragmenting' = TRUE /\ msgOpcode' = Assembly.op /\ msg' = Assembly.msg
            /\ used' = used /\ published' = published
        BY <3>1 DEF RefuseMessage
      <4> QED
        BY <3>0, <4>1, <4>2
    <3>2. CASE Fragment \/ RefuseText
      <4>1. HasData /\ InPlace /\ ConsumeFrame
        BY <3>2 DEF Fragment, RefuseText, DataInOrder
      <4>2. /\ Assembly.op \in {OpText, OpBin}
            /\ PartOf(WithFrame, used + HeaderLen(Header) + Size)
        BY <4>1, Assembled
      <4>3. used' = used + HeaderLen(Header) + Size
        BY <4>1 DEF ConsumeFrame
      <4>4. /\ fragmenting' \in BOOLEAN /\ msgOpcode' = Assembly.op /\ msg' = WithFrame
            /\ published' = published
        BY <3>2 DEF Fragment, RefuseText, history
      <4> QED
        BY <3>0, <4>2, <4>3, <4>4
    <3>3. CASE Publish
      <4>1. PICK m \in Message : Sized(m) /\ published' = Append(published, m)
        BY <3>3, PublishSized
      <4>2. fragmenting' = FALSE /\ PartOf(msg', used')
        BY <3>3, PublishSized
      <4>3. published' \in Seq(Message)
        BY <3>0, <4>1
      <4>4. ASSUME NEW i \in DOMAIN published' PROVE Sized(published'[i])
        <5>1. /\ Len(published) \in Nat /\ i \in 1..(Len(published) + 1)
              /\ DOMAIN published = 1..Len(published)
          BY <3>0, <4>1, <4>4
        <5>2. CASE i = Len(published) + 1
          <6>1. published'[i] = m
            BY <3>0, <4>1, <5>2
          <6> QED
            BY <4>1, <6>1
        <5>3. CASE i # Len(published) + 1
          <6>1. i \in DOMAIN published
            BY <5>1, <5>3
          <6>2. published'[i] = published[i]
            BY <3>0, <4>1, <6>1
          <6> QED
            BY <3>0, <6>1, <6>2
        <5> QED
          BY <5>2, <5>3
      <4> QED
        BY <4>2, <4>3, <4>4
    <3>4. CASE ~RefuseMessage /\ ~Fragment /\ ~RefuseText /\ ~Publish
      <4>1. UNCHANGED <<fragmenting, msgOpcode, msg, published>>
        BY <1>2, <3>4, MessageEffects
      <4>2. PartOf(msg, used')
        BY <2>3, <3>0, PartStays
      <4> QED
        BY <3>0, <4>1, <4>2
    <3> QED
      BY <3>1, <3>2, <3>3, <3>4
  <2> QED
    BY <2>2, <2>4 DEF MessageInv, PartOf, Sized
<1> QED
  BY <1>1, <1>2

\* An answer is read back by the source.
LEMMA AnswersRead ==
    ASSUME AnswerInv, NEW i \in DOMAIN answers
    PROVE  LET op == IF answers[i].kind = "pong" THEN OpPong ELSE OpClose
           IN  ReadsAs(EncodeHeader(op, answers[i].len), op, answers[i].len)
<1>1. answers[i] \in Answer
  BY DEF AnswerInv
<1>2. PICK n \in Nat : n = answers[i].len /\ n <= 125
  BY <1>1 DEF Answer
<1>3. PICK op \in {OpText, OpBin, OpClose, OpPing, OpPong} :
          op = IF answers[i].kind = "pong" THEN OpPong ELSE OpClose
  OBVIOUS
<1>4. ShiftedRight(n, 7) < 128
  <2>1. n <= 6 * 0 + 128 /\ 0 \in Nat
    BY <1>2
  <2>2. ShiftedRight(0, 7) = 0
    <3> DEFINE T == {k \in Nat : ShiftedRight(0, k) = 0}
    <3>1. 0 \in T
      BY Shifts
    <3>2. ASSUME NEW k \in Nat, k \in T PROVE k + 1 \in T
      <4>1. ShiftedRight(0, k + 1) = ShiftedRight(0, k) \div 256
        BY Shifts
      <4>2. 0 \div 256 = 0 /\ k + 1 \in Nat
        OBVIOUS
      <4> QED
        BY <3>2, <4>1, <4>2
    <3>3. \A k \in Nat : k \in T
      <4> HIDE DEF T
      <4> QED
        BY <3>1, <3>2, NatUp
    <3> QED
      BY <3>3
  <2> QED
    BY <2>1, <2>2, StaysShort
<1>5. ReadsAs(EncodeHeader(op, n), op, n)
  BY <1>2, <1>3, <1>4, HeaderWritten
<1> QED
  BY <1>2, <1>3, <1>5

\* What the invariant says of messages and answers is what the sink and the
\* sources need.
LEMMA AllWhole == MessageInv /\ AnswerInv => OutputWhole
<1> SUFFICES ASSUME MessageInv, AnswerInv PROVE OutputWhole
  OBVIOUS
<1>1. ASSUME NEW i \in DOMAIN published PROVE Whole(published[i])
  <2>1. Sized(published[i])
    BY DEF MessageInv
  <2> QED
    BY <2>1, MessageWhole
<1> QED
  BY <1>1, AnswersRead DEF OutputWhole, Whole

\* Whatever a message holds and however long it is, the sink reads it back: the
\* escapes fit into what is allocated, the object is closed, and the header says
\* how long the frame is; an answer to the source is read back as well, for every
\* stream, every command line and any pieces in which bytes arrive
\* (agg.c:157-242, 68-82, ws.c:99-123).
THEOREM OutputIsWhole == Spec => []OutputWhole
<1>1. Init => InputInv /\ MessageInv /\ AnswerInv
  BY InputInit, MessageInit
<1>2. InputInv /\ MessageInv /\ AnswerInv /\ [Next]_vars => (InputInv /\ MessageInv /\ AnswerInv)'
  BY InputStep, MessageStep, AnswerStep
<1>3. InputInv /\ MessageInv /\ AnswerInv => OutputWhole
  BY AllWhole
<1> QED
  BY <1>1, <1>2, <1>3, PTL DEF Spec

-----------------------------------------------------------------------------
(* The address of an upstream *)

\* An address has a length, and one of some pieces has a positive length.
LEMMA LengthTyped ==
    ASSUME NEW pieces \in Seq(Pieces)
    PROVE  /\ Length(pieces) \in Nat
           /\ IF pieces = <<>> THEN Length(pieces) = 0 ELSE Length(pieces) >= 1
<1> DEFINE f == [i \in DOMAIN pieces |-> pieces[i].len]
           S == DOMAIN f
           first == [s \in SUBSET S |-> CHOOSE x \in s : TRUE]
           Body(g) == [s \in SUBSET S |-> IF s = {} THEN 0
                           ELSE f[CHOOSE x \in s : TRUE] + g[s \ {CHOOSE x \in s : TRUE}]]
           it == CHOOSE g : g = Body(g)
<1>1. Length(pieces) = it[S]
  BY DEF Length, FoldFunction, FoldFunctionOnSet, MapThenFoldSet
<1>2. S = 1..Len(pieces) /\ Len(pieces) \in Nat /\ \A i \in S : f[i] \in Nat /\ f[i] >= 1
  BY DEF Pieces
<1>3. IsFiniteSet(S)
  <2>1. 1 \in Int /\ Len(pieces) \in Int
    BY <1>2
  <2> QED
    BY <1>2, <2>1, FS_Interval
<1> HIDE DEF f, S
<1>4. \A s \in SUBSET S : s # {} => first[s] \in s
  OBVIOUS
<1>5. \E g : g = Body(g)
  <2> DEFINE op == [p \in S \X Nat |-> f[p[1]] + p[2]]
  <2>1. op \in [S \X Nat -> Nat] /\ Chooses(first, S)
    BY <1>2, <1>4 DEF Chooses
  <2>2. PICK g : FoldOf(g, S, Nat, 0, op, first)
    <3> HIDE DEF op, first
    <3> QED
      BY <1>3, <2>1, FoldDefined
  <2>3. ASSUME NEW s \in SUBSET S, s # {}
        PROVE  op[<<first[s], g[s \ {first[s]}]>>] = f[first[s]] + g[s \ {first[s]}]
    <3>1. first[s] \in S /\ g[s \ {first[s]}] \in Nat
      BY <1>4, <2>2, <2>3 DEF FoldOf
    <3> HIDE DEF first
    <3> QED
      BY <3>1
  <2>4. g = [s \in SUBSET S |-> IF s = {} THEN 0 ELSE f[first[s]] + g[s \ {first[s]}]]
    <3> HIDE DEF op, first
    <3> QED
      BY <2>2, <2>3 DEF FoldOf
  <2>5. g = Body(g)
    BY <2>4
  <2> QED
    BY <2>5
<1>6. it = Body(it)
  BY <1>5
<1> HIDE DEF it
<1>7. \A s \in SUBSET S :
          it[s] = IF s = {} THEN 0 ELSE f[first[s]] + it[s \ {first[s]}]
  BY <1>6
<1> HIDE DEF first
<1> DEFINE Typed(s) == it[s] \in Nat /\ IF s = {} THEN it[s] = 0 ELSE it[s] >= 1
           T == {n \in Nat : \A s \in SUBSET S : Cardinality(s) = n => Typed(s)}
<1>8. 0 \in T
  <2> SUFFICES ASSUME NEW s \in SUBSET S, Cardinality(s) = 0 PROVE Typed(s)
    OBVIOUS
  <2>1. IsFiniteSet(s)
    BY <1>3, FS_Subset
  <2>2. s = {}
    BY <2>1, FS_EmptySet
  <2>3. it[{}] = 0
    BY <1>7
  <2>4. Typed({})
    BY <2>3
  <2> QED
    BY <2>2, <2>4
<1>9. ASSUME NEW n \in Nat, n \in T PROVE n + 1 \in T
  <2> SUFFICES ASSUME NEW s \in SUBSET S, Cardinality(s) = n + 1 PROVE Typed(s)
    OBVIOUS
  <2>1. s # {}
    <3>1. Cardinality({}) = 0 /\ n + 1 # 0
      BY FS_EmptySet
    <3> QED
      BY <3>1
  <2>2. first[s] \in s /\ s \ {first[s]} \in SUBSET S
    BY <1>4, <2>1
  <2>3. Cardinality(s \ {first[s]}) = n
    <3>1. IsFiniteSet(s)
      BY <1>3, FS_Subset
    <3>2. Cardinality(s \ {first[s]}) = Cardinality(s) - 1
      BY <2>2, <3>1, FS_RemoveElement
    <3> QED
      BY <3>2
  <2>4. it[s \ {first[s]}] \in Nat
    BY <1>9, <2>2, <2>3
  <2>5. it[s] = f[first[s]] + it[s \ {first[s]}]
    BY <1>7, <2>1
  <2>6. f[first[s]] \in Nat /\ f[first[s]] >= 1
    BY <1>2, <2>2
  <2>7. it[s] \in Nat /\ it[s] >= 1
    BY <2>4, <2>5, <2>6
  <2> QED
    BY <2>1, <2>7
<1>10. \A n \in Nat : n \in T
  <2> HIDE DEF T
  <2> QED
    BY <1>8, <1>9, NatUp
<1>11. Typed(S)
  <2>1. Cardinality(S) \in Nat
    BY <1>3, FS_CardinalityType
  <2> QED
    BY <1>10, <2>1
<1>12. S = {} <=> pieces = <<>>
  BY <1>2
<1> QED
  BY <1>1, <1>11, <1>12

\* One piece cut out, and a part from the left.
LEMMA Cut ==
    ASSUME NEW S, NEW p \in Seq(S), NEW i \in 1..Len(p), NEW j \in 0..Len(p), i - 1 <= j
    PROVE  /\ SubSeq(p, i, j) \in Seq(S) /\ Len(SubSeq(p, i, j)) = j - i + 1
           /\ \A x \in 1..(j - i + 1) : SubSeq(p, i, j)[x] = p[i + x - 1]
           /\ i = j => SubSeq(p, i, j) = <<p[i]>>
<1>1. /\ SubSeq(p, i, j) \in Seq(S) /\ Len(SubSeq(p, i, j)) = j - i + 1
      /\ \A x \in 1..(j - i + 1) : SubSeq(p, i, j)[x] = p[i + x - 1]
  OBVIOUS
<1>2. ASSUME i = j PROVE SubSeq(p, i, j) = <<p[i]>>
  <2>1. PICK a : a = SubSeq(p, i, j)
    OBVIOUS
  <2>2. PICK b : b = <<p[i]>>
    OBVIOUS
  <2>3. j - i + 1 = 1 /\ i + 1 - 1 = i /\ p[i] \in S
    BY <1>2
  <2>4. a \in Seq(S) /\ Len(a) = 1 /\ a[1] = p[i]
    BY <1>1, <2>1, <2>3
  <2>5. b \in Seq(S) /\ Len(b) = 1 /\ b[1] = p[i]
    BY <2>2, <2>3
  <2>6. a = b
    BY <2>4, <2>5
  <2> QED
    BY <2>1, <2>2, <2>6
<1> QED
  BY <1>1, <1>2

\* A mark stands for one character, so it is told by itself.
LEMMA MarkIs ==
    ASSUME NEW p \in Pieces
    PROVE  /\ p.mark = ":" => p = Colon
           /\ p.mark = "[" => p = Bracket("[")
           /\ p.mark = "]" => p = Bracket("]")
           /\ Colon \in Pieces /\ Bracket("[") \in Pieces /\ Bracket("]") \in Pieces
           /\ Colon.mark = ":" /\ Bracket("[").mark = "[" /\ Bracket("]").mark = "]"
<1>1. p.mark # "text" => p = [mark |-> p.mark, len |-> 1, num |-> 0, clean |-> FALSE]
  BY DEF Pieces
<1>2. /\ Colon = [mark |-> ":", len |-> 1, num |-> 0, clean |-> FALSE]
      /\ Bracket("[") = [mark |-> "[", len |-> 1, num |-> 0, clean |-> FALSE]
      /\ Bracket("]") = [mark |-> "]", len |-> 1, num |-> 0, clean |-> FALSE]
  <2>1. Colon = [mark |-> ":", len |-> 1, num |-> 0, clean |-> FALSE]
    BY DEF Colon
  <2>2. ASSUME NEW x PROVE Bracket(x) = [mark |-> x, len |-> 1, num |-> 0, clean |-> FALSE]
    BY Zenon, <2>1 DEF Bracket
  <2> QED
    BY <2>1, <2>2
<1>3. \A x \in {":", "[", "]"} :
          [mark |-> x, len |-> 1, num |-> 0, clean |-> FALSE] \in Pieces
  <2> SUFFICES ASSUME NEW x \in {":", "[", "]"}
               PROVE  [mark |-> x, len |-> 1, num |-> 0, clean |-> FALSE] \in Pieces
    OBVIOUS
  <2>1. x \in {":", "[", "]", "text"} /\ 1 \in Nat \ {0} /\ 0 \in Int /\ FALSE \in BOOLEAN
    OBVIOUS
  <2>2. PICK q : q = [mark |-> x, len |-> 1, num |-> 0, clean |-> FALSE]
    OBVIOUS
  <2>3. q \in [mark : {":", "[", "]", "text"}, len : Nat \ {0}, num : Int, clean : BOOLEAN]
    BY <2>1, <2>2
  <2>4. q.len = 1 /\ q.num = 0 /\ ~q.clean
    BY <2>2
  <2> QED
    BY <2>2, <2>3, <2>4 DEF Pieces
<1>4. Colon \in Pieces /\ Bracket("[") \in Pieces /\ Bracket("]") \in Pieces
  BY <1>2, <1>3
<1>5. Colon.mark = ":" /\ Bracket("[").mark = "[" /\ Bracket("]").mark = "]"
  BY <1>2
<1>6. /\ p.mark = ":" => p = Colon
      /\ p.mark = "[" => p = Bracket("[")
      /\ p.mark = "]" => p = Bracket("]")
  BY <1>1, <1>2
<1> QED
  BY <1>4, <1>5, <1>6

\* The two forms of an address whose host has k pieces.
Plain(pieces, k) ==
    /\ k \in Nat \ {0} /\ Len(pieces) = k + 2
    /\ pieces[1].mark # "[" /\ pieces[k + 1].mark = ":" /\ IsPort(<<pieces[k + 2]>>)
Boxed(pieces, k) ==
    /\ k \in Nat \ {0} /\ Len(pieces) = k + 4
    /\ pieces[1].mark = "[" /\ pieces[k + 2].mark = "]" /\ pieces[k + 3].mark = ":"
    /\ \A i \in 2..(k + 1) : pieces[i].mark # "]"
    /\ IsPort(<<pieces[k + 4]>>)

\* The code takes a host and a port apart at the last colon.
LEMMA PlainSplit ==
    ASSUME NEW pieces \in Seq(Pieces), NEW k, Plain(pieces, k)
    PROVE  /\ HasPort(pieces) /\ Host(pieces) = SubSeq(pieces, 1, k)
           /\ Port(pieces) = <<pieces[k + 2]>>
<1>1. /\ k \in Nat \ {0} /\ Len(pieces) = k + 2
      /\ pieces[1].mark # "[" /\ pieces[k + 1].mark = ":" /\ pieces[k + 2].mark = "text"
  BY DEF Plain, IsPort
<1>2. ~Bracketed(pieces)
  BY <1>1 DEF Bracketed
<1> DEFINE colons == Positions(pieces, ":")
<1>3. colons \subseteq 0..(k + 1) /\ k + 1 \in colons
  <2>1. \A i \in DOMAIN pieces : i \in 1..(k + 2)
    BY <1>1
  <2>2. \A i \in colons : i \in 1..(k + 2) /\ i # k + 2
    BY <1>1, <2>1 DEF Positions
  <2>3. k + 1 \in DOMAIN pieces
    BY <1>1
  <2>4. k + 1 \in colons
    BY <1>1, <2>3 DEF Positions
  <2> HIDE DEF colons
  <2>5. \A i \in colons : i \in 0..(k + 1)
    BY <1>1, <2>2
  <2> QED
    BY <2>4, <2>5
<1>4. Max(colons) = k + 1
  <2> HIDE DEF colons
  <2>1. Max(colons) \in colons /\ \A x \in colons : x <= Max(colons)
    <3>1. k + 1 \in Nat /\ colons # {}
      BY <1>1, <1>3
    <3> QED
      BY <1>3, <3>1, MaxOfBounded
  <2>2. PICK m : m = Max(colons)
    OBVIOUS
  <2>3. m \in 0..(k + 1) /\ k + 1 <= m
    BY <1>3, <2>1, <2>2
  <2> QED
    BY <1>1, <2>2, <2>3
<1>5. HostEnd(pieces) = k + 1
  BY <1>2, <1>4 DEF HostEnd
<1>6. HasPort(pieces)
  BY <1>2, <1>3 DEF HasPort
<1>7. Host(pieces) = SubSeq(pieces, 1, k)
  <2>1. (k + 1) - 1 = k
    BY <1>1
  <2> QED
    BY <1>2, <1>5, <2>1 DEF Host
<1>8. Port(pieces) = <<pieces[k + 2]>>
  <2>1. (k + 1) + 1 = k + 2 /\ k + 2 \in 1..Len(pieces) /\ k + 2 \in 0..Len(pieces)
        /\ (k + 2) - 1 <= k + 2
    BY <1>1
  <2>2. Port(pieces) = SubSeq(pieces, k + 2, k + 2)
    BY <1>1, <1>2, <1>5, <2>1 DEF Port
  <2> QED
    BY <2>1, <2>2, Cut
<1> QED
  BY <1>6, <1>7, <1>8

\* An address in brackets ends at the first bracket that closes.
LEMMA BoxedSplit ==
    ASSUME NEW pieces \in Seq(Pieces), NEW k, Boxed(pieces, k)
    PROVE  /\ HasPort(pieces) /\ Host(pieces) = SubSeq(pieces, 2, k + 1)
           /\ Port(pieces) = <<pieces[k + 4]>>
<1>1. /\ k \in Nat \ {0} /\ Len(pieces) = k + 4
      /\ pieces[1].mark = "[" /\ pieces[k + 2].mark = "]" /\ pieces[k + 3].mark = ":"
      /\ \A i \in 2..(k + 1) : pieces[i].mark # "]"
  BY DEF Boxed
<1>2. Bracketed(pieces)
  <2>1. pieces # <<>>
    BY <1>1
  <2> QED
    BY <1>1, <2>1 DEF Bracketed
<1> DEFINE ends == Positions(pieces, "]")
<1>3. k + 2 \in ends /\ \A i \in ends : i \in Nat /\ k + 2 <= i
  <2>1. k + 2 \in DOMAIN pieces
    BY <1>1
  <2>2. \A i \in ends : i \in 1..(k + 4) /\ i # 1 /\ i \notin 2..(k + 1)
    BY <1>1 DEF Positions
  <2>3. \A i \in ends : i \in Nat /\ k + 2 <= i
    BY <1>1, <2>2
  <2> QED
    BY <1>1, <2>1, <2>3 DEF Positions
<1>4. Min(ends) = k + 2
  <2> HIDE DEF ends
  <2>1. \A x \in ends : (\A y \in ends : x <= y) => x = k + 2
    BY <1>1, <1>3
  <2> QED
    BY <1>3, <2>1 DEF Min
<1>5. HostEnd(pieces) = k + 2
  BY <1>2, <1>4 DEF HostEnd
<1>6. HasPort(pieces)
  <2>1. k + 2 < k + 4 /\ (k + 2) + 1 = k + 3
    BY <1>1
  <2> QED
    BY <1>1, <1>2, <1>3, <1>5, <2>1 DEF HasPort
<1>7. Host(pieces) = SubSeq(pieces, 2, k + 1)
  <2>1. (k + 2) - 1 = k + 1
    BY <1>1
  <2> QED
    BY <1>2, <1>5, <2>1 DEF Host
<1>8. Port(pieces) = <<pieces[k + 4]>>
  <2>1. (k + 2) + 2 = k + 4 /\ k + 4 \in 1..Len(pieces) /\ k + 4 \in 0..Len(pieces)
        /\ (k + 4) - 1 <= k + 4
    BY <1>1
  <2>2. Port(pieces) = SubSeq(pieces, k + 4, k + 4)
    BY <1>1, <1>2, <1>5, <2>1 DEF Port
  <2> QED
    BY <2>1, <2>2, Cut
<1> QED
  BY <1>6, <1>7, <1>8

\* Nothing is cut out behind the end of a cut.
LEMMA CutNone ==
    ASSUME NEW S, NEW p \in Seq(S), NEW i \in 1..(Len(p) + 1)
    PROVE  SubSeq(p, i, i - 1) = <<>>
<1>1. PICK a : a = SubSeq(p, i, i - 1)
  OBVIOUS
<1>2. a \in Seq(S) /\ Len(a) = 0
  BY <1>1
<1> QED
  BY <1>1, <1>2

\* What HasPort finds, with a host and a port, is an address of one of the forms.
LEMMA Split ==
    ASSUME NEW pieces \in Seq(Pieces), HasPort(pieces), IsPort(Port(pieces)),
           Host(pieces) # <<>>
    PROVE  \E k : Plain(pieces, k) \/ Boxed(pieces, k)
<1>1. PICK n \in Nat : n = Len(pieces)
  OBVIOUS
<1>2. DOMAIN pieces = 1..n /\ Len(Port(pieces)) = 1
  BY <1>1 DEF IsPort
<1>3. CASE ~Bracketed(pieces)
  <2>1. PICK colons : colons = Positions(pieces, ":")
    OBVIOUS
  <2>2. colons # {} /\ \A i \in colons : i \in 1..n /\ pieces[i].mark = ":"
    BY <1>2, <1>3, <2>1 DEF HasPort, Positions
  <2>3. PICK e \in colons : e = Max(colons)
    <3>1. colons \subseteq 0..n
      BY <2>2
    <3> QED
      BY <2>2, <3>1, MaxOfBounded
  <2>4. HostEnd(pieces) = e /\ e \in 1..n /\ pieces[e].mark = ":"
    BY <1>3, <2>1, <2>2, <2>3 DEF HostEnd
  <2>5. Host(pieces) = SubSeq(pieces, 1, e - 1) /\ Port(pieces) = SubSeq(pieces, e + 1, n)
    BY <1>1, <1>3, <2>4 DEF Host, Port
  <2>6. e # 1
    <3> SUFFICES ASSUME e = 1 PROVE FALSE
      OBVIOUS
    <3>1. SubSeq(pieces, 1, 1 - 1) = <<>>
      <4>1. 1 \in 1..(Len(pieces) + 1)
        BY <1>1
      <4> QED
        BY <4>1, CutNone
    <3> QED
      BY <2>5, <3>1
  <2>7. e # n
    <3> SUFFICES ASSUME e = n PROVE FALSE
      OBVIOUS
    <3>1. SubSeq(pieces, n + 1, (n + 1) - 1) = <<>>
      <4>1. n + 1 \in 1..(Len(pieces) + 1)
        BY <1>1
      <4> QED
        BY <4>1, CutNone
    <3>2. Port(pieces) = <<>>
      <4>1. (n + 1) - 1 = n
        OBVIOUS
      <4> QED
        BY <2>5, <3>1, <4>1
    <3> QED
      BY <1>2, <3>2
  <2>8. e + 1 \in 1..Len(pieces) /\ n \in 0..Len(pieces) /\ (e + 1) - 1 <= n
    BY <1>1, <2>4, <2>7
  <2>9. n = e + 1
    <3>1. Len(SubSeq(pieces, e + 1, n)) = n - (e + 1) + 1
      BY <2>8, Cut
    <3> QED
      BY <1>2, <2>4, <2>5, <3>1
  <2>10. Port(pieces) = <<pieces[e + 1]>>
    BY <2>5, <2>8, <2>9, Cut
  <2>11. PICK k \in Nat \ {0} : e = k + 1
    <3>1. e - 1 \in Nat \ {0} /\ e = (e - 1) + 1
      BY <2>4, <2>6
    <3> QED
      BY <3>1
  <2>12. pieces[1].mark # "["
    <3>1. pieces # <<>>
      BY <1>2, <2>4
    <3> QED
      BY <1>3, <3>1 DEF Bracketed
  <2>13. e + 1 = k + 2 /\ Len(pieces) = k + 2
    BY <1>1, <2>9, <2>11
  <2>14. Plain(pieces, k)
    BY <2>4, <2>10, <2>11, <2>12, <2>13 DEF Plain
  <2> QED
    BY <2>14
<1>4. CASE Bracketed(pieces)
  <2>1. PICK ends : ends = Positions(pieces, "]")
    OBVIOUS
  <2>2. ends # {} /\ \A i \in ends : i \in 1..n /\ pieces[i].mark = "]"
    BY <1>2, <1>4, <2>1 DEF HasPort, Positions
  <2>3. PICK e \in ends : e = Min(ends) /\ \A y \in ends : e <= y
    <3>1. ends \subseteq Nat
      BY <2>2
    <3>2. \E x \in ends : \A y \in ends : x <= y
      BY <2>2, <3>1, NatMin
    <3> QED
      BY <3>2 DEF Min
  <2>4. HostEnd(pieces) = e /\ e \in 1..n /\ pieces[e].mark = "]"
    BY <1>4, <2>1, <2>2, <2>3 DEF HostEnd
  <2>5. e < n /\ pieces[e + 1].mark = ":" /\ pieces[1].mark = "["
    BY <1>1, <1>4, <2>4 DEF HasPort, Bracketed
  <2>6. Host(pieces) = SubSeq(pieces, 2, e - 1) /\ Port(pieces) = SubSeq(pieces, e + 2, n)
    BY <1>1, <1>4, <2>4 DEF Host, Port
  <2>7. e # 1
    BY <2>4, <2>5
  <2>8. e # 2
    <3> SUFFICES ASSUME e = 2 PROVE FALSE
      OBVIOUS
    <3>1. SubSeq(pieces, 2, 2 - 1) = <<>>
      <4>1. 2 \in 1..(Len(pieces) + 1)
        BY <1>1, <2>4
      <4> QED
        BY <4>1, CutNone
    <3> QED
      BY <2>6, <3>1
  <2>9. e + 1 # n
    <3> SUFFICES ASSUME e + 1 = n PROVE FALSE
      OBVIOUS
    <3>1. SubSeq(pieces, n + 1, (n + 1) - 1) = <<>>
      <4>1. n + 1 \in 1..(Len(pieces) + 1)
        BY <1>1
      <4> QED
        BY <4>1, CutNone
    <3>2. Port(pieces) = <<>>
      <4>1. (n + 1) - 1 = n /\ e + 2 = n + 1
        BY <2>4
      <4> QED
        BY <2>6, <3>1, <4>1
    <3> QED
      BY <1>2, <3>2
  <2>10. e + 2 \in 1..Len(pieces) /\ n \in 0..Len(pieces) /\ (e + 2) - 1 <= n
    BY <1>1, <2>4, <2>5, <2>9
  <2>11. n = e + 2
    <3>1. Len(SubSeq(pieces, e + 2, n)) = n - (e + 2) + 1
      BY <2>10, Cut
    <3> QED
      BY <1>2, <2>4, <2>6, <3>1
  <2>12. Port(pieces) = <<pieces[e + 2]>>
    BY <2>6, <2>10, <2>11, Cut
  <2>13. PICK k \in Nat \ {0} : e = k + 2
    <3>1. e - 2 \in Nat \ {0} /\ e = (e - 2) + 2
      BY <2>4, <2>7, <2>8
    <3> QED
      BY <3>1
  <2>14. ASSUME NEW i \in 2..(k + 1) PROVE pieces[i].mark # "]"
    <3>1. i \in 1..n /\ ~(e <= i)
      BY <2>4, <2>13
    <3>2. i \notin ends
      BY <2>3, <3>1
    <3> QED
      BY <1>2, <2>1, <3>1, <3>2 DEF Positions
  <2>15. e + 1 = k + 3 /\ e + 2 = k + 4 /\ Len(pieces) = k + 4
    BY <1>1, <2>11, <2>13
  <2>16. Boxed(pieces, k)
    BY <2>4, <2>5, <2>12, <2>13, <2>14, <2>15 DEF Boxed
  <2> QED
    BY <2>16
<1> QED
  BY <1>3, <1>4

\* What stands where in an address put together, without brackets and with them.
LEMMA PlainJoined ==
    ASSUME NEW S, NEW h \in Seq(S), NEW c \in S, NEW x \in S
    PROVE  /\ h \o <<c>> \o <<x>> \in Seq(S) /\ Len(h \o <<c>> \o <<x>>) = Len(h) + 2
           /\ \A i \in 1..Len(h) : (h \o <<c>> \o <<x>>)[i] = h[i]
           /\ (h \o <<c>> \o <<x>>)[Len(h) + 1] = c /\ (h \o <<c>> \o <<x>>)[Len(h) + 2] = x
<1>1. PICK a : a = h \o <<c>>
  OBVIOUS
<1>2. <<c>> \in Seq(S) /\ <<x>> \in Seq(S) /\ Len(<<c>>) = 1 /\ Len(<<x>>) = 1
      /\ <<c>>[1] = c /\ <<x>>[1] = x
  OBVIOUS
<1>3. PICK k \in Nat : k = Len(h)
  OBVIOUS
<1>4. /\ a \in Seq(S) /\ Len(a) = Len(h) + Len(<<c>>)
      /\ \A i \in 1..Len(h) : a[i] = h[i]
      /\ \A i \in 1..Len(<<c>>) : a[Len(h) + i] = <<c>>[i]
  BY <1>1, <1>2, ConcatAt
<1>5. a \in Seq(S) /\ Len(a) = k + 1 /\ a[k + 1] = c /\ \A i \in 1..k : a[i] = h[i]
  <2>1. 1 \in 1..1
    OBVIOUS
  <2> QED
    BY <1>2, <1>3, <1>4, <2>1
<1>6. PICK r : r = a \o <<x>>
  OBVIOUS
<1>7. /\ r \in Seq(S) /\ Len(r) = Len(a) + Len(<<x>>)
      /\ \A i \in 1..Len(a) : r[i] = a[i]
      /\ \A i \in 1..Len(<<x>>) : r[Len(a) + i] = <<x>>[i]
  BY <1>2, <1>5, <1>6, ConcatAt
<1>8. /\ r \in Seq(S) /\ Len(r) = k + 2 /\ r[k + 2] = x /\ \A i \in 1..(k + 1) : r[i] = a[i]
  <2>1. 1 \in 1..1 /\ (k + 1) + 1 = k + 2
    OBVIOUS
  <2> QED
    <3>1. Len(a) = k + 1
      BY ONLY <1>5
    <3>2. Len(<<x>>) = 1 /\ <<x>>[1] = x
      OBVIOUS
    <3>3. r \in Seq(S) /\ Len(r) = k + 2 /\ \A i \in 1..(k + 1) : r[i] = a[i]
      BY ONLY <1>7, <2>1, <3>1, <3>2
    <3>4. r[Len(a) + 1] = x
      BY ONLY <1>7, <2>1, <3>2
    <3>5. r[k + 2] = x
      BY ONLY <2>1, <3>1, <3>4
    <3> QED
      BY ONLY <3>3, <3>5
<1>9. \A i \in 1..k : r[i] = h[i]
  <2>1. \A i \in 1..k : i \in 1..(k + 1)
    OBVIOUS
  <2> QED
    BY <1>5, <1>8, <2>1
<1>10. r[k + 1] = c
  <2>1. k + 1 \in 1..(k + 1)
    OBVIOUS
  <2> QED
    BY <1>5, <1>8, <2>1
<1> QED
  BY <1>1, <1>3, <1>6, <1>8, <1>9, <1>10

\* What stands where when a character is put before a text and two after it.
LEMMA BoxedJoined ==
    ASSUME NEW S, NEW h \in Seq(S), NEW a \in S, NEW b \in S, NEW c \in S, NEW x \in S,
           NEW r, r = <<a>> \o h \o <<b, c>> \o <<x>>
    PROVE  /\ r \in Seq(S) /\ Len(r) = Len(h) + 4 /\ r[1] = a
           /\ \A i \in 1..Len(h) : r[i + 1] = h[i]
           /\ r[Len(h) + 2] = b /\ r[Len(h) + 3] = c /\ r[Len(h) + 4] = x
<1>1. PICK k \in Nat : k = Len(h)
  OBVIOUS
<1>2. PICK p : p = <<a>> \o h
  OBVIOUS
<1>3. p \in Seq(S) /\ Len(p) = k + 1 /\ p[1] = a /\ \A i \in 1..k : p[i + 1] = h[i]
  <2>1. <<a>> \in Seq(S) /\ Len(<<a>>) = 1 /\ <<a>>[1] = a /\ 1 \in 1..1
    OBVIOUS
  <2>2. /\ p \in Seq(S) /\ Len(p) = Len(<<a>>) + Len(h)
        /\ \A i \in 1..Len(<<a>>) : p[i] = <<a>>[i]
        /\ \A i \in 1..Len(h) : p[Len(<<a>>) + i] = h[i]
    BY <1>2, <2>1, ConcatAt
  <2>3. \A i \in 1..k : 1 + i = i + 1
    OBVIOUS
  <2>4. 1 + k = k + 1
    OBVIOUS
  <2> QED
    BY <1>1, <2>1, <2>2, <2>3, <2>4
<1>4. PICK q : q = p \o <<b, c>>
  OBVIOUS
<1>5. /\ q \in Seq(S) /\ Len(q) = k + 3 /\ q[k + 2] = b /\ q[k + 3] = c
      /\ \A i \in 1..(k + 1) : q[i] = p[i]
  <2>0. PICK d : d = <<b, c>>
    OBVIOUS
  <2>1. d \in Seq(S) /\ Len(d) = 2 /\ d[1] = b /\ d[2] = c /\ 1 \in 1..2 /\ 2 \in 1..2
    BY <2>0
  <2>2. /\ q \in Seq(S) /\ Len(q) = Len(p) + Len(d)
        /\ \A i \in 1..Len(p) : q[i] = p[i]
        /\ \A i \in 1..Len(d) : q[Len(p) + i] = d[i]
    <3>1. p \in Seq(S) /\ d \in Seq(S) /\ q = p \o d
      BY <1>3, <1>4, <2>0, <2>1
    <3> QED
      BY ONLY <3>1, ConcatAt
  <2>3. (k + 1) + 1 = k + 2 /\ (k + 1) + 2 = k + 3
    OBVIOUS
  <2>4. Len(p) = k + 1
    BY ONLY <1>3
  <2>5. q \in Seq(S) /\ Len(q) = k + 3 /\ \A i \in 1..(k + 1) : q[i] = p[i]
    BY ONLY <2>1, <2>2, <2>3, <2>4
  <2>6. q[k + 2] = b /\ q[k + 3] = c
    <3>1. q[Len(p) + 1] = d[1] /\ q[Len(p) + 2] = d[2]
      BY ONLY <2>1, <2>2
    <3> QED
      BY ONLY <2>1, <2>3, <2>4, <3>1
  <2> QED
    BY ONLY <2>5, <2>6
<1>6. r = q \o <<x>>
  BY <1>2, <1>4
<1>7. r \in Seq(S) /\ Len(r) = k + 4 /\ r[k + 4] = x /\ \A i \in 1..(k + 3) : r[i] = q[i]
  <2>1. <<x>> \in Seq(S) /\ Len(<<x>>) = 1 /\ <<x>>[1] = x /\ 1 \in 1..1
    OBVIOUS
  <2>2. /\ r \in Seq(S) /\ Len(r) = Len(q) + Len(<<x>>)
        /\ \A i \in 1..Len(q) : r[i] = q[i]
        /\ \A i \in 1..Len(<<x>>) : r[Len(q) + i] = <<x>>[i]
    BY <1>5, <1>6, <2>1, ConcatAt
  <2>3. (k + 3) + 1 = k + 4
    OBVIOUS
  <2>4. Len(q) = k + 3
    BY ONLY <1>5
  <2>5. r \in Seq(S) /\ Len(r) = k + 4 /\ \A i \in 1..(k + 3) : r[i] = q[i]
    BY ONLY <2>1, <2>2, <2>3, <2>4
  <2>6. r[k + 4] = x
    <3>1. r[Len(q) + 1] = <<x>>[1]
      BY ONLY <2>1, <2>2
    <3> QED
      BY ONLY <2>1, <2>3, <2>4, <3>1
  <2> QED
    BY ONLY <2>5, <2>6
<1>8. r[1] = a /\ \A i \in 1..k : r[i + 1] = h[i]
  <2>1. \A i \in 1..(k + 1) : i \in 1..(k + 3)
    OBVIOUS
  <2>2. \A i \in 1..k : i + 1 \in 1..(k + 1)
    OBVIOUS
  <2>3. 1 \in 1..(k + 1)
    OBVIOUS
  <2>4. \A i \in 1..(k + 1) : r[i] = p[i]
    BY ONLY <1>5, <1>7, <2>1
  <2>5. r[1] = a
    BY ONLY <1>3, <2>3, <2>4
  <2>6. \A i \in 1..k : r[i + 1] = h[i]
    BY ONLY <1>3, <2>2, <2>4
  <2> QED
    BY ONLY <2>5, <2>6
<1>9. r[k + 2] = b /\ r[k + 3] = c
  <2>1. k + 2 \in 1..(k + 3) /\ k + 3 \in 1..(k + 3)
    OBVIOUS
  <2> QED
    BY <1>5, <1>7, <2>1
<1> QED
  BY <1>1, <1>7, <1>8, <1>9

\* What a meaning takes an address to be is what the code takes out of it.
LEMMA MeaningSplit ==
    ASSUME NEW pieces \in Seq(Pieces), NEW m \in Meanings(pieces)
    PROVE  /\ HasPort(pieces) /\ IsPort(Port(pieces)) /\ Host(pieces) # <<>>
           /\ m = <<Host(pieces), Port(pieces)>>
<1>1. PICK n \in Nat : n = Len(pieces)
  OBVIOUS
<1>2. PICK i \in 1..n, j \in 1..n, z \in 1..n :
          /\ m = <<SubSeq(pieces, i, j), <<pieces[z]>> >> /\ i <= j
          /\ IsPort(m[2])
          /\ \/ pieces = m[1] \o <<Colon>> \o m[2] /\ m[1][1].mark # "["
             \/ /\ \A y \in DOMAIN m[1] : m[1][y].mark # "]"
                /\ pieces = <<Bracket("[")>> \o m[1] \o <<Bracket("]"), Colon>> \o m[2]
  <2> DEFINE hosts == UNION {{SubSeq(pieces, i, j) : j \in i..n} : i \in 1..n}
             ports == {<<pieces[i]>> : i \in DOMAIN pieces}
             Says(t) == /\ IsPort(t[2])
                        /\ \/ pieces = t[1] \o <<Colon>> \o t[2] /\ t[1][1].mark # "["
                           \/ /\ \A y \in DOMAIN t[1] : t[1][y].mark # "]"
                              /\ pieces = <<Bracket("[")>> \o t[1] \o <<Bracket("]"), Colon>> \o t[2]
  <2>1. Meanings(pieces) = {t \in hosts \X ports : Says(t)}
    BY <1>1 DEF Meanings
  <2>2. m \in hosts \X ports /\ Says(m)
    <3> HIDE DEF hosts, ports, Says
    <3> QED
      BY <2>1
  <2>3. PICK g \in hosts, q \in ports : m = <<g, q>>
    <3> HIDE DEF hosts, ports, Says
    <3> QED
      BY <2>2
  <2>4. \E i \in 1..n : \E j \in i..n : g = SubSeq(pieces, i, j)
    OBVIOUS
  <2>5. \E z \in 1..n : q = <<pieces[z]>>
    BY <1>1
  <2> HIDE DEF hosts, ports, Says
  <2>6. PICK i \in 1..n, j \in 1..n : g = SubSeq(pieces, i, j) /\ i <= j
    <3>1. PICK i \in 1..n : \E j \in i..n : g = SubSeq(pieces, i, j)
      BY <2>4
    <3>2. PICK j \in i..n : g = SubSeq(pieces, i, j)
      BY <3>1
    <3>3. j \in 1..n /\ i <= j
      BY <1>1
    <3> QED
      BY <3>2, <3>3
  <2>7. PICK z \in 1..n : q = <<pieces[z]>>
    BY <2>5
  <2>8. m = <<SubSeq(pieces, i, j), <<pieces[z]>> >>
    BY <2>3, <2>6, <2>7
  <2> USE DEF Says
  <2> QED
    BY <2>2, <2>6, <2>8
<1>3. PICK h, x : h = SubSeq(pieces, i, j) /\ x = pieces[z]
  OBVIOUS
<1>4. h \in Seq(Pieces) /\ h # <<>> /\ x \in Pieces /\ m = <<h, <<x>> >> /\ IsPort(<<x>>)
  <2>1. h \in Seq(Pieces) /\ x \in Pieces
    BY <1>1, <1>3
  <2>2. h # <<>>
    <3>1. i \in 1..Len(pieces) /\ j \in 0..Len(pieces) /\ i - 1 <= j /\ j - i + 1 >= 1
      BY <1>1, <1>2
    <3>2. Len(h) = j - i + 1
      BY <1>3, <3>1, Cut
    <3> QED
      BY <3>1, <3>2
  <2> QED
    BY <1>2, <1>3, <2>1, <2>2
<1>5. PICK k \in Nat \ {0} : k = Len(h)
  <2>1. Len(h) \in Nat /\ Len(h) # 0
    BY <1>4
  <2> QED
    BY <2>1
<1>6. Colon \in Pieces /\ Bracket("[") \in Pieces /\ Bracket("]") \in Pieces
      /\ Colon.mark = ":" /\ Bracket("[").mark = "[" /\ Bracket("]").mark = "]"
  BY <1>4, MarkIs
<1>7. m[1] = h /\ m[2] = <<x>>
  BY <1>4
<1>8. CASE pieces = h \o <<Colon>> \o <<x>> /\ h[1].mark # "["
  <2>1. /\ Len(pieces) = k + 2 /\ pieces[k + 1] = Colon /\ pieces[k + 2] = x
        /\ \A y \in 1..k : pieces[y] = h[y]
    BY <1>4, <1>5, <1>6, <1>8, PlainJoined
  <2>2. Plain(pieces, k)
    <3>1. pieces[1] = h[1]
      BY <2>1
    <3> QED
      BY <1>4, <1>6, <1>8, <2>1, <3>1 DEF Plain
  <2>3. PICK s : s = SubSeq(pieces, 1, k)
    OBVIOUS
  <2>4. s = h
    <3>1. 1 \in 1..Len(pieces) /\ k \in 0..Len(pieces) /\ 1 - 1 <= k
      BY <2>1
    <3>2. /\ s \in Seq(Pieces) /\ Len(s) = k - 1 + 1
          /\ \A y \in 1..(k - 1 + 1) : s[y] = pieces[1 + y - 1]
      BY <2>3, <3>1, Cut
    <3>3. k - 1 + 1 = k /\ \A y \in 1..k : 1 + y - 1 = y
      OBVIOUS
    <3>4. Len(s) = k /\ \A y \in 1..k : s[y] = h[y]
      BY <2>1, <3>2, <3>3
    <3> QED
      BY <1>4, <1>5, <3>2, <3>4
  <2>5. HasPort(pieces) /\ Host(pieces) = h /\ Port(pieces) = <<x>>
    BY <2>1, <2>2, <2>3, <2>4, PlainSplit
  <2> QED
    BY <1>4, <2>5
<1>9. CASE /\ \A y \in DOMAIN h : h[y].mark # "]"
           /\ pieces = <<Bracket("[")>> \o h \o <<Bracket("]"), Colon>> \o <<x>>
  <2>1. /\ Len(pieces) = k + 4 /\ pieces[1] = Bracket("[") /\ pieces[k + 2] = Bracket("]")
        /\ pieces[k + 3] = Colon /\ pieces[k + 4] = x
        /\ \A y \in 1..k : pieces[y + 1] = h[y]
    BY <1>4, <1>5, <1>6, <1>9, BoxedJoined
  <2>2. Boxed(pieces, k)
    <3>1. ASSUME NEW y \in 2..(k + 1) PROVE pieces[y].mark # "]"
      <4>1. PICK at \in 1..k : at + 1 = y
        <5>1. y - 1 \in 1..k /\ (y - 1) + 1 = y
          BY ONLY k \in Nat, y \in 2..(k + 1)
        <5> QED
          BY ONLY <5>1
      <4>2. pieces[at + 1] = h[at]
        BY ONLY <2>1, at \in 1..k
      <4>3. at \in DOMAIN h
        BY <1>4, <1>5
      <4> QED
        BY ONLY <1>9, <4>1, <4>2, <4>3
    <3> QED
      BY <1>4, <1>6, <2>1, <3>1 DEF Boxed
  <2>3. PICK s : s = SubSeq(pieces, 2, k + 1)
    OBVIOUS
  <2>4. s = h
    <3>1. 2 \in 1..Len(pieces) /\ k + 1 \in 0..Len(pieces) /\ 2 - 1 <= k + 1
      BY <2>1
    <3>2. /\ s \in Seq(Pieces) /\ Len(s) = (k + 1) - 2 + 1
          /\ \A y \in 1..((k + 1) - 2 + 1) : s[y] = pieces[2 + y - 1]
      BY <2>3, <3>1, Cut
    <3>3. (k + 1) - 2 + 1 = k /\ \A y \in 1..k : 2 + y - 1 = y + 1
      OBVIOUS
    <3>4. Len(s) = k /\ \A y \in 1..k : s[y] = h[y]
      BY <2>1, <3>2, <3>3
    <3> QED
      BY <1>4, <1>5, <3>2, <3>4
  <2>5. HasPort(pieces) /\ Host(pieces) = h /\ Port(pieces) = <<x>>
    BY <2>1, <2>2, <2>3, <2>4, BoxedSplit
  <2> QED
    BY <1>4, <2>5
<1> QED
  BY <1>2, <1>7, <1>8, <1>9

\* Two sequences that agree everywhere are one.
LEMMA SameElements ==
    ASSUME NEW S, NEW p \in Seq(S), NEW q \in Seq(S), Len(p) = Len(q),
           \A i \in 1..Len(q) : p[i] = q[i]
    PROVE  p = q
  OBVIOUS

\* What the code takes an address to be is a meaning of it.
LEMMA SplitMeaning ==
    ASSUME NEW pieces \in Seq(Pieces), NEW k, Plain(pieces, k) \/ Boxed(pieces, k)
    PROVE  <<Host(pieces), Port(pieces)>> \in Meanings(pieces)
<1>1. PICK n \in Nat : n = Len(pieces)
  OBVIOUS
<1> DEFINE hosts == UNION {{SubSeq(pieces, i, j) : j \in i..n} : i \in 1..n}
           ports == {<<pieces[i]>> : i \in DOMAIN pieces}
           Says(t) == /\ IsPort(t[2])
                      /\ \/ pieces = t[1] \o <<Colon>> \o t[2] /\ t[1][1].mark # "["
                         \/ /\ \A y \in DOMAIN t[1] : t[1][y].mark # "]"
                            /\ pieces = <<Bracket("[")>> \o t[1] \o <<Bracket("]"), Colon>> \o t[2]
<1>2. Meanings(pieces) = {t \in hosts \X ports : Says(t)}
  BY <1>1 DEF Meanings
<1>3. ASSUME NEW i \in 1..n, NEW j \in i..n PROVE SubSeq(pieces, i, j) \in hosts
  <2>1. PICK h : h = SubSeq(pieces, i, j)
    OBVIOUS
  <2>2. PICK H : H = {SubSeq(pieces, i, y) : y \in i..n}
    OBVIOUS
  <2>3. h \in H
    BY ONLY <2>1, <2>2, j \in i..n
  <2>4. H \in {{SubSeq(pieces, x, y) : y \in x..n} : x \in 1..n}
    BY ONLY <2>2, i \in 1..n
  <2> QED
    BY ONLY <2>1, <2>3, <2>4 DEF hosts
<1>4. ASSUME NEW i \in 1..n PROVE <<pieces[i]>> \in ports
  BY <1>1
<1>5. \A i \in 1..n : pieces[i] \in Pieces
  BY <1>1
<1> HIDE DEF hosts, ports, Says
<1>6. CASE Plain(pieces, k)
  <2>1. k \in Nat \ {0} /\ n = k + 2
    BY <1>1, <1>6 DEF Plain
  <2>2. PICK h, x : h = SubSeq(pieces, 1, k) /\ x = pieces[k + 2]
    OBVIOUS
  <2>3. 1 \in 1..n /\ k \in 1..n /\ k + 1 \in 1..n /\ k + 2 \in 1..n
    BY <2>1
  <2>4. h \in hosts /\ <<x>> \in ports
    <3>1. k \in 1..n /\ 1 \in 1..n
      BY <2>3
    <3> QED
      BY <1>3, <1>4, <2>2, <2>3, <3>1
  <2>5. h \in Seq(Pieces) /\ Len(h) = k /\ \A y \in 1..k : h[y] = pieces[y]
    <3>1. 1 \in 1..Len(pieces) /\ k \in 0..Len(pieces) /\ 1 - 1 <= k
      BY <1>1, <2>1
    <3>2. /\ h \in Seq(Pieces) /\ Len(h) = k - 1 + 1
          /\ \A y \in 1..(k - 1 + 1) : h[y] = pieces[1 + y - 1]
      BY <2>2, <3>1, Cut
    <3>3. k - 1 + 1 = k /\ \A y \in 1..k : 1 + y - 1 = y
      BY <2>1
    <3> QED
      BY <3>2, <3>3
  <2>6. pieces[k + 1] = Colon /\ Colon \in Pieces /\ x \in Pieces /\ IsPort(<<x>>)
    <3>1. pieces[k + 1].mark = ":" /\ IsPort(<<x>>)
      BY <1>6, <2>2 DEF Plain
    <3> QED
      BY <1>5, <2>2, <2>3, <3>1, MarkIs
  <2>7. PICK r : r = h \o <<Colon>> \o <<x>>
    OBVIOUS
  <2>8. /\ r \in Seq(Pieces) /\ Len(r) = k + 2 /\ \A y \in 1..k : r[y] = h[y]
        /\ r[k + 1] = Colon /\ r[k + 2] = x
    <3>1. h \in Seq(Pieces) /\ Colon \in Pieces /\ x \in Pieces /\ Len(h) = k
      BY <2>5, <2>6
    <3> QED
      BY ONLY <2>7, <3>1, PlainJoined
  <2>9. r = pieces
    <3>1. ASSUME NEW y \in 1..n PROVE r[y] = pieces[y]
      <4>1. y \in 1..k \/ y = k + 1 \/ y = k + 2
        BY <2>1
      <4> QED
        BY <2>2, <2>5, <2>6, <2>8, <4>1
    <3>2. /\ r \in Seq(Pieces) /\ pieces \in Seq(Pieces) /\ Len(r) = Len(pieces)
          /\ \A y \in 1..Len(pieces) : r[y] = pieces[y]
      BY <1>1, <2>1, <2>8, <3>1
    <3> QED
      BY ONLY <3>2, SameElements
  <2>10. h[1].mark # "["
    <3>1. h[1] = pieces[1]
      BY <2>1, <2>5
    <3> QED
      BY <1>6, <3>1 DEF Plain
  <2>11. PICK t : t = <<h, <<x>> >>
    OBVIOUS
  <2>12. t \in hosts \X ports /\ t[1] = h /\ t[2] = <<x>>
    BY <2>4, <2>11
  <2>13. Says(t)
    BY <2>6, <2>7, <2>9, <2>10, <2>12 DEF Says
  <2>14. t = <<Host(pieces), Port(pieces)>>
    BY <1>6, <2>2, <2>11, PlainSplit
  <2> QED
    BY <1>2, <2>12, <2>13, <2>14
<1>7. CASE Boxed(pieces, k)
  <2>1. k \in Nat \ {0} /\ n = k + 4
    BY <1>1, <1>7 DEF Boxed
  <2>2. PICK h, x : h = SubSeq(pieces, 2, k + 1) /\ x = pieces[k + 4]
    OBVIOUS
  <2>3. 1 \in 1..n /\ 2 \in 1..n /\ k + 1 \in 2..n /\ k + 2 \in 1..n /\ k + 3 \in 1..n /\ k + 4 \in 1..n
    BY <2>1
  <2>4. h \in hosts /\ <<x>> \in ports
    BY <1>3, <1>4, <2>2, <2>3
  <2>5. h \in Seq(Pieces) /\ Len(h) = k /\ \A y \in 1..k : h[y] = pieces[y + 1]
    <3>1. 2 \in 1..Len(pieces) /\ k + 1 \in 0..Len(pieces) /\ 2 - 1 <= k + 1
      BY <1>1, <2>1
    <3>2. /\ h \in Seq(Pieces) /\ Len(h) = (k + 1) - 2 + 1
          /\ \A y \in 1..((k + 1) - 2 + 1) : h[y] = pieces[2 + y - 1]
      BY <2>2, <3>1, Cut
    <3>3. (k + 1) - 2 + 1 = k /\ \A y \in 1..k : 2 + y - 1 = y + 1
      BY <2>1
    <3> QED
      BY <3>2, <3>3
  <2>6. /\ pieces[1] = Bracket("[") /\ pieces[k + 2] = Bracket("]") /\ pieces[k + 3] = Colon
        /\ Colon \in Pieces /\ Bracket("[") \in Pieces /\ Bracket("]") \in Pieces
        /\ x \in Pieces /\ IsPort(<<x>>)
    <3>1. /\ pieces[1].mark = "[" /\ pieces[k + 2].mark = "]" /\ pieces[k + 3].mark = ":"
          /\ IsPort(<<x>>)
      BY <1>7, <2>2 DEF Boxed
    <3> QED
      BY <1>5, <2>2, <2>3, <3>1, MarkIs
  <2>7. PICK r : r = <<Bracket("[")>> \o h \o <<Bracket("]"), Colon>> \o <<x>>
    OBVIOUS
  <2>8. /\ r \in Seq(Pieces) /\ Len(r) = k + 4 /\ r[1] = Bracket("[")
        /\ \A y \in 1..k : r[y + 1] = h[y]
        /\ r[k + 2] = Bracket("]") /\ r[k + 3] = Colon /\ r[k + 4] = x
    <3>1. /\ h \in Seq(Pieces) /\ Bracket("[") \in Pieces /\ Bracket("]") \in Pieces
          /\ Colon \in Pieces /\ x \in Pieces
      BY <2>5, <2>6
    <3>2. /\ r \in Seq(Pieces) /\ Len(r) = Len(h) + 4 /\ r[1] = Bracket("[")
          /\ \A y \in 1..Len(h) : r[y + 1] = h[y]
          /\ r[Len(h) + 2] = Bracket("]") /\ r[Len(h) + 3] = Colon /\ r[Len(h) + 4] = x
      BY ONLY <2>7, <3>1, BoxedJoined
    <3> QED
      BY <2>5, <3>2
  <2>9. r = pieces
    <3>1. ASSUME NEW y \in 1..n PROVE r[y] = pieces[y]
      <4>1. CASE y \in 2..(k + 1)
        <5>1. y - 1 \in 1..k /\ (y - 1) + 1 = y
          BY <2>1, <4>1
        <5> QED
          BY <2>5, <2>8, <5>1
      <4>2. CASE y \notin 2..(k + 1)
        <5>1. y = 1 \/ y = k + 2 \/ y = k + 3 \/ y = k + 4
          BY <2>1, <4>2
        <5> QED
          BY <2>2, <2>6, <2>8, <5>1
      <4> QED
        BY <4>1, <4>2
    <3>2. /\ r \in Seq(Pieces) /\ pieces \in Seq(Pieces) /\ Len(r) = Len(pieces)
          /\ \A y \in 1..Len(pieces) : r[y] = pieces[y]
      BY <1>1, <2>1, <2>8, <3>1
    <3> QED
      BY ONLY <3>2, SameElements
  <2>10. \A y \in DOMAIN h : h[y].mark # "]"
    <3>1. \A y \in 1..k : y + 1 \in 2..(k + 1)
      BY <2>1
    <3>2. \A y \in 2..(k + 1) : pieces[y].mark # "]"
      BY <1>7 DEF Boxed
    <3>3. DOMAIN h = 1..k
      BY <2>5
    <3> QED
      BY <2>5, <3>1, <3>2, <3>3
  <2>11. PICK t : t = <<h, <<x>> >>
    OBVIOUS
  <2>12. t \in hosts \X ports /\ t[1] = h /\ t[2] = <<x>>
    BY <2>4, <2>11
  <2>13. Says(t)
    BY <2>6, <2>7, <2>9, <2>10, <2>12 DEF Says
  <2>14. t = <<Host(pieces), Port(pieces)>>
    BY <1>7, <2>2, <2>11, BoxedSplit
  <2> QED
    BY <1>2, <2>12, <2>13, <2>14
<1> QED
  BY <1>6, <1>7

\* A URL is accepted if it has a host and a port of a length the code can keep,
\* and the host and the port it is taken to have are the only ones it has.
LEMMA UrlMeaning ==
    ASSUME NEW url \in Urls
    PROVE  /\ UrlAccepted(url) <=> HasMeaning(url)
           /\ UrlAccepted(url) =>
                  Meanings(url.authority) = {<<Host(url.authority), Port(url.authority)>>}
<1>1. PICK p \in Seq(Pieces) : p = url.authority
  BY DEF Urls
<1>2. url.path \in Nat
  BY DEF Urls
<1> DEFINE Splits == HasPort(p) /\ IsPort(Port(p)) /\ Host(p) # <<>>
<1>3. ASSUME Splits
      PROVE  /\ Meanings(p) = {<<Host(p), Port(p)>>} /\ Host(p) \in Seq(Pieces) /\ p # <<>>
  <2>1. PICK k : Plain(p, k) \/ Boxed(p, k)
    BY <1>3, Split
  <2>2. <<Host(p), Port(p)>> \in Meanings(p)
    BY <2>1, SplitMeaning
  <2>3. \A m \in Meanings(p) : m = <<Host(p), Port(p)>>
    BY MeaningSplit
  <2>4. Host(p) \in Seq(Pieces) /\ p # <<>>
    <3>1. CASE Plain(p, k)
      <4>1. k \in Nat \ {0} /\ Len(p) = k + 2
        BY <3>1 DEF Plain
      <4>2. 1 \in 1..Len(p) /\ k \in 0..Len(p) /\ 1 - 1 <= k
        BY <4>1
      <4>3. SubSeq(p, 1, k) \in Seq(Pieces)
        BY <4>2, Cut
      <4>4. p # <<>>
        BY <4>1
      <4>5. Host(p) = SubSeq(p, 1, k)
        BY <3>1, PlainSplit
      <4> QED
        BY <4>3, <4>4, <4>5
    <3>2. CASE Boxed(p, k)
      <4>1. k \in Nat \ {0} /\ Len(p) = k + 4
        BY <3>2 DEF Boxed
      <4>2. 2 \in 1..Len(p) /\ k + 1 \in 0..Len(p) /\ 2 - 1 <= k + 1
        BY <4>1
      <4>3. SubSeq(p, 2, k + 1) \in Seq(Pieces)
        BY <4>2, Cut
      <4>4. p # <<>>
        BY <4>1
      <4>5. Host(p) = SubSeq(p, 2, k + 1)
        BY <3>2, BoxedSplit
      <4> QED
        BY <4>3, <4>4, <4>5
    <3> QED
      BY <2>1, <3>1, <3>2
  <2> QED
    BY <2>2, <2>3, <2>4
<1>4. \A m \in Meanings(p) : Splits
  BY MeaningSplit
<1>5. ASSUME UrlAccepted(url) PROVE Splits /\ HasMeaning(url)
  <2>1. /\ url.ws /\ HasPort(p) /\ Length(Host(p)) \in 1..(HostMax - 1) /\ IsPort(Port(p))
        /\ url.path < PathMax
    BY <1>1, <1>5 DEF UrlAccepted
  <2>2. Host(p) # <<>>
    <3>1. <<>> \in Seq(Pieces)
      OBVIOUS
    <3>2. Length(<<>>) = 0
      BY <3>1, LengthTyped
    <3> QED
      BY <2>1, <3>2
  <2>3. Splits
    BY <2>1, <2>2
  <2>4. PICK m \in Meanings(p) : m = <<Host(p), Port(p)>>
    BY <1>3, <2>3
  <2>5. m[1] = Host(p) /\ Length(Host(p)) < HostMax
    <3>1. m[1] = Host(p)
      BY <2>4
    <3>2. Length(Host(p)) \in 1..255
      BY <2>1 DEF HostMax
    <3>3. PICK l \in 1..255 : l = Length(Host(p))
      BY <3>2
    <3>4. l < HostMax
      BY DEF HostMax
    <3> QED
      BY <3>1, <3>3, <3>4
  <2>6. HasMeaning(url)
    BY <1>1, <2>1, <2>4, <2>5 DEF HasMeaning
  <2> QED
    BY <2>3, <2>6
<1>6. ASSUME HasMeaning(url) PROVE UrlAccepted(url)
  <2>1. url.ws /\ url.path < PathMax
    BY <1>6 DEF HasMeaning
  <2>2. PICK m \in Meanings(p) : Length(m[1]) < HostMax
    BY <1>1, <1>6 DEF HasMeaning
  <2>3. Splits
    BY <1>4
  <2>4. m = <<Host(p), Port(p)>>
    BY MeaningSplit
  <2>5. Length(Host(p)) < HostMax
    BY <2>2, <2>4
  <2>6. Length(Host(p)) \in Nat /\ Length(Host(p)) >= 1
    BY <1>3, <2>3, LengthTyped
  <2>7. Length(Host(p)) \in 1..(HostMax - 1)
    <3>1. PICK l \in Nat : l = Length(Host(p))
      BY <2>6
    <3>2. l < HostMax /\ l >= 1
      BY <2>5, <2>6, <3>1
    <3>3. l \in 1..(HostMax - 1)
      BY <3>2 DEF HostMax
    <3> QED
      BY <3>1, <3>3
  <2>8. Length(p) + url.path > 0
    <3>1. Length(p) \in Nat /\ Length(p) >= 1
      BY <1>3, <2>3, LengthTyped
    <3> QED
      BY <1>2, <3>1
  <2> QED
    BY <1>1, <2>1, <2>3, <2>7, <2>8 DEF UrlAccepted
<1> QED
  BY <1>1, <1>3, <1>5, <1>6

-----------------------------------------------------------------------------
(* The --upstream options of a command line *)

Chosen(arg) == IF arg.opt = "upstream" THEN <<arg>> ELSE <<>>

\* The options are collected one by one.
LEMMA UrlsSteps ==
    ASSUME args \in Seq(Arguments)
    PROVE  /\ \A i \in 0..Len(args) : UrlsUpTo(i) \in Seq(Arguments)
           /\ UrlsUpTo(0) = <<>>
           /\ \A i \in 1..Len(args) : UrlsUpTo(i) = UrlsUpTo(i - 1) \o Chosen(args[i])
<1> DEFINE D == 0..Len(args)
           V == Seq(Arguments)
           Body(g) == [j \in D |-> IF j = 0 THEN <<>> ELSE g[j - 1] \o
                           (IF args[j].opt = "upstream" THEN <<args[j]>> ELSE <<>>)]
           urls == CHOOSE g : g = Body(g)
<1>1. \A i : UrlsUpTo(i) = urls[i]
  BY DEF UrlsUpTo
<1>2. Len(args) \in Nat /\ \A i \in D : i # 0 =>
          i \in 1..Len(args) /\ i - 1 \in D /\ i - 1 < i /\ args[i] \in Arguments
  OBVIOUS
<1>3. \A i \in D, q \in V : i # 0 =>
          q \o (IF args[i].opt = "upstream" THEN <<args[i]>> ELSE <<>>) \in V
  <2> SUFFICES ASSUME NEW i \in D, NEW q \in V, i # 0
               PROVE  q \o (IF args[i].opt = "upstream" THEN <<args[i]>> ELSE <<>>) \in V
    OBVIOUS
  <2>1. PICK c \in V : c = IF args[i].opt = "upstream" THEN <<args[i]>> ELSE <<>>
    <3>1. <<args[i]>> \in V /\ <<>> \in V
      BY <1>2
    <3> QED
      BY <3>1
  <2>2. q \o c \in V
    BY ConcatAt
  <2> QED
    BY <2>1, <2>2
<1>4. D \subseteq Nat /\ 0 \in D /\ <<>> \in V /\ \A i \in 1..Len(args) : i \in D /\ i # 0
  BY <1>2
<1> HIDE DEF D, V
<1>5. \E g \in [D -> V] : g = Body(g)
  <2> DEFINE rank == [i \in D |-> i]
             step == [g \in [D -> V] |-> Body(g)]
  <2>1. rank \in [D -> Nat] /\ step \in [[D -> V] -> [D -> V]]
    <3>1. ASSUME NEW g \in [D -> V] PROVE Body(g) \in [D -> V]
      BY <1>2, <1>3, <1>4
    <3> QED
      BY <1>4, <3>1
  <2>2. ASSUME NEW f \in [D -> V], NEW g \in [D -> V], NEW i \in D,
               \A j \in D : rank[j] < rank[i] => f[j] = g[j]
        PROVE  step[f][i] = step[g][i]
    <3>1. i # 0 => f[i - 1] = g[i - 1]
      BY <1>2, <2>2
    <3> QED
      BY <3>1
  <2>3. RankedStep(D, V, rank, step)
    <3> HIDE DEF rank, step
    <3> QED
      BY <2>1, <2>2 DEF RankedStep
  <2>4. PICK f \in [D -> V] : f = step[f]
    <3> HIDE DEF rank, step
    <3>1. V # {}
      BY <1>4
    <3> QED
      BY <2>3, <3>1, RankedRecursion
  <2> QED
    BY <2>4
<1>6. urls = Body(urls)
  BY <1>5
<1> HIDE DEF urls
<1>7. urls[0] = <<>> /\ \A i \in 1..Len(args) : urls[i] = urls[i - 1] \o Chosen(args[i])
  BY <1>4, <1>6 DEF Chosen
<1> DEFINE T == {i \in Nat : i \in D => urls[i] \in V}
<1>8. 0 \in T
  BY <1>4, <1>7
<1>9. ASSUME NEW i \in Nat, i \in T PROVE i + 1 \in T
  <2> SUFFICES ASSUME i + 1 \in D PROVE urls[i + 1] \in V
    OBVIOUS
  <2>1. i \in D
    BY <1>2
  <2>2. urls[i] \in V
    BY ONLY <1>9, <2>1 DEF T
  <2>3. i + 1 \in 1..Len(args) /\ i + 1 # 0 /\ (i + 1) - 1 = i
    BY <1>2
  <2>4. urls[i + 1] = urls[i] \o Chosen(args[i + 1])
    BY <1>7, <2>3
  <2> QED
    BY <1>3, <2>2, <2>3, <2>4 DEF Chosen
<1>10. \A i \in Nat : i \in T
  <2> HIDE DEF T
  <2> QED
    BY <1>8, <1>9, NatUp
<1>11. \A i \in D : urls[i] \in V
  BY <1>4, <1>10
<1> QED
  BY <1>1, <1>7, <1>11 DEF D, V

\* An option that is collected comes last, behind those collected before it.
LEMMA ChosenLast ==
    ASSUME NEW u \in Seq(Arguments), NEW arg \in Arguments
    PROVE  /\ arg.opt # "upstream" => u \o Chosen(arg) = u
           /\ arg.opt = "upstream" =>
                  /\ u \o Chosen(arg) \in Seq(Arguments) /\ Len(u \o Chosen(arg)) = Len(u) + 1
                  /\ \A j \in 1..Len(u) : (u \o Chosen(arg))[j] = u[j]
                  /\ (u \o Chosen(arg))[Len(u) + 1] = arg
<1>1. CASE arg.opt # "upstream"
  <2>1. PICK c : c = <<>>
    OBVIOUS
  <2>2. c \in Seq(Arguments) /\ Len(c) = 0 /\ c = Chosen(arg)
    BY <1>1, <2>1 DEF Chosen
  <2>3. /\ u \o c \in Seq(Arguments) /\ Len(u \o c) = Len(u) + Len(c)
        /\ \A i \in 1..Len(u) : (u \o c)[i] = u[i]
    BY <2>2, ConcatAt
  <2>4. Len(u \o c) = Len(u)
    <3>1. Len(u) \in Nat
      OBVIOUS
    <3> QED
      BY <2>2, <2>3, <3>1
  <2>5. u \o c = u
    BY <2>3, <2>4, SameElements
  <2> QED
    BY <1>1, <2>2, <2>5
<1>2. CASE arg.opt = "upstream"
  <2>1. PICK c : c = <<arg>>
    OBVIOUS
  <2>2. c \in Seq(Arguments) /\ Len(c) = 1 /\ c[1] = arg /\ c = Chosen(arg)
    BY <1>2, <2>1 DEF Chosen
  <2>3. /\ u \o c \in Seq(Arguments) /\ Len(u \o c) = Len(u) + Len(c)
        /\ \A i \in 1..Len(u) : (u \o c)[i] = u[i]
        /\ \A i \in 1..Len(c) : (u \o c)[Len(u) + i] = c[i]
    BY <2>2, ConcatAt
  <2>4. 1 \in 1..1
    OBVIOUS
  <2>5. Len(u \o c) = Len(u) + 1 /\ (u \o c)[Len(u) + 1] = arg
    BY <2>2, <2>3, <2>4
  <2> QED
    BY <1>2, <2>2, <2>3, <2>5
<1> QED
  BY <1>1, <1>2

\* The loop goes on with options that are accepted, and only with these.
LEMMA StepGoes ==
    ASSUME NEW r \in ResultType, NEW arg \in Arguments
    PROVE  /\ Step(r, arg).rc = "go" =>
                  r.rc = "go" /\ Accepted(arg) /\ Step(r, arg).conf = Set(r.conf, arg)
           /\ r.rc = "go" /\ Accepted(arg) =>
                  Step(r, arg).rc = "go" /\ Step(r, arg).conf = Set(r.conf, arg)
<1>1. CASE r.rc # "go"
  BY <1>1 DEF Step
<1>2. CASE r.rc = "go" /\ arg.opt = "help"
  <2>1. Step(r, arg).rc = "help"
    BY <1>2 DEF Step, ResultType
  <2>2. ~Accepted(arg)
    BY <1>2, AcceptedBy
  <2> QED
    BY <2>1, <2>2
<1>3. CASE r.rc = "go" /\ arg.opt # "help" /\ Accepted(arg)
  <2>1. Step(r, arg) = [r EXCEPT !.conf = Set(r.conf, arg)]
    BY <1>3 DEF Step
  <2>2. Step(r, arg).rc = "go" /\ Step(r, arg).conf = Set(r.conf, arg)
    BY <1>3, <2>1 DEF ResultType
  <2> QED
    BY <1>3, <2>2
<1>4. CASE r.rc = "go" /\ arg.opt # "help" /\ ~Accepted(arg)
  <2>1. Step(r, arg).rc = "error"
    BY <1>4 DEF Step, ResultType
  <2> QED
    BY <1>4, <2>1
<1> QED
  BY <1>1, <1>2, <1>3, <1>4

\* What an option does to the list of upstreams, and an upstream to the watermarks.
LEMMA UpstreamsSet ==
    ASSUME NEW c \in ConfType, NEW arg \in Arguments, Accepted(arg)
    PROVE  /\ arg.opt = "upstream" =>
                  /\ Set(c, arg).upstreams = Append(c.upstreams, Upstream(arg.val))
                  /\ Set(c, arg).lwm = c.lwm /\ Set(c, arg).hwm = c.hwm
           /\ arg.opt # "upstream" => Set(c, arg).upstreams = c.upstreams
<1> DEFINE d == Set(c, arg)
<1>1. c \in [ConfFields -> ConfValues] /\ ConfOk(c)
  BY DEF ConfType
<1>2. CASE arg.opt = "upstream"
  <2>1. PICK u : u = Append(c.upstreams, Upstream(arg.val))
    OBVIOUS
  <2>2. u \in ConfValues
    <3>1. Upstream(arg.val) \in Asked
      BY <1>2, ArgumentVal DEF Asked
    <3>2. c.upstreams \in Seq(Asked)
      BY <1>1 DEF ConfOk
    <3>3. u \in Seq(Asked)
      BY <2>1, <3>1, <3>2
    <3> QED
      BY <3>3 DEF ConfValues
  <2>3. d = [c EXCEPT !["upstreams"] = u]
    BY <1>2, <2>1, SetBy
  <2>4. "upstreams" \in ConfFields /\ "lwm" \in ConfFields /\ "hwm" \in ConfFields
    BY DEF ConfFields
  <2> HIDE DEF d
  <2>5. d["upstreams"] = u /\ \A g \in ConfFields : g # "upstreams" => d[g] = c[g]
    BY <1>1, <2>2, <2>3, <2>4, FieldSet
  <2>6. d.upstreams = u /\ d.lwm = c.lwm /\ d.hwm = c.hwm
    BY <2>4, <2>5
  <2> QED
    BY <1>2, <2>1, <2>6 DEF d
<1>3. CASE arg.opt # "upstream"
  <2>0. arg.opt \in {"sinkPath", "tickMs", "port", "workers", "listeners", "hwm", "lwm",
                     "maxFrame", "maxMessage"}
    BY <1>3, ArgumentVal, AcceptedBy
  <2>1. PICK v \in ConfValues : d = [c EXCEPT ![arg.opt] = v]
    <3>2. CASE arg.opt = "sinkPath"
      <4>1. arg.val.text \in ConfValues
        BY <3>2, ArgumentVal DEF ConfValues
      <4> QED
        BY <3>2, <4>1, SetBy
    <3>3. CASE arg.opt # "sinkPath"
      <4>1. Value(arg) \in ConfValues
        BY <2>0, <3>3, ValueBy
      <4>2. d = [c EXCEPT ![arg.opt] = Value(arg)]
        BY <1>3, <3>3, SetBy
      <4> QED
        BY <4>1, <4>2
    <3> QED
      BY <3>2, <3>3
  <2>2. arg.opt \in ConfFields /\ "upstreams" \in ConfFields
    BY <2>0 DEF ConfFields
  <2> HIDE DEF d
  <2>3. \A g \in ConfFields : g # arg.opt => d[g] = c[g]
    BY <1>1, <2>1, <2>2, FieldSet
  <2>4. d["upstreams"] = c["upstreams"]
    <3>1. "upstreams" # arg.opt
      BY <2>0
    <3> QED
      BY <2>2, <2>3, <3>1
  <2> QED
    BY <1>3, <2>4 DEF d
<1> QED
  BY <1>2, <1>3

\* The upstreams of a configuration are those of the options collected.
Collected(c, u) ==
    /\ Len(c.upstreams) = Len(u)
    /\ \A j \in 1..Len(u) : /\ u[j].opt = "upstream" /\ UrlAccepted(u[j].val)
                            /\ c.upstreams[j] = Upstream(u[j].val)

\* setOption() keeps this, one argument after the other.
LEMMA CollectedStep ==
    ASSUME NEW c \in ConfType, NEW u \in Seq(Arguments), Collected(c, u),
           NEW arg \in Arguments, Accepted(arg)
    PROVE  Collected(Set(c, arg), u \o Chosen(arg))
<1>1. PICK d : d = Set(c, arg)
  OBVIOUS
<1>2. CASE arg.opt # "upstream"
  <2>1. d.upstreams = c.upstreams /\ u \o Chosen(arg) = u
    BY <1>1, <1>2, UpstreamsSet, ChosenLast
  <2> QED
    BY <1>1, <2>1 DEF Collected
<1>3. CASE arg.opt = "upstream"
  <2>1. PICK n \in Nat : n = Len(u)
    OBVIOUS
  <2>2. PICK w : w = u \o Chosen(arg)
    OBVIOUS
  <2>3. Len(w) = n + 1 /\ w[n + 1] = arg /\ \A j \in 1..n : w[j] = u[j]
    BY <1>3, <2>1, <2>2, ChosenLast
  <2>4. PICK q \in Seq(Asked) : q = c.upstreams
    BY DEF ConfType, ConfOk
  <2>5. PICK a \in Asked : a = Upstream(arg.val)
    BY <1>3, ArgumentVal DEF Asked
  <2>6. d.upstreams = Append(q, a) /\ Len(q) = n
    BY <1>1, <1>3, <2>1, <2>4, <2>5, UpstreamsSet DEF Collected
  <2>7. /\ Len(d.upstreams) = n + 1 /\ d.upstreams[n + 1] = a
        /\ \A j \in 1..n : d.upstreams[j] = q[j]
    <3>1. PICK e : e = Append(q, a)
      OBVIOUS
    <3>2. Len(e) = n + 1 /\ e[n + 1] = a /\ \A j \in 1..n : e[j] = q[j]
      BY <2>6, <3>1
    <3> QED
      BY <2>6, <3>1, <3>2
  <2>8. UrlAccepted(arg.val)
    BY <1>3, AcceptedBy
  <2>9. ASSUME NEW j \in 1..(n + 1)
        PROVE  /\ w[j].opt = "upstream" /\ UrlAccepted(w[j].val)
               /\ d.upstreams[j] = Upstream(w[j].val)
    <3>1. CASE j = n + 1
      BY <1>3, <2>3, <2>5, <2>7, <2>8, <3>1
    <3>2. CASE j # n + 1
      <4>1. j \in 1..n
        BY <3>2
      <4>2. w[j] = u[j] /\ d.upstreams[j] = c.upstreams[j]
        BY <2>3, <2>4, <2>7, <4>1
      <4>3. /\ u[j].opt = "upstream" /\ UrlAccepted(u[j].val)
            /\ c.upstreams[j] = Upstream(u[j].val)
        BY <2>1, <4>1 DEF Collected
      <4> QED
        BY <4>2, <4>3
    <3> QED
      BY <3>1, <3>2
  <2> QED
    BY <1>1, <2>2, <2>3, <2>7, <2>9 DEF Collected
<1> QED
  BY <1>2, <1>3

\* As long as the loop goes on, every option collected has set its upstream.
LEMMA RunCollects ==
    ASSUME args \in Seq(Arguments), NEW r, ParseRun(r, args)
    PROVE  \A i \in 0..Len(args) : r[i].rc = "go" => Collected(r[i].conf, UrlsUpTo(i))
<1> DEFINE T == {i \in Nat : i <= Len(args) /\ r[i].rc = "go" =>
                                 Collected(r[i].conf, UrlsUpTo(i))}
<1>1. Len(args) \in Nat
  OBVIOUS
<1>2. 0 \in T
  <2>1. r[0].conf.upstreams = <<>>
    BY DEF ParseRun, ParseStart, Defaults
  <2>2. UrlsUpTo(0) = <<>>
    BY UrlsSteps
  <2>3. Collected(r[0].conf, UrlsUpTo(0))
    BY <2>1, <2>2 DEF Collected
  <2> QED
    BY <2>3
<1>3. ASSUME NEW i \in Nat, i \in T PROVE i + 1 \in T
  <2> SUFFICES ASSUME i + 1 <= Len(args), r[i + 1].rc = "go"
               PROVE  Collected(r[i + 1].conf, UrlsUpTo(i + 1))
    OBVIOUS
  <2>1. i \in 0..Len(args) /\ i + 1 \in 1..Len(args) /\ (i + 1) - 1 = i /\ i <= Len(args)
    BY <1>1
  <2>2. args[i + 1] \in Arguments
    BY <2>1
  <2>3. r[i] \in ResultType /\ r[i + 1] = Step(r[i], args[i + 1])
    BY <2>1 DEF ParseRun
  <2>4. r[i].rc = "go" /\ Accepted(args[i + 1]) /\ r[i + 1].conf = Set(r[i].conf, args[i + 1])
    BY <2>2, <2>3, StepGoes
  <2>5. Collected(r[i].conf, UrlsUpTo(i))
    BY <1>3, <2>1, <2>4
  <2>6. r[i].conf \in ConfType
    BY <2>3 DEF ResultType
  <2>7. UrlsUpTo(i) \in Seq(Arguments) /\ UrlsUpTo(i + 1) = UrlsUpTo(i) \o Chosen(args[i + 1])
    BY <2>1, UrlsSteps
  <2> QED
    BY <2>2, <2>4, <2>5, <2>6, <2>7, CollectedStep
<1>4. \A i \in Nat : i \in T
  <2> HIDE DEF T
  <2> QED
    BY <1>2, <1>3, NatUp
<1> QED
  BY <1>1, <1>4

\* If as many options are collected as there are, they are the command line.
LEMMA AllCollected ==
    ASSUME args \in Seq(Arguments)
    PROVE  \A i \in 0..Len(args) :
               /\ Len(UrlsUpTo(i)) <= i
               /\ Len(UrlsUpTo(i)) = i =>
                      \A j \in 1..i : UrlsUpTo(i)[j] = args[j] /\ args[j].opt = "upstream"
<1> DEFINE All(i) == /\ Len(UrlsUpTo(i)) <= i
                     /\ Len(UrlsUpTo(i)) = i =>
                            \A j \in 1..i : UrlsUpTo(i)[j] = args[j] /\ args[j].opt = "upstream"
           T == {i \in Nat : i <= Len(args) => All(i)}
<1>1. Len(args) \in Nat
  OBVIOUS
<1>2. 0 \in T
  <2>1. UrlsUpTo(0) = <<>>
    BY UrlsSteps
  <2>2. All(0)
    BY <2>1
  <2> QED
    BY <2>2
<1>3. ASSUME NEW i \in Nat, i \in T PROVE i + 1 \in T
  <2> SUFFICES ASSUME i + 1 <= Len(args) PROVE All(i + 1)
    OBVIOUS
  <2>1. i \in 0..Len(args) /\ i + 1 \in 1..Len(args) /\ (i + 1) - 1 = i /\ i <= Len(args)
    BY <1>1
  <2>2. PICK arg \in Arguments : arg = args[i + 1]
    BY <2>1
  <2>3. All(i)
    BY <1>3, <2>1
  <2>4. PICK u \in Seq(Arguments) : u = UrlsUpTo(i)
    BY <2>1, UrlsSteps
  <2>5. PICK w : w = UrlsUpTo(i + 1)
    OBVIOUS
  <2>6. w = u \o Chosen(arg)
    BY <2>1, <2>2, <2>4, <2>5, UrlsSteps
  <2>7. PICK n \in Nat : n = Len(u)
    OBVIOUS
  <2>8. n <= i /\ (n = i => \A j \in 1..i : u[j] = args[j] /\ args[j].opt = "upstream")
    BY <2>3, <2>4, <2>7
  <2>9. CASE arg.opt # "upstream"
    <3>1. Len(w) = n
      BY <2>6, <2>7, <2>9, ChosenLast
    <3>2. Len(w) <= i + 1 /\ Len(w) # i + 1
      BY <2>8, <3>1
    <3> QED
      BY <2>5, <3>2
  <2>10. CASE arg.opt = "upstream"
    <3>1. Len(w) = n + 1 /\ w[n + 1] = arg /\ \A j \in 1..n : w[j] = u[j]
      BY <2>6, <2>7, <2>10, ChosenLast
    <3>2. Len(w) <= i + 1 /\ (Len(w) = i + 1 => n = i)
      BY <2>8, <3>1
    <3>3. ASSUME n = i, NEW j \in 1..(i + 1)
          PROVE  w[j] = args[j] /\ args[j].opt = "upstream"
      <4>1. j \in 1..i \/ j = i + 1
        OBVIOUS
      <4> QED
        BY <2>2, <2>8, <2>10, <3>1, <3>3, <4>1
    <3> QED
      BY <2>5, <3>2, <3>3
  <2> QED
    BY <2>9, <2>10
<1>4. \A i \in Nat : i \in T
  <2> HIDE DEF T
  <2> QED
    BY <1>2, <1>3, NatUp
<1> QED
  BY <1>1, <1>4

\* With nothing but upstreams that are accepted the loop comes to its end, and
\* the watermarks are the defaults.
LEMMA UpstreamsGo ==
    ASSUME args \in Seq(Arguments), NEW r, ParseRun(r, args),
           \A j \in 1..Len(args) : args[j].opt = "upstream" /\ UrlAccepted(args[j].val)
    PROVE  \A i \in 0..Len(args) :
               r[i].rc = "go" /\ r[i].conf.lwm = 128 /\ r[i].conf.hwm = 256
<1> DEFINE Goes(i) == r[i].rc = "go" /\ r[i].conf.lwm = 128 /\ r[i].conf.hwm = 256
           T == {i \in Nat : i <= Len(args) => Goes(i)}
<1>1. Len(args) \in Nat
  OBVIOUS
<1>2. 0 \in T
  BY DEF ParseRun, ParseStart, Defaults
<1>3. ASSUME NEW i \in Nat, i \in T PROVE i + 1 \in T
  <2> SUFFICES ASSUME i + 1 <= Len(args) PROVE Goes(i + 1)
    OBVIOUS
  <2>1. i \in 0..Len(args) /\ i + 1 \in 1..Len(args) /\ (i + 1) - 1 = i /\ i <= Len(args)
    BY <1>1
  <2>2. PICK arg \in Arguments : arg = args[i + 1]
    BY <2>1
  <2>3. arg.opt = "upstream" /\ Accepted(arg)
    <3>1. arg.opt = "upstream" /\ UrlAccepted(arg.val)
      BY <2>1, <2>2
    <3> QED
      BY <3>1 DEF Accepted
  <2>4. r[i] \in ResultType /\ r[i + 1] = Step(r[i], arg)
    BY <2>1, <2>2 DEF ParseRun
  <2>5. Goes(i)
    BY <1>3, <2>1
  <2>6. r[i + 1].rc = "go" /\ r[i + 1].conf = Set(r[i].conf, arg)
    BY <2>3, <2>4, <2>5, StepGoes
  <2>7. r[i].conf \in ConfType
    BY <2>4 DEF ResultType
  <2>8. r[i + 1].conf.lwm = r[i].conf.lwm /\ r[i + 1].conf.hwm = r[i].conf.hwm
    BY <2>3, <2>6, <2>7, UpstreamsSet
  <2> QED
    BY <2>5, <2>6, <2>8
<1>4. \A i \in Nat : i \in T
  <2> HIDE DEF T
  <2> QED
    BY <1>2, <1>3, NatUp
<1> QED
  BY <1>1, <1>4

\* An upstream is stored under the only host and port its URL has.
LEMMA UrlNamed ==
    ASSUME NEW url \in Urls, UrlAccepted(url)
    PROVE  StoredAs(Upstream(url), url)
<1>1. PICK m : m = <<Host(url.authority), Port(url.authority)>>
  OBVIOUS
<1>2. Meanings(url.authority) = {m}
  BY <1>1, UrlMeaning
<1>3. m[1] = Host(url.authority) /\ m[2] = Port(url.authority)
  BY <1>1
<1>4. /\ Upstream(url).host = m[1] /\ Upstream(url).port = m[2][1].num
      /\ Upstream(url).path = IF url.path = 0 THEN 1 ELSE url.path
  BY <1>3 DEF Upstream
<1> QED
  BY <1>2, <1>4 DEF StoredAs

\* Every command line is safe.
LEMMA LineSafe == args \in Seq(Arguments) => OptionsSafe
<1> SUFFICES ASSUME args \in Seq(Arguments) PROVE OptionsSafe
  OBVIOUS
<1>1. PICK r : ParseRun(r, args) /\ FoldLeft(Step, ParseStart, args) = r[Len(args)]
  BY ParseSteps
<1>2. PICK n \in Nat : n = Len(args) /\ n \in 0..Len(args)
  OBVIOUS
<1>3. PICK result \in ResultType : result = r[n]
  BY <1>1, <1>2 DEF ParseRun
<1>4. ParseArgs(args) = [result EXCEPT !.rc = IF result.rc # "go" THEN result.rc
                             ELSE IF result.conf.lwm < result.conf.hwm THEN "ok" ELSE "error"]
  BY <1>1, <1>2, <1>3 DEF ParseArgs, ParseStart
<1>5. PICK c \in ConfType : c = result.conf
  BY DEF ResultType
<1>6. PICK rc : rc = ParseArgs(args).rc
  OBVIOUS
<1>7. /\ ParseArgs(args).conf = c /\ result.rc \in {"go", "help", "error"}
      /\ rc = "ok" => result.rc = "go" /\ c.lwm < c.hwm
      /\ result.rc = "go" /\ c.lwm < c.hwm => rc = "ok"
  BY <1>4, <1>5, <1>6 DEF ResultType
<1>8. PICK u \in Seq(Arguments) : u = UrlArgs
  BY <1>2, UrlsSteps DEF UrlArgs
<1>9. result.rc = "go" => Collected(c, u)
  BY <1>1, <1>2, <1>3, <1>5, <1>8, RunCollects DEF UrlArgs
<1>10. ASSUME NEW j \in DOMAIN u, u[j].opt = "upstream" PROVE u[j].val \in Urls
  BY <1>10, ArgumentVal
<1>11. ASSUME rc = "ok"
       PROVE  /\ 1 <= c.lwm /\ c.lwm < c.hwm
              /\ c.workers \in 1..MaxWorkers /\ c.listeners \in 1..MaxListeners
              /\ c.port \in Ports /\ c.maxFrame > 0 /\ c.maxMessage > 0
  <2>1. ConfOk(c) /\ c.lwm < c.hwm
    BY <1>7, <1>11 DEF ConfType
  <2>2. 1 <= c.lwm /\ c.maxFrame > 0 /\ c.maxMessage > 0
    BY <2>1 DEF ConfOk
  <2>3. c.workers \in 1..MaxWorkers /\ c.listeners \in 1..MaxListeners /\ c.port \in Ports
    BY <2>1 DEF ConfOk
  <2> QED
    BY ONLY Zenon, <2>1, <2>2, <2>3
<1>12. ASSUME rc = "ok"
       PROVE  /\ Len(c.upstreams) = Len(u)
              /\ \A j \in DOMAIN u : StoredAs(c.upstreams[j], u[j].val)
  <2>1. Collected(c, u)
    BY <1>7, <1>9, <1>12
  <2>2. ASSUME NEW j \in DOMAIN u
        PROVE  StoredAs(c.upstreams[j], u[j].val)
    <3>1. u[j].opt = "upstream" /\ UrlAccepted(u[j].val) /\ c.upstreams[j] = Upstream(u[j].val)
      BY <2>1 DEF Collected
    <3>2. PICK url \in Urls : url = u[j].val
      BY <1>10, <3>1
    <3>3. StoredAs(Upstream(url), url)
      BY <3>1, <3>2, UrlNamed
    <3> QED
      BY <3>1, <3>2, <3>3
  <2> QED
    BY <2>1, <2>2 DEF Collected
<1>13. ASSUME Len(u) = n
       PROVE  rc = "ok" <=> \A j \in DOMAIN u : HasMeaning(u[j].val)
  <2>1. \A j \in 1..n : u[j] = args[j] /\ args[j].opt = "upstream"
    BY <1>2, <1>8, <1>13, AllCollected DEF UrlArgs
  <2>2. DOMAIN u = 1..n
    BY <1>13
  <2>3. \A j \in DOMAIN u : UrlAccepted(u[j].val) <=> HasMeaning(u[j].val)
    BY <1>10, <2>1, <2>2, UrlMeaning
  <2>4. ASSUME rc = "ok" PROVE \A j \in DOMAIN u : HasMeaning(u[j].val)
    <3>1. Collected(c, u)
      BY <1>7, <1>9, <2>4
    <3>2. \A j \in 1..n : UrlAccepted(u[j].val)
      BY <1>13, <3>1 DEF Collected
    <3> QED
      BY <2>2, <2>3, <3>2
  <2>5. ASSUME \A j \in DOMAIN u : HasMeaning(u[j].val) PROVE rc = "ok"
    <3>1. \A j \in 1..Len(args) : args[j].opt = "upstream" /\ UrlAccepted(args[j].val)
      BY <1>2, <2>1, <2>2, <2>3, <2>5
    <3>2. r[n].rc = "go" /\ r[n].conf.lwm = 128 /\ r[n].conf.hwm = 256
      BY <1>1, <1>2, <3>1, UpstreamsGo
    <3>3. result.rc = "go" /\ c.lwm < c.hwm
      BY <1>3, <1>5, <3>2
    <3> QED
      BY <1>7, <3>3
  <2> QED
    BY <2>4, <2>5
<1> QED
  <2>1. UrlArgs = u /\ ParseArgs(args).rc = rc /\ ParseArgs(args).conf = c /\ Len(args) = n
    BY <1>2, <1>6, <1>7, <1>8
  <2>2. rc = "ok" =>
          /\ 1 <= c.lwm /\ c.lwm < c.hwm
          /\ c.workers \in 1..MaxWorkers /\ c.listeners \in 1..MaxListeners
          /\ c.port \in Ports /\ c.maxFrame > 0 /\ c.maxMessage > 0
          /\ Len(c.upstreams) = Len(u)
          /\ \A j \in DOMAIN u : StoredAs(c.upstreams[j], u[j].val)
    BY ONLY Zenon, <1>11, <1>12
  <2>3. Len(u) = n => (rc = "ok" <=> \A j \in DOMAIN u : HasMeaning(u[j].val))
    BY <1>13
  <2> HIDE <1>3, <1>5
  <2> QED
    BY ONLY Zenon, <2>1, <2>2, <2>3 DEF OptionsSafe

\* A command line that is accepted leaves the rest of the server what it relies
\* on, every upstream stored with the host, the port and the path its URL names,
\* also when numbers were narrowed to int, and a URL that names a host and a port is
\* accepted, for every command line (options.c:39-216, 251-378).
THEOREM OptionsAreSafe == Spec => []OptionsSafe
<1>1. Init => InputInv
  BY InputInit
<1>2. InputInv /\ [Next]_vars => InputInv'
  BY InputStep
<1>3. InputInv => OptionsSafe
  BY LineSafe DEF InputInv, SourceTyped
<1> QED
  BY <1>1, <1>2, <1>3, PTL DEF Spec

-----------------------------------------------------------------------------
(* UTF-8: the automaton and the definition by code points *)

\* The states of the automaton that can come up.
Utf8State == [need : 0..3, kind : {"none", "gen", "E0", "ED", "F0", "F4", "bad"}]

\* A lead byte, and any step, leads to such a state.
LEMMA LeadTyped ==
    ASSUME NEW byte \in Byte
    PROVE  /\ Lead(byte) \in Utf8State
           /\ Lead(byte).kind # "bad" <=> byte \in (0..127) \cup (194..244)
<1>1. byte \in 0..255
  BY DEF Byte
<1> QED
  BY <1>1 DEF Lead, Utf8State, Utf8Start, Utf8Bad

\* The automaton never leaves these states.
LEMMA NextTyped ==
    ASSUME NEW st \in Utf8State, NEW byte \in Byte
    PROVE  Utf8Next(st, byte) \in Utf8State
<1>1. CASE st.kind = "bad"
  BY <1>1 DEF Utf8Next
<1>2. CASE st.kind # "bad" /\ st.need = 0
  BY <1>2, LeadTyped DEF Utf8Next
<1>3. CASE st.kind # "bad" /\ st.need # 0
  <2>1. st.need - 1 \in 0..3
    BY <1>3 DEF Utf8State
  <2> QED
    BY <1>3, <2>1 DEF Utf8Next, Utf8State, Utf8Bad
<1> QED
  BY <1>1, <1>2, <1>3

\* The automaton over a text, byte by byte.
Utf8Run(r, st, s) ==
    /\ \A i \in 0..Len(s) : r[i] \in Utf8State
    /\ r[0] = st
    /\ \A i \in 1..Len(s) : r[i] = Utf8Next(r[i - 1], s[i])

\* wsUtf8Feed() is such a run to the last byte.
LEMMA FeedSteps ==
    ASSUME NEW st \in Utf8State, NEW text \in Seq(Byte)
    PROVE  \E r : Utf8Run(r, st, text) /\ Utf8Feed(st, text) = r[Len(text)]
<1> DEFINE S == DOMAIN text
           Body(g) == [s \in SUBSET S |-> IF s = {} THEN st
                                          ELSE Utf8Next(g[s \ {Max(s)}], text[Max(s)])]
           it == CHOOSE g : g = Body(g)
<1>1. Utf8Feed(st, text) = it[S]
  BY DEF Utf8Feed, FoldLeft, MapThenFoldSet
<1>2. S = 1..Len(text) /\ Len(text) \in Nat /\ \A i \in S : text[i] \in Byte
  OBVIOUS
<1>3. \E g : g = Body(g)
  <2> DEFINE ch == [s \in SUBSET S |-> Max(s)]
             op == [p \in S \X Utf8State |-> Utf8Next(p[2], text[p[1]])]
  <2>1. op \in [S \X Utf8State -> Utf8State]
    BY <1>2, NextTyped
  <2>2. PICK g : FoldOf(g, S, Utf8State, st, op, ch)
    <3> HIDE DEF op, S
    <3> QED
      BY <1>2, <2>1, LeftFold
  <2>3. ASSUME NEW s \in SUBSET S, s # {}
        PROVE  op[<<ch[s], g[s \ {ch[s]}]>>] = Utf8Next(g[s \ {Max(s)}], text[Max(s)])
    <3>1. ch[s] = Max(s) /\ Max(s) \in S
      <4>1. s \subseteq 0..Len(text) /\ s \subseteq S
        BY <1>2
      <4>2. Max(s) \in s
        BY <1>2, <2>3, <4>1, MaxOfBounded
      <4> QED
        BY <4>1, <4>2
    <3>2. g[s \ {ch[s]}] \in Utf8State
      BY <2>2 DEF FoldOf
    <3> HIDE DEF ch
    <3> QED
      BY <3>1, <3>2
  <2>4. g = Body(g)
    <3> HIDE DEF op, ch
    <3> QED
      BY <2>2, <2>3 DEF FoldOf
  <2> HIDE DEF Body
  <2> QED
    BY ONLY <2>4
<1>4. it = Body(it)
  BY <1>3
<1> HIDE DEF it
<1>5. it[{}] = st
  BY <1>4
<1>6. ASSUME NEW k \in 1..Len(text)
      PROVE  it[1..k] = Utf8Next(it[1..(k-1)], text[k])
  <2>1. k \in Nat \ {0} /\ 1..k \in SUBSET S
    BY <1>2
  <2>2. it[1..k] = IF 1..k = {} THEN st
                   ELSE Utf8Next(it[(1..k) \ {Max(1..k)}], text[Max(1..k)])
    BY <1>4, <2>1
  <2> QED
    BY <2>1, <2>2, LastOfInterval
<1> DEFINE r == [i \in 0..Len(text) |-> it[1..i]]
<1>7. r[0] = st /\ r[Len(text)] = Utf8Feed(st, text)
  <2>1. 1..0 = {} /\ 0 \in 0..Len(text) /\ Len(text) \in 0..Len(text)
    BY <1>2
  <2> QED
    BY <1>1, <1>2, <1>5, <2>1
<1>8. \A i \in 1..Len(text) : r[i] = Utf8Next(r[i-1], text[i])
  <2>1. \A i \in 1..Len(text) : i \in 0..Len(text) /\ i - 1 \in 0..Len(text)
    BY <1>2
  <2> QED
    BY <1>6, <2>1
<1> HIDE DEF r
<1>9. \A i \in 0..Len(text) : r[i] \in Utf8State
  <2> DEFINE T == {i \in Nat : i <= Len(text) => r[i] \in Utf8State}
  <2>1. 0 \in T
    BY <1>7
  <2>2. ASSUME NEW i \in Nat, i \in T PROVE i + 1 \in T
    <3> SUFFICES ASSUME i + 1 <= Len(text) PROVE r[i + 1] \in Utf8State
      OBVIOUS
    <3>1. i + 1 \in 1..Len(text) /\ (i + 1) - 1 = i /\ i <= Len(text)
      BY <1>2
    <3>2. /\ r[i] \in Utf8State /\ r[i + 1] = Utf8Next(r[i], text[i + 1])
          /\ text[i + 1] \in Byte
      BY <1>2, <1>8, <2>2, <3>1
    <3> QED
      BY <3>2, NextTyped
  <2>3. \A i \in Nat : i \in T
    <3> HIDE DEF T
    <3> QED
      BY <2>1, <2>2, NatUp
  <2> QED
    BY <2>3
<1> QED
  BY <1>7, <1>8, <1>9 DEF Utf8Run

\* Two texts begin with the same n bytes.
Alike(s, t, n) == n <= Len(s) /\ n <= Len(t) /\ \A i \in 1..n : s[i] = t[i]

\* Two runs over texts with the same beginning agree on it.
LEMMA RunsAgree ==
    ASSUME NEW st, NEW s \in Seq(Byte), NEW t \in Seq(Byte), NEW q, NEW r,
           Utf8Run(q, st, s), Utf8Run(r, st, t), NEW n \in Nat, Alike(s, t, n)
    PROVE  q[n] = r[n]
<1> USE DEF Alike
<1>1. Len(s) \in Nat /\ Len(t) \in Nat
  OBVIOUS
<1> DEFINE T == {i \in Nat : i <= n => q[i] = r[i]}
<1>2. 0 \in T
  BY DEF Utf8Run
<1>3. ASSUME NEW i \in Nat, i \in T PROVE i + 1 \in T
  <2> SUFFICES ASSUME i + 1 <= n PROVE q[i + 1] = r[i + 1]
    OBVIOUS
  <2>1. /\ i + 1 \in 1..n /\ i + 1 \in 1..Len(s) /\ i + 1 \in 1..Len(t)
        /\ (i + 1) - 1 = i /\ i <= n
    BY <1>1
  <2>2. q[i] = r[i]
    BY <1>3, <2>1
  <2>3. q[i + 1] = Utf8Next(q[i], s[i + 1]) /\ r[i + 1] = Utf8Next(r[i], t[i + 1])
    BY <2>1 DEF Utf8Run
  <2> QED
    BY <2>1, <2>2, <2>3
<1>4. \A i \in Nat : i \in T
  <2> HIDE DEF T
  <2> QED
    BY <1>2, <1>3, NatUp
<1> QED
  BY <1>4

\* Feeding a text in two parts is feeding it as a whole.
LEMMA FeedJoined ==
    ASSUME NEW a \in Seq(Byte), NEW b \in Seq(Byte)
    PROVE  /\ Utf8Feed(Utf8Start, a) \in Utf8State
           /\ Utf8Feed(Utf8Start, a \o b) = Utf8Feed(Utf8Feed(Utf8Start, a), b)
<1>0. Utf8Start \in Utf8State
  BY DEF Utf8Start, Utf8State
<1>1. PICK q : Utf8Run(q, Utf8Start, a) /\ Utf8Feed(Utf8Start, a) = q[Len(a)]
  BY <1>0, FeedSteps
<1>2. PICK m \in Nat, n \in Nat : m = Len(a) /\ n = Len(b)
  OBVIOUS
<1>3. PICK st \in Utf8State : st = Utf8Feed(Utf8Start, a) /\ st = q[m]
  <2>1. m \in 0..Len(a)
    BY <1>2
  <2> QED
    BY <1>1, <1>2, <2>1 DEF Utf8Run
<1>4. PICK p : Utf8Run(p, st, b) /\ Utf8Feed(st, b) = p[n]
  BY <1>2, FeedSteps
<1>5. PICK c : c = a \o b
  OBVIOUS
<1>6. /\ c \in Seq(Byte) /\ Len(c) = m + n
      /\ \A i \in 1..m : c[i] = a[i]
      /\ \A i \in 1..n : c[m + i] = b[i]
  BY <1>2, <1>5, ConcatAt
<1>7. PICK r : Utf8Run(r, Utf8Start, c) /\ Utf8Feed(Utf8Start, c) = r[m + n]
  BY <1>0, <1>6, FeedSteps
<1>8. r[m] = st
  <2>1. Alike(a, c, m)
    BY <1>2, <1>6 DEF Alike
  <2>2. Utf8Run(q, Utf8Start, a) /\ Utf8Run(r, Utf8Start, c) /\ c \in Seq(Byte)
    BY <1>1, <1>6, <1>7
  <2>3. q[m] = r[m]
    BY ONLY <2>1, <2>2, m \in Nat, a \in Seq(Byte), RunsAgree
  <2> QED
    BY <1>3, <2>3
<1> DEFINE T == {i \in Nat : i <= n => r[m + i] = p[i]}
<1>9. 0 \in T
  BY <1>4, <1>8 DEF Utf8Run
<1>10. ASSUME NEW i \in Nat, i \in T PROVE i + 1 \in T
  <2> SUFFICES ASSUME i + 1 <= n PROVE r[m + (i + 1)] = p[i + 1]
    OBVIOUS
  <2>1. /\ i + 1 \in 1..n /\ i <= n /\ (i + 1) - 1 = i
        /\ m + (i + 1) \in 1..(m + n) /\ (m + (i + 1)) - 1 = m + i
    OBVIOUS
  <2>2. r[m + i] = p[i]
    BY <1>10, <2>1
  <2>3. p[i + 1] = Utf8Next(p[i], b[i + 1])
    BY <1>2, <1>4, <2>1 DEF Utf8Run
  <2>4. r[m + (i + 1)] = Utf8Next(r[m + i], c[m + (i + 1)])
    BY <1>6, <1>7, <2>1 DEF Utf8Run
  <2>5. c[m + (i + 1)] = b[i + 1]
    BY <1>6, <2>1
  <2> QED
    BY <2>2, <2>3, <2>4, <2>5
<1>11. \A i \in Nat : i \in T
  <2> HIDE DEF T
  <2> QED
    BY <1>9, <1>10, NatUp
<1>12. r[m + n] = p[n]
  BY <1>11
<1> QED
  BY <1>3, <1>4, <1>5, <1>7, <1>12

\* The sums on the way to the value of a character.
ValueRun(v, lead, q) ==
    /\ \A i \in 0..Len(q) : v[i] \in Int
    /\ v[0] = lead
    /\ \A i \in 1..Len(q) : v[i] = 64 * v[i - 1] + q[i] - 128

\* The value of a character is summed up from its bytes, one after the other.
LEMMA ValueSteps ==
    ASSUME NEW lead \in Int, NEW s, NEW q \in Seq(Byte), q = Tail(s)
    PROVE  \E v : ValueRun(v, lead, q) /\ Frames!Value(lead, s) = v[Len(q)]
<1> DEFINE S == DOMAIN q
           Body(g) == [x \in SUBSET S |-> IF x = {} THEN lead
                                          ELSE 64 * g[x \ {Max(x)}] + q[Max(x)] - 128]
           it == CHOOSE g : g = Body(g)
<1>1. Frames!Value(lead, s) = it[S]
  BY DEF Frames!Value, Frames!FoldLeft, Frames!MapThenFoldSet, Frames!Max, Max
<1>2. S = 1..Len(q) /\ Len(q) \in Nat /\ \A i \in S : q[i] \in Int
  <2>1. S = 1..Len(q) /\ Len(q) \in Nat /\ \A i \in S : q[i] \in Byte
    OBVIOUS
  <2>2. Byte \subseteq Int
    BY DEF Byte
  <2> QED
    BY <2>1, <2>2
<1>3. \E g : g = Body(g)
  <2> DEFINE ch == [x \in SUBSET S |-> Max(x)]
             op == [p \in S \X Int |-> 64 * p[2] + q[p[1]] - 128]
  <2>1. op \in [S \X Int -> Int]
    BY <1>2
  <2>2. PICK g : FoldOf(g, S, Int, lead, op, ch)
    <3> HIDE DEF op, S
    <3> QED
      BY <1>2, <2>1, LeftFold
  <2>3. ASSUME NEW x \in SUBSET S, x # {}
        PROVE  op[<<ch[x], g[x \ {ch[x]}]>>] = 64 * g[x \ {Max(x)}] + q[Max(x)] - 128
    <3>1. ch[x] = Max(x) /\ Max(x) \in S
      <4>1. x \subseteq 0..Len(q) /\ x \subseteq S
        BY <1>2
      <4>2. Max(x) \in x
        BY <1>2, <2>3, <4>1, MaxOfBounded
      <4> QED
        BY <4>1, <4>2
    <3>2. g[x \ {ch[x]}] \in Int
      BY <2>2 DEF FoldOf
    <3> HIDE DEF ch
    <3>3. PICK y \in S, v \in Int : y = Max(x) /\ v = g[x \ {ch[x]}]
      BY ONLY <3>1, <3>2
    <3>4. op[<<y, v>>] = 64 * v + q[y] - 128
      BY ONLY y \in S, v \in Int
    <3> HIDE DEF op, S
    <3> QED
      BY ONLY <3>1, <3>3, <3>4, Zenon
  <2>4. g = Body(g)
    <3> HIDE DEF op, ch
    <3> QED
      BY <2>2, <2>3 DEF FoldOf
  <2> HIDE DEF Body
  <2> QED
    BY ONLY <2>4
<1>4. it = Body(it)
  BY <1>3
<1> HIDE DEF it
<1>5. it[{}] = lead
  BY <1>4
<1>6. ASSUME NEW k \in 1..Len(q)
      PROVE  it[1..k] = 64 * it[1..(k-1)] + q[k] - 128
  <2>1. k \in Nat \ {0} /\ 1..k \in SUBSET S
    BY <1>2
  <2>2. it[1..k] = IF 1..k = {} THEN lead
                   ELSE 64 * it[(1..k) \ {Max(1..k)}] + q[Max(1..k)] - 128
    BY <1>4, <2>1
  <2> QED
    BY <2>1, <2>2, LastOfInterval
<1> DEFINE v == [i \in 0..Len(q) |-> it[1..i]]
<1>7. v[0] = lead /\ v[Len(q)] = Frames!Value(lead, s)
  <2>1. 1..0 = {} /\ 0 \in 0..Len(q) /\ Len(q) \in 0..Len(q)
    BY <1>2
  <2> QED
    BY <1>1, <1>2, <1>5, <2>1
<1>8. \A i \in 1..Len(q) : v[i] = 64 * v[i-1] + q[i] - 128
  <2>1. \A i \in 1..Len(q) : i \in 0..Len(q) /\ i - 1 \in 0..Len(q)
    BY <1>2
  <2> QED
    BY <1>6, <2>1
<1> HIDE DEF v
<1>9. \A i \in 0..Len(q) : v[i] \in Int
  <2> DEFINE T == {i \in Nat : i <= Len(q) => v[i] \in Int}
  <2>1. 0 \in T
    BY <1>7
  <2>2. ASSUME NEW i \in Nat, i \in T PROVE i + 1 \in T
    <3> SUFFICES ASSUME i + 1 <= Len(q) PROVE v[i + 1] \in Int
      OBVIOUS
    <3>1. i + 1 \in 1..Len(q) /\ (i + 1) - 1 = i /\ i <= Len(q)
      BY <1>2
    <3>2. v[i] \in Int /\ v[i + 1] = 64 * v[i] + q[i + 1] - 128 /\ q[i + 1] \in Int
      BY <1>2, <1>8, <2>2, <3>1
    <3> QED
      BY <3>2
  <2>3. \A i \in Nat : i \in T
    <3> HIDE DEF T
    <3> QED
      BY <2>1, <2>2, NatUp
  <2> QED
    BY <2>3
<1> QED
  BY <1>7, <1>8, <1>9 DEF ValueRun

\* The value of characters of two, three and four bytes.
LEMMA ValueIs ==
    ASSUME NEW lead \in Int, NEW s \in Seq(Byte)
    PROVE  /\ Len(s) = 2 => Frames!Value(lead, s) = 64 * lead + s[2] - 128
           /\ Len(s) = 3 => Frames!Value(lead, s) = 64 * (64 * lead + s[2] - 128) + s[3] - 128
           /\ Len(s) = 4 => Frames!Value(lead, s)
                 = 64 * (64 * (64 * lead + s[2] - 128) + s[3] - 128) + s[4] - 128
<1> SUFFICES ASSUME Len(s) \in {2, 3, 4}
             PROVE  /\ Len(s) = 2 => Frames!Value(lead, s) = 64 * lead + s[2] - 128
                    /\ Len(s) = 3 => Frames!Value(lead, s)
                          = 64 * (64 * lead + s[2] - 128) + s[3] - 128
                    /\ Len(s) = 4 => Frames!Value(lead, s)
                          = 64 * (64 * (64 * lead + s[2] - 128) + s[3] - 128) + s[4] - 128
  OBVIOUS
<1>1. PICK q : q = Tail(s)
  OBVIOUS
<1>2. s # <<>>
  OBVIOUS
<1>3. /\ q \in Seq(Byte) /\ Len(q) = Len(s) - 1
      /\ \A i \in 1..(Len(s) - 1) : q[i] = s[i + 1]
  BY <1>1, <1>2
<1>4. PICK v : ValueRun(v, lead, q) /\ Frames!Value(lead, s) = v[Len(q)]
  BY <1>1, <1>3, ValueSteps
<1>5. PICK m \in {2, 3, 4} : m = Len(s)
  OBVIOUS
<1>6. v[0] = lead /\ v[1] = 64 * v[0] + q[1] - 128 /\ q[1] = s[2]
  <2>1. 1 \in 1..(m - 1) /\ 1 - 1 = 0 /\ 1 + 1 = 2
    OBVIOUS
  <2> QED
    BY <1>3, <1>4, <1>5, <2>1 DEF ValueRun
<1>7. m > 2 => v[2] = 64 * v[1] + q[2] - 128 /\ q[2] = s[3]
  <2>1. m > 2 => 2 \in 1..(m - 1) /\ 2 - 1 = 1 /\ 2 + 1 = 3
    OBVIOUS
  <2> QED
    BY <1>3, <1>4, <1>5, <2>1 DEF ValueRun
<1>8. m > 3 => v[3] = 64 * v[2] + q[3] - 128 /\ q[3] = s[4]
  <2>1. m > 3 => 3 \in 1..(m - 1) /\ 3 - 1 = 2 /\ 3 + 1 = 4
    OBVIOUS
  <2> QED
    BY <1>3, <1>4, <1>5, <2>1 DEF ValueRun
<1>9. Frames!Value(lead, s) = v[m - 1]
  BY <1>3, <1>4, <1>5
<1>10. CASE m = 2
  <2>1. m - 1 = 1
    BY <1>10
  <2> QED
    BY <1>5, <1>6, <1>9, <1>10, <2>1
<1>11. CASE m = 3
  <2>1. m - 1 = 2 /\ m > 2
    BY <1>11
  <2> QED
    BY <1>5, <1>6, <1>7, <1>9, <1>11, <2>1
<1>12. CASE m = 4
  <2>1. m - 1 = 3 /\ m > 3 /\ m > 2
    BY <1>12
  <2> QED
    BY <1>5, <1>6, <1>7, <1>8, <1>9, <1>12, <2>1
<1> QED
  BY <1>10, <1>11, <1>12

\* The bytes behind a lead byte are those the automaton expects.
Follows(c) ==
    /\ Len(c) > 1 => c[2] \in Continuation(Lead(c[1]).kind)
    /\ \A y \in 3..Len(c) : c[y] \in 128..191

\* They are as many as the lead byte announces.
IsWhole(c) == Lead(c[1]).kind # "bad" /\ Len(c) = Lead(c[1]).need + 1 /\ Follows(c)

\* The bytes behind a lead byte, and the lead bytes of two, three and four bytes.
More == 128..191
LeadTwo == 192..223
LeadThree == 224..239
LeadFour == 240..247

\* Of two bytes a value that needs both begins at C2.
LEMMA CharTwo ==
    ASSUME NEW a \in LeadTwo, NEW b \in More
    PROVE  64 * (a - 192) + b - 128 >= 128 <=> a \in 194..223
  BY SMT DEF LeadTwo, More

\* The values that need three bytes and are no surrogates.
OfThree(v) == v >= 2048 /\ ~Frames!IsSurrogate(v)
ThreeValue(v, a, b, c) == v = 64 * (64 * (a - 224) + b - 128) + c - 128

\* Of three bytes those are told apart by the second one.
LEMMA CharThree ==
    ASSUME NEW a \in LeadThree, NEW b \in More, NEW c \in More,
           NEW v, ThreeValue(v, a, b, c)
    PROVE  OfThree(v) <=> (a = 224 => b >= 160) /\ (a = 237 => b <= 159)
<1>1. v \in Int /\ v = 4096 * (a - 224) + 64 * (b - 128) + (c - 128)
  BY SMT DEF ThreeValue, LeadThree, More
<1>2. v >= 2048 <=> (a = 224 => b >= 160)
  BY <1>1, SMT DEF LeadThree, More
<1>3. v >= 55296 /\ v <= 57343 <=> a = 237 /\ b >= 160
  BY <1>1, SMT DEF LeadThree, More
<1> QED
  BY <1>2, <1>3, SMT DEF OfThree, Frames!IsSurrogate, LeadThree, More

\* The values that need four bytes, and the bytes that say so.
OfFour(v) == v >= 65536 /\ v <= 1114111
FourFits(a, b) == a <= 244 /\ (a = 240 => b >= 144) /\ (a = 244 => b <= 143)
FourValue(v, a, b, c, d) == v = 64 * (64 * (64 * (a - 240) + b - 128) + c - 128) + d - 128

\* Of four bytes those are told apart by the first two.
LEMMA CharFour ==
    ASSUME NEW a \in LeadFour, NEW b \in More, NEW c \in More, NEW d \in More,
           NEW v, FourValue(v, a, b, c, d)
    PROVE  OfFour(v) <=> FourFits(a, b)
<1>1. v \in Int /\ v = 262144 * (a - 240) + 4096 * (b - 128) + 64 * (c - 128) + (d - 128)
  BY SMT DEF FourValue, LeadFour, More
<1>2. v >= 65536 <=> (a = 240 => b >= 144)
  BY <1>1, SMT DEF LeadFour, More
<1>3. v <= 1114111 <=> a <= 244 /\ (a = 244 => b <= 143)
  BY <1>1, SMT DEF LeadFour, More
<1> QED
  BY <1>2, <1>3, SMT DEF OfFour, FourFits, LeadFour, More

\* What the second byte of three, and of four, may be.
FirstOfThree(a, first) ==
    \A b \in 128..191 : b \in first <=> (a = 224 => b >= 160) /\ (a = 237 => b <= 159)
FirstOfFour(a, first) ==
    \A b \in 128..191 : b \in first <=> (a = 240 => b >= 144) /\ (a = 244 => b <= 143)

LeadSays(a, kind, need, first) ==
    /\ kind # "bad" /\ need = 0 <=> a \in 0..127
    /\ kind # "bad" /\ need = 1 <=> a \in 194..223
    /\ kind # "bad" /\ need = 2 <=> a \in 224..239
    /\ kind # "bad" /\ need = 3 <=> a \in 240..244
    /\ need \in 0..3 /\ first \subseteq 128..191
    /\ a \in 194..223 => first = 128..191
    /\ a \in 224..239 => FirstOfThree(a, first)
    /\ a \in 240..244 => FirstOfFour(a, first)

\* A lead byte says how many bytes follow and what the first of them may be.
LEMMA LeadIs ==
    ASSUME NEW a \in Byte
    PROVE  LeadSays(a, Lead(a).kind, Lead(a).need, Continuation(Lead(a).kind))
<1> USE DEF LeadSays, FirstOfThree, FirstOfFour
<1>1. a \in 0..255
  BY DEF Byte
<1>2. CASE a <= 127
  <2>1. Lead(a) = Utf8Start
    BY <1>1, <1>2 DEF Lead
  <2> QED
    BY <1>1, <1>2, <2>1 DEF Utf8Start, Continuation
<1>3. CASE a \in 194..223
  <2>1. Lead(a) = [need |-> 1, kind |-> "gen"]
    BY <1>1, <1>3 DEF Lead
  <2> QED
    BY <1>1, <1>3, <2>1 DEF Continuation
<1>4. CASE a \in 224..239
  <2>1. Lead(a) = [need |-> 2, kind |-> IF a = 224 THEN "E0" ELSE IF a = 237 THEN "ED" ELSE "gen"]
    BY <1>1, <1>4 DEF Lead
  <2> QED
    BY <1>1, <1>4, <2>1 DEF Continuation
<1>5. CASE a \in 240..244
  <2>1. Lead(a) = [need |-> 3, kind |-> IF a = 240 THEN "F0" ELSE IF a = 244 THEN "F4" ELSE "gen"]
    BY <1>1, <1>5 DEF Lead
  <2> QED
    BY <1>1, <1>5, <2>1 DEF Continuation
<1>6. CASE a \in 128..193 \/ a \in 245..255
  <2>1. Lead(a) = Utf8Bad
    BY <1>1, <1>6 DEF Lead
  <2> QED
    BY <1>1, <1>6, <2>1 DEF Utf8Bad, Continuation
<1> QED
  BY <1>1, <1>2, <1>3, <1>4, <1>5, <1>6

\* The code points of RFC 3629 are the byte sequences the automaton takes.
LEMMA CharWhole ==
    ASSUME NEW c \in Seq(Byte)
    PROVE  Frames!IsChar(c) /\ c # <<>> <=> IsWhole(c) /\ c # <<>>
<1> SUFFICES ASSUME c # <<>> PROVE Frames!IsChar(c) <=> IsWhole(c)
  OBVIOUS
<1>1. PICK n \in Nat : n = Len(c) /\ n >= 1
  OBVIOUS
<1>2. \A i \in 1..n : c[i] \in 0..255 /\ c[i] \in Byte
  BY <1>1 DEF Byte
<1>3. PICK a \in Byte : a = c[1] /\ a \in 0..255
  BY <1>1, <1>2
<1>4. Frames!Tails(c) <=> \A i \in 2..n : c[i] \in 128..191
  BY <1>1 DEF Frames!Tails
<1>5. PICK kind, need, C :
          /\ kind = Lead(a).kind /\ need = Lead(a).need /\ C = Continuation(Lead(a).kind)
          /\ LeadSays(a, kind, need, C)
  BY LeadIs
<1>6. /\ kind # "bad" /\ need = 0 <=> a \in 0..127
      /\ kind # "bad" /\ need = 1 <=> a \in 194..223
      /\ kind # "bad" /\ need = 2 <=> a \in 224..239
      /\ kind # "bad" /\ need = 3 <=> a \in 240..244
  BY <1>5 DEF LeadSays
<1>7. need \in 0..3 /\ (a \in 194..223 => C = 128..191) /\ \A b \in C : b \in 128..191
  BY <1>5 DEF LeadSays
<1>8. IsWhole(c) <=> /\ kind # "bad" /\ n = need + 1
                     /\ n > 1 => c[2] \in C
                     /\ \A y \in 3..n : c[y] \in 128..191
  BY <1>1, <1>3, <1>5 DEF IsWhole, Follows
<1>9. CASE n = 1
  <2>1. Frames!IsChar(c) <=> a <= 127
    BY <1>1, <1>3, <1>9, SMT DEF Frames!IsChar
  <2>2. IsWhole(c) <=> kind # "bad" /\ need = 0
    BY <1>7, <1>8, <1>9
  <2>3. a <= 127 <=> a \in 0..127
    <3>1. a \in 0..255
      BY <1>3
    <3> QED
      BY ONLY <3>1, SMT
  <2> QED
    BY <1>6, <2>1, <2>2, <2>3
<1>10. CASE n = 2
  <2>1. PICK b : b = c[2]
    OBVIOUS
  <2>2. b \in 0..255
    BY <1>2, <1>10, <2>1
  <2>3. Frames!Tails(c) <=> b \in 128..191
    BY <1>4, <1>10, <2>1
  <2>4. PICK v : v = Frames!Value(a - 192, c)
    OBVIOUS
  <2>5. Frames!IsChar(c) <=> b \in 128..191 /\ a \in 192..223 /\ v >= 128
    BY <1>1, <1>3, <1>10, <2>3, <2>4, SMT DEF Frames!IsChar
  <2>6. v = 64 * (a - 192) + b - 128
    <3>1. a - 192 \in Int /\ Len(c) = 2
      BY <1>1, <1>3, <1>10
    <3> QED
      BY <2>1, <2>4, <3>1, ValueIs
  <2>7. ASSUME b \in 128..191, a \in 192..223 PROVE v >= 128 <=> a \in 194..223
    <3>1. a \in LeadTwo /\ b \in More
      BY <2>7 DEF LeadTwo, More
    <3> QED
      BY <2>6, <3>1, CharTwo
  <2>8. IsWhole(c) <=> kind # "bad" /\ need = 1 /\ b \in C
    BY <1>7, <1>8, <1>10, <2>1
  <2>9. a \in 194..223 => a \in 192..223
    OBVIOUS
  <2>10. IsWhole(c) <=> a \in 194..223 /\ b \in 128..191
    BY ONLY <1>6, <1>7, <2>8
  <2>11. Frames!IsChar(c) <=> a \in 194..223 /\ b \in 128..191
    BY ONLY <2>5, <2>7, <2>9
  <2> QED
    BY ONLY <2>10, <2>11
<1>11. CASE n = 3
  <2>1. PICK b, d : b = c[2] /\ d = c[3]
    OBVIOUS
  <2>2. b \in 0..255 /\ d \in 0..255
    BY <1>2, <1>11, <2>1
  <2>3. Frames!Tails(c) <=> b \in 128..191 /\ d \in 128..191
    <3>1. 2 \in 2..n /\ 3 \in 2..n /\ \A i \in 2..n : i = 2 \/ i = 3
      BY ONLY <1>11
    <3> QED
      BY ONLY <1>4, <2>1, <3>1
  <2>4. PICK v : v = Frames!Value(a - 224, c)
    OBVIOUS
  <2>5. Frames!IsChar(c) <=> /\ b \in 128..191 /\ d \in 128..191 /\ a \in 224..239
                             /\ OfThree(v)
    BY <1>1, <1>3, <1>11, <2>3, <2>4, SMT DEF Frames!IsChar, OfThree
  <2>6. ThreeValue(v, a, b, d)
    <3>1. a - 224 \in Int /\ Len(c) = 3
      BY <1>1, <1>3, <1>11
    <3>2. ThreeValue(Frames!Value(a - 224, c), a, c[2], c[3])
      BY ONLY <3>1, c \in Seq(Byte), ValueIs DEF ThreeValue
    <3> QED
      BY ONLY <2>1, <2>4, <3>2
  <2>7. ASSUME b \in 128..191, d \in 128..191, a \in 224..239
        PROVE  OfThree(v) <=> b \in C
    <3>1. OfThree(v) <=> (a = 224 => b >= 160) /\ (a = 237 => b <= 159)
      <4>1. a \in LeadThree /\ b \in More /\ d \in More
        BY <2>7 DEF LeadThree, More
      <4> QED
        BY ONLY <2>6, <4>1, CharThree
    <3>2. b \in C <=> (a = 224 => b >= 160) /\ (a = 237 => b <= 159)
      <4>1. FirstOfThree(a, C)
        BY ONLY <1>5, <2>7 DEF LeadSays
      <4> QED
        BY ONLY <2>7, <4>1 DEF FirstOfThree
    <3> QED
      BY ONLY <3>1, <3>2
  <2>8. IsWhole(c) <=> kind # "bad" /\ need = 2 /\ b \in C /\ d \in 128..191
    <3>1. \A y : y \in 3..n <=> y = 3
      BY <1>11
    <3>2. n = need + 1 <=> need = 2
      BY <1>7, <1>11
    <3> QED
      BY <1>8, <1>11, <2>1, <3>1, <3>2
  <2>9. b \in C => b \in 128..191
    BY <1>7
  <2> QED
    BY <1>6, <2>5, <2>7, <2>8, <2>9, SMT
<1>12. CASE n = 4
  <2>1. PICK b, d, e : b = c[2] /\ d = c[3] /\ e = c[4]
    OBVIOUS
  <2>2. b \in 0..255 /\ d \in 0..255 /\ e \in 0..255
    BY <1>2, <1>12, <2>1
  <2>3. Frames!Tails(c) <=> b \in 128..191 /\ d \in 128..191 /\ e \in 128..191
    <3>1. 2 \in 2..n /\ 3 \in 2..n /\ 4 \in 2..n /\ \A i \in 2..n : i = 2 \/ i = 3 \/ i = 4
      BY ONLY <1>12
    <3> QED
      BY ONLY <1>4, <2>1, <3>1
  <2>4. PICK v : v = Frames!Value(a - 240, c)
    OBVIOUS
  <2>5. Frames!IsChar(c) <=> /\ b \in 128..191 /\ d \in 128..191 /\ e \in 128..191
                             /\ a \in 240..247 /\ OfFour(v)
    BY <1>1, <1>3, <1>12, <2>3, <2>4, SMT DEF Frames!IsChar, OfFour
  <2>6. FourValue(v, a, b, d, e)
    <3>1. a - 240 \in Int /\ Len(c) = 4
      BY <1>1, <1>3, <1>12
    <3>2. FourValue(Frames!Value(a - 240, c), a, c[2], c[3], c[4])
      BY ONLY <3>1, c \in Seq(Byte), ValueIs DEF FourValue
    <3> QED
      BY ONLY <2>1, <2>4, <3>2
  <2>7. ASSUME b \in 128..191, d \in 128..191, e \in 128..191, a \in 240..247
        PROVE  OfFour(v) <=> a \in 240..244 /\ b \in C
    <3>1. OfFour(v) <=> FourFits(a, b)
      <4>1. a \in LeadFour /\ b \in More /\ d \in More /\ e \in More
        BY <2>7 DEF LeadFour, More
      <4> QED
        BY ONLY <2>6, <4>1, CharFour
    <3>2. a <= 244 <=> a \in 240..244
      BY <2>7
    <3>3. a \in 240..244 => (b \in C <=> (a = 240 => b >= 144) /\ (a = 244 => b <= 143))
      <4>1. a \in 240..244 => FirstOfFour(a, C)
        BY ONLY <1>5 DEF LeadSays
      <4> QED
        BY ONLY <2>7, <4>1 DEF FirstOfFour
    <3> QED
      BY ONLY <3>1, <3>2, <3>3 DEF FourFits
  <2>8. IsWhole(c) <=> kind # "bad" /\ need = 3 /\ b \in C /\ d \in 128..191 /\ e \in 128..191
    <3>1. \A y : y \in 3..n <=> y = 3 \/ y = 4
      BY <1>12
    <3>2. n = need + 1 <=> need = 3
      BY <1>7, <1>12
    <3> QED
      BY <1>8, <1>12, <2>1, <3>1, <3>2
  <2>9. b \in C => b \in 128..191
    BY <1>7
  <2>10. a \in 240..244 => a \in 240..247
    OBVIOUS
  <2> QED
    BY <1>6, <2>5, <2>7, <2>8, <2>9, <2>10, SMT
<1>13. CASE n > 4
  <2>1. ~Frames!IsChar(c)
    BY <1>1, <1>13, SMT DEF Frames!IsChar
  <2>2. n # need + 1
    BY <1>7, <1>13
  <2> QED
    BY <1>8, <2>1, <2>2
<1> QED
  BY <1>1, <1>9, <1>10, <1>11, <1>12, <1>13

\* Whether what begins at i is a text, from the end to the beginning.
TextRun(t, s) ==
    /\ t \in [1..(Len(s) + 1) -> BOOLEAN]
    /\ t[Len(s) + 1]
    /\ \A i \in 1..Len(s) :
           t[i] <=> \E j \in i..Len(s) : j <= i + 3 /\ Frames!IsChar(SubSeq(s, i, j)) /\ t[j + 1]

\* What Receiver calls a text is what such a function says of the first byte.
LEMMA TextSteps ==
    ASSUME NEW s \in Seq(Byte)
    PROVE  \E t : TextRun(t, s) /\ (Frames!IsText(s) <=> t[1])
<1>0. PICK n \in Nat : n = Len(s)
  OBVIOUS
<1> DEFINE D == 1..(n + 1)
           Body(g) == [i \in D |->
               \/ i = n + 1
               \/ \E j \in i..Frames!Min({i + 3, n}) : Frames!IsChar(SubSeq(s, i, j)) /\ g[j + 1]]
           text == CHOOSE g : g = Body(g)
           rank == [i \in D |-> (n + 1) - i]
           step == [g \in [D -> BOOLEAN] |-> Body(g)]
<1>1. Frames!IsText(s) = text[1]
  BY <1>0 DEF Frames!IsText
<1>2. ASSUME NEW i \in D, i # n + 1
      PROVE  /\ i \in 1..n /\ Frames!Min({i + 3, n}) \in Nat
             /\ \A j \in Nat : j <= Frames!Min({i + 3, n}) <=> j <= i + 3 /\ j <= n
  <2>1. i \in 1..n /\ i + 3 \in Nat
    BY <1>2
  <2>2. PICK m \in {i + 3, n} : m <= i + 3 /\ m <= n
    BY <2>1
  <2>3. Frames!Min({i + 3, n}) = m /\ m \in Nat
    BY <2>1, <2>2 DEF Frames!Min
  <2>4. \A j \in Nat : j <= m <=> j <= i + 3 /\ j <= n
    BY <2>1, <2>2, <2>3
  <2> QED
    BY <2>1, <2>3, <2>4
<1>3. ASSUME NEW i \in D, i # n + 1, NEW j \in i..Frames!Min({i + 3, n})
      PROVE  j \in i..n /\ j <= i + 3 /\ j + 1 \in D /\ i < j + 1
  <2>1. i \in 1..n /\ j \in Nat /\ i <= j /\ j <= Frames!Min({i + 3, n})
    BY <1>2, <1>3
  <2>2. j <= i + 3 /\ j <= n
    BY <1>2, <1>3, <2>1
  <2> QED
    BY <2>1, <2>2
<1>4. RankedStep(D, BOOLEAN, rank, step)
  <2>1. rank \in [D -> Nat]
    OBVIOUS
  <2>2. step \in [[D -> BOOLEAN] -> [D -> BOOLEAN]]
    <3>1. ASSUME NEW g \in [D -> BOOLEAN], NEW i \in D PROVE Body(g)[i] \in BOOLEAN
      OBVIOUS
    <3>2. ASSUME NEW g \in [D -> BOOLEAN] PROVE Body(g) \in [D -> BOOLEAN]
      <4>1. DOMAIN Body(g) = D /\ Body(g) = [i \in D |-> Body(g)[i]]
        OBVIOUS
      <4> HIDE DEF Body, D
      <4> QED
        BY <3>1, <4>1
    <3> HIDE DEF Body, D
    <3> QED
      BY <3>2
  <2>3. ASSUME NEW f \in [D -> BOOLEAN], NEW g \in [D -> BOOLEAN], NEW i \in D,
               \A e \in D : rank[e] < rank[i] => f[e] = g[e]
        PROVE  step[f][i] = step[g][i]
    <3>1. ASSUME i # n + 1, NEW j \in i..Frames!Min({i + 3, n}) PROVE f[j + 1] = g[j + 1]
      <4>1. j + 1 \in D /\ i < j + 1
        BY <1>3, <3>1
      <4>2. rank[j + 1] < rank[i]
        BY <4>1
      <4> QED
        BY <2>3, <4>1, <4>2
    <3>2. ASSUME i # n + 1 PROVE
          (\E j \in i..Frames!Min({i + 3, n}) : Frames!IsChar(SubSeq(s, i, j)) /\ f[j + 1])
             <=> \E j \in i..Frames!Min({i + 3, n}) : Frames!IsChar(SubSeq(s, i, j)) /\ g[j + 1]
      BY <3>1, <3>2
    <3>3. Body(f)[i] = Body(g)[i]
      BY <3>2
    <3>4. step[f] = Body(f) /\ step[g] = Body(g)
      OBVIOUS
    <3> HIDE DEF Body, step
    <3> QED
      BY <3>3, <3>4
  <2> HIDE DEF rank, step, D
  <2> QED
    BY <2>1, <2>2, <2>3 DEF RankedStep
<1>5. \E g : g = Body(g)
  <2>1. PICK g \in [D -> BOOLEAN] : g = step[g]
    <3> HIDE DEF rank, step, D
    <3> QED
      BY <1>4, BOOLEAN # {}, RankedRecursion
  <2>2. g = Body(g)
    BY <2>1
  <2> QED
    BY <2>2
<1>6. text = Body(text)
  <2> HIDE DEF Body
  <2> QED
    BY <1>5
<1> HIDE DEF text
<1>7. text \in [D -> BOOLEAN]
  <2>1. ASSUME NEW i \in D PROVE Body(text)[i] \in BOOLEAN
    OBVIOUS
  <2>2. Body(text) = [i \in D |-> Body(text)[i]]
    OBVIOUS
  <2> HIDE DEF Body, D
  <2> QED
    BY <1>6, <2>1, <2>2
<1>8. text[n + 1]
  <2>1. n + 1 \in D
    OBVIOUS
  <2>2. Body(text)[n + 1]
    BY <2>1
  <2> QED
    BY <1>6, <2>2
<1>9. ASSUME NEW i \in 1..n
      PROVE  text[i] <=> \E j \in i..n : j <= i + 3 /\ Frames!IsChar(SubSeq(s, i, j)) /\ text[j + 1]
  <2>1. i \in D /\ i # n + 1
    OBVIOUS
  <2>2. text[i] <=> \E j \in i..Frames!Min({i + 3, n}) :
                        Frames!IsChar(SubSeq(s, i, j)) /\ text[j + 1]
    <3>1. Body(text)[i] <=> \E j \in i..Frames!Min({i + 3, n}) :
                                Frames!IsChar(SubSeq(s, i, j)) /\ text[j + 1]
      BY <2>1
    <3> HIDE DEF Body
    <3> QED
      BY <1>6, <3>1
  <2>3. \A j : j \in i..Frames!Min({i + 3, n}) <=> j \in i..n /\ j <= i + 3
    BY <1>2, <2>1
  <2> QED
    BY <2>2, <2>3
<1>10. TextRun(text, s)
  BY <1>0, <1>7, <1>8, <1>9 DEF TextRun
<1> QED
  BY <1>1, <1>10

\* The text may end here.
Takes(st) == st.kind # "bad" /\ Utf8Done(st)

\* An automaton that has failed does not recover.
LEMMA BadStays ==
    ASSUME NEW st, NEW s \in Seq(Byte), NEW r, Utf8Run(r, st, s),
           NEW p \in 0..Len(s), r[p].kind = "bad"
    PROVE  r[Len(s)].kind = "bad" /\ ~Takes(r[Len(s)])
<1>1. PICK n \in Nat : n = Len(s) /\ p \in 0..n
  OBVIOUS
<1> DEFINE T == {i \in Nat : p <= i /\ i <= n => r[i].kind = "bad"}
<1>2. 0 \in T
  <2>1. p <= 0 => p = 0
    BY <1>1
  <2> QED
    BY <2>1
<1>3. ASSUME NEW i \in Nat, i \in T PROVE i + 1 \in T
  <2> SUFFICES ASSUME p <= i + 1, i + 1 <= n PROVE r[i + 1].kind = "bad"
    OBVIOUS
  <2>1. CASE p = i + 1
    BY <2>1
  <2>2. CASE p <= i
    <3>1. i + 1 \in 1..n /\ (i + 1) - 1 = i /\ i <= n
      BY <1>1
    <3>2. r[i].kind = "bad"
      BY <1>3, <2>2, <3>1
    <3>3. r[i + 1] = Utf8Next(r[i], s[i + 1])
      BY <1>1, <3>1 DEF Utf8Run
    <3> QED
      BY <3>2, <3>3 DEF Utf8Next
  <2> QED
    BY <1>1, <2>1, <2>2
<1>4. \A i \in Nat : i \in T
  <2> HIDE DEF T
  <2> QED
    BY <1>2, <1>3, NatUp
<1>5. r[n].kind = "bad"
  <2>1. p <= n /\ n <= n
    BY <1>1
  <2> QED
    BY <1>4, <2>1
<1> QED
  BY <1>1, <1>5 DEF Takes

\* A byte that is not expected, or is missing, is not made up for.
LEMMA Expected ==
    ASSUME NEW st, NEW s \in Seq(Byte), NEW r, Utf8Run(r, st, s), NEW p \in 0..Len(s),
           NEW q \in Nat, NEW kind, kind # "bad", r[p] = [need |-> q + 1, kind |-> kind]
    PROVE  IF p < Len(s) /\ s[p + 1] \in Continuation(kind)
           THEN r[p + 1] = [need |-> q, kind |-> "gen"]
           ELSE ~Takes(r[Len(s)])
<1>1. PICK n \in Nat : n = Len(s) /\ p \in 0..n
  OBVIOUS
<1>2. r[p].need = q + 1 /\ r[p].kind = kind /\ q + 1 # 0 /\ (q + 1) - 1 = q
  OBVIOUS
<1>3. CASE p < n
  <2>1. p + 1 \in 1..n /\ (p + 1) - 1 = p /\ p + 1 \in 0..n
    BY <1>1, <1>3
  <2>2. r[p + 1] = Utf8Next(r[p], s[p + 1])
    BY <1>1, <2>1 DEF Utf8Run
  <2>3. CASE s[p + 1] \in Continuation(kind)
    <3>1. r[p + 1] = [need |-> q, kind |-> "gen"]
      BY <1>2, <2>2, <2>3 DEF Utf8Next
    <3> QED
      BY <1>1, <1>3, <2>3, <3>1
  <2>4. CASE s[p + 1] \notin Continuation(kind)
    <3>1. r[p + 1] = Utf8Bad
      BY <1>2, <2>2, <2>4 DEF Utf8Next
    <3>2. r[p + 1].kind = "bad" /\ p + 1 \in 0..Len(s)
      BY <1>1, <2>1, <3>1 DEF Utf8Bad
    <3>3. ~Takes(r[Len(s)])
      BY <3>2, BadStays
    <3> QED
      BY <2>4, <3>3
  <2> QED
    BY <2>3, <2>4
<1>4. CASE ~(p < n)
  <2>1. p = n
    BY <1>1, <1>4
  <2>2. ~Takes(r[Len(s)])
    BY <1>1, <1>2, <2>1 DEF Takes, Utf8Done
  <2> QED
    BY <1>1, <1>4, <2>2
<1> QED
  BY <1>3, <1>4

\* Of a character all bytes but the first two are alike.
LEMMA Rest ==
    ASSUME NEW st, NEW s \in Seq(Byte), NEW r, Utf8Run(r, st, s), NEW p \in 0..Len(s),
           NEW q \in 0..2, r[p] = [need |-> q, kind |-> "gen"]
    PROVE  IF /\ p + q <= Len(s)
              /\ q > 0 => s[p + 1] \in 128..191
              /\ q > 1 => s[p + 2] \in 128..191
           THEN Takes(r[p + q])
           ELSE ~Takes(r[Len(s)])
<1>1. PICK n \in Nat : n = Len(s) /\ p \in 0..n
  OBVIOUS
<1>2. Continuation("gen") = 128..191 /\ "gen" # "bad"
  BY DEF Continuation
<1>3. ASSUME NEW o \in 0..n, r[o] = [need |-> 0, kind |-> "gen"] PROVE Takes(r[o])
  BY <1>3 DEF Takes, Utf8Done
<1>4. ASSUME NEW o \in 0..n, r[o] = [need |-> 1, kind |-> "gen"]
      PROVE  IF o + 1 <= n /\ s[o + 1] \in 128..191 THEN Takes(r[o + 1]) ELSE ~Takes(r[n])
  <2>1. r[o] = [need |-> 0 + 1, kind |-> "gen"] /\ o \in 0..Len(s)
    BY <1>1, <1>4
  <2>2. IF o < Len(s) /\ s[o + 1] \in Continuation("gen")
        THEN r[o + 1] = [need |-> 0, kind |-> "gen"]
        ELSE ~Takes(r[Len(s)])
    BY <1>2, <2>1, Expected
  <2>3. o < n <=> o + 1 <= n
    BY <1>1
  <2>4. o + 1 <= n => o + 1 \in 0..n
    BY <1>1
  <2> QED
    BY <1>1, <1>2, <1>3, <2>2, <2>3, <2>4
<1>5. CASE q = 0
  <2>1. p + q = p /\ p <= n
    BY <1>1, <1>5
  <2>2. Takes(r[p])
    BY <1>1, <1>3, <1>5
  <2> QED
    BY <1>1, <1>5, <2>1, <2>2
<1>6. CASE q = 1
  <2>1. r[p] = [need |-> 1, kind |-> "gen"] /\ p \in 0..n
    BY <1>1, <1>6
  <2>2. IF p + 1 <= n /\ s[p + 1] \in 128..191 THEN Takes(r[p + 1]) ELSE ~Takes(r[n])
    BY <1>4, <2>1
  <2> QED
    BY <1>1, <1>6, <2>2
<1>7. CASE q = 2
  <2>1. r[p] = [need |-> 1 + 1, kind |-> "gen"] /\ p \in 0..Len(s)
    BY <1>1, <1>7
  <2>2. IF p < Len(s) /\ s[p + 1] \in Continuation("gen")
        THEN r[p + 1] = [need |-> 1, kind |-> "gen"]
        ELSE ~Takes(r[Len(s)])
    BY <1>2, <2>1, Expected
  <2>3. CASE p < n /\ s[p + 1] \in 128..191
    <3>1. p + 1 \in 0..n /\ (p + 1) + 1 = p + 2 /\ r[p + 1] = [need |-> 1, kind |-> "gen"]
      BY <1>1, <1>2, <2>2, <2>3
    <3>2. IF p + 2 <= n /\ s[p + 2] \in 128..191 THEN Takes(r[p + 2]) ELSE ~Takes(r[n])
      BY <1>4, <3>1
    <3> QED
      BY <1>1, <1>7, <2>3, <3>2
  <2>4. CASE ~(p < n /\ s[p + 1] \in 128..191)
    <3>1. ~Takes(r[n])
      BY <1>1, <1>2, <2>2, <2>4
    <3>2. p + q <= n => p < n
      BY <1>1, <1>7
    <3> QED
      BY <1>1, <1>7, <2>4, <3>1, <3>2
  <2> QED
    BY <2>3, <2>4
<1> QED
  BY <1>5, <1>6, <1>7

\* A character is a lead byte and what it expects.
LEMMA WholeAt ==
    ASSUME NEW s \in Seq(Byte), NEW i \in 1..Len(s), NEW j \in i..Len(s)
    PROVE  /\ SubSeq(s, i, j) \in Seq(Byte) /\ SubSeq(s, i, j) # <<>>
           /\ IsWhole(SubSeq(s, i, j)) <=>
                 /\ Lead(s[i]).kind # "bad" /\ j = i + Lead(s[i]).need
                 /\ j > i => s[i + 1] \in Continuation(Lead(s[i]).kind)
                 /\ j > i + 1 => s[i + 2] \in 128..191
                 /\ j > i + 2 => s[i + 3] \in 128..191
<1>1. PICK c : c = SubSeq(s, i, j)
  OBVIOUS
<1>2. PICK k \in Nat : k = j - i
  OBVIOUS
<1>3. /\ c \in Seq(Byte) /\ Len(c) = k + 1 /\ \A y \in 1..(k + 1) : c[y] = s[i + y - 1]
  <2>1. i \in 1..Len(s) /\ j \in 0..Len(s) /\ i - 1 <= j
    OBVIOUS
  <2>2. c \in Seq(Byte) /\ Len(c) = j - i + 1 /\ \A y \in 1..(j - i + 1) : c[y] = s[i + y - 1]
    BY <1>1, <2>1, Cut
  <2>3. j - i + 1 = k + 1
    BY <1>2
  <2> QED
    BY <2>2, <2>3
<1>4. i + 1 - 1 = i /\ i + 2 - 1 = i + 1 /\ i + 3 - 1 = i + 2 /\ i + 4 - 1 = i + 3
  OBVIOUS
<1>5. c[1] = s[i]
  BY <1>3, <1>4
<1>6. PICK l : l = Lead(s[i])
  OBVIOUS
<1>7. l.need \in 0..3
  <2>1. s[i] \in Byte
    OBVIOUS
  <2>2. l \in Utf8State
    BY <1>6, <2>1, LeadTyped
  <2> QED
    BY <2>2 DEF Utf8State
<1>8. IsWhole(c) <=> /\ l.kind # "bad" /\ k = l.need
                     /\ k > 0 => c[2] \in Continuation(l.kind)
                     /\ \A y \in 3..(k + 1) : c[y] \in 128..191
  <2>1. k + 1 = l.need + 1 <=> k = l.need
    BY <1>7
  <2>2. k + 1 > 1 <=> k > 0
    OBVIOUS
  <2>3. Len(c) = k + 1 /\ Lead(c[1]) = l
    BY ONLY <1>3, <1>5, <1>6
  <2> DEFINE rest == \A y \in 3..(k + 1) : c[y] \in 128..191
  <2>4. IsWhole(c) <=> l.kind # "bad" /\ k + 1 = l.need + 1 /\ Follows(c)
    BY ONLY <2>3 DEF IsWhole
  <2>5. Follows(c) <=> (k + 1 > 1 => c[2] \in Continuation(l.kind)) /\ rest
    BY ONLY <2>3 DEF Follows
  <2>6. IsWhole(c) <=> l.kind # "bad" /\ k = l.need /\ Follows(c)
    BY ONLY <2>1, <2>4
  <2>7. Follows(c) <=> (k > 0 => c[2] \in Continuation(l.kind)) /\ rest
    <3> HIDE DEF rest
    <3> QED
      BY ONLY <2>2, <2>5
  <2> HIDE DEF rest
  <2>8. IsWhole(c) <=> /\ l.kind # "bad" /\ k = l.need
                       /\ k > 0 => c[2] \in Continuation(l.kind)
                       /\ rest
    BY ONLY <2>6, <2>7
  <2> QED
    BY ONLY <2>8 DEF rest
<1>9. j = i + l.need <=> k = l.need
  BY <1>2, <1>7
<1>10. /\ k > 0 => c[2] = s[i + 1]
       /\ k > 1 => c[3] = s[i + 2]
       /\ k > 2 => c[4] = s[i + 3]
  BY <1>3, <1>4
<1>11. (j > i <=> k > 0) /\ (j > i + 1 <=> k > 1) /\ (j > i + 2 <=> k > 2)
  BY <1>2
<1>12. k \in 0..3 =>
          ((\A y \in 3..(k + 1) : c[y] \in 128..191)
              <=> (k > 1 => c[3] \in 128..191) /\ (k > 2 => c[4] \in 128..191))
  <2> SUFFICES ASSUME k \in 0..3
               PROVE  (\A y \in 3..(k + 1) : c[y] \in 128..191)
                         <=> (k > 1 => c[3] \in 128..191) /\ (k > 2 => c[4] \in 128..191)
    OBVIOUS
  <2>1. \A y \in 3..(k + 1) : (k > 1 /\ y = 3) \/ (k > 2 /\ y = 4)
    OBVIOUS
  <2>2. (k > 1 => 3 \in 3..(k + 1)) /\ (k > 2 => 4 \in 3..(k + 1))
    OBVIOUS
  <2>3. ASSUME \A y \in 3..(k + 1) : c[y] \in 128..191
        PROVE  (k > 1 => c[3] \in 128..191) /\ (k > 2 => c[4] \in 128..191)
    BY ONLY <2>2, <2>3
  <2>4. ASSUME (k > 1 => c[3] \in 128..191) /\ (k > 2 => c[4] \in 128..191),
               NEW y \in 3..(k + 1)
        PROVE  c[y] \in 128..191
    <3>1. CASE k > 1 /\ y = 3
      BY ONLY <2>4, <3>1
    <3>2. CASE k > 2 /\ y = 4
      BY ONLY <2>4, <3>2
    <3> QED
      BY ONLY <2>1, y \in 3..(k + 1), <3>1, <3>2
  <2> QED
    BY ONLY <2>3, <2>4
<1>13. IsWhole(c) <=> /\ l.kind # "bad" /\ k = l.need
                      /\ k > 0 => s[i + 1] \in Continuation(l.kind)
                      /\ k > 1 => s[i + 2] \in 128..191
                      /\ k > 2 => s[i + 3] \in 128..191
  <2>1. k = l.need => k \in 0..3
    BY ONLY <1>7
  <2>2. /\ k > 0 => (c[2] \in Continuation(l.kind) <=> s[i + 1] \in Continuation(l.kind))
        /\ k > 1 => (c[3] \in 128..191 <=> s[i + 2] \in 128..191)
        /\ k > 2 => (c[4] \in 128..191 <=> s[i + 3] \in 128..191)
    BY ONLY <1>10
  <2>3. k = l.need =>
           ((\A y \in 3..(k + 1) : c[y] \in 128..191)
               <=> (k > 1 => s[i + 2] \in 128..191) /\ (k > 2 => s[i + 3] \in 128..191))
    BY ONLY <1>12, <2>1, <2>2
  <2> QED
    BY ONLY <1>8, <2>2, <2>3
<1>14. c # <<>>
  BY <1>3
<1> QED
  BY <1>1, <1>3, <1>6, <1>9, <1>11, <1>13, <1>14

\* From the end of one character the automaton gets to the end of the next, or
\* it does not get to the end of a text any more.
LEMMA CharRun ==
    ASSUME NEW st, NEW s \in Seq(Byte), NEW r, Utf8Run(r, st, s),
           NEW i \in 1..Len(s), Takes(r[i - 1])
    PROVE  IF \E j \in i..Len(s) : IsWhole(SubSeq(s, i, j))
           THEN Takes(r[i + Lead(s[i]).need])
           ELSE ~Takes(r[Len(s)])
<1>1. PICK n \in Nat : n = Len(s) /\ i \in 1..n
  OBVIOUS
<1>2. PICK l \in Utf8State : l = Lead(s[i])
  BY LeadTyped
<1>3. PICK m \in 0..3 : m = l.need
  BY DEF Utf8State
<1>4. r[i] = l
  <2>1. r[i] = Utf8Next(r[i - 1], s[i])
    BY DEF Utf8Run
  <2> QED
    BY <1>2, <2>1 DEF Takes, Utf8Done, Utf8Next
<1>5. (\E j \in i..Len(s) : IsWhole(SubSeq(s, i, j)))
         <=> /\ l.kind # "bad" /\ i + m <= n
             /\ m > 0 => s[i + 1] \in Continuation(l.kind)
             /\ m > 1 => s[i + 2] \in 128..191
             /\ m > 2 => s[i + 3] \in 128..191
  <2>1. ASSUME NEW j \in i..n
        PROVE  IsWhole(SubSeq(s, i, j)) <=>
                  /\ l.kind # "bad" /\ j = i + m
                  /\ j > i => s[i + 1] \in Continuation(l.kind)
                  /\ j > i + 1 => s[i + 2] \in 128..191
                  /\ j > i + 2 => s[i + 3] \in 128..191
    <3>1. s \in Seq(Byte) /\ i \in 1..Len(s) /\ j \in i..Len(s)
      BY <1>1
    <3>2. IsWhole(SubSeq(s, i, j)) <=>
             /\ Lead(s[i]).kind # "bad" /\ j = i + Lead(s[i]).need
             /\ j > i => s[i + 1] \in Continuation(Lead(s[i]).kind)
             /\ j > i + 1 => s[i + 2] \in 128..191
             /\ j > i + 2 => s[i + 3] \in 128..191
      BY ONLY <3>1, WholeAt
    <3> QED
      BY ONLY <1>2, <1>3, <3>2
  <2>2. i + m \in i..n <=> i + m <= n
    BY <1>1
  <2>3. (i + m > i <=> m > 0) /\ (i + m > i + 1 <=> m > 1) /\ (i + m > i + 2 <=> m > 2)
    BY <1>1
  <2>4. PICK k : k = i + m
    OBVIOUS
  <2>5. (\E j \in i..n : IsWhole(SubSeq(s, i, j)))
           <=> /\ l.kind # "bad" /\ k \in i..n
               /\ k > i => s[i + 1] \in Continuation(l.kind)
               /\ k > i + 1 => s[i + 2] \in 128..191
               /\ k > i + 2 => s[i + 3] \in 128..191
    BY ONLY <2>1, <2>4
  <2> QED
    BY <1>1, <2>2, <2>3, <2>4, <2>5
<1>6. CASE l.kind = "bad"
  <2>1. i \in 0..Len(s) /\ r[i].kind = "bad"
    BY <1>4, <1>6
  <2>2. ~Takes(r[Len(s)])
    BY <2>1, BadStays
  <2> QED
    BY <1>5, <1>6, <2>2
<1>7. CASE l.kind # "bad" /\ m = 0
  <2>1. Takes(r[i])
    BY <1>3, <1>4, <1>7 DEF Takes, Utf8Done
  <2>2. i + m = i /\ i <= n
    BY <1>1, <1>7
  <2> QED
    BY <1>2, <1>3, <1>5, <1>7, <2>1, <2>2
<1>8. CASE l.kind # "bad" /\ m > 0
  <2>1. PICK q \in 0..2 : m = q + 1
    BY <1>8
  <2>2. l = [need |-> q + 1, kind |-> l.kind] /\ i \in 0..Len(s) /\ q \in Nat
    <3>1. l = [need |-> l.need, kind |-> l.kind]
      BY <1>2 DEF Utf8State
    <3>2. l.need = q + 1
      BY <1>3, <2>1
    <3>3. i \in 0..Len(s) /\ q \in Nat
      BY <1>1
    <3> QED
      BY <3>1, <3>2, <3>3
  <2>3. IF i < Len(s) /\ s[i + 1] \in Continuation(l.kind)
        THEN r[i + 1] = [need |-> q, kind |-> "gen"]
        ELSE ~Takes(r[Len(s)])
    BY <1>4, <1>8, <2>2, Expected
  <2>4. CASE i < n /\ s[i + 1] \in Continuation(l.kind)
    <3>1. r[i + 1] = [need |-> q, kind |-> "gen"] /\ i + 1 \in 0..Len(s)
      BY <1>1, <2>3, <2>4
    <3>2. IF /\ (i + 1) + q <= Len(s)
             /\ q > 0 => s[(i + 1) + 1] \in 128..191
             /\ q > 1 => s[(i + 1) + 2] \in 128..191
          THEN Takes(r[(i + 1) + q])
          ELSE ~Takes(r[Len(s)])
      BY <3>1, Rest
    <3>3. /\ (i + 1) + q = i + m /\ (i + 1) + 1 = i + 2 /\ (i + 1) + 2 = i + 3
          /\ (q > 0 <=> m > 1) /\ (q > 1 <=> m > 2)
      BY <1>1, <2>1
    <3> QED
      BY <1>1, <1>2, <1>3, <1>5, <1>8, <2>4, <3>2, <3>3
  <2>5. CASE ~(i < n /\ s[i + 1] \in Continuation(l.kind))
    <3>1. ~Takes(r[n])
      BY <1>1, <2>3, <2>5
    <3>2. i + m <= n => i < n
      BY <1>1, <1>8
    <3> QED
      BY <1>1, <1>5, <1>8, <2>5, <3>1, <3>2
  <2> QED
    BY <2>4, <2>5
<1> QED
  BY <1>6, <1>7, <1>8

\* wsUtf8Feed() and wsUtf8Done() accept what is a sequence of characters by RFC
\* 3629, and nothing else (ws.c:144-204).
LEMMA TextAccepted ==
    ASSUME NEW s \in Seq(Byte)
    PROVE  Takes(Utf8Feed(Utf8Start, s)) <=> Frames!IsText(s)
<1>0. PICK n \in Nat : n = Len(s)
  OBVIOUS
<1>1. PICK r : Utf8Run(r, Utf8Start, s) /\ Utf8Feed(Utf8Start, s) = r[n]
  <2>1. Utf8Start \in Utf8State
    BY DEF Utf8Start, Utf8State
  <2> QED
    BY <1>0, <2>1, FeedSteps
<1>2. PICK t : TextRun(t, s) /\ (Frames!IsText(s) <=> t[1])
  BY TextSteps
<1> DEFINE Right(i) == Takes(r[i - 1]) => (Takes(r[n]) <=> t[i])
           T == {k \in Nat : \A i \in 1..(n + 1) : i + k >= n + 1 => Right(i)}
<1>3. Right(n + 1)
  <2>1. (n + 1) - 1 = n
    OBVIOUS
  <2> QED
    BY <1>0, <1>2, <2>1 DEF TextRun
<1>4. ASSUME NEW i \in 1..n, Takes(r[i - 1]),
             \A j \in i..n : j + 1 \in 1..(n + 1) => Right(j + 1)
      PROVE  Takes(r[n]) <=> t[i]
  <2>1. PICK m \in Nat : m = Lead(s[i]).need
    <3>1. s[i] \in Byte
      BY <1>0
    <3>2. Lead(s[i]) \in Utf8State
      BY <3>1, LeadTyped
    <3> QED
      BY <3>2 DEF Utf8State
  <2>2. t[i] <=> \E j \in i..n : j <= i + 3 /\ IsWhole(SubSeq(s, i, j)) /\ t[j + 1]
    <3>1. t[i] <=> \E j \in i..n : j <= i + 3 /\ Frames!IsChar(SubSeq(s, i, j)) /\ t[j + 1]
      BY <1>0, <1>2 DEF TextRun
    <3>2. ASSUME NEW j \in i..n
          PROVE  Frames!IsChar(SubSeq(s, i, j)) <=> IsWhole(SubSeq(s, i, j))
      <4>1. SubSeq(s, i, j) \in Seq(Byte) /\ SubSeq(s, i, j) # <<>>
        BY <1>0, WholeAt
      <4> QED
        BY <4>1, CharWhole
    <3>3. \A j \in i..n : (j <= i + 3 /\ Frames!IsChar(SubSeq(s, i, j)) /\ t[j + 1])
                              <=> (j <= i + 3 /\ IsWhole(SubSeq(s, i, j)) /\ t[j + 1])
      BY ONLY <3>2
    <3>4. (\E j \in i..n : j <= i + 3 /\ Frames!IsChar(SubSeq(s, i, j)) /\ t[j + 1])
             <=> \E j \in i..n : j <= i + 3 /\ IsWhole(SubSeq(s, i, j)) /\ t[j + 1]
      BY ONLY <3>3
    <3> QED
      BY ONLY <3>1, <3>4
  <2>3. \A j \in i..n : IsWhole(SubSeq(s, i, j)) => j = i + m
    BY <1>0, <2>1, WholeAt
  <2>4. IF \E j \in i..n : IsWhole(SubSeq(s, i, j)) THEN Takes(r[i + m]) ELSE ~Takes(r[n])
    BY <1>0, <1>1, <1>4, <2>1, CharRun
  <2>5. CASE \E j \in i..n : IsWhole(SubSeq(s, i, j))
    <3>1. PICK j \in i..n : IsWhole(SubSeq(s, i, j))
      BY <2>5
    <3>2. j = i + m /\ j + 1 \in 1..(n + 1) /\ (j + 1) - 1 = j /\ j <= i + 3
      <4>1. j = i + m
        BY <2>3, <3>1
      <4>2. m <= 3
        <5>1. s[i] \in Byte
          BY <1>0
        <5>2. Lead(s[i]) \in Utf8State
          BY <5>1, LeadTyped
        <5> QED
          BY <2>1, <5>2 DEF Utf8State
      <4> QED
        BY <4>1, <4>2
    <3>3. Takes(r[n]) <=> t[j + 1]
      <4>1. Takes(r[j])
        BY <2>4, <2>5, <3>2
      <4>2. Right(j + 1)
        BY <1>4, <3>2
      <4> QED
        BY <3>2, <4>1, <4>2
    <3>4. t[i] <=> t[j + 1]
      <4>1. \A k \in i..n : IsWhole(SubSeq(s, i, k)) => k = j
        BY <2>3, <3>2
      <4> QED
        BY <2>2, <3>1, <3>2, <4>1
    <3> QED
      BY <3>3, <3>4
  <2>6. CASE ~\E j \in i..n : IsWhole(SubSeq(s, i, j))
    BY <2>2, <2>4, <2>6, <1>2, <1>0 DEF TextRun
  <2> QED
    BY <2>5, <2>6
<1>5. 0 \in T
  <2>1. ASSUME NEW i \in 1..(n + 1), i + 0 >= n + 1 PROVE Right(i)
    <3>1. i = n + 1
      BY <2>1
    <3> QED
      BY <1>3, <3>1
  <2> HIDE DEF Right
  <2> QED
    BY <2>1
<1>6. ASSUME NEW k \in Nat, k \in T PROVE k + 1 \in T
  <2>1. ASSUME NEW i \in 1..(n + 1), i + (k + 1) >= n + 1 PROVE Right(i)
    <3>1. CASE i = n + 1
      BY <1>3, <3>1
    <3>2. CASE i # n + 1
      <4>1. i \in 1..n
        BY <3>2
      <4>2. ASSUME NEW j \in i..n, j + 1 \in 1..(n + 1) PROVE Right(j + 1)
        <5>1. (j + 1) + k >= n + 1
          BY <2>1, <4>2
        <5> HIDE DEF Right
        <5> QED
          BY <1>6, <4>2, <5>1
      <4>3. ASSUME Takes(r[i - 1]) PROVE Takes(r[n]) <=> t[i]
        BY <1>4, <4>1, <4>2, <4>3
      <4> QED
        BY <4>3
    <3> QED
      BY <3>1, <3>2
  <2> HIDE DEF Right
  <2> QED
    BY <2>1
<1>7. \A k \in Nat : k \in T
  <2> HIDE DEF T
  <2> QED
    BY <1>5, <1>6, NatUp
<1>8. Right(1)
  <2>1. n \in T
    <3> HIDE DEF T
    <3> QED
      BY <1>7
  <2>2. 1 \in 1..(n + 1) /\ 1 + n >= n + 1
    OBVIOUS
  <2> QED
    BY <2>1, <2>2
<1>9. Takes(r[0])
  BY <1>1 DEF Utf8Run, Takes, Utf8Done, Utf8Start
<1>10. Takes(r[n]) <=> t[1]
  <2>1. 1 - 1 = 0
    OBVIOUS
  <2> QED
    BY <1>8, <1>9, <2>1
<1> QED
  BY <1>1, <1>2, <1>10

-----------------------------------------------------------------------------
(* The texts that are published and those that are refused *)

\* What the automaton has seen is the text assembled so far, however it is
\* divided into frames.
TextInv ==
    fragmenting => msgUtf8 = IF msgOpcode = OpText THEN Utf8Feed(Utf8Start, msg.text)
                             ELSE Utf8Start

\* Nothing is the beginning of any text.
LEMMA FedNothing == Utf8Feed(Utf8Start, <<>>) = Utf8Start
<1>1. Utf8Start \in Utf8State /\ <<>> \in Seq(Byte) /\ Len(<<>>) = 0
  BY DEF Utf8Start, Utf8State
<1>2. PICK r : Utf8Run(r, Utf8Start, <<>>) /\ Utf8Feed(Utf8Start, <<>>) = r[Len(<<>>)]
  BY <1>1, FeedSteps
<1> QED
  BY <1>1, <1>2 DEF Utf8Run

\* A frame is fed to the automaton behind the text before it.
LEMMA FedWhole ==
    ASSUME InputInv, MessageInv, TextInv, HasData, InPlace
    PROVE  /\ WithFrame.text \in Seq(Byte)
           /\ Assembly.utf8 = IF Assembly.op = OpText THEN Utf8Feed(Utf8Start, Assembly.msg.text)
                              ELSE Utf8Start
           /\ FedUtf8 = IF Assembly.op = OpText THEN Utf8Feed(Utf8Start, WithFrame.text)
                        ELSE Utf8Start
<1>1. PICK a, b : a = Assembly.msg.text /\ b = Bytes
  OBVIOUS
<1>2. a \in Seq(Byte) /\ b \in Seq(Byte)
  <2>1. HasFrame
    BY DEF HasData
  <2>2. PartOf(Assembly.msg, used)
    BY Assembled
  <2> QED
    BY <1>1, <2>1, <2>2, FrameRead DEF PartOf
<1>3. WithFrame.text = a \o b
  BY <1>1 DEF WithFrame
<1>4. a \o b \in Seq(Byte)
  BY <1>2, ConcatAt
<1>5. Assembly.utf8 = IF Assembly.op = OpText THEN Utf8Feed(Utf8Start, a) ELSE Utf8Start
  <2>1. CASE fragmenting
    <3>1. Assembly.op = msgOpcode /\ Assembly.msg = msg /\ Assembly.utf8 = msgUtf8
      BY <2>1 DEF Assembly
    <3> QED
      BY <1>1, <2>1, <3>1 DEF TextInv
  <2>2. CASE ~fragmenting
    <3>1. Assembly.msg = [len |-> 0, text |-> <<>>] /\ Assembly.utf8 = Utf8Start
      BY <2>2 DEF Assembly
    <3>2. a = <<>>
      BY <1>1, <3>1
    <3> QED
      BY <3>1, <3>2, FedNothing
  <2> QED
    BY <2>1, <2>2
<1>6. Utf8Feed(Utf8Start, a \o b) = Utf8Feed(Utf8Feed(Utf8Start, a), b)
  BY <1>2, FeedJoined
<1>7. FedUtf8 = IF Assembly.op = OpText THEN Utf8Feed(Utf8Start, a \o b) ELSE Utf8Start
  BY <1>1, <1>5, <1>6 DEF FedUtf8
<1> QED
  BY <1>1, <1>3, <1>4, <1>5, <1>7

\* Every step keeps the automaton at the end of the text.
LEMMA TextStep == InputInv /\ MessageInv /\ TextInv /\ [Next]_vars => TextInv'
<1> SUFFICES ASSUME InputInv, MessageInv, TextInv, [Next]_vars PROVE TextInv'
  OBVIOUS
<1>1. CASE UNCHANGED vars
  BY <1>1 DEF TextInv, vars, msgVars
<1>2. CASE RefuseMessage
  <2>1. HasData /\ InPlace
    BY <1>2 DEF RefuseMessage
  <2>2. msgOpcode' = Assembly.op /\ msg' = Assembly.msg /\ msgUtf8' = Assembly.utf8
    BY <1>2 DEF RefuseMessage
  <2>3. Assembly.utf8 = IF Assembly.op = OpText THEN Utf8Feed(Utf8Start, Assembly.msg.text)
                        ELSE Utf8Start
    BY <2>1, FedWhole
  <2> QED
    BY <2>2, <2>3 DEF TextInv
<1>3. CASE Fragment
  <2>1. HasData /\ InPlace
    BY <1>3 DEF Fragment, DataInOrder
  <2>2. msgOpcode' = Assembly.op /\ msg' = WithFrame /\ msgUtf8' = FedUtf8
    BY <1>3 DEF Fragment
  <2>3. FedUtf8 = IF Assembly.op = OpText THEN Utf8Feed(Utf8Start, WithFrame.text)
                  ELSE Utf8Start
    BY <2>1, FedWhole
  <2> QED
    BY <2>2, <2>3 DEF TextInv
<1>4. CASE RefuseText \/ Publish
  BY <1>4 DEF RefuseText, Publish, TextInv
<1>5. CASE Next /\ ~RefuseMessage /\ ~Fragment /\ ~RefuseText /\ ~Publish
  <2>1. UNCHANGED <<fragmenting, msgOpcode, msg, msgUtf8>>
    BY <1>5, MessageEffects
  <2> QED
    BY <2>1 DEF TextInv
<1> QED
  BY <1>1, <1>2, <1>3, <1>4, <1>5

\* Every text published so far is UTF-8.
TextsAreText == \A i \in DOMAIN published :
                    published[i].op = OpText => Frames!IsText(published[i].text)

\* Publishing a message publishes no text that is not UTF-8.
LEMMA PublishedStep ==
    InputInv /\ MessageInv /\ TextInv /\ TextsAreText /\ [Next]_vars => TextsAreText'
<1> SUFFICES ASSUME InputInv, MessageInv, TextInv, TextsAreText, [Next]_vars
             PROVE  TextsAreText'
  OBVIOUS
<1>1. CASE published' = published
  BY <1>1 DEF TextsAreText
<1>2. CASE Publish
  <2>1. HasData /\ InPlace /\ FedUtf8.kind # "bad" /\ (Assembly.op = OpText => Utf8Done(FedUtf8))
    BY <1>2 DEF Publish, DataInOrder
  <2>2. PICK m : m = [op |-> Assembly.op, len |-> WithFrame.len, text |-> WithFrame.text]
    OBVIOUS
  <2>3. published' = Append(published, m)
    BY <1>2, <2>2 DEF Publish
  <2>4. m.op = OpText => Frames!IsText(m.text)
    <3>1. SUFFICES ASSUME Assembly.op = OpText PROVE Frames!IsText(WithFrame.text)
      BY <2>2
    <3>2. WithFrame.text \in Seq(Byte) /\ FedUtf8 = Utf8Feed(Utf8Start, WithFrame.text)
      BY <2>1, <3>1, FedWhole
    <3>3. Takes(Utf8Feed(Utf8Start, WithFrame.text))
      BY <2>1, <3>1, <3>2 DEF Takes
    <3> QED
      BY <3>2, <3>3, TextAccepted
  <2>5. published \in Seq(Message)
    BY DEF MessageInv
  <2>6. ASSUME NEW i \in DOMAIN published', published'[i].op = OpText
        PROVE  Frames!IsText(published'[i].text)
    <3>1. /\ Len(published) \in Nat /\ i \in 1..(Len(published) + 1)
          /\ DOMAIN published = 1..Len(published)
      BY <2>3, <2>5, <2>6
    <3>2. CASE i = Len(published) + 1
      <4>1. published'[i] = m
        BY <2>3, <2>5, <3>2
      <4> QED
        BY <2>4, <2>6, <4>1
    <3>3. CASE i # Len(published) + 1
      <4>1. i \in DOMAIN published
        BY <3>1, <3>3
      <4>2. published'[i] = published[i]
        BY <2>3, <2>5, <4>1
      <4> QED
        BY <2>6, <4>1, <4>2 DEF TextsAreText
    <3> QED
      BY <3>1, <3>2, <3>3
  <2> QED
    BY <2>6 DEF TextsAreText
<1>3. CASE published' # published /\ ~Publish
  <2>1. CASE UNCHANGED vars
    BY <1>3, <2>1 DEF vars, history
  <2>2. CASE RefuseMessage \/ Fragment \/ RefuseText
    BY <1>3, <2>2 DEF RefuseMessage, Fragment, RefuseText, history
  <2>3. CASE Next /\ ~RefuseMessage /\ ~Fragment /\ ~RefuseText
    BY <1>3, <2>3, MessageEffects
  <2> QED
    BY <2>1, <2>2, <2>3
<1> QED
  BY <1>1, <1>2, <1>3

\* Every text in the data queue is UTF-8 by the code points of RFC 3629, whatever
\* fragments it came in and wherever they cut through its characters
\* (worker.c:217-299, ws.c:144-204): the aggregator puts it into JSON unchecked.
THEOREM PublishedTextsAreText == Spec => []TextsAreText
<1>1. Init => InputInv /\ MessageInv /\ TextInv /\ TextsAreText
  <2> SUFFICES ASSUME Init PROVE InputInv /\ MessageInv /\ TextInv /\ TextsAreText
    OBVIOUS
  <2>1. fragmenting = FALSE /\ published = <<>>
    BY DEF Init
  <2> QED
    BY <2>1, InputInit, MessageInit DEF TextInv, TextsAreText
<1>2. InputInv /\ MessageInv /\ TextInv /\ TextsAreText /\ [Next]_vars
         => (InputInv /\ MessageInv /\ TextInv /\ TextsAreText)'
  BY InputStep, MessageStep, TextStep, PublishedStep
<1> QED
  BY <1>1, <1>2, PTL DEF Spec

-----------------------------------------------------------------------------

\* The CLOSE frame that answers with a code.
Closed(code) == [kind |-> "close", code |-> code, len |-> 2, text |-> <<>>]

RefusedForText == HasData /\ answers' = Append(answers, Closed(1007))

\* A frame is refused for its text only if that cannot be right: a message that
\* is not UTF-8 as a whole, or one that nothing can complete.
RefusedRightly ==
    RefusedForText =>
        /\ Assembly.op = OpText
        /\ IF Fin(Header) THEN ~Frames!IsText(WithFrame.text)
           ELSE \A rest \in Seq(Byte) : ~Frames!IsText(WithFrame.text \o rest)

\* Which steps refuse a text.
LEMMA RefusingText ==
    ASSUME answers \in Seq(Answer), [Next]_vars, RefusedForText
    PROVE  RefuseText \/ (RefuseMessage /\ ~TooLong)
<1>1. answers' # answers
  <2>1. PICK q : q = Append(answers, Closed(1007))
    OBVIOUS
  <2>2. Len(q) = Len(answers) + 1 /\ Len(answers) \in Nat
    BY <2>1
  <2>3. q # answers
    BY <2>2
  <2> QED
    BY <2>1, <2>3 DEF RefusedForText
<1>2. ASSUME NEW a, answers' = Append(answers, a) PROVE a = Closed(1007)
  <2>1. PICK b : b = Closed(1007)
    OBVIOUS
  <2>2. Append(answers, a) = Append(answers, b)
    BY <1>2, <2>1 DEF RefusedForText
  <2>3. PICK k \in Nat : k = Len(answers)
    OBVIOUS
  <2>4. Append(answers, a)[k + 1] = a /\ Append(answers, b)[k + 1] = b
    BY <2>3
  <2> QED
    BY <2>1, <2>2, <2>4
<1>3. ASSUME NEW code, SendClose(code) PROVE code = 1007
  <2>1. Closed(code) = Closed(1007)
    BY <1>2, <1>3 DEF SendClose, Closed
  <2>2. Closed(code).code = code /\ Closed(1007).code = 1007
    BY DEF Closed
  <2> QED
    BY <2>1, <2>2
<1>4. pc = "parse" /\ ~IsControl(Opcode(Header))
  BY DEF RefusedForText, HasData, HasFrame, HeaderGood, Parsing
<1>5. CASE UNCHANGED vars
  BY <1>1, <1>5 DEF vars, history
<1>6. CASE PeerSend \/ PeerClose \/ PeerReads \/ Event \/ Recv \/ RecvNone \/ RecvEnd
           \/ LoopEnds \/ FlushAll \/ FlushSome \/ FlushError \/ Pong \/ Fragment \/ Publish
  BY <1>1, <1>6 DEF PeerSend, PeerClose, PeerReads, Event, Recv, RecvNone, RecvEnd, LoopEnds,
     FlushAll, FlushSome, FlushError, Pong, Fragment, Publish, connVars, flushed, history
<1>7. ~RecvFull
  BY <1>4 DEF RecvFull
<1>8. ~Ping /\ ~CloseFrame
  <2>1. IsControl(OpPing) /\ IsControl(OpClose)
    BY DEF IsControl, OpPing, OpClose
  <2> QED
    BY <1>4, <2>1 DEF Ping, CloseFrame
<1>9. ~RefuseHeader /\ ~RefuseSize /\ ~RefusePlace
  <2>1. RefuseHeader => SendClose(1002)
    BY DEF RefuseHeader, Refuse
  <2>2. RefuseSize => SendClose(1009)
    BY DEF RefuseSize, Refuse
  <2>3. RefusePlace => SendClose(1002)
    BY DEF RefusePlace, Refuse
  <2>4. ~SendClose(1002) /\ ~SendClose(1009)
    BY <1>3
  <2> QED
    BY <2>1, <2>2, <2>3, <2>4
<1>10. RefuseMessage => ~TooLong
  <2>1. RefuseMessage /\ TooLong => SendClose(1009)
    BY DEF RefuseMessage
  <2>2. ~SendClose(1009)
    BY <1>3
  <2> QED
    BY <2>1, <2>2
<1> QED
  BY <1>5, <1>6, <1>7, <1>8, <1>9, <1>10 DEF Next, WorkerStep, HandleFrame

\* Nothing makes up for a text the automaton has failed on.
LEMMA FailedFor ==
    ASSUME NEW a \in Seq(Byte), Utf8Feed(Utf8Start, a).kind = "bad", NEW b \in Seq(Byte)
    PROVE  ~Frames!IsText(a \o b)
<1>1. PICK st \in Utf8State : st = Utf8Feed(Utf8Start, a)
  BY FeedJoined
<1>2. PICK r : Utf8Run(r, st, b) /\ Utf8Feed(st, b) = r[Len(b)]
  BY FeedSteps
<1>3. 0 \in 0..Len(b) /\ r[0].kind = "bad"
  BY <1>1, <1>2 DEF Utf8Run
<1>4. ~Takes(Utf8Feed(st, b))
  BY <1>2, <1>3, BadStays
<1>5. Utf8Feed(Utf8Start, a \o b) = Utf8Feed(st, b)
  BY <1>1, FeedJoined
<1>6. a \o b \in Seq(Byte)
  BY ConcatAt
<1> QED
  BY <1>4, <1>5, <1>6, TextAccepted

\* A step that refuses a text does so rightly.
LEMMA RefusedStep ==
    InputInv /\ MessageInv /\ AnswerInv /\ TextInv /\ [Next]_vars => RefusedRightly
<1> SUFFICES ASSUME InputInv, MessageInv, AnswerInv, TextInv, [Next]_vars, RefusedForText
             PROVE  /\ Assembly.op = OpText
                    /\ IF Fin(Header) THEN ~Frames!IsText(WithFrame.text)
                       ELSE \A rest \in Seq(Byte) : ~Frames!IsText(WithFrame.text \o rest)
  BY DEF RefusedRightly
<1>1. RefuseText \/ (RefuseMessage /\ ~TooLong)
  BY RefusingText DEF AnswerInv
<1>2. HasData /\ InPlace
  BY <1>1 DEF RefuseText, DataInOrder, RefuseMessage
<1>3. PICK w \in Seq(Byte) :
          /\ w = WithFrame.text
          /\ FedUtf8 = IF Assembly.op = OpText THEN Utf8Feed(Utf8Start, w) ELSE Utf8Start
  BY <1>2, FedWhole
<1>4. CASE RefuseText
  <2>1. Assembly.op = OpText /\ Fin(Header) /\ ~Utf8Done(FedUtf8)
    BY <1>4 DEF RefuseText
  <2>2. ~Takes(Utf8Feed(Utf8Start, w))
    BY <1>3, <2>1 DEF Takes
  <2> QED
    BY <1>3, <2>1, <2>2, TextAccepted
<1>5. CASE RefuseMessage /\ ~TooLong
  <2>1. FedUtf8.kind = "bad"
    BY <1>5 DEF RefuseMessage
  <2>2. Assembly.op = OpText
    BY <1>3, <2>1 DEF Utf8Start
  <2>3. Utf8Feed(Utf8Start, w).kind = "bad"
    BY <1>3, <2>1, <2>2
  <2>4. \A rest \in Seq(Byte) : ~Frames!IsText(w \o rest)
    BY <2>3, FailedFor
  <2>5. ~Frames!IsText(w)
    BY <2>3, TextAccepted DEF Takes
  <2> QED
    BY <1>3, <2>2, <2>4, <2>5
<1> QED
  BY <1>1, <1>4, <1>5

\* The server turns down a text (CLOSE 1007) only if it is not UTF-8, or, before
\* its last frame, if no bytes that may follow make it so: a character that a
\* fragment cuts in two is never taken for an error (worker.c:217-299,
\* ws.c:144-204).
THEOREM TextsAreRefusedRightly == Spec => [][RefusedRightly]_vars
<1>1. Init => InputInv /\ MessageInv /\ AnswerInv /\ TextInv
  <2>1. Init => TextInv
    BY DEF Init, TextInv
  <2> QED
    BY <2>1, InputInit, MessageInit
<1>2. InputInv /\ MessageInv /\ AnswerInv /\ TextInv /\ [Next]_vars
         => (InputInv /\ MessageInv /\ AnswerInv /\ TextInv)'
  BY InputStep, MessageStep, AnswerStep, TextStep
<1>3. InputInv /\ MessageInv /\ AnswerInv /\ TextInv /\ [Next]_vars => [RefusedRightly]_vars
  BY RefusedStep
<1> QED
  BY <1>1, <1>2, <1>3, PTL DEF Spec

-----------------------------------------------------------------------------
(* The beginning of a text *)

\* Three sequences put together, from either side.
LEMMA Associative ==
    ASSUME NEW S, NEW a \in Seq(S), NEW b \in Seq(S), NEW c \in Seq(S)
    PROVE  (a \o b) \o c = a \o (b \o c)
<1>1. PICK l \in Nat, m \in Nat, n \in Nat : l = Len(a) /\ m = Len(b) /\ n = Len(c)
  OBVIOUS
<1>2. PICK ab, bc : ab = a \o b /\ bc = b \o c
  OBVIOUS
<1>3. /\ ab \in Seq(S) /\ Len(ab) = l + m
      /\ \A i \in 1..l : ab[i] = a[i]
      /\ \A i \in 1..m : ab[l + i] = b[i]
  BY <1>1, <1>2, ConcatAt
<1>4. /\ bc \in Seq(S) /\ Len(bc) = m + n
      /\ \A i \in 1..m : bc[i] = b[i]
      /\ \A i \in 1..n : bc[m + i] = c[i]
  BY <1>1, <1>2, ConcatAt
<1>5. PICK p, q : p = ab \o c /\ q = a \o bc
  OBVIOUS
<1>6. /\ p \in Seq(S) /\ Len(p) = (l + m) + n
      /\ \A i \in 1..(l + m) : p[i] = ab[i]
      /\ \A i \in 1..n : p[(l + m) + i] = c[i]
  <2>1. PICK k \in Nat : k = l + m /\ k = Len(ab)
    BY <1>3
  <2>2. /\ p \in Seq(S) /\ Len(p) = Len(ab) + Len(c)
        /\ \A i \in 1..Len(ab) : p[i] = ab[i]
        /\ \A i \in 1..Len(c) : p[Len(ab) + i] = c[i]
    <3>1. ab \in Seq(S) /\ c \in Seq(S)
      BY <1>3
    <3> QED
      BY ONLY <1>5, <3>1, ConcatAt
  <2> QED
    BY ONLY <1>1, <2>1, <2>2
<1>7. /\ q \in Seq(S) /\ Len(q) = l + (m + n)
      /\ \A i \in 1..l : q[i] = a[i]
      /\ \A i \in 1..(m + n) : q[l + i] = bc[i]
  <2>1. PICK k \in Nat : k = m + n /\ k = Len(bc)
    BY <1>4
  <2>2. /\ q \in Seq(S) /\ Len(q) = Len(a) + Len(bc)
        /\ \A i \in 1..Len(a) : q[i] = a[i]
        /\ \A i \in 1..Len(bc) : q[Len(a) + i] = bc[i]
    <3>1. a \in Seq(S) /\ bc \in Seq(S)
      BY <1>4
    <3> QED
      BY ONLY <1>5, <3>1, ConcatAt
  <2> QED
    BY ONLY <1>1, <2>1, <2>2
<1>8. Len(p) = Len(q)
  BY <1>1, <1>6, <1>7
<1>9. ASSUME NEW i \in 1..Len(q) PROVE p[i] = q[i]
  <2>1. i \in 1..(l + m + n)
    BY <1>1, <1>7
  <2>2. CASE i <= l
    <3>1. i \in 1..l /\ i \in 1..(l + m)
      BY <1>1, <2>1, <2>2
    <3> QED
      BY <1>3, <1>6, <1>7, <3>1
  <2>3. CASE i > l /\ i <= l + m
    <3>1. PICK j \in 1..m : i = l + j
      <4>1. i - l \in 1..m /\ i = l + (i - l)
        BY <1>1, <2>1, <2>3
      <4> QED
        BY <4>1
    <3>2. i \in 1..(l + m) /\ j \in 1..(m + n)
      BY <1>1, <2>1, <2>3
    <3>3. p[i] = b[j]
      BY <1>3, <1>6, <3>1, <3>2
    <3>4. q[i] = b[j]
      BY <1>4, <1>7, <3>1, <3>2
    <3> QED
      BY <3>3, <3>4
  <2>4. CASE i > l + m
    <3>1. PICK j \in 1..n : i = (l + m) + j
      <4>1. i - (l + m) \in 1..n /\ i = (l + m) + (i - (l + m))
        BY <1>1, <2>1, <2>4
      <4> QED
        BY <4>1
    <3>2. m + j \in 1..(m + n) /\ i = l + (m + j)
      BY <1>1, <3>1
    <3>3. p[i] = c[j]
      BY <1>6, <3>1
    <3>4. q[i] = c[j]
      BY <1>4, <1>7, <3>1, <3>2
    <3> QED
      BY <3>3, <3>4
  <2> QED
    BY <1>1, <2>1, <2>2, <2>3, <2>4
<1> QED
  BY <1>2, <1>5, <1>6, <1>7, <1>8, <1>9, SameElements

\* A sequence cut in two.
LEMMA Divided ==
    ASSUME NEW S, NEW s \in Seq(S), NEW k \in 0..(Len(s) - 1)
    PROVE  /\ SubSeq(s, 1, k) \in Seq(S) /\ Len(SubSeq(s, 1, k)) = k
           /\ \A i \in 1..k : SubSeq(s, 1, k)[i] = s[i]
           /\ SubSeq(s, k + 1, Len(s)) \in Seq(S) /\ Len(SubSeq(s, k + 1, Len(s))) = Len(s) - k
           /\ \A i \in 1..(Len(s) - k) : SubSeq(s, k + 1, Len(s))[i] = s[k + i]
           /\ s = SubSeq(s, 1, k) \o SubSeq(s, k + 1, Len(s))
<1>1. PICK n \in Nat : n = Len(s) /\ k \in 0..(n - 1)
  OBVIOUS
<1>2. PICK a, b : a = SubSeq(s, 1, k) /\ b = SubSeq(s, k + 1, n)
  OBVIOUS
<1>3. a \in Seq(S) /\ Len(a) = k /\ \A i \in 1..k : a[i] = s[i]
  <2>1. 1 \in 1..Len(s) /\ k \in 0..Len(s) /\ 1 - 1 <= k
    BY <1>1
  <2>2. a \in Seq(S) /\ Len(a) = k - 1 + 1 /\ \A i \in 1..(k - 1 + 1) : a[i] = s[1 + i - 1]
    BY <1>2, <2>1, Cut
  <2>3. k - 1 + 1 = k /\ \A i \in 1..k : 1 + i - 1 = i
    BY <1>1
  <2> QED
    BY <2>2, <2>3
<1>4. b \in Seq(S) /\ Len(b) = n - k /\ \A i \in 1..(n - k) : b[i] = s[k + i]
  <2>1. k + 1 \in 1..Len(s) /\ n \in 0..Len(s) /\ (k + 1) - 1 <= n
    BY <1>1
  <2>2. /\ b \in Seq(S) /\ Len(b) = n - (k + 1) + 1
        /\ \A i \in 1..(n - (k + 1) + 1) : b[i] = s[(k + 1) + i - 1]
    BY <1>2, <2>1, Cut
  <2>3. n - (k + 1) + 1 = n - k /\ \A i \in 1..(n - k) : (k + 1) + i - 1 = k + i
    BY <1>1
  <2> QED
    BY <2>2, <2>3
<1>5. PICK w : w = a \o b
  OBVIOUS
<1>6. /\ w \in Seq(S) /\ Len(w) = k + (n - k)
      /\ \A i \in 1..k : w[i] = a[i]
      /\ \A i \in 1..(n - k) : w[k + i] = b[i]
  BY <1>3, <1>4, <1>5, ConcatAt
<1>7. Len(s) = Len(w)
  BY <1>1, <1>6
<1>8. ASSUME NEW i \in 1..Len(w) PROVE s[i] = w[i]
  <2>1. i \in 1..n
    BY <1>1, <1>7
  <2>2. CASE i <= k
    <3>1. i \in 1..k
      BY <2>1, <2>2
    <3> QED
      BY <1>3, <1>6, <3>1
  <2>3. CASE i > k
    <3>1. i - k \in 1..(n - k) /\ k + (i - k) = i
      BY <1>1, <2>1, <2>3
    <3> QED
      BY <1>4, <1>6, <3>1
  <2> QED
    BY <1>1, <2>1, <2>2, <2>3
<1>9. s = w
  BY <1>6, <1>7, <1>8, SameElements
<1> QED
  BY <1>1, <1>2, <1>3, <1>4, <1>5, <1>9

\* At the end of a text the automaton is where it began, but for the name.
LEMMA StartAgain ==
    ASSUME NEW st \in Utf8State, Takes(st), NEW c \in Seq(Byte), c # <<>>
    PROVE  Utf8Feed(st, c) = Utf8Feed(Utf8Start, c)
<1>1. PICK n \in Nat : n = Len(c) /\ n >= 1
  OBVIOUS
<1>2. Utf8Start \in Utf8State /\ Takes(Utf8Start)
  BY DEF Utf8Start, Utf8State, Takes, Utf8Done
<1>3. PICK q : Utf8Run(q, st, c) /\ Utf8Feed(st, c) = q[n]
  BY <1>1, FeedSteps
<1>4. PICK r : Utf8Run(r, Utf8Start, c) /\ Utf8Feed(Utf8Start, c) = r[n]
  BY <1>1, <1>2, FeedSteps
<1>5. ASSUME NEW s, Takes(s), NEW byte PROVE Utf8Next(s, byte) = Lead(byte)
  BY <1>5 DEF Takes, Utf8Done, Utf8Next
<1> DEFINE T == {i \in Nat : i >= 1 /\ i <= n => q[i] = r[i]}
<1>6. 0 \in T
  OBVIOUS
<1>7. ASSUME NEW i \in Nat, i \in T PROVE i + 1 \in T
  <2> SUFFICES ASSUME i + 1 <= n PROVE q[i + 1] = r[i + 1]
    OBVIOUS
  <2>1. i + 1 \in 1..n /\ (i + 1) - 1 = i
    BY <1>1
  <2>2. q[i + 1] = Utf8Next(q[i], c[i + 1]) /\ r[i + 1] = Utf8Next(r[i], c[i + 1])
    BY <1>1, <1>3, <1>4, <2>1 DEF Utf8Run
  <2>3. CASE i = 0
    <3>1. q[0] = st /\ r[0] = Utf8Start
      BY <1>3, <1>4 DEF Utf8Run
    <3> QED
      BY <1>2, <1>5, <2>2, <2>3, <3>1
  <2>4. CASE i # 0
    BY <1>1, <1>7, <2>1, <2>2, <2>4
  <2> QED
    BY <2>3, <2>4
<1>8. \A i \in Nat : i \in T
  <2> HIDE DEF T
  <2> QED
    BY <1>6, <1>7, NatUp
<1> QED
  BY <1>1, <1>3, <1>4, <1>8

\* A character is a text, ...
LEMMA CharIsText ==
    ASSUME NEW c \in Seq(Byte), c # <<>>, Frames!IsChar(c)
    PROVE  Frames!IsText(c)
<1>1. PICK n \in Nat : n = Len(c) /\ n >= 1
  OBVIOUS
<1>2. n <= 4
  BY <1>1, SMT DEF Frames!IsChar
<1>3. PICK t : TextRun(t, c) /\ (Frames!IsText(c) <=> t[1])
  BY TextSteps
<1>4. t[1] <=> \E j \in 1..n : j <= 1 + 3 /\ Frames!IsChar(SubSeq(c, 1, j)) /\ t[j + 1]
  BY <1>1, <1>3 DEF TextRun
<1>5. t[n + 1]
  BY <1>1, <1>3 DEF TextRun
<1>6. SubSeq(c, 1, n) = c
  BY <1>1
<1>7. n \in 1..n /\ n <= 1 + 3
  BY <1>1, <1>2
<1> QED
  BY <1>3, <1>4, <1>5, <1>6, <1>7

\* ... and behind a text as well.
LEMMA TextAndChar ==
    ASSUME NEW a \in Seq(Byte), Frames!IsText(a),
           NEW c \in Seq(Byte), c # <<>>, Frames!IsChar(c)
    PROVE  Frames!IsText(a \o c)
<1>1. PICK st \in Utf8State : st = Utf8Feed(Utf8Start, a)
  BY FeedJoined
<1>2. Takes(st)
  BY <1>1, TextAccepted
<1>3. Takes(Utf8Feed(Utf8Start, c))
  BY CharIsText, TextAccepted
<1>4. Utf8Feed(Utf8Start, a \o c) = Utf8Feed(st, c)
  BY <1>1, FeedJoined
<1>5. Utf8Feed(st, c) = Utf8Feed(Utf8Start, c)
  BY <1>1, <1>2, StartAgain
<1>6. a \o c \in Seq(Byte)
  BY ConcatAt
<1> QED
  BY <1>3, <1>4, <1>5, <1>6, TextAccepted

\* An automaton that has failed has not seen the beginning of a text.
LEMMA BadIsNoText ==
    ASSUME NEW s \in Seq(Byte), Utf8Feed(Utf8Start, s).kind = "bad"
    PROVE  ~Frames!IsTextSoFar(s)
<1>1. ~Frames!IsText(s)
  BY TextAccepted DEF Takes
<1>2. ASSUME NEW k \in 0..Frames!Min({2, Len(s) - 1}),
             Frames!IsText(SubSeq(s, 1, Len(s) - 1 - k)),
             NEW m \in 1..3, NEW rest \in [1..m -> {128, 144, 160}],
             Frames!IsChar(SubSeq(s, Len(s) - k, Len(s)) \o rest)
      PROVE  FALSE
  <2>1. PICK n \in Nat : n = Len(s)
    OBVIOUS
  <2>2. k \in Nat /\ k <= n - 1
    <3>1. Frames!Min({2, n - 1}) \in {2, n - 1} /\ Frames!Min({2, n - 1}) <= n - 1
      <4>1. PICK m1 \in {2, n - 1} : m1 <= 2 /\ m1 <= n - 1
        BY <2>1
      <4>2. Frames!Min({2, n - 1}) = m1
        BY <2>1, <4>1 DEF Frames!Min
      <4> QED
        BY <4>1, <4>2
    <3> QED
      BY <2>1, <3>1
  <2>3. PICK p : p = n - 1 - k
    OBVIOUS
  <2>4. p \in 0..(Len(s) - 1) /\ p + 1 = n - k
    BY <2>1, <2>2, <2>3
  <2>5. PICK a, b : a = SubSeq(s, 1, p) /\ b = SubSeq(s, p + 1, n)
    OBVIOUS
  <2>6. a \in Seq(Byte) /\ b \in Seq(Byte) /\ Len(b) = n - p /\ s = a \o b
    BY <2>1, <2>4, <2>5, Divided
  <2>7. rest \in Seq(Byte)
    BY DEF Byte
  <2>8. PICK c : c = b \o rest
    OBVIOUS
  <2>9. c \in Seq(Byte) /\ c # <<>>
    <3>1. c \in Seq(Byte) /\ Len(c) = Len(b) + Len(rest) /\ Len(rest) \in Nat
      BY <2>6, <2>7, <2>8, ConcatAt
    <3>2. Len(b) >= 1
      BY <2>1, <2>4, <2>6
    <3>3. Len(c) # 0
      BY <2>6, <3>1, <3>2
    <3> QED
      BY <3>1, <3>3
  <2>10. Frames!IsText(a) /\ Frames!IsChar(c)
    BY <1>2, <2>1, <2>3, <2>4, <2>5, <2>8
  <2>11. Frames!IsText(a \o c)
    BY <2>6, <2>9, <2>10, TextAndChar
  <2>12. a \o c = s \o rest
    <3>1. (a \o b) \o rest = a \o (b \o rest)
      BY <2>6, <2>7, Associative
    <3> QED
      BY <2>6, <2>8, <3>1
  <2> QED
    BY <2>7, <2>11, <2>12, FailedFor
<1> QED
  BY <1>1, <1>2 DEF Frames!IsTextSoFar

\* One step of an automaton that is inside a character and does not fail.
LEMMA InsideStep ==
    ASSUME NEW st \in Utf8State, NEW byte \in Byte, ~Takes(st), ~(st.kind = "bad"),
           NEW new, new = Utf8Next(st, byte), new.kind # "bad"
    PROVE  byte \in Continuation(st.kind) /\ new = [need |-> st.need - 1, kind |-> "gen"]
<1>1. st.need # 0
  BY DEF Takes, Utf8Done
<1>2. byte \in Continuation(st.kind)
  BY <1>1 DEF Utf8Next, Utf8Bad
<1> QED
  BY <1>1, <1>2 DEF Utf8Next

\* The run over a text is also one over its beginning.
LEMMA Beginning ==
    ASSUME NEW s \in Seq(Byte), NEW r, Utf8Run(r, Utf8Start, s), NEW p \in 0..(Len(s) - 1)
    PROVE  Frames!IsText(SubSeq(s, 1, p)) <=> Takes(r[p])
<1>1. PICK a : a = SubSeq(s, 1, p)
  OBVIOUS
<1>2. a \in Seq(Byte) /\ Len(a) = p /\ \A i \in 1..p : a[i] = s[i]
  BY <1>1, Divided
<1>3. Utf8Start \in Utf8State
  BY DEF Utf8Start, Utf8State
<1>4. PICK q : Utf8Run(q, Utf8Start, a) /\ Utf8Feed(Utf8Start, a) = q[p]
  BY <1>2, <1>3, FeedSteps
<1>5. p \in Nat /\ p <= Len(s)
  OBVIOUS
<1>6. Alike(a, s, p)
  BY <1>2, <1>5 DEF Alike
<1>7. q[p] = r[p]
  BY <1>2, <1>4, <1>5, <1>6, RunsAgree
<1> QED
  BY <1>1, <1>2, <1>4, <1>7, TextAccepted

\* A byte that may come first behind a lead byte.
Pick(kind) == CASE kind = "E0" -> 160 [] kind = "F0" -> 144 [] OTHER -> 128

\* Outside of the special cases every byte of this form goes on.
LEMMA ContinuationIs == Continuation("gen") = 128..191
  BY DEF Continuation

\* There always is one.
LEMMA PickFits ==
    ASSUME NEW kind
    PROVE  /\ Pick(kind) \in Continuation(kind) /\ Pick(kind) \in {128, 144, 160}
           /\ Continuation("gen") = 128..191 /\ 128 \in 128..191
<1>1. CASE kind = "E0"
  BY <1>1 DEF Pick, Continuation
<1>2. CASE kind = "F0"
  BY <1>2 DEF Pick, Continuation
<1>3. CASE kind = "ED"
  BY <1>3 DEF Pick, Continuation
<1>4. CASE kind = "F4"
  BY <1>4 DEF Pick, Continuation
<1>5. CASE kind \notin {"E0", "F0", "ED", "F4"}
  BY <1>5 DEF Pick, Continuation
<1> QED
  BY <1>1, <1>2, <1>3, <1>4, <1>5

\* A character cut short, by the states of the automaton over it: the lead byte
\* and the bytes behind it, of which need are missing.
CutShort(c, need) ==
    /\ c \in Seq(Byte) /\ c # <<>> /\ need \in 1..3
    /\ Lead(c[1]).kind # "bad" /\ Lead(c[1]).need = need + Len(c) - 1
    /\ Len(c) > 1 => c[2] \in Continuation(Lead(c[1]).kind)
    /\ \A y \in 3..Len(c) : c[y] \in 128..191

\* It can be completed.
LEMMA Completed ==
    ASSUME NEW c, NEW m, CutShort(c, m)
    PROVE  \E rest \in [1..m -> {128, 144, 160}] : Frames!IsChar(c \o rest)
<1>1. c \in Seq(Byte) /\ c # <<>> /\ m \in 1..3
  BY DEF CutShort
<1>2. PICK kind : kind = Lead(c[1]).kind
  OBVIOUS
<1>3. PICK g \in {128, 144, 160} : g = Pick(kind) /\ g \in Continuation(kind)
  BY ONLY PickFits
<1>4. PICK n \in Nat : n = Len(c) /\ n >= 1
  BY <1>1
<1>0. PICK rest : rest = [i \in 1..m |-> IF i = 1 /\ n = 1 THEN g ELSE 128]
  OBVIOUS
<1>5. /\ rest \in [1..m -> {128, 144, 160}]
      /\ \A i \in 1..m : rest[i] = IF i = 1 /\ n = 1 THEN g ELSE 128
  BY <1>0
<1>6. rest \in Seq(Byte) /\ Len(rest) = m
  BY <1>1, <1>5 DEF Byte
<1>7. PICK w : w = c \o rest
  OBVIOUS
<1>8. /\ w \in Seq(Byte) /\ Len(w) = n + m
      /\ \A i \in 1..n : w[i] = c[i]
      /\ \A i \in 1..m : w[n + i] = rest[i]
  <2>1. /\ w \in Seq(Byte) /\ Len(w) = Len(c) + Len(rest)
        /\ \A i \in 1..Len(c) : w[i] = c[i]
        /\ \A i \in 1..Len(rest) : w[Len(c) + i] = rest[i]
    BY ONLY <1>1, <1>6, <1>7, ConcatAt
  <2> QED
    BY ONLY <1>4, <1>6, <2>1
<1>9. w[1] = c[1]
  BY <1>4, <1>8
<1>10. Lead(w[1]).kind # "bad" /\ Len(w) = Lead(w[1]).need + 1
  <2>1. Lead(c[1]).kind # "bad" /\ Lead(c[1]).need = m + n - 1
    BY <1>4 DEF CutShort
  <2>2. (m + n - 1) + 1 = n + m
    BY <1>1, <1>4
  <2>3. Lead(w[1]) = Lead(c[1])
    BY <1>9
  <2>4. Lead(w[1]).need + 1 = n + m
    BY ONLY <2>1, <2>2, <2>3
  <2>5. Len(w) = n + m
    BY <1>8
  <2> QED
    BY ONLY <2>1, <2>3, <2>4, <2>5
<1>11. w[2] \in Continuation(kind)
  <2>1. CASE n = 1
    <3>1. w[1 + 1] = rest[1] /\ rest[1] = g
      BY <1>1, <1>5, <1>8, <2>1
    <3> QED
      BY <1>3, <3>1
  <2>2. CASE n > 1
    <3>1. w[2] = c[2] /\ c[2] \in Continuation(kind)
      BY <1>2, <1>4, <1>8, <2>2 DEF CutShort
    <3> QED
      BY <3>1
  <2> QED
    BY <1>4, <2>1, <2>2
<1>12. ASSUME NEW y \in 3..Len(w) PROVE w[y] \in 128..191
  <2>1. y \in 3..(n + m)
    BY <1>8
  <2>2. CASE y <= n
    <3>1. y \in 3..Len(c) /\ y \in 1..n
      BY <1>4, <2>1, <2>2
    <3> QED
      BY <1>8, <3>1 DEF CutShort
  <2>3. CASE y > n
    <3>1. PICK i \in 1..m : y = n + i
      <4>1. y - n \in 1..m /\ y = n + (y - n)
        BY <1>1, <1>4, <2>1, <2>3
      <4> QED
        BY <4>1
    <3>2. w[y] = rest[i] /\ rest[i] \in {128, 144, 160}
      BY <1>5, <1>8, <3>1
    <3> QED
      BY <3>2
  <2> QED
    BY <1>4, <2>1, <2>2, <2>3
<1>13. IsWhole(w) /\ w # <<>>
  <2>1. w # <<>>
    BY <1>1, <1>4, <1>8
  <2> QED
    BY <1>2, <1>9, <1>10, <1>11, <1>12, <2>1 DEF IsWhole, Follows
<1>14. Frames!IsChar(w)
  BY <1>8, <1>13, CharWhole
<1> QED
  BY <1>5, <1>7, <1>14

\* An automaton that has not failed has seen the beginning of a text: behind the
\* last character that is complete there is at most one that is cut short.
LEMMA GoodIsSoFar ==
    ASSUME NEW s \in Seq(Byte), Utf8Feed(Utf8Start, s).kind # "bad"
    PROVE  Frames!IsTextSoFar(s)
<1> SUFFICES ASSUME ~Frames!IsText(s)
             PROVE  \E k \in 0..Frames!Min({2, Len(s) - 1}) :
                        /\ Frames!IsText(SubSeq(s, 1, Len(s) - 1 - k))
                        /\ \E m \in 1..3 : \E rest \in [1..m -> {128, 144, 160}] :
                               Frames!IsChar(SubSeq(s, Len(s) - k, Len(s)) \o rest)
  BY DEF Frames!IsTextSoFar
<1>1. PICK n \in Nat : n = Len(s)
  OBVIOUS
<1>2. Utf8Start \in Utf8State /\ Takes(Utf8Start)
  BY DEF Utf8Start, Utf8State, Takes, Utf8Done
<1>3. PICK r : Utf8Run(r, Utf8Start, s) /\ Utf8Feed(Utf8Start, s) = r[n]
  BY <1>1, <1>2, FeedSteps
<1>4. ~Takes(r[n]) /\ ~(r[n].kind = "bad")
  BY <1>3, TextAccepted
<1>5. \A i \in 0..n : r[i] \in Utf8State /\ ~(r[i].kind = "bad")
  <2>1. ASSUME NEW i \in 0..n PROVE r[i] \in Utf8State /\ ~(r[i].kind = "bad")
    <3>1. r[i] \in Utf8State
      BY <1>1, <1>3 DEF Utf8Run
    <3>2. ASSUME r[i].kind = "bad" PROVE FALSE
      <4>1. i \in 0..Len(s)
        BY <1>1
      <4>2. r[Len(s)].kind = "bad"
        BY <1>3, <3>2, <4>1, BadStays
      <4> QED
        BY <1>1, <1>4, <4>2
    <3> QED
      BY <3>1, <3>2
  <2> QED
    BY <2>1
<1> DEFINE Ends == {i \in 0..n : Takes(r[i])}
<1>6. PICK p \in 0..n : Takes(r[p]) /\ \A i \in 0..n : Takes(r[i]) => i <= p
  <2>1. 0 \in Ends
    BY <1>1, <1>2, <1>3 DEF Utf8Run
  <2>2. Ends \subseteq 0..n /\ Ends # {}
    BY <2>1
  <2>3. PICK p : p = Max(Ends)
    OBVIOUS
  <2>4. p \in Ends /\ \A i \in Ends : i <= p
    <3> HIDE DEF Ends
    <3> QED
      BY <2>2, <2>3, MaxOfBounded
  <2> QED
    BY <2>4
<1>7. p # n /\ p \in 0..(n - 1) /\ p + 1 \in 1..n /\ p + 1 \in 0..n /\ (p + 1) - 1 = p
  <2>1. p # n
    BY <1>4, <1>6
  <2> QED
    BY <1>1, <1>6, <2>1
<1>8. \A i \in (p + 1)..n : ~Takes(r[i])
  <2>1. \A i \in (p + 1)..n : i \in 0..n /\ ~(i <= p)
    BY <1>7
  <2> QED
    BY <1>6, <2>1
<1>9. r[p + 1] = Lead(s[p + 1])
  <2>1. r[p + 1] = Utf8Next(r[p], s[p + 1])
    BY <1>1, <1>3, <1>7 DEF Utf8Run
  <2> QED
    BY <1>6, <2>1 DEF Utf8Next, Takes, Utf8Done
<1>10. PICK l : l = r[p + 1] /\ l \in Utf8State /\ ~(l.kind = "bad")
  BY <1>5, <1>7
<1>11. ASSUME NEW i \in (p + 1)..(n - 1)
       PROVE  /\ s[i + 1] \in Continuation(r[i].kind)
              /\ r[i + 1] = [need |-> r[i].need - 1, kind |-> "gen"]
  <2>1. i \in 0..n /\ i + 1 \in 1..n /\ i + 1 \in 0..n /\ (i + 1) - 1 = i /\ i \in (p + 1)..n
    BY <1>7
  <2>0. PICK after : after = r[i + 1]
    OBVIOUS
  <2>2. PICK st \in Utf8State : st = r[i]
    BY <1>5, <2>1
  <2>3. ~(st.kind = "bad") /\ after.kind # "bad" /\ ~Takes(st)
    BY <1>5, <1>8, <2>0, <2>1, <2>2
  <2>4. after = Utf8Next(st, s[i + 1])
    BY <1>1, <1>3, <2>0, <2>1, <2>2 DEF Utf8Run
  <2>5. s[i + 1] \in Byte
    BY <1>1, <2>1
  <2>6. s[i + 1] \in Continuation(st.kind) /\ after = [need |-> st.need - 1, kind |-> "gen"]
    BY <2>3, <2>4, <2>5, InsideStep
  <2> QED
    BY <2>0, <2>2, <2>6
<1>12. \A i \in (p + 1)..n : r[i].need \in 1..3
  <2>1. ASSUME NEW i \in (p + 1)..n PROVE r[i].need \in 1..3
    <3>1. i \in 0..n
      BY <1>7
    <3>2. r[i] \in Utf8State /\ ~Takes(r[i]) /\ ~(r[i].kind = "bad")
      BY <1>5, <1>8, <3>1
    <3> QED
      BY <3>2 DEF Utf8State, Takes, Utf8Done
  <2> QED
    BY <2>1
<1>13. /\ r[p + 1].need \in 1..3
       /\ p + 2 <= n => r[p + 2].need = l.need - 1 /\ r[p + 2].kind = "gen"
       /\ p + 3 <= n => r[p + 3].need = l.need - 2 /\ r[p + 3].kind = "gen"
       /\ n <= p + 3
  <2>1. r[p + 1].need \in 1..3
    BY <1>7, <1>12
  <2>2. p + 2 <= n => /\ r[p + 2].need = l.need - 1 /\ r[p + 2].kind = "gen"
                      /\ r[p + 2].need \in 1..3
    <3> SUFFICES ASSUME p + 2 <= n
                 PROVE  /\ r[p + 2].need = l.need - 1 /\ r[p + 2].kind = "gen"
                        /\ r[p + 2].need \in 1..3
      OBVIOUS
    <3>1. p + 1 \in (p + 1)..(n - 1) /\ (p + 1) + 1 = p + 2 /\ p + 2 \in (p + 1)..n
      BY <1>7
    <3>2. r[p + 2] = [need |-> l.need - 1, kind |-> "gen"]
      BY <1>10, <1>11, <3>1
    <3>3. r[p + 2].need \in 1..3
      BY <1>12, <3>1
    <3> QED
      BY ONLY <3>2, <3>3
  <2>3. p + 3 <= n => /\ r[p + 3].need = l.need - 2 /\ r[p + 3].kind = "gen"
                      /\ r[p + 3].need \in 1..3
    <3> SUFFICES ASSUME p + 3 <= n
                 PROVE  /\ r[p + 3].need = l.need - 2 /\ r[p + 3].kind = "gen"
                        /\ r[p + 3].need \in 1..3
      OBVIOUS
    <3>1. /\ p + 2 \in (p + 1)..(n - 1) /\ (p + 2) + 1 = p + 3 /\ p + 3 \in (p + 1)..n
          /\ p + 2 <= n
      BY <1>7
    <3>2. r[p + 3] = [need |-> r[p + 2].need - 1, kind |-> "gen"]
      BY <1>11, <3>1
    <3>3. r[p + 2].need = l.need - 1 /\ l.need \in 1..3
      BY <1>10, <2>1, <2>2, <3>1
    <3>4. (l.need - 1) - 1 = l.need - 2
      <4>1. PICK m \in 1..3 : m = l.need
        BY <3>3
      <4>2. (m - 1) - 1 = m - 2
        BY ONLY m \in 1..3
      <4> QED
        BY ONLY <4>1, <4>2
    <3> QED
      BY <1>12, <3>1, <3>2, <3>3, <3>4
  <2>4. n <= p + 3
    <3> SUFFICES ASSUME p + 4 <= n PROVE FALSE
      BY <1>7
    <3>1. p + 3 \in (p + 1)..(n - 1) /\ (p + 3) + 1 = p + 4 /\ p + 4 \in (p + 1)..n /\ p + 3 <= n
      BY <1>7
    <3>2. r[p + 4] = [need |-> r[p + 3].need - 1, kind |-> "gen"]
      BY <1>11, <3>1
    <3>3. r[p + 4].need \in 1..3
      BY <1>12, <3>1
    <3>4. r[p + 3].need = l.need - 2 /\ l.need \in 1..3
      BY <1>10, <2>1, <2>3, <3>1
    <3> QED
      BY <3>2, <3>3, <3>4
  <2> QED
    BY <2>1, <2>2, <2>3, <2>4
<1>14. PICK k \in Nat : k = n - 1 - p /\ k <= 2
  <2>1. n - 1 - p \in Nat /\ n - 1 - p <= 2
    BY <1>7, <1>13
  <2> QED
    BY <2>1
<1>15. k \in 0..Frames!Min({2, Len(s) - 1})
  <2>1. k <= 2 /\ k <= n - 1
    BY <1>7, <1>14
  <2>2. PICK m1 \in {2, n - 1} : m1 <= 2 /\ m1 <= n - 1
    BY <1>7
  <2>3. Frames!Min({2, n - 1}) = m1 /\ m1 \in Int
    BY <1>7, <2>2 DEF Frames!Min
  <2> QED
    BY <1>1, <1>14, <2>1, <2>2, <2>3
<1>16. Len(s) - 1 - k = p /\ Len(s) - k = p + 1
  BY <1>1, <1>7, <1>14
<1>17. Frames!IsText(SubSeq(s, 1, p))
  BY <1>1, <1>3, <1>6, <1>7, Beginning
<1>18. PICK c : c = SubSeq(s, p + 1, n)
  OBVIOUS
<1>19. c \in Seq(Byte) /\ Len(c) = k + 1 /\ \A y \in 1..(k + 1) : c[y] = s[p + y]
  <2>1. /\ SubSeq(s, p + 1, Len(s)) \in Seq(Byte) /\ Len(SubSeq(s, p + 1, Len(s))) = Len(s) - p
        /\ \A i \in 1..(Len(s) - p) : SubSeq(s, p + 1, Len(s))[i] = s[p + i]
    BY <1>1, <1>7, Divided
  <2>2. Len(s) - p = k + 1
    BY <1>1, <1>7, <1>14
  <2> QED
    BY ONLY <1>1, <1>18, <2>1, <2>2
<1>20. CutShort(c, r[n].need)
  <2>1. r[n].need \in 1..3 /\ c # <<>>
    <3>1. n \in (p + 1)..n
      BY <1>7
    <3> QED
      BY <1>12, <1>14, <1>19, <3>1
  <2>2. c[1] = s[p + 1]
    BY <1>14, <1>19
  <2>3. Lead(c[1]) = l
    BY <1>9, <1>10, <2>2
  <2>4. l.need \in 1..3
    BY <1>10, <1>13
  <2>5. l.need = r[n].need + k
    <3>1. CASE n = p + 1
      <4>1. k = 0 /\ r[n] = l
        BY <1>7, <1>10, <1>14, <3>1
      <4> QED
        BY <2>4, <4>1
    <3>2. CASE n = p + 2
      <4>1. k = 1
        BY <1>7, <1>14, <3>2
      <4>2. p + 2 <= n
        BY <1>7, <3>2
      <4>3. r[n].need = l.need - 1
        BY <1>13, <3>2, <4>2
      <4> QED
        BY <2>4, <4>1, <4>3
    <3>3. CASE n = p + 3
      <4>1. k = 2
        BY <1>7, <1>14, <3>3
      <4>2. p + 3 <= n
        BY <1>7, <3>3
      <4>3. r[n].need = l.need - 2
        BY <1>13, <3>3, <4>2
      <4> QED
        BY <2>4, <4>1, <4>3
    <3> QED
      BY <1>7, <1>13, <3>1, <3>2, <3>3
  <2>6. l.need = r[n].need + Len(c) - 1
    BY <1>14, <1>19, <2>1, <2>5
  <2>7. ASSUME Len(c) > 1 PROVE c[2] \in Continuation(l.kind)
    <3>1. k >= 1
      BY <1>14, <1>19, <2>7
    <3>2. p + 1 \in (p + 1)..(n - 1) /\ (p + 1) + 1 = p + 2 /\ 2 \in 1..(k + 1)
      BY <1>7, <1>14, <3>1
    <3>3. s[p + 2] \in Continuation(l.kind)
      BY <1>10, <1>11, <3>2
    <3> QED
      BY <1>19, <3>2, <3>3
  <2>8. ASSUME NEW y \in 3..Len(c) PROVE c[y] \in 128..191
    <3>1. y = 3 /\ k = 2
      BY <1>14, <1>19
    <3>2. /\ p + 2 \in (p + 1)..(n - 1) /\ (p + 2) + 1 = p + 3 /\ 3 \in 1..(k + 1)
          /\ p + 2 <= n
      BY <1>7, <1>14, <3>1
    <3>3. s[p + 3] \in Continuation("gen")
      BY <1>11, <1>13, <3>2
    <3>4. s[p + 3] \in 128..191
      BY <3>3, ContinuationIs
    <3> QED
      BY <1>19, <3>1, <3>2, <3>4
  <2> QED
    BY <1>10, <1>19, <2>1, <2>3, <2>6, <2>7, <2>8 DEF CutShort
<1>21. PICK m \in 1..3 : m = r[n].need
  BY <1>20 DEF CutShort
<1>22. \E rest \in [1..m -> {128, 144, 160}] : Frames!IsChar(c \o rest)
  BY <1>20, <1>21, Completed
<1> QED
  BY <1>1, <1>15, <1>16, <1>17, <1>18, <1>22

-----------------------------------------------------------------------------
(* Receiver: where frames end, and how many are consumed *)

\* Both say the same of the length of a frame.
LEMMA SameLen ==
    ASSUME NEW f \in FrameType
    PROVE  Frames!FrameLen(f) = FrameLen(f)
<1>1. PICK n \in Nat : n = f.size
  BY FrameFields
<1>2. /\ FrameLen(f) = Len(HeadBytes(f)) + n
      /\ Len(HeadBytes(f)) = 2 + LenBytes(f.form) + (IF f.masked THEN 4 ELSE 0)
  BY <1>1, FrameLenIs
<1>3. PICK m \in {0, 4} : m = IF f.masked THEN 4 ELSE 0
  OBVIOUS
<1>4. PICK form : form = f.form
  OBVIOUS
<1>5. PICK l \in {0, 2, 8} : l = LenBytes(form) /\ l + 2 = CASE form = 7 -> 2 [] form = 16 -> 4 [] OTHER -> 10
  BY DEF LenBytes
<1>6. FrameLen(f) = 2 + l + m + n
  BY <1>1, <1>2, <1>3, <1>4, <1>5
<1>7. Frames!FrameLen(f) = n + m + (l + 2)
  BY <1>1, <1>3, <1>4, <1>5 DEF Frames!FrameLen
<1> QED
  BY <1>6, <1>7

\* Both add the lengths up from the first frame.
LEMMA SameEnds ==
    ASSUME stream \in Seq(FrameType), NEW k \in 0..Len(stream)
    PROVE  Frames!EndOf(k) = EndOf(k)
<1> DEFINE D == 0..Len(stream)
           Body(g) == [j \in D |-> IF j = 0 THEN 0 ELSE g[j - 1] + Frames!FrameLen(stream[j])]
           end == CHOOSE g : g = Body(g)
<1>1. Frames!EndOf(k) = end[k]
  BY DEF Frames!EndOf
<1>2. PICK ends : ends = Bounds(stream)
  OBVIOUS
<1>3. /\ ends[0] = 0
      /\ \A i \in 1..Len(stream) : ends[i] = ends[i - 1] + FrameLen(stream[i])
  BY <1>2, BoundsSteps
<1>4. \A i \in D : i = 0 \/ (i \in 1..Len(stream) /\ i - 1 \in D /\ stream[i] \in FrameType)
  OBVIOUS
<1>5. \A i \in D : i # 0 => ends[i] = ends[i - 1] + Frames!FrameLen(stream[i])
  BY <1>3, <1>4, SameLen
<1>6. PICK g : g = [i \in D |-> ends[i]]
  OBVIOUS
<1> HIDE DEF D
<1>7. g = Body(g)
  <2>1. ASSUME NEW i \in D
        PROVE  ends[i] = IF i = 0 THEN 0 ELSE g[i - 1] + Frames!FrameLen(stream[i])
    BY <1>3, <1>4, <1>5, <1>6
  <2> QED
    BY <1>6, <2>1
<1>8. end = Body(end)
  BY <1>7
<1> HIDE DEF end
<1>9. Len(stream) \in Nat /\ 0 \in D
  BY DEF D
<1> DEFINE T == {i \in Nat : i \in D => end[i] = ends[i]}
<1>10. 0 \in T
  BY <1>3, <1>8, <1>9
<1>11. ASSUME NEW i \in Nat, i \in T PROVE i + 1 \in T
  <2> SUFFICES ASSUME i + 1 \in D PROVE end[i + 1] = ends[i + 1]
    OBVIOUS
  <2>1. i \in D /\ i + 1 # 0 /\ (i + 1) - 1 = i
    BY <1>9 DEF D
  <2>2. end[i] = ends[i]
    BY ONLY <1>11, <2>1 DEF T
  <2>3. end[i + 1] = end[i] + Frames!FrameLen(stream[i + 1])
    BY <1>8, <2>1
  <2>4. ends[i + 1] = ends[i] + Frames!FrameLen(stream[i + 1])
    BY <1>5, <2>1
  <2> QED
    BY <2>2, <2>3, <2>4
<1>12. \A i \in Nat : i \in T
  <2> HIDE DEF T
  <2> QED
    BY <1>10, <1>11, NatUp
<1>13. k \in Nat /\ k \in D
  BY DEF D
<1>14. end[k] = ends[k]
  BY <1>12, <1>13
<1> QED
  BY <1>1, <1>2, <1>14 DEF EndOf

\* Ends of frames are in the order of the frames.
LEMMA EndsOrdered ==
    ASSUME stream \in Seq(FrameType), NEW i \in 0..Len(stream), NEW k \in 0..Len(stream)
    PROVE  EndOf(i) <= EndOf(k) <=> i <= k
<1>1. i <= k => EndOf(i) <= EndOf(k)
  BY BoundsGrow DEF EndOf
<1>2. k < i => EndOf(k) < EndOf(i)
  BY BoundsGrow DEF EndOf
<1>3. PICK a \in Nat, b \in Nat : a = EndOf(i) /\ b = EndOf(k)
  BY TotalTyped
<1>4. i \in Nat /\ k \in Nat
  OBVIOUS
<1> QED
  BY <1>1, <1>2, <1>3, <1>4

\* At the end of frame k there are k frames behind.
LEMMA Behind ==
    ASSUME stream \in Seq(FrameType), NEW k \in 0..Len(stream), NEW u, u = EndOf(k)
    PROVE  Cardinality({i \in DOMAIN stream : EndOf(i) <= u}) = k
<1>1. Len(stream) \in Nat /\ k \in Nat /\ DOMAIN stream = 1..Len(stream)
  OBVIOUS
<1>2. \A i \in 1..Len(stream) : i \in 0..Len(stream)
  BY <1>1
<1>3. \A i \in 1..Len(stream) : EndOf(i) <= u <=> i <= k
  BY <1>2, EndsOrdered
<1>4. \A i \in 1..k : i \in 1..Len(stream) /\ i <= k
  BY <1>1
<1>5. \A i \in 1..Len(stream) : i <= k => i \in 1..k
  BY <1>1
<1>6. {i \in DOMAIN stream : EndOf(i) <= u} = 1..k
  BY <1>1, <1>3, <1>4, <1>5
<1>7. Cardinality(1..k) = k
  BY <1>1, FS_Interval
<1> QED
  BY <1>6, <1>7

\* The frames consumed are those up to the position of the parser.
LEMMA TakenIs ==
    ASSUME stream \in Seq(FrameType), NEW k \in 0..Len(stream), used = EndOf(k)
    PROVE  FramesTaken = k
  BY Behind DEF FramesTaken

-----------------------------------------------------------------------------
(* Receiver: the verdict on a header *)

\* The bytes b[0], b[1], ... are read as the header of frame f.
ReadsFrame(b, f) ==
    /\ f \in FrameType /\ Shows(b, HeadBytes(f))
    /\ Fin(b) = f.fin /\ Rsv(b) = f.rsv /\ Opcode(b) = f.op /\ Masked(b) = f.masked
    /\ Extended(b) = LenBytes(f.form) /\ HeaderLen(b) = Len(HeadBytes(f))
    /\ f.form # 63 => PayloadLen(b) = f.size
    /\ f.form = 63 => b[2] = 128

\* The parser reads of a frame what Receiver looks at.
LEMMA HeaderSays ==
    ASSUME stream \in Seq(FrameType), NEW k \in 0..(Len(stream) - 1), used = EndOf(k),
           NEW f, f = stream[k + 1], NEW b, b = Header
    PROVE  ReadsFrame(b, f)
<1>1. k + 1 \in 1..Len(stream)
  OBVIOUS
<1>2. f \in FrameType
  BY <1>1
<1>3. Shows(b, HeadBytes(f))
  BY HeaderShown
<1>4. PICK h : h = HeadBytes(f)
  OBVIOUS
<1>5. Shows(b, h)
  BY <1>3, <1>4
<1> QED
  BY <1>2, <1>3, <1>4, <1>5, HeaderRead DEF ReadsFrame

\* The second byte of a header: the form of its length, or a short length.
LEMMA FormSeen ==
    ASSUME NEW f \in FrameType, NEW b, Extended(b) = LenBytes(f.form)
    PROVE  /\ f.form = 7 => Len7(b) # 126 /\ Len7(b) # 127 /\ Extended(b) = 0
           /\ f.form = 16 => Len7(b) = 126 /\ Extended(b) = 2
           /\ f.form \in {63, 64} => Len7(b) = 127 /\ Extended(b) = 8
<1>1. f.form \in {7, 16, 63, 64}
  BY FrameFields
<1>2. PICK form \in {7, 16, 63, 64} : form = f.form
  BY <1>1
<1>3. PICK l : l = Len7(b)
  OBVIOUS
<1>4. /\ form = 7 => LenBytes(form) = 0
      /\ form = 16 => LenBytes(form) = 2
      /\ form \in {63, 64} => LenBytes(form) = 8
  BY <1>2 DEF LenBytes
<1>5. Extended(b) = CASE l = 126 -> 2 [] l = 127 -> 8 [] OTHER -> 0
  BY <1>3 DEF Extended
<1>6. /\ l = 126 => Extended(b) = 2
      /\ l = 127 => Extended(b) = 8
      /\ (l # 126 /\ l # 127) => Extended(b) = 0
  BY <1>5
<1>7. form = 7 => l # 126 /\ l # 127 /\ Extended(b) = 0
  BY <1>2, <1>4, <1>6
<1>8. form = 16 => l = 126 /\ Extended(b) = 2
  BY <1>2, <1>4, <1>6
<1>9. form \in {63, 64} => l = 127 /\ Extended(b) = 8
  BY <1>2, <1>4, <1>6
<1> QED
  BY <1>2, <1>3, <1>7, <1>8, <1>9

\* A length of 64 bits whose top bit is not set is seen as such.
LEMMA TopBitClear ==
    ASSUME NEW f \in FrameType, f.form = 64, NEW b, Shows(b, HeadBytes(f))
    PROVE  b[2] < 128
<1>1. PICK h : h = HeadBytes(f)
  OBVIOUS
<1>2. /\ Len(h) = 2 + LenBytes(f.form) + (IF f.masked THEN 4 ELSE 0)
      /\ \A i \in 1..8 : h[2 + i] = BytesOf(f.size, 8)[i]
  BY <1>1, HeadShape
<1>3. LenBytes(f.form) = 8
  BY DEF LenBytes
<1>4. PICK m \in {10, 14} : m = Len(h)
  BY <1>2, <1>3
<1>a. 2 \in 0..(m - 1) /\ 1 \in 1..8 /\ 2 + 1 = 3
  OBVIOUS
<1>5. 2 \in 0..(Len(h) - 1) /\ 1 \in 1..8 /\ 2 + 1 = 3
  BY <1>4, <1>a
<1>6. h[3] = BytesOf(f.size, 8)[1]
  BY <1>2, <1>5
<1>7. b[2] = h[3]
  BY <1>1, <1>5 DEF Shows
<1>8. PICK n \in Nat : n = f.size /\ ShiftedRight(n, 7) < 128
  BY FrameFields
<1>9. PICK s \in Nat : s = ShiftedRight(n, 7)
  BY Shifts
<1>10. BytesOf(n, 8)[1] = ShiftedRight(n, 8 - 1) % 256 /\ 8 - 1 = 7
  BY DEF BytesOf
<1>11. s % 256 = s
  BY <1>8, <1>9
<1> QED
  BY <1>6, <1>7, <1>8, <1>9, <1>10, <1>11

\* A length of 16 bits is no greater than that.
LEMMA BeyondTwoBytes ==
    ASSUME NEW n \in Nat, ShiftedRight(n, 2) = 0
    PROVE  n <= 65535
<1>1. \A k \in Nat : /\ ShiftedRight(n, k) \in Nat
                     /\ ShiftedRight(n, k + 1) = ShiftedRight(n, k) \div 256
  BY Shifts
<1>2. 0 \in Nat /\ 1 \in Nat /\ 0 + 1 = 1 /\ 1 + 1 = 2
  OBVIOUS
<1>3. PICK a \in Nat, b \in Nat : a = ShiftedRight(n, 0) /\ b = ShiftedRight(n, 1)
  BY <1>1, <1>2
<1>4. b = a \div 256 /\ b \div 256 = 0
  BY <1>1, <1>2, <1>3
<1>5. a = n
  BY <1>3, Shifts
<1>6. b <= 255
  BY <1>4
<1>7. n <= 65535
  BY <1>4, <1>5, <1>6
<1> QED
  BY <1>7

\* A header the parser refuses breaks a rule: RFC 6455 has a ground for it.
LEMMA HeaderRefused ==
    ASSUME stream \in Seq(FrameType), NEW k \in 0..(Len(stream) - 1), used = EndOf(k),
           HeaderError(Header, Avail) \/ ~Masked(Header)
    PROVE  Frames!Malformed(stream[k + 1])
<1>1. PICK f, b : f = stream[k + 1] /\ b = Header
  OBVIOUS
<1>a. ReadsFrame(b, f)
  BY <1>1, HeaderSays
<1>2. /\ f \in FrameType /\ Shows(b, HeadBytes(f))
      /\ Fin(b) = f.fin /\ Rsv(b) = f.rsv /\ Opcode(b) = f.op /\ Masked(b) = f.masked
      /\ Extended(b) = LenBytes(f.form)
      /\ f.form # 63 => PayloadLen(b) = f.size
  BY <1>a DEF ReadsFrame
<1>3. /\ f.form = 7 => Len7(b) # 126 /\ Len7(b) # 127 /\ Extended(b) = 0
      /\ f.form = 16 => Len7(b) = 126 /\ Extended(b) = 2
      /\ f.form \in {63, 64} => Len7(b) = 127 /\ Extended(b) = 8
  BY <1>2, FormSeen
<1>4. PICK form \in {7, 16, 63, 64}, size \in Nat, op \in 0..15 :
          form = f.form /\ size = f.size /\ op = f.op
  BY <1>2, FrameFields
<1>5. Frames!ShortestForm(size) = IF size <= 125 THEN 7 ELSE IF size <= 65535 THEN 16 ELSE 64
  BY DEF Frames!ShortestForm
<1>6. CASE ~Masked(b)
  BY <1>1, <1>2, <1>6 DEF Frames!Malformed
<1>7. CASE BadFirstByte(b)
  <2>1. Rsv(b) # 0 \/ Opcode(b) \in (3..7) \cup (11..15)
    BY <1>7 DEF BadFirstByte
  <2>2. op \in (3..7) \cup (11..15) => op \notin {0, 1, 2, 8, 9, 10}
    OBVIOUS
  <2> QED
    BY <1>1, <1>2, <1>4, <2>1, <2>2 DEF Frames!Malformed
<1>8. CASE BadLength(b)
  <2>1. \/ Extended(b) = 2 /\ PayloadLen(b) < 126
        \/ Extended(b) = 8 /\ (b[2] < 128 => PayloadLen(b) <= 65535)
    BY <1>8 DEF BadLength
  <2>2. form # Frames!ShortestForm(size)
    <3>1. CASE Extended(b) = 2 /\ PayloadLen(b) < 126
      <4>1. form = 16 /\ size < 126
        BY <1>2, <1>3, <1>4, <3>1
      <4> QED
        BY <1>5, <4>1
    <3>2. CASE Extended(b) = 8 /\ (b[2] < 128 => PayloadLen(b) <= 65535)
      <4>1. form \in {63, 64}
        BY <1>3, <1>4, <3>2
      <4>2. CASE form = 63
        BY <1>5, <4>2
      <4>3. CASE form = 64
        <5>1. b[2] < 128
          BY <1>2, <1>4, <4>3, TopBitClear
        <5>2. size <= 65535
          BY <1>2, <1>4, <3>2, <4>3, <5>1
        <5> QED
          BY <1>5, <4>3, <5>2
      <4> QED
        BY <4>1, <4>2, <4>3
    <3> QED
      BY <2>1, <3>1, <3>2
  <2> QED
    BY <1>1, <1>4, <2>2 DEF Frames!Malformed
<1>9. CASE BadControl(b)
  <2>1. op >= 8 /\ ~(f.fin /\ Len7(b) <= 125)
    BY <1>2, <1>4, <1>9 DEF BadControl, IsControl
  <2>2. CASE ~f.fin
    BY <1>1, <1>4, <2>1, <2>2 DEF Frames!Malformed
  <2>3. CASE ~(Len7(b) <= 125)
    <3>1. form # 7
      <4> SUFFICES ASSUME form = 7 PROVE FALSE
        OBVIOUS
      <4>1. PICK h \in Seq(Byte), l \in 2..14 : h = HeadBytes(f) /\ l = Len(h)
        BY <1>2, FrameLenIs
      <4>2. 1 \in 0..(l - 1) /\ 1 + 1 = 2 /\ 2 \in 1..l
        OBVIOUS
      <4>3. b[1] = h[2] /\ h[2] \in Byte
        <5>1. b[1] = h[1 + 1]
          BY <1>2, <4>1, <4>2 DEF Shows
        <5> QED
          BY <4>1, <4>2, <5>1
      <4>4. PICK n \in 0..255 : n = b[1]
        BY <4>3 DEF Byte
      <4>5. PICK m \in 0..127 : m = n % 128
        OBVIOUS
      <4>6. Len7(b) = m
        BY <4>4, <4>5 DEF Len7
      <4>7. m # 126 /\ m # 127 /\ ~(m <= 125)
        BY <1>3, <1>4, <2>3, <4>6
      <4> QED
        BY <4>7
    <3>2. size > 125 \/ form # Frames!ShortestForm(size)
      BY <1>5, <3>1
    <3> QED
      BY <1>1, <1>4, <2>1, <3>2 DEF Frames!Malformed
  <2> QED
    BY <2>1, <2>2, <2>3
<1> QED
  BY <1>1, <1>6, <1>7, <1>8, <1>9 DEF HeaderError

\* A header the parser accepts breaks none.
LEMMA HeaderAccepted ==
    ASSUME stream \in Seq(FrameType), NEW k \in 0..(Len(stream) - 1), used = EndOf(k),
           Avail \in Nat, HeaderComplete(Header, Avail), Masked(Header)
    PROVE  ~Frames!Malformed(stream[k + 1])
<1>1. PICK f, b : f = stream[k + 1] /\ b = Header
  OBVIOUS
<1>a. ReadsFrame(b, f)
  BY <1>1, HeaderSays
<1>2. /\ f \in FrameType /\ Shows(b, HeadBytes(f))
      /\ Fin(b) = f.fin /\ Rsv(b) = f.rsv /\ Opcode(b) = f.op /\ Masked(b) = f.masked
      /\ Extended(b) = LenBytes(f.form) /\ HeaderLen(b) = Len(HeadBytes(f))
      /\ f.form # 63 => PayloadLen(b) = f.size
      /\ f.form = 63 => b[2] = 128
  BY <1>a DEF ReadsFrame
<1>3. /\ f.form = 7 => Len7(b) # 126 /\ Len7(b) # 127 /\ Extended(b) = 0
      /\ f.form = 16 => Len7(b) = 126 /\ Extended(b) = 2
      /\ f.form \in {63, 64} => Len7(b) = 127 /\ Extended(b) = 8
  BY <1>2, FormSeen
<1>b. /\ f.form \in {7, 16, 63, 64} /\ f.size \in Nat /\ f.op \in 0..15
      /\ f.form = 7 => f.size <= 125
      /\ f.form = 16 => ShiftedRight(f.size, 2) = 0
  <2>1. f \in FrameType
    BY <1>2
  <2> QED
    BY ONLY <2>1, FrameFields
<1>c. PICK form \in {7, 16, 63, 64} : form = f.form
  BY ONLY <1>b
<1>d. PICK size \in Nat : size = f.size
  BY ONLY <1>b
<1>e. PICK op \in 0..15 : op = f.op
  BY ONLY <1>b
<1>4. /\ form \in {7, 16, 63, 64} /\ size \in Nat /\ op \in 0..15
      /\ form = f.form /\ size = f.size /\ op = f.op
      /\ form = 7 => size <= 125
      /\ form = 16 => ShiftedRight(size, 2) = 0
  BY ONLY <1>b, <1>c, <1>d, <1>e
<1>5. Frames!ShortestForm(size) = IF size <= 125 THEN 7 ELSE IF size <= 65535 THEN 16 ELSE 64
  BY DEF Frames!ShortestForm
<1>6. PICK n \in Nat : n = Avail /\ n >= 2 /\ n >= HeaderLen(b) /\ ~HeaderError(b, n)
  BY <1>1 DEF HeaderComplete
<1>7. n >= 2 + Extended(b)
  <2>1. PICK l \in 2..14, e \in {0, 2, 8} : l = Len(HeadBytes(f)) /\ e = LenBytes(f.form)
    <3>1. LenBytes(f.form) \in {0, 2, 8}
      BY DEF LenBytes
    <3> QED
      BY <1>2, <3>1, FrameLenIs
  <2>2. l = 2 + e + (IF f.masked THEN 4 ELSE 0)
    BY <1>2, <2>1, FrameLenIs
  <2>3. l >= 2 + e
    BY <2>2
  <2>4. n >= l
    BY <1>2, <1>6, <2>1
  <2> QED
    BY <1>2, <2>1, <2>3, <2>4
<1>8. ~BadFirstByte(b) /\ ~BadLength(b) /\ ~BadControl(b)
  BY <1>6, <1>7 DEF HeaderError
<1>9. f.rsv = 0 /\ op \in {0, 1, 2, 8, 9, 10}
  <2>1. ~(Rsv(b) # 0) /\ Opcode(b) \notin (3..7) \cup (11..15)
    BY <1>8 DEF BadFirstByte
  <2>2. Opcode(b) = op
    BY <1>2, <1>4
  <2>3. op \notin (3..7) \cup (11..15)
    BY ONLY <2>1, <2>2
  <2>4. op \in {0, 1, 2, 8, 9, 10}
    BY ONLY <2>3, op \in 0..15
  <2> QED
    BY <1>2, <2>1, <2>4
<1>10. form = Frames!ShortestForm(size)
  <2>1. CASE form = 7
    BY <1>4, <1>5, <2>1
  <2>2. CASE form = 16
    <3>1. ~(size < 126)
      BY <1>2, <1>3, <1>4, <1>8, <2>2 DEF BadLength
    <3>2. size <= 65535
      BY <1>4, <2>2, BeyondTwoBytes
    <3> QED
      BY <1>5, <2>2, <3>1, <3>2
  <2>3. CASE form = 63
    <3>1. Extended(b) = 8 /\ ~(b[2] < 128)
      BY <1>2, <1>3, <1>4, <2>3
    <3> QED
      BY <1>8, <3>1 DEF BadLength
  <2>4. CASE form = 64
    <3>1. Extended(b) = 8 /\ PayloadLen(b) = size
      BY <1>2, <1>3, <1>4, <2>4
    <3>2. ~(size <= 65535)
      BY <1>8, <3>1 DEF BadLength
    <3> QED
      BY <1>5, <2>4, <3>2
  <2> QED
    BY <2>1, <2>2, <2>3, <2>4
<1>11. op >= 8 => f.fin /\ size <= 125
  <2> SUFFICES ASSUME op >= 8 PROVE f.fin /\ size <= 125
    OBVIOUS
  <2>1. f.fin /\ Len7(b) <= 125
    BY <1>2, <1>4, <1>8 DEF BadControl, IsControl
  <2>2. form = 7
    BY <1>3, <1>4, <2>1
  <2> QED
    BY <1>4, <2>1, <2>2
<1>12. f.masked
  BY <1>1, <1>2
<1> QED
  BY <1>1, <1>4, <1>9, <1>10, <1>11, <1>12 DEF Frames!Malformed

-----------------------------------------------------------------------------
(* Receiver: the frame the parser is at *)

\* As many bytes are told apart as there are and as are looked at.
LEMMA ToldApart ==
    ASSUME NEW n \in Nat
    PROVE  /\ Frames!Min({n, TextBytes}) = Min({n, TextBytes})
           /\ Min({n, TextBytes}) \in Nat /\ Min({n, TextBytes}) <= n
<1>1. TextBytes \in Nat
  BY SizesAssumption
<1>2. PICK m \in {n, TextBytes} : m <= n /\ m <= TextBytes
  BY <1>1
<1>3. Min({n, TextBytes}) = m
  BY <1>1, <1>2 DEF Min
<1>4. Frames!Min({n, TextBytes}) = m
  BY <1>1, <1>2 DEF Frames!Min
<1> QED
  BY <1>1, <1>2, <1>3, <1>4

\* What the parser hands on is the payload as it was sent.
LEMMA TextRead ==
    ASSUME stream \in Seq(FrameType), NEW k \in 0..(Len(stream) - 1), used = EndOf(k),
           NEW f, f = stream[k + 1], HeaderLen(Header) = Len(HeadBytes(f))
    PROVE  Payload(Header, f.size) = Frames!Text(f.body, f.size)
<1>1. k + 1 \in 1..Len(stream) /\ (k + 1) - 1 = k /\ k \in 0..Len(stream)
  OBVIOUS
<1>2. f \in FrameType
  BY <1>1
<1>3. PICK head : head = HeadBytes(f)
  OBVIOUS
<1>4. PICK h \in 2..14, n \in Nat : h = Len(head) /\ n = f.size /\ FrameLen(f) = h + n
  BY <1>2, <1>3, FrameTotal
<1>5. PICK body \in Seq(Byte) : body = f.body /\ head \in Seq(Byte)
  BY <1>2, <1>3, FrameFields, FrameLenIs
<1>6. PICK b \in Nat : b = Len(body)
  BY <1>5
<1>7. /\ Len(head \o body) = h + b
      /\ \A i \in 1..b : (head \o body)[h + i] = body[i]
  BY <1>4, <1>5, <1>6, ConcatAt
<1>8. EndOf(k) \in Nat
  BY <1>1, TotalTyped
<1>9. PICK m \in Nat : m = Min({n, TextBytes}) /\ m <= n /\ m = Frames!Min({n, TextBytes})
  BY ToldApart
<1>10. ASSUME NEW i \in 1..m
       PROVE  ByteAt(used + HeaderLen(Header) + i - 1) = IF i <= b THEN body[i] ELSE Filler
  <2>1. h + i \in 1..(h + n) /\ EndOf(k) + h + i - 1 = EndOf(k) + (h + i) - 1
    <3>1. i \in Nat /\ i >= 1 /\ i <= n
      BY <1>9
    <3>2. PICK e \in Nat : e = EndOf(k)
      BY <1>8
    <3>3. h + i \in 1..(h + n)
      BY ONLY <3>1, h \in 2..14, n \in Nat
    <3>4. e + h + i - 1 = e + (h + i) - 1
      BY ONLY <3>1, e \in Nat, h \in 2..14
    <3> QED
      BY ONLY <3>2, <3>3, <3>4
  <2>2. h + i \in 1..FrameLen(stream[k + 1])
    BY <1>4, <2>1
  <2>3. ByteAt(EndOf((k + 1) - 1) + (h + i) - 1) =
            IF h + i <= Len(head \o body) THEN (head \o body)[h + i] ELSE Filler
    BY <1>1, <1>3, <1>5, <2>2, BytesOfFrame
  <2>4. h + i <= h + b <=> i <= b
    OBVIOUS
  <2>5. i <= b => (head \o body)[h + i] = body[i]
    BY <1>7
  <2>6. used + HeaderLen(Header) + i - 1 = EndOf((k + 1) - 1) + (h + i) - 1
    BY <1>1, <1>3, <1>4, <2>1
  <2> QED
    BY <1>7, <2>3, <2>4, <2>5, <2>6
<1>11. Payload(Header, n) = [i \in 1..m |-> ByteAt(used + HeaderLen(Header) + i - 1)]
  BY <1>9 DEF Payload
<1>12. Frames!Text(body, n) = [i \in 1..m |-> IF i <= b THEN body[i] ELSE Filler]
  BY <1>6, <1>9 DEF Frames!Text
<1>13. Payload(Header, n) = Frames!Text(body, n)
  BY <1>10, <1>11, <1>12
<1> QED
  BY <1>4, <1>5, <1>13

\* Payloads are bytes.
LEMMA PayloadTyped ==
    ASSUME NEW f \in FrameType
    PROVE  /\ Frames!Text(f.body, f.size) \in Seq(Byte)
           /\ Len(Frames!Text(f.body, f.size)) = Frames!Min({f.size, TextBytes})
<1>1. PICK n \in Nat, body \in Seq(Byte) : n = f.size /\ body = f.body
  BY FrameFields
<1>2. PICK m \in Nat : m = Frames!Min({n, TextBytes})
  BY ToldApart
<1>3. Filler \in Byte
  BY SizesAssumption DEF Byte
<1>4. PICK t : t = [i \in 1..m |-> IF i <= Len(body) THEN body[i] ELSE Filler]
  OBVIOUS
<1>5. \A i \in 1..m : i <= Len(body) => body[i] \in Byte
  OBVIOUS
<1>6. t \in Seq(Byte) /\ Len(t) = m
  BY <1>3, <1>4, <1>5
<1>7. Frames!Text(body, n) = t
  BY <1>2, <1>4 DEF Frames!Text
<1> QED
  BY <1>1, <1>2, <1>6, <1>7

\* With two bytes in rx the parser looks at frame k + 1.
LEMMA AtHeader ==
    ASSUME InputInv, Avail >= 2
    PROVE  \E k \in 0..(Len(stream) - 1) :
               /\ used = EndOf(k) /\ FramesTaken = k
               /\ arrived >= Frames!EndOf(k) + 2
<1>1. /\ stream \in Seq(FrameType) /\ arrived \in 0..Total /\ taken \in 0..arrived
      /\ Unread(rx) = taken - used /\ used <= taken
  BY DEF InputInv, SourceTyped, Held
<1>2. PICK k \in 0..Len(stream) : used = EndOf(k)
  BY DEF InputInv, AtFrame
<1>3. Total \in Nat /\ used \in Nat /\ arrived \in Nat /\ taken \in Nat /\ Len(stream) \in Nat
  BY <1>1, <1>2, TotalTyped
<1>4. taken - used >= 2
  BY <1>1 DEF Avail
<1>5. k # Len(stream)
  <2> SUFFICES ASSUME k = Len(stream) PROVE FALSE
    OBVIOUS
  <2>1. used = Total
    BY <1>2 DEF Total
  <2> QED
    BY <1>1, <1>3, <1>4, <2>1
<1>6. k \in 0..(Len(stream) - 1)
  BY <1>3, <1>5
<1>7. FramesTaken = k /\ Frames!EndOf(k) = used
  BY <1>1, <1>2, TakenIs, SameEnds
<1>8. arrived >= used + 2
  BY <1>1, <1>3, <1>4
<1> QED
  BY <1>2, <1>6, <1>7, <1>8

\* Frame k + 1 is there as a whole, and the parser has read it right.
WholeFrame(k) ==
    /\ k \in 0..(Len(stream) - 1) /\ stream[k + 1] \in FrameType
    /\ used = EndOf(k) /\ FramesTaken = k
    /\ used + HeaderLen(Header) + Size = EndOf(k + 1)
    /\ arrived >= Frames!EndOf(k) + 2 /\ arrived >= Frames!EndOf(k + 1)
    /\ Opcode(Header) = stream[k + 1].op /\ Fin(Header) = stream[k + 1].fin
    /\ Size = stream[k + 1].size
    /\ Bytes = Frames!Text(stream[k + 1].body, stream[k + 1].size)
    /\ ~Frames!Malformed(stream[k + 1])
    /\ Size <= conf.maxFrame

\* The loop handles such a frame only.
LEMMA AtFrameWhole ==
    ASSUME InputInv, HasFrame
    PROVE  \E k \in Nat : WholeFrame(k)
<1>1. /\ stream \in Seq(FrameType) /\ arrived \in 0..Total /\ taken \in 0..arrived
      /\ Unread(rx) = taken - used /\ used <= taken
  BY DEF InputInv, SourceTyped, Held
<1>2. /\ HeaderComplete(Header, Avail) /\ Masked(Header) /\ Avail = taken - used
      /\ Avail >= HeaderLen(Header) + PayloadLen(Header) /\ PayloadLen(Header) <= conf.maxFrame
  BY <1>1 DEF HasFrame, HeaderGood, Avail
<1>3. Avail >= 2
  BY <1>2 DEF HeaderComplete
<1>4. PICK k \in 0..(Len(stream) - 1) :
          used = EndOf(k) /\ FramesTaken = k /\ arrived >= Frames!EndOf(k) + 2
  BY <1>3, AtHeader
<1>5. k \in 0..Len(stream) /\ k + 1 \in 1..Len(stream) /\ k + 1 \in 0..Len(stream) /\ k \in Nat
  OBVIOUS
<1>6. Total \in Nat /\ used \in Nat /\ arrived \in Nat /\ taken \in Nat /\ taken \in 0..Total
  BY <1>1, <1>4, <1>5, TotalTyped
<1>7. Avail \in Nat
  BY <1>1, <1>2, <1>6
<1>8. PICK f \in FrameType : f = stream[k + 1]
  BY <1>1, <1>5
<1>9. /\ PayloadLen(Header) = f.size /\ HeaderLen(Header) = Len(HeadBytes(f))
      /\ Opcode(Header) = f.op /\ Fin(Header) = f.fin
      /\ used + HeaderLen(Header) + PayloadLen(Header) = EndOf(k + 1)
  BY <1>1, <1>2, <1>4, <1>5, <1>6, <1>8, FrameAt
<1>10. Bytes = Frames!Text(f.body, f.size)
  BY <1>1, <1>4, <1>8, <1>9, TextRead DEF Bytes, Size
<1>11. ~Frames!Malformed(f)
  BY <1>1, <1>2, <1>4, <1>7, <1>8, HeaderAccepted
<1>12. arrived >= Frames!EndOf(k + 1)
  <2>1. PICK h \in 2..14, n \in Nat : h = HeaderLen(Header) /\ n = PayloadLen(Header)
    BY <1>8, <1>9, FrameTotal
  <2>2. taken - used >= h + n /\ EndOf(k + 1) = used + h + n
    BY <1>2, <1>9, <2>1
  <2>3. arrived >= EndOf(k + 1)
    BY <1>1, <1>6, <2>2
  <2> QED
    BY <1>1, <1>5, <2>3, SameEnds
<1> QED
  BY <1>2, <1>4, <1>5, <1>8, <1>9, <1>10, <1>11, <1>12 DEF WholeFrame, Size

-----------------------------------------------------------------------------
(* Receiver: the frames of a message *)

\* The frames up to k that begin a message.
Begins(k) == {j \in 1..k : Frames!IsData(j) /\ stream[j].op # 0}

\* The largest number of a set.
LEMMA MaxIs ==
    ASSUME NEW n \in Nat, NEW s, s \subseteq 1..n, NEW m \in s, \A x \in s : x <= m
    PROVE  Frames!Max(s) = m
<1>1. \A x \in s : x \in Nat
  OBVIOUS
<1>2. \A x \in s : (\A y \in s : x >= y) => x = m
  BY <1>1
<1>3. \A y \in s : m >= y
  BY <1>1
<1> QED
  BY <1>2, <1>3 DEF Frames!Max

\* The first frame of a message is one.
LEMMA FirstIs ==
    ASSUME NEW k \in Nat, Begins(k) # {}
    PROVE  /\ Frames!First(k) \in Begins(k) /\ Frames!First(k) \in 1..k
           /\ Frames!IsData(Frames!First(k)) /\ stream[Frames!First(k)].op # 0
<1>1. PICK s : s = Begins(k)
  OBVIOUS
<1>2. s \subseteq 0..k /\ s # {}
  BY <1>1 DEF Begins
<1>3. Max(s) \in s /\ \A x \in s : x <= Max(s)
  BY <1>2, MaxOfBounded
<1>4. s \subseteq 1..k
  BY <1>1 DEF Begins
<1>5. PICK m \in s : m = Max(s)
  BY <1>3
<1>6. Frames!Max(s) = m
  BY <1>3, <1>4, <1>5, MaxIs
<1>7. Frames!First(k) = m
  BY <1>1, <1>6 DEF Frames!First, Begins
<1> QED
  BY <1>1, <1>7 DEF Begins

\* A frame of control, or one that goes on with a message, begins none.
LEMMA SameFirst ==
    ASSUME NEW k \in Nat, ~Frames!IsData(k + 1) \/ stream[k + 1].op = 0
    PROVE  Begins(k + 1) = Begins(k) /\ Frames!First(k + 1) = Frames!First(k)
<1>1. \A j \in 1..(k + 1) : j \in 1..k \/ j = k + 1
  OBVIOUS
<1>2. \A j \in 1..k : j \in 1..(k + 1)
  OBVIOUS
<1>3. Begins(k + 1) = Begins(k)
  BY <1>1, <1>2 DEF Begins
<1> QED
  BY <1>3 DEF Frames!First, Begins

\* Any other frame of data begins one.
LEMMA FreshFirst ==
    ASSUME NEW k \in Nat, Frames!IsData(k + 1), stream[k + 1].op # 0
    PROVE  k + 1 \in Begins(k + 1) /\ Frames!First(k + 1) = k + 1
<1>0. PICK n \in Nat : n = k + 1
  OBVIOUS
<1>1. PICK s : s = Begins(k + 1)
  OBVIOUS
<1>2. s \subseteq 1..n /\ n \in s
  BY <1>0, <1>1 DEF Begins
<1>3. \A x \in s : x <= n
  BY <1>2
<1>4. Frames!Max(s) = n
  BY <1>2, <1>3, MaxIs
<1> QED
  BY <1>0, <1>1, <1>2, <1>4 DEF Frames!First, Begins

\* Whether a message is unfinished is up to the last frame of data.
LEMMA UnfinishedData ==
    ASSUME NEW k \in Nat, Frames!IsData(k + 1)
    PROVE  Frames!Unfinished(k + 2) <=> ~stream[k + 1].fin
<1>0. PICK n \in Nat : n = k + 1
  OBVIOUS
<1>1. PICK s : s = Frames!DataBefore(k + 2)
  OBVIOUS
<1>2. (k + 2) - 1 = n
  BY <1>0
<1>3. s = {j \in 1..n : Frames!IsData(j)}
  BY <1>1, <1>2 DEF Frames!DataBefore
<1>4. s \subseteq 1..n /\ n \in s
  BY <1>0, <1>3
<1>5. \A x \in s : x <= n
  BY <1>4
<1>6. Frames!Max(s) = n
  BY <1>4, <1>5, MaxIs
<1> QED
  BY <1>0, <1>1, <1>4, <1>6 DEF Frames!Unfinished

\* A frame of control changes nothing.
LEMMA UnfinishedControl ==
    ASSUME NEW k \in Nat, ~Frames!IsData(k + 1)
    PROVE  Frames!Unfinished(k + 2) <=> Frames!Unfinished(k + 1)
<1>1. (k + 2) - 1 = k + 1 /\ (k + 1) - 1 = k
  OBVIOUS
<1>2. \A j \in 1..(k + 1) : j \in 1..k \/ j = k + 1
  OBVIOUS
<1>3. \A j \in 1..k : j \in 1..(k + 1)
  OBVIOUS
<1>4. Frames!DataBefore(k + 2) = {j \in 1..(k + 1) : Frames!IsData(j)}
  BY <1>1 DEF Frames!DataBefore
<1>5. Frames!DataBefore(k + 1) = {j \in 1..k : Frames!IsData(j)}
  BY <1>1 DEF Frames!DataBefore
<1>6. Frames!DataBefore(k + 2) = Frames!DataBefore(k + 1)
  BY <1>2, <1>3, <1>4, <1>5
<1> QED
  BY <1>6 DEF Frames!Unfinished

Nothing == [len |-> 0, text |-> <<>>]

\* Frame j adds its payload to what is held.
Joins(j, m) == [len  |-> m.len + stream[j].size,
                text |-> m.text \o Frames!Text(stream[j].body, stream[j].size)]

\* What is held of a message that frame first begins, from frame to frame.
HeldRun(h, k, first) ==
    \A j \in 0..k : h[j] = IF j < first THEN Nothing
                           ELSE IF ~Frames!IsData(j) THEN h[j - 1]
                           ELSE Joins(j, h[j - 1])

\* Receiver finds what is held by such a run.
LEMMA HeldSteps ==
    ASSUME stream \in Seq(FrameType), NEW k \in 0..Len(stream), Begins(k) # {}
    PROVE  \E h : HeldRun(h, k, Frames!First(k)) /\ Frames!SoFar(k) = h[k]
<1>1. PICK first \in 1..k : first = Frames!First(k)
  BY FirstIs
<1>2. PICK V : V = [len : Nat, text : Seq(Byte)]
  OBVIOUS
<1>3. ASSUME NEW j \in 1..k, NEW m \in V PROVE Joins(j, m) \in V
  <2>1. stream[j] \in FrameType
    OBVIOUS
  <2>2. PICK n \in Nat, t \in Seq(Byte) :
            n = stream[j].size /\ t = Frames!Text(stream[j].body, stream[j].size)
    BY <2>1, FrameFields, PayloadTyped
  <2>3. PICK a \in Nat, b \in Seq(Byte) : a = m.len /\ b = m.text
    BY <1>2
  <2>4. b \o t \in Seq(Byte)
    OBVIOUS
  <2> QED
    BY <1>2, <2>2, <2>3, <2>4 DEF Joins
<1>4. Nothing \in V
  BY <1>2 DEF Nothing
<1> DEFINE D == 0..k
           Body(g) == [j \in D |-> IF j < first THEN Nothing
                                   ELSE IF ~Frames!IsData(j) THEN g[j - 1]
                                   ELSE Joins(j, g[j - 1])]
           held == CHOOSE g : g = Body(g)
<1>5. \A j \in D : ~(j < first) => j \in 1..k /\ j - 1 \in D /\ j - 1 < j
  OBVIOUS
<1>6. k \in Nat /\ D \subseteq Nat /\ k \in D
  OBVIOUS
<1>7. Frames!SoFar(k) = held[k]
  BY <1>1 DEF Frames!SoFar, Nothing, Joins
<1> HIDE DEF D
<1>8. \E g \in [D -> V] : g = Body(g)
  <2> DEFINE rank == [i \in D |-> i]
             step == [g \in [D -> V] |-> Body(g)]
  <2>1. rank \in [D -> Nat] /\ step \in [[D -> V] -> [D -> V]]
    <3>1. ASSUME NEW g \in [D -> V] PROVE Body(g) \in [D -> V]
      BY <1>3, <1>4, <1>5
    <3>2. \A i \in D : i \in Nat
      BY <1>6
    <3> QED
      BY <3>1, <3>2
  <2>2. ASSUME NEW f \in [D -> V], NEW g \in [D -> V], NEW i \in D,
               \A j \in D : rank[j] < rank[i] => f[j] = g[j]
        PROVE  step[f][i] = step[g][i]
    <3>1. ~(i < first) => f[i - 1] = g[i - 1]
      BY <1>5, <2>2
    <3> QED
      BY <3>1
  <2>3. RankedStep(D, V, rank, step)
    <3> HIDE DEF rank, step
    <3> QED
      BY <2>1, <2>2 DEF RankedStep
  <2>4. PICK f \in [D -> V] : f = step[f]
    <3> HIDE DEF rank, step
    <3>1. V # {}
      BY <1>4
    <3> QED
      BY <2>3, <3>1, RankedRecursion
  <2> QED
    BY <2>4
<1>9. held = Body(held)
  BY <1>8
<1> HIDE DEF held
<1>10. HeldRun(held, k, first)
  BY <1>9 DEF HeldRun, D
<1> QED
  BY <1>1, <1>7, <1>10

\* Two runs for the same first frame agree.
LEMMA RunsHoldSame ==
    ASSUME NEW k \in Nat, NEW n \in Nat, k <= n, NEW first \in 1..n, NEW g, NEW h,
           HeldRun(g, k, first), HeldRun(h, n, first)
    PROVE  \A j \in 0..k : g[j] = h[j]
<1> DEFINE T == {j \in Nat : j \in 0..k => g[j] = h[j]}
<1>1. 0 \in T
  <2>1. 0 \in 0..k /\ 0 \in 0..n /\ 0 < first
    OBVIOUS
  <2>2. g[0] = Nothing /\ h[0] = Nothing
    BY <2>1 DEF HeldRun
  <2> QED
    BY <2>2
<1>2. ASSUME NEW j \in Nat, j \in T PROVE j + 1 \in T
  <2> SUFFICES ASSUME j + 1 \in 0..k PROVE g[j + 1] = h[j + 1]
    OBVIOUS
  <2>1. j \in 0..k /\ j + 1 \in 0..n /\ (j + 1) - 1 = j
    OBVIOUS
  <2>2. g[j] = h[j]
    BY ONLY <1>2, <2>1 DEF T
  <2>3. g[j + 1] = IF j + 1 < first THEN Nothing
                   ELSE IF ~Frames!IsData(j + 1) THEN g[j] ELSE Joins(j + 1, g[j])
    BY <2>1 DEF HeldRun
  <2>4. h[j + 1] = IF j + 1 < first THEN Nothing
                   ELSE IF ~Frames!IsData(j + 1) THEN h[j] ELSE Joins(j + 1, h[j])
    BY <2>1 DEF HeldRun
  <2> QED
    BY <2>2, <2>3, <2>4
<1>3. \A j \in Nat : j \in T
  <2> HIDE DEF T
  <2> QED
    BY <1>1, <1>2, NatUp
<1> QED
  BY <1>3

\* A frame of control adds nothing, one that goes on with a message its payload.
LEMMA HeldNext ==
    ASSUME stream \in Seq(FrameType), NEW k \in 0..(Len(stream) - 1), Begins(k) # {}
    PROVE  /\ ~Frames!IsData(k + 1) => Frames!SoFar(k + 1) = Frames!SoFar(k)
           /\ Frames!IsData(k + 1) /\ stream[k + 1].op = 0 =>
                  Frames!SoFar(k + 1) = Joins(k + 1, Frames!SoFar(k))
<1> SUFFICES ASSUME ~Frames!IsData(k + 1) \/ stream[k + 1].op = 0
             PROVE  Frames!SoFar(k + 1) = IF ~Frames!IsData(k + 1) THEN Frames!SoFar(k)
                                          ELSE Joins(k + 1, Frames!SoFar(k))
  OBVIOUS
<1>1. k \in Nat /\ k \in 0..Len(stream) /\ k + 1 \in 0..Len(stream) /\ k + 1 \in Nat /\ k <= k + 1
      /\ (k + 1) - 1 = k /\ k \in 0..k /\ k + 1 \in 0..(k + 1)
  OBVIOUS
<1>2. Begins(k + 1) = Begins(k) /\ Frames!First(k + 1) = Frames!First(k)
  BY <1>1, SameFirst
<1>3. PICK first \in 1..k : first = Frames!First(k)
  BY <1>1, FirstIs
<1>4. PICK g : HeldRun(g, k, first) /\ Frames!SoFar(k) = g[k]
  BY <1>1, <1>3, HeldSteps
<1>5. PICK h : HeldRun(h, k + 1, first) /\ Frames!SoFar(k + 1) = h[k + 1]
  BY <1>1, <1>2, <1>3, HeldSteps
<1>6. first \in 1..(k + 1) /\ ~(k + 1 < first)
  BY <1>1, <1>3
<1>7. g[k] = h[k]
  BY <1>1, <1>4, <1>5, <1>6, RunsHoldSame
<1>8. h[k + 1] = IF ~Frames!IsData(k + 1) THEN h[k] ELSE Joins(k + 1, h[k])
  BY <1>1, <1>5, <1>6 DEF HeldRun
<1> QED
  BY <1>4, <1>5, <1>7, <1>8

\* The frame that begins a message adds its payload to nothing.
LEMMA HeldFirst ==
    ASSUME stream \in Seq(FrameType), NEW k \in 0..(Len(stream) - 1),
           Frames!IsData(k + 1), stream[k + 1].op # 0
    PROVE  Frames!SoFar(k + 1) = Joins(k + 1, Nothing)
<1>1. k \in Nat /\ k + 1 \in 0..Len(stream) /\ k + 1 \in Nat
      /\ (k + 1) - 1 = k /\ k \in 0..(k + 1) /\ k + 1 \in 0..(k + 1) /\ k < k + 1
      /\ ~(k + 1 < k + 1)
  OBVIOUS
<1>2. Begins(k + 1) # {} /\ Frames!First(k + 1) = k + 1
  BY <1>1, FreshFirst
<1>3. PICK h : HeldRun(h, k + 1, k + 1) /\ Frames!SoFar(k + 1) = h[k + 1]
  BY <1>1, <1>2, HeldSteps
<1>4. h[k] = Nothing
  BY <1>1, <1>3 DEF HeldRun
<1>5. h[k + 1] = Joins(k + 1, h[k])
  BY <1>1, <1>3 DEF HeldRun
<1> QED
  BY <1>3, <1>4, <1>5

-----------------------------------------------------------------------------
(* The inductive invariant: what Receiver would say *)

\* Behind frame k the message under assembly is what the frames up to there hold.
Joined(k) ==
    /\ fragmenting <=> Frames!Unfinished(k + 1)
    /\ fragmenting => /\ Begins(k) # {}
                      /\ msgOpcode = stream[Frames!First(k)].op
                      /\ msg = Frames!SoFar(k)

\* Behind a CLOSE nothing is looked at any more.
JoinInv == ~closing => Joined(FramesTaken)

\* The worker knows that it has answered with a CLOSE.
ClosingInv == closing <=> Frames!Closing

\* The buffer never gets smaller than it was in the handshake.
RoomInv == rx.cap >= Defaults.handshakeMax

ReceiverInv == JoinInv /\ ClosingInv /\ RoomInv

\* A frame of data in its place: the message with it is the one Receiver judges.
LEMMA Judged ==
    ASSUME JoinInv, HasData, InPlace, NEW k \in Nat, WholeFrame(k), stream \in Seq(FrameType)
    PROVE  /\ Frames!IsData(k + 1) /\ Begins(k + 1) # {}
           /\ stream[Frames!First(k + 1)].op = Assembly.op
           /\ Frames!SoFar(k + 1) = WithFrame
<1>1. /\ k \in 0..(Len(stream) - 1) /\ FramesTaken = k
      /\ Opcode(Header) = stream[k + 1].op /\ Size = stream[k + 1].size
      /\ Bytes = Frames!Text(stream[k + 1].body, stream[k + 1].size)
      /\ ~Frames!Malformed(stream[k + 1])
  BY DEF WholeFrame
<1>2. ~closing /\ ~IsControl(Opcode(Header))
  BY DEF HasData, HasFrame, HeaderGood, Parsing
<1>3. Joined(k)
  BY <1>1, <1>2 DEF JoinInv
<1>4. Frames!IsData(k + 1)
  <2>1. stream[k + 1].op \in {0, 1, 2, 8, 9, 10} /\ ~(stream[k + 1].op >= 8)
    BY <1>1, <1>2 DEF Frames!Malformed, IsControl
  <2>2. stream[k + 1].op \in {0, 1, 2}
    BY <2>1
  <2> QED
    BY <2>2 DEF Frames!IsData
<1>5. CASE fragmenting
  <2>1. /\ Begins(k) # {} /\ msgOpcode = stream[Frames!First(k)].op
        /\ msg = Frames!SoFar(k) /\ stream[k + 1].op = 0
    BY <1>1, <1>3, <1>5 DEF Joined, InPlace, OpCont
  <2>2. Begins(k + 1) = Begins(k) /\ Frames!First(k + 1) = Frames!First(k)
    BY <2>1, SameFirst
  <2>3. Frames!SoFar(k + 1) = Joins(k + 1, msg)
    BY <1>1, <1>4, <2>1, HeldNext
  <2>4. Assembly.op = msgOpcode /\ Assembly.msg = msg
    BY <1>5 DEF Assembly
  <2>5. WithFrame = Joins(k + 1, msg)
    BY <1>1, <2>4 DEF WithFrame, Joins
  <2> QED
    BY <1>4, <2>1, <2>2, <2>3, <2>4, <2>5
<1>6. CASE ~fragmenting
  <2>1. stream[k + 1].op # 0
    BY <1>1, <1>6 DEF InPlace, OpCont
  <2>2. k + 1 \in Begins(k + 1) /\ Frames!First(k + 1) = k + 1
    BY <1>4, <2>1, FreshFirst
  <2>3. Frames!SoFar(k + 1) = Joins(k + 1, Nothing)
    BY <1>1, <1>4, <2>1, HeldFirst
  <2>4. Assembly.op = stream[k + 1].op /\ Assembly.msg = Nothing
    BY <1>1, <1>6 DEF Assembly, Nothing
  <2>5. WithFrame = Joins(k + 1, Nothing)
    BY <1>1, <2>4 DEF WithFrame, Joins
  <2> QED
    BY <1>4, <2>2, <2>3, <2>4, <2>5
<1> QED
  BY <1>5, <1>6

\* Behind such a frame the message is the one with it.
LEMMA JoinedNext ==
    ASSUME JoinInv, HasData, InPlace, NEW k \in Nat, WholeFrame(k), stream \in Seq(FrameType),
           stream' = stream, fragmenting' = ~Fin(Header),
           fragmenting' => msgOpcode' = Assembly.op /\ msg' = WithFrame
    PROVE  Joined(k + 1)'
<1>1. /\ Frames!IsData(k + 1) /\ Begins(k + 1) # {}
      /\ stream[Frames!First(k + 1)].op = Assembly.op
      /\ Frames!SoFar(k + 1) = WithFrame
  BY Judged
<1>2. Frames!Unfinished(k + 2) <=> ~stream[k + 1].fin
  BY <1>1, UnfinishedData
<1>3. Fin(Header) = stream[k + 1].fin
  BY DEF WholeFrame
<1>4. (k + 1) + 1 = k + 2
  OBVIOUS
<1>5. Frames!Unfinished((k + 1) + 1) <=> ~Fin(Header)
  BY <1>2, <1>3, <1>4
<1>6. Frames!Unfinished((k + 1) + 1)' <=> Frames!Unfinished((k + 1) + 1)
  BY DEF Frames!Unfinished, Frames!DataBefore, Frames!IsData
<1>7. /\ Begins(k + 1)' = Begins(k + 1) /\ Frames!First(k + 1)' = Frames!First(k + 1)
      /\ Frames!SoFar(k + 1)' = Frames!SoFar(k + 1)
  BY DEF Begins, Frames!SoFar, Frames!First, Frames!IsData
<1> QED
  BY <1>1, <1>5, <1>6, <1>7 DEF Joined

\* A frame of control leaves it as it is.
LEMMA JoinedStays ==
    ASSUME stream \in Seq(FrameType), NEW k \in 0..(Len(stream) - 1), Joined(k),
           ~Frames!IsData(k + 1), UNCHANGED <<stream, fragmenting, msgOpcode, msg>>
    PROVE  Joined(k + 1)'
<1>1. k \in Nat /\ (k + 1) + 1 = k + 2
  OBVIOUS
<1>2. Frames!Unfinished(k + 2) <=> Frames!Unfinished(k + 1)
  BY <1>1, UnfinishedControl
<1>3. Begins(k + 1) = Begins(k) /\ Frames!First(k + 1) = Frames!First(k)
  BY <1>1, SameFirst
<1>4. Begins(k) # {} => Frames!SoFar(k + 1) = Frames!SoFar(k)
  BY HeldNext
<1>5. Joined(k + 1)
  BY <1>1, <1>2, <1>3, <1>4 DEF Joined
<1>6. Frames!Unfinished((k + 1) + 1)' <=> Frames!Unfinished((k + 1) + 1)
  BY DEF Frames!Unfinished, Frames!DataBefore, Frames!IsData
<1>7. /\ Begins(k + 1)' = Begins(k + 1) /\ Frames!First(k + 1)' = Frames!First(k + 1)
      /\ Frames!SoFar(k + 1)' = Frames!SoFar(k + 1)
  BY DEF Begins, Frames!SoFar, Frames!First, Frames!IsData
<1> QED
  BY <1>5, <1>6, <1>7 DEF Joined

\* What is not consumed is not counted.
LEMMA TakenStays ==
    ASSUME UNCHANGED <<stream, used>>
    PROVE  FramesTaken' = FramesTaken
  BY DEF FramesTaken, EndOf

\* A frame that is consumed is.
LEMMA TakenNext ==
    ASSUME stream \in Seq(FrameType), NEW k \in Nat, WholeFrame(k), stream' = stream, ConsumeFrame
    PROVE  FramesTaken' = k + 1
<1>1. k + 1 \in 0..Len(stream)
  BY DEF WholeFrame
<1>2. used' = EndOf(k + 1)
  BY DEF WholeFrame, ConsumeFrame
<1>3. PICK u : u = used'
  OBVIOUS
<1>4. \A i : EndOf(i)' = EndOf(i)
  BY DEF EndOf
<1>5. FramesTaken' = Cardinality({i \in DOMAIN stream : EndOf(i) <= u})
  BY <1>3, <1>4 DEF FramesTaken
<1> QED
  BY <1>1, <1>2, <1>3, <1>5, Behind

-----------------------------------------------------------------------------
(* Receiver: the grounds *)

\* The limits are positive numbers.
LEMMA MaxTyped ==
    ASSUME args \in Seq(Arguments)
    PROVE  conf.maxFrame \in Nat \ {0} /\ conf.maxMessage \in Nat \ {0}
<1>1. conf \in ConfType
  BY ParsedTyped DEF conf
<1> QED
  BY <1>1 DEF ConfType, ConfOk

\* A frame in order by its header and within the limit: what is left to judge.
LEMMA GroundsLeft ==
    ASSUME args \in Seq(Arguments), NEW k \in Nat, WholeFrame(k)
    PROVE  Frames!Grounds(k + 1) = IF Frames!IsData(k + 1) THEN Frames!DataGrounds(k + 1)
                                   ELSE IF stream[k + 1].op = 8
                                        THEN Frames!CloseGrounds(stream[k + 1]) ELSE {}
<1>1. PICK f : f = stream[k + 1]
  OBVIOUS
<1>2. ~Frames!Malformed(f) /\ f.size <= conf.maxFrame /\ f \in FrameType
  BY <1>1 DEF WholeFrame
<1>3. FrameLimits.frame = conf.maxFrame
  BY DEF FrameLimits
<1>4. PICK n \in Nat, m \in Nat : n = f.size /\ m = conf.maxFrame
  BY <1>2, FrameFields, MaxTyped
<1>5. ~(f.size > FrameLimits.frame)
  BY <1>2, <1>3, <1>4
<1>6. PICK data, close : data = Frames!DataGrounds(k + 1) /\ close = Frames!CloseGrounds(f)
  OBVIOUS
<1>7. Frames!Grounds(k + 1) =
          (IF f.size > FrameLimits.frame THEN {1009} ELSE {})
              \cup (IF Frames!IsData(k + 1) THEN data ELSE IF f.op = 8 THEN close ELSE {})
  BY <1>1, <1>2, <1>6 DEF Frames!Grounds
<1> QED
  BY <1>1, <1>5, <1>6, <1>7

\* The frames of data are those that are not of control.
LEMMA DataIs ==
    ASSUME NEW k \in Nat, WholeFrame(k)
    PROVE  Frames!IsData(k + 1) <=> ~IsControl(Opcode(Header))
<1>1. PICK f : f = stream[k + 1]
  OBVIOUS
<1>2. PICK op : op = f.op
  OBVIOUS
<1>3. op \in {0, 1, 2, 8, 9, 10} /\ Opcode(Header) = op
  BY <1>1, <1>2 DEF WholeFrame, Frames!Malformed
<1>4. op \in {0, 1, 2} <=> ~(op >= 8)
  BY <1>3
<1> QED
  BY <1>1, <1>2, <1>3, <1>4 DEF Frames!IsData, IsControl

\* The message that Receiver judges, by field.
LEMMA MessageIs ==
    ASSUME JoinInv, HasData, InPlace, NEW k \in Nat, WholeFrame(k), stream \in Seq(FrameType)
    PROVE  Frames!Message(k + 1) =
               [op |-> Assembly.op, len |-> WithFrame.len, text |-> WithFrame.text]
<1>1. stream[Frames!First(k + 1)].op = Assembly.op /\ Frames!SoFar(k + 1) = WithFrame
  BY Judged
<1> QED
  BY <1>1 DEF Frames!Message

\* A text is bad to Receiver when it is to the automaton.
LEMMA TextJudged ==
    ASSUME InputInv, MessageInv, TextInv, JoinInv, HasData, InPlace, NEW k \in Nat, WholeFrame(k)
    PROVE  Frames!TextBad(k + 1) <=>
               /\ Assembly.op = OpText
               /\ IF Fin(Header) THEN ~Takes(FedUtf8) ELSE FedUtf8.kind = "bad"
<1>1. stream \in Seq(FrameType)
  BY DEF InputInv, SourceTyped
<1>2. PICK m : m = Frames!Message(k + 1)
  OBVIOUS
<1>3. m.op = Assembly.op /\ m.text = WithFrame.text
  BY <1>1, <1>2, MessageIs
<1>4. PICK w \in Seq(Byte) :
          /\ w = WithFrame.text
          /\ FedUtf8 = IF Assembly.op = OpText THEN Utf8Feed(Utf8Start, w) ELSE Utf8Start
  BY FedWhole
<1>5. Fin(Header) = stream[k + 1].fin
  BY DEF WholeFrame
<1>6. Takes(Utf8Feed(Utf8Start, w)) <=> Frames!IsText(w)
  BY TextAccepted
<1>7. Utf8Feed(Utf8Start, w).kind = "bad" <=> ~Frames!IsTextSoFar(w)
  BY BadIsNoText, GoodIsSoFar
<1>8. Frames!TextBad(k + 1) <=> /\ m.op = 1
                                /\ IF stream[k + 1].fin THEN ~Frames!IsText(m.text)
                                   ELSE ~Frames!IsTextSoFar(m.text)
  BY <1>2 DEF Frames!TextBad
<1> QED
  BY <1>3, <1>4, <1>5, <1>6, <1>7, <1>8 DEF OpText

\* A frame of data in its place is refused for the length or the text.
LEMMA DataJudged ==
    ASSUME InputInv, MessageInv, JoinInv, HasData, InPlace, NEW k \in Nat, WholeFrame(k)
    PROVE  Frames!Grounds(k + 1) = (IF TooLong THEN {1009} ELSE {})
                                       \cup (IF Frames!TextBad(k + 1) THEN {1007} ELSE {})
<1>1. stream \in Seq(FrameType) /\ fragmenting \in BOOLEAN /\ args \in Seq(Arguments)
  BY DEF InputInv, SourceTyped, MessageInv
<1>2. Frames!IsData(k + 1)
  BY <1>1, Judged
<1>3. PICK m : m = Frames!Message(k + 1)
  OBVIOUS
<1>4. m.len = Assembly.msg.len + Size
  <2>1. m.len = WithFrame.len
    BY <1>1, <1>3, MessageIs
  <2> QED
    BY <2>1 DEF WithFrame
<1>5. FrameLimits.message = conf.maxMessage
  BY DEF FrameLimits
<1>6. m.len > FrameLimits.message <=> TooLong
  BY <1>4, <1>5 DEF TooLong
<1>7. (stream[k + 1].op = 0) = Frames!Unfinished(k + 1)
  <2>1. ~closing
    BY DEF HasData, HasFrame, HeaderGood, Parsing
  <2>2. fragmenting <=> Frames!Unfinished(k + 1)
    BY <2>1 DEF JoinInv, Joined, WholeFrame
  <2>3. (stream[k + 1].op = 0) = fragmenting
    BY DEF InPlace, WholeFrame, OpCont
  <2> QED
    BY <1>1, <2>2, <2>3 DEF Frames!Unfinished
<1>8. Frames!DataGrounds(k + 1) = (IF m.len > FrameLimits.message THEN {1009} ELSE {})
                                      \cup (IF Frames!TextBad(k + 1) THEN {1007} ELSE {})
  BY <1>3, <1>7 DEF Frames!DataGrounds
<1> QED
  BY <1>1, <1>2, <1>6, <1>8, GroundsLeft

\* One that is not in its place is refused for that.
LEMMA PlaceJudged ==
    ASSUME InputInv, MessageInv, JoinInv, HasData, ~InPlace, NEW k \in Nat, WholeFrame(k)
    PROVE  1002 \in Frames!Grounds(k + 1)
<1>1. fragmenting \in BOOLEAN /\ args \in Seq(Arguments)
  BY DEF MessageInv, InputInv, SourceTyped
<1>2. ~closing /\ ~IsControl(Opcode(Header))
  BY DEF HasData, HasFrame, HeaderGood, Parsing
<1>3. fragmenting <=> Frames!Unfinished(k + 1)
  BY <1>2 DEF JoinInv, Joined, WholeFrame
<1>4. ~((stream[k + 1].op = 0) = fragmenting)
  BY DEF InPlace, WholeFrame, OpCont
<1>5. (stream[k + 1].op = 0) # Frames!Unfinished(k + 1)
  BY <1>1, <1>3, <1>4 DEF Frames!Unfinished
<1>6. Frames!DataGrounds(k + 1) = {1002}
  BY <1>5 DEF Frames!DataGrounds
<1>7. Frames!IsData(k + 1)
  BY <1>2, DataIs
<1>8. Frames!Grounds(k + 1) = {1002}
  BY <1>1, <1>6, <1>7, GroundsLeft
<1> QED
  BY <1>8

\* A CLOSE is answered with its code, or with one of the grounds against it.
LEMMA CloseJudged ==
    ASSUME InputInv, HasFrame, Opcode(Header) = OpClose, NEW k \in Nat, WholeFrame(k)
    PROVE  \/ /\ Frames!Grounds(k + 1) = {}
              /\ ClosingCode = IF stream[k + 1].size = 0 THEN 1000
                               ELSE Frames!CloseCode(stream[k + 1])
           \/ ClosingCode \in Frames!Grounds(k + 1)
<1>1. PICK f \in FrameType : f = stream[k + 1]
  BY DEF WholeFrame
<1>2. PICK n \in Nat, b \in Seq(Byte) : n = f.size /\ b = Frames!Text(f.body, f.size)
  BY <1>1, FrameFields, PayloadTyped
<1>3. Size = n /\ Bytes = b /\ f.op = 8
  BY <1>1, <1>2 DEF WholeFrame, OpClose
<1>4. Len(b) = Frames!Min({n, TextBytes})
  BY <1>1, <1>2, PayloadTyped
<1>5. ~Frames!IsData(k + 1)
  BY <1>1, <1>3 DEF Frames!IsData
<1>0. args \in Seq(Arguments)
  BY DEF InputInv, SourceTyped
<1>6. Frames!Grounds(k + 1) = Frames!CloseGrounds(f)
  BY <1>0, <1>1, <1>3, <1>5, GroundsLeft
<1>7. PICK code : code = 256 * b[1] + b[2]
  OBVIOUS
<1>8. Frames!CloseCode(f) = code
  BY <1>2, <1>7 DEF Frames!CloseCode
<1>9. PICK codes : codes = Frames!SendableCodes
  OBVIOUS
<1>10. IsValidCloseCode(code) <=> code \in codes
  BY <1>9, SMT DEF Frames!SendableCodes, IsValidCloseCode
<1>11. PICK reason : reason = SubSeq(b, 3, Len(b))
  OBVIOUS
<1>12. reason \in Seq(Byte)
  BY <1>2, <1>11
<1>13. PICK st \in Utf8State : st = Utf8Feed(Utf8Start, reason)
  BY <1>12, FeedJoined
<1>14. (st.kind = "bad" \/ ~Utf8Done(st)) <=> ~Frames!IsText(reason)
  BY <1>12, <1>13, TextAccepted DEF Takes
<1>17. PICK G, c : G = Frames!Grounds(k + 1) /\ c = ClosingCode
  OBVIOUS
<1>15. c = IF n = 0 THEN 1000
           ELSE IF n = 1 \/ ~IsValidCloseCode(code) THEN 1002
           ELSE IF st.kind = "bad" \/ ~Utf8Done(st) THEN 1007
           ELSE code
  BY <1>3, <1>7, <1>11, <1>13, <1>17 DEF ClosingCode
<1>16. Frames!CloseGrounds(f) = IF n = 0 THEN {}
                                ELSE IF n = 1 \/ code \notin codes THEN {1002}
                                ELSE IF Frames!IsText(reason) THEN {}
                                ELSE {1007}
  BY <1>2, <1>4, <1>8, <1>9, <1>11 DEF Frames!CloseGrounds
<1>18. \/ G = {} /\ c = IF n = 0 THEN 1000 ELSE code
       \/ c \in G
  <2>1. CASE n = 0
    <3>1. c = 1000
      BY ONLY <1>15, <2>1
    <3>2. G = {}
      BY ONLY <1>6, <1>16, <1>17, <2>1
    <3> QED
      BY ONLY <2>1, <3>1, <3>2
  <2>2. CASE n # 0 /\ (n = 1 \/ ~IsValidCloseCode(code))
    <3>1. c = 1002
      BY ONLY <1>15, <2>2
    <3>2. n = 1 \/ code \notin codes
      BY ONLY <1>10, <2>2
    <3>3. G = {1002}
      BY ONLY <1>6, <1>16, <1>17, <2>2, <3>2
    <3> QED
      BY ONLY <3>1, <3>3
  <2>3. CASE n # 0 /\ ~(n = 1 \/ ~IsValidCloseCode(code))
    <3>1. n # 1 /\ code \in codes
      BY ONLY <1>10, <2>3
    <3>2. CASE Frames!IsText(reason)
      <4>1. ~(st.kind = "bad" \/ ~Utf8Done(st))
        BY ONLY <1>14, <3>2
      <4>2. c = code
        BY ONLY <1>15, <2>3, <4>1
      <4>3. G = {}
        BY ONLY <1>6, <1>16, <1>17, <2>3, <3>1, <3>2
      <4> QED
        BY ONLY <2>3, <4>2, <4>3
    <3>3. CASE ~Frames!IsText(reason)
      <4>1. st.kind = "bad" \/ ~Utf8Done(st)
        BY ONLY <1>14, <3>3
      <4>2. c = 1007
        BY ONLY <1>15, <2>3, <4>1
      <4>3. G = {1007}
        BY ONLY <1>6, <1>16, <1>17, <2>3, <3>1, <3>3
      <4> QED
        BY ONLY <4>2, <4>3
    <3> QED
      BY <3>2, <3>3
  <2> QED
    BY <2>1, <2>2, <2>3
<1> QED
  BY <1>1, <1>2, <1>8, <1>17, <1>18

-----------------------------------------------------------------------------
(* Receiver: the invariant *)

\* A buffer gets no smaller by a reservation.
LEMMA ReserveGrows ==
    ASSUME NEW b, Sound(b), NEW extra \in Nat, NEW limit \in Nat \ {0},
           NEW r, r = Reserve(b, extra, limit)
    PROVE  r.cap \in Nat /\ r.cap >= b.cap
<1> DEFINE c == Compact(b)
<1>1. Sound(c) /\ c.cap = b.cap /\ c.len = Unread(b) /\ Unread(b) \in Nat
  BY CompactKeeps
<1>2. b.cap \in Nat /\ c.cap \in Nat /\ c.len \in Nat /\ c \in BufferType
  BY <1>1 DEF Sound, BufferType
<1>3. Fits(c, extra) <=> c.cap - c.len >= extra
  BY DEF Fits
<1>4. CanReserve(b, extra, limit) <=> Fits(c, extra) \/ Unread(b) + extra <= limit
  BY DEF CanReserve
<1> HIDE DEF c
<1>5. CASE Fits(b, extra) \/ Fits(c, extra) \/ ~CanReserve(b, extra, limit)
  <2>1. r = b \/ r = c
    BY <1>5 DEF Reserve, c
  <2> QED
    BY <1>1, <1>2, <2>1
<1>6. CASE ~Fits(b, extra) /\ ~Fits(c, extra) /\ CanReserve(b, extra, limit)
  <2>1. r = Grown(c, extra, limit)
    BY <1>6 DEF Reserve, c
  <2>2. PICK old \in Nat \ {0} : old = (IF c.cap = 0 THEN 256 ELSE c.cap) /\ old >= c.cap
    BY <1>2
  <2>3. c.len + extra \in Nat /\ c.len + extra <= limit /\ c.cap < c.len + extra
    BY <1>1, <1>2, <1>3, <1>4, <1>6
  <2>4. PICK larger \in Nat : larger = Doubled(old, c.len + extra) /\ larger >= old
    BY <2>3, DoubledEnough
  <2>5. PICK cap \in Nat : cap = (IF limit # 0 /\ larger > limit THEN limit ELSE larger)
    OBVIOUS
  <2>6. r = [c EXCEPT !.cap = cap]
    BY <2>1, <2>2, <2>4, <2>5 DEF Grown
  <2>7. r.cap = cap
    BY <1>2, <2>6 DEF BufferType
  <2>8. cap >= c.cap
    BY <1>2, <2>2, <2>3, <2>4, <2>5
  <2> QED
    BY <1>1, <2>7, <2>8
<1> QED
  BY <1>5, <1>6

\* It begins with the size it had in the handshake, and keeps or exceeds it.
LEMMA RoomStep ==
    ASSUME InputInv, RoomInv, Next
    PROVE  RoomInv'
<1>1. Sound(rx) /\ args \in Seq(Arguments)
  BY DEF InputInv, SourceTyped, Held
<1>2. PICK least \in Nat : least = Defaults.handshakeMax
  BY DEF Defaults
<1>3. rx.cap \in Nat /\ rx.cap >= least
  BY <1>1, <1>2 DEF Sound, BufferType, RoomInv
<1>4. PICK limit : limit = HardCap /\ limit \in Nat \ {0}
  BY <1>1, LimitTyped
<1>5. Chunk \in Nat
  BY SizesAssumption
<1>6. PICK r : r = Room
  OBVIOUS
<1>7. r = Reserve(rx, Chunk, limit)
  BY <1>4, <1>6 DEF Room
<1>8. r.cap \in Nat /\ r.cap >= rx.cap
  BY <1>1, <1>4, <1>5, <1>7, ReserveGrows
<1>9. rx'.cap \in {rx.cap, r.cap}
  <2>1. CASE Still \/ Arrives
    BY <2>1 DEF Still, inputVars, Arrives
  <2>2. CASE Reserved
    BY <1>6, <2>2 DEF Reserved
  <2>3. CASE Received
    <3>1. PICK n : rx' = Fill(r, n)
      BY <1>6, <2>3 DEF Received
    <3>2. Sound(r)
      BY <1>1, <1>4, <1>5, <1>7, ReserveKeeps
    <3>3. rx'.cap = r.cap
      BY <3>1, <3>2 DEF Fill, Sound, BufferType
    <3> QED
      BY <3>3
  <2>4. CASE Consumed
    BY <2>4, ConsumedKeeps
  <2> QED
    BY <2>1, <2>2, <2>3, <2>4, InputEffects
<1>10. rx'.cap >= least
  BY <1>3, <1>8, <1>9
<1> QED
  BY <1>2, <1>10 DEF RoomInv

\* The answer that closes is the last one.
LEMMA CloseLast ==
    ASSUME AnswerInv, NEW code, SendClose(code)
    PROVE  closing' = TRUE /\ Frames!Closing'
<1>1. PICK a : a = [kind |-> "close", code |-> code, len |-> 2, text |-> <<>>]
  OBVIOUS
<1>2. PICK q \in Seq(Answer) : q = answers
  BY DEF AnswerInv
<1>3. PICK s : s = Append(q, a)
  OBVIOUS
<1>4. Len(s) = Len(q) + 1 /\ s[Len(q) + 1] = a /\ Len(q) \in Nat /\ s # <<>>
  BY <1>3
<1>5. answers' = s /\ closing' = TRUE
  BY <1>1, <1>2, <1>3 DEF SendClose
<1>6. s[Len(s)].kind = "close"
  BY <1>1, <1>4
<1> QED
  BY <1>4, <1>5, <1>6 DEF Frames!Closing, Frames!Last

\* A PONG is the last answer, and closes nothing.
LEMMA PongLast ==
    ASSUME AnswerInv, Ping
    PROVE  ~Frames!Closing'
<1>1. PICK a : a = [kind |-> "pong", code |-> 0, len |-> Size, text |-> Bytes]
  OBVIOUS
<1>2. PICK q \in Seq(Answer) : q = answers
  BY DEF AnswerInv
<1>3. PICK s : s = Append(q, a)
  OBVIOUS
<1>4. Len(s) = Len(q) + 1 /\ s[Len(q) + 1] = a /\ Len(q) \in Nat
  BY <1>3
<1>5. answers' = s
  BY <1>1, <1>2, <1>3 DEF Ping
<1>6. s[Len(s)].kind # "close"
  BY <1>1, <1>4
<1> QED
  BY <1>5, <1>6 DEF Frames!Closing, Frames!Last

\* Which steps answer with a CLOSE, a PONG, or not at all.
LEMMA ClosingEffects ==
    ASSUME Next
    PROVE  UNCHANGED <<closing, answers>> \/ (\E code : SendClose(code)) \/ Ping
<1>1. CASE PeerSend \/ PeerClose \/ PeerReads \/ Event \/ Recv \/ RecvNone \/ RecvEnd
           \/ LoopEnds \/ FlushAll \/ FlushSome \/ FlushError \/ Pong \/ Fragment \/ Publish
  BY <1>1 DEF PeerSend, PeerClose, PeerReads, Event, Recv, RecvNone, RecvEnd, LoopEnds,
     FlushAll, FlushSome, FlushError, Pong, Fragment, Publish, connVars, flushed, history
<1>2. CASE RecvFull \/ RefuseHeader \/ RefuseSize \/ CloseFrame \/ RefusePlace \/ RefuseText
  BY <1>2 DEF RecvFull, RefuseHeader, RefuseSize, CloseFrame, RefusePlace, RefuseText, Refuse
<1>3. CASE RefuseMessage
  BY <1>3 DEF RefuseMessage
<1> QED
  BY <1>1, <1>2, <1>3 DEF Next, WorkerStep, HandleFrame

\* closeAfterSend and the last answer go together.
LEMMA ClosingStep ==
    ASSUME AnswerInv, ClosingInv, Next
    PROVE  ClosingInv'
<1>1. CASE UNCHANGED <<closing, answers>>
  BY <1>1 DEF ClosingInv, Frames!Closing, Frames!Last
<1>2. CASE \E code : SendClose(code)
  <2>1. PICK code : SendClose(code)
    BY <1>2
  <2> QED
    BY <2>1, CloseLast DEF ClosingInv
<1>3. CASE Ping
  <2>1. closing' = closing /\ ~closing
    BY <1>3 DEF Ping, HasFrame, HeaderGood, Parsing
  <2> QED
    BY <1>3, <2>1, PongLast DEF ClosingInv
<1> QED
  BY <1>1, <1>2, <1>3, ClosingEffects

\* A step that neither consumes nor assembles keeps what is joined.
LEMMA JoinedKept ==
    ASSUME NEW k, Joined(k), UNCHANGED <<stream, fragmenting, msgOpcode, msg>>
    PROVE  Joined(k)'
<1>1. Frames!Unfinished(k + 1)' <=> Frames!Unfinished(k + 1)
  BY DEF Frames!Unfinished, Frames!DataBefore, Frames!IsData
<1>2. /\ Begins(k)' = Begins(k) /\ Frames!First(k)' = Frames!First(k)
      /\ Frames!SoFar(k)' = Frames!SoFar(k)
  BY DEF Begins, Frames!SoFar, Frames!First, Frames!IsData
<1> QED
  BY <1>1, <1>2 DEF Joined

\* A whole frame of control has been consumed.
LEMMA ControlJoined ==
    ASSUME InputInv, JoinInv, Ping \/ Pong
    PROVE  JoinInv'
<1>1. HasFrame /\ IsControl(Opcode(Header)) /\ ~closing
  BY DEF Ping, Pong, IsControl, OpPing, OpPong, HasFrame, HeaderGood, Parsing
<1>2. PICK k \in Nat : WholeFrame(k)
  BY <1>1, AtFrameWhole
<1>3. stream \in Seq(FrameType) /\ k \in 0..(Len(stream) - 1) /\ FramesTaken = k
  BY <1>2 DEF InputInv, SourceTyped, WholeFrame
<1>4. Joined(k)
  BY <1>1, <1>3 DEF JoinInv
<1>5. ~Frames!IsData(k + 1)
  BY <1>1, <1>2, DataIs
<1>6. UNCHANGED <<stream, fragmenting, msgOpcode, msg>> /\ ConsumeFrame
  BY DEF Ping, Pong, peerVars, msgVars
<1>7. Joined(k + 1)'
  BY <1>3, <1>4, <1>5, <1>6, JoinedStays
<1>8. FramesTaken' = k + 1
  BY <1>2, <1>3, <1>6, TakenNext
<1> QED
  BY <1>7, <1>8 DEF JoinInv, Joined

\* A whole frame of data in order has been consumed.
LEMMA DataJoined ==
    ASSUME InputInv, JoinInv, Fragment \/ Publish
    PROVE  JoinInv'
<1>1. HasFrame /\ HasData /\ InPlace /\ ConsumeFrame /\ stream' = stream
  BY DEF Fragment, Publish, DataInOrder, HasData, peerVars
<1>2. PICK k \in Nat : WholeFrame(k)
  BY <1>1, AtFrameWhole
<1>3. stream \in Seq(FrameType)
  BY DEF InputInv, SourceTyped
<1>4. fragmenting' = ~Fin(Header)
  BY DEF Fragment, Publish, Fin
<1>5. fragmenting' => msgOpcode' = Assembly.op /\ msg' = WithFrame
  BY DEF Fragment, Publish
<1>6. Joined(k + 1)'
  BY <1>1, <1>2, <1>3, <1>4, <1>5, JoinedNext
<1>7. FramesTaken' = k + 1
  BY <1>1, <1>2, <1>3, TakenNext
<1> QED
  BY <1>6, <1>7 DEF JoinInv, Joined

\* The steps that neither take a frame of data nor close.
LEMMA JoinEffects ==
    ASSUME Next, ~closing', ~Ping, ~Pong, ~Fragment, ~Publish
    PROVE  UNCHANGED <<used, fragmenting, msgOpcode, msg, closing>>
<1> USE DEF msgVars
<1>1. CASE PeerSend \/ PeerClose \/ PeerReads \/ Event \/ Recv \/ RecvNone \/ RecvEnd
           \/ LoopEnds \/ FlushAll \/ FlushSome \/ FlushError
  BY <1>1 DEF PeerSend, PeerClose, PeerReads, Event, Recv, RecvNone, RecvEnd, LoopEnds,
     FlushAll, FlushSome, FlushError, connVars, flushed
<1>2. CASE RecvFull
  BY <1>2 DEF RecvFull, SendClose
<1>3. CASE RefuseHeader \/ RefuseSize \/ CloseFrame \/ RefusePlace \/ RefuseText \/ RefuseMessage
  BY <1>3 DEF RefuseHeader, RefuseSize, CloseFrame, RefusePlace, RefuseText, RefuseMessage,
     Refuse, SendClose
<1> QED
  BY <1>1, <1>2, <1>3 DEF Next, WorkerStep, HandleFrame

\* The message under assembly stays the one Receiver has in mind.
LEMMA JoinStep ==
    ASSUME InputInv, JoinInv, Next
    PROVE  JoinInv'
<1>1. CASE closing'
  BY <1>1 DEF JoinInv
<1>2. CASE Ping \/ Pong
  BY <1>2, ControlJoined
<1>3. CASE Fragment \/ Publish
  BY <1>3, DataJoined
<1>4. CASE ~closing' /\ ~Ping /\ ~Pong /\ ~Fragment /\ ~Publish
  <2>1. UNCHANGED <<used, fragmenting, msgOpcode, msg, closing>>
    BY <1>4, JoinEffects
  <2>2. stream' = stream
    BY InputFixed
  <2>3. PICK k : k = FramesTaken
    OBVIOUS
  <2>4. FramesTaken' = k
    BY <2>1, <2>2, <2>3, TakenStays
  <2>5. Joined(k)
    BY <1>4, <2>1, <2>3 DEF JoinInv
  <2>6. Joined(k)'
    BY <2>1, <2>2, <2>5, JoinedKept
  <2> QED
    BY <2>4, <2>6 DEF JoinInv, Joined
<1> QED
  BY <1>1, <1>2, <1>3, <1>4

\* At first nothing has been consumed, and nothing is under assembly.
LEMMA ReceiverInit == Init => ReceiverInv
<1> SUFFICES ASSUME Init PROVE ReceiverInv
  OBVIOUS
<1>1. fragmenting = FALSE /\ closing = FALSE /\ answers = <<>> /\ used = 0
  BY DEF Init
<1>2. stream \in Seq(FrameType)
  BY InputInit DEF InputInv, SourceTyped
<1>3. FramesTaken = 0
  <2>1. 0 \in 0..Len(stream) /\ EndOf(0) = 0
    BY <1>2, TotalTyped
  <2> QED
    BY <1>1, <1>2, <2>1, TakenIs
<1>4. ~Frames!Unfinished(0 + 1)
  <2>1. 0 + 1 = 1 /\ 1..(1 - 1) = {}
    OBVIOUS
  <2>2. Frames!DataBefore(0 + 1) = {}
    BY <2>1 DEF Frames!DataBefore
  <2> QED
    BY <2>2 DEF Frames!Unfinished
<1>5. JoinInv
  BY <1>1, <1>3, <1>4 DEF JoinInv, Joined
<1>6. ClosingInv
  BY <1>1 DEF ClosingInv, Frames!Closing
<1>7. RoomInv
  <2>1. PICK case \in Cases : \E n \in {n \in case.cuts \cup {0} : n <= Chunk \div 2} :
            rx = Consume([cap |-> Defaults.handshakeMax, len |-> RequestLen + n, off |-> 0],
                         RequestLen)
    BY DEF Init
  <2>2. PICK n : rx = Consume([cap |-> Defaults.handshakeMax, len |-> RequestLen + n,
                               off |-> 0], RequestLen)
    BY <2>1
  <2>3. PICK least \in Nat : least = Defaults.handshakeMax
    BY DEF Defaults
  <2>4. rx.cap = least
    BY <2>2, <2>3 DEF Consume
  <2> QED
    BY <2>3, <2>4 DEF RoomInv
<1> QED
  BY <1>5, <1>6, <1>7 DEF ReceiverInv

\* Every step keeps the three.
LEMMA ReceiverStep == InputInv /\ AnswerInv /\ ReceiverInv /\ [Next]_vars => ReceiverInv'
<1> SUFFICES ASSUME InputInv, AnswerInv, ReceiverInv, [Next]_vars PROVE ReceiverInv'
  OBVIOUS
<1>1. JoinInv /\ ClosingInv /\ RoomInv
  BY DEF ReceiverInv
<1>2. CASE Next
  BY <1>1, <1>2, JoinStep, ClosingStep, RoomStep DEF ReceiverInv
<1>3. CASE UNCHANGED vars
  <2>1. UNCHANGED <<stream, used, fragmenting, msgOpcode, msg, closing, answers, rx>>
    BY <1>3 DEF vars, peerVars, msgVars, history
  <2>2. PICK k : k = FramesTaken
    OBVIOUS
  <2>3. FramesTaken' = k
    BY <2>1, <2>2, TakenStays
  <2>4. ~closing => Joined(k)'
    BY <1>1, <2>1, <2>2, JoinedKept DEF JoinInv
  <2>5. JoinInv'
    BY <2>1, <2>3, <2>4 DEF JoinInv, Joined
  <2>6. ClosingInv' /\ RoomInv'
    BY <1>1, <2>1 DEF ClosingInv, RoomInv, Frames!Closing, Frames!Last
  <2> QED
    BY <2>5, <2>6 DEF ReceiverInv
<1> QED
  BY <1>2, <1>3

-----------------------------------------------------------------------------
(* Receiver: every step of the server is one of Receiver's *)

\* The stream and the limits stay what they are.
LEMMA FramesFixed ==
    ASSUME InputInv, Next
    PROVE  stream' = stream /\ FrameLimits' = FrameLimits
<1>1. stream' = stream /\ args' = args
  BY InputFixed
<1> QED
  BY <1>1 DEF FrameLimits, HardCap, conf

\* As long as it reads or parses without a CLOSE the server is at work.
LEMMA AtWork ==
    ASSUME ClosingInv, ~closing, pc \in {"recv", "parse"}
    PROVE  Frames!Serving
<1>1. pc # "closed" /\ ~Frames!Closing
  BY DEF ClosingInv
<1> QED
  BY <1>1 DEF Frames!Serving

\* Steps that neither take frames nor answer.
Quiet ==
    /\ UNCHANGED <<args, stream, arrived, used, published, answers>>
    /\ pc = "closed" => pc' = "closed"

\* To Receiver they are nothing, unless the connection ends.
LEMMA QuietRefines ==
    ASSUME Quiet
    PROVE  Frames!End \/ UNCHANGED Frames!vars
<1>1. /\ stream' = stream /\ FrameLimits' = FrameLimits /\ arrived' = arrived
      /\ published' = published /\ answers' = answers
  BY DEF Quiet, FrameLimits, HardCap, conf
<1>2. FramesTaken' = FramesTaken
  BY TakenStays DEF Quiet
<1>3. CASE pc # "closed" /\ pc' = "closed"
  BY <1>1, <1>2, <1>3 DEF Frames!End
<1>4. CASE (pc # "closed") = (pc' # "closed")
  BY <1>1, <1>2, <1>4 DEF Frames!vars
<1> QED
  BY <1>3, <1>4 DEF Quiet

\* These are the steps.
LEMMA QuietSteps ==
    ASSUME \/ PeerClose \/ PeerReads \/ Event \/ Recv \/ RecvNone \/ RecvEnd \/ LoopEnds
           \/ FlushAll \/ FlushSome \/ FlushError \/ (RecvFull /\ closing)
    PROVE  Quiet
<1>1. CASE PeerClose \/ PeerReads
  BY <1>1 DEF Quiet, PeerClose, PeerReads, history
<1>2. CASE Event \/ Recv \/ RecvNone \/ RecvEnd \/ LoopEnds
  BY <1>2 DEF Quiet, Event, Recv, RecvNone, RecvEnd, LoopEnds, peerVars, connVars, history
<1>3. CASE FlushAll \/ FlushSome \/ FlushError
  BY <1>3 DEF Quiet, FlushAll, FlushSome, FlushError, flushed, history
<1>4. CASE RecvFull /\ closing
  BY <1>4 DEF Quiet, RecvFull, peerVars
<1> QED
  BY <1>1, <1>2, <1>3, <1>4

\* Bytes arrive.
LEMMA ArriveRefines ==
    ASSUME InputInv, PeerSend, Next
    PROVE  Frames!Arrive
<1>1. /\ stream \in Seq(FrameType) /\ cuts \subseteq 0..Total /\ arrived \in 0..Total
      /\ pc # "closed" /\ arrived' \in {n \in cuts : n > arrived}
      /\ UNCHANGED <<used, pc, published, answers>>
  BY DEF InputInv, SourceTyped, PeerSend, history
<1>2. PICK total \in Nat : total = Total
  BY <1>1, TotalTyped
<1>3. Frames!EndOf(Len(stream)) = total
  <2>1. Len(stream) \in 0..Len(stream)
    BY <1>1
  <2> QED
    BY <1>1, <1>2, <2>1, SameEnds DEF Total
<1>4. arrived' \in arrived..total /\ arrived' > arrived
  BY <1>1, <1>2
<1>5. stream' = stream /\ FrameLimits' = FrameLimits
  BY FramesFixed
<1>6. FramesTaken' = FramesTaken
  BY <1>1, <1>5, TakenStays
<1> QED
  BY <1>1, <1>3, <1>4, <1>5, <1>6 DEF Frames!Arrive

\* The frame the parser is at is refused on one of its grounds.
LEMMA RefuseRefines ==
    ASSUME InputInv, ClosingInv, Next, pc = "parse", ~closing,
           NEW k \in 0..(Len(stream) - 1), FramesTaken = k, FramesTaken' \in {k, k + 1},
           arrived >= Frames!EndOf(k) + 2,
           NEW code, code \in Frames!Grounds(k + 1), SendClose(code),
           UNCHANGED <<arrived, published, pc>>
    PROVE  Frames!Refuse
<1>1. Frames!Serving
  BY AtWork
<1>2. stream' = stream /\ FrameLimits' = FrameLimits
  BY FramesFixed
<1>3. answers' = Append(answers, Frames!Close(code))
  BY DEF SendClose, Frames!Close
<1>4. k + 1 <= Len(stream)
  <2>1. stream \in Seq(FrameType)
    BY DEF InputInv, SourceTyped
  <2> QED
    BY <2>1
<1> QED
  BY <1>1, <1>2, <1>3, <1>4 DEF Frames!Refuse

\* The same with the frame consumed.
LEMMA RefuseWhole ==
    ASSUME InputInv, ClosingInv, Next, HasFrame, ConsumeFrame, NEW k \in Nat, WholeFrame(k),
           NEW code, code \in Frames!Grounds(k + 1), SendClose(code),
           UNCHANGED <<arrived, published, pc>>
    PROVE  Frames!Refuse
<1>1. pc = "parse" /\ ~closing
  BY DEF HasFrame, HeaderGood, Parsing
<1>2. /\ k \in 0..(Len(stream) - 1) /\ FramesTaken = k /\ arrived >= Frames!EndOf(k) + 2
  BY DEF WholeFrame
<1>3. FramesTaken' = k + 1
  <2>1. stream \in Seq(FrameType) /\ stream' = stream
    BY FramesFixed DEF InputInv, SourceTyped
  <2> QED
    BY <2>1, TakenNext
<1> QED
  BY <1>1, <1>2, <1>3, RefuseRefines

\* The same with the frame left in the buffer.
LEMMA RefuseLeft ==
    ASSUME InputInv, ClosingInv, Next, pc = "parse", ~closing,
           NEW k \in 0..(Len(stream) - 1), FramesTaken = k, arrived >= Frames!EndOf(k) + 2,
           NEW code, code \in Frames!Grounds(k + 1), SendClose(code),
           UNCHANGED <<arrived, used, published, pc>>
    PROVE  Frames!Refuse
<1>1. FramesTaken' = k
  <2>1. stream' = stream
    BY FramesFixed
  <2> QED
    BY <2>1, TakenStays
<1> QED
  BY <1>1, RefuseRefines

\* A header that breaks a rule.
LEMMA HeaderRefines ==
    ASSUME InputInv, ClosingInv, Next, RefuseHeader
    PROVE  Frames!Refuse
<1>1. /\ pc = "parse" /\ ~closing /\ SendClose(1002)
      /\ HeaderError(Header, Avail) \/ (HeaderComplete(Header, Avail) /\ ~Masked(Header))
      /\ UNCHANGED <<arrived, used, published, pc>>
  BY DEF RefuseHeader, Parsing, Refuse, peerVars
<1>2. Avail >= 2
  BY <1>1 DEF HeaderError, HeaderComplete
<1>3. PICK k \in 0..(Len(stream) - 1) :
          used = EndOf(k) /\ FramesTaken = k /\ arrived >= Frames!EndOf(k) + 2
  BY <1>2, AtHeader
<1>4. stream \in Seq(FrameType)
  BY DEF InputInv, SourceTyped
<1>5. Frames!Malformed(stream[k + 1])
  BY <1>1, <1>3, <1>4, HeaderRefused
<1>6. Frames!Grounds(k + 1) = {1002}
  BY <1>5 DEF Frames!Grounds
<1>7. 1002 \in Frames!Grounds(k + 1)
  BY <1>6
<1> QED
  BY <1>1, <1>3, <1>7, RefuseLeft

\* A frame longer than the limit.
LEMMA SizeRefines ==
    ASSUME InputInv, ClosingInv, Next, RefuseSize
    PROVE  Frames!Refuse
<1>1. /\ pc = "parse" /\ ~closing /\ SendClose(1009)
      /\ HeaderComplete(Header, Avail) /\ Masked(Header) /\ PayloadLen(Header) > conf.maxFrame
      /\ UNCHANGED <<arrived, used, published, pc>>
  BY DEF RefuseSize, HeaderGood, Parsing, Refuse, peerVars
<1>2. Avail >= 2
  BY <1>1 DEF HeaderComplete
<1>3. PICK k \in 0..(Len(stream) - 1) :
          used = EndOf(k) /\ FramesTaken = k /\ arrived >= Frames!EndOf(k) + 2
  BY <1>2, AtHeader
<1>4. /\ stream \in Seq(FrameType) /\ arrived \in 0..Total /\ taken \in 0..arrived
      /\ Unread(rx) = taken - used /\ used <= taken
  BY DEF InputInv, SourceTyped, Held
<1>5. k \in 0..Len(stream)
  OBVIOUS
<1>6. Avail \in Nat
  <2>1. Total \in Nat /\ used \in Nat
    BY <1>3, <1>4, <1>5, TotalTyped
  <2>2. arrived \in Nat /\ taken \in Nat
    BY <1>4, <2>1
  <2> QED
    BY <1>4, <2>1, <2>2 DEF Avail
<1>7. PICK f, b : f = stream[k + 1] /\ b = Header
  OBVIOUS
<1>8. ~Frames!Malformed(f)
  BY <1>1, <1>3, <1>4, <1>6, <1>7, HeaderAccepted
<1>9. ReadsFrame(b, f)
  BY <1>3, <1>4, <1>7, HeaderSays
<1>10. f.form # 63
  <2>1. f.form = Frames!ShortestForm(f.size)
    BY <1>8 DEF Frames!Malformed
  <2>2. Frames!ShortestForm(f.size) \in {7, 16, 64}
    BY DEF Frames!ShortestForm
  <2> QED
    BY <2>1, <2>2
<1>11. f.size > conf.maxFrame
  BY <1>1, <1>7, <1>9, <1>10 DEF ReadsFrame
<1>12. f.size > FrameLimits.frame
  BY <1>11 DEF FrameLimits
<1>13. 1009 \in Frames!Grounds(k + 1)
  <2>1. PICK data, close : data = Frames!DataGrounds(k + 1) /\ close = Frames!CloseGrounds(f)
    OBVIOUS
  <2>2. Frames!Grounds(k + 1) =
            (IF f.size > FrameLimits.frame THEN {1009} ELSE {})
                \cup (IF Frames!IsData(k + 1) THEN data ELSE IF f.op = 8 THEN close ELSE {})
    BY <1>7, <1>8, <2>1 DEF Frames!Grounds
  <2> QED
    BY <1>12, <2>2
<1> QED
  BY <1>1, <1>3, <1>13, RefuseLeft

\* A frame of data out of its place.
LEMMA PlaceRefines ==
    ASSUME InputInv, MessageInv, JoinInv, ClosingInv, Next, RefusePlace
    PROVE  Frames!Refuse
<1>1. /\ HasData /\ ~InPlace /\ HasFrame /\ pc = "parse" /\ ~closing /\ SendClose(1002)
      /\ UNCHANGED <<arrived, used, published, pc>>
  BY DEF RefusePlace, Refuse, HasData, HasFrame, HeaderGood, Parsing, peerVars
<1>2. PICK k \in Nat : WholeFrame(k)
  BY <1>1, AtFrameWhole
<1>3. /\ k \in 0..(Len(stream) - 1) /\ FramesTaken = k /\ arrived >= Frames!EndOf(k) + 2
  BY <1>2 DEF WholeFrame
<1>4. 1002 \in Frames!Grounds(k + 1)
  BY <1>1, <1>2, PlaceJudged
<1> QED
  BY <1>1, <1>3, <1>4, RefuseLeft

\* A message that is too long, or a text that nothing can complete.
LEMMA MessageRefines ==
    ASSUME InputInv, MessageInv, TextInv, JoinInv, ClosingInv, Next, RefuseMessage
    PROVE  Frames!Refuse
<1>1. /\ HasData /\ InPlace /\ HasFrame /\ pc = "parse" /\ ~closing
      /\ TooLong \/ FedUtf8.kind = "bad"
      /\ UNCHANGED <<arrived, used, published, pc>>
  BY DEF RefuseMessage, HasData, HasFrame, HeaderGood, Parsing, peerVars
<1>2. PICK code : code = IF TooLong THEN 1009 ELSE 1007
  OBVIOUS
<1>3. SendClose(code)
  BY <1>2 DEF RefuseMessage
<1>4. PICK k \in Nat : WholeFrame(k)
  BY <1>1, AtFrameWhole
<1>5. /\ k \in 0..(Len(stream) - 1) /\ FramesTaken = k /\ arrived >= Frames!EndOf(k) + 2
  BY <1>4 DEF WholeFrame
<1>6. Frames!Grounds(k + 1) = (IF TooLong THEN {1009} ELSE {})
                                  \cup (IF Frames!TextBad(k + 1) THEN {1007} ELSE {})
  BY <1>1, <1>4, DataJudged
<1>7. ASSUME ~TooLong PROVE Frames!TextBad(k + 1)
  <2>1. FedUtf8.kind = "bad"
    BY <1>1, <1>7
  <2>2. PICK w \in Seq(Byte) :
            /\ w = WithFrame.text
            /\ FedUtf8 = IF Assembly.op = OpText THEN Utf8Feed(Utf8Start, w) ELSE Utf8Start
    BY <1>1, FedWhole
  <2>3. Assembly.op = OpText
    BY <2>1, <2>2 DEF Utf8Start
  <2> QED
    BY <1>1, <1>4, <2>1, <2>3, TextJudged DEF Takes
<1>8. code \in Frames!Grounds(k + 1)
  <2>1. CASE TooLong
    BY <1>2, <1>6, <2>1
  <2>2. CASE ~TooLong
    BY <1>2, <1>6, <1>7, <2>2
  <2> QED
    BY <2>1, <2>2
<1> QED
  BY <1>1, <1>3, <1>5, <1>8, RefuseLeft

\* A text that breaks off inside a character.
LEMMA TextRefines ==
    ASSUME InputInv, MessageInv, TextInv, JoinInv, ClosingInv, Next, RefuseText
    PROVE  Frames!Refuse
<1>1. /\ HasData /\ InPlace /\ HasFrame /\ ~TooLong /\ Fin(Header)
      /\ Assembly.op = OpText /\ ~Utf8Done(FedUtf8)
      /\ SendClose(1007) /\ ConsumeFrame
      /\ UNCHANGED <<arrived, published, pc>>
  BY DEF RefuseText, DataInOrder, HasData, peerVars
<1>2. PICK k \in Nat : WholeFrame(k)
  BY <1>1, AtFrameWhole
<1>3. Frames!Grounds(k + 1) = (IF TooLong THEN {1009} ELSE {})
                                  \cup (IF Frames!TextBad(k + 1) THEN {1007} ELSE {})
  BY <1>1, <1>2, DataJudged
<1>4. Frames!TextBad(k + 1)
  BY <1>1, <1>2, TextJudged DEF Takes
<1>5. 1007 \in Frames!Grounds(k + 1)
  BY <1>3, <1>4
<1> QED
  BY <1>1, <1>2, <1>5, RefuseWhole

\* A whole frame in order is accepted.
LEMMA AcceptRefines ==
    ASSUME InputInv, ClosingInv, Next, HasFrame, ConsumeFrame, NEW k \in Nat, WholeFrame(k),
           Frames!Grounds(k + 1) = {}, UNCHANGED <<arrived, pc>>,
           published' = (IF Frames!IsData(k + 1) /\ stream[k + 1].fin
                         THEN Append(published, Frames!Message(k + 1)) ELSE published),
           stream[k + 1].op = 9 => answers' = Append(answers, Frames!Pong(stream[k + 1])),
           stream[k + 1].op = 8 =>
               answers' = Append(answers, Frames!Close(IF stream[k + 1].size = 0 THEN 1000
                                                       ELSE Frames!CloseCode(stream[k + 1]))),
           stream[k + 1].op \notin {8, 9} => answers' = answers
    PROVE  Frames!Accept
<1>1. Frames!Serving
  BY AtWork DEF HasFrame, HeaderGood, Parsing
<1>2. stream' = stream /\ FrameLimits' = FrameLimits /\ stream \in Seq(FrameType)
  BY FramesFixed DEF InputInv, SourceTyped
<1>3. k + 1 <= Len(stream) /\ FramesTaken = k /\ arrived >= Frames!EndOf(k + 1)
  BY <1>2 DEF WholeFrame
<1>4. FramesTaken' = k + 1
  BY <1>2, TakenNext
<1> DEFINE op == stream[k + 1].op
           pong == Append(answers, Frames!Pong(stream[k + 1]))
           close == Append(answers, Frames!Close(IF stream[k + 1].size = 0 THEN 1000
                                                 ELSE Frames!CloseCode(stream[k + 1])))
<1>5. answers' = CASE op = 9 -> pong [] op = 8 -> close [] OTHER -> answers
  <2>1. /\ op = 9 => answers' = pong
        /\ op = 8 => answers' = close
        /\ op \notin {8, 9} => answers' = answers
    OBVIOUS
  <2> HIDE DEF op, pong, close
  <2> QED
    BY <2>1
<1> QED
  BY <1>1, <1>2, <1>3, <1>4, <1>5 DEF Frames!Accept

\* A PING, with its payload.
LEMMA PingRefines ==
    ASSUME InputInv, ClosingInv, Next, Ping
    PROVE  Frames!Accept
<1>1. HasFrame /\ ConsumeFrame /\ Opcode(Header) = 9 /\ UNCHANGED <<arrived, pc, published>>
  BY DEF Ping, OpPing, peerVars
<1>2. PICK k \in Nat : WholeFrame(k)
  BY <1>1, AtFrameWhole
<1>3. stream[k + 1].op = 9 /\ Size = stream[k + 1].size
      /\ Bytes = Frames!Text(stream[k + 1].body, stream[k + 1].size)
  BY <1>1, <1>2 DEF WholeFrame
<1>4. ~Frames!IsData(k + 1)
  BY <1>3 DEF Frames!IsData
<1>5. Frames!Grounds(k + 1) = {}
  <2>1. args \in Seq(Arguments)
    BY DEF InputInv, SourceTyped
  <2> QED
    BY <1>2, <1>3, <1>4, <2>1, GroundsLeft
<1>6. answers' = Append(answers, Frames!Pong(stream[k + 1]))
  BY <1>3 DEF Ping, Frames!Pong
<1> QED
  BY <1>1, <1>2, <1>3, <1>4, <1>5, <1>6, AcceptRefines

\* A PONG.
LEMMA PongRefines ==
    ASSUME InputInv, ClosingInv, Next, Pong
    PROVE  Frames!Accept
<1>1. /\ HasFrame /\ ConsumeFrame /\ Opcode(Header) = 10
      /\ UNCHANGED <<arrived, pc, published, answers>>
  BY DEF Pong, OpPong, peerVars, history
<1>2. PICK k \in Nat : WholeFrame(k)
  BY <1>1, AtFrameWhole
<1>3. stream[k + 1].op = 10
  BY <1>1, <1>2 DEF WholeFrame
<1>4. ~Frames!IsData(k + 1)
  BY <1>3 DEF Frames!IsData
<1>5. Frames!Grounds(k + 1) = {}
  <2>1. args \in Seq(Arguments)
    BY DEF InputInv, SourceTyped
  <2> QED
    BY <1>2, <1>3, <1>4, <2>1, GroundsLeft
<1> QED
  BY <1>1, <1>2, <1>3, <1>4, <1>5, AcceptRefines

\* A CLOSE: its code comes back, or the reason why it may not be sent.
LEMMA CloseRefines ==
    ASSUME InputInv, ClosingInv, Next, CloseFrame
    PROVE  Frames!Accept \/ Frames!Refuse
<1>1. /\ HasFrame /\ ConsumeFrame /\ Opcode(Header) = OpClose
      /\ UNCHANGED <<arrived, pc, published>>
  BY DEF CloseFrame, peerVars
<1>2. PICK k \in Nat : WholeFrame(k)
  BY <1>1, AtFrameWhole
<1>3. PICK code : code = ClosingCode
  OBVIOUS
<1>4. SendClose(code)
  BY <1>3 DEF CloseFrame
<1>5. CASE code \in Frames!Grounds(k + 1)
  BY <1>1, <1>2, <1>4, <1>5, RefuseWhole
<1>6. CASE /\ Frames!Grounds(k + 1) = {}
           /\ code = IF stream[k + 1].size = 0 THEN 1000 ELSE Frames!CloseCode(stream[k + 1])
  <2>1. stream[k + 1].op = 8
    BY <1>1, <1>2 DEF WholeFrame, OpClose
  <2>2. ~Frames!IsData(k + 1)
    BY <2>1 DEF Frames!IsData
  <2>3. answers' = Append(answers, Frames!Close(code))
    BY <1>4 DEF SendClose, Frames!Close
  <2> QED
    BY <1>1, <1>2, <1>6, <2>1, <2>2, <2>3, AcceptRefines
<1> QED
  BY <1>1, <1>2, <1>3, <1>5, <1>6, CloseJudged

\* A frame of data in order: a fragment, or the last of a message.
LEMMA DataRefines ==
    ASSUME InputInv, MessageInv, TextInv, JoinInv, ClosingInv, Next, Fragment \/ Publish
    PROVE  Frames!Accept
<1>1. /\ HasData /\ HasFrame /\ InPlace /\ ConsumeFrame /\ ~TooLong /\ FedUtf8.kind # "bad"
      /\ ~IsControl(Opcode(Header)) /\ UNCHANGED <<arrived, pc, answers>>
  BY DEF Fragment, Publish, DataInOrder, HasData, peerVars, history
<1>2. PICK k \in Nat : WholeFrame(k)
  BY <1>1, AtFrameWhole
<1>3. stream \in Seq(FrameType) /\ Fin(Header) = stream[k + 1].fin
      /\ Opcode(Header) = stream[k + 1].op
  BY <1>2 DEF InputInv, SourceTyped, WholeFrame
<1>4. Frames!IsData(k + 1)
  BY <1>1, <1>2, DataIs
<1>5. stream[k + 1].op \notin {8, 9}
  BY <1>4 DEF Frames!IsData
<1>6. ~Frames!TextBad(k + 1)
  <2>1. Fin(Header) => (Assembly.op = OpText => Utf8Done(FedUtf8))
    BY DEF Fragment, Publish
  <2> QED
    BY <1>1, <1>2, <2>1, TextJudged DEF Takes
<1>7. Frames!Grounds(k + 1) = {}
  BY <1>1, <1>2, <1>6, DataJudged
<1>8. Frames!Message(k + 1) =
          [op |-> Assembly.op, len |-> WithFrame.len, text |-> WithFrame.text]
  BY <1>1, <1>2, <1>3, MessageIs
<1>9. published' = IF Frames!IsData(k + 1) /\ stream[k + 1].fin
                   THEN Append(published, Frames!Message(k + 1)) ELSE published
  <2>1. CASE Fragment
    <3>1. published' = published /\ ~Fin(Header)
      BY <2>1 DEF Fragment, history
    <3> QED
      BY <1>3, <3>1
  <2>2. CASE Publish
    <3>1. Fin(Header) /\ published' = Append(published, Frames!Message(k + 1))
      BY <1>8, <2>2 DEF Publish
    <3> QED
      BY <1>3, <1>4, <3>1
  <2> QED
    BY <2>1, <2>2
<1> QED
  BY <1>1, <1>2, <1>5, <1>7, <1>9, AcceptRefines

\* The buffer may not grow: then more is unread than it may hold, because it is
\* as large as it may be or was in the handshake.
LEMMA OverloadRefines ==
    ASSUME InputInv, RoomInv, ClosingInv, Next, RecvFull, ~closing
    PROVE  Frames!Overload
<1>1. /\ args \in Seq(Arguments) /\ stream \in Seq(FrameType)
      /\ arrived \in 0..Total /\ taken \in 0..arrived
      /\ Sound(rx) /\ Unread(rx) = taken - used /\ used <= taken
  BY DEF InputInv, SourceTyped, Held
<1>2. PICK k \in 0..Len(stream) : used = EndOf(k)
  BY DEF InputInv, AtFrame
<1>3. Total \in Nat /\ used \in Nat /\ FramesTaken = k /\ Frames!EndOf(k) = used
  BY <1>1, <1>2, TotalTyped, TakenIs, SameEnds
<1>4. arrived \in Nat /\ taken \in Nat /\ taken <= arrived
  BY <1>1, <1>3
<1>5. PICK limit \in Nat, least \in Nat : limit = HardCap /\ least = Defaults.handshakeMax
  <2>1. Defaults.handshakeMax \in Nat
    BY DEF Defaults
  <2> QED
    BY <1>1, <2>1, LimitTyped
<1>6. Chunk \in Nat
  BY SizesAssumption
<1>7. PICK c : c = Compact(rx)
  OBVIOUS
<1>8. c.cap = rx.cap /\ c.len = Unread(rx)
  BY <1>1, <1>7, CompactKeeps
<1>9. ~(c.cap - c.len >= Chunk) /\ ~(Unread(rx) + Chunk <= limit)
  BY <1>5, <1>7 DEF RecvFull, HasRoom, CanReserve, Fits
<1>10. rx.cap \in Nat /\ rx.cap >= least
  BY <1>1, <1>5 DEF Sound, BufferType, RoomInv
<1>11. PICK n \in Nat : n = Unread(rx) /\ n = taken - used
  BY <1>1, <1>3, <1>4
<1>12. n + Chunk > least /\ n + Chunk > limit
  BY <1>5, <1>6, <1>8, <1>9, <1>10, <1>11
<1>13. FrameLimits.buffer \in {limit, least}
  <2>1. \E x \in {limit, least} : \A y \in {limit, least} : x >= y
    OBVIOUS
  <2>2. Max({limit, least}) \in {limit, least}
    BY <2>1 DEF Max
  <2> QED
    BY <1>5, <2>2 DEF FrameLimits
<1>14. arrived - used + Chunk > FrameLimits.buffer
  <2>1. arrived - used >= n
    BY <1>3, <1>4, <1>11
  <2>2. arrived - used \in Nat
    BY <1>3, <1>4, <1>11, <2>1
  <2> QED
    BY <1>6, <1>12, <1>13, <2>1, <2>2
<1>15. Frames!Serving
  BY AtWork DEF RecvFull
<1>16. answers' = Append(answers, Frames!Close(1009))
  BY DEF RecvFull, SendClose, Frames!Close
<1>17. UNCHANGED <<arrived, used, published>> /\ pc # "closed" /\ pc' # "closed"
  BY DEF RecvFull, peerVars
<1>18. stream' = stream /\ FrameLimits' = FrameLimits
  BY FramesFixed
<1>19. FramesTaken' = FramesTaken
  BY <1>17, <1>18, TakenStays
<1> QED
  BY <1>3, <1>14, <1>15, <1>16, <1>17, <1>18, <1>19 DEF Frames!Overload

\* Every step of Next is one of Receiver's, or none.
LEMMA StepRefines ==
    ASSUME InputInv, MessageInv, TextInv, ReceiverInv, Next
    PROVE  Frames!Next \/ UNCHANGED Frames!vars
<1>1. JoinInv /\ ClosingInv /\ RoomInv
  BY DEF ReceiverInv
<1>2. CASE PeerSend
  BY <1>2, ArriveRefines DEF Frames!Next
<1>3. CASE \/ PeerClose \/ PeerReads \/ Event \/ Recv \/ RecvNone \/ RecvEnd \/ LoopEnds
           \/ FlushAll \/ FlushSome \/ FlushError \/ (RecvFull /\ closing)
  <2>1. Quiet
    BY <1>3, QuietSteps
  <2> QED
    BY <2>1, QuietRefines DEF Frames!Next
<1>4. CASE RecvFull /\ ~closing
  BY <1>1, <1>4, OverloadRefines DEF Frames!Next
<1>5. CASE RefuseHeader \/ RefuseSize \/ RefusePlace \/ RefuseMessage \/ RefuseText
  <2>1. Frames!Refuse
    BY <1>1, <1>5, HeaderRefines, SizeRefines, PlaceRefines, MessageRefines, TextRefines
  <2> QED
    BY <2>1 DEF Frames!Next
<1>6. CASE Ping \/ Pong \/ CloseFrame \/ Fragment \/ Publish
  <2>1. Frames!Accept \/ Frames!Refuse
    BY <1>1, <1>6, PingRefines, PongRefines, CloseRefines, DataRefines
  <2> QED
    BY <2>1 DEF Frames!Next
<1> QED
  BY <1>2, <1>3, <1>4, <1>5, <1>6 DEF Next, WorkerStep, HandleFrame

\* The worker does with every frame what RFC 6455 and the limits say, decided
\* over the frames before it: it publishes every message of frames in order, once
\* and whole; it answers a PING and a CLOSE; it refuses a frame only if there is a
\* ground, and with a code that gives it; and it gives up on a source only if more
\* is unread than the buffer may hold. However the bytes arrive and whatever the
\* frames are (worker.c:179-299, conn.c:15-67, ws.c:7-89, 144-204).
THEOREM ReceiverImplemented == Spec => ImplementsReceiver
<1>1. Init => Frames!Init
  <2> SUFFICES ASSUME Init PROVE Frames!Init
    OBVIOUS
  <2>1. published = <<>> /\ answers = <<>> /\ used = 0 /\ pc # "closed"
    BY DEF Init
  <2>2. stream \in Seq(FrameType) /\ arrived \in 0..Total
    BY InputInit DEF InputInv, SourceTyped
  <2>3. arrived \in Nat
    BY <2>2, TotalTyped
  <2>4. FramesTaken = 0
    <3>1. 0 \in 0..Len(stream) /\ EndOf(0) = 0
      BY <2>2, TotalTyped
    <3> QED
      BY <2>1, <2>2, <3>1, TakenIs
  <2> QED
    BY <2>1, <2>3, <2>4 DEF Frames!Init
<1>2. Init => InputInv /\ MessageInv /\ AnswerInv /\ TextInv /\ ReceiverInv
  <2>1. Init => TextInv
    BY DEF Init, TextInv
  <2> QED
    BY <2>1, InputInit, MessageInit, ReceiverInit
<1>3. InputInv /\ MessageInv /\ AnswerInv /\ TextInv /\ ReceiverInv /\ [Next]_vars
         => (InputInv /\ MessageInv /\ AnswerInv /\ TextInv /\ ReceiverInv)'
  BY InputStep, MessageStep, AnswerStep, TextStep, ReceiverStep
<1>4. InputInv /\ MessageInv /\ AnswerInv /\ TextInv /\ ReceiverInv /\ [Next]_vars
         => [Frames!Next]_(Frames!vars)
  <2> SUFFICES ASSUME InputInv, MessageInv, TextInv, ReceiverInv, [Next]_vars
               PROVE  Frames!Next \/ UNCHANGED Frames!vars
    OBVIOUS
  <2>1. CASE Next
    BY <2>1, StepRefines
  <2>2. CASE UNCHANGED vars
    <3>1. UNCHANGED <<args, stream, arrived, used, pc, published, answers>>
      BY <2>2 DEF vars, peerVars, history
    <3>2. Quiet
      BY <3>1 DEF Quiet
    <3> QED
      BY <3>2, QuietRefines DEF Frames!Next
  <2> QED
    BY <2>1, <2>2
<1> QED
  BY <1>1, <1>2, <1>3, <1>4, PTL DEF Spec, ImplementsReceiver, Frames!Spec
=============================================================================
