---------------------------- MODULE QueueProofs ----------------------------
(***************************************************************************)
(* Theorems about MsgQueue for any producers, readers and number of        *)
(* pushes: head, tail, links and counter always spell one sequence, that   *)
(* sequence changes as Channel promises, and a reader leaves nothing.      *)
(***************************************************************************)
EXTENDS MsgQueue, SequenceLemmas

-----------------------------------------------------------------------------
(* Reading a list from its pointers *)

\* The pointers h, t and nx spell the n items of s.
Reads(h, t, nx, n, s) ==
    /\ h = IF n = 0 THEN Null ELSE s[1]
    /\ t = IF n = 0 THEN Null ELSE s[n]
    /\ \A i \in 1..n : nx[s[i]] = IF i = n THEN Null ELSE s[i + 1]

\* A sequence of n items is a function on 1..n.
LEMMA SeqIsFunction ==
    ASSUME NEW s \in Seq(Items)
    PROVE  s \in [1..Len(s) -> Items]
<1>1. DOMAIN s = 1..Len(s) /\ s = [i \in DOMAIN s |-> s[i]]
  OBVIOUS
<1>2. \A i \in 1..Len(s) : s[i] \in Items
  OBVIOUS
<1> QED
  BY ONLY <1>1, <1>2

\* They spell one sequence only.
LEMMA ReadsOnce ==
    ASSUME NEW h, NEW t, NEW nx, NEW n \in Nat,
           NEW r \in [1..n -> Items], NEW s \in [1..n -> Items],
           Reads(h, t, nx, n, r), Reads(h, t, nx, n, s)
    PROVE  r = s
<1> DEFINE D == {i \in 1..n : r[i] # s[i]}
<1>1. D = {}
  <2> SUFFICES ASSUME D # {} PROVE FALSE
    OBVIOUS
  <2>1. D \subseteq Nat
    OBVIOUS
  <2> HIDE DEF D
  <2>2. PICK k \in D : \A j \in D : k <= j
    BY <2>1, NatMin
  <2>3. k \in 1..n /\ r[k] # s[k] /\ \A j \in 1..n : j < k => r[j] = s[j]
    BY <2>2 DEF D
  <2>4. CASE k = 1
    BY <2>3, <2>4 DEF Reads
  <2>5. CASE k # 1
    <3>1. k - 1 \in 1..n /\ k - 1 < k /\ k - 1 # n /\ (k - 1) + 1 = k
      BY <2>3, <2>5
    <3>2. r[k - 1] = s[k - 1]
      BY <2>3, <3>1
    <3>3. nx[r[k - 1]] = r[(k - 1) + 1] /\ nx[s[k - 1]] = s[(k - 1) + 1]
      BY <3>1 DEF Reads
    <3> QED
      BY <2>3, <3>1, <3>2, <3>3
  <2> QED
    BY <2>4, <2>5
<1> QED
  BY <1>1

\* A new last node makes the sequence longer by its item.
LEMMA ReadsLinked ==
    ASSUME NEW h, NEW t, NEW nx \in [Items -> Node], NEW n \in Nat, NEW s \in [1..n -> Items],
           Reads(h, t, nx, n, s),
           NEW x \in Items, \A i \in 1..n : s[i] # x,
           NEW ny, ny = [y \in Items |-> IF y = x THEN Null ELSE IF y = t THEN x ELSE nx[y]]
    PROVE  /\ Append(s, x) \in [1..(n + 1) -> Items]
           /\ Reads(IF t = Null THEN x ELSE h, x, ny, n + 1, Append(s, x))
<1> DEFINE a == Append(s, x)
<1>0. s \in Seq(Items) /\ Len(s) = n /\ DOMAIN s = 1..n
  OBVIOUS
<1>1. /\ a \in [1..(n + 1) -> Items]
      /\ \A i \in 1..n : a[i] = s[i]
      /\ a[n + 1] = x
  <2>1. a \in Seq(Items) /\ Len(a) = n + 1
    BY <1>0
  <2> HIDE DEF a
  <2>2. a \in [1..(n + 1) -> Items]
    BY <2>1, SeqIsFunction
  <2> USE DEF a
  <2>3. \A i \in 1..n : a[i] = s[i]
    BY <1>0
  <2>4. a[n + 1] = x
    BY <1>0
  <2> QED
    BY <2>2, <2>3, <2>4
<1> HIDE DEF a
<1>2. Null \notin Items
  BY NullAssumption
<1>3. (IF t = Null THEN x ELSE h) = IF n + 1 = 0 THEN Null ELSE a[1]
  <2>1. CASE n = 0
    BY <1>1, <2>1 DEF Reads
  <2>2. CASE n # 0
    <3>1. t = s[n] /\ n \in 1..n /\ h = s[1] /\ 1 \in 1..n /\ n + 1 # 0
      BY <2>2 DEF Reads
    <3>2. t # Null
      BY <1>2, <3>1
    <3> QED
      BY <1>1, <3>1, <3>2
  <2> QED
    BY <2>1, <2>2
<1>4. ASSUME NEW i \in 1..(n + 1)
      PROVE  ny[a[i]] = IF i = n + 1 THEN Null ELSE a[i + 1]
  <2>1. CASE i = n + 1
    BY <1>1, <2>1
  <2>2. CASE i # n + 1
    <3>1. i \in 1..n /\ a[i] = s[i] /\ s[i] \in Items /\ s[i] # x
      BY <1>1, <2>2
    <3>2. CASE i = n
      <4>1. t = s[i]
        BY <3>1, <3>2 DEF Reads
      <4> QED
        BY <1>1, <2>2, <3>1, <3>2, <4>1
    <3>3. CASE i # n
      <4>1. nx[s[i]] = s[i + 1] /\ i + 1 \in 1..n /\ s[i + 1] \in Items
        BY <3>1, <3>3 DEF Reads
      <4>2. n \in 1..n /\ n # 0
        BY <3>1
      <4>3. t = s[n] /\ nx[s[n]] = Null
        BY <4>2 DEF Reads
      <4>4. s[i] # t
        BY <1>2, <4>1, <4>3
      <4> QED
        BY <1>1, <2>2, <3>1, <4>1, <4>4
    <3> QED
      BY <3>2, <3>3
  <2> QED
    BY <2>1, <2>2
<1>5. x = IF n + 1 = 0 THEN Null ELSE a[n + 1]
  BY <1>1
<1> QED
  BY <1>1, <1>3, <1>4, <1>5 DEF Reads, a

\* Without its first node it is the rest.
LEMMA ReadsUnlinked ==
    ASSUME NEW h, NEW t, NEW nx, NEW n \in Nat, NEW s \in [1..n -> Items],
           Reads(h, t, nx, n, s), n # 0
    PROVE  /\ s \in Seq(Items) /\ s # <<>>
           /\ Tail(s) \in [1..(n - 1) -> Items]
           /\ \A i \in 1..(n - 1) : Tail(s)[i] = s[i + 1]
           /\ Reads(nx[h], IF nx[h] = Null THEN Null ELSE t, nx, n - 1, Tail(s))
<1> DEFINE r == Tail(s)
<1>1. /\ s \in Seq(Items) /\ Len(s) = n /\ s # <<>>
      /\ r \in [1..(n - 1) -> Items]
      /\ \A i \in 1..(n - 1) : r[i] = s[i + 1] /\ i + 1 \in 1..n
  <2>1. s \in Seq(Items) /\ Len(s) = n
    OBVIOUS
  <2>2. s # <<>>
    BY <2>1
  <2>3. r \in Seq(Items) /\ Len(r) = n - 1
    BY <2>1, <2>2
  <2> HIDE DEF r
  <2>4. r \in [1..(n - 1) -> Items]
    BY <2>3, SeqIsFunction
  <2> USE DEF r
  <2>5. ASSUME NEW i \in 1..(n - 1) PROVE r[i] = s[i + 1] /\ i + 1 \in 1..n
    BY <2>1, <2>2
  <2> QED
    BY <2>1, <2>2, <2>4, <2>5
<1> HIDE DEF r
<1>2. Null \notin Items
  BY NullAssumption
<1>3. h = s[1] /\ 1 \in 1..n /\ t = s[n] /\ n - 1 \in Nat
      /\ nx[h] = IF 1 = n THEN Null ELSE s[1 + 1]
  BY DEF Reads
<1>4. nx[h] = IF n - 1 = 0 THEN Null ELSE r[1]
  BY <1>1, <1>3
<1>5. (IF nx[h] = Null THEN Null ELSE t) = IF n - 1 = 0 THEN Null ELSE r[n - 1]
  <2>1. CASE n = 1
    BY <1>3, <2>1
  <2>2. CASE n # 1
    <3>1. nx[h] = s[2] /\ 2 \in 1..n /\ n - 1 \in 1..(n - 1) /\ (n - 1) + 1 = n
      BY <1>3, <2>2
    <3>2. nx[h] # Null
      BY <1>2, <3>1
    <3> QED
      BY <1>1, <1>3, <2>2, <3>1, <3>2
  <2> QED
    BY <2>1, <2>2
<1>6. ASSUME NEW i \in 1..(n - 1)
      PROVE  nx[r[i]] = IF i = n - 1 THEN Null ELSE r[i + 1]
  <2>1. r[i] = s[i + 1] /\ i + 1 \in 1..n
    BY <1>1
  <2>2. nx[s[i + 1]] = IF i + 1 = n THEN Null ELSE s[(i + 1) + 1]
    BY <2>1 DEF Reads
  <2>3. CASE i = n - 1
    BY <1>3, <2>1, <2>2, <2>3
  <2>4. CASE i # n - 1
    <3>1. i + 1 \in 1..(n - 1) /\ i + 1 # n
      BY <2>1, <2>4
    <3> QED
      BY <1>1, <2>1, <2>2, <2>4, <3>1
  <2> QED
    BY <2>3, <2>4
<1> QED
  BY <1>1, <1>4, <1>5, <1>6 DEF Reads, r

\* What Contents is, now and after a step.
Chosen(h, t, nx, n) == CHOOSE s \in [1..n -> Items] : Reads(h, t, nx, n, s)

LEMMA ChosenReads ==
    ASSUME NEW h, NEW t, NEW nx, NEW n \in Nat, NEW s \in [1..n -> Items], Reads(h, t, nx, n, s)
    PROVE  Chosen(h, t, nx, n) = s
<1>1. Chosen(h, t, nx, n) \in [1..n -> Items] /\ Reads(h, t, nx, n, Chosen(h, t, nx, n))
  BY DEF Chosen
<1> QED
  BY <1>1, ReadsOnce

LEMMA ContentsChosen ==
    /\ Contents = Chosen(head, tail, next, size)
    /\ Contents' = Chosen(head', tail', next', size')
<1>1. Contents = Chosen(head, tail, next, size)
  BY DEF Contents, Spells, Chosen, Reads
<1>2. Contents' = Chosen(head', tail', next', size')
  BY DEF Contents, Spells, Chosen, Reads
<1> QED
  BY <1>1, <1>2

-----------------------------------------------------------------------------
(* The list in a step *)

\* The sequence that the list spells, of items that were pushed.
Lists(s) == s \in [1..size -> Items] /\ Spells(s) /\ Made(s)

\* A push makes the sequence longer by an item that is not in it: its number is
\* above what its producer had pushed.
LEMMA PushLists ==
    ASSUME TypeOK, NEW s, Lists(s), NEW p \in Pushers,
           NEW x \in Items, x = <<p, pushed[p] + 1>>,
           Link(x), pushed' = [pushed EXCEPT ![p] = @ + 1]
    PROVE  /\ s \in Seq(Items)
           /\ Lists(Append(s, x))'
           /\ head' \in Node /\ tail' \in Node /\ next' \in [Items -> Node]
           /\ size' \in Nat
<1>1. /\ size \in Nat /\ head \in Node /\ tail \in Node /\ next \in [Items -> Node]
      /\ pushed \in [Pushers -> Nat] /\ pushed[p] \in Nat
  BY DEF TypeOK
<1>2. x \in Items
  OBVIOUS
<1>3. s \in [1..size -> Items] /\ Reads(head, tail, next, size, s)
  BY DEF Lists, Spells, Reads
<1>4. ASSUME NEW i \in 1..size
      PROVE  s[i] # x /\ s[i] \in Items /\ s[i][2] <= pushed[s[i][1]] /\ s[i][1] \in Pushers
                      /\ s[i][2] \in Nat
  <2>1. s[i] \in Items /\ s[i][2] <= pushed[s[i][1]]
    BY <1>3 DEF Lists, Made
  <2>2. x[1] = p /\ x[2] = pushed[p] + 1
    OBVIOUS
  <2>3. s[i][1] \in Pushers /\ s[i][2] \in Nat
    BY <2>1, BoundAssumption DEF Items, OwnItems, Pushers
  <2> QED
    BY <1>1, <2>1, <2>2, <2>3
<1>5. /\ next' = [y \in Items |-> IF y = x THEN Null ELSE IF y = tail THEN x ELSE next[y]]
      /\ head' = IF tail = Null THEN x ELSE head
      /\ tail' = x
      /\ size' = size + 1
      /\ pushed' = [pushed EXCEPT ![p] = @ + 1]
  BY DEF Link
<1>6. /\ Append(s, x) \in [1..size' -> Items]
      /\ Reads(head', tail', next', size', Append(s, x))
  <2>1. \A i \in 1..size : s[i] # x
    BY <1>4
  <2>2. /\ Append(s, x) \in [1..(size + 1) -> Items]
        /\ Reads(IF tail = Null THEN x ELSE head, x, next', size + 1, Append(s, x))
    <3>1. PICK ny : ny = next'
      OBVIOUS
    <3>2. ny = [y \in Items |-> IF y = x THEN Null ELSE IF y = tail THEN x ELSE next[y]]
      BY ONLY <1>5, <3>1
    <3>3. /\ Append(s, x) \in [1..(size + 1) -> Items]
          /\ Reads(IF tail = Null THEN x ELSE head, x, ny, size + 1, Append(s, x))
      BY ONLY <1>1, <1>2, <1>3, <2>1, <3>2, ReadsLinked
    <3> QED
      BY ONLY <3>1, <3>3
  <2> QED
    BY <1>5, <2>2
<1>7. s \in Seq(Items)
  BY <1>1, <1>3
<1>8. Made(Append(s, x))'
  <2>1. Len(s) = size
    BY <1>1, <1>3
  <2>2. ASSUME NEW i \in 1..(size + 1)
        PROVE  Append(s, x)[i][2] <= pushed'[Append(s, x)[i][1]]
    <3>1. CASE i = size + 1
      <4>1. Append(s, x)[i] = x
        BY <1>7, <2>1, <3>1
      <4>2. x[1] = p /\ x[2] = pushed[p] + 1 /\ pushed'[p] = pushed[p] + 1
        BY <1>1, <1>5
      <4>3. pushed[p] + 1 <= pushed[p] + 1
        BY <1>1
      <4> QED
        BY <4>1, <4>2, <4>3
    <3>2. CASE i # size + 1
      <4>1. i \in 1..size
        BY <1>1, <3>2
      <4>2. Append(s, x)[i] = s[i]
        BY <1>7, <2>1, <4>1
      <4>3. pushed[s[i][1]] <= pushed'[s[i][1]] /\ pushed'[s[i][1]] \in Nat
            /\ pushed[s[i][1]] \in Nat
        BY <1>1, <1>4, <1>5, <4>1
      <4>4. s[i][2] <= pushed[s[i][1]] /\ s[i][2] \in Nat
        BY <1>4, <4>1
      <4>5. s[i][2] <= pushed'[s[i][1]]
        BY <4>3, <4>4
      <4> QED
        BY <4>2, <4>5
    <3> QED
      BY <3>1, <3>2
  <2> QED
    BY <1>5, <2>2 DEF Made
<1>9. Spells(Append(s, x))'
  BY <1>6 DEF Spells, Reads
<1>10. head' \in Node /\ tail' \in Node /\ next' \in [Items -> Node] /\ size' \in Nat
  BY <1>1, <1>2, <1>5 DEF Node
<1> QED
  BY <1>2, <1>6, <1>7, <1>8, <1>9, <1>10 DEF Lists

\* A pop takes the first item of the sequence.
LEMMA UnlinkLists ==
    ASSUME TypeOK, NEW s, Lists(s), size # 0, Unlink, UNCHANGED pushed
    PROVE  /\ s \in Seq(Items) /\ s # <<>>
           /\ Lists(Tail(s))'
           /\ head' \in Node /\ tail' \in Node /\ next' \in [Items -> Node]
           /\ size' \in Nat
<1>1. /\ size \in Nat /\ head \in Node /\ tail \in Node /\ next \in [Items -> Node]
      /\ size - 1 \in Nat
  BY DEF TypeOK
<1>2. s \in [1..size -> Items] /\ Reads(head, tail, next, size, s)
  BY DEF Lists, Spells, Reads
<1>3. /\ head' = next[head]
      /\ tail' = IF next[head] = Null THEN Null ELSE tail
      /\ size' = size - 1
      /\ next' = next
  BY DEF Unlink
<1>4. /\ s \in Seq(Items) /\ s # <<>>
      /\ Tail(s) \in [1..(size - 1) -> Items]
      /\ \A i \in 1..(size - 1) : Tail(s)[i] = s[i + 1]
      /\ Reads(next[head], IF next[head] = Null THEN Null ELSE tail, next, size - 1, Tail(s))
  BY <1>1, <1>2, ReadsUnlinked
<1>5. Spells(Tail(s))'
  BY <1>3, <1>4 DEF Spells, Reads
<1>6. Made(Tail(s))'
  <2>1. ASSUME NEW i \in 1..(size - 1)
        PROVE  Tail(s)[i][2] <= pushed[Tail(s)[i][1]]
    <3>1. Tail(s)[i] = s[i + 1] /\ i + 1 \in 1..size
      BY <1>1, <1>4
    <3> QED
      BY <3>1 DEF Lists, Made
  <2> QED
    BY <1>3, <2>1 DEF Made
<1>7. head' \in Node /\ tail' \in Node
  <2>1. head = s[1] /\ s[1] \in Items
    BY <1>1, <1>2 DEF Reads
  <2> QED
    BY <1>1, <1>3, <2>1 DEF Node
<1> QED
  BY <1>1, <1>3, <1>4, <1>5, <1>6, <1>7 DEF Lists

\* Nothing else touches it.
LEMMA KeptLists ==
    ASSUME NEW s, Lists(s), UNCHANGED <<listVars, pushed>>
    PROVE  Lists(s)'
BY DEF Lists, Spells, Made, listVars

-----------------------------------------------------------------------------
(* The inductive invariant *)

\* What QueueInv says of the threads.
ThreadInv ==
    /\ shutdown <=> mpc # "run"
    /\ shutdown => \A p \in Producers : ppc[p] = "done"
    /\ \A c \in Consumers : cpc[c] = "size" => shutdown
    /\ Returned => shutdown /\ size = 0


\* A push of a producer or of the aggregator, as far as the list goes.
Pushes(p) ==
    /\ <<p, pushed[p] + 1>> \in Items
    /\ Link(<<p, pushed[p] + 1>>)
    /\ pushed' = [pushed EXCEPT ![p] = @ + 1]

\* Both ways to push are such pushes.
LEMMA PushersPush ==
    ASSUME pushed \in [Pushers -> Nat]
    PROVE  /\ \A p \in Producers : PushLocked(p) => p \in Pushers /\ Pushes(p)
           /\ \A c \in Pollers : ResumePush(c) => c \in Pushers /\ Pushes(c)
<1>1. ASSUME NEW p \in Producers, PushLocked(p)
      PROVE  p \in Pushers /\ Pushes(p)
  BY <1>1, BoundAssumption DEF PushLocked, Pushes, Pushers, Items
<1>2. ASSUME NEW c \in Pollers, ResumePush(c)
      PROVE  c \in Pushers /\ Pushes(c)
  BY <1>2, BoundAssumption DEF ResumePush, Pushes, Pushers, Items, OwnItems
<1> QED
  BY <1>1, <1>2

\* The list of a step that links a node, unlinks one or leaves it alone.
LEMMA ListStep ==
    ASSUME TypeOK, NEW s, Lists(s), [Next]_vars
    PROVE  /\ \E r : Lists(r)'
           /\ head' \in Node /\ tail' \in Node /\ next' \in [Items -> Node]
           /\ size' \in Nat
<1>0. pushed \in [Pushers -> Nat]
  BY DEF TypeOK
<1>1. CASE \E p \in Pushers : Pushes(p)
  <2>1. PICK p \in Pushers : Pushes(p)
    BY <1>1
  <2>2. PICK x : x = <<p, pushed[p] + 1>>
    OBVIOUS
  <2>3. x \in Items /\ Link(x) /\ pushed' = [pushed EXCEPT ![p] = @ + 1]
    BY <2>1, <2>2 DEF Pushes
  <2> QED
    BY <2>2, <2>3, PushLists
<1>2. CASE size # 0 /\ Unlink /\ UNCHANGED pushed
  BY <1>2, UnlinkLists
<1>3. CASE UNCHANGED <<listVars, pushed>>
  <2>1. Lists(s)'
    BY <1>3, KeptLists
  <2> QED
    BY <1>3, <2>1 DEF TypeOK, listVars
<1>4. \/ \E p \in Pushers : Pushes(p)
      \/ size # 0 /\ Unlink /\ UNCHANGED pushed
      \/ UNCHANGED <<listVars, pushed>>
  BY <1>0, PushersPush DEF Next, ProducerStep, PollerStep, PushWrite, ProducerExit, Pop, SpuriousWakeup,
         EnableNotify, TryPop, ResumeWrite, AskShutdown, AskSize, Woken, ShutdownLocked,
         ShutdownWrite, Finished, vars, listVars
<1> QED
  BY <1>1, <1>2, <1>3, <1>4

\* The variables that are not the list keep their types.
OtherTypes ==
    /\ shutdown \in BOOLEAN /\ notify \in BOOLEAN /\ efd \in BOOLEAN
    /\ pushed \in [Pushers -> Nat]
    /\ ppc \in [Producers -> {"run", "write", "done"}]
    /\ cpc \in [Consumers -> {"start", "pop", "waiting", "try", "put", "ask", "size",
                              "sleep", "exit"}]
    /\ mpc \in {"run", "write", "done"}

LEMMA OtherTypesKept ==
    OtherTypes /\ [Next]_vars => OtherTypes'
<1> SUFFICES ASSUME OtherTypes, [Next]_vars
             PROVE  OtherTypes'
  OBVIOUS
<1> USE DEF OtherTypes
<1>1. ASSUME NEW p \in Producers, PushLocked(p)
      PROVE  OtherTypes'
  <2>1. pushed' \in [Pushers -> Nat]
    BY <1>1 DEF PushLocked, Pushers
  <2>2. ppc' \in [Producers -> {"run", "write", "done"}]
    BY <1>1 DEF PushLocked
  <2>3. cpc' \in [Consumers -> {"start", "pop", "waiting", "try", "put", "ask", "size",
                                "sleep", "exit"}]
    BY <1>1 DEF PushLocked, Signal, Waiting, Consumers
  <2> QED
    BY <1>1, <2>1, <2>2, <2>3 DEF PushLocked
<1>2. ASSUME NEW p \in Producers, PushWrite(p) \/ ProducerExit(p)
      PROVE  OtherTypes'
  BY <1>2 DEF PushWrite, ProducerExit
<1>3. ASSUME NEW c \in Poppers, Pop(c) \/ SpuriousWakeup(c)
      PROVE  OtherTypes'
  BY <1>3 DEF Pop, SpuriousWakeup
<1>4. ASSUME NEW c \in Pollers, PollerStep(c)
      PROVE  OtherTypes'
  <2>1. CASE ResumePush(c)
    <3>1. c \in Pushers /\ pushed' = [pushed EXCEPT ![c] = @ + 1]
          /\ cpc' = [cpc EXCEPT ![c] = "put"]
      BY <2>1 DEF ResumePush, Pushers
    <3>2. pushed' \in [Pushers -> Nat]
      BY <3>1
    <3> QED
      BY <2>1, <3>1, <3>2 DEF ResumePush
  <2>2. CASE ~ResumePush(c)
    BY <1>4, <2>2 DEF PollerStep, EnableNotify, TryPop, ResumeWrite, AskShutdown, AskSize,
                      Woken
  <2> QED
    BY <2>1, <2>2
<1>5. CASE ShutdownLocked
  BY <1>5 DEF ShutdownLocked
<1>6. CASE ShutdownWrite
  BY <1>6 DEF ShutdownWrite
<1>7. CASE UNCHANGED vars
  BY <1>7 DEF vars
<1> QED
  BY <1>1, <1>2, <1>3, <1>4, <1>5, <1>6, <1>7 DEF Next, ProducerStep, Finished

\* Only an empty queue that was shut down lets a reader return, and then no
\* producer is left that could fill it.
LEMMA ThreadInvKept ==
    TypeOK /\ ThreadInv /\ [Next]_vars => ThreadInv'
<1> SUFFICES ASSUME TypeOK, ThreadInv, [Next]_vars
             PROVE  ThreadInv'
  OBVIOUS
<1>0. /\ ppc \in [Producers -> {"run", "write", "done"}]
      /\ cpc \in [Consumers -> {"start", "pop", "waiting", "try", "put", "ask", "size",
                                "sleep", "exit"}]
      /\ shutdown \in BOOLEAN /\ size \in Nat
  BY DEF TypeOK
<1>1. ASSUME NEW p \in Producers, PushLocked(p)
      PROVE  ThreadInv'
  <2>1. ~shutdown /\ ~Returned
    BY <1>0, <1>1 DEF ThreadInv, PushLocked
  <2>2. \A c \in Consumers : cpc'[c] = cpc[c] \/ (cpc[c] = "waiting" /\ cpc'[c] = "pop")
    BY <1>0, <1>1 DEF PushLocked, Signal, Waiting
  <2>3. ~Returned'
    BY <2>1, <2>2 DEF Returned
  <2>4. shutdown' = shutdown /\ mpc' = mpc
    BY <1>1 DEF PushLocked
  <2> QED
    BY <2>1, <2>2, <2>3, <2>4 DEF ThreadInv
<1>2. ASSUME NEW p \in Producers, PushWrite(p) \/ ProducerExit(p)
      PROVE  ThreadInv'
  BY <1>0, <1>2 DEF ThreadInv, Returned, PushWrite, ProducerExit, listVars
<1>3. ASSUME NEW c \in Poppers, Pop(c)
      PROVE  ThreadInv'
  <2>1. c \in Consumers
    BY DEF Consumers
  <2>2. CASE size # 0
    BY <1>0, <1>3, <2>1, <2>2 DEF ThreadInv, Returned, Pop, Unlink
  <2>3. CASE size = 0
    BY <1>0, <1>3, <2>1, <2>3 DEF ThreadInv, Returned, Pop, listVars
  <2> QED
    BY <2>2, <2>3
<1>4. ASSUME NEW c \in Poppers, SpuriousWakeup(c)
      PROVE  ThreadInv'
  BY <1>0, <1>4 DEF ThreadInv, Returned, SpuriousWakeup, listVars, Consumers
<1>5. ASSUME NEW c \in Pollers, EnableNotify(c) \/ ResumeWrite(c) \/ Woken(c)
      PROVE  ThreadInv'
  BY <1>0, <1>5 DEF ThreadInv, Returned, EnableNotify, ResumeWrite, Woken, listVars, Consumers
<1>6. ASSUME NEW c \in Pollers, TryPop(c)
      PROVE  ThreadInv'
  <2>1. c \in Consumers
    BY DEF Consumers
  <2>2. ~Returned
    BY <1>6, <2>1 DEF TryPop, Returned
  <2>3. /\ cpc' = cpc \/ cpc' = [cpc EXCEPT ![c] = "ask"]
        /\ UNCHANGED <<shutdown, mpc, ppc>>
    BY <1>6 DEF TryPop
  <2>4. cpc'[c] # "exit"
    BY <1>0, <1>6, <2>1, <2>3 DEF TryPop
  <2> QED
    BY <1>0, <2>1, <2>2, <2>3, <2>4 DEF ThreadInv, Returned
<1>12. ASSUME NEW c \in Pollers, ResumePush(c)
      PROVE  ThreadInv'
  <2>1. c \in Consumers
    BY DEF Consumers
  <2>2. ~Returned
    BY <1>12, <2>1 DEF ResumePush, Returned
  <2>3. /\ cpc' = [cpc EXCEPT ![c] = "put"]
        /\ UNCHANGED <<shutdown, mpc, ppc>>
    BY <1>12 DEF ResumePush
  <2>4. cpc'[c] # "exit"
    BY <1>0, <2>1, <2>3
  <2> QED
    BY <1>0, <2>1, <2>2, <2>3, <2>4 DEF ThreadInv, Returned
<1>7. ASSUME NEW c \in Pollers, AskShutdown(c)
      PROVE  ThreadInv'
  BY <1>0, <1>7 DEF ThreadInv, Returned, AskShutdown, listVars, Consumers
<1>8. ASSUME NEW c \in Pollers, AskSize(c)
      PROVE  ThreadInv'
  BY <1>0, <1>8 DEF ThreadInv, Returned, AskSize, listVars, Consumers
<1>9. CASE ShutdownLocked
  <2>1. ~shutdown /\ ~Returned
    BY <1>9 DEF ThreadInv, ShutdownLocked
  <2>2. ~Returned'
    BY <1>0, <1>9, <2>1 DEF Returned, ShutdownLocked, Waiting
  <2>3. shutdown' /\ mpc' # "run" /\ \A p \in Producers : ppc'[p] = "done"
    BY <1>9 DEF ShutdownLocked
  <2> QED
    BY <2>2, <2>3 DEF ThreadInv
<1>10. CASE ShutdownWrite
  BY <1>10 DEF ThreadInv, Returned, ShutdownWrite, listVars
<1>11. CASE UNCHANGED vars
  BY <1>11 DEF ThreadInv, Returned, vars, listVars
<1> QED
  BY <1>1, <1>2, <1>3, <1>4, <1>5, <1>6, <1>7, <1>8, <1>9, <1>10, <1>11, <1>12
     DEF Next, ProducerStep, PollerStep, Finished

\* Readers that have returned stay so: nothing is left that could wake one.
LEMMA ReturnedStays ==
    TypeOK /\ ThreadInv /\ Returned /\ [Next]_vars => Returned'
<1> SUFFICES ASSUME TypeOK, ThreadInv, Returned, [Next]_vars
             PROVE  Returned'
  OBVIOUS
<1>1. /\ cpc \in [Consumers -> {"start", "pop", "waiting", "try", "put", "ask", "size",
                                "sleep", "exit"}]
      /\ \A c \in Consumers : cpc[c] = "exit"
      /\ shutdown /\ mpc # "run" /\ \A p \in Producers : ppc[p] = "done"
  BY DEF TypeOK, ThreadInv, Returned
<1>2. cpc' = cpc
  BY <1>1 DEF Next, ProducerStep, PollerStep, PushLocked, PushWrite, ProducerExit, Pop,
              SpuriousWakeup, EnableNotify, TryPop, ResumePush, ResumeWrite, AskShutdown,
              AskSize, Woken, ShutdownLocked, ShutdownWrite, Finished, vars, Consumers
<1> QED
  BY <1>1, <1>2 DEF Returned

-----------------------------------------------------------------------------
(* Theorems *)

\* In every state there is a sequence of pushed items that head, tail, links and
\* counter spell, and the threads are where QueueInv says (queue.c:88-181).
THEOREM QueueInvariant == Spec => []QueueInv
<1>1. Init => QueueInv
  <2> SUFFICES ASSUME Init PROVE QueueInv
    OBVIOUS
  <2>1. TypeOK
    <3>1. head \in Node /\ tail \in Node /\ next \in [Items -> Node] /\ size \in Nat
      BY DEF Init, Node
    <3>2. pushed \in [Pushers -> Nat]
      BY DEF Init
    <3>3. cpc \in [Consumers -> {"start", "pop", "waiting", "try", "put", "ask", "size",
                                 "sleep", "exit"}]
      BY DEF Init
    <3> QED
      BY <3>1, <3>2, <3>3 DEF Init, TypeOK
  <2>2. \E s : Lists(s)
    <3>1. <<>> \in [1..0 -> Items]
      OBVIOUS
    <3>2. Lists(<<>>)
      BY <3>1 DEF Init, Lists, Spells, Made
    <3> QED
      BY <3>2
  <2>3. ThreadInv
    <3>1. ~Returned
      BY DEF Init, Returned, Consumers
    <3>2. \A c \in Consumers : cpc[c] # "size"
      BY DEF Init
    <3> QED
      BY <3>1, <3>2 DEF Init, ThreadInv
  <2> QED
    BY <2>1, <2>2, <2>3 DEF QueueInv, Lists, ThreadInv
<1>2. QueueInv /\ [Next]_vars => QueueInv'
  <2> SUFFICES ASSUME QueueInv, [Next]_vars PROVE QueueInv'
    OBVIOUS
  <2>1. TypeOK /\ (\E s : Lists(s)) /\ ThreadInv /\ OtherTypes
    BY DEF QueueInv, Lists, ThreadInv, OtherTypes, TypeOK
  <2>2. PICK s : Lists(s)
    BY <2>1
  <2>3. /\ \E r : Lists(r)'
        /\ head' \in Node /\ tail' \in Node /\ next' \in [Items -> Node]
        /\ size' \in Nat
    BY <2>1, <2>2, ListStep
  <2>4. OtherTypes'
    BY <2>1, OtherTypesKept
  <2>5. ThreadInv'
    BY <2>1, ThreadInvKept
  <2>6. TypeOK'
    BY <2>3, <2>4 DEF TypeOK, OtherTypes
  <2> QED
    BY <2>3, <2>5, <2>6 DEF QueueInv, Lists, ThreadInv
<1> QED
  BY <1>1, <1>2, PTL DEF Spec

\* Head, tail, links and counter agree whenever the mutex is free, also after the
\* list ran empty (queue.c:91-97, 139-149).
THEOREM ListIntactAlways == Spec => []ListIntact
<1>1. QueueInv => ListIntact
  BY DEF QueueInv, ListIntact
<1> QED
  BY <1>1, QueueInvariant, PTL

\* pop() and the aggregator's two looks at the queue give up only when nothing is
\* left in it (queue.c:161-164, agg.c:531-534).
THEOREM NothingLeftAlways == Spec => []NothingLeft
<1>1. QueueInv => NothingLeft
  BY DEF QueueInv, NothingLeft
<1> QED
  BY <1>1, QueueInvariant, PTL

\* The linked list is a first-in first-out channel: push() puts its item behind
\* the others, a pop takes the first, and no other step of any thread changes the
\* contents (inc/queue.h:40-60). What comes in after the shutdown is the
\* aggregator's own (agg.c:303); the readers leave an empty queue that was shut
\* down, and nobody puts in anything after they left.
THEOREM ChannelImplemented == Spec => ImplementsChannel
<1>1. Init => Promise!Init
  <2> SUFFICES ASSUME Init PROVE Promise!Init
    OBVIOUS
  <2>1. <<>> \in [1..0 -> Items]
    OBVIOUS
  <2>2. Reads(head, tail, next, 0, <<>>) /\ size = 0
    BY DEF Init, Reads
  <2>3. Contents = <<>>
    BY <2>1, <2>2, ChosenReads, ContentsChosen
  <2>4. Returned = FALSE
    BY DEF Init, Returned, Consumers
  <2> QED
    BY <2>3, <2>4 DEF Init, Promise!Init
<1>2. QueueInv /\ QueueInv' /\ [Next]_vars => [Promise!Next]_(Promise!vars)
  <2> SUFFICES ASSUME QueueInv, QueueInv', [Next]_vars PROVE [Promise!Next]_(Promise!vars)
    OBVIOUS
  <2>1. TypeOK /\ (\E s : Lists(s)) /\ ThreadInv
    BY DEF QueueInv, Lists, ThreadInv
  <2>2. PICK s : Lists(s)
    BY <2>1
  <2>3. Contents = s
    <3>1. size \in Nat /\ s \in [1..size -> Items] /\ Reads(head, tail, next, size, s)
      BY <2>1, <2>2 DEF TypeOK, Lists, Spells, Reads
    <3> QED
      BY <3>1, ChosenReads, ContentsChosen
  <2>4. ASSUME NEW r, Lists(r)', size' \in Nat
        PROVE  Contents' = r
    <3>1. r \in [1..size' -> Items] /\ Reads(head', tail', next', size', r)
      BY <2>4 DEF Lists, Spells, Reads
    <3> QED
      BY <2>4, <3>1, ChosenReads, ContentsChosen
  <2>10. /\ pushed \in [Pushers -> Nat] /\ size \in Nat /\ shutdown \in BOOLEAN
         /\ cpc \in [Consumers -> {"start", "pop", "waiting", "try", "put", "ask", "size",
                                   "sleep", "exit"}]
         /\ (size = 0 => s = <<>>)
         /\ (Returned => shutdown /\ size = 0) /\ (Returned' => shutdown' /\ size' = 0)
    <3>1. s \in [1..size -> Items] /\ (size = 0 => s = <<>>)
      BY <2>2 DEF Lists
    <3> QED
      BY <2>1, <3>1 DEF TypeOK, ThreadInv, QueueInv
  <2>5. ASSUME NEW p \in Pushers, Pushes(p), ~Returned, Returned' = Returned,
               UNCHANGED shutdown, shutdown => p \in Pollers
        PROVE  Promise!Next
    <3>1. PICK x : x = <<p, pushed[p] + 1>>
      OBVIOUS
    <3>6. x \in Items /\ Link(x) /\ pushed' = [pushed EXCEPT ![p] = @ + 1]
      BY <2>5, <3>1 DEF Pushes
    <3>2. /\ x \in Items /\ Lists(Append(s, x))' /\ size' \in Nat
      BY <2>1, <2>2, <3>1, <3>6, PushLists
    <3>3. PICK r : r = Append(s, x)
      OBVIOUS
    <3>4. Contents' = r
      BY <2>4, <3>2, <3>3
    <3>5. shutdown => x \in OwnItems
      BY <2>5, <3>1, <3>6, PollerAssumption DEF Items, OwnItems
    <3> QED
      BY <2>3, <2>5, <3>2, <3>3, <3>4, <3>5 DEF Promise!Next, Promise!Put, OwnItems
  <2>6. ASSUME size # 0, Unlink, UNCHANGED <<pushed, shutdown>>, Returned' = Returned
        PROVE  Promise!Next
    <3>1. s # <<>> /\ Lists(Tail(s))' /\ size' \in Nat
      BY <2>1, <2>2, <2>6, UnlinkLists
    <3>2. PICK r : r = Tail(s)
      OBVIOUS
    <3>3. Contents' = r
      BY <2>4, <3>1, <3>2
    <3> QED
      BY <2>3, <2>6, <3>1, <3>2, <3>3 DEF Promise!Next, Promise!Take
  <2>7. ASSUME UNCHANGED listVars
        PROVE  Contents' = Contents
    BY <2>7, ContentsChosen DEF listVars
  <2>8. ASSUME ShutdownLocked
        PROVE  Promise!Next
    <3>1. shutdown' = TRUE /\ Contents' = Contents
      BY <2>7, <2>8 DEF ShutdownLocked
    <3>2. ~shutdown
      BY <2>1, <2>8 DEF ThreadInv, ShutdownLocked
    <3>3. ~Returned
      BY <2>10, <3>2
    <3>4. ~Returned'
      BY <2>10, <2>8, <3>3 DEF Returned, ShutdownLocked, Waiting
    <3>5. Returned' = Returned
      BY <3>3, <3>4 DEF Returned
    <3> QED
      BY <3>1, <3>3, <3>5 DEF Promise!Next, Promise!Close
  <2>9. ASSUME UNCHANGED <<listVars, shutdown>>
        PROVE  Promise!Next \/ UNCHANGED Promise!vars
    <3>1. Contents' = Contents /\ shutdown' = shutdown /\ size' = size
      BY <2>7, <2>9 DEF listVars
    <3>2. CASE Returned' = Returned
      BY <3>1, <3>2 DEF Promise!vars
    <3>3. CASE Returned' # Returned
      <4>1. ~Returned /\ Returned'
        BY <2>1, <3>3, ReturnedStays DEF Returned
      <4>2. shutdown /\ Contents = <<>>
        BY <2>3, <2>10, <3>1, <4>1
      <4>3. Returned' = TRUE
        BY <4>1 DEF Returned
      <4> QED
        BY <3>1, <4>2, <4>3 DEF Promise!Next, Promise!Leave
    <3> QED
      BY <3>2, <3>3
  <2>11. ASSUME NEW p \in Producers, PushLocked(p)
         PROVE  Promise!Next
    <3>1. p \in Pushers /\ Pushes(p) /\ shutdown' = shutdown
      BY <2>10, <2>11, PushersPush DEF PushLocked
    <3>2. ~shutdown /\ ~Returned
      BY <2>1, <2>10, <2>11 DEF ThreadInv, PushLocked
    <3>3. ~Returned'
      BY <2>10, <3>1, <3>2
    <3>4. Returned' = Returned
      BY <3>2, <3>3 DEF Returned
    <3> QED
      BY <2>5, <3>1, <3>2, <3>4
  <2>12. ASSUME NEW c \in Pollers, ResumePush(c)
         PROVE  Promise!Next
    <3>1. c \in Pushers /\ Pushes(c) /\ shutdown' = shutdown
      BY <2>10, <2>12, PushersPush DEF ResumePush
    <3>2. c \in Consumers /\ cpc[c] # "exit" /\ cpc'[c] # "exit"
      BY <2>10, <2>12 DEF ResumePush, Consumers
    <3>3. ~Returned /\ ~Returned'
      BY <3>2 DEF Returned
    <3>4. Returned' = Returned
      BY <3>3 DEF Returned
    <3> QED
      BY <2>5, <3>1, <3>3, <3>4
  <2>13. ASSUME size # 0, Unlink, UNCHANGED <<pushed, shutdown, cpc>>
         PROVE  Promise!Next
    BY <2>6, <2>13 DEF Returned
  <2>14. \/ \E p \in Producers : PushLocked(p)
         \/ \E c \in Pollers : ResumePush(c)
         \/ size # 0 /\ Unlink /\ UNCHANGED <<pushed, shutdown, cpc>>
         \/ ShutdownLocked
         \/ UNCHANGED <<listVars, shutdown>>
    BY DEF Next, ProducerStep, PollerStep, PushWrite, ProducerExit, Pop, SpuriousWakeup,
           EnableNotify, TryPop, ResumeWrite, AskShutdown, AskSize, Woken, ShutdownWrite,
           Finished, vars, listVars
  <2> QED
    BY <2>8, <2>9, <2>11, <2>12, <2>13, <2>14
<1> QED
  BY <1>1, <1>2, QueueInvariant, PTL DEF Spec, ImplementsChannel, Promise!Spec
=============================================================================
