--------------------------- MODULE SequenceLemmas ---------------------------
(***************************************************************************)
(* Facts that the proofs about several modules need: what Append and Tail  *)
(* do to the set of elements of a sequence without repetition, that a      *)
(* nonempty set of numbers has a smallest one, and what follows from that: *)
(* induction, and that a function or a fold defined by recursion is one.   *)
(***************************************************************************)
EXTENDS Naturals, Sequences, Functions, FiniteSetTheorems, WellFoundedInduction, TLAPS

\* Append adds its element; what was not there before comes in once.
LEMMA AppendElems ==
    ASSUME NEW S, NEW q \in Seq(S), NEW e \in S
    PROVE  /\ Range(Append(q, e)) = Range(q) \cup {e}
           /\ IsInjective(q) /\ e \notin Range(q) => IsInjective(Append(q, e))
<1> DEFINE a == Append(q, e)
<1>1. /\ DOMAIN a = 1..(Len(q) + 1) /\ DOMAIN q = 1..Len(q) /\ Len(q) \in Nat
      /\ \A i \in DOMAIN a : a[i] = IF i = Len(q) + 1 THEN e ELSE q[i]
  OBVIOUS
<1>2. \A i \in DOMAIN q : a[i] = q[i] /\ i \in DOMAIN a
  BY <1>1
<1>3. a[Len(q) + 1] = e /\ Len(q) + 1 \in DOMAIN a
  BY <1>1
<1>4. \A i \in DOMAIN a : i = Len(q) + 1 \/ i \in DOMAIN q
  BY <1>1
<1> HIDE DEF a
<1>5. Range(a) = Range(q) \cup {e}
  BY <1>2, <1>3, <1>4 DEF Range
<1>6. ASSUME IsInjective(q), e \notin Range(q)
      PROVE  IsInjective(a)
  BY <1>2, <1>3, <1>4, <1>6 DEF IsInjective, Range
<1> QED
  BY <1>5, <1>6 DEF a

\* Tail takes out the head, and nothing else if no element is there twice.
LEMMA TailElems ==
    ASSUME NEW S, NEW q \in Seq(S), q # <<>>
    PROVE  /\ Head(q) \in Range(q)
           /\ Range(q) = Range(Tail(q)) \cup {Head(q)}
           /\ IsInjective(q) => /\ IsInjective(Tail(q))
                                /\ Range(Tail(q)) = Range(q) \ {Head(q)}
<1> DEFINE t == Tail(q)
<1>1. /\ Len(q) \in Nat /\ Len(q) # 0 /\ DOMAIN q = 1..Len(q)
      /\ DOMAIN t = 1..(Len(q) - 1)
      /\ Head(q) = q[1] /\ \A i \in DOMAIN t : t[i] = q[i+1]
  OBVIOUS
<1>2. \A i \in DOMAIN t : i + 1 \in DOMAIN q /\ i + 1 # 1
  BY <1>1
<1>3. \A i \in DOMAIN q : i # 1 => i - 1 \in DOMAIN t /\ t[i - 1] = q[i]
  BY <1>1
<1>4. 1 \in DOMAIN q
  BY <1>1
<1>5. \A i, j \in DOMAIN t : i + 1 = j + 1 => i = j
  BY <1>1
<1> HIDE DEF t
<1>6. Head(q) \in Range(q) /\ Range(q) = Range(t) \cup {Head(q)}
  <2>1. \A i \in DOMAIN t : \E j \in DOMAIN q : t[i] = q[j]
    BY <1>1, <1>2
  <2>2. \A i \in DOMAIN q : q[i] = Head(q) \/ \E j \in DOMAIN t : q[i] = t[j]
    BY <1>1, <1>3
  <2>3. Head(q) \in Range(q)
    BY <1>1, <1>4 DEF Range
  <2>4. ASSUME NEW x
        PROVE  x \in Range(q) <=> x \in Range(t) \/ x = Head(q)
    BY <2>1, <2>2, <2>3 DEF Range
  <2> QED
    BY <2>3, <2>4
<1>7. ASSUME IsInjective(q)
      PROVE  IsInjective(t)
  BY <1>1, <1>2, <1>5, <1>7 DEF IsInjective
<1>8. ASSUME IsInjective(q)
      PROVE  Range(t) = Range(q) \ {Head(q)}
  <2>1. \A i \in DOMAIN t : t[i] # q[1]
    BY <1>1, <1>2, <1>4, <1>8 DEF IsInjective
  <2>2. \A i \in DOMAIN q : q[i] # q[1] => \E j \in DOMAIN t : t[j] = q[i]
    BY <1>3
  <2>3. \A i \in DOMAIN t : \E j \in DOMAIN q : t[i] = q[j]
    BY <1>1, <1>2
  <2>4. ASSUME NEW x
        PROVE  x \in Range(t) <=> x \in Range(q) /\ x # q[1]
    BY <2>1, <2>2, <2>3 DEF Range
  <2> QED
    BY <1>1, <2>4
<1> QED
  BY <1>6, <1>7, <1>8 DEF t

\* A nonempty set of natural numbers has a smallest element.
LEMMA NatMin ==
    ASSUME NEW T, T \subseteq Nat, T # {}
    PROVE  \E x \in T : \A y \in T : x <= y
<1>1. PICK x \in T : \A y \in T : ~ (<<y, x>> \in OpToRel(<, Nat))
  BY WFMin, NatLessThanWellFounded
<1>2. \A y \in T : ~(y < x)
  BY <1>1 DEF OpToRel
<1>3. x \in Nat /\ \A y \in T : y \in Nat
  OBVIOUS
<1>4. \A y \in T : x <= y
  BY <1>2, <1>3
<1> QED
  BY <1>4
-----------------------------------------------------------------------------
(* Induction and recursion. A set that holds what is to be shown takes the *)
(* place of a predicate, a function that of a step.                        *)

\* What holds of 0, and of n + 1 if it holds of n, holds of every number.
LEMMA NatUp ==
    ASSUME NEW T, 0 \in T, \A n \in Nat : n \in T => n + 1 \in T
    PROVE  \A n \in Nat : n \in T
<1> SUFFICES ASSUME NEW n \in Nat, n \notin T PROVE FALSE
  OBVIOUS
<1> DEFINE Others == {k \in Nat : k \notin T}
<1>1. PICK k \in Others : \A j \in Others : k <= j
  <2>1. Others # {} /\ Others \subseteq Nat
    OBVIOUS
  <2> QED
    BY <2>1, NatMin
<1>2. k # 0 /\ k - 1 \in Nat /\ k - 1 \notin Others
  BY <1>1
<1> QED
  BY <1>1, <1>2

\* What step makes of a function at d depends on its values at lower ranks only.
RankedStep(D, V, rank, step) ==
    /\ rank \in [D -> Nat] /\ step \in [[D -> V] -> [D -> V]]
    /\ \A f, g \in [D -> V], d \in D :
           (\A e \in D : rank[e] < rank[d] => f[e] = g[e]) => step[f][d] = step[g][d]

\* A definition by recursion on a rank defines a function: the step that says
\* what each value is has a fixed point.
LEMMA RankedRecursion ==
    ASSUME NEW D, NEW V, NEW rank, NEW step, V # {}, RankedStep(D, V, rank, step)
    PROVE  \E f \in [D -> V] : f = step[f]
<1>0. PICK F : F = [D -> V]
  OBVIOUS
<1>a. /\ rank \in [D -> Nat] /\ step \in [F -> F]
      /\ \A f, g \in F, d \in D :
             (\A e \in D : rank[e] < rank[d] => f[e] = g[e]) => step[f][d] = step[g][d]
  BY <1>0 DEF RankedStep
<1>b. F # {} /\ \A f \in F, d \in D : f[d] \in V
  <2>1. PICK v \in V : TRUE
    OBVIOUS
  <2>2. [d \in D |-> v] \in F
    BY <1>0
  <2> QED
    BY <1>0, <2>2
<1> USE <1>a, <1>b
<1> DEFINE Good(k, f) == \A d \in D : rank[d] < k => f[d] = step[f][d]
           Levels == {k \in Nat : \E f \in F : Good(k, f)}
\* Two functions that agree with the step up to a rank agree there.
<1>1. ASSUME NEW k \in Nat, NEW f \in F, NEW g \in F, Good(k, f), Good(k, g)
      PROVE  \A d \in D : rank[d] < k => f[d] = g[d]
  <2> SUFFICES ASSUME NEW c \in D, rank[c] < k, f[c] # g[c] PROVE FALSE
    OBVIOUS
  <2> DEFINE Apart == {n \in Nat : \E d \in D : rank[d] = n /\ rank[d] < k /\ f[d] # g[d]}
  <2>1. PICK n \in Apart : \A m \in Apart : n <= m
    <3>1. Apart # {} /\ Apart \subseteq Nat
      OBVIOUS
    <3> HIDE DEF Apart
    <3> QED
      BY <3>1, NatMin
  <2>2. PICK d \in D : rank[d] = n /\ rank[d] < k /\ f[d] # g[d]
    BY <2>1
  <2>3. \A e \in D : rank[e] < rank[d] => f[e] = g[e]
    <3> SUFFICES ASSUME NEW e \in D, rank[e] < rank[d], f[e] # g[e] PROVE FALSE
      OBVIOUS
    <3>1. rank[e] \in Apart
      BY <2>2
    <3> QED
      BY <2>1, <2>2, <3>1
  <2>4. step[f][d] = step[g][d]
    BY <1>a, <2>3
  <2> QED
    BY <1>1, <2>2, <2>4
<1>2. \A k \in Nat : \E f \in F : Good(k, f)
  <2>1. 0 \in Levels
    <3>1. PICK f \in F : TRUE
      OBVIOUS
    <3>2. Good(0, f)
      OBVIOUS
    <3> QED
      BY <3>1, <3>2
  <2>2. ASSUME NEW k \in Nat, k \in Levels PROVE k + 1 \in Levels
    <3>1. PICK f \in F : Good(k, f)
      BY <2>2
    <3>2. step[f] \in F
      OBVIOUS
    <3>3. ASSUME NEW d \in D, rank[d] < k + 1
          PROVE  step[f][d] = step[step[f]][d]
      <4>1. \A e \in D : rank[e] < rank[d] => f[e] = step[f][e]
        BY <3>1, <3>3
      <4> QED
        BY <1>a, <3>2, <4>1
    <3> QED
      BY <3>2, <3>3
  <2>3. \A k \in Nat : k \in Levels
    <3> HIDE DEF Levels
    <3> QED
      BY <2>1, <2>2, NatUp
  <2> QED
    BY <2>3
<1> DEFINE at == [k \in Nat |-> CHOOSE f \in F : Good(k, f)]
           h == [d \in D |-> at[rank[d] + 1][d]]
<1>3. \A k \in Nat : at[k] \in F /\ Good(k, at[k])
  BY <1>2
<1> HIDE DEF at
<1>4. h \in F
  BY <1>0, <1>3
<1>5. ASSUME NEW d \in D PROVE h[d] = step[h][d]
  <2> DEFINE r == rank[d] + 1
  <2>1. r \in Nat /\ rank[d] < r
    OBVIOUS
  <2>2. \A e \in D : rank[e] < rank[d] => h[e] = at[r][e]
    <3> SUFFICES ASSUME NEW e \in D, rank[e] < rank[d] PROVE h[e] = at[r][e]
      OBVIOUS
    <3>1. rank[e] + 1 \in Nat /\ rank[e] < rank[e] + 1 /\ rank[e] + 1 <= r
      OBVIOUS
    <3>2. Good(rank[e] + 1, at[r])
      BY <1>3, <2>1, <3>1
    <3>3. at[rank[e] + 1][e] = at[r][e]
      BY <1>1, <1>3, <2>1, <3>1, <3>2
    <3> QED
      BY <3>3
  <2>3. step[h][d] = step[at[r]][d]
    <3>1. PICK g \in F : g = at[r]
      BY <1>3, <2>1
    <3>2. \A e \in D : rank[e] < rank[d] => h[e] = g[e]
      BY <2>2, <3>1
    <3> HIDE DEF h, r
    <3>3. step[h][d] = step[g][d]
      BY ONLY <1>a, <1>4, <3>2, g \in F, d \in D
    <3> QED
      BY ONLY <3>1, <3>3
  <2>4. at[r][d] = step[at[r]][d]
    BY <1>3, <2>1
  <2> QED
    BY <2>3, <2>4
<1>6. h = step[h]
  <2>1. step[h] \in [D -> V] /\ h \in [D -> V]
    BY <1>0, <1>4
  <2> HIDE DEF h
  <2> QED
    BY <1>5, <2>1
<1> QED
  BY <1>0, <1>4, <1>6

\* ch takes an element out of each nonempty subset.
Chooses(ch, S) == \A s \in SUBSET S : s # {} => ch[s] \in s

\* g is the fold of op over the subsets of S, from base, in the order of ch.
FoldOf(g, S, V, base, op, ch) ==
    /\ g \in [SUBSET S -> V]
    /\ \A s \in SUBSET S : g[s] = IF s = {} THEN base ELSE op[<<ch[s], g[s \ {ch[s]}]>>]

\* A fold over a finite set is well defined, whichever element it takes first.
LEMMA FoldDefined ==
    ASSUME NEW S, IsFiniteSet(S), NEW V, NEW base \in V, NEW op \in [S \X V -> V],
           NEW ch, Chooses(ch, S)
    PROVE  \E g : FoldOf(g, S, V, base, op, ch)
<1>0. PICK D : D = SUBSET S
  OBVIOUS
<1> DEFINE rank == [s \in D |-> Cardinality(s)]
           step == [g \in [D -> V] |-> [s \in D |->
                       IF s = {} THEN base ELSE op[<<ch[s], g[s \ {ch[s]}]>>]]]
<1>1. rank \in [D -> Nat]
  BY <1>0, FS_Subset, FS_CardinalityType
<1>2. \A s \in D : s # {} =>
          ch[s] \in S /\ s \ {ch[s]} \in D /\ rank[s \ {ch[s]}] < rank[s]
  <2> SUFFICES ASSUME NEW s \in D, s # {}
               PROVE  ch[s] \in S /\ s \ {ch[s]} \in D /\ rank[s \ {ch[s]}] < rank[s]
    OBVIOUS
  <2>1. ch[s] \in s
    BY <1>0 DEF Chooses
  <2>2. IsFiniteSet(s)
    BY <1>0, FS_Subset
  <2>3. Cardinality(s \ {ch[s]}) = Cardinality(s) - 1
    BY <2>1, <2>2, FS_RemoveElement
  <2>4. Cardinality(s) \in Nat
    BY <2>2, FS_CardinalityType
  <2> QED
    BY <1>0, <2>1, <2>3, <2>4
<1>3. step \in [[D -> V] -> [D -> V]]
  <2> SUFFICES ASSUME NEW g \in [D -> V], NEW s \in D, s # {}
               PROVE  op[<<ch[s], g[s \ {ch[s]}]>>] \in V
    OBVIOUS
  <2>1. g[s \ {ch[s]}] \in V /\ ch[s] \in S
    BY <1>2
  <2> QED
    BY <2>1
<1>4. ASSUME NEW f \in [D -> V], NEW g \in [D -> V], NEW s \in D,
             \A t \in D : rank[t] < rank[s] => f[t] = g[t]
      PROVE  step[f][s] = step[g][s]
  <2>1. s # {} => f[s \ {ch[s]}] = g[s \ {ch[s]}]
    BY <1>2, <1>4
  <2> QED
    BY <2>1
<1>5. PICK g \in [D -> V] : g = step[g]
  <2> HIDE DEF rank, step
  <2>1. RankedStep(D, V, rank, step) /\ V # {}
    BY <1>1, <1>3, <1>4 DEF RankedStep
  <2>2. \E g \in [D -> V] : g = step[g]
    BY <2>1, RankedRecursion
  <2> QED
    BY <2>2
<1>6. ASSUME NEW s \in D
      PROVE  g[s] = IF s = {} THEN base ELSE op[<<ch[s], g[s \ {ch[s]}]>>]
  <2>1. step[g][s] = IF s = {} THEN base ELSE op[<<ch[s], g[s \ {ch[s]}]>>]
    OBVIOUS
  <2> QED
    BY <1>5, <2>1
<1> QED
  BY <1>0, <1>5, <1>6 DEF FoldOf
=============================================================================
