---------------------------- MODULE FoldTheorems ----------------------------
(***************************************************************************)
(* What FoldLeft computes, for every sequence: the theorems by which the   *)
(* loops of the code that are written as folds are reasoned about.  They   *)
(* are instantiated with the body of the loop.                             *)
(*                                                                         *)
(* The induction is over sets of numbers (SetInduction), which the library *)
(* yields through the well-founded order of Nat: a set that holds zero and *)
(* the successors of its members has no least number outside it.           *)
(***************************************************************************)
EXTENDS Integers, Sequences, Folds, WellFoundedInduction, TLAPS

CONSTANT
    op(_, _)    \* the body of the loop: what was folded so far, and the next element

\* The greatest member of a set of numbers.
Highest(S) == CHOOSE x \in S : \A y \in S : x >= y

\* The loop over seq that starts with base, as FoldLeft defines it.
Folded(base, seq) ==
  MapThenFoldSet(LAMBDA x, y : op(y, x), base, LAMBDA i : seq[i], LAMBDA S : Highest(S), DOMAIN seq)

Smaller == {pair \in Nat \X Nat : pair[1] < pair[2]}

(* Every set of natural numbers that is not empty has a least one.         *)
LEMMA LeastElement ==
  ASSUME NEW T \in SUBSET Nat, T # {}
  PROVE  \E m \in T : \A k \in T : m <= k
<1>1. IsWellFoundedOn(Smaller, Nat)
  BY NatLessThanWellFounded DEF OpToRel, Smaller
<1>2. PICK m \in T : \A k \in T : ~(<<k, m>> \in Smaller)
  BY <1>1, WFMin
<1>3. \A k \in T : ~(k < m)
  BY <1>2 DEF Smaller
<1> QED BY <1>3

(* Induction over the natural numbers, for a set.                          *)
LEMMA SetInduction ==
  ASSUME NEW P \in SUBSET Nat, 0 \in P, \A n \in P : n + 1 \in P
  PROVE  P = Nat
<1> SUFFICES ASSUME Nat \ P # {} PROVE FALSE
  OBVIOUS
<1>1. PICK m \in Nat \ P : \A k \in Nat \ P : m <= k
  BY LeastElement
<1>2. m - 1 \in Nat /\ m - 1 \notin Nat \ P
  BY <1>1
<1> QED BY <1>2

(* The function FoldLeft chooses: the fold over any set of positions.      *)
Sol(base, seq, iter, n) ==
  iter = [s \in SUBSET (1 .. n) |-> IF s = {} THEN base ELSE op(iter[s \ {Highest(s)}], seq[Highest(s)])]

(* The last position is the greatest of the positions up to it.            *)
LEMMA MaxIs ==
  ASSUME NEW n \in Nat, NEW s \in SUBSET (1 .. n), n \in s
  PROVE  Highest(s) = n
<1>1. \A y \in s : n >= y
  OBVIOUS
<1>2. \A x \in s : (\A y \in s : x >= y) => x = n
  OBVIOUS
<1> QED  BY <1>1, <1>2 DEF Highest

(* There is such a function, so FoldLeft chooses one.                      *)
LEMMA SolExists ==
  ASSUME NEW base, NEW seq, NEW n \in Nat
  PROVE  \E iter : Sol(base, seq, iter, n)
<1> DEFINE P == {m \in Nat : \E iter : Sol(base, seq, iter, m)}
<1>1. 0 \in P
  <2> DEFINE g == [s \in SUBSET (1 .. 0) |-> base]
  <2>1. SUBSET (1 .. 0) = {{}}
    OBVIOUS
  <2>2. Sol(base, seq, g, 0)
    BY <2>1 DEF Sol
  <2> QED BY <2>2
<1>2. ASSUME NEW m \in P PROVE m + 1 \in P
  <2>1. PICK g : Sol(base, seq, g, m)
    OBVIOUS
  <2> DEFINE h == [s \in SUBSET (1 .. (m + 1)) |->
                     IF m + 1 \in s THEN op(g[s \ {m + 1}], seq[m + 1]) ELSE g[s]]
  <2>2. ASSUME NEW s \in SUBSET (1 .. (m + 1))
        PROVE  h[s] = IF s = {} THEN base ELSE op(h[s \ {Highest(s)}], seq[Highest(s)])
    <3>1. CASE m + 1 \in s
      <4>1. Highest(s) = m + 1
        BY <3>1, MaxIs
      <4>2. s \ {m + 1} \in SUBSET (1 .. (m + 1)) /\ m + 1 \notin s \ {m + 1}
        OBVIOUS
      <4>3. h[s \ {m + 1}] = g[s \ {m + 1}]
        BY <4>2
      <4>4. h[s] = op(g[s \ {m + 1}], seq[m + 1])
        BY <3>1
      <4> HIDE DEF h
      <4> QED  BY <3>1, <4>1, <4>3, <4>4
    <3>2. CASE m + 1 \notin s
      <4>1. s \in SUBSET (1 .. m)
        BY <3>2
      <4>2. h[s] = g[s]
        BY <3>2
      <4>3. g[s] = IF s = {} THEN base ELSE op(g[s \ {Highest(s)}], seq[Highest(s)])
        BY <2>1, <4>1 DEF Sol
      <4>4. h[s \ {Highest(s)}] = g[s \ {Highest(s)}]
        <5>1. s \ {Highest(s)} \in SUBSET (1 .. (m + 1)) /\ m + 1 \notin s \ {Highest(s)}
          BY <3>2
        <5> QED BY <5>1
      <4> HIDE DEF h
      <4> QED  BY <4>2, <4>3, <4>4
    <3> QED BY <3>1, <3>2
  <2>3. Sol(base, seq, h, m + 1)
    <3> DEFINE k == [s \in SUBSET (1 .. (m + 1)) |-> IF s = {} THEN base ELSE op(h[s \ {Highest(s)}], seq[Highest(s)])]
    <3>1. h = k
      BY <2>2
    <3> QED  BY <3>1 DEF Sol
  <2> QED BY <2>3
<1>3. P = Nat
  <2> HIDE DEF P
  <2>1. P \in SUBSET Nat
    BY DEF P
  <2> QED BY <1>1, <1>2, <2>1, SetInduction
<1> QED BY <1>3

(* FoldLeft is the value of such a function at all positions.              *)
LEMMA Unfold ==
  ASSUME NEW base, NEW seq, NEW n \in Nat, DOMAIN seq = 1 .. n
  PROVE  \E iter : Sol(base, seq, iter, n) /\ Folded(base, seq) = iter[1 .. n]
<1>1. Folded(base, seq) = (CHOOSE iter : Sol(base, seq, iter, n))[1 .. n]
  BY DEF Folded, MapThenFoldSet, Sol
<1>2. Sol(base, seq, CHOOSE iter : Sol(base, seq, iter, n), n)
  BY SolExists
<1> QED BY <1>1, <1>2

(* The values of the loop: h[i] after i elements.                          *)
Trace(base, seq, h, n) ==
  h[0] = base /\ \A i \in 1 .. n : h[i] = op(h[i - 1], seq[i])

(* FoldLeft is the last of the values of the loop,                         *)
THEOREM FoldTrace ==
  ASSUME NEW base, NEW seq, NEW n \in Nat, DOMAIN seq = 1 .. n
  PROVE  \E h : Trace(base, seq, h, n) /\ Folded(base, seq) = h[n]
<1>1. PICK iter : Sol(base, seq, iter, n) /\ Folded(base, seq) = iter[1 .. n]
  BY Unfold
<1> DEFINE h == [i \in 0 .. n |-> iter[1 .. i]]
<1>2. \A s \in SUBSET (1 .. n) : iter[s] = IF s = {} THEN base ELSE op(iter[s \ {Highest(s)}], seq[Highest(s)])
  BY <1>1 DEF Sol
<1>3. h[0] = base
  <2>1. 1 .. 0 = {} /\ {} \in SUBSET (1 .. n)
    OBVIOUS
  <2>2. iter[{}] = base
    BY <1>2, <2>1
  <2>3. h[0] = iter[1 .. 0]
    OBVIOUS
  <2> QED  BY <2>1, <2>2, <2>3
<1>4. ASSUME NEW i \in 1 .. n PROVE h[i] = op(h[i - 1], seq[i])
  <2>1. Highest(1 .. i) = i
    BY MaxIs
  <2>2. /\ (1 .. i) \ {i} = 1 .. (i - 1)
        /\ 1 .. i # {}
        /\ 1 .. i \in SUBSET (1 .. n)
    <3>1. i \in Nat /\ 1 <= i /\ i <= n
      OBVIOUS
    <3>2. \A x : x \in (1 .. i) \ {i} <=> x \in 1 .. (i - 1)
      BY <3>1
    <3>3. i \in 1 .. i
      BY <3>1
    <3>4. \A x \in 1 .. i : x \in 1 .. n
      BY <3>1
    <3> QED  BY <3>2, <3>3, <3>4
  <2>3. iter[1 .. i] = op(iter[1 .. (i - 1)], seq[i])
    BY <1>2, <2>1, <2>2
  <2> QED  BY <2>3
<1>5. Folded(base, seq) = h[n]
  BY <1>1
<1> HIDE DEF h
<1> QED  BY <1>3, <1>4, <1>5 DEF Trace

(* and whatever follows the loop step by step ends with FoldLeft.          *)
THEOREM FoldOfTrace ==
  ASSUME NEW base, NEW seq, NEW n \in Nat, DOMAIN seq = 1 .. n, NEW h, Trace(base, seq, h, n)
  PROVE  Folded(base, seq) = h[n]
<1>1. PICK k : Trace(base, seq, k, n) /\ Folded(base, seq) = k[n]
  BY FoldTrace
<1> DEFINE P == {i \in Nat : i <= n => h[i] = k[i]}
<1>2. 0 \in P
  BY <1>1 DEF Trace
<1>3. ASSUME NEW i \in P PROVE i + 1 \in P
  <2> SUFFICES ASSUME i + 1 <= n PROVE h[i + 1] = k[i + 1]
    OBVIOUS
  <2>1. i + 1 \in 1 .. n /\ (i + 1) - 1 = i /\ h[i] = k[i]
    OBVIOUS
  <2> QED  BY <1>1, <2>1 DEF Trace
<1> HIDE DEF P
<1>4. P = Nat
  <2>1. P \in SUBSET Nat
    BY DEF P
  <2> QED  BY <1>2, <1>3, <2>1, SetInduction
<1> QED  BY <1>1, <1>4 DEF P

(* Without an element the loop leaves what it starts with.                 *)
THEOREM FoldEmpty ==
  ASSUME NEW base
  PROVE  Folded(base, <<>>) = base
<1>1. PICK h : Trace(base, <<>>, h, 0) /\ Folded(base, <<>>) = h[0]
  BY FoldTrace
<1> QED  BY <1>1 DEF Trace

(* One more element is one more step of the loop.                          *)
THEOREM FoldAppend ==
  ASSUME NEW base, NEW S, NEW seq \in Seq(S), NEW e \in S
  PROVE  Folded(base, Append(seq, e)) = op(Folded(base, seq), e)
<1> DEFINE n == Len(seq)
           longer == Append(seq, e)
<1>1. /\ n \in Nat /\ DOMAIN seq = 1 .. n /\ DOMAIN longer = 1 .. (n + 1)
      /\ longer[n + 1] = e /\ \A i \in 1 .. n : longer[i] = seq[i]
  OBVIOUS
<1> HIDE DEF n, longer
<1>2. PICK h : Trace(base, longer, h, n + 1) /\ Folded(base, longer) = h[n + 1]
  BY <1>1, FoldTrace
<1>3. Trace(base, seq, h, n)
  BY <1>1, <1>2 DEF Trace
<1>4. Folded(base, seq) = h[n]
  BY <1>1, <1>3, FoldOfTrace
<1>5. h[n + 1] = op(h[n], e)
  <2>1. n + 1 \in 1 .. (n + 1) /\ (n + 1) - 1 = n
    BY <1>1
  <2> QED  BY <1>1, <1>2, <2>1 DEF Trace
<1> QED  BY <1>2, <1>4, <1>5 DEF longer

(* What holds at the start and is kept by every step holds in the end.     *)
THEOREM FoldInvariant ==
  ASSUME NEW base, NEW seq, NEW n \in Nat, DOMAIN seq = 1 .. n,
         NEW A, base \in A, \A a \in A : \A i \in 1 .. n : op(a, seq[i]) \in A
  PROVE  Folded(base, seq) \in A
<1>1. PICK h : Trace(base, seq, h, n) /\ Folded(base, seq) = h[n]
  BY FoldTrace
<1> DEFINE P == {i \in Nat : i <= n => h[i] \in A}
<1>2. 0 \in P
  BY <1>1 DEF Trace
<1>3. ASSUME NEW i \in P PROVE i + 1 \in P
  <2> SUFFICES ASSUME i + 1 <= n PROVE h[i + 1] \in A
    OBVIOUS
  <2>1. i + 1 \in 1 .. n /\ (i + 1) - 1 = i /\ h[i] \in A
    OBVIOUS
  <2> QED  BY <1>1, <2>1 DEF Trace
<1> HIDE DEF P
<1>4. P = Nat
  <2>1. P \in SUBSET Nat
    BY DEF P
  <2> QED  BY <1>2, <1>3, <2>1, SetInduction
<1> QED  BY <1>1, <1>4 DEF P
(* A longer list is folded by folding its second part from where the first *)
(* part ended.                                                             *)
THEOREM FoldConcat ==
  ASSUME NEW base, NEW S, NEW s \in Seq(S), NEW t \in Seq(S)
  PROVE  Folded(base, s \o t) = Folded(Folded(base, s), t)
<1> DEFINE m == Len(s)
           n == Len(t)
           whole == s \o t
<1>1. /\ m \in Nat /\ n \in Nat /\ DOMAIN s = 1 .. m /\ DOMAIN t = 1 .. n /\ DOMAIN whole = 1 .. (m + n)
      /\ \A i \in 1 .. m : whole[i] = s[i]
      /\ \A i \in 1 .. n : whole[m + i] = t[i]
  OBVIOUS
<1> HIDE DEF m, n, whole
<1>2. PICK h : Trace(base, whole, h, m + n) /\ Folded(base, whole) = h[m + n]
  BY <1>1, FoldTrace
<1>3. Trace(base, s, h, m)
  BY <1>1, <1>2 DEF Trace
<1>4. Folded(base, s) = h[m]
  BY <1>1, <1>3, FoldOfTrace
<1> DEFINE g == [i \in 0 .. n |-> h[m + i]]
<1>5. g[0] = h[m]
  BY <1>1
<1>6. ASSUME NEW i \in 1 .. n PROVE g[i] = op(g[i - 1], t[i])
  <2>1. /\ m + i \in 1 .. (m + n) /\ (m + i) - 1 = m + (i - 1) /\ i - 1 \in 0 .. n /\ i \in 0 .. n
    BY <1>1
  <2>2. h[m + i] = op(h[m + (i - 1)], whole[m + i])
    BY <1>2, <2>1 DEF Trace
  <2>3. g[i] = h[m + i] /\ g[i - 1] = h[m + (i - 1)]
    BY <2>1
  <2> QED  BY <1>1, <2>2, <2>3
<1>7. g[n] = h[m + n]
  BY <1>1
<1> HIDE DEF g
<1>8. Trace(h[m], t, g, n)
  BY <1>5, <1>6 DEF Trace
<1>9. Folded(h[m], t) = g[n]
  BY <1>1, <1>8, FoldOfTrace
<1> QED  BY <1>2, <1>4, <1>7, <1>9 DEF whole

(* One element is one step.                                                *)
THEOREM FoldOne ==
  ASSUME NEW base, NEW e
  PROVE  Folded(base, <<e>>) = op(base, e)
<1>1. <<>> \in Seq({e}) /\ e \in {e} /\ Append(<<>>, e) = <<e>>
  OBVIOUS
<1>2. Folded(base, Append(<<>>, e)) = op(Folded(base, <<>>), e)
  BY <1>1, FoldAppend
<1> QED  BY <1>1, <1>2, FoldEmpty

(* The same for what depends on how far the loop has come: A[i] are the    *)
(* values it may have after i elements.                                    *)
THEOREM FoldHistory ==
  ASSUME NEW base, NEW seq, NEW n \in Nat, DOMAIN seq = 1 .. n,
         NEW A, base \in A[0], \A i \in 1 .. n : \A a \in A[i - 1] : op(a, seq[i]) \in A[i]
  PROVE  Folded(base, seq) \in A[n]
<1>1. PICK h : Trace(base, seq, h, n) /\ Folded(base, seq) = h[n]
  BY FoldTrace
<1> DEFINE P == {i \in Nat : i <= n => h[i] \in A[i]}
<1>2. 0 \in P
  BY <1>1 DEF Trace
<1>3. ASSUME NEW i \in P PROVE i + 1 \in P
  <2> SUFFICES ASSUME i + 1 <= n PROVE h[i + 1] \in A[i + 1]
    OBVIOUS
  <2>1. i + 1 \in 1 .. n /\ (i + 1) - 1 = i /\ h[i] \in A[i]
    OBVIOUS
  <2> QED  BY <1>1, <2>1 DEF Trace
<1> HIDE DEF P
<1>4. P = Nat
  <2>1. P \in SUBSET Nat
    BY DEF P
  <2> QED  BY <1>2, <1>3, <2>1, SetInduction
<1> QED  BY <1>1, <1>4 DEF P

(* A sequence that is not empty ends with an element.                      *)
LEMMA FrontLast ==
  ASSUME NEW T, NEW n \in Nat, NEW s \in Seq(T), Len(s) = n + 1
  PROVE  /\ SubSeq(s, 1, n) \in Seq(T) /\ Len(SubSeq(s, 1, n)) = n /\ s[n + 1] \in T
         /\ s = Append(SubSeq(s, 1, n), s[n + 1])
<1> DEFINE front == SubSeq(s, 1, n)
<1>1. front \in Seq(T) /\ Len(front) = n /\ s[n + 1] \in T /\ \A i \in 1 .. n : front[i] = s[i]
  OBVIOUS
<1> HIDE DEF front
<1>2. s = Append(front, s[n + 1])
  BY <1>1
<1> QED  BY <1>1, <1>2 DEF front

(* Induction over the sequences, for a set of them.                        *)
THEOREM SeqInduction ==
  ASSUME NEW T, NEW Q \in SUBSET Seq(T), <<>> \in Q, \A s \in Q : \A e \in T : Append(s, e) \in Q
  PROVE  Q = Seq(T)
<1>0. ASSUME NEW n \in Nat, \A f \in Seq(T) : Len(f) = n => f \in Q, NEW s \in Seq(T), Len(s) = n + 1
      PROVE  s \in Q
  <2> DEFINE front == SubSeq(s, 1, n)
  <2>1. front \in Seq(T) /\ Len(front) = n /\ s[n + 1] \in T /\ s = Append(front, s[n + 1])
    BY <1>0, FrontLast
  <2> HIDE DEF front
  <2>2. front \in Q
    BY <1>0, <2>1
  <2>3. Append(front, s[n + 1]) \in Q
    BY <2>1, <2>2
  <2> QED  BY <2>1, <2>3
<1> DEFINE P == {n \in Nat : \A s \in Seq(T) : Len(s) = n => s \in Q}
<1>1. 0 \in P
  <2>1. \A s \in Seq(T) : Len(s) = 0 => s = <<>>
    OBVIOUS
  <2> QED  BY <2>1
<1>2. ASSUME NEW n \in P PROVE n + 1 \in P
  <2>1. n \in Nat /\ \A s \in Seq(T) : Len(s) = n => s \in Q
    OBVIOUS
  <2>2. \A s \in Seq(T) : Len(s) = n + 1 => s \in Q
    BY <1>0, <2>1
  <2> QED  BY <2>1, <2>2
<1> HIDE DEF P
<1>3. P = Nat
  <2>1. P \in SUBSET Nat
    BY DEF P
  <2> QED  BY <1>1, <1>2, <2>1, SetInduction
<1>4. \A s \in Seq(T) : Len(s) \in Nat
  OBVIOUS
<1> QED  BY <1>3, <1>4 DEF P
=============================================================================
