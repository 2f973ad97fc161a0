---------------------------- MODULE AnswerProofs ----------------------------
(***************************************************************************)
(* Theorems about the answer of one chat request, for all data lines and   *)
(* lengths of answer: nothing of a streamed text is lost, and a client     *)
(* that puts a streamed answer together has what the folded path returns.  *)
(***************************************************************************)
EXTENDS ExecutorProofs

----------------------------------------------------------------------------
(* The text of a streamed answer: the loop of Feed keeps Balanced, a line  *)
(* through NormalizeFrames keeps Carried, and the request keeps Travels.   *)

\* The loop of Feed, as FoldTheorems speaks of it.
Feeding == INSTANCE FoldTheorems WITH op <- feedStep

\* The elements of a part of a list.
LEMMA PartOf ==
  ASSUME NEW T, NEW s \in Seq(T), NEW i \in Nat \ {0}, NEW n \in Nat, n <= Len(s), i <= n + 1
  PROVE  /\ SubSeq(s, i, n) \in Seq(T) /\ Len(SubSeq(s, i, n)) = n - i + 1
         /\ \A j \in 1 .. (n - i + 1) : SubSeq(s, i, n)[j] = s[i + j - 1]
<1> DEFINE b == SubSeq(s, i, n)
<1>1. b \in Seq(T) /\ Len(b) = n - i + 1
  OBVIOUS
<1>2. ASSUME NEW j \in 1 .. (n - i + 1) PROVE b[j] = s[i + j - 1]
  OBVIOUS
<1> QED  BY <1>1, <1>2

\* The elements of two lists behind each other.
LEMMA ConcatParts ==
  ASSUME NEW T, NEW o \in Seq(T), NEW c \in Seq(T)
  PROVE  /\ o \o c \in Seq(T) /\ Len(o \o c) = Len(o) + Len(c) /\ Len(o) \in Nat /\ Len(c) \in Nat
         /\ \A j \in 1 .. Len(o) : (o \o c)[j] = o[j]
         /\ \A j \in 1 .. Len(c) : (o \o c)[Len(o) + j] = c[j]
OBVIOUS

\* The elements behind two others.
LEMMA MarkerFirst ==
  ASSUME NEW T, NEW o \in Seq(T), NEW c \in Seq(T)
  PROVE  Len(o) = 2 =>
           /\ o \o c \in Seq(T) /\ Len(o \o c) = Len(c) + 2 /\ (o \o c)[1] = o[1] /\ (o \o c)[2] = o[2]
           /\ \A j \in 1 .. Len(c) : (o \o c)[2 + j] = c[j]
<1> DEFINE w == o \o c
           x == Len(o)
           y == Len(c)
<1>1. /\ w \in Seq(T) /\ Len(w) = x + y /\ x \in Nat /\ y \in Nat
      /\ \A j \in 1 .. x : w[j] = o[j]
      /\ \A j \in 1 .. y : w[x + j] = c[j]
  BY ConcatParts
<1> HIDE DEF w, x, y
<1>2. SUFFICES ASSUME x = 2
               PROVE  /\ w \in Seq(T) /\ Len(w) = y + 2 /\ w[1] = o[1] /\ w[2] = o[2]
                      /\ \A j \in 1 .. y : w[2 + j] = c[j]
  BY DEF w, x, y
<1>3. Len(w) = y + 2 /\ w[1] = o[1] /\ w[2] = o[2]
  BY <1>1, <1>2
<1>4. \A j \in 1 .. y : w[2 + j] = c[j]
  BY <1>1, <1>2
<1> QED  BY <1>1, <1>3, <1>4

\* A text is what stands before a place and what stands from there on.
LEMMA SplitAt ==
  ASSUME NEW T, NEW s \in Seq(T), NEW i \in 1 .. (Len(s) + 1)
  PROVE  /\ SubSeq(s, 1, i - 1) \in Seq(T) /\ SubSeq(s, i, Len(s)) \in Seq(T)
         /\ Len(SubSeq(s, 1, i - 1)) = i - 1 /\ Len(SubSeq(s, i, Len(s))) = Len(s) - i + 1
         /\ s = SubSeq(s, 1, i - 1) \o SubSeq(s, i, Len(s))
<1> DEFINE n == Len(s)
           a == SubSeq(s, 1, i - 1)
           b == SubSeq(s, i, n)
<1>1. n \in Nat /\ i \in Nat /\ i - 1 \in Nat /\ i - 1 <= n /\ n - i + 1 \in Nat
  OBVIOUS
<1>2. a \in Seq(T) /\ Len(a) = i - 1 /\ \A j \in 1 .. (i - 1) : a[j] = s[j]
  BY <1>1
<1>3. b \in Seq(T) /\ Len(b) = n - i + 1 /\ \A j \in 1 .. (n - i + 1) : b[j] = s[i + j - 1]
  BY <1>1
<1> HIDE DEF a, b
<1> DEFINE w == a \o b
<1>4. /\ w \in Seq(T) /\ Len(w) = n
      /\ \A j \in 1 .. (i - 1) : w[j] = a[j]
      /\ \A j \in 1 .. (n - i + 1) : w[(i - 1) + j] = b[j]
  BY SMTT(30), <1>1, <1>2, <1>3
<1> HIDE DEF w
<1>5. \A j \in 1 .. n : w[j] = s[j]
  <2> SUFFICES ASSUME NEW j \in 1 .. n PROVE w[j] = s[j]
    OBVIOUS
  <2>1. CASE j < i
    BY <1>1, <1>2, <1>4, <2>1
  <2>2. CASE j >= i
    <3> DEFINE k == j - (i - 1)
    <3>1. k \in 1 .. (n - i + 1) /\ (i - 1) + k = j /\ i + k - 1 = j
      BY <1>1, <2>2
    <3> HIDE DEF k
    <3>2. w[(i - 1) + k] = b[k] /\ b[k] = s[i + k - 1]
      BY <1>3, <1>4, <3>1
    <3> QED  BY <3>1, <3>2
  <2> QED  BY <1>1, <2>1, <2>2
<1>6. w = s
  BY <1>4, <1>5
<1> QED  BY Zenon, <1>2, <1>3, <1>6 DEF a, b, w

\* The markers.
LEMMA MarkersAre ==
  /\ markupOpen \in Seq(Pieces) /\ markupClose \in Seq(Pieces)
  /\ Len(markupOpen) = 2 /\ Len(markupClose) = 2
BY DEF markupOpen, markupClose, Pieces

\* A text that starts with a marker is the marker and the rest.
LEMMA AfterMarker ==
  ASSUME NEW T, NEW s \in Seq(T), NEW m \in Seq(T), Len(m) <= Len(s), SubSeq(s, 1, Len(m)) = m
  PROVE  /\ SubSeq(s, Len(m) + 1, Len(s)) \in Seq(T)
         /\ Len(SubSeq(s, Len(m) + 1, Len(s))) = Len(s) - Len(m)
         /\ s = m \o SubSeq(s, Len(m) + 1, Len(s))
<1> DEFINE i == Len(m) + 1
<1>1. i \in 1 .. (Len(s) + 1) /\ i - 1 = Len(m) /\ Len(s) - i + 1 = Len(s) - Len(m)
  OBVIOUS
<1> HIDE DEF i
<1>2. /\ SubSeq(s, i, Len(s)) \in Seq(T) /\ Len(SubSeq(s, i, Len(s))) = Len(s) - i + 1
      /\ s = SubSeq(s, 1, i - 1) \o SubSeq(s, i, Len(s))
  BY Zenon, <1>1, SplitAt
<1> QED  BY Zenon, <1>1, <1>2 DEF i

\* Where markupStartCandidate finds a whole marker, the text is what comes
\* before it, the marker, and the rest.
LEMMA OpenFound ==
  ASSUME NEW s \in Seq(Pieces), NEW i, i = markupStartCandidate(s)
  PROVE  \/ i = 0
         \/ /\ i \in 1 .. Len(s)
            /\ Len(s) - i + 1 >= 2 =>
                 SubSeq(s, i, Len(s)) = markupOpen \o SubSeq(SubSeq(s, i, Len(s)), Len(markupOpen) + 1, Len(SubSeq(s, i, Len(s))))
<1> SUFFICES ASSUME i # 0
             PROVE  /\ i \in 1 .. Len(s)
                    /\ Len(s) - i + 1 >= 2 =>
                         SubSeq(s, i, Len(s)) = markupOpen \o SubSeq(SubSeq(s, i, Len(s)), Len(markupOpen) + 1, Len(SubSeq(s, i, Len(s))))
  BY Zenon
<1> DEFINE at == {j \in DOMAIN s : LET rest == SubSeq(s, j, Len(s))
                                   IN IsPrefix(markupOpen, rest) \/ IsStrictPrefix(rest, markupOpen)}
           first == CHOOSE j \in at : \A k \in at : j <= k
<1>1. at # {} /\ i = first
  BY DEF markupStartCandidate
<1>2. at \in SUBSET Nat
  OBVIOUS
<1> HIDE DEF at
<1>3. \E j \in at : \A k \in at : j <= k
  BY <1>1, <1>2, Feeding!LeastElement
<1>4. i \in at
  BY <1>1, <1>3
<1> HIDE DEF first
<1> DEFINE rest == SubSeq(s, i, Len(s))
<1>5. i \in 1 .. Len(s) /\ (IsPrefix(markupOpen, rest) \/ IsStrictPrefix(rest, markupOpen))
  BY <1>4 DEF at
<1>6. rest \in Seq(Pieces) /\ Len(rest) = Len(s) - i + 1
  BY <1>5, SplitAt
<1> HIDE DEF rest
<1>7. ASSUME Len(rest) >= 2 PROVE rest = markupOpen \o SubSeq(rest, Len(markupOpen) + 1, Len(rest))
  <2>1. SubSeq(markupOpen, 1, Len(markupOpen)) = markupOpen
    BY MarkersAre
  <2>2. IsPrefix(markupOpen, rest)
    <3>1. CASE IsStrictPrefix(rest, markupOpen)
      <4>1. Len(rest) <= 2 /\ SubSeq(rest, 1, Len(rest)) = SubSeq(markupOpen, 1, Len(rest)) /\ rest # markupOpen
        BY <3>1, MarkersAre DEF IsStrictPrefix, IsPrefix
      <4>2. Len(rest) = Len(markupOpen)
        BY <1>6, <1>7, <4>1, MarkersAre
      <4>3. SubSeq(rest, 1, Len(rest)) = rest
        BY <1>6
      <4> QED  BY <2>1, <4>1, <4>2, <4>3
    <3> QED  BY <1>5, <3>1
  <2>3. Len(markupOpen) <= Len(rest) /\ SubSeq(rest, 1, Len(markupOpen)) = markupOpen
    BY <2>1, <2>2 DEF IsPrefix
  <2> QED  BY Zenon, <1>6, <2>3, MarkersAre, AfterMarker
<1> QED  BY Zenon, <1>5, <1>6, <1>7 DEF rest

\* Where Index finds the closing marker, the text is what comes before it,
\* the marker, and the rest.
LEMMA CloseFound ==
  ASSUME NEW s \in Seq(Pieces), NEW k, k = Index(s, markupClose)
  PROVE  \/ k = 0
         \/ /\ k \in Nat \ {0} /\ k + 1 <= Len(s)
            /\ SubSeq(s, 1, k - 1) \in Seq(Pieces)
            /\ SubSeq(s, k + Len(markupClose), Len(s)) \in Seq(Pieces)
            /\ Len(SubSeq(s, k + Len(markupClose), Len(s))) = Len(s) - k - 1
            /\ s = SubSeq(s, 1, k - 1) \o markupClose \o SubSeq(s, k + Len(markupClose), Len(s))
<1> DEFINE at == {i \in 1 .. (Len(s) - Len(markupClose) + 1) :
                    SubSeq(s, i, i + Len(markupClose) - 1) = markupClose}
           first == CHOOSE i \in at : \A j \in at : i <= j
<1>1. k = 0 \/ (at # {} /\ k = first)
  BY Zenon DEF Index
<1>2. at \in SUBSET Nat
  BY MarkersAre
<1>3. \A i \in at : /\ i \in Nat \ {0} /\ i + 1 <= Len(s)
                    /\ SubSeq(s, i, i + 1) = markupClose
  BY MarkersAre
<1> HIDE DEF at
<1>4. k = 0 \/ k \in at
  BY Zenon, <1>1, <1>2, Feeding!LeastElement
<1> HIDE DEF first
<1> SUFFICES ASSUME k \in at
             PROVE  /\ k \in Nat \ {0} /\ k + 1 <= Len(s)
                    /\ SubSeq(s, 1, k - 1) \in Seq(Pieces)
                    /\ SubSeq(s, k + Len(markupClose), Len(s)) \in Seq(Pieces)
                    /\ Len(SubSeq(s, k + Len(markupClose), Len(s))) = Len(s) - k - 1
                    /\ s = SubSeq(s, 1, k - 1) \o markupClose \o SubSeq(s, k + Len(markupClose), Len(s))
  BY Zenon, <1>4
<1>5. k \in Nat \ {0} /\ k + 1 <= Len(s) /\ SubSeq(s, k, k + 1) = markupClose /\ Len(s) \in Nat
  BY <1>3
<1> DEFINE a == SubSeq(s, 1, k - 1)
           b == SubSeq(s, k, Len(s))
           c == SubSeq(s, k + 2, Len(s))
<1>6. /\ a \in Seq(Pieces) /\ b \in Seq(Pieces) /\ Len(a) = k - 1 /\ Len(b) = Len(s) - k + 1 /\ s = a \o b
  <2>1. k \in 1 .. (Len(s) + 1)
    BY <1>5
  <2> QED  BY Zenon, <2>1, SplitAt
<1>7. c \in Seq(Pieces) /\ Len(c) = Len(s) - k - 1
  <2> DEFINE j == k + 2
  <2>1. j \in 1 .. (Len(s) + 1) /\ Len(s) - j + 1 = Len(s) - k - 1
    BY <1>5
  <2> HIDE DEF j
  <2>2. SubSeq(s, j, Len(s)) \in Seq(Pieces) /\ Len(SubSeq(s, j, Len(s))) = Len(s) - j + 1
    BY <2>1, SplitAt
  <2>3. SubSeq(s, j, Len(s)) \in Seq(Pieces) /\ Len(SubSeq(s, j, Len(s))) = Len(s) - k - 1
    BY <2>1, <2>2
  <2> QED  BY <2>3 DEF j
<1>8. b = markupClose \o c
  <2> DEFINE d == SubSeq(s, k, k + 1)
             w == markupClose \o c
  <2>1. d[1] = s[k] /\ d[2] = s[k + 1]
    <3>1. (k + 1) - k + 1 = 2 /\ k + 1 - 1 = k /\ k + 2 - 1 = k + 1 /\ k + 1 \in Nat /\ k <= (k + 1) + 1
      BY <1>5
    <3>2. \A j \in 1 .. ((k + 1) - k + 1) : d[j] = s[k + j - 1]
      <4> DEFINE n == k + 1
      <4>1. n \in Nat /\ n <= Len(s) /\ k <= n + 1 /\ k \in Nat \ {0}
        BY <1>5
      <4> HIDE DEF n
      <4>2. \A j \in 1 .. (n - k + 1) : SubSeq(s, k, n)[j] = s[k + j - 1]
        BY <4>1, PartOf
      <4> QED  BY Zenon, <4>2 DEF n
    <3>3. 1 \in 1 .. ((k + 1) - k + 1) /\ 2 \in 1 .. ((k + 1) - k + 1)
      BY <3>1
    <3> HIDE DEF d
    <3>4. d[1] = s[k + 1 - 1] /\ d[2] = s[k + 2 - 1]
      BY <3>2, <3>3
    <3> QED  BY <3>1, <3>4
  <2>2. markupClose[1] = s[k] /\ markupClose[2] = s[k + 1]
    BY Zenon, <1>5, <2>1
  <2>3. \A j \in 1 .. Len(b) : b[j] = s[k + j - 1]
    BY SMTT(30), <1>5
  <2>4. \A j \in 1 .. Len(c) : c[j] = s[(k + 2) + j - 1]
    <3> DEFINE i == k + 2
    <3>1. i \in Nat \ {0} /\ i <= Len(s) + 1 /\ Len(s) <= Len(s) /\ Len(c) = Len(s) - i + 1
      BY SMTT(30), <1>5, <1>7
    <3> HIDE DEF i
    <3>2. \A j \in 1 .. (Len(s) - i + 1) : SubSeq(s, i, Len(s))[j] = s[i + j - 1]
      BY <1>5, <3>1, PartOf
    <3> QED  BY <3>1, <3>2 DEF i
  <2> HIDE DEF b, c
  <2>5. /\ w \in Seq(Pieces) /\ Len(w) = Len(c) + 2 /\ w[1] = markupClose[1] /\ w[2] = markupClose[2]
        /\ \A j \in 1 .. Len(c) : w[2 + j] = c[j]
    <3>1. c \in Seq(Pieces) /\ Len(c) \in Nat
      BY <1>7
    <3> DEFINE o == markupClose
    <3>2. o \in Seq(Pieces) /\ Len(o) = 2
      BY MarkersAre
    <3> HIDE DEF o
    <3>3. /\ o \o c \in Seq(Pieces) /\ Len(o \o c) = Len(c) + 2 /\ (o \o c)[1] = o[1] /\ (o \o c)[2] = o[2]
          /\ \A j \in 1 .. Len(c) : (o \o c)[2 + j] = c[j]
      BY <3>1, <3>2, MarkerFirst
    <3> QED  BY <3>3 DEF o
  <2> HIDE DEF w
  <2>5a. Len(b) = Len(c) + 2 /\ Len(c) \in Nat /\ k \in Nat
    <3> DEFINE x == Len(b)
               y == Len(c)
               z == Len(s)
    <3>1. x = z - k + 1 /\ y = z - k - 1 /\ z \in Nat /\ k \in Nat /\ k + 1 <= z
      BY <1>5, <1>6, <1>7
    <3> HIDE DEF x, y, z
    <3>2. x = y + 2 /\ y \in Nat
      BY <3>1
    <3> QED  BY Zenon, <3>1, <3>2 DEF x, y
  <2>6. \A j \in 1 .. Len(b) : w[j] = b[j]
    <3> SUFFICES ASSUME NEW j \in 1 .. Len(b) PROVE w[j] = b[j]
      OBVIOUS
    <3>1. CASE j = 1
      <4>1. k + 1 - 1 = k
        BY <1>5
      <4> QED  BY <2>2, <2>3, <2>5, <3>1, <4>1
    <3>2. CASE j = 2
      <4>1. k + 2 - 1 = k + 1
        BY <1>5
      <4> QED  BY <2>2, <2>3, <2>5, <3>2, <4>1
    <3>3. CASE j > 2
      <4> DEFINE x == j - 2
      <4>1. x \in 1 .. Len(c) /\ 2 + x = j /\ (k + 2) + x - 1 = k + j - 1
        BY <2>5a, <3>3
      <4> HIDE DEF x
      <4>2. w[2 + x] = c[x] /\ c[x] = s[(k + 2) + x - 1]
        BY <2>4, <2>5, <4>1
      <4> QED  BY <2>3, <4>1, <4>2
    <3> QED  BY <1>5, <1>6, <3>1, <3>2, <3>3
  <2>7. Len(w) = Len(b)
    BY <2>5, <2>5a
  <2>8. w = b
    BY <1>6, <2>5, <2>6, <2>7
  <2> QED  BY <2>8 DEF w
<1> HIDE DEF a, b, c
<1>9. s = a \o markupClose \o c
  BY <1>6, <1>7, <1>8, MarkersAre
<1>10. k + Len(markupClose) = k + 2
  BY MarkersAre
<1> QED  BY Zenon, <1>5, <1>6, <1>7, <1>9, <1>10 DEF a, c

\* The pieces that a call can be made of.
Invokes == {"run", "other"}

\* Of the text u, t is still text and the calls k were made: the prose is
\* all in t, in its order, and every invoke is in t or among the calls.
Balanced(t, k, u) ==
  /\ t \in Seq(Pieces) /\ k \in Seq(Invokes) /\ u \in Seq(Pieces)
  /\ Only(t, Prose) = Only(u, Prose)
  /\ \A name \in Invokes : Count(u, name) = Count(t, name) + Count(k, name)

\* A filter that lets nothing pass.
LEMMA OnlyNone ==
  ASSUME NEW T, NEW s \in Seq(T), NEW S, ToSet(s) \intersect S = {}
  PROVE  Only(s, S) = <<>>
<1> DEFINE o == Only(s, S)
<1>1. o \in Seq(T) /\ ToSet(o) = {}
  BY OnlyType, OnlyMembers
<1> HIDE DEF o
<1>2. Len(o) = 0
  <2> SUFFICES ASSUME Len(o) # 0 PROVE FALSE
    OBVIOUS
  <2>1. 1 \in DOMAIN o
    BY <1>1
  <2> QED  BY <1>1, <2>1 DEF ToSet
<1>3. o = <<>>
  BY <1>1, <1>2
<1> QED  BY <1>3 DEF o

\* What the filter keeps of two texts.
LEMMA TextConcat ==
  ASSUME NEW s \in Seq(Pieces), NEW t \in Seq(Pieces), NEW S
  PROVE  Only(s \o t, S) = Only(s, S) \o Only(t, S)
<1> DEFINE T == Pieces
<1>1. s \in Seq(T) /\ t \in Seq(T)
  OBVIOUS
<1> HIDE DEF T
<1> QED  BY <1>1, OnlyConcat

\* Texts of which the filter keeps the same, behind each other.
LEMMA SameConcat ==
  ASSUME NEW S, NEW t \in Seq(Pieces), NEW u \in Seq(Pieces), Only(t, S) = Only(u, S),
         NEW s \in Seq(Pieces), NEW v \in Seq(Pieces), Only(s, S) = Only(v, S)
  PROVE  Only(t \o s, S) = Only(u \o v, S)
<1>1. Only(t \o s, S) = Only(t, S) \o Only(s, S)
  BY TextConcat
<1>2. Only(u \o v, S) = Only(u, S) \o Only(v, S)
  BY Zenon, TextConcat
<1> QED  BY <1>1, <1>2

\* Counting in two lists.
LEMMA CountConcat ==
  ASSUME NEW T, NEW s \in Seq(T), NEW t \in Seq(T), NEW name
  PROVE  /\ Count(s \o t, name) = Count(s, name) + Count(t, name)
         /\ Count(s, name) \in Nat /\ Count(t, name) \in Nat
<1> DEFINE a == Only(s, {name})
           b == Only(t, {name})
<1>1. Only(s \o t, {name}) = a \o b
  BY OnlyConcat
<1>2. a \in Seq(T) /\ b \in Seq(T)
  BY OnlyType
<1> HIDE DEF a, b
<1>3. Len(a \o b) = Len(a) + Len(b) /\ Len(a) \in Nat /\ Len(b) \in Nat
  BY <1>2
<1> QED  BY <1>1, <1>3 DEF Count, a, b

\* Nothing is in nothing.
LEMMA CountEmpty == ASSUME NEW name PROVE Count(<<>>, name) = 0
BY OnlyEmpty DEF Count

\* A text that is kept.
LEMMA BalancedSame ==
  ASSUME NEW t \in Seq(Pieces)
  PROVE  Balanced(t, <<>>, t)
<1>1. \A name \in Invokes : Count(t, name) \in Nat /\ Count(<<>>, name) = 0
  BY CountConcat, CountEmpty
<1>2. <<>> \in Seq(Invokes)
  OBVIOUS
<1> QED  BY <1>1, <1>2 DEF Balanced

\* The counts of two texts behind each other.
LEMMA CountsAdd ==
  ASSUME NEW T, NEW s \in Seq(T), NEW t \in Seq(T)
  PROVE  /\ s \o t \in Seq(T)
         /\ \A name \in Invokes : /\ Count(s \o t, name) = Count(s, name) + Count(t, name)
                                  /\ Count(s, name) \in Nat /\ Count(t, name) \in Nat
<1>1. s \o t \in Seq(T)
  OBVIOUS
<1> QED  BY <1>1, CountConcat

\* Two texts behind each other.
LEMMA BalancedConcat ==
  ASSUME NEW t, NEW k, NEW u, Balanced(t, k, u), NEW s, NEW l, NEW v, Balanced(s, l, v)
  PROVE  Balanced(t \o s, k \o l, u \o v)
<1>1. Only(t \o s, Prose) = Only(u \o v, Prose)
  <2>1. /\ t \in Seq(Pieces) /\ u \in Seq(Pieces) /\ s \in Seq(Pieces) /\ v \in Seq(Pieces)
        /\ Only(t, Prose) = Only(u, Prose) /\ Only(s, Prose) = Only(v, Prose)
    BY DEF Balanced
  <2> QED  BY <2>1, SameConcat
<1>2. /\ u \o v \in Seq(Pieces)
      /\ \A name \in Invokes : /\ Count(u \o v, name) = Count(u, name) + Count(v, name)
                               /\ Count(u, name) \in Nat /\ Count(v, name) \in Nat
  <2>1. u \in Seq(Pieces) /\ v \in Seq(Pieces)
    BY DEF Balanced
  <2> QED  BY <2>1, CountsAdd
<1>3. /\ t \o s \in Seq(Pieces)
      /\ \A name \in Invokes : /\ Count(t \o s, name) = Count(t, name) + Count(s, name)
                               /\ Count(t, name) \in Nat /\ Count(s, name) \in Nat
  <2>1. t \in Seq(Pieces) /\ s \in Seq(Pieces)
    BY DEF Balanced
  <2> QED  BY <2>1, CountsAdd
<1>4. /\ k \o l \in Seq(Invokes)
      /\ \A name \in Invokes : /\ Count(k \o l, name) = Count(k, name) + Count(l, name)
                               /\ Count(k, name) \in Nat /\ Count(l, name) \in Nat
  <2>1. k \in Seq(Invokes) /\ l \in Seq(Invokes)
    BY DEF Balanced
  <2> QED  BY <2>1, CountsAdd
<1>5. ASSUME NEW name \in Invokes
      PROVE  Count(u \o v, name) = Count(t \o s, name) + Count(k \o l, name)
  <2>1. Count(u, name) = Count(t, name) + Count(k, name) /\ Count(v, name) = Count(s, name) + Count(l, name)
    BY DEF Balanced
  <2> QED  BY <1>2, <1>3, <1>4, <2>1
<1> QED  BY <1>1, <1>2, <1>3, <1>4, <1>5 DEF Balanced

\* What is still text is worked on further.
LEMMA BalancedOn ==
  ASSUME NEW t, NEW k, NEW u, Balanced(t, k, u), NEW s, NEW l, Balanced(s, l, t)
  PROVE  Balanced(s, k \o l, u)
<1>1. Only(s, Prose) = Only(u, Prose) /\ s \in Seq(Pieces) /\ u \in Seq(Pieces)
  BY DEF Balanced
<1>2. /\ k \o l \in Seq(Invokes)
      /\ \A name \in Invokes : /\ Count(k \o l, name) = Count(k, name) + Count(l, name)
                               /\ Count(k, name) \in Nat /\ Count(l, name) \in Nat
  <2>1. k \in Seq(Invokes) /\ l \in Seq(Invokes)
    BY DEF Balanced
  <2> QED  BY <2>1, CountsAdd
<1>3. ASSUME NEW name \in Invokes
      PROVE  Count(u, name) = Count(s, name) + Count(k \o l, name)
  <2>1. Count(s, name) \in Nat
    BY <1>1, CountConcat
  <2>2. Count(u, name) = Count(t, name) + Count(k, name) /\ Count(t, name) = Count(s, name) + Count(l, name)
    BY DEF Balanced
  <2> QED  BY <1>2, <2>1, <2>2
<1> QED  BY <1>1, <1>2, <1>3 DEF Balanced

\* No marker is prose or an invoke.
LEMMA MarkersHold ==
  /\ \A S : S \in {Prose} \union {{name} : name \in Invokes} =>
       ToSet(markupOpen) \intersect S = {} /\ ToSet(markupClose) \intersect S = {}
  /\ Prose \intersect Invokes = {}
<1>1. ToSet(markupOpen \o markupClose) = ToSet(markupOpen) \union ToSet(markupClose)
  BY MarkersAre, SetOfConcat
<1>2. ToSet(markupOpen) = {"<", ">"} /\ ToSet(markupClose) = {"</", "/>"}
  <2>1. DOMAIN markupOpen = {1, 2} /\ DOMAIN markupClose = {1, 2}
    BY DEF markupOpen, markupClose
  <2> QED  BY <2>1 DEF ToSet, markupOpen, markupClose
<1> QED  BY <1>1, <1>2 DEF Prose, Invokes

\* What the filter keeps of a text between two others of which it keeps
\* nothing.
LEMMA OnlyBetween ==
  ASSUME NEW a \in Seq(Pieces), NEW b \in Seq(Pieces), NEW c \in Seq(Pieces), NEW S,
         Only(a, S) = <<>>, Only(c, S) = <<>>
  PROVE  Only(a \o b \o c, S) = Only(b, S)
<1>1. Only((a \o b) \o c, S) = Only(a \o b, S) \o Only(c, S)
  <2>1. a \o b \in Seq(Pieces)
    OBVIOUS
  <2> QED  BY Zenon, <2>1, TextConcat
<1>2. Only(a \o b, S) = Only(a, S) \o Only(b, S)
  BY Zenon, TextConcat
<1>3. Only(b, S) \in Seq(Pieces)
  BY OnlyType
<1> QED  BY <1>1, <1>2, <1>3

\* A block that is converted.
LEMMA BalancedBlock ==
  ASSUME NEW inner, inner \in Seq(Invokes)
  PROVE  Balanced(<<>>, inner, markupOpen \o inner \o markupClose)
<1>1. inner \in Seq(Pieces) /\ ToSet(inner) \subseteq Invokes
  BY DEF Invokes, Pieces, ToSet
<1> DEFINE a == markupOpen
           z == markupClose
           w == a \o inner \o z
<1>2. a \in Seq(Pieces) /\ z \in Seq(Pieces) /\ w \in Seq(Pieces)
  BY <1>1, MarkersAre
<1>3. \A S : S \in {Prose} \union {{name} : name \in Invokes} => Only(a, S) = <<>> /\ Only(z, S) = <<>>
  BY <1>2, MarkersHold, OnlyNone
<1> HIDE DEF a, z
<1>4. ASSUME NEW S \in {Prose} \union {{name} : name \in Invokes}
      PROVE  Only(w, S) = Only(inner, S)
  <2>1. Only(a, S) = <<>> /\ Only(z, S) = <<>>
    BY <1>3
  <2> QED  BY <1>1, <1>2, <2>1, OnlyBetween
<1> HIDE DEF w
<1>5. Only(inner, Prose) = <<>>
  BY <1>1, MarkersHold, OnlyNone
<1>6. \A name \in Invokes : Count(w, name) = Count(inner, name)
  BY <1>4 DEF Count
<1>7. \A name \in Invokes : Count(<<>>, name) = 0 /\ Count(inner, name) \in Nat
  BY <1>1, CountEmpty, CountConcat
<1>8. Only(<<>>, Prose) = Only(w, Prose)
  BY <1>4, <1>5, OnlyEmpty
<1>9. <<>> \in Seq(Pieces)
  OBVIOUS
<1>10. Balanced(<<>>, inner, w)
  BY <1>2, <1>6, <1>7, <1>8, <1>9 DEF Balanced
<1> QED  BY <1>10 DEF w, a, z

\* The states of the loop of Feed.
FeedStates ==
  [s : Seq(Pieces), inBlock : BOOLEAN, hold : Seq(Pieces), emit : Seq(Pieces),
   calls : Seq(Invokes), stop : BOOLEAN]

\* All text the loop knows of, but for the blocks it has converted: what is
\* emitted, the marker of an open block, what is held and what is to come.
Joined(emit, inBlock, hold, s) == emit \o (IF inBlock THEN markupOpen ELSE <<>>) \o hold \o s

\* All the text a state of the loop of Feed still has.
Pending(st) == Joined(st.emit, st.inBlock, st.hold, st.s)

\* The loop has held text only when it stops, and stops with all text read.
FeedShape(st) ==
  /\ st \in FeedStates
  /\ ~st.stop => st.hold = <<>>
  /\ st.stop => st.s = <<>>

\* The parts of the text put together.
LEMMA JoinedParts ==
  ASSUME NEW e \in Seq(Pieces), NEW t \in Seq(Pieces)
  PROVE  /\ Joined(e, FALSE, <<>>, t) = e \o t /\ Joined(e, FALSE, t, <<>>) = e \o t
         /\ Joined(e, TRUE, <<>>, t) = e \o markupOpen \o t /\ Joined(e, TRUE, t, <<>>) = e \o markupOpen \o t
         /\ Joined(e, FALSE, <<>>, <<>>) = e
<1> DEFINE o == markupOpen
<1>1. o \in Seq(Pieces)
  BY MarkersAre
<1> HIDE DEF o
<1>2. /\ e \o <<>> = e /\ e \o o \in Seq(Pieces) /\ e \o t \in Seq(Pieces)
  BY <1>1
<1>3. \A w \in Seq(Pieces) : w \o <<>> = w
  OBVIOUS
<1>4. (e \o o) \o t \in Seq(Pieces)
  BY <1>1
<1>5. /\ e \o <<>> \o <<>> \o t = e \o t /\ e \o <<>> \o t \o <<>> = e \o t /\ e \o <<>> \o <<>> \o <<>> = e
  BY <1>2, <1>3
<1>6. /\ e \o o \o <<>> \o t = e \o o \o t /\ e \o o \o t \o <<>> = e \o o \o t
  BY <1>2, <1>3, <1>4
<1> QED  BY <1>5, <1>6 DEF Joined, o

\* Putting three texts together in either order.
LEMMA Associates ==
  ASSUME NEW a \in Seq(Pieces), NEW b \in Seq(Pieces), NEW c \in Seq(Pieces)
  PROVE  (a \o b) \o c = a \o (b \o c) /\ a \o b \in Seq(Pieces) /\ b \o c \in Seq(Pieces)
OBVIOUS

\* A turn outside a block: the text stays as it is.
LEMMA OutsideKeeps ==
  ASSUME NEW st, FeedShape(st), ~st.stop, ~st.inBlock, NEW ts, ts = feedOutside(st)
  PROVE  /\ FeedShape(ts) /\ ts.calls = st.calls /\ Pending(ts) = Pending(st)
         /\ ~ts.stop => Len(ts.s) < Len(st.s)
<1> DEFINE e == st.emit
           s == st.s
           i == markupStartCandidate(s)
           a == SubSeq(s, 1, i - 1)
           f == SubSeq(s, i, Len(s))
           r == SubSeq(f, Len(markupOpen) + 1, Len(f))
<1>1. /\ e \in Seq(Pieces) /\ s \in Seq(Pieces) /\ st.calls \in Seq(Invokes) /\ st \in FeedStates
      /\ st.hold = <<>> /\ st.inBlock = FALSE /\ st.stop = FALSE
  BY DEF FeedShape, FeedStates
<1>1a. e \in Seq(Pieces) /\ s \in Seq(Pieces)
  BY <1>1
<1>2. \/ i = 0 /\ ts = [st EXCEPT !.emit = e \o s, !.s = <<>>, !.stop = TRUE]
      \/ i # 0 /\ Len(f) < Len(markupOpen) /\ ts = [st EXCEPT !.emit = e \o a, !.hold = f, !.s = <<>>, !.stop = TRUE]
      \/ i # 0 /\ ~(Len(f) < Len(markupOpen)) /\ ts = [st EXCEPT !.emit = e \o a, !.inBlock = TRUE, !.s = r]
  BY Zenon DEF feedOutside
<1>3. Pending(st) = e \o s
  BY ZenonT(60), <1>1, JoinedParts DEF Pending
<1>4. i = 0 \/ (i \in 1 .. Len(s) /\ (Len(s) - i + 1 >= 2 => f = markupOpen \o r))
  BY Zenon, <1>1, OpenFound
<1> HIDE DEF i
<1>5. i # 0 => /\ a \in Seq(Pieces) /\ f \in Seq(Pieces) /\ Len(f) = Len(s) - i + 1 /\ s = a \o f
  <2>1. i # 0 => i \in 1 .. (Len(s) + 1)
    BY <1>1, <1>4
  <2> QED  BY ZenonT(60), <1>1, <2>1, SplitAt
<1>6. i # 0 /\ ~(Len(f) < Len(markupOpen)) => f = markupOpen \o r /\ r \in Seq(Pieces) /\ Len(r) < Len(s)
  <2> SUFFICES ASSUME i # 0, ~(Len(f) < Len(markupOpen))
               PROVE  f = markupOpen \o r /\ r \in Seq(Pieces) /\ Len(r) < Len(s)
    BY Zenon
  <2>1. i \in 1 .. Len(s) /\ Len(s) \in Nat /\ Len(f) = Len(s) - i + 1 /\ Len(markupOpen) = 2
    BY <1>1, <1>4, <1>5, MarkersAre
  <2> DEFINE x == Len(f)
             j == Len(markupOpen) + 1
  <2>2. x >= 2 /\ x \in Nat /\ x <= Len(s) /\ j = 3
    BY <2>1
  <2> HIDE DEF f
  <2>3. f = markupOpen \o r
    BY <1>4, <2>1, <2>2
  <2>4. SubSeq(f, j, Len(f)) \in Seq(Pieces) /\ Len(SubSeq(f, j, Len(f))) = x - 2
    <3>1. f \in Seq(Pieces) /\ j \in 1 .. (Len(f) + 1) /\ Len(f) - j + 1 = x - 2
      BY <1>5, <2>2
    <3> HIDE DEF j
    <3> QED  BY Zenon, <3>1, SplitAt
  <2>5. x - 2 < Len(s)
    BY <2>1, <2>2
  <2> QED  BY Zenon, <2>3, <2>4, <2>5
<1> HIDE DEF e, s, a, f, r
<1>7. CASE i = 0
  <2>1. e \o s \in Seq(Pieces) /\ <<>> \in Seq(Pieces)
    BY <1>1
  <2>2. /\ ts.emit = e \o s /\ ts.s = <<>> /\ ts.stop = TRUE /\ ts.hold = <<>> /\ ts.inBlock = FALSE
        /\ ts.calls = st.calls /\ ts \in FeedStates
    <3> DEFINE w == e \o s
    <3> HIDE DEF w
    <3>1. ts = [st EXCEPT !.emit = w, !.s = <<>>, !.stop = TRUE] /\ w \in Seq(Pieces)
      BY <1>2, <1>7, <2>1 DEF w
    <3>2. ts.emit = w /\ ts.s = <<>> /\ ts.stop = TRUE /\ ts.hold = <<>> /\ ts.inBlock = FALSE /\ ts.calls = st.calls /\ ts \in FeedStates
      BY Zenon, <1>1, <3>1 DEF FeedStates
    <3> QED  BY <3>2 DEF w
  <2>3. Pending(ts) = e \o s
    BY Zenon, <2>1, <2>2, JoinedParts DEF Pending
  <2> QED  BY <1>3, <2>2, <2>3 DEF FeedShape
<1>8. CASE i # 0 /\ Len(f) < Len(markupOpen)
  <2>1. e \o a \in Seq(Pieces) /\ f \in Seq(Pieces)
    BY <1>1, <1>5, <1>8
  <2>2. /\ ts.emit = e \o a /\ ts.s = <<>> /\ ts.stop = TRUE /\ ts.hold = f /\ ts.inBlock = FALSE
        /\ ts.calls = st.calls /\ ts \in FeedStates
    <3> DEFINE w == e \o a
    <3> HIDE DEF w
    <3>1. ts = [st EXCEPT !.emit = w, !.hold = f, !.s = <<>>, !.stop = TRUE] /\ w \in Seq(Pieces)
      BY <1>2, <1>8, <2>1 DEF w
    <3>2. ts.emit = w /\ ts.s = <<>> /\ ts.stop = TRUE /\ ts.hold = f /\ ts.inBlock = FALSE /\ ts.calls = st.calls /\ ts \in FeedStates
      BY Zenon, <1>1, <2>1, <3>1 DEF FeedStates
    <3> QED  BY <3>2 DEF w
  <2>3. Pending(ts) = (e \o a) \o f
    BY ZenonT(60), <2>1, <2>2, JoinedParts DEF Pending
  <2>4. (e \o a) \o f = e \o s
    <3>1. a \in Seq(Pieces) /\ f \in Seq(Pieces) /\ s = a \o f
      BY <1>5, <1>8
    <3>2. (e \o a) \o f = e \o (a \o f)
      BY <1>1a, <3>1, Associates
    <3> QED  BY <3>1, <3>2
  <2> QED  BY <1>3, <2>2, <2>3, <2>4 DEF FeedShape
<1>9. CASE i # 0 /\ ~(Len(f) < Len(markupOpen))
  <2>1. e \o a \in Seq(Pieces) /\ r \in Seq(Pieces)
    BY <1>1, <1>5, <1>6, <1>9
  <2>2. /\ ts.emit = e \o a /\ ts.s = r /\ ts.stop = FALSE /\ ts.hold = <<>> /\ ts.inBlock = TRUE
        /\ ts.calls = st.calls /\ ts \in FeedStates
    <3> DEFINE w == e \o a
    <3> HIDE DEF w
    <3>1. ts = [st EXCEPT !.emit = w, !.inBlock = TRUE, !.s = r] /\ w \in Seq(Pieces)
      BY <1>2, <1>9, <2>1 DEF w
    <3>2. ts.emit = w /\ ts.s = r /\ ts.stop = FALSE /\ ts.hold = <<>> /\ ts.inBlock = TRUE /\ ts.calls = st.calls /\ ts \in FeedStates
      BY Zenon, <1>1, <2>1, <3>1 DEF FeedStates
    <3> QED  BY <3>2 DEF w
  <2>3. Pending(ts) = (e \o a) \o markupOpen \o r
    <3> DEFINE g == e \o a
    <3>1. Pending(ts) = Joined(g, TRUE, <<>>, r)
      BY Zenon, <2>2 DEF Pending
    <3>2. g \in Seq(Pieces) /\ r \in Seq(Pieces)
      BY <2>1
    <3> HIDE DEF g
    <3>3. Joined(g, TRUE, <<>>, r) = g \o markupOpen \o r
      BY Zenon, <3>2, JoinedParts
    <3> QED  BY Zenon, <3>1, <3>3 DEF g
  <2>4. (e \o a) \o markupOpen \o r = e \o s
    <3> DEFINE o == markupOpen
               g == e \o a
    <3>1. f = o \o r /\ s = a \o f
      BY Zenon, <1>5, <1>6, <1>9
    <3>1a. o \in Seq(Pieces) /\ a \in Seq(Pieces) /\ f \in Seq(Pieces)
      BY <1>5, <1>9, MarkersAre
    <3>1b. g \in Seq(Pieces)
      BY <2>1
    <3>3. g \o f = e \o (a \o f)
      BY SMTT(30), <1>1a, <3>1a, Associates
    <3> HIDE DEF o, g
    <3>2. (g \o o) \o r = g \o (o \o r)
      BY SMTT(30), <2>1, <3>1a, <3>1b, Associates
    <3>4. (g \o o) \o r = e \o s
      BY <3>1, <3>2, <3>3
    <3> QED  BY <3>4 DEF o, g
  <2> QED  BY <1>3, <1>6, <1>9, <2>2, <2>3, <2>4 DEF FeedShape, s
<1> QED  BY <1>7, <1>8, <1>9

\* A text.
IsText(t) == t \in Seq(Pieces)

\* Putting texts together in either order.
LEMMA TextsJoin ==
  ASSUME NEW a, NEW b, NEW c, IsText(a), IsText(b), IsText(c)
  PROVE  (a \o b) \o c = a \o (b \o c) /\ IsText(a \o b)
<1>1. a \in Seq(Pieces) /\ b \in Seq(Pieces) /\ c \in Seq(Pieces)
  BY DEF IsText
<1> QED  BY <1>1, Associates DEF IsText

\* Five texts, put together from the left and with the last four in one.
LEMMA FiveParts ==
  ASSUME NEW e, NEW o, NEW b, NEW z, NEW r, IsText(e), IsText(o), IsText(b), IsText(z), IsText(r)
  PROVE  /\ (e \o o \o b \o z) \o r = e \o o \o (b \o z \o r)
         /\ (e \o (o \o b \o z)) \o r = e \o o \o (b \o z \o r)
         /\ IsText(e \o o \o b \o z)
<1> DEFINE eo == e \o o
           bz == b \o z
           ob == o \o b
<1>1. IsText(eo) /\ IsText(bz) /\ IsText(ob)
  BY TextsJoin
<1>2. IsText(eo \o b)
  BY <1>1, TextsJoin
<1>3. ob \o z = o \o bz
  BY TextsJoin
<1>4. eo \o bz = e \o (o \o bz)
  BY SMTT(30), <1>1, TextsJoin
<1>5. (eo \o b) \o z = eo \o bz
  BY <1>1, TextsJoin
<1>6. (eo \o bz) \o r = eo \o (bz \o r)
  <2> HIDE DEF eo, bz
  <2> QED  BY <1>1, TextsJoin
<1>7. IsText((eo \o b) \o z)
  BY <1>2, TextsJoin
<1>8. (e \o (ob \o z)) \o r = eo \o (bz \o r)
  BY <1>3, <1>4, <1>6
<1>9. ((eo \o b) \o z) \o r = eo \o (bz \o r)
  BY <1>5, <1>6
<1> QED  BY <1>7, <1>8, <1>9

\* A block that is accepted holds invokes.
LEMMA ParsedInner ==
  ASSUME NEW inner, inner \in Seq(Pieces), parseMarkupBlock(inner)
  PROVE  inner \in Seq(Invokes)
<1>1. ToSet(inner) \subseteq Invokes
  BY Zenon, MarkupAssumption DEF parseMarkupBlock, Invokes
<1>2. \A i \in 1 .. Len(inner) : inner[i] \in Invokes
  BY <1>1 DEF ToSet
<1> QED  BY <1>2

\* A turn inside a block: the text stays as it is, or the block becomes
\* calls.
LEMMA InBlockKeeps ==
  ASSUME NEW st, FeedShape(st), ~st.stop, st.inBlock, NEW ts, ts = feedInBlock(st)
  PROVE  /\ FeedShape(ts)
         /\ ~ts.stop => Len(ts.s) < Len(st.s)
         /\ \E l \in Seq(Invokes) : ts.calls = st.calls \o l /\ Balanced(Pending(ts), l, Pending(st))
<1> DEFINE e == st.emit
           s == st.s
           c == st.calls
           k == Index(s, markupClose)
           o == markupOpen
           z == markupClose
           b == SubSeq(s, 1, k - 1)
           r == SubSeq(s, k + Len(z), Len(s))
           left == [st EXCEPT !.s = r, !.inBlock = FALSE]
<1>1. /\ e \in Seq(Pieces) /\ s \in Seq(Pieces) /\ c \in Seq(Invokes) /\ st \in FeedStates
      /\ st.hold = <<>> /\ st.inBlock = TRUE /\ st.stop = FALSE
  BY DEF FeedShape, FeedStates
<1>1a. e \in Seq(Pieces) /\ s \in Seq(Pieces)
  BY <1>1
<1>1b. o \in Seq(Pieces) /\ z \in Seq(Pieces)
  BY MarkersAre
<1>2. \/ /\ k = 0 /\ Len(s) > MaxBlock
         /\ ts = [st EXCEPT !.emit = e \o o \o s, !.inBlock = FALSE, !.s = <<>>, !.stop = TRUE]
      \/ /\ k = 0 /\ Len(s) <= MaxBlock
         /\ ts = [st EXCEPT !.hold = s, !.s = <<>>, !.stop = TRUE]
      \/ /\ k # 0 /\ parseMarkupBlock(b) /\ ts = [left EXCEPT !.calls = @ \o b]
      \/ /\ k # 0 /\ ~parseMarkupBlock(b) /\ ts = [left EXCEPT !.emit = @ \o o \o b \o z]
  <2>1. Len(s) > MaxBlock \/ Len(s) <= MaxBlock
    BY <1>1a, MarkupAssumption
  <2> QED  BY <2>1 DEF feedInBlock
<1>3. Pending(st) = e \o o \o s
  <2>1. Pending(st) = Joined(e, TRUE, <<>>, s)
    BY <1>1 DEF Pending
  <2> QED  BY Zenon, <1>1a, <2>1, JoinedParts
<1>4. k = 0 \/ (b \in Seq(Pieces) /\ r \in Seq(Pieces) /\ Len(r) < Len(s) /\ s = b \o z \o r)
  <2>1. k = 0 \/ /\ k \in Nat \ {0} /\ k + 1 <= Len(s) /\ b \in Seq(Pieces) /\ r \in Seq(Pieces)
                 /\ Len(r) = Len(s) - k - 1 /\ s = b \o z \o r
    BY Zenon, <1>1a, CloseFound
  <2> HIDE DEF k, b, r, s
  <2>2. Len(s) \in Nat
    BY <1>1a
  <2> QED  BY <2>1, <2>2
<1>5. /\ e \o o \in Seq(Pieces) /\ e \o o \o s \in Seq(Pieces)
  <2> HIDE DEF o, e, s
  <2> QED  BY <1>1a, <1>1b
<1>6. c \o <<>> = c /\ <<>> \in Seq(Invokes)
  BY <1>1
<1> DEFINE p == Pending(st)
<1>7. Balanced(p, <<>>, p)
  BY Zenon, <1>3, <1>5, BalancedSame
<1> HIDE DEF e, s, k, o, z, b, r, c, p
<1>8. CASE k = 0 /\ Len(s) > MaxBlock
  <2> DEFINE w == e \o o \o s
  <2>0. w \in Seq(Pieces)
    BY <1>5
  <2> HIDE DEF w
  <2>1. ts = [st EXCEPT !.emit = w, !.inBlock = FALSE, !.s = <<>>, !.stop = TRUE]
    <3>1. ~(Len(s) <= MaxBlock)
      BY <1>1a, <1>8, MarkupAssumption
    <3> QED  BY <1>2, <1>8, <3>1 DEF w
  <2>2. /\ ts.emit = w /\ ts.s = <<>> /\ ts.stop = TRUE /\ ts.hold = <<>> /\ ts.inBlock = FALSE
        /\ ts.calls = c /\ ts \in FeedStates
    BY Zenon, <1>1, <2>0, <2>1 DEF FeedStates, c
  <2>3. Pending(ts) = w
    <3>1. Pending(ts) = Joined(w, FALSE, <<>>, <<>>)
      BY Zenon, <2>2 DEF Pending
    <3> QED  BY Zenon, <2>0, <3>1, JoinedParts
  <2>4. Pending(ts) = p
    BY <1>3, <2>3 DEF w, p
  <2>5. FeedShape(ts)
    BY <2>2 DEF FeedShape
  <2> QED  BY Zenon, <1>6, <1>7, <2>2, <2>4, <2>5 DEF c, p
<1>9. CASE k = 0 /\ Len(s) <= MaxBlock
  <2>1. ts = [st EXCEPT !.hold = s, !.s = <<>>, !.stop = TRUE]
    BY <1>2, <1>9, MarkupAssumption, <1>1a
  <2>2. /\ ts.emit = e /\ ts.s = <<>> /\ ts.stop = TRUE /\ ts.hold = s /\ ts.inBlock = TRUE
        /\ ts.calls = c /\ ts \in FeedStates
    BY Zenon, <1>1, <2>1 DEF FeedStates, c, e
  <2>3. Pending(ts) = p
    <3>1. Pending(ts) = Joined(e, TRUE, s, <<>>)
      BY Zenon, <2>2 DEF Pending
    <3>2. Joined(e, TRUE, s, <<>>) = e \o o \o s
      BY Zenon, <1>1a, JoinedParts DEF o
    <3> QED  BY Zenon, <1>3, <3>1, <3>2 DEF p
  <2>4. FeedShape(ts)
    BY <2>2 DEF FeedShape
  <2> QED  BY Zenon, <1>6, <1>7, <2>2, <2>3, <2>4 DEF c, p
<1>10. CASE k # 0 /\ parseMarkupBlock(b)
  <2>0. b \in Seq(Pieces) /\ r \in Seq(Pieces) /\ Len(r) < Len(s) /\ s = b \o z \o r
    BY <1>4, <1>10
  <2>1. b \in Seq(Invokes)
    BY <1>10, <2>0, ParsedInner
  <2> DEFINE w == c \o b
  <2>2. w \in Seq(Invokes)
    BY <1>1, <2>1
  <2>3. /\ ts.emit = e /\ ts.s = r /\ ts.stop = FALSE /\ ts.hold = <<>> /\ ts.inBlock = FALSE
        /\ ts.calls = w /\ ts \in FeedStates
    <3>1. ts = [left EXCEPT !.calls = left.calls \o b]
      BY <1>2, <1>10
    <3>2. left.calls = c /\ left \in FeedStates /\ left.emit = e /\ left.s = r /\ left.stop = FALSE /\ left.hold = <<>> /\ left.inBlock = FALSE
      BY Zenon, <1>1, <2>0 DEF FeedStates, c, e
    <3>3. ts = [left EXCEPT !.calls = w]
      BY Zenon, <3>1, <3>2
    <3> HIDE DEF left, w
    <3> QED  BY Zenon, <2>2, <3>2, <3>3 DEF FeedStates
  <2>4. Pending(ts) = e \o r
    <3>1. Pending(ts) = Joined(e, FALSE, <<>>, r)
      BY Zenon, <2>3 DEF Pending
    <3> QED  BY Zenon, <1>1a, <2>0, <3>1, JoinedParts
  <2>5. Balanced(e \o r, b, p)
    <3>1. Balanced(<<>>, b, o \o b \o z)
      BY <2>1, BalancedBlock DEF o, z
    <3>2. Balanced(e, <<>>, e) /\ Balanced(r, <<>>, r)
      BY <1>1a, <2>0, BalancedSame
    <3>3. Balanced(e \o <<>>, <<>> \o b, e \o (o \o b \o z))
      BY Zenon, <3>1, <3>2, BalancedConcat
    <3>4. Balanced((e \o <<>>) \o r, (<<>> \o b) \o <<>>, (e \o (o \o b \o z)) \o r)
      BY Zenon, <3>2, <3>3, BalancedConcat
    <3>5. e \o <<>> = e
      BY <1>1a
    <3>6. (<<>> \o b) \o <<>> = b
      BY <2>1
    <3>7. (e \o (o \o b \o z)) \o r = e \o o \o (b \o z \o r)
      <4>1. IsText(e) /\ IsText(o) /\ IsText(b) /\ IsText(z) /\ IsText(r)
        BY <1>1a, <1>1b, <2>0 DEF IsText
      <4> QED  BY SMTT(30), <4>1, FiveParts
    <3>8. (e \o (o \o b \o z)) \o r = p
      BY <1>3, <2>0, <3>7 DEF p
    <3> QED  BY <3>4, <3>5, <3>6, <3>8
  <2>6. FeedShape(ts) /\ Len(ts.s) < Len(st.s)
    BY <2>0, <2>3 DEF FeedShape, s
  <2> QED  BY Zenon, <2>1, <2>3, <2>4, <2>5, <2>6 DEF c, p
<1>11. CASE k # 0 /\ ~parseMarkupBlock(b)
  <2>0. b \in Seq(Pieces) /\ r \in Seq(Pieces) /\ Len(r) < Len(s) /\ s = b \o z \o r
    BY <1>4, <1>11
  <2>0a. b \in Seq(Pieces) /\ r \in Seq(Pieces)
    BY <2>0
  <2> DEFINE w == e \o o \o b \o z
  <2>2. w \in Seq(Pieces) /\ w \o r = e \o o \o (b \o z \o r)
    <3>1. IsText(e) /\ IsText(o) /\ IsText(b) /\ IsText(z) /\ IsText(r)
      BY <1>1a, <1>1b, <2>0a DEF IsText
    <3>2. IsText(w) /\ w \o r = e \o o \o (b \o z \o r)
      BY <3>1, FiveParts
    <3> QED  BY <3>2 DEF IsText
  <2>3. /\ ts.emit = w /\ ts.s = r /\ ts.stop = FALSE /\ ts.hold = <<>> /\ ts.inBlock = FALSE
        /\ ts.calls = c /\ ts \in FeedStates
    <3>1. ts = [left EXCEPT !.emit = left.emit \o o \o b \o z]
      BY <1>2, <1>11
    <3>2. left.calls = c /\ left \in FeedStates /\ left.emit = e /\ left.s = r /\ left.stop = FALSE /\ left.hold = <<>> /\ left.inBlock = FALSE
      BY Zenon, <1>1, <2>0a DEF FeedStates, c, e
    <3>3. ts = [left EXCEPT !.emit = w]
      BY Zenon, <3>1, <3>2
    <3>4. w \in Seq(Pieces)
      BY <2>2
    <3> HIDE DEF left, w
    <3> QED  BY Zenon, <3>4, <3>2, <3>3 DEF FeedStates
  <2>4. Pending(ts) = w \o r
    <3>0. w \in Seq(Pieces)
      BY <2>2
    <3> HIDE DEF w
    <3>1. Pending(ts) = Joined(w, FALSE, <<>>, r)
      BY Zenon, <2>3 DEF Pending
    <3> QED  BY Zenon, <2>0a, <3>0, <3>1, JoinedParts
  <2>5. Pending(ts) = p
    BY <1>3, <2>0, <2>2, <2>4 DEF p
  <2>6. FeedShape(ts) /\ Len(ts.s) < Len(st.s)
    BY <2>0, <2>3 DEF FeedShape, s
  <2> QED  BY Zenon, <1>6, <1>7, <2>3, <2>5, <2>6 DEF c, p
<1> QED  BY Zenon, <1>2, <1>8, <1>9, <1>10, <1>11

\* One turn of Feed: it stops, or the text to come gets shorter, and nothing
\* is lost.
LEMMA FeedTurn ==
  ASSUME NEW st, FeedShape(st), ~st.stop, NEW turn, NEW u, Balanced(Pending(st), st.calls, u),
         NEW ts, ts = feedStep(st, turn)
  PROVE  /\ FeedShape(ts) /\ (ts.stop \/ Len(ts.s) < Len(st.s))
         /\ Balanced(Pending(ts), ts.calls, u)
<1>1. CASE st.inBlock
  <2>1. ts = feedInBlock(st)
    BY <1>1 DEF feedStep
  <2>2. PICK l \in Seq(Invokes) : ts.calls = st.calls \o l /\ Balanced(Pending(ts), l, Pending(st))
    BY Zenon, <1>1, <2>1, InBlockKeeps
  <2>3. Balanced(Pending(ts), st.calls \o l, u)
    BY <2>2, BalancedOn
  <2> QED  BY <1>1, <2>1, <2>2, <2>3, InBlockKeeps
<1>2. CASE ~st.inBlock
  <2>1. ts = feedOutside(st)
    BY <1>2 DEF feedStep
  <2> QED  BY <1>2, <2>1, OutsideKeeps
<1> QED  BY <1>1, <1>2

\* The text when all of it has been read.
LEMMA PendingEnd ==
  ASSUME NEW e, NEW r, IsText(e), IsText(r.hold), r.inBlock \in BOOLEAN
  PROVE  Joined(e, r.inBlock, r.hold, <<>>) = e \o Flush(r) /\ IsText(Flush(r))
<1> DEFINE o == markupOpen
           h == r.hold
<1>1. IsText(o) /\ IsText(h) /\ e \in Seq(Pieces) /\ h \in Seq(Pieces)
  BY MarkersAre DEF IsText
<1>2. /\ Joined(e, FALSE, h, <<>>) = e \o h /\ Joined(e, TRUE, h, <<>>) = e \o o \o h
  BY Zenon, <1>1, JoinedParts
<1>3. (e \o o) \o h = e \o (o \o h) /\ IsText(o \o h)
  <2> HIDE DEF o, h
  <2> QED  BY <1>1, TextsJoin
<1>4. Flush(r) = IF r.inBlock THEN o \o h ELSE h
  BY DEF Flush
<1> HIDE DEF o, h
<1>5. Joined(e, r.inBlock, h, <<>>) = e \o Flush(r) /\ IsText(Flush(r))
  BY Zenon, <1>1, <1>2, <1>3, <1>4
<1> QED  BY <1>5 DEF h

\* The text before the loop starts.
LEMMA PendingStart ==
  ASSUME NEW r, NEW t, IsText(t), IsText(r.hold), r.inBlock \in BOOLEAN
  PROVE  Joined(<<>>, r.inBlock, <<>>, r.hold \o t) = Flush(r) \o t
<1> DEFINE o == markupOpen
           h == r.hold
           w == h \o t
           z == <<>>
<1>1. IsText(o) /\ IsText(h) /\ IsText(z)
  BY MarkersAre DEF IsText
<1>2. IsText(w)
  BY <1>1, TextsJoin
<1>3. (o \o h) \o t = o \o w
  <2> HIDE DEF o, h
  <2> QED  BY <1>1, TextsJoin
<1>4. Joined(z, FALSE, <<>>, w) = z \o w /\ Joined(z, TRUE, <<>>, w) = z \o o \o w
  <2>1. w \in Seq(Pieces) /\ z \in Seq(Pieces)
    BY <1>1, <1>2 DEF IsText
  <2> HIDE DEF w, z
  <2> QED  BY Zenon, <2>1, JoinedParts
<1>5. \A x \in Seq(Pieces) : z \o x = x
  OBVIOUS
<1>6. Flush(r) = IF r.inBlock THEN o \o h ELSE h
  BY DEF Flush
<1>7. w = h \o t
  OBVIOUS
<1> HIDE DEF o, h, w, z
<1>8. z \o w = w /\ z \o o = o
  BY Zenon, <1>1, <1>2, <1>5 DEF IsText
<1>9. Joined(z, r.inBlock, <<>>, w) = Flush(r) \o t
  BY Zenon, <1>3, <1>4, <1>6, <1>7, <1>8
<1> QED  BY <1>9 DEF z, w, h

\* Feed is a loop of the theorems about folds.
LEMMA FeedIsFold ==
  ASSUME NEW r, NEW text
  PROVE  Feed(r, text) =
           Feeding!Folded([s |-> r.hold \o text, inBlock |-> r.inBlock, hold |-> <<>>,
                           emit |-> <<>>, calls |-> <<>>, stop |-> FALSE],
                          [turn \in 1 .. (Len(r.hold \o text) + 1) |-> turn])
BY DEF Feed, Feeding!Folded, FoldLeft, MapThenFoldSet, Max, Feeding!MapThenFoldSet, Feeding!Highest

\* What Feed promises of any text: it goes on as text, is kept, or became
\* calls.
LEMMA FeedKeeps ==
  ASSUME NEW r, r.hold \in Seq(Pieces), r.inBlock \in BOOLEAN, NEW text \in Seq(Pieces),
         NEW fed, fed = Feed(r, text)
  PROVE  /\ fed \in FeedStates
         /\ Balanced(fed.emit \o Flush(fed), fed.calls, Flush(r) \o text)
<1> DEFINE w == r.hold \o text
           n == Len(w)
           start == [s |-> w, inBlock |-> r.inBlock, hold |-> <<>>,
                     emit |-> <<>>, calls |-> <<>>, stop |-> FALSE]
           turns == [turn \in 1 .. (n + 1) |-> turn]
           u == Flush(r) \o text
           Held == {st \in FeedStates : FeedShape(st) /\ Balanced(Pending(st), st.calls, u)}
           A == [i \in Nat |-> {st \in Held : st.stop \/ Len(st.s) <= n - i}]
<1>1. w \in Seq(Pieces) /\ n \in Nat
  BY ConcatParts
<1>2. fed = Feeding!Folded(start, turns)
  BY FeedIsFold
<1>3. Pending(start) = u /\ Flush(r) \in Seq(Pieces)
  <2>1. Pending(start) = Joined(<<>>, r.inBlock, <<>>, w)
    BY DEF Pending
  <2>2. IsText(<<>>) /\ IsText(r.hold) /\ IsText(text)
    BY DEF IsText
  <2>3. Pending(start) = u
    BY Zenon, <2>1, <2>2, PendingStart
  <2>4. IsText(Flush(r))
    BY <2>2, PendingEnd
  <2> QED  BY Zenon, <2>3, <2>4 DEF IsText
<1>4. u \in Seq(Pieces)
  BY <1>3
<1>5. DOMAIN turns = 1 .. (n + 1)
  OBVIOUS
<1> HIDE DEF w, n, turns, u
<1>6. start \in Held
  <2>1. start \in FeedStates
    BY <1>1 DEF FeedStates
  <2>2. FeedShape(start)
    BY <2>1 DEF FeedShape
  <2>3. start.calls = <<>>
    OBVIOUS
  <2> QED  BY <1>3, <1>4, <2>1, <2>2, <2>3, BalancedSame
<1>7. start.s = w
  OBVIOUS
<1> HIDE DEF start
<1>8. start \in A[0]
  BY <1>1, <1>6, <1>7 DEF n
<1>9. ASSUME NEW i \in 1 .. (n + 1), NEW a \in A[i - 1]
      PROVE  feedStep(a, turns[i]) \in A[i]
  <2>1. i \in Nat /\ i - 1 \in Nat /\ n - (i - 1) = n - i + 1
    BY <1>1
  <2>2. a \in Held /\ (a.stop \/ Len(a.s) <= n - (i - 1))
    BY <2>1
  <2>3. FeedShape(a) /\ Balanced(Pending(a), a.calls, u) /\ a.s \in Seq(Pieces) /\ a \in FeedStates
    BY <2>2 DEF FeedShape, FeedStates
  <2>4. CASE a.stop
    BY <2>1, <2>2, <2>4 DEF feedStep
  <2>5. CASE ~a.stop
    <3> DEFINE b == feedStep(a, turns[i])
    <3>1. FeedShape(b) /\ (b.stop \/ Len(b.s) < Len(a.s)) /\ Balanced(Pending(b), b.calls, u)
      BY <2>3, <2>5, FeedTurn
    <3> HIDE DEF b
    <3>2. b \in Held /\ Len(b.s) \in Nat
      BY <3>1 DEF FeedShape, FeedStates
    <3>3. Len(a.s) \in Nat
      BY <2>3
    <3>4. b.stop \/ Len(b.s) <= n - i
      BY <1>1, <2>1, <2>2, <2>5, <3>1, <3>2, <3>3
    <3>5. b \in A[i]
      BY <2>1, <3>2, <3>4
    <3> QED  BY <3>5 DEF b
  <2> QED  BY <2>4, <2>5
<1>10. Feeding!Folded(start, turns) \in A[n + 1]
  <2> HIDE DEF A
  <2> QED  BY <1>1, <1>5, <1>8, <1>9, Feeding!FoldHistory
<1>11. fed \in Held /\ (fed.stop \/ Len(fed.s) <= -1)
  BY <1>1, <1>2, <1>10
<1>12. fed.s = <<>>
  BY <1>11 DEF FeedShape, FeedStates
<1>13. /\ fed \in FeedStates /\ fed.emit \in Seq(Pieces) /\ fed.hold \in Seq(Pieces) /\ fed.inBlock \in BOOLEAN
       /\ Balanced(Pending(fed), fed.calls, u)
  BY <1>11 DEF FeedStates
<1>14. Pending(fed) = fed.emit \o Flush(fed)
  <2>1. IsText(fed.emit) /\ IsText(fed.hold) /\ fed.inBlock \in BOOLEAN
    BY <1>13 DEF IsText
  <2> QED  BY Zenon, <1>12, <2>1, PendingEnd DEF Pending
<1> QED  BY <1>13, <1>14 DEF u

\* The ids of fragments as the client gets them,
FragmentIds == STRING \union {"made"}

\* ... their names, those of converted invokes and stripped ones among them,
FragmentNames == STRING \union {""} \union Invokes

\* ... their arguments,
FragmentArgs == Seq(STRING) \union {<<"{", "}">>}

\* ... and the finish reasons.
Finishes == STRING \union {"", "tool_calls"}

\* A fragment of the upstream or of the plugin.
AnyFragments == [index : Int, id : FragmentIds, name : FragmentNames, args : FragmentArgs]

\* The frames a client can get.
ClientFrames == [kind : PayloadKinds, text : Seq(Pieces), calls : Seq(AnyFragments), finish : Finishes]

\* The loops of the client, as FoldTheorems speaks of them.
Texts == INSTANCE FoldTheorems WITH op <- withText

Gathers == INSTANCE FoldTheorems WITH op <- withCalls

\* The client's loops are loops of the theorems about folds.
LEMMA ClientIsFold ==
  ASSUME NEW F
  PROVE  /\ ClientText(F) = Texts!Folded(<<>>, F)
         /\ ClientFragments(F) = Gathers!Folded(<<>>, F)
<1>1. ClientText(F) = Texts!Folded(<<>>, F)
  BY DEF ClientText, Texts!Folded, FoldLeft, MapThenFoldSet, Max, Texts!MapThenFoldSet, Texts!Highest
<1>2. ClientFragments(F) = Gathers!Folded(<<>>, F)
  BY DEF ClientFragments, Gathers!Folded, FoldLeft, MapThenFoldSet, Max, Gathers!MapThenFoldSet, Gathers!Highest
<1> QED  BY <1>1, <1>2

\* The text of one more frame.
LEMMA TextAppend ==
  ASSUME NEW T, NEW F \in Seq(T), NEW f \in T
  PROVE  ClientText(Append(F, f)) = ClientText(F) \o f.text
<1>1. Texts!Folded(<<>>, Append(F, f)) = withText(Texts!Folded(<<>>, F), f)
  BY Texts!FoldAppend
<1> QED  BY Zenon, <1>1, ClientIsFold DEF withText

\* The fragments of one more frame.
LEMMA FragmentsAppend ==
  ASSUME NEW T, NEW F \in Seq(T), NEW f \in T
  PROVE  ClientFragments(Append(F, f)) = ClientFragments(F) \o f.calls
<1>1. Gathers!Folded(<<>>, Append(F, f)) = withCalls(Gathers!Folded(<<>>, F), f)
  BY Gathers!FoldAppend
<1> QED  BY Zenon, <1>1, ClientIsFold DEF withCalls

\* No frame, nothing.
LEMMA ClientEmpty == ClientText(<<>>) = <<>> /\ ClientFragments(<<>>) = <<>>
BY ClientIsFold, Texts!FoldEmpty, Gathers!FoldEmpty

\* What the client puts together is text, and fragments.
LEMMA ClientType ==
  ASSUME NEW T, NEW F \in Seq(T)
  PROVE  /\ (\A f \in T : f.text \in Seq(Pieces)) => ClientText(F) \in Seq(Pieces)
         /\ (\A f \in T : f.calls \in Seq(AnyFragments)) => ClientFragments(F) \in Seq(AnyFragments)
<1>1. Len(F) \in Nat /\ DOMAIN F = 1 .. Len(F) /\ \A i \in 1 .. Len(F) : F[i] \in T
  OBVIOUS
<1>2. ASSUME \A f \in T : f.text \in Seq(Pieces) PROVE ClientText(F) \in Seq(Pieces)
  <2> DEFINE A == Seq(Pieces)
  <2>1. <<>> \in A
    OBVIOUS
  <2>2. \A a \in A : \A i \in 1 .. Len(F) : withText(a, F[i]) \in A
    BY <1>1, <1>2 DEF withText
  <2> HIDE DEF A
  <2>3. Texts!Folded(<<>>, F) \in A
    BY <1>1, <2>1, <2>2, Texts!FoldInvariant
  <2> QED  BY <2>3, ClientIsFold DEF A
<1>3. ASSUME \A f \in T : f.calls \in Seq(AnyFragments) PROVE ClientFragments(F) \in Seq(AnyFragments)
  <2> DEFINE A == Seq(AnyFragments)
  <2>1. <<>> \in A
    OBVIOUS
  <2>2. \A a \in A : \A i \in 1 .. Len(F) : withCalls(a, F[i]) \in A
    BY <1>1, <1>3 DEF withCalls
  <2> HIDE DEF A
  <2>3. Gathers!Folded(<<>>, F) \in A
    BY <1>1, <2>1, <2>2, Gathers!FoldInvariant
  <2> QED  BY <2>3, ClientIsFold DEF A
<1> QED  BY <1>2, <1>3

\* The fields of a frame.
LEMMA FrameFields ==
  ASSUME NEW f \in ClientFrames
  PROVE  f.text \in Seq(Pieces) /\ f.calls \in Seq(AnyFragments)
BY DEF ClientFrames

\* Putting lists of fragments together in either order.
LEMMA FragmentsJoin ==
  ASSUME NEW S, NEW a, NEW b, NEW c, <<a, b, c>> \in Seq(S) \X Seq(S) \X Seq(S)
  PROVE  (a \o b) \o c = a \o (b \o c)
<1>1. a \in Seq(S) /\ b \in Seq(S) /\ c \in Seq(S)
  OBVIOUS
<1> QED  BY <1>1

\* Frames behind each other: the text and the fragments behind each other.
LEMMA ClientConcat ==
  ASSUME NEW F \in Seq(ClientFrames), NEW G \in Seq(ClientFrames)
  PROVE  /\ ClientText(F \o G) = ClientText(F) \o ClientText(G)
         /\ ClientFragments(F \o G) = ClientFragments(F) \o ClientFragments(G)
<1> DEFINE T == ClientFrames
           Q == {H \in Seq(T) : /\ ClientText(F \o H) = ClientText(F) \o ClientText(H)
                                /\ ClientFragments(F \o H) = ClientFragments(F) \o ClientFragments(H)}
<1>0. F \in Seq(T) /\ G \in Seq(T) /\ \A f \in T : f.text \in Seq(Pieces) /\ f.calls \in Seq(AnyFragments)
  BY FrameFields
<1> HIDE DEF T
<1>0a. \A H \in Seq(T) : ClientText(H) \in Seq(Pieces) /\ ClientFragments(H) \in Seq(AnyFragments)
  BY <1>0, ClientType
<1>1. <<>> \in Q
  <2>1. F \o <<>> = F /\ <<>> \in Seq(T)
    BY <1>0
  <2>2. ClientText(F) \o <<>> = ClientText(F)
    BY <1>0, <1>0a
  <2>3. ClientFragments(F) \o <<>> = ClientFragments(F)
    BY <1>0, <1>0a
  <2> QED  BY Zenon, <2>1, <2>2, <2>3, ClientEmpty
<1>2. ASSUME NEW H \in Seq(T), ClientText(F \o H) = ClientText(F) \o ClientText(H), NEW f \in T
      PROVE  ClientText(F \o Append(H, f)) = ClientText(F) \o ClientText(Append(H, f))
  <2>1. F \o Append(H, f) = Append(F \o H, f) /\ F \o H \in Seq(T)
    BY <1>0
  <2>2. ClientText(Append(H, f)) = ClientText(H) \o f.text
    BY TextAppend
  <2>3. ClientText(Append(F \o H, f)) = ClientText(F \o H) \o f.text
    BY Zenon, <2>1, TextAppend
  <2> DEFINE a == ClientText(F)
             b == ClientText(H)
             c == f.text
  <2>4. IsText(a) /\ IsText(b) /\ IsText(c)
    BY <1>0, <1>0a DEF IsText
  <2> HIDE DEF a, b, c
  <2>5. (a \o b) \o c = a \o (b \o c)
    BY <2>4, TextsJoin
  <2> QED  BY <1>2, <2>1, <2>2, <2>3, <2>5 DEF a, b, c
<1>3. ASSUME NEW H \in Seq(T), ClientFragments(F \o H) = ClientFragments(F) \o ClientFragments(H), NEW f \in T
      PROVE  ClientFragments(F \o Append(H, f)) = ClientFragments(F) \o ClientFragments(Append(H, f))
  <2>1. F \o Append(H, f) = Append(F \o H, f) /\ F \o H \in Seq(T)
    BY <1>0
  <2>2. ClientFragments(Append(H, f)) = ClientFragments(H) \o f.calls
    BY FragmentsAppend
  <2>3. ClientFragments(Append(F \o H, f)) = ClientFragments(F \o H) \o f.calls
    BY Zenon, <2>1, FragmentsAppend
  <2> DEFINE a == ClientFragments(F)
             b == ClientFragments(H)
             c == f.calls
             S == AnyFragments
  <2>4. a \in Seq(S) /\ b \in Seq(S) /\ c \in Seq(S)
    BY <1>0, <1>0a
  <2> HIDE DEF a, b, c, S
  <2>5. (a \o b) \o c = a \o (b \o c)
    BY SMTT(30), <2>4, FragmentsJoin
  <2> QED  BY <1>3, <2>1, <2>2, <2>3, <2>5 DEF a, b, c
<1>4. \A H \in Q : \A f \in T : Append(H, f) \in Q
  <2>1. \A H \in Seq(T) : \A f \in T : Append(H, f) \in Seq(T)
    OBVIOUS
  <2> QED  BY Zenon, <1>2, <1>3, <2>1
<1>5. Q \in SUBSET Seq(T)
  OBVIOUS
<1> HIDE DEF Q
<1>6. Q = Seq(T)
  BY <1>1, <1>4, <1>5, Filt!SeqInduction
<1> QED  BY Zenon, <1>0, <1>6 DEF Q

\* The calls made with a name.
MadeAs(name) == {c \in AnyFragments : c.id = "made" /\ c.name = name}

\* How many of them the frames F hold.
MadeCount(F, name) == Len(Only(ClientFragments(F), MadeAs(name)))

\* The frames F and the text t still held are what became of the text u.
Carried(F, t, u) ==
  /\ F \in Seq(ClientFrames) /\ t \in Seq(Pieces)
  /\ \E k \in Seq(Invokes) : /\ Balanced(ClientText(F) \o t, k, u)
                             /\ \A name \in Invokes : MadeCount(F, name) = Count(k, name)

\* Filtering twice.
LEMMA OnlyTwice ==
  ASSUME NEW T, NEW s \in Seq(T), NEW S, NEW R
  PROVE  Only(Only(s, S), R) = Only(s, S \intersect R)
<1> DEFINE Q == {u \in Seq(T) : Only(Only(u, S), R) = Only(u, S \intersect R)}
<1>1. <<>> \in Q
  BY OnlyEmpty
<1>2. ASSUME NEW u \in Seq(T), Only(Only(u, S), R) = Only(u, S \intersect R), NEW e \in T
      PROVE  Only(Only(Append(u, e), S), R) = Only(Append(u, e), S \intersect R)
  <2> DEFINE o == Only(u, S)
             B == S \intersect R
  <2>1. o \in Seq(T)
    BY OnlyType
  <2>2. Only(Append(u, e), S) = IF e \in S THEN Append(o, e) ELSE o
    BY OnlyAppend
  <2>3. e \in B <=> e \in S /\ e \in R
    OBVIOUS
  <2>4. Only(u, B) = Only(o, R)
    BY <1>2
  <2> HIDE DEF o, B
  <2>5. Only(Append(o, e), R) = IF e \in R THEN Append(Only(o, R), e) ELSE Only(o, R)
    BY <2>1, OnlyAppend
  <2>6. Only(Append(u, e), B) = IF e \in B THEN Append(Only(u, B), e) ELSE Only(u, B)
    BY OnlyAppend
  <2>7. Only(Only(Append(u, e), S), R) = Only(Append(u, e), B)
    BY Zenon, <2>2, <2>3, <2>4, <2>5, <2>6
  <2> QED  BY <2>7 DEF B
<1>3. \A u \in Q : \A e \in T : Append(u, e) \in Q
  <2>1. \A u \in Seq(T) : \A e \in T : Append(u, e) \in Seq(T)
    OBVIOUS
  <2> QED  BY Zenon, <1>2, <2>1
<1>4. Q \in SUBSET Seq(T)
  OBVIOUS
<1> HIDE DEF Q
<1>5. Q = Seq(T)
  BY Zenon, <1>1, <1>3, <1>4, Filt!SeqInduction
<1> QED  BY Zenon, <1>5 DEF Q

\* The filter looks at the elements of its list only.
LEMMA OnlySame ==
  ASSUME NEW T, NEW s \in Seq(T), NEW S
  PROVE  Only(s, ToSet(s) \intersect S) = Only(s, S)
<1>1. Only(s, ToSet(s)) = s
  BY OnlyAll
<1> QED  BY <1>1, OnlyTwice

\* The calls made with a name, as NoTextLost counts them.
LEMMA MadeCounts ==
  ASSUME NEW F \in Seq(ClientFrames), NEW name
  PROVE  Len(Only(Made(F), {c \in ToSet(Made(F)) : c.name = name})) = MadeCount(F, name)
<1> DEFINE T == AnyFragments
           s == ClientFragments(F)
           S == {c \in T : c.id = "made"}
           R == {c \in T : c.name = name}
           m == Made(F)
<1>1. s \in Seq(T)
  BY FrameFields, ClientType
<1>2. ToSet(s) \subseteq T
  BY <1>1 DEF ToSet
<1>3. {c \in ToSet(s) : c.id = "made"} = ToSet(s) \intersect S
  BY <1>2
<1>4. S \intersect R = MadeAs(name)
  BY DEF MadeAs
<1> HIDE DEF s, S, T
<1>5. m = Only(s, ToSet(s) \intersect S)
  BY Zenon, <1>3 DEF Made, s
<1>6. m = Only(s, S)
  BY <1>1, <1>5, OnlySame
<1>7. m \in Seq(T)
  BY <1>1, <1>6, OnlyType
<1>8. {c \in ToSet(m) : c.name = name} = ToSet(m) \intersect R
  <2>1. ToSet(m) \subseteq T
    BY <1>7 DEF ToSet
  <2> QED  BY <2>1
<1> HIDE DEF m, R
<1>9. Only(m, {c \in ToSet(m) : c.name = name}) = Only(m, R)
  BY <1>7, <1>8, OnlySame
<1>10. Only(m, R) = Only(s, S \intersect R)
  BY <1>1, <1>6, OnlyTwice
<1> QED  BY Zenon, <1>4, <1>9, <1>10 DEF MadeCount, s, m

\* The calls of frames behind each other.
LEMMA MadeConcat ==
  ASSUME NEW F \in Seq(ClientFrames), NEW G \in Seq(ClientFrames), NEW name
  PROVE  MadeCount(F \o G, name) = MadeCount(F, name) + MadeCount(G, name)
<1> DEFINE T == AnyFragments
           S == MadeAs(name)
           s == ClientFragments(F)
           t == ClientFragments(G)
<1>1. s \in Seq(T) /\ t \in Seq(T)
  BY FrameFields, ClientType
<1>2. ClientFragments(F \o G) = s \o t
  BY ClientConcat
<1> HIDE DEF s, t, S, T
<1>3. Only(s \o t, S) = Only(s, S) \o Only(t, S)
  BY <1>1, OnlyConcat
<1>4. Only(s, S) \in Seq(T) /\ Only(t, S) \in Seq(T)
  BY <1>1, OnlyType
<1> DEFINE a == Only(s, S)
           b == Only(t, S)
<1> HIDE DEF a, b
<1>5. Len(a \o b) = Len(a) + Len(b)
  BY <1>4, ConcatParts DEF a, b
<1> QED  BY <1>2, <1>3, <1>5 DEF MadeCount, s, t, S, a, b

\* The text of frames is text.
LEMMA FramesText ==
  ASSUME NEW F \in Seq(ClientFrames)
  PROVE  IsText(ClientText(F))
BY FrameFields, ClientType DEF IsText

\* Frames behind each other are frames.
LEMMA FramesJoin ==
  ASSUME NEW F \in Seq(ClientFrames), NEW G \in Seq(ClientFrames)
  PROVE  F \o G \in Seq(ClientFrames)
OBVIOUS

\* What is held and then worked on further.
LEMMA CarriedOn ==
  ASSUME NEW F, NEW t, NEW u, Carried(F, t, u), NEW v, IsText(v),
         NEW G, NEW w, Carried(G, w, t \o v)
  PROVE  Carried(F \o G, w, u \o v)
<1> DEFINE f == ClientText(F)
           g == ClientText(G)
<1>1. F \in Seq(ClientFrames) /\ G \in Seq(ClientFrames)
  BY DEF Carried
<1>1a. IsText(t) /\ IsText(w)
  BY DEF Carried, IsText
<1>2. PICK k : k \in Seq(Invokes) /\ Balanced(f \o t, k, u) /\ \A name \in Invokes : MadeCount(F, name) = Count(k, name)
  BY DEF Carried
<1>3. PICK l : l \in Seq(Invokes) /\ Balanced(g \o w, l, t \o v) /\ \A name \in Invokes : MadeCount(G, name) = Count(l, name)
  BY DEF Carried
<1>4. F \o G \in Seq(ClientFrames) /\ ClientText(F \o G) = f \o g
  BY <1>1, ClientConcat, FramesJoin
<1>5. IsText(f) /\ IsText(g)
  BY <1>1, FramesText
<1> HIDE DEF f, g
<1>6. Balanced((f \o t) \o v, k \o <<>>, u \o v)
  <2>1. Balanced(v, <<>>, v)
    BY BalancedSame DEF IsText
  <2>2. Balanced(f \o t, k, u)
    BY <1>2
  <2> QED  BY Zenon, <2>1, <2>2, BalancedConcat
<1>7. Balanced(f \o (g \o w), <<>> \o l, f \o (t \o v))
  <2>1. Balanced(f, <<>>, f)
    BY <1>5, BalancedSame DEF IsText
  <2>2. Balanced(g \o w, l, t \o v)
    BY <1>3
  <2> QED  BY Zenon, <2>1, <2>2, BalancedConcat
<1>8. (f \o t) \o v = f \o (t \o v)
  BY <1>1a, <1>5, TextsJoin
<1>8a. f \o (g \o w) = (f \o g) \o w
  BY <1>1a, <1>5, TextsJoin
<1>9. k \o <<>> = k /\ <<>> \o l = l
  BY <1>2, <1>3
<1>10. Balanced((f \o g) \o w, k \o l, u \o v)
  BY <1>6, <1>7, <1>8, <1>8a, <1>9, BalancedOn
<1>11. k \o l \in Seq(Invokes)
  BY <1>10 DEF Balanced
<1>12. ASSUME NEW name \in Invokes PROVE MadeCount(F \o G, name) = Count(k \o l, name)
  <2>1. MadeCount(F \o G, name) = MadeCount(F, name) + MadeCount(G, name)
    BY <1>1, MadeConcat
  <2>2. Count(k \o l, name) = Count(k, name) + Count(l, name)
    <3>1. k \in Seq(Invokes) /\ l \in Seq(Invokes)
      BY <1>2, <1>3
    <3> QED  BY <3>1, CountConcat
  <2> QED  BY <1>2, <1>3, <2>1, <2>2
<1>13. w \in Seq(Pieces)
  BY <1>1a DEF IsText
<1> QED  BY Zenon, <1>4, <1>10, <1>11, <1>12, <1>13 DEF Carried

\* Frames without a made call, that pass the text on.
LEMMA CarriedText ==
  ASSUME NEW F \in Seq(ClientFrames), NEW t, IsText(t), NEW u, ClientText(F) \o t = u,
         \A name \in Invokes : MadeCount(F, name) = 0
  PROVE  Carried(F, t, u)
<1>1. IsText(ClientText(F)) /\ IsText(u)
  BY Zenon, FramesText, TextsJoin
<1>2. Balanced(u, <<>>, u)
  BY <1>1, BalancedSame DEF IsText
<1>3. <<>> \in Seq(Invokes) /\ \A name \in Invokes : Count(<<>>, name) = 0
  BY CountEmpty
<1>4. t \in Seq(Pieces)
  BY DEF IsText
<1> QED  BY Zenon, <1>2, <1>3, <1>4 DEF Carried

\* No frame makes no call.
LEMMA MadeNone == ASSUME NEW name PROVE MadeCount(<<>>, name) = 0
BY ClientEmpty, OnlyEmpty DEF MadeCount

\* One more frame.
LEMMA MadeAppend ==
  ASSUME NEW F \in Seq(ClientFrames), NEW f \in ClientFrames, NEW name
  PROVE  /\ MadeCount(Append(F, f), name) = MadeCount(F, name) + Len(Only(f.calls, MadeAs(name)))
         /\ MadeCount(F, name) \in Nat /\ Len(Only(f.calls, MadeAs(name))) \in Nat
<1> DEFINE T == AnyFragments
           S == MadeAs(name)
           s == ClientFragments(F)
           t == f.calls
<1>1. s \in Seq(T) /\ t \in Seq(T)
  BY FrameFields, ClientType
<1>2. ClientFragments(Append(F, f)) = s \o t
  BY FragmentsAppend
<1> HIDE DEF s, t, S, T
<1>3. Only(s \o t, S) = Only(s, S) \o Only(t, S)
  BY <1>1, OnlyConcat
<1>4. Only(s, S) \in Seq(T) /\ Only(t, S) \in Seq(T)
  BY <1>1, OnlyType
<1> DEFINE a == Only(s, S)
           b == Only(t, S)
<1> HIDE DEF a, b
<1>5. Len(a \o b) = Len(a) + Len(b) /\ Len(a) \in Nat /\ Len(b) \in Nat
  BY <1>4, ConcatParts DEF a, b
<1> QED  BY <1>2, <1>3, <1>5 DEF MadeCount, s, t, S, a, b

\* The loop of encode, as FoldTheorems speaks of it.
Encodes == INSTANCE FoldTheorems WITH op <- encodeNext

\* The normalizers.
Norms ==
  [repair : BOOLEAN, hold : Seq(Pieces), inBlock : BOOLEAN, nextIndex : Nat,
   finished : BOOLEAN, toolCallSeen : SUBSET Int]

\* Two normalizers that differ in the indexes seen only.
SameNorm(m, n) ==
  /\ m \in Norms /\ n \in Norms /\ m.repair = n.repair /\ m.hold = n.hold /\ m.inBlock = n.inBlock
  /\ m.nextIndex = n.nextIndex /\ m.finished = n.finished

\* The indexes of a frame.
Slots(f) == {slot(c) : c \in ToSet(f.calls)}

\* What the loop of encode carries along.
Accs == [n : Norms, frames : Seq(ClientFrames)]

\* The frames without calls.
PlainFrames == {f \in ClientFrames : f.calls = <<>>}

\* Stripping names makes no fragments and no made ones.
LEMMA StripKeeps ==
  ASSUME NEW calls \in Seq(AnyFragments), NEW seen
  PROVE  /\ stripToolCallNames(calls, seen) \in Seq(AnyFragments)
         /\ (\A c \in ToSet(calls) : c.id # "made") =>
              \A name : Only(stripToolCallNames(calls, seen), MadeAs(name)) = <<>>
<1> DEFINE s == stripToolCallNames(calls, seen)
<1>1. /\ DOMAIN calls = 1 .. Len(calls) /\ Len(calls) \in Nat /\ DOMAIN s = 1 .. Len(calls)
      /\ \A i \in 1 .. Len(calls) : calls[i] \in AnyFragments
  BY DEF stripToolCallNames
<1>2. ASSUME NEW i \in 1 .. Len(calls) PROVE s[i] \in AnyFragments /\ s[i].id = calls[i].id
  <2>1. s[i] = [calls[i] EXCEPT !.name = ""] \/ s[i] = calls[i]
    BY Zenon, <1>1 DEF stripToolCallNames
  <2>2. "" \in FragmentNames
    BY DEF FragmentNames
  <2> QED  BY Zenon, <1>1, <2>1, <2>2 DEF AnyFragments
<1>3. s = [i \in 1 .. Len(calls) |-> s[i]]
  BY <1>1 DEF stripToolCallNames
<1> HIDE DEF s
<1>4. s \in Seq(AnyFragments)
  BY <1>1, <1>2, <1>3
<1>5. ASSUME \A c \in ToSet(calls) : c.id # "made", NEW name PROVE Only(s, MadeAs(name)) = <<>>
  <2>1. \A c \in ToSet(s) : c.id # "made"
    BY <1>1, <1>2, <1>5 DEF ToSet
  <2>2. ToSet(s) \intersect MadeAs(name) = {}
    BY <2>1 DEF MadeAs
  <2> QED  BY <1>4, <2>2, OnlyNone
<1> QED  BY <1>4, <1>5 DEF s

\* The first fragment of an index keeps its name.
LEMMA StripFirst ==
  ASSUME NEW c, NEW seen, slot(c) \notin seen
  PROVE  stripToolCallNames(<<c>>, seen) = <<c>> /\ stripToolCallNames(<<>>, seen) = <<>>
<1>1. DOMAIN <<c>> = {1} /\ <<c>>[1] = c
  OBVIOUS
<1>2. 1 .. (1 - 1) = {}
  OBVIOUS
<1>3. {slot(<<c>>[j]) : j \in 1 .. (1 - 1)} = {}
  BY <1>2
<1>4. stripToolCallNames(<<c>>, seen) = [i \in {1} |-> c]
  BY Zenon, <1>1, <1>3 DEF stripToolCallNames
<1>5. <<c>> = [i \in {1} |-> c]
  BY <1>1
<1>6. stripToolCallNames(<<>>, seen) = <<>>
  BY DEF stripToolCallNames
<1> QED  BY <1>4, <1>5, <1>6

\* Normalizing one frame.
LEMMA NormalizeKeeps ==
  ASSUME NEW n \in Norms, NEW f \in ClientFrames, NEW one, one = Normalize(n, f)
  PROVE  /\ SameNorm(one.n, n) /\ one.frame \in ClientFrames
         /\ one.n.toolCallSeen = n.toolCallSeen \union Slots(f)
         /\ one.frame.text = f.text /\ one.frame.calls = stripToolCallNames(f.calls, n.toolCallSeen)
<1> DEFINE seen == n.toolCallSeen \union Slots(f)
           calls == stripToolCallNames(f.calls, n.toolCallSeen)
<1>1. f.calls \in Seq(AnyFragments)
  BY FrameFields
<1>2. calls \in Seq(AnyFragments)
  BY <1>1, StripKeeps
<1>3. seen \in SUBSET Int
  <2>1. \A c \in ToSet(f.calls) : slot(c) \in Int
    <3>1. \A c \in ToSet(f.calls) : c \in AnyFragments
      BY <1>1 DEF ToSet
    <3>2. \A c \in AnyFragments : c.index \in Int
      BY DEF AnyFragments
    <3> QED  BY <3>1, <3>2 DEF slot
  <2>2. n.toolCallSeen \in SUBSET Int
    BY DEF Norms
  <2> QED  BY <2>1, <2>2 DEF Slots
<1>4. one.n = [n EXCEPT !.toolCallSeen = seen] /\ one.frame = [f EXCEPT !.calls = calls]
  BY DEF Normalize, Slots
<1> HIDE DEF seen, calls
<1>5. SameNorm(one.n, n) /\ one.n.toolCallSeen = seen
  BY <1>3, <1>4 DEF Norms, SameNorm
<1>6. one.frame \in ClientFrames /\ one.frame.text = f.text /\ one.frame.calls = calls
  BY Zenon, <1>2, <1>4 DEF ClientFrames
<1> QED  BY <1>5, <1>6 DEF seen, calls

\* A frame without calls passes as it is.
LEMMA NormalizePlain ==
  ASSUME NEW n \in Norms, NEW f \in PlainFrames
  PROVE  Normalize(n, f) = [n |-> n, frame |-> f]
<1>1. f \in ClientFrames /\ f.calls = <<>>
  BY DEF PlainFrames
<1>2. ToSet(f.calls) = {}
  BY <1>1 DEF ToSet
<1>3. n.toolCallSeen \union {slot(c) : c \in ToSet(f.calls)} = n.toolCallSeen
  BY <1>2
<1>4. stripToolCallNames(f.calls, n.toolCallSeen) = <<>>
  BY <1>1 DEF stripToolCallNames
<1>5. [n EXCEPT !.toolCallSeen = n.toolCallSeen] = n
  BY DEF Norms
<1>6. [f EXCEPT !.calls = <<>>] = f
  BY <1>1 DEF ClientFrames
<1> QED  BY Zenon, <1>3, <1>4, <1>5, <1>6 DEF Normalize

\* One turn of encode.
LEMMA EncodeTurn ==
  ASSUME NEW acc \in Accs, NEW f \in ClientFrames, NEW one, one = Normalize(acc.n, f)
  PROVE  /\ encodeNext(acc, f) = [n |-> one.n, frames |-> Append(acc.frames, one.frame)]
         /\ encodeNext(acc, f) \in Accs
<1>1. acc.n \in Norms /\ acc.frames \in Seq(ClientFrames)
  BY DEF Accs
<1>2. one.n \in Norms /\ one.frame \in ClientFrames
  BY <1>1, NormalizeKeeps DEF SameNorm
<1> DEFINE a == Append(acc.frames, one.frame)
           b == [acc EXCEPT !.n = one.n]
<1>3. encodeNext(acc, f) = [b EXCEPT !.frames = Append(@, one.frame)]
  BY DEF encodeNext
<1>4. a \in Seq(ClientFrames)
  BY <1>1, <1>2
<1>5. [b EXCEPT !.frames = Append(@, one.frame)] = [n |-> one.n, frames |-> a]
  <2>1. b = [n |-> one.n, frames |-> acc.frames]
    BY DEF Accs
  <2> HIDE DEF b
  <2>2. [b EXCEPT !.frames = Append(@, one.frame)] = [b EXCEPT !.frames = a]
    BY <2>1
  <2> HIDE DEF a
  <2> QED  BY <2>1, <2>2
<1> HIDE DEF a
<1>6. [n |-> one.n, frames |-> a] \in Accs
  BY <1>2, <1>4 DEF Accs
<1> QED  BY <1>3, <1>5, <1>6 DEF a

\* encode is a loop of the theorems about folds.
LEMMA EncodeIsFold ==
  ASSUME NEW n, NEW fs
  PROVE  encode(n, fs) = [n |-> Encodes!Folded([n |-> n, frames |-> <<>>], fs).n,
                          frames |-> Encodes!Folded([n |-> n, frames |-> <<>>], fs).frames,
                          valid |-> TRUE, done |-> FALSE]
BY DEF encode, Encodes!Folded, FoldLeft, MapThenFoldSet, Max, Encodes!MapThenFoldSet, Encodes!Highest

\* Frames without calls pass as they are.
LEMMA EncodePlain ==
  ASSUME NEW acc \in Accs, NEW fs \in Seq(PlainFrames)
  PROVE  /\ Encodes!Folded(acc, fs) = [n |-> acc.n, frames |-> acc.frames \o fs]
         /\ Encodes!Folded(acc, fs) \in Accs
<1> DEFINE T == PlainFrames
           R(s) == [n |-> acc.n, frames |-> acc.frames \o s]
           Q == {s \in Seq(T) : Encodes!Folded(acc, s) = R(s)}
<1>1. acc.n \in Norms /\ acc.frames \in Seq(ClientFrames) /\ acc = [n |-> acc.n, frames |-> acc.frames]
  BY DEF Accs
<1>2. \A s \in Seq(T) : s \in Seq(ClientFrames)
  <2>1. T \subseteq ClientFrames
    BY DEF PlainFrames
  <2> HIDE DEF T
  <2> QED  BY <2>1
<1>3. \A s \in Seq(T) : R(s) \in Accs
  <2>1. \A s \in Seq(T) : acc.frames \o s \in Seq(ClientFrames)
    BY <1>1, <1>2, FramesJoin
  <2> QED  BY <1>1, <2>1 DEF Accs
<1>4. <<>> \in Q
  <2>1. acc.frames \o <<>> = acc.frames
    BY <1>1
  <2> QED  BY <1>1, <2>1, Encodes!FoldEmpty
<1>5. ASSUME NEW s \in Seq(T), Encodes!Folded(acc, s) = R(s), NEW f \in T
      PROVE  Encodes!Folded(acc, Append(s, f)) = R(Append(s, f))
  <2>1. Encodes!Folded(acc, Append(s, f)) = encodeNext(R(s), f)
    <3>1. Encodes!Folded(acc, Append(s, f)) = encodeNext(Encodes!Folded(acc, s), f)
      <4> HIDE DEF T
      <4> QED  BY Encodes!FoldAppend
    <3> QED  BY <1>5, <3>1
  <2>2. f \in ClientFrames /\ Normalize(R(s).n, f) = [n |-> acc.n, frame |-> f]
    BY <1>1, NormalizePlain DEF PlainFrames
  <2>3. R(s) \in Accs
    BY Zenon, <1>3
  <2>4. encodeNext(R(s), f) = [n |-> acc.n, frames |-> Append(R(s).frames, f)]
    <3> DEFINE one == Normalize(R(s).n, f)
               a == R(s)
    <3>1. encodeNext(a, f) = [n |-> one.n, frames |-> Append(a.frames, one.frame)]
      <4> HIDE DEF a
      <4> QED  BY Zenon, <2>2, <2>3, EncodeTurn DEF a
    <3>2. one.n = acc.n /\ one.frame = f
      BY <2>2
    <3> QED  BY Zenon, <3>1, <3>2
  <2>5. Append(acc.frames \o s, f) = acc.frames \o Append(s, f)
    <3> DEFINE g == acc.frames
    <3>1. g \in Seq(ClientFrames) /\ s \in Seq(ClientFrames) /\ f \in ClientFrames
      BY <1>1, <1>2, <2>2
    <3> HIDE DEF g
    <3>2. Append(g \o s, f) = g \o Append(s, f)
      BY SMTT(30), <3>1
    <3> QED  BY <3>2 DEF g
  <2>6. R(s).frames = acc.frames \o s
    OBVIOUS
  <2> QED  BY Zenon, <2>1, <2>4, <2>5, <2>6
<1>6. \A s \in Q : \A f \in T : Append(s, f) \in Q
  <2>1. \A s \in Seq(T) : \A f \in T : Append(s, f) \in Seq(T)
    OBVIOUS
  <2> QED  BY Zenon, <1>5, <2>1
<1>7. Q \in SUBSET Seq(T)
  OBVIOUS
<1>8. Q = Seq(T)
  <2> HIDE DEF Q, T
  <2> QED  BY Zenon, <1>4, <1>6, <1>7, Filt!SeqInduction
<1> QED  BY Zenon, <1>3, <1>8

\* The frame of a made call.
LEMMA MadeFrame ==
  ASSUME NEW index \in Nat, NEW name \in Invokes
  PROVE  /\ markupCallFrame(index, name) \in ClientFrames /\ markupCallFrame(index, name).text = <<>>
         /\ \E c \in MadeAs(name) : markupCallFrame(index, name).calls = <<c>> /\ slot(c) = index
<1> DEFINE args == <<"{", "}">>
           c == Fragment(index, "made", name, args)
           z == <<>>
           d == <<c>>
           f == [kind |-> "chunk", text |-> z, calls |-> d, finish |-> ""]
<1>1. "made" \in FragmentIds /\ name \in FragmentNames /\ args \in FragmentArgs /\ index \in Int
  <2>1. "made" \in FragmentIds
    BY DEF FragmentIds
  <2>2. name \in FragmentNames
    BY Zenon DEF FragmentNames
  <2>3. args \in FragmentArgs
    BY DEF FragmentArgs
  <2> HIDE DEF args
  <2> QED  BY <2>1, <2>2, <2>3
<1> HIDE DEF args
<1>2. c = [index |-> index, id |-> "made", name |-> name, args |-> args]
  BY DEF Fragment
<1>3. c \in AnyFragments /\ c.id = "made" /\ c.name = name /\ c.index = index
  BY <1>1, <1>2 DEF AnyFragments
<1>4. markupCallFrame(index, name) = f
  BY DEF markupCallFrame, Frame, args
<1> HIDE DEF c
<1>5. slot(c) = index
  BY <1>3 DEF slot, NoIndex
<1>6. d \in Seq(AnyFragments) /\ z \in Seq(Pieces)
  BY <1>3
<1> HIDE DEF z, d
<1>7. "chunk" \in PayloadKinds /\ "" \in Finishes
  BY DEF PayloadKinds, Finishes
<1>8. f \in ClientFrames
  BY Zenon, <1>6, <1>7 DEF ClientFrames
<1>9. c \in MadeAs(name)
  BY <1>3 DEF MadeAs
<1>10. f.text = z /\ f.calls = d
  OBVIOUS
<1> HIDE DEF f
<1> QED  BY <1>4, <1>5, <1>8, <1>9, <1>10 DEF z, d

\* Of a made call, the filters for names keep the one of its name.
LEMMA OneMade ==
  ASSUME NEW k, k \in Invokes, NEW c \in MadeAs(k), NEW name \in Invokes
  PROVE  Len(Only(<<c>>, MadeAs(name))) = Count(<<k>>, name)
<1>1. c \in AnyFragments /\ (c \in MadeAs(name) <=> k = name)
  BY DEF MadeAs
<1>2. \A T : \A e \in T : \A S : Only(<<e>>, S) = IF e \in S THEN <<e>> ELSE <<>>
  <2> SUFFICES ASSUME NEW T, NEW e \in T, NEW S PROVE Only(<<e>>, S) = IF e \in S THEN <<e>> ELSE <<>>
    BY Zenon
  <2>1. <<>> \in Seq(T) /\ Append(<<>>, e) = <<e>>
    OBVIOUS
  <2>2. Only(Append(<<>>, e), S) = IF e \in S THEN Append(Only(<<>>, S), e) ELSE Only(<<>>, S)
    BY Zenon, <2>1, OnlyAppend
  <2> QED  BY <2>1, <2>2, OnlyEmpty
<1>3. Only(<<c>>, MadeAs(name)) = IF k = name THEN <<c>> ELSE <<>>
  BY <1>1, <1>2
<1>4. Only(<<k>>, {name}) = IF k = name THEN <<k>> ELSE <<>>
  BY <1>2
<1>5. Len(<<c>>) = 1 /\ Len(<<k>>) = 1
  OBVIOUS
<1> QED  BY <1>3, <1>4, <1>5 DEF Count

\* From acc, res has made the calls k, with indexes below b.
Calling(acc, b, k, res) ==
  /\ res \in Accs /\ SameNorm(res.n, acc.n)
  /\ \A x \in res.n.toolCallSeen : x < b
  /\ ClientText(res.frames) = ClientText(acc.frames)
  /\ \A name \in Invokes : MadeCount(res.frames, name) = MadeCount(acc.frames, name) + Count(k, name)

\* Some calls of a list, and one more.
LEMMA NextCall ==
  ASSUME NEW k \in Seq(Invokes), NEW i \in 1 .. Len(k)
  PROVE  /\ k[i] \in Invokes
         /\ \A name \in Invokes : Count(SubSeq(k, 1, i), name) = Count(SubSeq(k, 1, i - 1), name) + Count(<<k[i]>>, name)
<1> DEFINE a == SubSeq(k, 1, i - 1)
           b == SubSeq(k, 1, i)
           e == k[i]
           j == i - 1
<1>1. e \in Invokes /\ i \in Nat /\ i <= Len(k) /\ Len(k) \in Nat /\ j \in Nat /\ j + 1 = i
  OBVIOUS
<1>2. a \in Seq(Invokes) /\ Len(a) = j /\ \A x \in 1 .. j : a[x] = k[x]
  BY <1>1
<1>3. b \in Seq(Invokes) /\ Len(b) = i /\ \A x \in 1 .. i : b[x] = k[x]
  BY <1>1
<1>4. b[i] = e
  BY <1>1, <1>3
<1> HIDE DEF a, b, e, j
<1> DEFINE c == a \o <<e>>
<1>5. c \in Seq(Invokes) /\ Len(c) = j + 1 /\ \A x \in 1 .. j : c[x] = a[x]
  BY <1>1, <1>2
<1>6. c[j + 1] = e
  BY <1>1, <1>2
<1> HIDE DEF c
<1>7. \A x \in 1 .. i : b[x] = c[x]
  BY <1>1, <1>2, <1>3, <1>4, <1>5, <1>6
<1>8. b = c
  BY <1>1, <1>3, <1>5, <1>7
<1>9. <<e>> \in Seq(Invokes)
  BY <1>1
<1>10. \A name \in Invokes : Count(a \o <<e>>, name) = Count(a, name) + Count(<<e>>, name)
  BY Zenon, <1>2, <1>9, CountConcat
<1> QED  BY Zenon, <1>1, <1>8, <1>10 DEF a, b, c, e

\* One made call is encoded as it is.
LEMMA EncodeCall ==
  ASSUME NEW acc \in Accs, NEW index \in Nat, NEW call \in Invokes, \A x \in acc.n.toolCallSeen : x < index,
         NEW res, res = encodeNext(acc, markupCallFrame(index, call))
  PROVE  Calling(acc, index + 1, <<call>>, res)
<1> DEFINE f == markupCallFrame(index, call)
           one == Normalize(acc.n, f)
           F == acc.frames
<1>1. f \in ClientFrames /\ f.text = <<>>
  BY MadeFrame
<1>2. PICK c \in MadeAs(call) : f.calls = <<c>> /\ slot(c) = index
  BY MadeFrame
<1> HIDE DEF f
<1>3. acc.n \in Norms /\ F \in Seq(ClientFrames) /\ acc.n.toolCallSeen \in SUBSET Int
  BY DEF Accs, Norms
<1>4. /\ SameNorm(one.n, acc.n) /\ one.frame \in ClientFrames
      /\ one.n.toolCallSeen = acc.n.toolCallSeen \union Slots(f)
      /\ one.frame.text = <<>> /\ one.frame.calls = stripToolCallNames(f.calls, acc.n.toolCallSeen)
  BY <1>1, <1>3, NormalizeKeeps
<1>5. one.frame.calls = <<c>>
  <2>1. slot(c) \notin acc.n.toolCallSeen
    BY <1>2
  <2> QED  BY <1>2, <1>4, <2>1, StripFirst
<1>6. \A x \in one.n.toolCallSeen : x < index + 1
  <2>1. Slots(f) = {index}
    <3>1. ToSet(f.calls) = {c}
      BY <1>2 DEF ToSet
    <3> QED  BY <1>2, <3>1 DEF Slots
  <2>2. \A x \in acc.n.toolCallSeen : x \in Int /\ x < index
    BY <1>3
  <2> QED  BY <1>4, <2>1, <2>2
<1>7. res = [n |-> one.n, frames |-> Append(F, one.frame)] /\ res \in Accs
  BY <1>1, EncodeTurn DEF f
<1> HIDE DEF one, F
<1>8. res.n = one.n /\ res.frames = Append(F, one.frame)
  BY <1>7
<1>9. ClientText(res.frames) = ClientText(F)
  <2>1. ClientText(Append(F, one.frame)) = ClientText(F) \o one.frame.text
    <3> DEFINE g == one.frame
    <3>1. F \in Seq(ClientFrames) /\ g \in ClientFrames
      BY <1>3, <1>4
    <3> HIDE DEF g
    <3>2. ClientText(Append(F, g)) = ClientText(F) \o g.text
      BY <3>1, TextAppend
    <3> QED  BY <3>2 DEF g
  <2>2. IsText(ClientText(F))
    BY <1>3, FramesText
  <2>3. ClientText(F) \o <<>> = ClientText(F)
    BY <2>2 DEF IsText
  <2> QED  BY <1>4, <1>8, <2>1, <2>3
<1>10. \A name \in Invokes : MadeCount(res.frames, name) = MadeCount(F, name) + Count(<<call>>, name)
  <2> SUFFICES ASSUME NEW name \in Invokes
               PROVE  MadeCount(Append(F, one.frame), name) = MadeCount(F, name) + Count(<<call>>, name)
    BY <1>8
  <2>1. MadeCount(Append(F, one.frame), name) = MadeCount(F, name) + Len(Only(one.frame.calls, MadeAs(name)))
    BY <1>3, <1>4, MadeAppend
  <2>2. Len(Only(<<c>>, MadeAs(name))) = Count(<<call>>, name)
    BY OneMade
  <2> QED  BY <1>5, <2>1, <2>2
<1> QED  BY <1>4, <1>6, <1>7, <1>8, <1>9, <1>10 DEF F, Calling

\* The made calls are encoded as they are.
LEMMA EncodeMade ==
  ASSUME NEW acc \in Accs, NEW b \in Nat, NEW k \in Seq(Invokes), \A x \in acc.n.toolCallSeen : x < b,
         NEW made, made = [i \in DOMAIN k |-> markupCallFrame(b + i - 1, k[i])],
         NEW res, res = Encodes!Folded(acc, made)
  PROVE  Calling(acc, b + Len(k), k, res)
<1> DEFINE m == Len(k)
           A == [i \in Nat |-> {a \in Accs : Calling(acc, b + i, SubSeq(k, 1, i), a)}]
<1>1. m \in Nat /\ DOMAIN k = 1 .. m /\ DOMAIN made = 1 .. m /\ SubSeq(k, 1, m) = k
  OBVIOUS
<1>2. acc.frames \in Seq(ClientFrames) /\ acc.n \in Norms
  BY DEF Accs
<1>3. \A name \in Invokes : MadeCount(acc.frames, name) \in Nat
  <2> SUFFICES ASSUME NEW name \in Invokes PROVE MadeCount(acc.frames, name) \in Nat
    OBVIOUS
  <2> DEFINE s == ClientFragments(acc.frames)
  <2>1. s \in Seq(AnyFragments)
    BY <1>2, FrameFields, ClientType
  <2> HIDE DEF s
  <2>2. Only(s, MadeAs(name)) \in Seq(AnyFragments)
    BY <2>1, OnlyType
  <2>3. Len(Only(s, MadeAs(name))) \in Nat
    BY <2>2
  <2> QED  BY <2>3 DEF MadeCount, s
<1>4. acc \in A[0]
  <2>1. SameNorm(acc.n, acc.n)
    BY <1>2 DEF SameNorm
  <2>2. \A x \in acc.n.toolCallSeen : x < b + 0
    <3>1. b + 0 = b
      OBVIOUS
    <3> QED  BY <3>1
  <2>3. SubSeq(k, 1, 0) = <<>>
    OBVIOUS
  <2>4. \A name \in Invokes : MadeCount(acc.frames, name) = MadeCount(acc.frames, name) + Count(SubSeq(k, 1, 0), name)
    <3>1. \A name \in Invokes : Count(SubSeq(k, 1, 0), name) = 0
      BY Zenon, <2>3, CountEmpty
    <3> QED  BY <1>3, <3>1
  <2>5. Calling(acc, b + 0, SubSeq(k, 1, 0), acc)
    BY <2>1, <2>2, <2>4 DEF Calling
  <2> QED  BY <2>5
<1>5. ASSUME NEW i \in 1 .. m, NEW a \in A[i - 1]
      PROVE  encodeNext(a, made[i]) \in A[i]
  <2>1. i \in Nat /\ i - 1 \in Nat /\ b + i - 1 \in Nat /\ b + (i - 1) = b + i - 1 /\ (b + i - 1) + 1 = b + i
    BY <1>1
  <2>2. a \in Accs /\ Calling(acc, b + (i - 1), SubSeq(k, 1, i - 1), a)
    BY <2>1
  <2> DEFINE index == b + i - 1
             r == encodeNext(a, made[i])
  <2>3. made[i] = markupCallFrame(index, k[i])
    BY <1>1
  <2>4. \A x \in a.n.toolCallSeen : x < index
    BY <2>1, <2>2 DEF Calling
  <2>5. /\ k[i] \in Invokes
        /\ \A name \in Invokes : Count(SubSeq(k, 1, i), name) = Count(SubSeq(k, 1, i - 1), name) + Count(<<k[i]>>, name)
    BY Zenon, NextCall
  <2>6. index \in Nat /\ index + 1 = b + i
    BY <2>1
  <2> HIDE DEF index
  <2>7. Calling(a, index + 1, <<k[i]>>, r)
    <3> DEFINE call == k[i]
    <3>1. call \in Invokes /\ r = encodeNext(a, markupCallFrame(index, call)) /\ index \in Nat
      BY <2>3, <2>5, <2>6
    <3>2. a \in Accs
      BY <2>2
    <3> HIDE DEF r, call
    <3>3. Calling(a, index + 1, <<call>>, r)
      BY <2>4, <3>1, <3>2, EncodeCall
    <3> QED  BY <3>3 DEF call
  <2> HIDE DEF r
  <2>8. r \in Accs /\ SameNorm(r.n, acc.n)
    BY <2>2, <2>7 DEF Calling, SameNorm
  <2>9. ASSUME NEW name \in Invokes
        PROVE  MadeCount(r.frames, name) = MadeCount(acc.frames, name) + Count(SubSeq(k, 1, i), name)
    <3> DEFINE x == MadeCount(acc.frames, name)
               y == Count(SubSeq(k, 1, i - 1), name)
               z == Count(<<k[i]>>, name)
    <3>1. x \in Nat
      BY <1>3
    <3>2. y \in Nat /\ z \in Nat
      <4>1. SubSeq(k, 1, i - 1) \in Seq(Invokes)
        BY <1>1
      <4>2. <<k[i]>> \in Seq(Invokes)
        BY <2>5
      <4> QED  BY Zenon, <4>1, <4>2, CountConcat
    <3>3. MadeCount(a.frames, name) = x + y
      BY <2>2 DEF Calling
    <3>4. MadeCount(r.frames, name) = MadeCount(a.frames, name) + z
      BY Zenon, <2>7 DEF Calling
    <3>5. Count(SubSeq(k, 1, i), name) = y + z
      BY Zenon, <2>5
    <3> HIDE DEF x, y, z
    <3>6. MadeCount(r.frames, name) = x + Count(SubSeq(k, 1, i), name)
      BY <3>1, <3>2, <3>3, <3>4, <3>5
    <3> QED  BY <3>6 DEF x
  <2>10. \A x \in r.n.toolCallSeen : x < b + i
    BY <2>6, <2>7 DEF Calling
  <2>11. ClientText(r.frames) = ClientText(acc.frames)
    BY <2>2, <2>7 DEF Calling
  <2>12. Calling(acc, b + i, SubSeq(k, 1, i), r)
    BY <2>8, <2>9, <2>10, <2>11 DEF Calling
  <2>13. r \in A[i]
    BY <2>1, <2>8, <2>12
  <2> QED  BY <2>13 DEF r
<1>6. res \in A[m]
  <2> HIDE DEF A, m
  <2> QED  BY Zenon, <1>1, <1>4, <1>5, Encodes!FoldHistory
<1> QED  BY Zenon, <1>1, <1>6

\* A normalizer as the code keeps it: without the repairer nothing is held,
\* with it only made calls have gone out.
NormOK(n) ==
  /\ n \in Norms
  /\ ~n.repair => n.hold = <<>> /\ n.inBlock = FALSE
  /\ n.repair => \A x \in n.toolCallSeen : x < n.nextIndex

\* A single frame.
LEMMA OneFrame ==
  ASSUME NEW f, f \in ClientFrames
  PROVE  /\ <<f>> \in Seq(ClientFrames) /\ ClientText(<<f>>) = f.text
         /\ \A name : MadeCount(<<f>>, name) = Len(Only(f.calls, MadeAs(name)))
<1>1. <<>> \in Seq(ClientFrames) /\ Append(<<>>, f) = <<f>> /\ <<f>> \in Seq(ClientFrames)
  OBVIOUS
<1>2. f.text \in Seq(Pieces)
  BY FrameFields
<1>3. ClientText(Append(<<>>, f)) = ClientText(<<>>) \o f.text
  BY Zenon, <1>1, TextAppend
<1>4. <<>> \o f.text = f.text
  BY <1>2
<1>5. ASSUME NEW name PROVE MadeCount(<<f>>, name) = Len(Only(f.calls, MadeAs(name)))
  <2>1. /\ MadeCount(Append(<<>>, f), name) = MadeCount(<<>>, name) + Len(Only(f.calls, MadeAs(name)))
        /\ Len(Only(f.calls, MadeAs(name))) \in Nat
    BY Zenon, <1>1, MadeAppend
  <2>2. MadeCount(<<>>, name) = 0
    BY MadeNone
  <2> QED  BY <1>1, <2>1, <2>2
<1> QED  BY Zenon, <1>1, <1>3, <1>4, <1>5, ClientEmpty

\* Frames without calls make none.
LEMMA PlainMakesNone ==
  ASSUME NEW F, F \in Seq(PlainFrames)
  PROVE  F \in Seq(ClientFrames) /\ \A name : MadeCount(F, name) = 0
<1>1. PlainFrames \subseteq ClientFrames /\ \A f \in PlainFrames : f.calls = <<>>
  BY DEF PlainFrames
<1>2. F \in Seq(ClientFrames)
  BY <1>1
<1>3. Len(F) \in Nat /\ DOMAIN F = 1 .. Len(F) /\ \A i \in 1 .. Len(F) : F[i] \in PlainFrames
  OBVIOUS
<1> DEFINE A == {<<>>}
<1>4. \A a \in A : \A i \in 1 .. Len(F) : withCalls(a, F[i]) \in A
  BY <1>1, <1>3 DEF withCalls
<1>5. <<>> \in A
  OBVIOUS
<1> HIDE DEF A
<1>6. Gathers!Folded(<<>>, F) \in A
  BY <1>3, <1>4, <1>5, Gathers!FoldInvariant
<1>7. ClientFragments(F) = <<>>
  BY <1>6, ClientIsFold DEF A
<1>8. \A name : MadeCount(F, name) = 0
  BY <1>7, OnlyEmpty DEF MadeCount
<1> QED  BY <1>2, <1>8

\* A frame of text and a finish reason.
LEMMA TextFrame ==
  ASSUME NEW text, IsText(text), NEW reason, reason \in Finishes, NEW kind \in PayloadKinds
  PROVE  /\ Frame(kind, text, <<>>, reason) \in PlainFrames
         /\ Frame(kind, text, <<>>, reason).text = text
<1> DEFINE z == <<>>
           f == Frame(kind, text, z, reason)
<1>1. z \in Seq(AnyFragments) /\ text \in Seq(Pieces)
  BY DEF IsText
<1>2. f = [kind |-> kind, text |-> text, calls |-> z, finish |-> reason]
  BY DEF Frame
<1> HIDE DEF z, f
<1>3. f \in ClientFrames /\ f.calls = z /\ f.text = text
  BY <1>1, <1>2 DEF ClientFrames
<1> QED  BY <1>3 DEF PlainFrames, f, z

\* Encoding frames without calls.
LEMMA EncodesPlain ==
  ASSUME NEW n, n \in Norms, NEW fs, fs \in Seq(PlainFrames)
  PROVE  encode(n, fs) = [n |-> n, frames |-> fs, valid |-> TRUE, done |-> FALSE]
<1> DEFINE acc == [n |-> n, frames |-> <<>>]
<1>1. acc \in Accs /\ acc.n = n /\ acc.frames = <<>>
  BY DEF Accs
<1>2. Encodes!Folded(acc, fs) = [n |-> acc.n, frames |-> acc.frames \o fs]
  <2> HIDE DEF acc
  <2> QED  BY Zenon, <1>1, EncodePlain
<1>3. <<>> \o fs = fs
  OBVIOUS
<1>4. Encodes!Folded(acc, fs) = [n |-> n, frames |-> fs]
  BY <1>1, <1>2, <1>3
<1> DEFINE r == Encodes!Folded(acc, fs)
<1>5. r.n = n /\ r.frames = fs
  BY <1>4
<1>6. encode(n, fs) = [n |-> r.n, frames |-> r.frames, valid |-> TRUE, done |-> FALSE]
  BY EncodeIsFold
<1> HIDE DEF r
<1> QED  BY <1>5, <1>6

\* A text and nothing.
LEMMA NoText == IsText(<<>>) /\ \A t : IsText(t) => t \o <<>> = t /\ <<>> \o t = t
BY DEF IsText

\* Lists of frames without calls.
LEMMA PlainLists ==
  /\ <<>> \in Seq(PlainFrames)
  /\ \A f \in PlainFrames : <<f>> \in Seq(PlainFrames)
  /\ \A s, t \in Seq(PlainFrames) : s \o t \in Seq(PlainFrames)
OBVIOUS

\* At most one frame of text, then at most one without text.
LEMMA TextThenFinish ==
  ASSUME NEW tail, IsText(tail), NEW text, NEW fin,
         text = (IF tail = <<>> THEN <<>> ELSE <<Frame("chunk", tail, <<>>, "")>>),
         fin \in {<<>>, <<finishOnlyFrame("tool_calls")>>}
  PROVE  text \o fin \in Seq(PlainFrames) /\ ClientText(text \o fin) = tail
<1> DEFINE f == Frame("chunk", tail, <<>>, "")
           g == finishOnlyFrame("tool_calls")
<1>1. "chunk" \in PayloadKinds /\ "" \in Finishes /\ "tool_calls" \in Finishes
  BY Zenon DEF PayloadKinds, Finishes
<1>2. IsText(<<>>)
  BY Zenon, NoText
<1>3. f \in PlainFrames /\ f.text = tail
  BY Zenon, <1>1, TextFrame
<1>4. g \in PlainFrames /\ g.text = <<>>
  BY Zenon, <1>1, <1>2, TextFrame DEF finishOnlyFrame
<1>5. fin = <<>> \/ fin = <<g>>
  BY Zenon
<1>5a. text = (IF tail = <<>> THEN <<>> ELSE <<f>>)
  BY Zenon
<1> HIDE DEF f, g
<1>6. f \in ClientFrames /\ g \in ClientFrames
  BY Zenon, <1>3, <1>4 DEF PlainFrames
<1>7. <<>> \in Seq(PlainFrames) /\ <<f>> \in Seq(PlainFrames) /\ <<g>> \in Seq(PlainFrames)
  BY Zenon, <1>3, <1>4, PlainLists
<1>8. text \in Seq(PlainFrames) /\ ClientText(text) = tail
  <2>1. CASE tail = <<>>
    BY <1>5a, <1>7, <2>1, ClientEmpty
  <2>2. CASE tail # <<>>
    BY Zenon, <1>3, <1>5a, <1>6, <1>7, <2>2, OneFrame
  <2> QED  BY Zenon, <2>1, <2>2
<1>9. fin \in Seq(PlainFrames) /\ ClientText(fin) = <<>>
  <2>1. CASE fin = <<>>
    BY Zenon, <1>7, <2>1, ClientEmpty
  <2>2. CASE fin = <<g>>
    BY Zenon, <1>4, <1>6, <1>7, <2>2, OneFrame
  <2> QED  BY Zenon, <1>5, <2>1, <2>2
<1>10. text \o fin \in Seq(PlainFrames)
  BY Zenon, <1>8, <1>9, PlainLists
<1>11. ClientText(text \o fin) = tail \o <<>>
  <2>1. text \in Seq(ClientFrames) /\ fin \in Seq(ClientFrames)
    BY Zenon, <1>8, <1>9, PlainMakesNone
  <2>2. ClientText(text \o fin) = ClientText(text) \o ClientText(fin)
    BY Zenon, <2>1, ClientConcat
  <2> QED  BY Zenon, <1>8, <1>9, <2>2
<1>12. tail \o <<>> = tail
  BY Zenon, NoText
<1> QED  BY Zenon, <1>10, <1>11, <1>12

\* The fields of a normalizer.
LEMMA NormFields ==
  ASSUME NEW n, n \in Norms
  PROVE  /\ n.repair \in BOOLEAN /\ IsText(n.hold) /\ n.inBlock \in BOOLEAN /\ n.nextIndex \in Nat
         /\ n.finished \in BOOLEAN /\ n.toolCallSeen \in SUBSET Int /\ IsText(Flush(n))
<1>1. /\ n.repair \in BOOLEAN /\ IsText(n.hold) /\ n.inBlock \in BOOLEAN /\ n.nextIndex \in Nat
      /\ n.finished \in BOOLEAN /\ n.toolCallSeen \in SUBSET Int
  BY DEF Norms, IsText
<1>2. IsText(<<>>)
  BY DEF IsText
<1> QED  BY <1>1, <1>2, PendingEnd

\* FlushFrames: what is held goes out, and nothing is held any more.
LEMMA FlushCarries ==
  ASSUME NEW n, NormOK(n), NEW res, res = FlushFrames(n)
  PROVE  /\ NormOK(res.n) /\ res.n.hold = <<>> /\ res.n.inBlock = FALSE
         /\ Carried(res.frames, <<>>, Flush(n))
<1>0. n \in Norms
  BY DEF NormOK
<1>1. /\ n.repair \in BOOLEAN /\ IsText(n.hold) /\ n.inBlock \in BOOLEAN /\ n.nextIndex \in Nat
      /\ n.finished \in BOOLEAN /\ n.toolCallSeen \in SUBSET Int /\ IsText(Flush(n))
  BY <1>0, NormFields
<1>2. CASE ~n.repair
  <2>1. n.hold = <<>> /\ n.inBlock = FALSE
    BY <1>2 DEF NormOK
  <2>2. Flush(n) = <<>>
    BY <2>1 DEF Flush
  <2>3. res = [n |-> n, frames |-> <<>>, valid |-> TRUE, done |-> FALSE]
    BY <1>2 DEF FlushFrames
  <2>4. res.n = n /\ res.frames = <<>>
    BY <2>3
  <2>5. <<>> \in Seq(ClientFrames) /\ IsText(<<>>) /\ <<>> \o <<>> = <<>>
    BY DEF IsText
  <2>6. Carried(<<>>, <<>>, <<>>)
    BY Zenon, <2>5, ClientEmpty, MadeNone, CarriedText
  <2> QED  BY <2>1, <2>2, <2>4, <2>6
<1>3. CASE n.repair
  <2> DEFINE tail == Flush(n)
             text == IF tail = <<>> THEN <<>> ELSE <<Frame("chunk", tail, <<>>, "")>>
             ends == n.nextIndex > 0 /\ ~n.finished
             fin  == IF ends THEN <<finishOnlyFrame("tool_calls")>> ELSE <<>>
             left == [n EXCEPT !.hold = <<>>, !.inBlock = FALSE, !.finished = @ \/ ends]
             fs == text \o fin
  <2>1. res = encode(left, fs)
    BY Zenon, <1>3 DEF FlushFrames
  <2>2. fs \in Seq(PlainFrames) /\ ClientText(fs) = tail
    <3>1. IsText(tail)
      BY <1>1
    <3>2. fin \in {<<>>, <<finishOnlyFrame("tool_calls")>>}
      OBVIOUS
    <3> HIDE DEF tail, fin
    <3> QED  BY Zenon, <3>1, <3>2, TextThenFinish
  <2>3. /\ left \in Norms /\ left.hold = <<>> /\ left.inBlock = FALSE /\ left.repair = n.repair
        /\ left.toolCallSeen = n.toolCallSeen /\ left.nextIndex = n.nextIndex
    <3>1. (n.finished \/ ends) \in BOOLEAN
      BY <1>1
    <3> DEFINE b == n.finished \/ ends
               z == <<>>
    <3>2. left = [n EXCEPT !.hold = z, !.inBlock = FALSE, !.finished = b] /\ z \in Seq(Pieces)
      OBVIOUS
    <3> HIDE DEF b, left, z
    <3>3. /\ left \in Norms /\ left.hold = z /\ left.inBlock = FALSE /\ left.repair = n.repair
          /\ left.toolCallSeen = n.toolCallSeen /\ left.nextIndex = n.nextIndex
      BY Zenon, <1>0, <3>1, <3>2 DEF Norms, b
    <3> QED  BY <3>3 DEF z
  <2> HIDE DEF fs, left
  <2>4. res = [n |-> left, frames |-> fs, valid |-> TRUE, done |-> FALSE]
    BY <2>1, <2>2, <2>3, EncodesPlain
  <2>5. res.n = left /\ res.frames = fs
    BY <2>4
  <2>6. NormOK(left)
    BY <1>3, <2>3 DEF NormOK
  <2>7. fs \in Seq(ClientFrames) /\ \A name : MadeCount(fs, name) = 0
    BY <2>2, PlainMakesNone
  <2>8. IsText(<<>>) /\ ClientText(fs) \o <<>> = tail
    BY <1>1, <2>2 DEF IsText
  <2>9. Carried(fs, <<>>, tail)
    BY Zenon, <2>7, <2>8, CarriedText
  <2> QED  BY <2>3, <2>5, <2>6, <2>9
<1> QED  BY Zenon, <1>1, <1>2, <1>3

\* res is what encoding with left gives of the text text and the calls k.
Repaired(left, text, k, res) ==
  /\ SameNorm(res.n, left) /\ res.frames \in Seq(ClientFrames)
  /\ \A x \in res.n.toolCallSeen : x < left.nextIndex
  /\ ClientText(res.frames) = text
  /\ \A name \in Invokes : MadeCount(res.frames, name) = Count(k, name)

\* The frames of made calls.
LEMMA MadeList ==
  ASSUME NEW b \in Nat, NEW k, k \in Seq(Invokes), NEW made, made = [i \in DOMAIN k |-> markupCallFrame(b + i - 1, k[i])]
  PROVE  made \in Seq(ClientFrames) /\ (made = <<>> => k = <<>>)
<1>1. Len(k) \in Nat /\ DOMAIN k = 1 .. Len(k) /\ \A i \in 1 .. Len(k) : k[i] \in Invokes
  OBVIOUS
<1>2. \A i \in 1 .. Len(k) : b + i - 1 \in Nat
  BY <1>1
<1>3. \A i \in 1 .. Len(k) : markupCallFrame(b + i - 1, k[i]) \in ClientFrames
  BY <1>1, <1>2, MadeFrame
<1>4. made \in [1 .. Len(k) -> ClientFrames]
  BY <1>1, <1>3
<1>5. made \in Seq(ClientFrames) /\ Len(made) = Len(k)
  BY <1>1, <1>4
<1>6. made = <<>> => Len(k) = 0
  BY <1>5
<1> QED  BY <1>5, <1>6

\* Text, made calls and what ends them.
LEMMA EncodeRepair ==
  ASSUME NEW left, left \in Norms, NEW b \in Nat, \A x \in left.toolCallSeen : x < b,
         NEW k, k \in Seq(Invokes), left.nextIndex = b + Len(k),
         NEW made, made = [i \in DOMAIN k |-> markupCallFrame(b + i - 1, k[i])],
         NEW g, g \in PlainFrames, NEW fin, fin \in Seq(PlainFrames), ClientText(fin) = <<>>,
         NEW res, res = encode(left, <<g>> \o made \o fin)
  PROVE  Repaired(left, g.text, k, res)
<1> DEFINE acc0 == [n |-> left, frames |-> <<>>]
           one == <<g>>
           acc1 == Encodes!Folded(acc0, one)
           acc2 == Encodes!Folded(acc1, made)
           acc3 == Encodes!Folded(acc2, fin)
           all == one \o made \o fin
<1>1. acc0 \in Accs /\ acc0.n = left /\ acc0.frames = <<>>
  BY DEF Accs
<1>2. one \in Seq(PlainFrames) /\ made \in Seq(ClientFrames)
  BY Zenon, PlainLists, MadeList
<1>3. one \in Seq(ClientFrames) /\ fin \in Seq(ClientFrames) /\ \A name : MadeCount(one, name) = 0 /\ MadeCount(fin, name) = 0
  BY Zenon, <1>2, PlainMakesNone
<1>4. g \in ClientFrames /\ ClientText(one) = g.text
  BY OneFrame DEF PlainFrames
<1> HIDE DEF acc0, one
<1>5. acc1 = [n |-> left, frames |-> one] /\ acc1 \in Accs
  <2>1. acc1 = [n |-> acc0.n, frames |-> acc0.frames \o one] /\ acc1 \in Accs
    BY Zenon, <1>1, <1>2, EncodePlain DEF one
  <2>2. <<>> \o one = one
    BY <1>2
  <2> QED  BY <1>1, <2>1, <2>2
<1> HIDE DEF acc1
<1>6. acc1.n = left /\ acc1.frames = one
  BY <1>5
<1>7. Calling(acc1, b + Len(k), k, acc2)
  BY Zenon, <1>5, <1>6, EncodeMade
<1> HIDE DEF acc2
<1>8. acc2 \in Accs
  BY <1>7 DEF Calling
<1>9. acc3 = [n |-> acc2.n, frames |-> acc2.frames \o fin]
  BY <1>8, EncodePlain
<1> HIDE DEF acc3
<1>10. Encodes!Folded(acc0, all) = acc3
  <2> DEFINE om == one \o made
  <2>1. om \in Seq(ClientFrames)
    BY <1>2, <1>3, FramesJoin
  <2>2. Encodes!Folded(acc0, om) = acc2
    <3>1. one \in Seq(ClientFrames) /\ made \in Seq(ClientFrames)
      BY <1>2, <1>3
    <3>2. Encodes!Folded(acc0, one \o made) = Encodes!Folded(Encodes!Folded(acc0, one), made)
      BY <3>1, Encodes!FoldConcat
    <3> QED  BY <3>2 DEF acc1, acc2
  <2> HIDE DEF om
  <2>3. Encodes!Folded(acc0, om \o fin) = Encodes!Folded(Encodes!Folded(acc0, om), fin)
    BY <1>3, <2>1, Encodes!FoldConcat
  <2>4. Encodes!Folded(acc0, om \o fin) = acc3
    BY <2>2, <2>3 DEF acc3
  <2> QED  BY <2>4 DEF om
<1>11. res.n = acc3.n /\ res.frames = acc3.frames
  <2>1. res = [n |-> Encodes!Folded(acc0, all).n, frames |-> Encodes!Folded(acc0, all).frames, valid |-> TRUE, done |-> FALSE]
    BY Zenon, EncodeIsFold DEF acc0, one
  <2> QED  BY <1>10, <2>1
<1>12. res.n = acc2.n /\ res.frames = acc2.frames \o fin
  BY Zenon, <1>9, <1>11
<1>13. SameNorm(res.n, left) /\ \A x \in res.n.toolCallSeen : x < left.nextIndex
  BY Zenon, <1>6, <1>7, <1>12 DEF Calling
<1>14. acc2.frames \in Seq(ClientFrames)
  BY <1>8 DEF Accs
<1>15. res.frames \in Seq(ClientFrames)
  BY Zenon, <1>3, <1>12, <1>14, FramesJoin
<1>16. ClientText(res.frames) = g.text
  <2>1. ClientText(acc2.frames \o fin) = ClientText(acc2.frames) \o ClientText(fin)
    BY Zenon, <1>3, <1>14, ClientConcat
  <2>2. ClientText(acc2.frames) = g.text
    BY <1>4, <1>6, <1>7 DEF Calling
  <2>3. g.text \o <<>> = g.text
    <3>1. IsText(g.text)
      BY <1>4, FrameFields DEF IsText
    <3> QED  BY <3>1, NoText
  <2> QED  BY Zenon, <1>12, <2>1, <2>2, <2>3
<1>17. ASSUME NEW name \in Invokes PROVE MadeCount(res.frames, name) = Count(k, name)
  <2>1. MadeCount(acc2.frames \o fin, name) = MadeCount(acc2.frames, name) + MadeCount(fin, name)
    BY <1>3, <1>14, MadeConcat
  <2>2. MadeCount(acc2.frames, name) = MadeCount(one, name) + Count(k, name)
    BY <1>6, <1>7 DEF Calling
  <2>3. MadeCount(one, name) = 0 /\ MadeCount(fin, name) = 0
    BY <1>3
  <2>4. Count(k, name) \in Nat
    BY CountConcat
  <2> DEFINE x == MadeCount(acc2.frames, name)
             y == Count(k, name)
  <2>5. x = 0 + y /\ y \in Nat /\ MadeCount(acc2.frames \o fin, name) = x + 0
    BY <2>1, <2>2, <2>3, <2>4
  <2> HIDE DEF x, y
  <2>6. MadeCount(acc2.frames \o fin, name) = y
    BY <2>5
  <2> QED  BY Zenon, <1>12, <2>6 DEF y
<1> QED  BY Zenon, <1>13, <1>15, <1>16, <1>17 DEF Repaired

\* The fields of a line.
LEMMA PayloadFields ==
  ASSUME NEW p, IsPayload(p)
  PROVE  /\ p.kind \in PayloadKinds /\ IsText(p.text) /\ p.calls \in Seq(AnyFragments) /\ p.finish \in Finishes
         /\ p.finish \in STRING /\ ChunkFrame(p) \in ClientFrames
         /\ ChunkFrame(p).text = p.text /\ ChunkFrame(p).calls = p.calls
         /\ p.kind \notin {"chunk", "multi"} => p.text = <<>> /\ p.calls = <<>>
         /\ \A c \in ToSet(p.calls) : c.id # "made"
<1>1. /\ p.kind \in PayloadKinds /\ p.text \in Seq(Pieces) /\ p.calls \in Seq(Fragments) /\ p.finish \in STRING
      /\ p.kind \notin {"chunk", "multi"} => p.text = <<>> /\ p.calls = <<>>
      /\ \A c \in ToSet(p.calls) : c.id # "made"
  BY Zenon DEF IsPayload
<1>2. Fragments \subseteq AnyFragments
  BY Zenon DEF Fragments, AnyFragments, FragmentIds, FragmentNames, FragmentArgs
<1>3. p.calls \in Seq(AnyFragments)
  <2> DEFINE s == p.calls
  <2>1. s \in Seq(Fragments)
    BY <1>1
  <2> HIDE DEF s
  <2>2. s \in Seq(AnyFragments)
    BY <1>2, <2>1
  <2> QED  BY <2>2 DEF s
<1>4. p.finish \in Finishes
  BY Zenon, <1>1 DEF Finishes
<1> DEFINE f == ChunkFrame(p)
<1>5. f = [kind |-> p.kind, text |-> p.text, calls |-> p.calls, finish |-> p.finish]
  BY DEF ChunkFrame, Frame
<1> HIDE DEF f
<1>6. f \in ClientFrames /\ f.text = p.text /\ f.calls = p.calls
  BY <1>1, <1>3, <1>4, <1>5 DEF ClientFrames
<1>7. IsText(p.text)
  BY <1>1 DEF IsText
<1> QED  BY <1>1, <1>3, <1>4, <1>6, <1>7 DEF f

\* What repairText leaves the normalizer with, and the text it shows.
LeftBy(n, fed, ending) ==
  [n EXCEPT !.hold = IF ending THEN <<>> ELSE fed.hold,
            !.inBlock = ~ending /\ fed.inBlock,
            !.nextIndex = @ + Len(fed.calls),
            !.finished = @ \/ ending]

ShownBy(fed, ending) == fed.emit \o (IF ending THEN Flush(fed) ELSE <<>>)

\* What is shown and what is still held are the fed text.
Leaves(n, fed, left, visible) ==
  /\ left \in Norms /\ left.toolCallSeen = n.toolCallSeen /\ left.repair = n.repair
  /\ left.nextIndex = n.nextIndex + Len(fed.calls)
  /\ visible \o Flush(left) = fed.emit \o Flush(fed)
  /\ IsText(visible) /\ IsText(Flush(left))

\* A line leaves nothing behind, whether it ends the answer or not.
LEMMA RepairLeaves ==
  ASSUME NEW n, n \in Norms, NEW fed, fed \in FeedStates, NEW ending \in BOOLEAN
  PROVE  Leaves(n, fed, LeftBy(n, fed, ending), ShownBy(fed, ending))
<1> DEFINE left == LeftBy(n, fed, ending)
           visible == ShownBy(fed, ending)
<1>1. /\ fed.hold \in Seq(Pieces) /\ fed.inBlock \in BOOLEAN /\ fed.calls \in Seq(Invokes) /\ fed.emit \in Seq(Pieces)
  BY DEF FeedStates
<1>2. n.nextIndex \in Nat /\ n.finished \in BOOLEAN
  BY DEF Norms
<1> DEFINE h == IF ending THEN <<>> ELSE fed.hold
           i == ~ending /\ fed.inBlock
           x == n.nextIndex + Len(fed.calls)
           d == n.finished \/ ending
<1>3. h \in Seq(Pieces) /\ i \in BOOLEAN /\ d \in BOOLEAN
  BY <1>1, <1>2
<1>4. x \in Nat
  <2>1. Len(fed.calls) \in Nat
    BY <1>1
  <2> QED  BY <1>2, <2>1
<1>5. left = [n EXCEPT !.hold = h, !.inBlock = i, !.nextIndex = x, !.finished = d]
  BY DEF LeftBy
<1>5a. visible = fed.emit \o (IF ending THEN Flush(fed) ELSE <<>>)
  BY DEF ShownBy
<1>6. ending => h = <<>> /\ i = FALSE
  OBVIOUS
<1>7. ~ending => h = fed.hold /\ i = fed.inBlock
  BY <1>1
<1> DEFINE e == fed.emit
           t == Flush(fed)
<1>8. IsText(e) /\ IsText(t)
  <2>1. IsText(e) /\ IsText(fed.hold)
    BY <1>1 DEF IsText
  <2> QED  BY <1>1, <2>1, PendingEnd
<1> HIDE DEF h, i, x, d, e, t, left, visible
<1>9. /\ left \in Norms /\ left.toolCallSeen = n.toolCallSeen /\ left.repair = n.repair /\ left.nextIndex = x
      /\ left.hold = h /\ left.inBlock = i
  BY Zenon, <1>3, <1>4, <1>5 DEF Norms
<1>10. IsText(Flush(left))
  BY <1>9, NormFields
<1>5b. visible = e \o (IF ending THEN t ELSE <<>>)
  BY <1>5a DEF e, t
<1>11. IsText(visible) /\ visible \o Flush(left) = e \o t
  <2>1. CASE ending
    <3>1. Flush(left) = <<>>
      BY <1>6, <1>9, <2>1 DEF Flush
    <3>2. IsText(e \o t)
      BY <1>8, TextsJoin
    <3>3. (e \o t) \o <<>> = e \o t
      BY <3>2, NoText
    <3>4. visible = e \o t
      BY <1>5b, <2>1
    <3> QED  BY <3>1, <3>2, <3>3, <3>4
  <2>2. CASE ~ending
    <3>1. Flush(left) = t
      BY <1>7, <1>9, <2>2 DEF Flush, t
    <3>2. e \o <<>> = e
      BY <1>8, NoText
    <3>3. visible = e
      BY <1>5b, <2>2, <3>2
    <3> QED  BY <1>8, <3>1, <3>3
  <2> QED  BY Zenon, <2>1, <2>2
<1>12. Leaves(n, fed, left, visible)
  BY <1>9, <1>10, <1>11 DEF Leaves, e, t, x
<1> QED  BY <1>12 DEF left, visible

\* A line of text: what was held and the text go out, are held, or became
\* calls.
LEMMA RepairCarries ==
  ASSUME NEW n, NormOK(n), n.repair, NEW p, IsPayload(p), p.delta, NEW res, res = repairText(n, p)
  PROVE  NormOK(res.n) /\ Carried(res.frames, Flush(res.n), Flush(n) \o p.text)
<1> DEFINE fed     == Feed(n, p.text)
           ending  == p.finish # ""
           visible == fed.emit \o (IF ending THEN Flush(fed) ELSE <<>>)
           shown   == IF p.delta THEN visible ELSE <<>>
           reason  == IF p.finish = "stop" /\ n.nextIndex + Len(fed.calls) > 0
                        THEN "tool_calls" ELSE p.finish
           made    == [i \in DOMAIN fed.calls |-> markupCallFrame(n.nextIndex + i - 1, fed.calls[i])]
           left    == [n EXCEPT !.hold = IF ending THEN <<>> ELSE fed.hold,
                                !.inBlock = ~ending /\ fed.inBlock,
                                !.nextIndex = @ + Len(fed.calls),
                                !.finished = @ \/ ending]
           end == IF ending THEN <<finishOnlyFrame(reason)>> ELSE <<>>
           u == Flush(n) \o p.text
           k == fed.calls
<1>0. n \in Norms /\ \A x \in n.toolCallSeen : x < n.nextIndex
  BY DEF NormOK
<1>0a. n.nextIndex \in Nat /\ n.hold \in Seq(Pieces) /\ n.inBlock \in BOOLEAN
  BY <1>0 DEF Norms
<1>1. IsText(p.text) /\ p.finish \in Finishes
  BY PayloadFields
<1>2. res = encode(left, IF made = <<>> THEN <<Frame("chunk", shown, <<>>, reason)>>
                         ELSE <<Frame("chunk", shown, <<>>, "")>> \o made \o end)
  BY Zenon DEF repairText
<1>2a. shown = visible
  BY Zenon
<1>3. fed \in FeedStates /\ Balanced(fed.emit \o Flush(fed), k, u)
  <2>1. p.text \in Seq(Pieces)
    BY <1>1 DEF IsText
  <2> QED  BY <1>0a, <2>1, FeedKeeps
<1>4. reason \in Finishes /\ "" \in Finishes /\ "chunk" \in PayloadKinds
  <2>1. "tool_calls" \in Finishes /\ "" \in Finishes /\ "chunk" \in PayloadKinds
    BY DEF Finishes, PayloadKinds
  <2> QED  BY Zenon, <1>1, <2>1
<1> HIDE DEF fed, u
<1>5. /\ left \in Norms /\ left.toolCallSeen = n.toolCallSeen /\ left.repair = n.repair
      /\ left.nextIndex = n.nextIndex + Len(fed.calls)
      /\ visible \o Flush(left) = fed.emit \o Flush(fed)
      /\ IsText(visible) /\ IsText(Flush(left))
  <2>1. ending \in BOOLEAN
    OBVIOUS
  <2>2. left = LeftBy(n, fed, ending) /\ visible = ShownBy(fed, ending)
    BY DEF LeftBy, ShownBy
  <2> HIDE DEF ending, left, visible
  <2>3. Leaves(n, fed, LeftBy(n, fed, ending), ShownBy(fed, ending))
    BY <1>0, <1>3, <2>1, RepairLeaves
  <2> QED  BY <2>2, <2>3 DEF Leaves
<1>6. k \in Seq(Invokes)
  BY <1>3 DEF FeedStates
<1> HIDE DEF k, reason, visible, shown
<1>7. Repaired(left, visible, k, res)
  <2>1. CASE made = <<>>
    <3> DEFINE f == Frame("chunk", shown, <<>>, reason)
    <3>1. f \in PlainFrames /\ f.text = visible
      BY Zenon, <1>2a, <1>4, <1>5, TextFrame
    <3>2. res = encode(left, <<f>>)
      BY <1>2, <2>1
    <3> HIDE DEF f, made, left
    <3>3. <<f>> \in Seq(PlainFrames)
      BY <3>1, PlainLists
    <3>4. res = [n |-> left, frames |-> <<f>>, valid |-> TRUE, done |-> FALSE]
      BY Zenon, <1>5, <3>2, <3>3, EncodesPlain
    <3>5. res.n = left /\ res.frames = <<f>>
      BY <3>4
    <3>6. <<f>> \in Seq(ClientFrames) /\ \A name : MadeCount(<<f>>, name) = 0
      BY Zenon, <3>3, PlainMakesNone
    <3>7. f \in ClientFrames
      BY <3>1 DEF PlainFrames
    <3>8. ClientText(<<f>>) = visible
      BY <3>1, <3>7, OneFrame
    <3>9. k = <<>>
      BY <1>0a, <1>6, <2>1, MadeList DEF made, k
    <3>10. \A name \in Invokes : Count(k, name) = 0
      BY <3>9, CountEmpty
    <3>11. \A x \in left.toolCallSeen : x < left.nextIndex
      <4>1. Len(k) = 0
        BY <3>9
      <4>2. left.nextIndex = n.nextIndex
        BY <1>0a, <1>5, <4>1 DEF k
      <4> QED  BY <1>0, <1>5, <4>2
    <3>12. SameNorm(left, left)
      BY <1>5 DEF SameNorm
    <3> QED  BY <3>5, <3>6, <3>8, <3>10, <3>11, <3>12 DEF Repaired
  <2>2. CASE made # <<>>
    <3> DEFINE g == Frame("chunk", shown, <<>>, "")
    <3>1. g \in PlainFrames /\ g.text = visible
      BY Zenon, <1>2a, <1>4, <1>5, TextFrame
    <3>2. res = encode(left, <<g>> \o made \o end)
      BY Zenon, <1>2, <2>2
    <3>3. end \in Seq(PlainFrames) /\ ClientText(end) = <<>>
      <4> DEFINE f == finishOnlyFrame(reason)
      <4>1. f \in PlainFrames /\ f.text = <<>>
        BY Zenon, <1>4, NoText, TextFrame DEF finishOnlyFrame
      <4>2. end = <<f>> \/ end = <<>>
        BY Zenon
      <4> HIDE DEF f, end
      <4>3. f \in ClientFrames
        BY <4>1 DEF PlainFrames
      <4>4. ClientText(<<f>>) = <<>> /\ <<f>> \in Seq(PlainFrames) /\ <<>> \in Seq(PlainFrames)
        BY <4>1, <4>3, OneFrame, PlainLists
      <4> QED  BY Zenon, <4>2, <4>4, ClientEmpty
    <3> DEFINE b == n.nextIndex
    <3>4. /\ left \in Norms /\ b \in Nat /\ (\A x \in left.toolCallSeen : x < b) /\ left.nextIndex = b + Len(k)
          /\ made = [i \in DOMAIN k |-> markupCallFrame(b + i - 1, k[i])]
      BY <1>0, <1>0a, <1>5 DEF k
    <3> HIDE DEF g, end, left, made, b
    <3>5. Repaired(left, g.text, k, res)
      BY Zenon, <1>6, <3>1, <3>2, <3>3, <3>4, EncodeRepair
    <3> QED  BY <3>1, <3>5
  <2> QED  BY <2>1, <2>2
<1> HIDE DEF left, made
<1>8. NormOK(res.n)
  <2>1. res.n \in Norms /\ res.n.repair = n.repair /\ res.n.nextIndex = left.nextIndex
    BY <1>5, <1>7 DEF Repaired, SameNorm
  <2>2. \A x \in res.n.toolCallSeen : x < res.n.nextIndex
    BY <1>7, <2>1 DEF Repaired
  <2> QED  BY <2>1, <2>2 DEF NormOK
<1>9. Flush(res.n) = Flush(left)
  BY <1>7 DEF Repaired, SameNorm, Flush
<1>10. Balanced(ClientText(res.frames) \o Flush(res.n), k, u)
  <2>1. ClientText(res.frames) = visible
    BY <1>7 DEF Repaired
  <2> QED  BY Zenon, <1>3, <1>5, <1>9, <2>1
<1>11. res.frames \in Seq(ClientFrames) /\ \A name \in Invokes : MadeCount(res.frames, name) = Count(k, name)
  BY <1>7 DEF Repaired
<1>12. Flush(res.n) \in Seq(Pieces)
  BY <1>5, <1>9 DEF IsText
<1>13. Carried(res.frames, Flush(res.n), u)
  BY <1>6, <1>10, <1>11, <1>12 DEF Carried
<1> QED  BY <1>8, <1>13 DEF u

\* A line is passed on: what was held and its text go out, are held, or became
\* calls.
LineOK(n, p, res) ==
  NormOK(res.n) /\ Carried(res.frames, Flush(res.n), Flush(n) \o p.text)

\* A line without calls that goes out as it is.
LEMMA PassCarries ==
  ASSUME NEW n, NormOK(n), NEW p, IsPayload(p), p.calls = <<>>, p.text = <<>> \/ Flush(n) = <<>>
  PROVE  ChunkFrame(p) \in PlainFrames /\ Carried(<<ChunkFrame(p)>>, Flush(n), Flush(n) \o p.text)
<1> DEFINE f == ChunkFrame(p)
           t == Flush(n)
           v == p.text
<1>1. f \in ClientFrames /\ f.calls = <<>> /\ f.text = v /\ IsText(v)
  BY PayloadFields
<1>2. IsText(t)
  BY NormFields DEF NormOK
<1>3. f \in PlainFrames
  BY <1>1 DEF PlainFrames
<1>4. v = <<>> \/ t = <<>>
  OBVIOUS
<1> HIDE DEF f, t, v
<1>5. v \o t = t \o v
  BY <1>1, <1>2, <1>4, NoText
<1>6. <<f>> \in Seq(ClientFrames) /\ ClientText(<<f>>) = v
  BY <1>1, OneFrame
<1>7. <<f>> \in Seq(PlainFrames)
  BY <1>3, PlainLists
<1>8. \A name : MadeCount(<<f>>, name) = 0
  BY Zenon, <1>7, PlainMakesNone
<1>9. Carried(<<f>>, t, t \o v)
  BY Zenon, <1>2, <1>5, <1>6, <1>8, CarriedText
<1> QED  BY <1>3, <1>9 DEF f, t, v

\* Nothing is held behind a flush.
LEMMA FlushEmpties ==
  ASSUME NEW n, NormOK(n), NEW res, res = FlushFrames(n)
  PROVE  NormOK(res.n) /\ Flush(res.n) = <<>> /\ Carried(res.frames, <<>>, Flush(n)) /\ res.frames \in Seq(ClientFrames)
<1>1. /\ NormOK(res.n) /\ res.n.hold = <<>> /\ res.n.inBlock = FALSE
      /\ Carried(res.frames, <<>>, Flush(n))
  BY Zenon, FlushCarries
<1>2. Flush(res.n) = <<>>
  BY <1>1 DEF Flush
<1>3. res.frames \in Seq(ClientFrames)
  BY <1>1 DEF Carried
<1> QED  BY <1>1, <1>2, <1>3

\* What is held goes out, and then a frame without made calls.
LEMMA FlushThen ==
  ASSUME NEW n, NormOK(n), NEW res, res = FlushFrames(n), NEW f \in ClientFrames,
         \A name : Only(f.calls, MadeAs(name)) = <<>>
  PROVE  Carried(Append(res.frames, f), <<>>, Flush(n) \o f.text)
<1> DEFINE F == res.frames
           t == Flush(n)
           v == f.text
           z == <<>>
           G == <<f>>
<1>1. Carried(F, z, t) /\ F \in Seq(ClientFrames)
  BY FlushEmpties
<1>2. IsText(v) /\ IsText(z)
  BY FrameFields, NoText DEF IsText
<1>3. G \in Seq(ClientFrames) /\ ClientText(G) = v /\ \A name : MadeCount(G, name) = Len(Only(f.calls, MadeAs(name)))
  BY OneFrame
<1>4. \A name : MadeCount(G, name) = 0
  BY <1>3
<1>5. Append(F, f) = F \o G
  BY <1>1
<1>6. z \o v = v /\ v \o z = v
  BY <1>2, NoText
<1> HIDE DEF F, t, v, z, G
<1>7. Carried(G, z, z \o v)
  BY <1>2, <1>3, <1>4, <1>6, CarriedText
<1>8. Carried(F \o G, z, t \o v)
  BY <1>1, <1>2, <1>7, CarriedOn
<1> QED  BY <1>5, <1>8 DEF F, t, v, z, G

\* The repairer is gone.
LEMMA RepairGone ==
  ASSUME NEW n, n \in Norms, NEW m, m = [n EXCEPT !.repair = FALSE]
  PROVE  m \in Norms /\ ~m.repair /\ m.hold = n.hold /\ m.inBlock = n.inBlock
BY Zenon DEF Norms

\* A line with several choices or with calls of its own.
LEMMA StructuredCarries ==
  ASSUME NEW n, NormOK(n), NEW p, IsPayload(p), NEW res, res = passStructured(n, p)
  PROVE  LineOK(n, p, res)
<1> DEFINE flushed == FlushFrames(n)
           m == [flushed.n EXCEPT !.repair = FALSE]
           f == ChunkFrame(p)
           last == Normalize(m, f)
<1>1. res = [n |-> last.n, frames |-> Append(flushed.frames, last.frame), valid |-> TRUE, done |-> FALSE]
  BY DEF passStructured
<1>2. res.n = last.n /\ res.frames = Append(flushed.frames, last.frame)
  BY <1>1
<1>3. NormOK(flushed.n) /\ flushed.n.hold = <<>> /\ flushed.n.inBlock = FALSE
  BY Zenon, FlushCarries
<1>4. f \in ClientFrames /\ f.text = p.text /\ f.calls = p.calls /\ p.calls \in Seq(AnyFragments)
      /\ \A c \in ToSet(p.calls) : c.id # "made"
  BY PayloadFields
<1> HIDE DEF flushed, f
<1>5. flushed.n \in Norms
  BY <1>3 DEF NormOK
<1>6. m \in Norms /\ ~m.repair /\ m.hold = <<>> /\ m.inBlock = FALSE
  <2>1. m \in Norms /\ ~m.repair /\ m.hold = flushed.n.hold /\ m.inBlock = flushed.n.inBlock
    BY <1>5, RepairGone
  <2> QED  BY <1>3, <2>1
<1> HIDE DEF m
<1>7. /\ SameNorm(last.n, m) /\ last.frame \in ClientFrames
      /\ last.frame.text = f.text /\ last.frame.calls = stripToolCallNames(f.calls, m.toolCallSeen)
  BY <1>4, <1>6, NormalizeKeeps
<1> HIDE DEF last
<1>8. NormOK(last.n) /\ Flush(last.n) = <<>>
  <2>1. last.n \in Norms /\ ~last.n.repair /\ last.n.hold = <<>> /\ last.n.inBlock = FALSE
    BY <1>6, <1>7 DEF SameNorm
  <2> QED  BY <2>1 DEF NormOK, Flush
<1>9. \A name : Only(last.frame.calls, MadeAs(name)) = <<>>
  <2>1. \A name : Only(stripToolCallNames(p.calls, m.toolCallSeen), MadeAs(name)) = <<>>
    BY <1>4, StripKeeps
  <2> QED  BY <1>4, <1>7, <2>1
<1>10. Carried(Append(flushed.frames, last.frame), <<>>, Flush(n) \o last.frame.text)
  BY <1>7, <1>9, FlushThen DEF flushed
<1>11. Carried(res.frames, Flush(res.n), Flush(n) \o p.text)
  BY <1>2, <1>4, <1>7, <1>8, <1>10
<1> QED  BY <1>2, <1>8, <1>11 DEF LineOK

\* Which way a line takes.
LEMMA LineKinds ==
  ASSUME NEW n, NEW p, p.kind \in PayloadKinds, p.kind \notin {"chunk", "multi"} => p.calls = <<>>
  PROVE  /\ p.kind = "done" => NormalizeFrames(n, p) = [FlushFrames(n) EXCEPT !.valid = FALSE, !.done = TRUE]
         /\ p.kind = "junk" => NormalizeFrames(n, p) = [n |-> n, frames |-> <<ChunkFrame(p)>>, valid |-> FALSE, done |-> FALSE]
         /\ p.kind = "error" => NormalizeFrames(n, p) = [FlushFrames(n) EXCEPT !.frames = Append(@, ChunkFrame(p))]
         /\ p.kind = "multi" \/ p.calls # <<>> => NormalizeFrames(n, p) = passStructured(n, p)
         /\ p.kind = "usage" \/ (p.kind = "chunk" /\ p.calls = <<>> /\ ~n.repair) =>
              NormalizeFrames(n, p) = encode(n, <<ChunkFrame(p)>>)
         /\ p.kind = "chunk" /\ p.calls = <<>> /\ n.repair => NormalizeFrames(n, p) = repairText(n, p)
<1> DEFINE a == [FlushFrames(n) EXCEPT !.valid = FALSE, !.done = TRUE]
           b == [n |-> n, frames |-> <<ChunkFrame(p)>>, valid |-> FALSE, done |-> FALSE]
           c == [FlushFrames(n) EXCEPT !.frames = Append(@, ChunkFrame(p))]
           d == passStructured(n, p)
           e == encode(n, <<ChunkFrame(p)>>)
           r == repairText(n, p)
           k == p.kind
           s == p.calls # <<>>
<1>1. NormalizeFrames(n, p) =
        CASE k = "done" -> a [] k = "junk" -> b [] k = "error" -> c
          [] k = "multi" \/ s -> d
          [] k = "usage" \/ (k = "chunk" /\ p.calls = <<>> /\ ~n.repair) -> e
          [] OTHER -> r
  BY DEF NormalizeFrames
<1>2. k \in {"chunk", "multi", "usage", "junk", "error", "done"} /\ (s => k \in {"chunk", "multi"}) /\ (p.calls = <<>> <=> ~s)
  BY DEF PayloadKinds
<1> HIDE DEF a, b, c, d, e, r, k, s
<1>3. k = "done" => NormalizeFrames(n, p) = a
  BY <1>1, <1>2
<1>4. k = "junk" => NormalizeFrames(n, p) = b
  BY <1>1, <1>2
<1>5. k = "error" => NormalizeFrames(n, p) = c
  BY <1>1, <1>2
<1>6. k = "multi" \/ s => NormalizeFrames(n, p) = d
  BY <1>1, <1>2
<1>7. k = "usage" \/ (k = "chunk" /\ p.calls = <<>> /\ ~n.repair) => NormalizeFrames(n, p) = e
  BY <1>1, <1>2
<1>8. k = "chunk" /\ p.calls = <<>> /\ n.repair => NormalizeFrames(n, p) = r
  BY <1>1, <1>2
<1> QED  BY <1>3, <1>4, <1>5, <1>6, <1>7, <1>8 DEF a, b, c, d, e, r, k, s

\* NormalizeFrames on any line with a delta.
LEMMA LineCarries ==
  ASSUME NEW n, NormOK(n), NEW p, IsPayload(p), p.delta
  PROVE  LineOK(n, p, NormalizeFrames(n, p))
<1> DEFINE res == NormalizeFrames(n, p)
           flushed == FlushFrames(n)
           f == ChunkFrame(p)
<1>1. /\ p.kind \in PayloadKinds /\ IsText(p.text)
      /\ p.kind \notin {"chunk", "multi"} => p.text = <<>> /\ p.calls = <<>>
  BY PayloadFields
<1>1a. IsText(Flush(n))
  BY NormFields DEF NormOK
<1>1b. NormOK(flushed.n) /\ Flush(flushed.n) = <<>> /\ Carried(flushed.frames, <<>>, Flush(n)) /\ flushed.frames \in Seq(ClientFrames)
  BY FlushEmpties
<1>2. CASE p.kind = "done"
  <2>1. res = [flushed EXCEPT !.valid = FALSE, !.done = TRUE]
    BY Zenon, <1>1, <1>2, LineKinds
  <2>2. p.text = <<>>
    BY <1>1, <1>2
  <2> HIDE DEF res, flushed
  <2>3. res.n = flushed.n /\ res.frames = flushed.frames
    BY <2>1
  <2>4. Flush(n) \o p.text = Flush(n)
    BY <1>1a, <2>2, NoText
  <2> QED  BY <1>1b, <2>3, <2>4 DEF LineOK, res
<1>3. CASE p.kind = "junk"
  <2>1. res = [n |-> n, frames |-> <<f>>, valid |-> FALSE, done |-> FALSE]
    BY Zenon, <1>1, <1>3, LineKinds
  <2>2. res.n = n /\ res.frames = <<f>>
    BY <2>1
  <2>3. p.text = <<>> /\ p.calls = <<>>
    BY <1>1, <1>3
  <2>4. Carried(<<f>>, Flush(n), Flush(n) \o p.text)
    BY Zenon, <2>3, PassCarries
  <2> QED  BY <2>2, <2>4 DEF LineOK
<1>4. CASE p.kind = "error"
  <2>1. res = [flushed EXCEPT !.frames = Append(@, f)]
    BY Zenon, <1>1, <1>4, LineKinds
  <2>2. p.text = <<>> /\ p.calls = <<>>
    BY <1>1, <1>4
  <2>3. f \in ClientFrames /\ f.text = p.text /\ f.calls = <<>>
    BY <2>2, PayloadFields
  <2>4. \A name : Only(f.calls, MadeAs(name)) = <<>>
    BY <2>3, OnlyEmpty
  <2>5. Carried(Append(flushed.frames, f), <<>>, Flush(n) \o f.text)
    BY <2>3, <2>4, FlushThen
  <2>6. res.n = flushed.n /\ res.frames = Append(flushed.frames, f)
    <3>1. \E a : flushed = [n |-> a.n, frames |-> a.frames, valid |-> TRUE, done |-> FALSE]
      BY Zenon DEF FlushFrames, encode
    <3> HIDE DEF res, flushed, f
    <3> QED  BY <2>1, <3>1
  <2> QED  BY <1>1b, <2>3, <2>5, <2>6 DEF LineOK
<1>5. CASE p.kind \in {"chunk", "multi", "usage"} /\ (p.kind = "multi" \/ p.calls # <<>>)
  <2>1. res = passStructured(n, p)
    BY Zenon, <1>1, <1>5, LineKinds
  <2> QED  BY <2>1, StructuredCarries
<1>6. CASE p.calls = <<>> /\ (p.kind = "usage" \/ (p.kind = "chunk" /\ ~n.repair))
  <2>1. res = encode(n, <<f>>)
    BY Zenon, <1>1, <1>6, LineKinds
  <2>2. p.text = <<>> \/ Flush(n) = <<>>
    <3>1. ~n.repair => Flush(n) = <<>>
      BY DEF NormOK, Flush
    <3> QED  BY <1>1, <1>6, <3>1
  <2>3. f \in PlainFrames /\ Carried(<<f>>, Flush(n), Flush(n) \o p.text)
    BY <1>6, <2>2, PassCarries
  <2> HIDE DEF res, f
  <2>4. <<f>> \in Seq(PlainFrames)
    BY <2>3, PlainLists
  <2>5. n \in Norms
    BY DEF NormOK
  <2>6. res = [n |-> n, frames |-> <<f>>, valid |-> TRUE, done |-> FALSE]
    BY Zenon, <2>1, <2>4, <2>5, EncodesPlain
  <2>7. res.n = n /\ res.frames = <<f>>
    BY <2>6
  <2>8. LineOK(n, p, res)
    BY <2>3, <2>7 DEF LineOK
  <2> QED  BY <2>8 DEF res
<1>7. CASE p.kind = "chunk" /\ p.calls = <<>> /\ n.repair
  <2>1. res = repairText(n, p)
    BY Zenon, <1>1, <1>7, LineKinds
  <2> QED  BY <1>7, <2>1, RepairCarries DEF LineOK
<1>8. p.kind = "usage" => p.calls = <<>>
  BY <1>1
<1>9. n.repair \in BOOLEAN
  BY DEF NormOK, Norms
<1> QED  BY <1>1, <1>2, <1>3, <1>4, <1>5, <1>6, <1>7, <1>8, <1>9 DEF PayloadKinds

\* The frames o the client has got, the frames q on their way to it and what
\* the normalizer n holds are what became of the text of the lines r.
Travels(o, q, n, r) ==
  /\ o \in Seq(ClientFrames) /\ q \in Seq(ClientFrames) /\ NormOK(n)
  /\ Carried(o \o q, Flush(n), ClientText(r))

\* Before the first line.
LEMMA TravelStart ==
  /\ Travels(<<>>, <<>>, NewMarkupChunkNormalizer, <<>>)
  /\ Flush(NewMarkupChunkNormalizer) = <<>>
<1> DEFINE n == NewMarkupChunkNormalizer
           z == <<>>
           F == <<>>
           no == {}
<1>1. n = [repair |-> TRUE, hold |-> z, inBlock |-> FALSE, nextIndex |-> 0, finished |-> FALSE, toolCallSeen |-> no]
  BY DEF NewMarkupChunkNormalizer
<1>2. z \in Seq(Pieces) /\ IsText(z) /\ z \o z = z
  BY NoText
<1>2a. no \in SUBSET Int /\ \A x \in no : x < 0
  OBVIOUS
<1>3. Flush(n) = z
  BY <1>1 DEF Flush
<1>4. F \in Seq(ClientFrames) /\ F \o F = F
  OBVIOUS
<1>5. ClientText(F) = z /\ \A name : MadeCount(F, name) = 0
  BY ClientEmpty, MadeNone
<1> HIDE DEF n, z, F, no
<1>6. n \in Norms /\ n.repair = TRUE /\ n.toolCallSeen = no /\ n.nextIndex = 0
  BY <1>1, <1>2, <1>2a DEF Norms
<1>7. NormOK(n)
  BY Zenon, <1>2a, <1>6 DEF NormOK
<1>8. Carried(F, z, z)
  BY <1>2, <1>4, <1>5, CarriedText
<1>9. Travels(F, F, n, F)
  BY <1>3, <1>4, <1>5, <1>7, <1>8 DEF Travels
<1> QED  BY <1>3, <1>9 DEF n, z, F

\* Nothing on its way.
LEMMA TravelArrived ==
  ASSUME NEW o, NEW n, NEW r, Travels(o, <<>>, n, r)
  PROVE  o \in Seq(ClientFrames) /\ NormOK(n) /\ Carried(o, Flush(n), ClientText(r))
<1>1. o \in Seq(ClientFrames) /\ NormOK(n) /\ Carried(o \o <<>>, Flush(n), ClientText(r))
  BY DEF Travels
<1>2. o \o <<>> = o
  BY <1>1
<1> QED  BY <1>1, <1>2

\* One more line.
LEMMA TravelLine ==
  ASSUME NEW o, NEW n, NEW r, Travels(o, <<>>, n, r), r \in Seq(Lines), NEW p \in Lines, p.delta,
         NEW res, res = NormalizeFrames(n, p)
  PROVE  Travels(o, res.frames, res.n, Append(r, p))
<1>1. o \in Seq(ClientFrames) /\ NormOK(n) /\ Carried(o, Flush(n), ClientText(r))
  BY TravelArrived
<1>2. IsPayload(p)
  BY LineAssumption
<1>3. LineOK(n, p, res)
  BY <1>1, <1>2, LineCarries
<1>4. NormOK(res.n) /\ Carried(res.frames, Flush(res.n), Flush(n) \o p.text)
  BY <1>3 DEF LineOK
<1>5. IsText(p.text)
  BY <1>2, PayloadFields
<1>6. Carried(o \o res.frames, Flush(res.n), ClientText(r) \o p.text)
  BY <1>1, <1>4, <1>5, CarriedOn
<1>7. ClientText(Append(r, p)) = ClientText(r) \o p.text
  BY TextAppend
<1>8. res.frames \in Seq(ClientFrames)
  BY <1>4 DEF Carried
<1> QED  BY <1>1, <1>4, <1>6, <1>7, <1>8 DEF Travels

\* What is held goes out behind the last line.
LEMMA TravelFlush ==
  ASSUME NEW o, NEW n, NEW r, Travels(o, <<>>, n, r), NEW res, res = FlushFrames(n)
  PROVE  Travels(o, res.frames, res.n, r) /\ Flush(res.n) = <<>>
<1> DEFINE u == ClientText(r)
           t == Flush(n)
<1>1. o \in Seq(ClientFrames) /\ NormOK(n) /\ Carried(o, t, u)
  BY TravelArrived
<1>2. NormOK(res.n) /\ Flush(res.n) = <<>> /\ Carried(res.frames, <<>>, t) /\ res.frames \in Seq(ClientFrames)
  BY <1>1, FlushEmpties
<1>3. IsText(t)
  BY <1>1, NormFields DEF NormOK
<1>4. IsText(u)
  <2>1. \E k : Balanced(ClientText(o) \o t, k, u)
    BY <1>1 DEF Carried
  <2> QED  BY <2>1 DEF Balanced, IsText
<1>5. t \o <<>> = t /\ u \o <<>> = u /\ IsText(<<>>)
  BY <1>3, <1>4, NoText
<1> HIDE DEF t, u
<1>6. Carried(res.frames, <<>>, t \o <<>>)
  BY <1>2, <1>5
<1>7. Carried(o \o res.frames, <<>>, u \o <<>>)
  BY Zenon, <1>1, <1>5, <1>6, CarriedOn
<1>8. Carried(o \o res.frames, Flush(res.n), u)
  BY <1>2, <1>5, <1>7
<1> QED  BY <1>1, <1>2, <1>8 DEF Travels, u

\* One frame arrives.
LEMMA TravelEmit ==
  ASSUME NEW o, NEW q, NEW n, NEW r, Travels(o, q, n, r), q # <<>>
  PROVE  Travels(Append(o, Head(q)), Tail(q), n, r)
<1>1. /\ o \in Seq(ClientFrames) /\ q \in Seq(ClientFrames) /\ NormOK(n)
      /\ Carried(o \o q, Flush(n), ClientText(r))
  BY DEF Travels
<1>2. Head(q) \in ClientFrames /\ Tail(q) \in Seq(ClientFrames) /\ Append(o, Head(q)) \in Seq(ClientFrames)
  BY <1>1
<1>3. Append(o, Head(q)) \o Tail(q) = o \o q
  BY <1>1
<1> QED  BY Zenon, <1>1, <1>2, <1>3 DEF Travels

\* When everything has arrived, the client has the text but for the calls made.
LEMMA TravelEnd ==
  ASSUME NEW o, NEW n, NEW r, Travels(o, <<>>, n, r), Flush(n) = <<>>
  PROVE  /\ Only(ClientText(o), Prose) = Only(ClientText(r), Prose)
         /\ \A name \in {"run", "other"} :
              Count(ClientText(r), name)
                = Count(ClientText(o), name) + Len(Only(Made(o), {c \in ToSet(Made(o)) : c.name = name}))
<1> DEFINE u == ClientText(r)
           t == ClientText(o)
<1>1. o \in Seq(ClientFrames) /\ Carried(o, <<>>, u)
  BY TravelArrived
<1>2. PICK k \in Seq(Invokes) : Balanced(t \o <<>>, k, u) /\ \A name \in Invokes : MadeCount(o, name) = Count(k, name)
  BY <1>1 DEF Carried
<1>3. t \o <<>> = t
  BY <1>1, FramesText, NoText
<1>4. Only(t, Prose) = Only(u, Prose) /\ \A name \in Invokes : Count(u, name) = Count(t, name) + Count(k, name)
  BY <1>2, <1>3 DEF Balanced
<1>5. ASSUME NEW name \in {"run", "other"}
      PROVE  Count(u, name) = Count(t, name) + Len(Only(Made(o), {c \in ToSet(Made(o)) : c.name = name}))
  <2> DEFINE m == Len(Only(Made(o), {c \in ToSet(Made(o)) : c.name = name}))
  <2>1. m = MadeCount(o, name)
    BY <1>1, MadeCounts
  <2>2. name \in Invokes
    BY DEF Invokes
  <2> HIDE DEF m
  <2>3. Count(u, name) = Count(t, name) + m
    BY <1>2, <1>4, <2>1, <2>2
  <2> QED  BY <2>3 DEF m
<1> QED  BY <1>4, <1>5

----------------------------------------------------------------------------

\* Every line has a delta, so none drops what is held.
AllDeltas(r) == \A p \in ToSet(r) : p.delta

\* The client can still be reached.
Reached == mode = "pump" => listening

\* All text is accounted for at every step: while the answer is read it has
\* arrived, is on its way or is held; behind the flush nothing is held, and a
\* request that ends with its client reached has nothing on its way.
TextInv ==
  /\ received \in Seq(Lines)
  /\ pc \in {"idle", "prepared"} => norm = NewMarkupChunkNormalizer /\ queue = <<>>
  /\ streams /\ AllDeltas(received) => Travels(out, queue, norm, received)
  /\ streams /\ AllDeltas(received) /\ Reached /\ pc \in {"settling", "closing", "over"} => Flush(norm) = <<>>
  /\ streams /\ Reached /\ pc \in {"closing", "over"} => queue = <<>>

\* What the invariant says at the end.
LEMMA TextSuffices == TextInv => NoTextLost
<1> SUFFICES ASSUME TextInv, delivered, AllDeltas(received)
    PROVE  /\ Only(ClientText(out), Prose) = Only(ClientText(received), Prose)
           /\ \A name \in {"run", "other"} :
                Count(ClientText(received), name)
                  = Count(ClientText(out), name) + Len(Only(Made(out), {c \in ToSet(Made(out)) : c.name = name}))
  BY DEF NoTextLost, UpstreamText, AllDeltas
<1>1. streams /\ Reached /\ pc = "over"
  BY DEF delivered, Reached
<1>2. Travels(out, queue, norm, received) /\ Flush(norm) = <<>> /\ queue = <<>>
  BY <1>1 DEF TextInv
<1> QED  BY <1>2, TravelEnd

\* Nothing has been read, held or sent at the start.
LEMMA TextInit == Init => TextInv
<1> SUFFICES ASSUME Init PROVE TextInv
  OBVIOUS
<1>1. pc = "idle" /\ received = <<>> /\ norm = NewMarkupChunkNormalizer /\ queue = <<>> /\ out = <<>>
  BY DEF Init
<1>2. Travels(out, queue, norm, received)
  BY <1>1, TravelStart
<1>3. received \in Seq(Lines)
  BY <1>1
<1> QED  BY <1>1, <1>2, <1>3 DEF TextInv

\* Only ReadLine, Emit and FlushTail move text; the other steps leave it.
LEMMA TextStep == TextInv /\ [Next]_vars => TextInv'
<1> SUFFICES ASSUME TextInv, [Next]_vars PROVE TextInv'
  OBVIOUS
<1>0. /\ received \in Seq(Lines)
      /\ pc \in {"idle", "prepared"} => norm = NewMarkupChunkNormalizer /\ queue = <<>>
      /\ streams /\ AllDeltas(received) => Travels(out, queue, norm, received)
      /\ streams /\ AllDeltas(received) /\ Reached /\ pc \in {"settling", "closing", "over"} => Flush(norm) = <<>>
      /\ streams /\ Reached /\ pc \in {"closing", "over"} => queue = <<>>
  BY DEF TextInv
\* Steps that leave the text where it is.
<1>1. ASSUME UNCHANGED <<mode, received, out, queue, norm>>, Reached' => Reached,
             pc' \in {"idle", "prepared"} => pc \in {"idle", "prepared"},
             Reached /\ pc' \in {"settling", "closing", "over"} =>
               pc \in {"settling", "closing", "over"} \/ pc \in {"idle", "prepared"},
             streams /\ Reached /\ pc' \in {"closing", "over"} => queue = <<>>
      PROVE  TextInv'
  <2>1. (streams' <=> streams) /\ (AllDeltas(received)' <=> AllDeltas(received))
    BY <1>1 DEF streams, AllDeltas
  <2>2. received' \in Seq(Lines) /\ (pc' \in {"idle", "prepared"} => norm' = NewMarkupChunkNormalizer /\ queue' = <<>>)
    BY <1>0, <1>1
  <2>3. streams' /\ AllDeltas(received)' => Travels(out, queue, norm, received)'
    BY <1>0, <1>1, <2>1
  <2>4. ASSUME streams', AllDeltas(received)', Reached', pc' \in {"settling", "closing", "over"} PROVE Flush(norm)' = <<>>
    <3>1. pc \in {"settling", "closing", "over"} => Flush(norm) = <<>>
      BY <1>0, <1>1, <2>1, <2>4
    <3>2. pc \in {"idle", "prepared"} => Flush(norm) = <<>>
      BY <1>0, TravelStart
    <3> QED  BY <1>1, <2>4, <3>1, <3>2
  <2>5. streams' /\ Reached' /\ pc' \in {"closing", "over"} => queue' = <<>>
    BY <1>1, <2>1
  <2> QED  BY <2>2, <2>3, <2>4, <2>5 DEF TextInv
<1>2. CASE Reject
  BY <1>0, <1>1, <1>2 DEF Reject, upstream, client, Reached
<1>3. ASSUME NEW b \in Bodies, Prepare(b) PROVE TextInv'
  BY <1>0, <1>1, <1>3 DEF Prepare, client, Reached
<1>4. CASE OpenFails
  BY <1>0, <1>1, <1>4 DEF OpenFails, fail, Reached
<1>5. ASSUME NEW r \in Refusals, OpenRefused(r[1], r[2]) PROVE TextInv'
  BY <1>0, <1>1, <1>5 DEF OpenRefused, fail, Reached
<1>6. CASE OpenOK
  BY <1>0, <1>1, <1>6 DEF OpenOK, client, Reached
<1>7. ASSUME NEW p \in Lines, ReadLine(p) PROVE TextInv'
  <2> DEFINE next == NormalizeFrames(norm, p)
  <2>1. /\ pc = "reading" /\ queue = <<>> /\ received' = Append(received, p) /\ mode' = mode /\ out' = out
        /\ pc' \in {"reading", "flushing"}
    BY <1>7 DEF ReadLine
  <2>2. streams => norm' = next.n /\ queue' = next.frames
    BY <1>7 DEF ReadLine
  <2> HIDE DEF next
  <2>3. streams' <=> streams
    BY <2>1 DEF streams
  <2>4. received' \in Seq(Lines)
    BY <1>0, <2>1
  <2>5. ASSUME streams', AllDeltas(received)' PROVE Travels(out, queue, norm, received)'
    <3>1. AllDeltas(received) /\ p.delta
      <4>1. ToSet(received) \subseteq ToSet(Append(received, p)) /\ p \in ToSet(Append(received, p))
        BY <1>0, SetOfAppend
      <4> QED  BY <2>1, <2>5, <4>1 DEF AllDeltas
    <3>2. Travels(out, <<>>, norm, received)
      BY <1>0, <2>1, <2>3, <2>5, <3>1
    <3>3. Travels(out, next.frames, next.n, Append(received, p))
      BY <1>0, <3>1, <3>2, TravelLine DEF next
    <3> QED  BY <2>1, <2>2, <2>3, <2>5, <3>3
  <2> QED  BY <2>1, <2>4, <2>5 DEF TextInv
<1>8. ASSUME NEW err \in BOOLEAN, ReadEnds(err) PROVE TextInv'
  BY <1>0, <1>1, <1>8 DEF ReadEnds, client, Reached
<1>9. CASE Emit
  <2>1. /\ pc \in {"reading", "flushing", "settling"} /\ queue # <<>> /\ out' = Append(out, Head(queue)) /\ queue' = Tail(queue)
        /\ pc' = pc /\ mode' = mode /\ norm' = norm /\ received' = received /\ listening' = listening
    BY <1>9 DEF Emit, upstream
  <2>2. (streams' <=> streams) /\ (Reached' <=> Reached) /\ (AllDeltas(received)' <=> AllDeltas(received))
    BY <2>1 DEF streams, Reached, AllDeltas
  <2>3. ASSUME streams', AllDeltas(received)' PROVE Travels(out, queue, norm, received)'
    <3>1. Travels(out, queue, norm, received)
      BY <1>0, <2>2, <2>3
    <3>2. Travels(Append(out, Head(queue)), Tail(queue), norm, received)
      BY <2>1, <3>1, TravelEmit
    <3> QED  BY <2>1, <3>2
  <2> QED  BY <1>0, <2>1, <2>2, <2>3 DEF TextInv
<1>10. CASE EmitFails
  BY <1>0, <1>1, <1>10 DEF EmitFails, upstream, client, Reached
<1>11. CASE FlushTail
  <2> DEFINE last == FlushFrames(norm)
  <2>1. /\ pc = "flushing" /\ queue = <<>> /\ received' = received /\ mode' = mode /\ out' = out /\ pc' = "settling"
    BY <1>11 DEF FlushTail, upstream
  <2>2. streams => norm' = last.n /\ queue' = last.frames
    BY <1>11 DEF FlushTail
  <2> HIDE DEF last
  <2>3. (streams' <=> streams) /\ (AllDeltas(received)' <=> AllDeltas(received))
    BY <2>1 DEF streams, AllDeltas
  <2>4. ASSUME streams', AllDeltas(received)' PROVE Travels(out, queue, norm, received)' /\ Flush(norm)' = <<>>
    <3>1. Travels(out, <<>>, norm, received)
      BY <1>0, <2>1, <2>3, <2>4
    <3>2. Travels(out, last.frames, last.n, received) /\ Flush(last.n) = <<>>
      BY <3>1, TravelFlush DEF last
    <3> QED  BY <2>1, <2>2, <2>3, <2>4, <3>2
  <2> QED  BY <1>0, <2>1, <2>4 DEF TextInv
<1>12. CASE SettleFailed
  BY <1>0, <1>1, <1>12 DEF SettleFailed, fail, upstream, Reached
<1>13. CASE SettleOK
  BY <1>0, <1>1, <1>13 DEF SettleOK, upstream, client, Reached
<1>14. CASE Close
  BY <1>0, <1>1, <1>14 DEF Close, Reached
<1>15. CASE ClientLeaves
  BY <1>0, <1>1, <1>15 DEF ClientLeaves, upstream, Reached
<1>16. CASE Over \/ UNCHANGED vars
  BY <1>0, <1>1, <1>16 DEF Over, vars, upstream, client, Reached
<1> QED  BY <1>2, <1>3, <1>4, <1>5, <1>6, <1>7, <1>8, <1>9, <1>10, <1>11, <1>12, <1>13, <1>14, <1>15, <1>16
         DEF Next, Step

\* The client of a streamed answer gets all of its text but for the calls that
\* were made of it: Feed's promise, for every answer of any length and however
\* its text is cut into lines.
THEOREM TextCorrect == Spec => []NoTextLost
<1>1. Init => TextInv
  BY TextInit
<1>2. TextInv /\ [Next]_vars => TextInv'
  BY TextStep
<1>3. TextInv => NoTextLost
  BY TextSuffices
<1> QED  BY <1>1, <1>2, <1>3, PTL DEF Spec
=============================================================================
