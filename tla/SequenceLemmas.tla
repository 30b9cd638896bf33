--------------------------- MODULE SequenceLemmas ---------------------------
(***************************************************************************)
(* What InsertAt and RemoveAt of SequencesExt return.                      *)
(***************************************************************************)
EXTENDS Integers, Sequences, SequencesExt, SequenceTheorems, TLAPS

\* What InsertAt returns, position by position.
LEMMA Inserted ==
    ASSUME NEW S, NEW q \in Seq(S), NEW i \in 1 .. Len(q) + 1, NEW r \in S
    PROVE  LET t == InsertAt(q, i, r)
           IN /\ t \in Seq(S) /\ Len(t) = Len(q) + 1
              /\ \A k \in 1 .. Len(q) + 1 :
                    t[k] = IF k < i THEN q[k] ELSE IF k = i THEN r ELSE q[k - 1]
<1> DEFINE a == SubSeq(q, 1, i - 1)
           b == SubSeq(q, i, Len(q))
<1>1. /\ a \in Seq(S) /\ Len(a) = i - 1
      /\ \A k \in 1 .. i - 1 : a[k] = q[k]
  <2>1. \A k \in 1 .. i - 1 : q[k] \in S
    BY ElementOfSeq
  <2> QED
    BY <2>1, SubSeqProperties
<1>2. /\ b \in Seq(S) /\ Len(b) = Len(q) - i + 1
      /\ \A k \in 1 .. Len(q) - i + 1 : b[k] = q[i + k - 1]
  <2>1. \A k \in i .. Len(q) : q[k] \in S
    BY ElementOfSeq
  <2>2. Len(q) \in Nat
    BY LenProperties
  <2> QED
    BY <2>1, <2>2, SubSeqProperties
<1>3. <<r>> \in Seq(S) /\ Len(<<r>>) = 1 /\ <<r>>[1] = r
  OBVIOUS
<1>4. /\ a \o <<r>> \in Seq(S) /\ Len(a \o <<r>>) = i
      /\ \A k \in 1 .. i : (a \o <<r>>)[k] = IF k < i THEN q[k] ELSE r
  BY <1>1, <1>3, ConcatProperties
<1>5. InsertAt(q, i, r) = (a \o <<r>>) \o b
  BY DEF InsertAt
<1> DEFINE c == a \o <<r>>
<1>6. Len(q) \in Nat
  BY LenProperties
<1> HIDE DEF a, b, c
<1>7. /\ c \o b \in Seq(S) /\ Len(c \o b) = Len(q) + 1
      /\ \A k \in 1 .. Len(q) + 1 :
            (c \o b)[k] = IF k <= i THEN c[k] ELSE b[k - i]
  <2>1. /\ c \o b \in Seq(S) /\ Len(c \o b) = Len(c) + Len(b)
        /\ \A k \in 1 .. Len(c) + Len(b) :
              (c \o b)[k] = IF k <= Len(c) THEN c[k] ELSE b[k - Len(c)]
    <3>1. c \in Seq(S) /\ b \in Seq(S)
      BY <1>2, <1>4 DEF c
    <3> QED
      BY <3>1, ConcatProperties, Zenon
  <2> QED
    BY <2>1, <1>2, <1>4, <1>6 DEF c
<1>8. ASSUME NEW k \in 1 .. Len(q) + 1
      PROVE  (c \o b)[k] =
                IF k < i THEN q[k] ELSE IF k = i THEN r ELSE q[k - 1]
  BY <1>8, <1>7, <1>4, <1>2, <1>6 DEF c
<1> QED
  BY <1>5, <1>7, <1>8 DEF c

\* What RemoveAt returns, position by position.
LEMMA RemovedAt ==
    ASSUME NEW S, NEW q \in Seq(S), NEW i \in 1 .. Len(q)
    PROVE  LET t == RemoveAt(q, i)
           IN /\ t \in Seq(S) /\ Len(t) = Len(q) - 1
              /\ \A k \in 1 .. Len(q) - 1 :
                    t[k] = IF k < i THEN q[k] ELSE q[k + 1]
<1> DEFINE a == SubSeq(q, 1, i - 1)
           b == SubSeq(q, i + 1, Len(q))
<1>1. /\ a \in Seq(S) /\ Len(a) = i - 1
      /\ \A k \in 1 .. i - 1 : a[k] = q[k]
  <2>1. \A k \in 1 .. i - 1 : q[k] \in S
    BY ElementOfSeq
  <2> QED
    BY <2>1, SubSeqProperties
<1>2. /\ b \in Seq(S) /\ Len(b) = Len(q) - i
      /\ \A k \in 1 .. Len(q) - i : b[k] = q[i + k]
  <2>1. \A k \in i + 1 .. Len(q) : q[k] \in S
    BY ElementOfSeq
  <2>2. Len(q) \in Nat
    BY LenProperties
  <2> QED
    BY <2>1, <2>2, SubSeqProperties
<1>3. RemoveAt(q, i) = a \o b /\ Len(q) \in Nat
  BY LenProperties DEF RemoveAt
<1> HIDE DEF a, b
<1>4. /\ a \o b \in Seq(S) /\ Len(a \o b) = Len(q) - 1
      /\ \A k \in 1 .. Len(q) - 1 :
            (a \o b)[k] = IF k <= i - 1 THEN a[k] ELSE b[k - (i - 1)]
  <2>1. /\ a \o b \in Seq(S) /\ Len(a \o b) = Len(a) + Len(b)
        /\ \A k \in 1 .. Len(a) + Len(b) :
              (a \o b)[k] = IF k <= Len(a) THEN a[k] ELSE b[k - Len(a)]
    <3>1. a \in Seq(S) /\ b \in Seq(S)
      BY <1>1, <1>2
    <3> QED
      BY <3>1, ConcatProperties, Zenon
  <2> QED
    BY <2>1, <1>1, <1>2, <1>3
<1>5. ASSUME NEW k \in 1 .. Len(q) - 1
      PROVE  (a \o b)[k] = IF k < i THEN q[k] ELSE q[k + 1]
  <2>1. CASE k < i
    <3>1. k <= i - 1 /\ k \in 1 .. i - 1
      BY <1>5, <1>3, <2>1
    <3> QED
      BY <1>1, <1>4, <1>5, <2>1, <3>1
  <2>2. CASE k >= i
    <3>1. ~(k <= i - 1) /\ ~(k < i) /\ k - (i - 1) \in 1 .. Len(q) - i
      BY <1>5, <1>3, <2>2
    <3>2. (a \o b)[k] = b[k - (i - 1)]
      BY <1>4, <1>5, <3>1
    <3>3. i + (k - (i - 1)) = k + 1
      BY <1>5, <1>3
    <3> QED
      BY <1>2, <3>1, <3>2, <3>3
  <2>3. k < i \/ k >= i
    BY <1>5, <1>3
  <2> QED
    BY <2>1, <2>2, <2>3, Zenon
<1> QED
  BY <1>3, <1>4, <1>5

\* Without one of its elements a sequence of distinct elements is one of the
\* others.
LEMMA RemovedDistinct ==
    ASSUME NEW S, NEW q \in Seq(S), NEW i \in 1 .. Len(q),
           \A j, k \in DOMAIN q : q[j] = q[k] => j = k
    PROVE  LET t == RemoveAt(q, i)
           IN /\ t \in Seq(S)
              /\ \A j, k \in DOMAIN t : t[j] = t[k] => j = k
              /\ Range(t) = Range(q) \ {q[i]}
<1> DEFINE t == RemoveAt(q, i)
<1>1. /\ t \in Seq(S) /\ Len(t) = Len(q) - 1
      /\ \A k \in 1 .. Len(q) - 1 : t[k] = IF k < i THEN q[k] ELSE q[k + 1]
  BY RemovedAt
<1>2. /\ Len(q) \in Nat /\ DOMAIN q = 1 .. Len(q)
      /\ DOMAIN t = 1 .. Len(q) - 1
  BY <1>1, LenProperties
<1> HIDE DEF t
<1>3. ASSUME NEW j \in DOMAIN t, NEW k \in DOMAIN t, t[j] = t[k]
      PROVE  j = k
  BY <1>1, <1>2, <1>3
<1>4. ASSUME NEW j \in DOMAIN t
      PROVE  \E k \in DOMAIN q : k # i /\ t[j] = q[k]
  <2>1. CASE j < i
    BY <1>1, <1>2, <2>1
  <2>2. CASE j >= i
    <3>1. j + 1 \in DOMAIN q /\ j + 1 # i /\ t[j] = q[j + 1]
      BY <1>1, <1>2, <2>2
    <3> QED
      BY <3>1
  <2> QED
    BY <1>2, <2>1, <2>2
<1>5. ASSUME NEW k \in DOMAIN q, k # i
      PROVE  \E j \in DOMAIN t : t[j] = q[k]
  <2>1. CASE k < i
    BY <1>1, <1>2, <2>1
  <2>2. CASE k > i
    <3>1. k - 1 \in DOMAIN t /\ t[k - 1] = q[k]
      BY <1>1, <1>2, <2>2
    <3> QED
      BY <3>1
  <2> QED
    BY <1>2, <1>5, <2>1, <2>2
<1>6. Range(t) = Range(q) \ {q[i]}
  <2>1. \A k \in DOMAIN q : k # i <=> q[k] # q[i]
    BY <1>2
  <2> QED
    BY <1>4, <1>5, <2>1 DEF Range
<1> QED
  BY <1>1, <1>3, <1>6 DEF t
=============================================================================
