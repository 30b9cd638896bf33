---------------------------- MODULE Reads_proofs ----------------------------
(***************************************************************************)
(* What paging by offset gives a reader while the list changes, for any    *)
(* page size, cap, records and number of changes: each record removed can  *)
(* hide at most one other record, each record made can repeat at most one. *)
(***************************************************************************)
EXTENDS Reads, SequenceLemmas, FiniteSetTheorems, TLAPS

\* A finite set of at most n elements.
Bounded(S, n) == IsFiniteSet(S) /\ Cardinality(S) <= n

\* The records at the first n positions, and those after them.
UpTo(q, n) == {q[k] : k \in {i \in DOMAIN q : i <= n}}
Beyond(q, n) == {q[k] : k \in {i \in DOMAIN q : i > n}}

\* S has at most one element that T has not.
OneMore(S, T) == \E y : S \subseteq T \cup {y}

LEMMA BoundedEmpty ==
    Bounded({}, 0)
  BY FS_EmptySet DEF Bounded

LEMMA BoundedSubset ==
    ASSUME NEW n \in Nat, NEW S, NEW T, Bounded(S, n), T \subseteq S
    PROVE  Bounded(T, n)
<1>1. IsFiniteSet(T) /\ Cardinality(T) <= Cardinality(S)
  BY FS_Subset DEF Bounded
<1>2. Cardinality(T) \in Nat /\ Cardinality(S) \in Nat
  BY <1>1, FS_CardinalityType DEF Bounded
<1> QED
  BY <1>1, <1>2 DEF Bounded

LEMMA BoundedOneMore ==
    ASSUME NEW n \in Nat, NEW S, NEW T, NEW x, Bounded(S, n),
           T \subseteq S \cup {x}
    PROVE  Bounded(T, n + 1)
<1>1. /\ IsFiniteSet(S \cup {x})
      /\ Cardinality(S \cup {x}) <= Cardinality(S) + 1
  <2>1. IsFiniteSet(S) /\ Cardinality(S) \in Nat
    BY FS_CardinalityType DEF Bounded
  <2>2. /\ IsFiniteSet(S \cup {x})
        /\ Cardinality(S \cup {x}) =
              IF x \in S THEN Cardinality(S) ELSE Cardinality(S) + 1
    BY <2>1, FS_AddElement, Zenon
  <2> QED
    BY <2>1, <2>2
<1>2. Cardinality(S) \in Nat /\ Cardinality(S \cup {x}) \in Nat
  BY <1>1, FS_CardinalityType DEF Bounded
<1>3. Bounded(S \cup {x}, n + 1)
  BY <1>1, <1>2 DEF Bounded
<1> QED
  BY <1>3, BoundedSubset

-----------------------------------------------------------------------------
\* A record put into a list moves the others only towards its end, and at
\* most one of them, or the new one, comes to lie after position n.
LEMMA InsertedMoves ==
    ASSUME NEW S, NEW q \in Seq(S), Injective(q), NEW i \in 1 .. Len(q) + 1,
           NEW r \in S, r \notin Range(q), NEW n \in Nat
    PROVE  LET t == InsertAt(q, i, r)
           IN /\ t \in Seq(S) /\ Injective(t) /\ Len(t) = Len(q) + 1
              /\ Range(t) = Range(q) \cup {r}
              /\ UpTo(t, n) \cap Range(q) \subseteq UpTo(q, n)
              /\ OneMore(Beyond(t, n), Beyond(q, n))
<1> DEFINE t == InsertAt(q, i, r)
<1>1. /\ t \in Seq(S) /\ Len(t) = Len(q) + 1
      /\ \A k \in 1 .. Len(q) + 1 :
            t[k] = IF k < i THEN q[k] ELSE IF k = i THEN r ELSE q[k - 1]
  BY Inserted
<1>2. /\ Len(q) \in Nat /\ DOMAIN q = 1 .. Len(q)
      /\ DOMAIN t = 1 .. Len(q) + 1
  BY <1>1, LenProperties
<1> HIDE DEF t
<1>3. \A k \in 1 .. Len(q) : q[k] # r
  BY <1>2 DEF Range
<1>4. Injective(t)
  <2> SUFFICES ASSUME NEW j \in DOMAIN t, NEW k \in DOMAIN t, t[j] = t[k]
               PROVE  j = k
    BY DEF Injective
  <2>1. \A u, v \in 1 .. Len(q) : q[u] = q[v] => u = v
    BY <1>2 DEF Injective
  <2> QED
    BY <2>1, <1>1, <1>2, <1>3
<1>5. Range(t) = Range(q) \cup {r}
  <2>1. ASSUME NEW k \in DOMAIN t PROVE t[k] \in Range(q) \cup {r}
    BY <2>1, <1>1, <1>2 DEF Range
  <2>2. ASSUME NEW k \in DOMAIN q PROVE q[k] \in Range(t)
    <3>1. CASE k < i
      BY <3>1, <1>1, <1>2 DEF Range
    <3>2. CASE k >= i
      <4>1. k + 1 \in DOMAIN t /\ t[k + 1] = q[k]
        BY <3>2, <1>1, <1>2
      <4> QED
        BY <4>1 DEF Range
    <3> QED
      BY <3>1, <3>2, <1>2
  <2>3. r \in Range(t)
    BY <1>1, <1>2 DEF Range
  <2> QED
    BY <2>1, <2>2, <2>3 DEF Range
<1>6. ASSUME NEW k \in DOMAIN t, k <= n, t[k] \in Range(q)
      PROVE  t[k] \in UpTo(q, n)
  <2>1. k # i
    BY <1>6, <1>1, <1>2
  <2>2. CASE k < i
    BY <1>6, <2>2, <1>1, <1>2 DEF UpTo
  <2>3. CASE k > i
    <3>1. k - 1 \in DOMAIN q /\ k - 1 <= n /\ t[k] = q[k - 1]
      BY <1>6, <2>3, <1>1, <1>2
    <3> QED
      BY <3>1 DEF UpTo
  <2> QED
    BY <2>1, <2>2, <2>3, <1>2
<1>7. OneMore(Beyond(t, n), Beyond(q, n))
  <2> DEFINE y == IF i <= n THEN q[n] ELSE r
  <2>1. ASSUME NEW k \in DOMAIN t, k > n
        PROVE  t[k] \in Beyond(q, n) \cup {y}
    <3>1. CASE k < i
      BY <2>1, <3>1, <1>1, <1>2 DEF Beyond
    <3>2. CASE k = i
      BY <2>1, <3>2, <1>1, <1>2
    <3>3. CASE k > i /\ k - 1 > n
      <4>1. k - 1 \in DOMAIN q /\ t[k] = q[k - 1]
        BY <3>3, <1>1, <1>2
      <4> QED
        BY <3>3, <4>1 DEF Beyond
    <3>4. CASE k > i /\ k - 1 = n
      BY <3>4, <1>1, <1>2
    <3> QED
      BY <2>1, <3>1, <3>2, <3>3, <3>4, <1>2
  <2>2. Beyond(t, n) \subseteq Beyond(q, n) \cup {y}
    BY <2>1 DEF Beyond
  <2> QED
    BY <2>2 DEF OneMore
<1> QED
  BY <1>1, <1>4, <1>5, <1>6, <1>7 DEF UpTo, t

\* A record taken out of a list moves the others only towards its front, and
\* at most one of them comes to lie within the first n positions.
LEMMA RemovedMoves ==
    ASSUME NEW S, NEW q \in Seq(S), Injective(q), NEW i \in DOMAIN q,
           NEW n \in Nat
    PROVE  LET t == RemoveAt(q, i)
           IN /\ t \in Seq(S) /\ Injective(t)
              /\ Range(t) = Range(q) \ {q[i]}
              /\ Beyond(t, n) \subseteq Beyond(q, n)
              /\ \E x : UpTo(t, n) \subseteq UpTo(q, n) \cup {x}
<1> DEFINE t == RemoveAt(q, i)
<1>1. /\ Len(q) \in Nat /\ DOMAIN q = 1 .. Len(q)
  BY LenProperties
<1>2. /\ t \in Seq(S) /\ Len(t) = Len(q) - 1
      /\ \A k \in 1 .. Len(q) - 1 : t[k] = IF k < i THEN q[k] ELSE q[k + 1]
  BY <1>1, RemovedAt
<1>3. DOMAIN t = 1 .. Len(q) - 1
  BY <1>2, LenProperties
<1> HIDE DEF t
<1>4. \A u, v \in 1 .. Len(q) : q[u] = q[v] => u = v
  BY <1>1 DEF Injective
<1>5. Injective(t)
  <2> SUFFICES ASSUME NEW j \in DOMAIN t, NEW k \in DOMAIN t, t[j] = t[k]
               PROVE  j = k
    BY DEF Injective
  <2> QED
    BY <1>1, <1>2, <1>3, <1>4
<1>6. Range(t) = Range(q) \ {q[i]}
  <2>1. ASSUME NEW k \in DOMAIN t PROVE t[k] \in Range(q) /\ t[k] # q[i]
    BY <2>1, <1>1, <1>2, <1>3, <1>4 DEF Range
  <2>2. ASSUME NEW k \in DOMAIN q, k # i PROVE q[k] \in Range(t)
    <3>1. CASE k < i
      BY <3>1, <1>1, <1>2, <1>3 DEF Range
    <3>2. CASE k > i
      <4>1. k - 1 \in DOMAIN t /\ t[k - 1] = q[k]
        BY <3>2, <1>1, <1>2, <1>3
      <4> QED
        BY <4>1 DEF Range
    <3> QED
      BY <2>2, <3>1, <3>2, <1>1
  <2> QED
    BY <2>1, <2>2 DEF Range
<1>7. ASSUME NEW k \in DOMAIN t, k > n
      PROVE  t[k] \in Beyond(q, n)
  <2>1. CASE k < i
    BY <1>7, <2>1, <1>1, <1>2, <1>3 DEF Beyond
  <2>2. CASE k >= i
    <3>1. k + 1 \in DOMAIN q /\ k + 1 > n /\ t[k] = q[k + 1]
      BY <1>7, <2>2, <1>1, <1>2, <1>3
    <3> QED
      BY <3>1 DEF Beyond
  <2> QED
    BY <2>1, <2>2, <1>1, <1>3
<1>8. \A k \in DOMAIN t : k <= n => t[k] \in UpTo(q, n) \cup {q[n + 1]}
  <2> SUFFICES ASSUME NEW k \in DOMAIN t, k <= n
               PROVE  t[k] \in UpTo(q, n) \cup {q[n + 1]}
    OBVIOUS
  <2>1. CASE k < i
    BY <2>1, <1>1, <1>2, <1>3 DEF UpTo
  <2>2. CASE k >= i /\ k < n
    <3>1. k + 1 \in DOMAIN q /\ k + 1 <= n /\ t[k] = q[k + 1]
      BY <2>2, <1>1, <1>2, <1>3
    <3> QED
      BY <3>1 DEF UpTo
  <2>3. CASE k >= i /\ k = n
    BY <2>3, <1>1, <1>2, <1>3
  <2> QED
    BY <2>1, <2>2, <2>3, <1>1, <1>3
<1>9. UpTo(t, n) \subseteq UpTo(q, n) \cup {q[n + 1]}
  BY <1>8 DEF UpTo
<1>10. Beyond(t, n) \subseteq Beyond(q, n)
  BY <1>7 DEF Beyond
<1> QED
  BY <1>2, <1>5, <1>6, <1>9, <1>10 DEF t

-----------------------------------------------------------------------------
\* The entities whose list is complete, and the records of an entity at
\* positions already read, and at positions still to be read.
Finished(e) ==
    status = "answered" \/ \E j \in 1 .. step - 1 : req.entities[j] = e
Offset == (page - 1) * PageSize
Behind(e) == IF Finished(e) THEN Record
             ELSE IF e = Current THEN UpTo(store[e], Offset) ELSE {}
Ahead(e) == IF Finished(e) \/ e # Current THEN {} ELSE Beyond(store[e], Offset)

\* Records that will stay missing, and those that are or will be repeated.
Lost(e) == {r \in steady[e] : merged[e][r] = 0 /\ r \in Behind(e)}
Repeats(e) ==
    {r \in Record : \/ merged[e][r] > 1
                    \/ merged[e][r] > 0 /\ r \in Ahead(e)}

Steady == \A e \in Entity : steady[e] \subseteq Range(store[e])

NotBegun ==
    \A e \in Asked : ~Finished(e) /\ e # Current =>
        \A r \in Record : merged[e][r] = 0

Unpaged == req.style = "whole" => page = 1

PageInv ==
    /\ TypeOK /\ Steady
    /\ req.kind = "list" =>
          /\ NotBegun /\ Unpaged
          /\ \A e \in Asked : Bounded(Lost(e), removed[e])
          /\ \A e \in Asked : Bounded(Repeats(e), made[e])

LEMMA RequestKinds ==
    ASSUME NEW q \in List \cup Lookup
    PROVE  /\ q.entities \in Sources
           /\ q.kind \in {"list", "lookup"}
           /\ DOMAIN q.entities = 1 .. Len(q.entities)
           /\ Len(q.entities) \in Nat \ {0}
           /\ Range(q.entities) \subseteq Entity
           /\ Injective(q.entities)
<1>1. q \in List => q.entities \in Sources /\ q.kind = "list"
  BY DEF List
<1>2. q \in Lookup => q.entities \in Sources /\ q.kind = "lookup"
  BY DEF Lookup
<1>3. ASSUME NEW p \in Sources
      PROVE  /\ DOMAIN p = 1 .. Len(p) /\ Len(p) \in Nat \ {0}
             /\ Range(p) \subseteq Entity /\ Injective(p)
  <2>1. CASE \E e \in Entity : p = <<e>>
    BY <2>1 DEF Range, Injective
  <2>2. CASE p = <<"Customer", "Vendor">>
    BY <2>2, ReadsAssumption DEF Range, Injective
  <2> QED
    BY <2>1, <2>2 DEF Sources
<1> QED
  BY <1>1, <1>2, <1>3

LEMMA RequestShape ==
    ASSUME TypeOK
    PROVE  /\ DOMAIN req.entities = 1 .. Len(req.entities)
           /\ Len(req.entities) \in Nat
           /\ step \in 1 .. Len(req.entities)
           /\ Current \in Asked /\ Asked \subseteq Entity
           /\ Injective(req.entities)
           /\ req.kind \in {"list", "lookup"}
<1>1. req \in List \cup Lookup /\ step \in DOMAIN req.entities
  BY DEF TypeOK
<1> QED
  BY <1>1, RequestKinds DEF Asked, Current, Range

LEMMA ReadsInit ==
    Init => PageInv
<1> SUFFICES ASSUME Init PROVE PageInv
  OBVIOUS
<1> USE ReadsAssumption
<1>1. \A q \in Lists : q \in Seq(Record) /\ Injective(q)
  BY DEF Lists
<1>2. /\ store \in [Entity -> Seq(Record)]
      /\ \A e \in Entity : Injective(store[e])
  BY <1>1 DEF Init
<1>3. \A e \in Entity : Len(store[e]) \in Nat /\ Range(store[e]) \subseteq Record
  BY <1>2, LenProperties DEF Range
<1>4. step = 1 /\ 1 \in DOMAIN req.entities
  BY RequestKinds DEF Init
<1>5. TypeOK
  BY <1>2, <1>3, <1>4 DEF TypeOK, Init
<1>6. Steady
  BY DEF Steady, Init
<1>7. \A e \in Asked : e \in Entity /\ ~Finished(e)
  BY <1>4, <1>5, RequestShape DEF Finished, Init
<1>8. \A e \in Asked : \A r \in Record : merged[e][r] = 0
  BY <1>7 DEF Init
<1>9. \A e \in Asked : Lost(e) = {}
  <2>1. Offset = 0
    BY DEF Offset, Init
  <2>2. \A q \in Seq(Record) : UpTo(q, 0) = {}
    BY LenProperties DEF UpTo
  <2> QED
    BY <1>2, <1>7, <2>1, <2>2 DEF Lost, Behind
<1>10. \A e \in Asked : Repeats(e) = {}
  BY <1>8 DEF Repeats
<1>11. \A e \in Asked : made[e] = 0 /\ removed[e] = 0
  BY <1>7 DEF Init
<1> QED
  BY <1>5, <1>6, <1>8, <1>9, <1>10, <1>11, BoundedEmpty
     DEF PageInv, NotBegun, Unpaged, Init

\* A page adds its records once; a last page holds all that are left.
LEMMA PageRead ==
    ASSUME PageInv, ReadPage
    PROVE  /\ InAnswer \subseteq Ahead(Current)
           /\ InAnswer \subseteq Record
           /\ Range(store[Current]) \subseteq
                 Behind(Current) \cup InAnswer \cup Beyond(store[Current], page * PageSize)
           /\ LastPage => Range(store[Current]) \subseteq Behind(Current) \cup InAnswer
           /\ ~LastPage => /\ InAnswer \cap Beyond(store[Current], page * PageSize) = {}
                           /\ Beyond(store[Current], page * PageSize) \subseteq Ahead(Current)
                           /\ UpTo(store[Current], page * PageSize) \subseteq
                                 Behind(Current) \cup InAnswer
<1> DEFINE q == store[Current]
           m == page * PageSize
<1>1. Current \in Entity /\ ~Finished(Current)
  <2>1. \A j \in 1 .. step - 1 : req.entities[j] # req.entities[step]
    BY RequestShape DEF PageInv, Injective
  <2> QED
    BY <2>1, RequestShape DEF PageInv, Finished, ReadPage, Current
<1>2. q \in Seq(Record) /\ Injective(q)
  BY <1>1 DEF PageInv, TypeOK
<1>3. DOMAIN q = 1 .. Len(q) /\ Len(q) \in Nat /\ Range(q) \subseteq Record
  BY <1>2, LenProperties DEF Range
<1>4. page \in Nat \ {0} /\ PageSize \in Nat \ {0}
  BY ReadsAssumption DEF PageInv, TypeOK
<1>5. m \in Nat /\ Offset \in Nat /\ Offset < m
  <2>1. page - 1 \in Nat /\ m = (page - 1) * PageSize + PageSize
    BY <1>4
  <2> QED
    BY <2>1, <1>4 DEF Offset
<1>6. Behind(Current) = UpTo(q, Offset) /\ Ahead(Current) = Beyond(q, Offset)
  BY <1>1 DEF Behind, Ahead
<1>7. CASE req.style = "whole"
  <2>1. InAnswer = Range(q) /\ LastPage
    BY <1>7 DEF InAnswer, LastPage
  <2>2. page = 1
    BY <1>7 DEF PageInv, Unpaged, ReadPage
  <2>3. Offset = 0
    BY <2>2, <1>4 DEF Offset
  <2>4. Range(q) \subseteq Beyond(q, 0)
    BY <1>3 DEF Beyond, Range
  <2> QED
    BY <2>1, <2>3, <2>4, <1>3, <1>6
<1>8. CASE req.style # "whole"
  <2>1. InAnswer = {q[k] : k \in {i \in DOMAIN q : i > Offset /\ i <= m}}
    BY <1>8 DEF InAnswer, OnPage, Offset
  <2>2. LastPage <=> Len(q) < m
    BY <1>8 DEF LastPage
  <2> HIDE DEF m, q
  <2>3. InAnswer \subseteq Beyond(q, Offset) /\ InAnswer \subseteq Record
    BY <2>1, <1>3 DEF Beyond, Range
  <2>4. Range(q) \subseteq UpTo(q, Offset) \cup InAnswer \cup Beyond(q, m)
    BY <2>1, <1>3, <1>5 DEF UpTo, Beyond, Range
  <2>5. Len(q) < m => Beyond(q, m) = {}
    BY <1>3, <1>5 DEF Beyond
  <2>6. InAnswer \cap Beyond(q, m) = {}
    BY <2>1, <1>2, <1>3, <1>5 DEF Beyond, Injective
  <2>7. Beyond(q, m) \subseteq Beyond(q, Offset)
    BY <1>3, <1>5 DEF Beyond
  <2>8. UpTo(q, m) \subseteq UpTo(q, Offset) \cup InAnswer
    BY <2>1, <1>3, <1>5 DEF UpTo
  <2> QED
    BY <2>2, <2>3, <2>4, <2>5, <2>6, <2>7, <2>8, <1>6 DEF m, q
<1> QED
  BY <1>7, <1>8

\* Where a page leaves each entity: complete, one page further, or as it was.
LEMMA PageMoves ==
    ASSUME PageInv, ReadPage, TypeOK', NEW e \in Asked
    PROVE  /\ Asked' = Asked
           /\ Finished(e) => Finished(e)'
           /\ e = Current /\ LastPage => Finished(e)'
           /\ e = Current /\ ~LastPage =>
                 /\ ~Finished(e)' /\ Current' = e
                 /\ Offset' = page * PageSize
           /\ e # Current /\ ~Finished(e) =>
                 /\ Behind(e)' = {} /\ ~Finished(e)'
                 /\ \A r \in Record : merged'[e][r] = 0
<1>1. /\ req' = req /\ Asked' = Asked
      /\ Current' = req.entities[step'] /\ Current = req.entities[step]
      /\ status = "reading" /\ store' = store
  BY DEF ReadPage, erp, Asked, Current
<1>2. step \in 1 .. Len(req.entities) /\ step' \in 1 .. Len(req.entities)
      /\ \A i, j \in 1 .. Len(req.entities) :
            req.entities[i] = req.entities[j] => i = j
  BY <1>1, RequestShape DEF PageInv, TypeOK, Injective
<1>3. PICK i \in 1 .. Len(req.entities) : req.entities[i] = e
  BY RequestShape DEF PageInv, Asked, Range
<1>4. Finished(e) <=> i < step
  BY <1>1, <1>2, <1>3 DEF Finished
<1>5. Finished(e)' <=> status' = "answered" \/ i < step'
  <2>1. Finished(e)' <=> status' = "answered"
                            \/ \E j \in 1 .. step' - 1 : req.entities[j] = e
    BY <1>1 DEF Finished
  <2>2. Len(req.entities) \in Nat /\ step' \in 1 .. Len(req.entities)
    BY <1>2, RequestShape DEF PageInv
  <2>3. ASSUME NEW n \in 1 .. Len(req.entities)
        PROVE  (\E j \in 1 .. n - 1 : req.entities[j] = e) <=> i < n
    <3>1. CASE i < n
      BY <1>3, <2>2, <3>1
    <3>2. CASE ~(i < n)
      <4>1. ASSUME NEW j \in 1 .. n - 1, req.entities[j] = e
            PROVE  FALSE
        <5>1. j \in 1 .. Len(req.entities)
          BY <2>2
        <5>2. j = i
          BY <1>2, <1>3, <4>1, <5>1
        <5> QED
          BY <3>2, <5>2
      <4> QED
        BY <3>2, <4>1
    <3> QED
      BY <3>1, <3>2
  <2>4. (\E j \in 1 .. step' - 1 : req.entities[j] = e) <=> i < step'
    BY <2>2, <2>3, Zenon
  <2> QED
    BY <2>1, <2>4
<1>6. e = Current <=> i = step
  BY <1>1, <1>2, <1>3
<1>7. CASE LastPage
  <2>1. NextList
    BY <1>7 DEF ReadPage
  <2>2. \/ step' = step + 1 /\ status' = "reading" /\ page' = 1
        \/ step' = step /\ status' = "answered" /\ step = Len(req.entities)
    BY <2>1, <1>2 DEF NextList
  <2>3. Finished(e)' \/ i > step
    BY <2>2, <1>2, <1>5
  <2>4. i <= step => Finished(e)'
    BY <2>2, <1>2, <1>5
  <2>5. ASSUME i > step
        PROVE  Behind(e)' = {} /\ ~Finished(e)' /\ \A r \in Record : merged'[e][r] = 0
    <3>1. /\ step' = step + 1 /\ status' = "reading" /\ page' = 1
          /\ ~Finished(e)' /\ e # Current /\ ~Finished(e)
      BY <2>2, <2>5, <1>2, <1>4, <1>5, <1>6
    <3>2. \A r \in Record : merged[e][r] = 0
      BY <3>1 DEF PageInv, NotBegun, ReadPage
    <3>3. merged'[e] = merged[e]
      BY <3>1, RequestShape DEF PageInv, ReadPage, TypeOK
    <3>4. Offset' = 0
      BY <3>1, ReadsAssumption DEF Offset
    <3>5. e \in Entity /\ store[e] \in Seq(Record)
      BY RequestShape DEF PageInv, TypeOK
    <3>6. UpTo(store[e], 0) = {}
      BY <3>5, LenProperties DEF UpTo
    <3>7. Behind(e)' = IF e = Current' THEN UpTo(store'[e], Offset') ELSE {}
      BY <3>1 DEF Behind
    <3> QED
      BY <3>1, <3>2, <3>3, <3>4, <3>6, <3>7, <1>1
  <2> QED
    BY <1>1, <1>2, <1>4, <1>6, <1>7, <2>3, <2>4, <2>5
<1>8. CASE ~LastPage
  <2>1. TurnPage /\ step' = step
    BY <1>8 DEF ReadPage
  <2>2. page' = page + 1 /\ status' # "answered"
    BY <2>1 DEF TurnPage
  <2>3. Offset' = page * PageSize
    BY <2>2 DEF PageInv, Offset, TypeOK
  <2>4. Finished(e)' <=> Finished(e)
    BY <2>1, <2>2, <1>4, <1>5
  <2>5. ASSUME e # Current, ~Finished(e)
        PROVE  Behind(e)' = {} /\ ~Finished(e)' /\ \A r \in Record : merged'[e][r] = 0
    <3>1. merged'[e] = merged[e]
      BY <2>5, RequestShape DEF PageInv, ReadPage, TypeOK
    <3>2. \A r \in Record : merged[e][r] = 0
      BY <2>5 DEF PageInv, NotBegun, ReadPage
    <3>3. Current' = Current
      BY <2>1, <1>1
    <3> QED
      BY <2>4, <2>5, <3>1, <3>2, <3>3 DEF Behind
  <2> QED
    BY <1>1, <1>4, <1>6, <1>8, <2>1, <2>3, <2>4, <2>5
<1> QED
  BY <1>7, <1>8

LEMMA ReadPageTypes ==
    TypeOK /\ ReadPage => TypeOK'
<1> SUFFICES ASSUME TypeOK, ReadPage PROVE TypeOK'
  OBVIOUS
<1> USE ReadsAssumption
<1>1. Current \in Entity /\ step \in 1 .. Len(req.entities)
      /\ Len(req.entities) \in Nat /\ DOMAIN req.entities = 1 .. Len(req.entities)
  BY RequestShape
<1>2. merged' \in [Entity -> [Record -> Nat]]
  BY <1>1 DEF ReadPage, TypeOK
<1>3. page \in Nat \ {0} /\ (req.style = "capped" => page <= MaxPages)
  BY DEF TypeOK, ReadPage
<1>4. /\ step' \in 1 .. Len(req.entities) /\ page' \in Nat \ {0}
      /\ status' \in {"reading", "answered", "refused"}
      /\ req.style = "capped" /\ status' # "refused" => page' <= MaxPages
  <2>1. CASE LastPage
    <3>1. NextList
      BY <2>1 DEF ReadPage
    <3> QED
      BY <1>1, <1>3, <3>1 DEF NextList
  <2>2. CASE ~LastPage
    <3>1. TurnPage /\ step' = step
      BY <2>2 DEF ReadPage
    <3> QED
      BY <1>1, <1>3, <3>1 DEF TurnPage, TooMany
  <2> QED
    BY <2>1, <2>2
<1>5. UNCHANGED <<store, req, found, changes, faults, steady, made, removed, peak>>
  BY DEF ReadPage, erp
<1> QED
  BY <1>1, <1>2, <1>4, <1>5 DEF TypeOK

LEMMA ReadPageKeeps ==
    PageInv /\ ReadPage => PageInv'
<1> SUFFICES ASSUME PageInv, ReadPage PROVE PageInv'
  OBVIOUS
<1>1. TypeOK'
  BY ReadPageTypes DEF PageInv
<1>2. Steady'
  BY DEF PageInv, Steady, ReadPage, erp
<1>3. req' = req /\ req.kind = "list" /\ Asked' = Asked /\ store' = store
      /\ steady' = steady /\ made' = made /\ removed' = removed
  BY DEF ReadPage, erp, Asked
<1>4. NotBegun'
  BY <1>1, <1>3, PageMoves DEF NotBegun
<1>5. Unpaged'
  <2>1. CASE LastPage
    BY <2>1 DEF ReadPage, NextList, PageInv, Unpaged
  <2>2. CASE ~LastPage
    BY <2>2 DEF ReadPage, LastPage, Unpaged
  <2> QED
    BY <2>1, <2>2
<1>6. ASSUME NEW e \in Asked
      PROVE  /\ Lost(e)' \subseteq Lost(e)
             /\ Repeats(e)' \subseteq Repeats(e)
  <2>1. e \in Entity /\ Current \in Entity
    BY RequestShape DEF PageInv
  <2>2. /\ merged \in [Entity -> [Record -> Nat]]
        /\ steady[e] \subseteq Range(store[e]) /\ steady[e] \subseteq Record
    BY <2>1 DEF PageInv, TypeOK, Steady
  <2>8. \A r \in Record : merged[e][r] \in Nat
    BY <2>1, <2>2
  <2>3. \A r \in Record : merged'[e][r] =
            IF e = Current /\ r \in InAnswer THEN merged[e][r] + 1 ELSE merged[e][r]
    BY <2>1, <2>2 DEF ReadPage
  <2>4. CASE Finished(e)
    <3>1. e # Current
      <4>1. \A j \in 1 .. step - 1 : req.entities[j] # req.entities[step]
        BY RequestShape DEF PageInv, Injective
      <4> QED
        BY <2>4, <4>1, RequestShape DEF PageInv, Finished, ReadPage, Current
    <3>2. Behind(e) = Record /\ Ahead(e)' = {}
      BY <1>1, <2>4, PageMoves DEF Behind, Ahead
    <3> QED
      BY <1>3, <2>2, <2>3, <3>1, <3>2 DEF Lost, Repeats
  <2>5. CASE e # Current /\ ~Finished(e)
    <3>1. Behind(e)' = {} /\ \A r \in Record : merged'[e][r] = 0
      BY <1>1, <2>5, PageMoves
    <3> QED
      BY <3>1 DEF Lost, Repeats
  <2>6. CASE e = Current /\ LastPage
    <3>1. Ahead(e)' = {}
      BY <1>1, <2>6, PageMoves DEF Ahead
    <3>2. InAnswer \subseteq Ahead(e) /\ Range(store[e]) \subseteq Behind(e) \cup InAnswer
      BY <2>6, PageRead
    <3>3. ASSUME NEW r \in steady[e], merged'[e][r] = 0
          PROVE  merged[e][r] = 0 /\ r \in Behind(e)
      BY <2>2, <2>3, <2>6, <2>8, <3>2, <3>3
    <3>4. ASSUME NEW r \in Record, merged'[e][r] > 1
          PROVE  merged[e][r] > 1 \/ (merged[e][r] > 0 /\ r \in Ahead(e))
      BY <2>3, <2>8, <3>2, <3>4
    <3> QED
      BY <1>3, <2>2, <3>1, <3>3, <3>4 DEF Lost, Repeats
  <2>7. CASE e = Current /\ ~LastPage /\ ~Finished(e)
    <3>1. /\ ~Finished(e)' /\ Current' = e /\ Offset' = page * PageSize
      BY <1>1, <2>7, PageMoves
    <3>2. /\ Ahead(e)' = Beyond(store[e], page * PageSize)
          /\ Behind(e)' = UpTo(store[e], page * PageSize)
      BY <1>3, <3>1 DEF Ahead, Behind
    <3>3. /\ InAnswer \subseteq Ahead(e)
          /\ InAnswer \cap Ahead(e)' = {} /\ Ahead(e)' \subseteq Ahead(e)
          /\ Behind(e)' \subseteq Behind(e) \cup InAnswer
      BY <2>7, <3>2, PageRead
    <3>4. ASSUME NEW r \in steady[e], merged'[e][r] = 0, r \in Behind(e)'
          PROVE  merged[e][r] = 0 /\ r \in Behind(e)
      BY <2>2, <2>3, <2>7, <2>8, <3>3, <3>4
    <3>5. ASSUME NEW r \in Record,
                 merged'[e][r] > 1 \/ (merged'[e][r] > 0 /\ r \in Ahead(e)')
          PROVE  merged[e][r] > 1 \/ (merged[e][r] > 0 /\ r \in Ahead(e))
      BY <2>3, <2>8, <3>3, <3>5
    <3> QED
      BY <1>3, <2>2, <3>4, <3>5 DEF Lost, Repeats
  <2> QED
    BY <2>4, <2>5, <2>6, <2>7
<1>7. \A e \in Asked : removed[e] \in Nat /\ made[e] \in Nat
  BY RequestShape DEF PageInv, TypeOK
<1>8. \A e \in Asked : Bounded(Lost(e)', removed'[e]) /\ Bounded(Repeats(e)', made'[e])
  BY <1>3, <1>6, <1>7, BoundedSubset DEF PageInv
<1> QED
  BY <1>1, <1>2, <1>3, <1>4, <1>5, <1>8 DEF PageInv

\* Others change a list: at most one more record gets lost when one is
\* removed, at most one more is repeated when one is made.
LEMMA OffsetTyped ==
    TypeOK => Offset \in Nat
<1> SUFFICES ASSUME TypeOK PROVE Offset \in Nat
  OBVIOUS
<1>1. page - 1 \in Nat /\ PageSize \in Nat
  BY ReadsAssumption DEF TypeOK
<1> QED
  BY <1>1 DEF Offset

LEMMA MadeKeeps ==
    ASSUME PageInv, NEW a \in Asked, NEW x \in Record,
           NEW i \in 1 .. Len(store[a]) + 1, Made(a, x, i),
           status = "reading",
           UNCHANGED <<req, step, page, merged, found, status, faults>>,
           changes' = changes + 1
    PROVE  PageInv'
<1>1. /\ a \in Entity /\ store[a] \in Seq(Record) /\ Injective(store[a])
      /\ Asked \subseteq Entity /\ Offset \in Nat
  BY RequestShape, OffsetTyped DEF PageInv, TypeOK
<1> DEFINE q == store[a]
           t == InsertAt(q, i, x)
<1>2. /\ t \in Seq(Record) /\ Injective(t) /\ Len(t) = Len(q) + 1
      /\ Range(t) = Range(q) \cup {x}
      /\ UpTo(t, Offset) \cap Range(q) \subseteq UpTo(q, Offset)
      /\ \E y : Beyond(t, Offset) \subseteq Beyond(q, Offset) \cup {y}
  <2>1. q \in Seq(Record) /\ Injective(q) /\ x \notin Range(q)
        /\ i \in 1 .. Len(q) + 1
    BY <1>1 DEF Made
  <2> HIDE DEF q
  <2>2. /\ t \in Seq(Record) /\ Injective(t) /\ Len(t) = Len(q) + 1
        /\ Range(t) = Range(q) \cup {x}
        /\ UpTo(t, Offset) \cap Range(q) \subseteq UpTo(q, Offset)
        /\ OneMore(Beyond(t, Offset), Beyond(q, Offset))
    BY <1>1, <2>1, InsertedMoves
  <2> QED
    BY <2>2 DEF OneMore
<1>3. store' = [store EXCEPT ![a] = t] /\ UNCHANGED <<steady, removed>>
      /\ made' = [made EXCEPT ![a] = @ + 1]
  BY DEF Made
<1> HIDE DEF q, t
<1>4. TypeOK'
  <2>1. store' \in [Entity -> Seq(Record)] /\ \A e \in Entity : Injective(store'[e])
    BY <1>1, <1>2, <1>3 DEF PageInv, TypeOK
  <2>2. made' \in [Entity -> Nat]
    BY <1>1, <1>3 DEF PageInv, TypeOK
  <2>3. peak' \in [Entity -> Nat] /\ changes' \in Nat
    BY <1>1, LenProperties DEF PageInv, TypeOK, Made
  <2> QED
    BY <1>3, <2>1, <2>2, <2>3 DEF PageInv, TypeOK
<1>5. Steady'
  BY <1>1, <1>2, <1>3 DEF PageInv, Steady, TypeOK, q
<1>6. /\ Asked' = Asked /\ Current' = Current /\ Offset' = Offset
      /\ \A e \in Asked : Finished(e)' = Finished(e)
  BY DEF Asked, Current, Offset, Finished
<1>7. ASSUME NEW e \in Asked, req.kind = "list"
      PROVE  /\ Lost(e)' \subseteq Lost(e)
             /\ \E y : Repeats(e)' \subseteq Repeats(e) \cup {y}
             /\ e # a => Repeats(e)' \subseteq Repeats(e)
  <2>1. steady'[e] = steady[e] /\ steady[e] \subseteq Range(store[e])
        /\ store'[e] = (IF e = a THEN t ELSE store[e]) /\ merged' = merged
    BY <1>1, <1>3 DEF PageInv, Steady, TypeOK
  <2>2. CASE Finished(e) \/ e # Current
    <3>1. Ahead(e)' = {} /\ Behind(e)' = Behind(e) /\ Ahead(e) = {}
      BY <1>6, <2>2 DEF Ahead, Behind
    <3> QED
      BY <2>1, <3>1 DEF Lost, Repeats
  <2>3. CASE ~Finished(e) /\ e = Current
    <3>1. /\ Ahead(e)' = Beyond(store'[e], Offset) /\ Ahead(e) = Beyond(store[e], Offset)
          /\ Behind(e)' = UpTo(store'[e], Offset) /\ Behind(e) = UpTo(store[e], Offset)
      BY <1>6, <2>3 DEF Ahead, Behind
    <3>2. CASE e # a
      BY <2>1, <3>1, <3>2 DEF Lost, Repeats
    <3>3. CASE e = a
      <4>1. Behind(e)' \cap Range(store[e]) \subseteq Behind(e)
        BY <1>2, <2>1, <3>1, <3>3 DEF q
      <4>2. PICK y : Ahead(e)' \subseteq Ahead(e) \cup {y}
        BY <1>2, <2>1, <3>1, <3>3 DEF q
      <4>3. Lost(e)' \subseteq Lost(e)
        BY <2>1, <4>1 DEF Lost
      <4>4. Repeats(e)' \subseteq Repeats(e) \cup {y}
        BY <2>1, <4>2 DEF Repeats
      <4> QED
        BY <3>3, <4>3, <4>4
    <3> QED
      BY <3>2, <3>3
  <2> QED
    BY <2>2, <2>3
<1>8. ASSUME NEW e \in Asked, req.kind = "list"
      PROVE  Bounded(Lost(e)', removed'[e]) /\ Bounded(Repeats(e)', made'[e])
  <2>1. removed[e] \in Nat /\ made[e] \in Nat /\ removed' = removed
        /\ Bounded(Lost(e), removed[e]) /\ Bounded(Repeats(e), made[e])
        /\ made'[e] = IF e = a THEN made[e] + 1 ELSE made[e]
    BY <1>1, <1>3, <1>8 DEF PageInv, TypeOK
  <2>2. Bounded(Lost(e)', removed'[e])
    BY <1>7, <1>8, <2>1, BoundedSubset
  <2>3. Bounded(Repeats(e)', made'[e])
    <3>1. CASE e = a
      <4>1. PICK y : Repeats(e)' \subseteq Repeats(e) \cup {y}
        BY <1>7, <1>8
      <4>2. Bounded(Repeats(e)', made[e] + 1)
        BY <2>1, <4>1, BoundedOneMore
      <4> QED
        BY <2>1, <3>1, <4>2
    <3>2. CASE e # a
      BY <1>7, <1>8, <2>1, <3>2, BoundedSubset
    <3> QED
      BY <3>1, <3>2
  <2> QED
    BY <2>2, <2>3
<1> QED
  BY <1>4, <1>5, <1>6, <1>8 DEF PageInv, NotBegun, Unpaged

LEMMA RemovedKeeps ==
    ASSUME PageInv, NEW a \in Asked, NEW i \in DOMAIN store[a], Removed(a, i),
           status = "reading",
           UNCHANGED <<req, step, page, merged, found, status, faults>>,
           changes' = changes + 1
    PROVE  PageInv'
<1>1. /\ a \in Entity /\ store[a] \in Seq(Record) /\ Injective(store[a])
      /\ Asked \subseteq Entity /\ Offset \in Nat
  BY RequestShape, OffsetTyped DEF PageInv, TypeOK
<1> DEFINE q == store[a]
           t == RemoveAt(q, i)
<1>2. /\ t \in Seq(Record) /\ Injective(t)
      /\ Range(t) = Range(q) \ {q[i]}
      /\ Beyond(t, Offset) \subseteq Beyond(q, Offset)
      /\ \E y : UpTo(t, Offset) \subseteq UpTo(q, Offset) \cup {y}
  BY <1>1, RemovedMoves
<1>3. store' = [store EXCEPT ![a] = t] /\ UNCHANGED <<made, peak>>
      /\ removed' = [removed EXCEPT ![a] = @ + 1]
      /\ steady' = [steady EXCEPT ![a] = @ \ {q[i]}]
  BY DEF Removed
<1> HIDE DEF q, t
<1>4. TypeOK'
  <2>1. store' \in [Entity -> Seq(Record)] /\ \A e \in Entity : Injective(store'[e])
    BY <1>1, <1>2, <1>3 DEF PageInv, TypeOK
  <2>2. removed' \in [Entity -> Nat] /\ steady' \in [Entity -> SUBSET Record]
    BY <1>1, <1>3 DEF PageInv, TypeOK
  <2>3. changes' \in Nat
    BY DEF PageInv, TypeOK
  <2> QED
    BY <1>3, <2>1, <2>2, <2>3 DEF PageInv, TypeOK
<1>5. Steady'
  BY <1>1, <1>2, <1>3 DEF PageInv, Steady, TypeOK, q
<1>6. /\ Asked' = Asked /\ Current' = Current /\ Offset' = Offset
      /\ \A e \in Asked : Finished(e)' = Finished(e)
  BY DEF Asked, Current, Offset, Finished
<1>7. ASSUME NEW e \in Asked, req.kind = "list"
      PROVE  /\ Repeats(e)' \subseteq Repeats(e)
             /\ \E y : Lost(e)' \subseteq Lost(e) \cup {y}
             /\ e # a => Lost(e)' \subseteq Lost(e)
  <2>1. steady'[e] \subseteq steady[e]
        /\ store'[e] = (IF e = a THEN t ELSE store[e]) /\ merged' = merged
    BY <1>1, <1>3 DEF PageInv, TypeOK
  <2>2. CASE Finished(e) \/ e # Current
    <3>1. Ahead(e)' = {} /\ Behind(e)' = Behind(e) /\ Ahead(e) = {}
      BY <1>6, <2>2 DEF Ahead, Behind
    <3> QED
      BY <2>1, <3>1 DEF Lost, Repeats
  <2>3. CASE ~Finished(e) /\ e = Current
    <3>1. /\ Ahead(e)' = Beyond(store'[e], Offset) /\ Ahead(e) = Beyond(store[e], Offset)
          /\ Behind(e)' = UpTo(store'[e], Offset) /\ Behind(e) = UpTo(store[e], Offset)
      BY <1>6, <2>3 DEF Ahead, Behind
    <3>2. CASE e # a
      BY <2>1, <3>1, <3>2 DEF Lost, Repeats
    <3>3. CASE e = a
      <4>1. Ahead(e)' \subseteq Ahead(e)
        BY <1>2, <2>1, <3>1, <3>3 DEF q
      <4>2. PICK y : Behind(e)' \subseteq Behind(e) \cup {y}
        BY <1>2, <2>1, <3>1, <3>3 DEF q
      <4>3. Lost(e)' \subseteq Lost(e) \cup {y}
        BY <2>1, <4>2 DEF Lost
      <4>4. Repeats(e)' \subseteq Repeats(e)
        BY <2>1, <4>1 DEF Repeats
      <4> QED
        BY <3>3, <4>3, <4>4
    <3> QED
      BY <3>2, <3>3
  <2> QED
    BY <2>2, <2>3
<1>8. ASSUME NEW e \in Asked, req.kind = "list"
      PROVE  Bounded(Lost(e)', removed'[e]) /\ Bounded(Repeats(e)', made'[e])
  <2>1. removed[e] \in Nat /\ made[e] \in Nat /\ made' = made
        /\ Bounded(Lost(e), removed[e]) /\ Bounded(Repeats(e), made[e])
        /\ removed'[e] = IF e = a THEN removed[e] + 1 ELSE removed[e]
    BY <1>1, <1>3, <1>8 DEF PageInv, TypeOK
  <2>2. Bounded(Lost(e)', removed'[e])
    <3>1. CASE e = a
      <4>1. PICK y : Lost(e)' \subseteq Lost(e) \cup {y}
        BY <1>7, <1>8
      <4>2. Bounded(Lost(e)', removed[e] + 1)
        BY <2>1, <4>1, BoundedOneMore
      <4> QED
        BY <2>1, <3>1, <4>2
    <3>2. CASE e # a
      BY <1>7, <1>8, <2>1, <3>2, BoundedSubset
    <3> QED
      BY <3>1, <3>2
  <2>3. Bounded(Repeats(e)', made'[e])
    BY <1>7, <1>8, <2>1, BoundedSubset
  <2> QED
    BY <2>2, <2>3
<1> QED
  BY <1>4, <1>5, <1>6, <1>8 DEF PageInv, NotBegun, Unpaged

\* Lookups and failed calls leave the lists alone.
LEMMA LookedTypes ==
    ASSUME PageInv, NEW hit \in BOOLEAN, Looked(hit)
    PROVE  /\ found' \subseteq Entity
           /\ step' \in 1 .. Len(req.entities)
           /\ status' \in {"reading", "answered", "ambiguous", "absent", "failed", "refused"}
           /\ status' = "refused" => status = "refused"
<1>1. step \in 1 .. Len(req.entities) /\ Len(req.entities) \in Nat
      /\ Current \in Entity /\ found \subseteq Entity
  BY RequestShape DEF PageInv, TypeOK
<1>2. found' \subseteq Entity
  BY <1>1 DEF Looked
<1>3. Verdict(found') \in {"answered", "ambiguous", "absent"}
  BY DEF Verdict
<1> QED
  BY <1>1, <1>2, <1>3 DEF Looked, PageInv, TypeOK

LEMMA OtherCallsKeep ==
    PageInv /\ (LookUp \/ CallFails) => PageInv'
<1>1. ASSUME PageInv, req.kind = "lookup", NEW hit \in BOOLEAN, Looked(hit),
             UNCHANGED <<erp, req, page, merged>>, faults' \in Nat
      PROVE  PageInv'
  <2>1. TypeOK'
    BY <1>1, LookedTypes, RequestShape DEF PageInv, TypeOK, erp
  <2> QED
    BY <1>1, <2>1 DEF PageInv, Steady, erp
<1>2. ASSUME PageInv, LookUp PROVE PageInv'
  <2>1. faults' \in Nat
    BY <1>2 DEF PageInv, TypeOK, LookUp
  <2>2. (req.id \in Range(store[Current])) \in BOOLEAN
    OBVIOUS
  <2> QED
    BY <1>1, <1>2, <2>1, <2>2 DEF LookUp
<1>3. ASSUME PageInv, CallFails PROVE PageInv'
  <2>1. faults' \in Nat /\ UNCHANGED <<erp, req, page, merged>>
    BY <1>3 DEF PageInv, TypeOK, CallFails
  <2>2. CASE req.kind = "lookup" /\ Looked(FALSE)
    BY <1>1, <1>3, <2>1, <2>2
  <2>3. CASE status' = "failed" /\ UNCHANGED <<step, found>>
    <3>1. TypeOK'
      BY <1>3, <2>1, <2>3 DEF PageInv, TypeOK, erp, CallFails
    <3>2. /\ Asked' = Asked /\ Current' = Current /\ Offset' = Offset
          /\ \A e \in Asked : Finished(e)' = Finished(e)
      BY <1>3, <2>1, <2>3 DEF Asked, Current, Offset, Finished, CallFails
    <3>3. \A e \in Asked : Lost(e)' = Lost(e) /\ Repeats(e)' = Repeats(e)
      BY <2>1, <3>2 DEF Lost, Repeats, Behind, Ahead, erp
    <3> QED
      BY <1>3, <2>1, <3>1, <3>2, <3>3 DEF PageInv, Steady, NotBegun, Unpaged, erp
  <2> QED
    BY <1>3, <2>2, <2>3 DEF CallFails
<1> QED
  BY <1>2, <1>3

LEMMA PageStep ==
    PageInv /\ [Next]_vars => PageInv'
<1> SUFFICES ASSUME PageInv, [Next]_vars PROVE PageInv'
  OBVIOUS
<1>1. CASE ReadPage
  BY <1>1, ReadPageKeeps
<1>2. CASE LookUp \/ CallFails
  BY <1>2, OtherCallsKeep
<1>3. CASE Elsewhere
  <2>1. PICK a \in Asked :
            \/ \E r \in Record : \E i \in 1 .. Len(store[a]) + 1 : Made(a, r, i)
            \/ \E i \in DOMAIN store[a] : Removed(a, i)
    BY <1>3 DEF Elsewhere
  <2>2. /\ status = "reading" /\ changes' = changes + 1
        /\ UNCHANGED <<req, step, page, merged, found, status, faults>>
    BY <1>3 DEF Elsewhere
  <2> QED
    BY <2>1, <2>2, MadeKeeps, RemovedKeeps
<1>4. CASE UNCHANGED vars
  <2>1. TypeOK'
    BY <1>4 DEF vars, erp, PageInv, TypeOK
  <2>2. /\ Asked' = Asked /\ Current' = Current /\ Offset' = Offset
        /\ \A e \in Asked : Finished(e)' = Finished(e)
    BY <1>4 DEF vars, Asked, Current, Offset, Finished
  <2>3. \A e \in Asked : Lost(e)' = Lost(e) /\ Repeats(e)' = Repeats(e)
    BY <1>4, <2>2 DEF vars, erp, Lost, Repeats, Behind, Ahead
  <2> QED
    BY <1>4, <2>1, <2>2, <2>3 DEF vars, erp, PageInv, Steady, NotBegun, Unpaged
<1> QED
  BY <1>1, <1>2, <1>3, <1>4 DEF Next

\* A list that is answered lost at most as many records as were removed while
\* it was read: paging by offset misses nothing of a list that only grows
\* (pagination.py:34-46).
THEOREM ListsMissAtMost ==
    Safe => []MissedBounded
<1>1. PageInv => MissedBounded
  <2> SUFFICES ASSUME PageInv, status = "answered", req.kind = "list",
                      NEW e \in Asked
               PROVE  Cardinality({r \in steady[e] : merged[e][r] = 0}) <= removed[e]
    BY DEF MissedBounded
  <2>1. steady[e] \subseteq Record
    BY RequestShape DEF PageInv, TypeOK
  <2>2. Behind(e) = Record
    BY DEF Behind, Finished
  <2>3. Lost(e) = {r \in steady[e] : merged[e][r] = 0}
    BY <2>1, <2>2 DEF Lost
  <2> QED
    BY <2>3 DEF PageInv, Bounded
<1> QED
  BY <1>1, ReadsInit, PageStep, PTL DEF Safe

\* A list repeats at most as many records as were made while it was read:
\* paging by offset repeats nothing of a list that only shrinks (same lines).
THEOREM ListsRepeatAtMost ==
    Safe => []TwiceBounded
<1>1. PageInv => TwiceBounded
  <2> SUFFICES ASSUME PageInv, req.kind = "list", NEW e \in Asked
               PROVE  Cardinality({r \in Record : merged[e][r] > 1}) <= made[e]
    BY DEF TwiceBounded
  <2>1. {r \in Record : merged[e][r] > 1} \subseteq Repeats(e)
    BY DEF Repeats
  <2>2. made[e] \in Nat
    BY RequestShape DEF PageInv, TypeOK
  <2>3. Bounded({r \in Record : merged[e][r] > 1}, made[e])
    BY <2>1, <2>2, BoundedSubset DEF PageInv
  <2> QED
    BY <2>3 DEF Bounded
<1> QED
  BY <1>1, ReadsInit, PageStep, PTL DEF Safe

-----------------------------------------------------------------------------
\* The state of a read is well formed in every reachable state, and a list
\* with a cap never asks for a page beyond it.
THEOREM ReadsTyped ==
    Safe => []TypeOK
<1>1. PageInv => TypeOK
  BY DEF PageInv
<1> QED
  BY <1>1, ReadsInit, PageStep, PTL DEF Safe

\* The most records a list had are at least those it has, and the pages before
\* the one it asks for were full with records that were there at once.
PeakInv ==
    /\ \A e \in Entity : peak[e] >= Len(store[e])
    /\ PagesBounded

LEMMA PeakStep ==
    PageInv /\ PageInv' /\ PeakInv /\ [Next]_vars => PeakInv'
<1> SUFFICES ASSUME PageInv, PageInv', PeakInv, [Next]_vars PROVE PeakInv'
  OBVIOUS
<1>1. /\ Current \in Entity /\ Asked \subseteq Entity
      /\ \A e \in Entity : peak[e] \in Nat /\ Len(store[e]) \in Nat
      /\ peak \in [Entity -> Nat] /\ store \in [Entity -> Seq(Record)]
      /\ page \in Nat \ {0} /\ PageSize \in Nat \ {0} /\ MaxPages \in Nat \ {0}
  BY RequestShape, LenProperties, ReadsAssumption DEF PageInv, TypeOK
<1>2. UNCHANGED <<req, step>> => Current' = Current
  BY DEF Current
<1>3. CASE ReadPage
  <2>1. UNCHANGED <<store, peak, req>>
    BY <1>3 DEF ReadPage, erp
  <2>2. Current' \in Entity
    BY <1>1, <2>1 DEF PageInv, TypeOK, Current, Asked, Range
  <2>3. CASE LastPage /\ step < Len(req.entities)
    <3>1. page' = 1
      BY <1>3, <2>3 DEF ReadPage, NextList
    <3>2. (page' - 1) * PageSize = 0 /\ peak[Current'] >= 0
      BY <1>1, <2>2, <3>1
    <3> QED
      BY <2>1, <3>2 DEF PeakInv, PagesBounded
  <2>4. CASE LastPage /\ ~(step < Len(req.entities))
    <3>1. UNCHANGED <<step, page>>
      BY <1>3, <2>4 DEF ReadPage, NextList
    <3> QED
      BY <1>2, <2>1, <3>1 DEF PeakInv, PagesBounded
  <2>5. CASE ~LastPage
    <3>1. page' = page + 1 /\ step' = step
      BY <1>3, <2>5 DEF ReadPage, TurnPage
    <3>2. ~(Len(store[Current]) < page * PageSize)
      BY <2>5 DEF LastPage
    <3>3. page * PageSize \in Nat /\ page' - 1 = page
      BY <1>1, <3>1
    <3>4. (page' - 1) * PageSize <= peak[Current]
      BY <1>1, <3>2, <3>3 DEF PeakInv
    <3> QED
      BY <1>2, <2>1, <3>1, <3>4 DEF PeakInv, PagesBounded
  <2> QED
    BY <2>3, <2>4, <2>5
<1>4. CASE LookUp \/ CallFails
  <2>1. UNCHANGED <<store, peak, req, page>> /\ (req.kind = "list" => step' = step)
    BY <1>4 DEF LookUp, CallFails, Looked, erp
  <2> QED
    BY <1>2, <2>1 DEF PeakInv, PagesBounded
<1>5. CASE Elsewhere
  <2>1. PICK a \in Asked :
            \/ \E r \in Record : \E i \in 1 .. Len(store[a]) + 1 : Made(a, r, i)
            \/ \E i \in DOMAIN store[a] : Removed(a, i)
    BY <1>5 DEF Elsewhere
  <2>2. UNCHANGED <<req, step, page>>
    BY <1>5 DEF Elsewhere
  <2>3. a \in Entity /\ store[a] \in Seq(Record)
    BY <1>1, <2>1
  <2>4. ASSUME NEW r \in Record, NEW i \in 1 .. Len(store[a]) + 1, Made(a, r, i)
        PROVE  \A e \in Entity : peak'[e] >= Len(store'[e]) /\ peak'[e] >= peak[e]
    <3>1. Len(InsertAt(store[a], i, r)) = Len(store[a]) + 1
      BY <2>3, Inserted
    <3>2. /\ store'[a] = InsertAt(store[a], i, r)
          /\ peak'[a] = IF Len(store[a]) + 1 > peak[a] THEN Len(store[a]) + 1
                                                     ELSE peak[a]
          /\ \A e \in Entity : e # a => store'[e] = store[e] /\ peak'[e] = peak[e]
      BY <1>1, <2>3, <2>4 DEF Made
    <3>3. peak'[a] >= Len(store[a]) + 1 /\ peak'[a] >= peak[a]
      BY <1>1, <2>3, <3>2
    <3>4. \A e \in Entity : e # a =>
              peak'[e] >= Len(store'[e]) /\ peak'[e] >= peak[e]
      BY <1>1, <3>2 DEF PeakInv
    <3> QED
      BY <3>1, <3>2, <3>3, <3>4
  <2>5. ASSUME NEW i \in DOMAIN store[a], Removed(a, i)
        PROVE  \A e \in Entity : peak'[e] >= Len(store'[e]) /\ peak'[e] >= peak[e]
    <3>1. Len(RemoveAt(store[a], i)) = Len(store[a]) - 1
      BY <2>3, <2>5, RemovedAt, LenProperties
    <3>2. /\ store'[a] = RemoveAt(store[a], i) /\ peak' = peak
          /\ \A e \in Entity : e # a => store'[e] = store[e]
      BY <1>1, <2>3, <2>5 DEF Removed
    <3>3. peak'[a] >= Len(store'[a])
      BY <1>1, <2>3, <3>1, <3>2 DEF PeakInv
    <3>4. \A e \in Entity : e # a => peak'[e] >= Len(store'[e])
      BY <3>2 DEF PeakInv
    <3> QED
      BY <1>1, <3>2, <3>3, <3>4
  <2>6. \A e \in Entity : peak'[e] >= Len(store'[e]) /\ peak'[e] >= peak[e]
    BY <2>1, <2>4, <2>5
  <2>7. ASSUME req.kind = "list"
        PROVE  (page - 1) * PageSize <= peak'[Current]
    <3>1. (page - 1) * PageSize <= peak[Current]
      BY <2>7 DEF PeakInv, PagesBounded
    <3>2. (page - 1) * PageSize \in Int /\ peak'[Current] \in Nat
      BY <1>1 DEF PageInv, TypeOK
    <3> QED
      BY <1>1, <2>6, <3>1, <3>2
  <2> QED
    BY <1>2, <2>2, <2>6, <2>7 DEF PeakInv, PagesBounded
<1>6. CASE UNCHANGED vars
  BY <1>2, <1>6 DEF vars, erp, PeakInv, PagesBounded
<1> QED
  BY <1>3, <1>4, <1>5, <1>6 DEF Next

\* A list asks for no page beyond those the ERP filled at some moment, so
\* changes between the calls neither keep a loop without a cap going nor have
\* a list refused (pagination.py:26-46, xero.py:122-141).
THEOREM PagesAlwaysBounded ==
    Safe => []PagesBounded
<1>1. Init => PeakInv
  <2> SUFFICES ASSUME Init PROVE PeakInv
    OBVIOUS
  <2>1. \A e \in Entity : Len(store[e]) \in Nat
    BY ReadsInit, LenProperties DEF PageInv, TypeOK
  <2>2. Current \in Entity
    BY ReadsInit, RequestShape DEF PageInv
  <2>3. page - 1 = 0 /\ 0 * PageSize = 0
    BY ReadsAssumption DEF Init
  <2> QED
    BY <2>1, <2>2, <2>3 DEF Init, PeakInv, PagesBounded
<1>2. PeakInv => PagesBounded
  BY DEF PeakInv
<1> QED
  BY <1>1, <1>2, ReadsInit, PageStep, PeakStep, PTL DEF Safe

-----------------------------------------------------------------------------
\* The entities a lookup has asked.
Tried ==
    {req.entities[j] : j \in {k \in DOMAIN req.entities :
        k < step \/ status \in {"answered", "absent", "ambiguous"}}}

\* A lookup that no failed call misled has found its id wherever it asked and
\* the id was there all the time.
LookupInv ==
    req.kind = "lookup" =>
        /\ IsFiniteSet(found)
        /\ status = "absent" => found = {}
        /\ status = "answered" => Cardinality(found) = 1
        /\ faults = 0 \/ ~req.lenient =>
              \A e \in Tried \ found : req.id \notin steady[e]

LEMMA LookupInit == Init => LookupInv
<1> SUFFICES ASSUME Init PROVE LookupInv
  OBVIOUS
<1>1. Tried = {}
  BY RequestKinds DEF Init, Tried
<1> QED
  BY <1>1, FS_EmptySet DEF Init, LookupInv

\* One more entity is asked: it has the id, or had not all the time, or the
\* call failed.
LEMMA LookedKeeps ==
    ASSUME PageInv, LookupInv, req.kind = "lookup", status = "reading",
           NEW hit \in BOOLEAN, Looked(hit), UNCHANGED <<erp, req>>,
           hit \/ req.id \notin steady[Current] \/ (faults' # 0 /\ req.lenient),
           faults' = 0 => faults = 0
    PROVE  LookupInv'
<1>1. /\ DOMAIN req.entities = 1 .. Len(req.entities) /\ Len(req.entities) \in Nat
      /\ step \in 1 .. Len(req.entities)
  BY RequestShape DEF PageInv
<1>2. found' = IF hit THEN found \cup {Current} ELSE found
  BY DEF Looked
<1>3. IsFiniteSet(found')
  BY <1>2, FS_AddElement DEF LookupInv
<1>4. Tried' \subseteq Tried \cup {Current}
  BY <1>1 DEF Tried, Looked, Current
<1>5. /\ status' = "absent" => found' = {}
      /\ status' = "answered" => Cardinality(found') = 1
  BY DEF Looked, Verdict
<1>6. ASSUME faults' = 0 \/ ~req.lenient, NEW e \in Tried' \ found'
      PROVE  req.id \notin steady[e]
  <2>1. CASE e = Current
    BY <1>2, <1>6, <2>1
  <2>2. CASE e # Current
    <3>1. e \in Tried \ found
      BY <1>2, <1>4, <1>6, <2>2
    <3> QED
      BY <1>6, <3>1 DEF LookupInv
  <2> QED
    BY <2>1, <2>2
<1> QED
  BY <1>3, <1>5, <1>6 DEF LookupInv, erp

LEMMA LookupStep ==
    PageInv /\ LookupInv /\ [Next]_vars => LookupInv'
<1> SUFFICES ASSUME PageInv, LookupInv, [Next]_vars, req.kind = "lookup"
             PROVE  LookupInv'
  BY DEF Next, vars, ReadPage, LookUp, CallFails, Elsewhere, LookupInv
<1>1. CASE LookUp
  <2>1. Current \in Entity /\ steady[Current] \subseteq Range(store[Current])
    BY RequestShape DEF PageInv, Steady
  <2>2. status = "reading" /\ UNCHANGED <<erp, req>> /\ (faults' = 0 => faults = 0)
    BY <1>1 DEF LookUp
  <2>3. CASE req.id \in Range(store[Current])
    <3>1. Looked(TRUE)
      BY <1>1, <2>3 DEF LookUp, Looked
    <3> QED
      BY <2>2, <3>1, LookedKeeps
  <2>4. CASE req.id \notin Range(store[Current])
    <3>1. Looked(FALSE) /\ req.id \notin steady[Current]
      BY <1>1, <2>1, <2>4 DEF LookUp, Looked
    <3> QED
      BY <2>2, <3>1, LookedKeeps
  <2> QED
    BY <2>3, <2>4
<1>2. CASE CallFails
  <2>1. faults' # 0 /\ UNCHANGED <<erp, req>> /\ status = "reading"
    BY <1>2 DEF CallFails, PageInv, TypeOK
  <2>2. CASE req.lenient /\ Looked(FALSE)
    BY <2>1, <2>2, LookedKeeps
  <2>3. CASE status' = "failed" /\ UNCHANGED <<step, found>>
    <3>1. Tried' = Tried
      BY <2>1, <2>3 DEF Tried
    <3>2. faults = 0 \/ ~req.lenient => \A e \in Tried \ found : req.id \notin steady[e]
      BY DEF LookupInv
    <3>3. faults' = 0 \/ ~req.lenient => \A e \in Tried' \ found' : req.id \notin steady'[e]
      BY <2>1, <2>3, <3>1, <3>2 DEF erp
    <3> QED
      BY <2>1, <2>3, <3>3 DEF LookupInv, erp
  <2> QED
    BY <1>2, <2>2, <2>3 DEF CallFails
<1>3. CASE Elsewhere
  <2>1. UNCHANGED <<req, step, page, merged, found, status, faults>>
    BY <1>3 DEF Elsewhere
  <2>2. Tried' = Tried
    BY <2>1 DEF Tried
  <2>3. \A e \in Entity : steady'[e] \subseteq steady[e]
    <3>1. steady \in [Entity -> SUBSET Record]
      BY DEF PageInv, TypeOK
    <3>2. PICK a \in Asked :
              steady' = steady \/ \E i : steady' = [steady EXCEPT ![a] = @ \ {store[a][i]}]
      BY <1>3 DEF Elsewhere, Made, Removed
    <3> QED
      BY <3>1, <3>2
  <2>4. Tried \subseteq Entity
    BY RequestShape DEF PageInv, Tried, Asked, Range
  <2> QED
    BY <2>1, <2>2, <2>3, <2>4 DEF LookupInv
<1>4. CASE ReadPage
  BY <1>4 DEF ReadPage
<1>5. CASE UNCHANGED vars
  <2>1. Tried' = Tried
    BY <1>5 DEF Tried, vars
  <2> QED
    BY <1>5, <2>1 DEF LookupInv, vars, erp
<1> QED
  BY <1>1, <1>2, <1>3, <1>4, <1>5 DEF Next

\* Unless a failed call counted as "no match", a lookup does not report absent
\* what was there all the time, nor answers with one of two records that both
\* had the id all the time, whatever is made and removed between its calls
\* (qbo.py:490-504).
THEOREM LookupsAlwaysTrue ==
    Safe => []LookupTrue
<1>1. PageInv /\ LookupInv => LookupTrue
  <2> SUFFICES ASSUME PageInv, LookupInv, req.kind = "lookup",
                      faults = 0 \/ ~req.lenient
               PROVE  LET there == {e \in Asked : req.id \in steady[e]}
                      IN /\ status = "absent" => there = {}
                         /\ status = "answered" => Cardinality(there) <= 1
    BY DEF LookupTrue
  <2> DEFINE there == {e \in Asked : req.id \in steady[e]}
  <2>1. status \in {"answered", "absent"} => there \subseteq found
    BY DEF LookupInv, Tried, Asked, Range
  <2>2. status = "answered" => Cardinality(there) <= 1
    BY <2>1, FS_Subset DEF LookupInv
  <2> QED
    BY <2>1, <2>2 DEF LookupInv
<1> QED
  BY <1>1, ReadsInit, PageStep, LookupInit, LookupStep, PTL DEF Safe
=============================================================================
