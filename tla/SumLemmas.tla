----------------------------- MODULE SumLemmas -----------------------------
(***************************************************************************)
(* Sums of a function over its finite domain.  SumFunction takes one       *)
(* element after the other out of the domain; what that adds up to is the  *)
(* value of any function on the subsets that satisfies its equation.  The  *)
(* induction is by a least subset for which a statement fails.             *)
(***************************************************************************)
EXTENDS Integers, FiniteSetsExt, FiniteSetTheorems, WellFoundedInduction, TLAPS

\* The element that is taken out next.
Pick(s) == CHOOSE x \in s : TRUE

\* g gives every subset of S the sum of f over it.
Sums(f, S, g) ==
    g = [s \in SUBSET S |-> IF s = {} THEN 0 ELSE f[Pick(s)] + g[s \ {Pick(s)}]]

\* A set of subsets of a finite set has one that holds no other.
LEMMA LeastSubset ==
    ASSUME NEW S, IsFiniteSet(S), NEW W, W \subseteq SUBSET S, W # {}
    PROVE  \E t \in W : \A s \in W : s \subseteq t => s = t
<1> DEFINE R == StrictSubsetOrdering(S)
<1>1. FiniteSubsetsOf(S) = SUBSET S
  BY FS_FiniteSubsetsOfFinite
<1>2. IsWellFoundedOn(R, SUBSET S)
  BY <1>1, FS_StrictSubsetOrderingWellFounded
<1>3. \A s, t \in SUBSET S : s \subseteq t /\ s # t => <<s, t>> \in R
  BY DEF StrictSubsetOrdering
<1> HIDE DEF R
<1>4. \E t \in W : \A s \in W : <<s, t>> \notin R
  BY <1>2, WFMin
<1> QED BY <1>3, <1>4

LEMMA Picked == ASSUME NEW s, s # {} PROVE Pick(s) \in s
BY DEF Pick

\* A sum, one element less.
LEMMA SumsUnfold ==
    ASSUME NEW f, NEW S, NEW g, Sums(f, S, g)
    PROVE  /\ g[{}] = 0
           /\ \A s \in SUBSET S : s # {} => g[s] = f[Pick(s)] + g[s \ {Pick(s)}]
<1> DEFINE h == [s \in SUBSET S |-> IF s = {} THEN 0 ELSE f[Pick(s)] + g[s \ {Pick(s)}]]
<1>1. g = h
  BY DEF Sums
<1>2. h[{}] = 0 /\ \A s \in SUBSET S : s # {} => h[s] = f[Pick(s)] + g[s \ {Pick(s)}]
  OBVIOUS
<1> HIDE DEF h
<1> QED BY <1>1, <1>2

\* Two ways to sum agree.
LEMMA SumsAgree ==
    ASSUME NEW f, NEW S, IsFiniteSet(S), NEW A \in SUBSET S, NEW B \in SUBSET S,
           NEW g, NEW h, Sums(f, A, g), Sums(f, B, h)
    PROVE  \A s \in SUBSET (A \cap B) : g[s] = h[s]
<1> DEFINE W == {s \in SUBSET (A \cap B) : g[s] # h[s]}
<1> SUFFICES ASSUME W # {} PROVE FALSE
  OBVIOUS
<1>1. W \subseteq SUBSET S
  OBVIOUS
<1>2. \A s \in SUBSET (A \cap B) : s \notin W => g[s] = h[s]
  OBVIOUS
<1>3. \A s \in W : s \in SUBSET (A \cap B) /\ s \in SUBSET A /\ s \in SUBSET B /\ g[s] # h[s]
  OBVIOUS
<1> HIDE DEF W
<1>4. PICK t \in W : \A s \in W : s \subseteq t => s = t
  BY <1>1, LeastSubset
<1>5. t # {}
  BY <1>3, SumsUnfold
<1>6. t \ {Pick(t)} \notin W /\ t \ {Pick(t)} \in SUBSET (A \cap B)
  BY <1>3, <1>4, <1>5, Picked
<1>7. g[t \ {Pick(t)}] = h[t \ {Pick(t)}]
  BY <1>2, <1>6
<1>8. g[t] = f[Pick(t)] + g[t \ {Pick(t)}]
  BY <1>3, <1>5, SumsUnfold
<1>9. h[t] = f[Pick(t)] + h[t \ {Pick(t)}]
  BY <1>3, <1>5, SumsUnfold
<1> QED BY <1>3, <1>7, <1>8, <1>9

\* A finite set can be summed over.
LEMMA SumsExist ==
    ASSUME NEW f, NEW S, IsFiniteSet(S)
    PROVE  \E g : Sums(f, S, g)
<1> DEFINE W == {s \in SUBSET S : ~ \E g : Sums(f, s, g)}
<1> SUFFICES ASSUME W # {} PROVE FALSE
  <2>1. S \in SUBSET S
    OBVIOUS
  <2> QED BY <2>1
<1>1. W \subseteq SUBSET S
  OBVIOUS
<1>2. \A s \in SUBSET S : s \notin W => \E g : Sums(f, s, g)
  OBVIOUS
<1>3. \A s \in W : ~ \E g : Sums(f, s, g)
  OBVIOUS
<1> HIDE DEF W
<1>4. PICK t \in W : \A s \in W : s \subseteq t => s = t
  BY <1>1, LeastSubset
<1> DEFINE G(s) == CHOOSE g : Sums(f, s, g)
           y == Pick(t)
           r == t \ {y}
           h == [s \in SUBSET t |-> IF s # t THEN G(s)[s]
                                    ELSE IF t = {} THEN 0 ELSE f[y] + G(r)[r]]
           V(s) == IF s = {} THEN 0 ELSE f[Pick(s)] + h[s \ {Pick(s)}]
<1>5. ASSUME NEW s \in SUBSET t, s # t PROVE Sums(f, s, G(s))
  <2>1. \E g : Sums(f, s, g)
    BY <1>1, <1>2, <1>4, <1>5
  <2> QED BY <2>1
<1>6. ASSUME NEW s \in SUBSET t PROVE h[s] = V(s)
  <2>1. CASE t = {}
    BY <2>1
  <2>2. CASE s = t /\ t # {}
    <3>1. y \in t /\ r \in SUBSET t /\ r # t
      BY <2>2, Picked
    <3>2. h[r] = G(r)[r]
      BY <3>1
    <3>3. h[t] = f[y] + G(r)[r]
      BY <2>2
    <3>4. V(t) = f[y] + h[r]
      BY <2>2
    <3> HIDE DEF h, V, G
    <3> QED BY <2>2, <3>2, <3>3, <3>4
  <2>3. CASE s # t
    <3>1. h[s] = G(s)[s]
      BY <2>3
    <3>2. Sums(f, s, G(s))
      BY <1>5, <2>3
    <3>3. CASE s = {}
      <4>1. G(s)[s] = 0
        BY <3>2, <3>3, SumsUnfold
      <4> QED BY <3>1, <3>3, <4>1
    <3>4. CASE s # {}
      <4> DEFINE u == s \ {Pick(s)}
      <4>1. Pick(s) \in s /\ u \in SUBSET s /\ u \in SUBSET t /\ u # t
        BY <3>4, Picked, <2>3
      <4>2. h[u] = G(u)[u]
        BY <4>1
      <4>3. Sums(f, u, G(u))
        BY <1>5, <4>1
      <4>4. V(s) = f[Pick(s)] + h[u]
        BY <3>4
      <4> HIDE DEF h, V, G
      <4>5. G(s)[s] = f[Pick(s)] + G(s)[u]
        BY <3>2, <3>4, SumsUnfold
      <4>6. G(s)[u] = G(u)[u]
        <5>1. s \in SUBSET S /\ u \in SUBSET S /\ u \in SUBSET (s \cap u)
          BY <1>1, <1>4, <4>1
        <5> HIDE DEF u
        <5> QED BY <5>1, <3>2, <4>3, SumsAgree
      <4> QED BY <3>1, <4>2, <4>4, <4>5, <4>6
    <3> QED BY <3>3, <3>4
  <2> QED BY <2>1, <2>2, <2>3
<1>7. h = [s \in SUBSET t |-> V(s)]
  <2>1. h = [s \in SUBSET t |-> h[s]]
    OBVIOUS
  <2> HIDE DEF h, V
  <2> QED BY <1>6, <2>1
<1>8. Sums(f, t, h)
  BY <1>7 DEF Sums
<1> HIDE DEF h
<1> QED BY <1>3, <1>4, <1>8

\* Sums of naturals are naturals.
LEMMA SumsTyped ==
    ASSUME NEW f, NEW S, IsFiniteSet(S), \A x \in S : f[x] \in Nat,
           NEW g, Sums(f, S, g)
    PROVE  \A s \in SUBSET S : g[s] \in Nat
<1> DEFINE W == {s \in SUBSET S : g[s] \notin Nat}
<1> SUFFICES ASSUME W # {} PROVE FALSE
  OBVIOUS
<1>1. W \subseteq SUBSET S
  OBVIOUS
<1>2. \A s \in SUBSET S : s \notin W <=> g[s] \in Nat
  OBVIOUS
<1> HIDE DEF W
<1>3. PICK t \in W : \A s \in W : s \subseteq t => s = t
  BY <1>1, LeastSubset
<1>4. t \in SUBSET S /\ g[t] \notin Nat
  BY <1>1, <1>2
<1>5. t # {}
  <2>1. g[{}] = 0
    BY SumsUnfold
  <2> QED BY <1>4, <2>1
<1>6. Pick(t) \in t /\ t \ {Pick(t)} \in SUBSET S /\ t \ {Pick(t)} \notin W
  BY <1>3, <1>4, <1>5, Picked
<1>7. g[t] = f[Pick(t)] + g[t \ {Pick(t)}]
  BY <1>4, <1>5, SumsUnfold
<1>8. f[Pick(t)] \in Nat
  BY <1>4, <1>6
<1> QED BY <1>2, <1>4, <1>6, <1>7, <1>8

\* Half of p for one more.
LEMMA OneMore ==
    ASSUME NEW p \in Nat, NEW a \in Nat, NEW b \in Nat, NEW c \in Nat, NEW d \in Nat,
           NEW n \in Nat,
           2 * (p * a - b) \in -p .. p, 2 * (p * c - d) \in -(p * n) .. p * n
    PROVE  2 * (p * (a + c) - (b + d)) \in -(p * (n + 1)) .. p * (n + 1)
<1>1. p * (a + c) = p * a + p * c /\ p * (n + 1) = p * n + p
  OBVIOUS
<1>2. p * a \in Nat /\ p * c \in Nat /\ p * n \in Nat
  OBVIOUS
<1>3. ASSUME NEW pa \in Nat, NEW pc \in Nat, NEW pn \in Nat,
             2 * (pa - b) \in -p .. p, 2 * (pc - d) \in -pn .. pn
      PROVE  2 * ((pa + pc) - (b + d)) \in -(pn + p) .. pn + p
  BY <1>3
<1> QED BY <1>1, <1>2, <1>3

\* Where each term of one sum is p times that of another within half of p, the
\* sums are within half of p for each term.
LEMMA SumsClose ==
    ASSUME NEW S, IsFiniteSet(S), NEW p \in Nat, NEW f, NEW e,
           \A x \in S : /\ f[x] \in Nat /\ e[x] \in Nat
                        /\ 2 * (p * f[x] - e[x]) \in -p .. p,
           NEW g, NEW h, Sums(f, S, g), Sums(e, S, h)
    PROVE  2 * (p * g[S] - h[S]) \in -(p * Cardinality(S)) .. p * Cardinality(S)
<1> DEFINE Close(s) ==
        2 * (p * g[s] - h[s]) \in -(p * Cardinality(s)) .. p * Cardinality(s)
           W == {s \in SUBSET S : ~ Close(s)}
<1> SUFFICES ASSUME W # {} PROVE FALSE
  OBVIOUS
<1>1. W \subseteq SUBSET S
  OBVIOUS
<1>2. \A s \in SUBSET S : s \notin W <=> Close(s)
  OBVIOUS
<1> HIDE DEF W
<1>3. PICK t \in W : \A s \in W : s \subseteq t => s = t
  BY <1>1, LeastSubset
<1> DEFINE x == Pick(t)
           u == t \ {x}
<1>4. ASSUME t = {} PROVE FALSE
  <2>1. g[t] = 0 /\ h[t] = 0 /\ Cardinality(t) = 0
    BY <1>4, SumsUnfold, FS_EmptySet
  <2>2. Close(t)
    BY <2>1
  <2> HIDE DEF Close
  <2> QED BY <2>2, <1>1, <1>2
<1>5. t \in SUBSET S /\ x \in t /\ x \in S /\ u \in SUBSET S /\ u \notin W
  BY <1>1, <1>3, <1>4, Picked
<1>6. Close(u)
  BY <1>2, <1>5
<1>7. g[t] = f[x] + g[u]
  <2>1. \A s \in SUBSET S : s # {} => g[s] = f[Pick(s)] + g[s \ {Pick(s)}]
    BY SumsUnfold
  <2> QED BY <1>5, <2>1
<1>8. h[t] = e[x] + h[u]
  <2>1. \A s \in SUBSET S : s # {} => h[s] = e[Pick(s)] + h[s \ {Pick(s)}]
    BY SumsUnfold
  <2> QED BY <1>5, <2>1
<1>9. g[u] \in Nat /\ h[u] \in Nat
  BY <1>5, SumsTyped
<1>10. Cardinality(u) \in Nat /\ Cardinality(t) = Cardinality(u) + 1
  <2>1. IsFiniteSet(t) /\ IsFiniteSet(u)
    BY <1>5, FS_Subset
  <2>2. Cardinality(u) = Cardinality(t) - 1
    BY <2>1, <1>5, FS_RemoveElement
  <2>3. Cardinality(t) \in Nat /\ Cardinality(u) \in Nat
    BY <2>1, FS_CardinalityType
  <2> QED BY <2>2, <2>3
<1>11. f[x] \in Nat /\ e[x] \in Nat /\ 2 * (p * f[x] - e[x]) \in -p .. p
  BY <1>5
<1>12. Close(t)
  <2> HIDE DEF x, u
  <2>1. 2 * (p * (f[x] + g[u]) - (e[x] + h[u]))
            \in -(p * (Cardinality(u) + 1)) .. p * (Cardinality(u) + 1)
    BY <1>6, <1>9, <1>10, <1>11, OneMore
  <2> QED BY <2>1, <1>7, <1>8, <1>10
<1> HIDE DEF Close
<1> QED BY <1>1, <1>2, <1>3, <1>12

\* SumFunction is the sum over the whole domain.
LEMMA SumFunctionSums ==
    ASSUME NEW f, IsFiniteSet(DOMAIN f)
    PROVE  \E g : Sums(f, DOMAIN f, g) /\ SumFunction(f) = g[DOMAIN f]
<1> DEFINE q == CHOOSE g : Sums(f, DOMAIN f, g)
<1>1. SumFunction(f) = q[DOMAIN f]
  BY DEF SumFunction, SumFunctionOnSet, FoldFunctionOnSet, MapThenFoldSet, Sums, Pick
<1>2. Sums(f, DOMAIN f, q)
  BY SumsExist
<1> QED BY <1>1, <1>2

LEMMA SumFunctionTyped ==
    ASSUME NEW f, IsFiniteSet(DOMAIN f), \A x \in DOMAIN f : f[x] \in Nat
    PROVE  SumFunction(f) \in Nat
<1>1. PICK g : Sums(f, DOMAIN f, g) /\ SumFunction(f) = g[DOMAIN f]
  BY SumFunctionSums
<1>2. DOMAIN f \in SUBSET DOMAIN f
  OBVIOUS
<1> QED BY <1>1, <1>2, SumsTyped

LEMMA SumFunctionClose ==
    ASSUME NEW S, IsFiniteSet(S), NEW p \in Nat, NEW f, NEW e, DOMAIN f = S, DOMAIN e = S,
           \A x \in S : /\ f[x] \in Nat /\ e[x] \in Nat
                        /\ 2 * (p * f[x] - e[x]) \in -p .. p
    PROVE  2 * (p * SumFunction(f) - SumFunction(e))
               \in -(p * Cardinality(S)) .. p * Cardinality(S)
<1>1. PICK g : Sums(f, S, g) /\ SumFunction(f) = g[S]
  BY SumFunctionSums
<1>2. PICK h : Sums(e, S, h) /\ SumFunction(e) = h[S]
  BY SumFunctionSums
<1>3. 2 * (p * g[S] - h[S]) \in -(p * Cardinality(S)) .. p * Cardinality(S)
  BY <1>1, <1>2, SumsClose
<1> QED BY <1>1, <1>2, <1>3
=============================================================================
