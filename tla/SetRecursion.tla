---------------------------- MODULE SetRecursion ----------------------------
(***************************************************************************)
(* What the other proofs need to know of induction, recursion and sums.    *)
(* An induction is told of the set of those that have the property, and a  *)
(* recursion of the function that makes its step, so that no lemma has an  *)
(* operator for a parameter.                                               *)
(***************************************************************************)
EXTENDS FiniteSetsExt, FiniteSetTheorems, TLAPS

-----------------------------------------------------------------------------
(* A set of naturals has a least element. *)
LEMMA LeastNat ==
  ASSUME NEW I \in SUBSET Nat, I # {}
  PROVE  Min(I) \in I /\ \A x \in I : Min(I) <= x
<1>1. \E x \in I : \A y \in I : <<y, x>> \notin OpToRel(<, Nat)
  BY NatLessThanWellFounded, WFMin
<1>2. \E x \in I : \A y \in I : x <= y
  <2>1. PICK x \in I : \A y \in I : <<y, x>> \notin OpToRel(<, Nat)
    BY <1>1
  <2>2. \A y \in I : ~(y < x)
    BY <2>1 DEF OpToRel
  <2> QED BY <2>2
<1> QED BY <1>2 DEF Min

(* And a greatest, when it is bounded. *)
LEMMA GreatestUpto ==
  ASSUME NEW n \in Nat, NEW I \in SUBSET (1..n), I # {}
  PROVE  Max(I) \in I /\ \A x \in I : Max(I) >= x
<1> DEFINE J == {n - x : x \in I}
<1>1. J \in SUBSET Nat /\ J # {}
  <2>1. \A x \in I : n - x \in Nat
    OBVIOUS
  <2>2. PICK x : x \in I
    OBVIOUS
  <2>3. n - x \in J
    BY <2>2
  <2> QED BY <2>1, <2>3
<1>2. PICK m \in J : \A y \in J : m <= y
  <2> HIDE DEF J
  <2> QED BY <1>1, LeastNat
<1>3. PICK x \in I : m = n - x
  BY <1>2
<1>4. \A y \in I : x >= y
  <2> SUFFICES ASSUME NEW y \in I PROVE x >= y
    OBVIOUS
  <2>1. m <= n - y
    BY <1>2
  <2> QED BY <1>3, <2>1
<1> QED BY <1>3, <1>4 DEF Max

(* Induction over the naturals, told of the set of those that have the
   property. *)
LEMMA NatSetInduction ==
  ASSUME NEW K \in SUBSET Nat, 0 \in K, \A k \in K : k + 1 \in K
  PROVE  \A k \in Nat : k \in K
<1> SUFFICES ASSUME Nat \ K # {} PROVE FALSE
  OBVIOUS
<1> DEFINE k == Min(Nat \ K)
<1>1. k \in Nat \ K /\ \A x \in Nat \ K : k <= x
  BY LeastNat
<1> HIDE DEF k
<1>2. k # 0 /\ k - 1 \in Nat /\ ~(k <= k - 1)
  BY <1>1
<1>3. k - 1 \in K
  BY <1>1, <1>2
<1>4. (k - 1) + 1 = k
  BY <1>1
<1> QED BY <1>1, <1>3, <1>4

(* The same over the subsets of a finite set, one element at a time. *)
LEMMA SubsetInduction ==
  ASSUME NEW S, IsFiniteSet(S), NEW K \in SUBSET SUBSET S,
         {} \in K, \A T \in K : \A x \in S \ T : T \cup {x} \in K
  PROVE  S \in K
<1> DEFINE J == {k \in Nat : \A T \in SUBSET S : Cardinality(T) = k => T \in K}
<1>1. \A T \in SUBSET S : IsFiniteSet(T) /\ Cardinality(T) \in Nat
  BY FS_Subset, FS_CardinalityType
<1>2. 0 \in J
  BY <1>1, FS_EmptySet
<1>3. ASSUME NEW k \in J PROVE k + 1 \in J
  <2> SUFFICES ASSUME NEW T \in SUBSET S, Cardinality(T) = k + 1 PROVE T \in K
    BY <1>3
  <2>1. PICK x : x \in T
    BY <1>1, FS_EmptySet
  <2>2. Cardinality(T \ {x}) = k
    BY <1>1, <2>1, FS_RemoveElement
  <2>3. T \ {x} \in K
    BY <2>2
  <2>4. T = (T \ {x}) \cup {x} /\ x \in S \ (T \ {x})
    BY <2>1
  <2> QED BY <2>3, <2>4
<1>4. J \in SUBSET Nat
  OBVIOUS
<1>5. \A k \in Nat : k \in J
  <2> HIDE DEF J
  <2> QED BY <1>2, <1>3, <1>4, NatSetInduction
<1> QED BY <1>1, <1>5

-----------------------------------------------------------------------------
LEMMA Removal ==
  ASSUME NEW S, IsFiniteSet(S), NEW s \in SUBSET S, NEW x \in s
  PROVE  /\ s \ {x} \in SUBSET S /\ IsFiniteSet(s)
         /\ Cardinality(s) \in Nat /\ Cardinality(s \ {x}) = Cardinality(s) - 1
  BY FS_Subset, FS_RemoveElement, FS_CardinalityType

(* pick takes an element from every set. *)
Picks(pick, S) == \A s \in SUBSET S : s # {} => pick[s] \in s

(* A function of the subsets of a finite set, from that of the empty set: h[x]
   makes the value for a set from the one for the set without x, its element
   that pick takes. *)
Recursion(g, S, base, h, pick) ==
  \A s \in SUBSET S : g[s] = IF s = {} THEN base ELSE h[pick[s]][g[s \ {pick[s]}]]

LEMMA SubsetRecursion ==
  ASSUME NEW S, IsFiniteSet(S), NEW V, NEW base \in V, NEW h \in [S -> [V -> V]],
         NEW pick, Picks(pick, S)
  PROVE  \E g \in [SUBSET S -> V] : Recursion(g, S, base, h, pick)
<1> DEFINE Upto(k, g) == \A s \in SUBSET S : Cardinality(s) <= k =>
                            g[s] = IF s = {} THEN base ELSE h[pick[s]][g[s \ {pick[s]}]]
           K == {k \in Nat : \E g \in [SUBSET S -> V] : Upto(k, g)}
<1>1. \A s \in SUBSET S : IsFiniteSet(s) /\ Cardinality(s) \in Nat /\ Cardinality(s) <= Cardinality(S)
  BY FS_Subset, FS_CardinalityType
<1>2. 0 \in K
  <2> DEFINE g == [s \in SUBSET S |-> base]
  <2>1. \A s \in SUBSET S : Cardinality(s) <= 0 => s = {}
    BY <1>1, FS_EmptySet
  <2>2. g \in [SUBSET S -> V] /\ Upto(0, g)
    BY <2>1
  <2> HIDE DEF Upto, g
  <2> QED BY <2>2
<1>3. ASSUME NEW k \in K PROVE k + 1 \in K
  <2>1. PICK g \in [SUBSET S -> V] : Upto(k, g)
    BY <1>3
  <2> DEFINE f(s) == IF s = {} THEN base ELSE h[pick[s]][g[s \ {pick[s]}]]
             e == [s \in SUBSET S |-> f(s)]
  <2>2. e \in [SUBSET S -> V]
    <3> SUFFICES ASSUME NEW s \in SUBSET S, s # {} PROVE h[pick[s]][g[s \ {pick[s]}]] \in V
      OBVIOUS
    <3>1. pick[s] \in S /\ s \ {pick[s]} \in SUBSET S
      BY DEF Picks
    <3>2. h[pick[s]] \in [V -> V] /\ g[s \ {pick[s]}] \in V
      BY <3>1
    <3> QED BY <3>2
  <2>3. ASSUME NEW s \in SUBSET S, Cardinality(s) <= k + 1, s # {}
        PROVE  e[s] = h[pick[s]][e[s \ {pick[s]}]]
    <3>1. pick[s] \in s
      BY <2>3 DEF Picks
    <3>2. s \ {pick[s]} \in SUBSET S /\ Cardinality(s \ {pick[s]}) <= k
      BY <1>1, <2>3, <3>1, Removal
    <3>3. g[s \ {pick[s]}] = f(s \ {pick[s]})
      BY <2>1, <3>2
    <3>4. e[s \ {pick[s]}] = f(s \ {pick[s]})
      BY <3>2
    <3>5. e[s] = h[pick[s]][g[s \ {pick[s]}]]
      BY <2>3
    <3> QED BY <3>3, <3>4, <3>5
  <2>4. e[{}] = base
    OBVIOUS
  <2> HIDE DEF e
  <2>5. Upto(k + 1, e)
    BY <2>3, <2>4
  <2> HIDE DEF Upto
  <2> QED BY <2>2, <2>5
<1>4. K \in SUBSET Nat
  OBVIOUS
<1>5. Cardinality(S) \in K
  <2> HIDE DEF K
  <2> QED BY <1>1, <1>2, <1>3, <1>4, NatSetInduction
<1>6. PICK g \in [SUBSET S -> V] : Upto(Cardinality(S), g)
  BY <1>5
<1> QED BY <1>1, <1>6 DEF Recursion

-----------------------------------------------------------------------------
(* Sums over finite sets: what the fold of the library chooses first does not
   matter. *)
Total(w, S) == MapThenSumSet(LAMBDA x : w[x], S)

Pick(s) == CHOOSE x \in s : TRUE

Sums(g, w, S) ==
  g = [s \in SUBSET S |-> IF s = {} THEN 0 ELSE w[Pick(s)] + g[s \ {Pick(s)}]]

LEMMA SumExists ==
  ASSUME NEW S, IsFiniteSet(S), NEW w, \A x \in S : w[x] \in Int
  PROVE  \E g : Sums(g, w, S)
<1> DEFINE h == [x \in S |-> [v \in Int |-> w[x] + v]]
           pick == [s \in SUBSET S |-> Pick(s)]
<1>1. h \in [S -> [Int -> Int]]
  OBVIOUS
<1>2. Picks(pick, S)
  BY DEF Pick, Picks
<1>3. PICK g \in [SUBSET S -> Int] : Recursion(g, S, 0, h, pick)
  <2> HIDE DEF h, pick
  <2>1. 0 \in Int
    OBVIOUS
  <2> QED BY <1>1, <1>2, <2>1, SubsetRecursion, Zenon
<1>4. ASSUME NEW s \in SUBSET S, s # {}
      PROVE  g[s] = w[Pick(s)] + g[s \ {Pick(s)}]
  <2>1. Pick(s) \in S /\ s \ {Pick(s)} \in SUBSET S
    BY <1>4 DEF Pick
  <2>2. g[s] = h[Pick(s)][g[s \ {Pick(s)}]]
    BY <1>3, <1>4 DEF Recursion
  <2>3. g[s \ {Pick(s)}] \in Int
    BY <2>1
  <2> QED BY <2>1, <2>2, <2>3
<1>5. g[{}] = 0
  BY <1>3 DEF Recursion
<1> QED BY <1>4, <1>5 DEF Sums

(* One element less, whichever. *)
LEMMA SumPeel ==
  ASSUME NEW S, IsFiniteSet(S), NEW w, \A x \in S : w[x] \in Int, NEW g, Sums(g, w, S)
  PROVE  /\ g[{}] = 0
         /\ \A s \in SUBSET S : g[s] \in Int
         /\ \A s \in SUBSET S : \A x \in s : g[s] = w[x] + g[s \ {x}]
<1>1. g[{}] = 0 /\ \A s \in SUBSET S : s # {} => g[s] = w[Pick(s)] + g[s \ {Pick(s)}]
  BY DEF Sums
<1>2. \A s \in SUBSET S : IsFiniteSet(s) /\ Cardinality(s) \in Nat
  BY FS_Subset, FS_CardinalityType
<1> DEFINE Peels(s) == g[s] \in Int /\ \A x \in s : g[s] = w[x] + g[s \ {x}]
           K == {k \in Nat : \A s \in SUBSET S : Cardinality(s) <= k => Peels(s)}
<1>3. 0 \in K
  <2>1. \A s \in SUBSET S : Cardinality(s) <= 0 => s = {}
    BY <1>2, FS_EmptySet
  <2>2. Peels({})
    BY <1>1
  <2> HIDE DEF Peels
  <2> QED BY <2>1, <2>2
<1>4. ASSUME NEW k \in K PROVE k + 1 \in K
  <2> SUFFICES ASSUME NEW s \in SUBSET S, Cardinality(s) <= k + 1, s # {}
               PROVE  Peels(s)
    <3>1. Peels({})
      BY <1>1
    <3> HIDE DEF Peels
    <3> QED BY <1>4, <3>1
  <2>1. ASSUME NEW t \in SUBSET S, Cardinality(t) <= k
        PROVE  g[t] \in Int /\ \A x \in t : g[t] = w[x] + g[t \ {x}]
    BY <1>4, <2>1
  <2>2. \A x \in s : s \ {x} \in SUBSET S /\ Cardinality(s \ {x}) <= k
    BY <1>2, <1>4, Removal
  <2> DEFINE p == Pick(s)
  <2>3. p \in s /\ g[s] = w[p] + g[s \ {p}] /\ w[p] \in Int
    BY <1>1 DEF Pick
  <2> HIDE DEF p
  <2>4. g[s] \in Int
    BY <2>1, <2>2, <2>3
  <2>5. ASSUME NEW x \in s PROVE g[s] = w[x] + g[s \ {x}]
    <3>1. CASE x = p
      BY <2>3, <3>1
    <3>2. CASE x # p
      <4> DEFINE u == (s \ {p}) \ {x}
      <4>1. g[s \ {p}] = w[x] + g[u]
        BY <2>1, <2>2, <2>3, <3>2
      <4>2. g[s \ {x}] = w[p] + g[u]
        <5>1. (s \ {x}) \ {p} = u
          OBVIOUS
        <5> QED BY <2>1, <2>2, <2>3, <3>2, <5>1
      <4>3. u \in SUBSET S /\ Cardinality(u) <= k
        <5>1. Cardinality(u) = Cardinality(s \ {p}) - 1 /\ Cardinality(s \ {p}) \in Nat
          BY <2>2, <2>3, <3>2, Removal
        <5> QED BY <1>4, <2>2, <2>3, <5>1
      <4>4. g[u] \in Int /\ w[x] \in Int
        BY <2>1, <4>3
      <4> HIDE DEF u
      <4> QED BY <2>3, <4>1, <4>2, <4>4
    <3> QED BY <3>1, <3>2
  <2> QED BY <2>4, <2>5
<1>5. K \in SUBSET Nat
  OBVIOUS
<1>6. \A k \in Nat : k \in K
  <2> HIDE DEF K
  <2> QED BY <1>3, <1>4, <1>5, NatSetInduction
<1>7. \A s \in SUBSET S : g[s] \in Int /\ \A x \in s : g[s] = w[x] + g[s \ {x}]
  BY <1>2, <1>6
<1> QED BY <1>1, <1>7

LEMMA TotalIsSum ==
  ASSUME NEW S, IsFiniteSet(S), NEW w, \A x \in S : w[x] \in Int
  PROVE  \E g : Sums(g, w, S) /\ Total(w, S) = g[S]
<1> DEFINE g == CHOOSE h : Sums(h, w, S)
<1>1. Sums(g, w, S)
  BY SumExists
<1>2. Total(w, S) = g[S]
  BY DEF Total, MapThenSumSet, MapThenFoldSet, Sums, Pick
<1> QED BY <1>1, <1>2

LEMMA TotalEmpty == \A w : Total(w, {}) = 0
<1> SUFFICES ASSUME NEW w PROVE Total(w, {}) = 0
  OBVIOUS
<1>1. PICK g : Sums(g, w, {}) /\ Total(w, {}) = g[{}]
  BY TotalIsSum, FS_EmptySet
<1> QED BY <1>1, FS_EmptySet, SumPeel

(* One element more. *)
LEMMA TotalAdd ==
  ASSUME NEW S, IsFiniteSet(S), NEW x, x \notin S,
         NEW w, \A y \in S \cup {x} : w[y] \in Int
  PROVE  Total(w, S) \in Int /\ Total(w, S \cup {x}) = w[x] + Total(w, S)
<1> DEFINE T == S \cup {x}
<1>0. IsFiniteSet(T)
  BY FS_AddElement
<1>1. PICK g : Sums(g, w, S) /\ Total(w, S) = g[S]
  BY TotalIsSum
<1>2. PICK h : Sums(h, w, T) /\ Total(w, T) = h[T]
  BY <1>0, TotalIsSum
<1>3. /\ g[{}] = 0 /\ \A s \in SUBSET S : g[s] \in Int
      /\ \A s \in SUBSET S : \A y \in s : g[s] = w[y] + g[s \ {y}]
  BY <1>1, SumPeel
<1>4. /\ h[{}] = 0
      /\ \A s \in SUBSET T : \A y \in s : h[s] = w[y] + h[s \ {y}]
  <2> HIDE DEF T
  <2>1. \A y \in T : w[y] \in Int
    BY DEF T
  <2> QED BY <1>0, <1>2, <2>1, SumPeel
<1> DEFINE K == {s \in SUBSET S : g[s] = h[s]}
<1>5. {} \in K
  BY <1>3, <1>4
<1>6. ASSUME NEW s \in K, NEW y \in S \ s PROVE s \cup {y} \in K
  <2>1. (s \cup {y}) \ {y} = s /\ s \cup {y} \in SUBSET S /\ s \cup {y} \in SUBSET T
    OBVIOUS
  <2>2. g[s \cup {y}] = w[y] + g[s] /\ h[s \cup {y}] = w[y] + h[s]
    BY <1>3, <1>4, <2>1
  <2> QED BY <2>1, <2>2
<1>7. S \in K
  <2> HIDE DEF K
  <2>1. K \in SUBSET SUBSET S
    BY DEF K
  <2> QED BY <1>5, <1>6, <2>1, SubsetInduction
<1>8. T \ {x} = S /\ x \in T /\ T \in SUBSET T
  OBVIOUS
<1>9. h[T] = w[x] + h[S]
  BY <1>4, <1>8
<1> QED BY <1>1, <1>2, <1>3, <1>7, <1>9
=============================================================================
