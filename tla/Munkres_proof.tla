---------------------------- MODULE Munkres_proof ----------------------------
(***************************************************************************)
(* Theorems about the assignment solver, for cost matrices of every size   *)
(* and shape and every set of costs.                                       *)
(***************************************************************************)
EXTENDS Munkres, SetRecursion, SequenceTheorems, TLAPS

Shape ==
  /\ rows \in 1..MaxSize /\ cols \in 1..MaxSize
  /\ \A i \in 1..rows, j \in 1..cols : cost[i][j] \in Costs

Matching == \A s, t \in star : s[1] = t[1] \/ s[2] = t[2] => s = t

OnZeros == \A p \in star \cup prime : c[p] = 0

Shifted ==
  \A p \in Cells : c[p] - c[<<p[1], 1>>] - c[<<1, p[2]>>] + c[<<1, 1>>]
    = Padded[p] - Padded[<<p[1], 1>>] - Padded[<<1, p[2]>>] + Padded[<<1, 1>>]

(* Before a search and after the last, the stars are all there is. *)
AtRest ==
  step \in {"reduce", "star", "cover", "done"} =>
    /\ prime = {} /\ row_cov = {}
    /\ step # "done" => col_cov = {}
    /\ step = "reduce" => star = {} /\ row = 1
    /\ step = "star" => row \in Lines /\ \A s \in star : s[1] < row
    /\ step = "done" => \A j \in Lines : \E s \in star : s[2] = j

(* In a search every star lies on one covered line, and a row is covered in
   place of the column of its star because it holds a prime. *)
Covering ==
  step \in {"search", "augment"} =>
    /\ \A s \in star : s[1] \in row_cov <=> s[2] \notin col_cov
    /\ \A j \in col_cov : \E s \in star : s[2] = j
    /\ \A i \in row_cov : (\E p \in prime : p[1] = i) /\ (\E s \in star : s[1] = i)
    /\ \A p, q \in prime : p[1] = q[1] => p = q
    /\ \A p \in prime : p[2] \notin col_cov
    /\ \A p \in prime : p[1] \in row_cov \/ (step = "augment" /\ p = path[1])

(* The primes by age, the youngest below m: a prime was uncovered when it was
   found, so that the star in its column lies in the row of an older one. *)
ByAge(rank, m) ==
  /\ \A i \in Lines : rank[i] < m
  /\ \A p \in prime, s \in star :
       s[2] = p[2] => s[1] \in row_cov /\ rank[s[1]] < rank[p[1]]

(* The path has n primes, each older than the one before, and a star between
   every two. *)
PathOf(n, rank) ==
  /\ Len(path) = 2 * n - 1
  /\ \A k \in 1..n : path[2 * k - 1] \in prime
  /\ \A k \in 1..(n - 1) :
       /\ path[2 * k] \in star
       /\ path[2 * k][2] = path[2 * k - 1][2]
       /\ path[2 * k + 1][1] = path[2 * k][1]
  /\ \A k, l \in 1..n : k < l => rank[path[2 * l - 1][1]] < rank[path[2 * k - 1][1]]
  /\ \A s \in star : s[1] # path[1][1]

Ranked ==
  \E rank \in [Lines -> Nat], m \in Nat :
    /\ ByAge(rank, m)
    /\ step = "augment" => \E n \in Nat \ {0} : PathOf(n, rank)

IInv ==
  /\ Shape
  /\ TypeOK
  /\ Matching
  /\ OnZeros
  /\ Shifted
  /\ AtRest
  /\ Covering
  /\ Ranked

-----------------------------------------------------------------------------
LEMMA Sized ==
  ASSUME Shape
  PROVE  /\ rows \in Nat \ {0} /\ cols \in Nat \ {0} /\ N \in Nat \ {0}
         /\ rows <= N /\ cols <= N /\ (N = rows \/ N = cols) /\ N <= MaxSize
         /\ 1 \in Lines /\ Lines \subseteq Nat
         /\ Real \subseteq Cells
         /\ Padded \in [Cells -> Nat]
<1>1. /\ rows \in Nat \ {0} /\ cols \in Nat \ {0} /\ N \in Nat \ {0}
      /\ rows <= N /\ cols <= N /\ (N = rows \/ N = cols) /\ N <= MaxSize
  BY MunkresAssumption DEF Shape, N
<1>2. 1 \in Lines /\ Lines \subseteq Nat
  BY <1>1 DEF Lines
<1>3. Real \subseteq Cells
  BY <1>1 DEF Real, Cells, Lines
<1>4. \A p \in Real : cost[p[1]][p[2]] \in Nat
  BY MunkresAssumption DEF Shape, Real
<1>5. Padded \in [Cells -> Nat]
  BY <1>4 DEF Padded
<1> QED BY <1>1, <1>2, <1>3, <1>5

LEMMA Stable ==
  ASSUME cost' = cost
  PROVE  /\ rows' = rows /\ cols' = cols /\ N' = N /\ Lines' = Lines /\ Cells' = Cells
         /\ Real' = Real /\ Padded' = Padded /\ (Shape => Shape')
<1>1. rows' = rows /\ cols' = cols
  BY DEF rows, cols
<1>2. N' = N /\ Real' = Real
  BY <1>1 DEF N, Real
<1>3. Lines' = Lines
  BY <1>2 DEF Lines
<1>4. Cells' = Cells
  BY <1>3 DEF Cells
<1> QED BY <1>1, <1>2, <1>3, <1>4 DEF Padded, Shape

LEMMA CellParts ==
  /\ \A p \in Cells : p[1] \in Lines /\ p[2] \in Lines /\ p = <<p[1], p[2]>>
  /\ \A i, j \in Lines : <<i, j>> \in Cells
  BY DEF Cells

-----------------------------------------------------------------------------
LEMMA InitIInv == Init => IInv
<1> SUFFICES ASSUME Init PROVE IInv
  OBVIOUS
<1>1. Shape
  <2>1. PICK r \in 1..MaxSize, k \in 1..MaxSize : cost \in [1..r -> [1..k -> Costs]]
    BY DEF Init
  <2>2. cost \in Seq([1..k -> Costs])
    BY <2>1, MunkresAssumption, SeqDef
  <2>3. rows = r
    BY <2>1, <2>2, LenProperties, MunkresAssumption DEF rows
  <2>4. cost[1] \in [1..k -> Costs]
    BY <2>1, MunkresAssumption
  <2>5. cost[1] \in Seq(Costs)
    BY <2>4, MunkresAssumption, SeqDef
  <2>6. cols = k
    BY <2>4, <2>5, LenProperties, MunkresAssumption DEF cols
  <2> QED BY <2>1, <2>3, <2>6 DEF Shape
<1>2. 1 \in Lines /\ N \in Nat \ {0} /\ Padded \in [Cells -> Nat]
  BY <1>1, Sized
<1>3. TypeOK
  BY <1>2 DEF TypeOK, Init
<1>4. Matching /\ OnZeros /\ Shifted /\ AtRest /\ Covering
  BY <1>2 DEF Matching, OnZeros, Shifted, AtRest, Covering, Init
<1>5. Ranked
  <2>1. ByAge([i \in Lines |-> 0], 1)
    BY DEF ByAge, Init
  <2> QED BY <2>1 DEF Ranked, Init
<1> QED BY <1>1, <1>3, <1>4, <1>5 DEF IInv

(* Taking a number off every row and every column leaves the differences the
   costs are told by. *)
LEMMA ShiftKeeps ==
  ASSUME Shape, c \in [Cells -> Int], Shifted, cost' = cost,
         NEW a \in [Lines -> Int], NEW b \in [Lines -> Int],
         \A p \in Cells : c'[p] = c[p] - a[p[1]] - b[p[2]]
  PROVE  Shifted'
<1>1. Cells' = Cells /\ Padded' = Padded /\ 1 \in Lines
  BY Stable, Sized
<1> SUFFICES ASSUME NEW p \in Cells
             PROVE  c'[p] - c'[<<p[1], 1>>] - c'[<<1, p[2]>>] + c'[<<1, 1>>]
                      = c[p] - c[<<p[1], 1>>] - c[<<1, p[2]>>] + c[<<1, 1>>]
  BY <1>1 DEF Shifted
<1>2. p[1] \in Lines /\ p[2] \in Lines
  BY CellParts
<1>3. /\ <<p[1], 1>> \in Cells /\ <<1, p[2]>> \in Cells /\ <<1, 1>> \in Cells
  BY <1>1, <1>2, CellParts
<1>4. /\ c'[p] = c[p] - a[p[1]] - b[p[2]]
      /\ c'[<<p[1], 1>>] = c[<<p[1], 1>>] - a[p[1]] - b[1]
      /\ c'[<<1, p[2]>>] = c[<<1, p[2]>>] - a[1] - b[p[2]]
      /\ c'[<<1, 1>>] = c[<<1, 1>>] - a[1] - b[1]
  BY <1>3
<1>5. /\ c[p] \in Int /\ c[<<p[1], 1>>] \in Int /\ c[<<1, p[2]>>] \in Int /\ c[<<1, 1>>] \in Int
      /\ a[p[1]] \in Int /\ a[1] \in Int /\ b[p[2]] \in Int /\ b[1] \in Int
  BY <1>1, <1>2, <1>3
<1> QED BY <1>4, <1>5

LEMMA ReduceSafe == IInv /\ Reduce => IInv'
<1> SUFFICES ASSUME IInv, Reduce PROVE IInv'
  OBVIOUS
<1> DEFINE a == [i \in Lines |-> Min({c[<<i, j>>] : j \in Lines})]
           m == [p \in Cells |-> c[p] - Min({c[<<p[1], j>>] : j \in Lines})]
           b == [j \in Lines |-> Min({m[<<i, j>>] : i \in Lines})]
<1>0. /\ cost' = cost /\ Lines' = Lines /\ Cells' = Cells /\ Padded' = Padded
      /\ Shape /\ Shape' /\ c \in [Cells -> Nat] /\ 1 \in Lines /\ N \in Nat \ {0} /\ N' = N
  BY Stable, Sized DEF IInv, TypeOK, Reduce
<1>1. \A i \in Lines : a[i] \in Nat /\ \A j \in Lines : a[i] <= c[<<i, j>>]
  <2> SUFFICES ASSUME NEW i \in Lines
               PROVE  a[i] \in Nat /\ \A j \in Lines : a[i] <= c[<<i, j>>]
    OBVIOUS
  <2> DEFINE R == {c[<<i, j>>] : j \in Lines}
  <2>0. \A j \in Lines : c[<<i, j>>] \in Nat
    BY <1>0, CellParts
  <2>1. R \in SUBSET Nat /\ R # {}
    BY <1>0, <2>0
  <2>2. Min(R) \in R /\ \A x \in R : Min(R) <= x
    BY <2>1, LeastNat
  <2> QED BY <2>1, <2>2
<1>2. \A p \in Cells : m[p] = c[p] - a[p[1]] /\ m[p] \in Nat
  <2> SUFFICES ASSUME NEW p \in Cells
               PROVE  m[p] = c[p] - a[p[1]] /\ m[p] \in Nat
    OBVIOUS
  <2>1. p[1] \in Lines /\ p[2] \in Lines /\ p = <<p[1], p[2]>>
    BY CellParts
  <2>2. m[p] = c[p] - a[p[1]]
    BY <2>1
  <2> HIDE DEF a, m
  <2> QED BY <1>0, <1>1, <2>1, <2>2
<1>3. \A j \in Lines : b[j] \in Nat /\ \A i \in Lines : b[j] <= m[<<i, j>>]
  <2> HIDE DEF m
  <2> SUFFICES ASSUME NEW j \in Lines
               PROVE  b[j] \in Nat /\ \A i \in Lines : b[j] <= m[<<i, j>>]
    OBVIOUS
  <2> DEFINE R == {m[<<i, j>>] : i \in Lines}
  <2>0. \A i \in Lines : m[<<i, j>>] \in Nat
    BY <1>2, CellParts
  <2>1. R \in SUBSET Nat /\ R # {}
    BY <1>0, <2>0
  <2>2. Min(R) \in R /\ \A x \in R : Min(R) <= x
    BY <2>1, LeastNat
  <2> QED BY <2>1, <2>2
<1>4. c' = [p \in Cells |-> m[p] - b[p[2]]]
  BY CellParts DEF Reduce
<1>5. \A p \in Cells : c'[p] = c[p] - a[p[1]] - b[p[2]] /\ c'[p] \in Nat
  <2> HIDE DEF a, b, m
  <2> SUFFICES ASSUME NEW p \in Cells
               PROVE  c'[p] = c[p] - a[p[1]] - b[p[2]] /\ c'[p] \in Nat
    OBVIOUS
  <2>1. p[1] \in Lines /\ p[2] \in Lines /\ p = <<p[1], p[2]>>
    BY CellParts
  <2>2. c'[p] = m[p] - b[p[2]]
    BY <1>4
  <2>3. m[p] \in Nat /\ b[p[2]] \in Nat /\ b[p[2]] <= m[p] /\ m[p] = c[p] - a[p[1]]
    BY <1>2, <1>3, <2>1
  <2> QED BY <2>2, <2>3
<1>6. a \in [Lines -> Int] /\ b \in [Lines -> Int] /\ c \in [Cells -> Int]
  <2>1. a = [i \in Lines |-> a[i]] /\ b = [j \in Lines |-> b[j]]
    OBVIOUS
  <2> HIDE DEF a, b, m
  <2>2. \A i \in Lines : a[i] \in Int /\ b[i] \in Int
    BY <1>1, <1>3
  <2> QED BY <1>0, <2>1, <2>2
<1>7. c' \in [Cells -> Nat]
  <2> HIDE DEF a, b, m
  <2> QED BY <1>4, <1>5
<1>8. Shifted'
  <2> HIDE DEF a, b, m
  <2> QED BY <1>0, <1>5, <1>6, ShiftKeeps DEF IInv
<1> HIDE DEF a, b, m
<1>9. star = {} /\ prime = {} /\ row_cov = {} /\ col_cov = {} /\ row = 1
  BY DEF IInv, AtRest, Reduce
<1>10. TypeOK'
  BY <1>0, <1>7 DEF IInv, TypeOK, Reduce, marks, covers
<1>11. Matching' /\ OnZeros' /\ AtRest' /\ Covering'
  BY <1>0, <1>9 DEF Matching, OnZeros, AtRest, Covering, Reduce, marks, covers
<1>12. Ranked'
  <2>1. ByAge([i \in Lines |-> 0], 1)'
    BY <1>0, <1>9 DEF ByAge, Reduce, marks, covers
  <2> QED BY <1>0, <2>1 DEF Ranked, Reduce
<1> QED BY <1>0, <1>8, <1>10, <1>11, <1>12 DEF IInv

(* Without primes there is nothing to rank. *)
LEMMA RankedAtRest ==
  ASSUME prime' = {}, step' # "augment" PROVE Ranked'
<1>1. ByAge([i \in Lines |-> 0], 1)'
  BY DEF ByAge
<1>2. [i \in Lines |-> 0]' \in [Lines' -> Nat]
  OBVIOUS
<1> QED BY <1>1, <1>2 DEF Ranked

(* What a step that leaves the matrix alone need not disturb. *)
LEMMA SameMatrix ==
  ASSUME IInv, UNCHANGED <<cost, c>>
  PROVE  /\ Lines' = Lines /\ Cells' = Cells /\ N' = N /\ Zeros' = Zeros
         /\ Shape /\ Shape' /\ Shifted' /\ c' \in [Cells' -> Nat]
         /\ N \in Nat \ {0} /\ 1 \in Lines
<1>1. Lines' = Lines /\ Cells' = Cells /\ N' = N /\ Padded' = Padded /\ Shape /\ Shape'
  BY Stable DEF IInv
<1>2. N \in Nat \ {0} /\ 1 \in Lines
  BY <1>1, Sized
<1> QED BY <1>1, <1>2 DEF IInv, TypeOK, Shifted, Zeros

LEMMA StarRowSafe == IInv /\ StarRow => IInv'
<1> SUFFICES ASSUME IInv, StarRow PROVE IInv'
  OBVIOUS
<1> DEFINE free == {p \in Zeros : p[1] = row /\ \A s \in star : s[2] # p[2]}
           new == {p \in free : IsFirst(p, free)}
<1>0. /\ Lines' = Lines /\ Cells' = Cells /\ N' = N
      /\ Shape' /\ Shifted' /\ c' \in [Cells' -> Nat] /\ N \in Nat \ {0}
  BY SameMatrix DEF StarRow
<1>1. star' = star \cup new
  BY DEF StarRow
<1>2. /\ UNCHANGED <<cost, c, prime, row_cov, col_cov, path>> /\ row' = row + 1
      /\ step' = (IF row = N THEN "cover" ELSE "star")
  BY DEF StarRow, covers
<1>3. /\ prime = {} /\ row_cov = {} /\ col_cov = {}
      /\ row \in Lines /\ \A s \in star : s[1] < row
  BY DEF IInv, AtRest, StarRow
<1>4. star \subseteq Cells /\ Matching /\ OnZeros /\ path \in Seq(Cells)
  BY DEF IInv, TypeOK
<1>5. row \in 1..N
  BY <1>3 DEF Lines
<1>6. /\ new \subseteq Zeros
      /\ \A p \in new : p[1] = row /\ \A s \in star : s[2] # p[2]
  OBVIOUS
<1>7. \A p, q \in new : p = q
  <2> SUFFICES ASSUME NEW p \in new, NEW q \in new PROVE p = q
    OBVIOUS
  <2>1. p \in Cells /\ q \in Cells /\ p[1] = q[1]
    BY DEF Zeros
  <2>2. p[2] <= q[2] /\ q[2] <= p[2]
    BY <1>5, <2>1 DEF IsFirst
  <2>3. p[2] \in 1..N /\ q[2] \in 1..N /\ p = <<p[1], p[2]>> /\ q = <<q[1], q[2]>>
    BY <2>1, CellParts DEF Lines
  <2> QED BY <1>0, <2>1, <2>2, <2>3
<1> HIDE DEF new
<1>8. TypeOK'
  BY <1>0, <1>1, <1>2, <1>3, <1>4, <1>5, <1>6 DEF TypeOK, Zeros
<1>9. Matching'
  <2>1. \A s \in star, p \in new : s[1] # p[1] /\ s[2] # p[2]
    BY <1>3, <1>5, <1>6
  <2> QED BY <1>1, <1>4, <1>7, <2>1 DEF Matching
<1>10. OnZeros'
  BY <1>1, <1>2, <1>3, <1>4, <1>6 DEF OnZeros, Zeros
<1>11. AtRest'
  <2>1. CASE row = N
    BY <1>2, <1>3, <2>1 DEF AtRest
  <2>2. CASE row # N
    <3>1. row + 1 \in 1..N
      BY <1>0, <1>5, <2>2
    <3>2. \A p \in star' : p[1] < row + 1
      BY <1>1, <1>3, <1>4, <1>5, <1>6, CellParts DEF Lines
    <3> QED BY <1>0, <1>2, <1>3, <2>2, <3>1, <3>2 DEF AtRest, Lines
  <2> QED BY <2>1, <2>2
<1>12. Covering'
  BY <1>2 DEF Covering
<1>13. Ranked'
  BY <1>2, <1>3, RankedAtRest
<1> QED BY <1>0, <1>8, <1>9, <1>10, <1>11, <1>12, <1>13 DEF IInv

LEMMA CoverSafe == IInv /\ CoverStarColumns => IInv'
<1> SUFFICES ASSUME IInv, CoverStarColumns PROVE IInv'
  OBVIOUS
<1>0. /\ Lines' = Lines /\ Cells' = Cells /\ N' = N
      /\ Shape' /\ Shifted' /\ c' \in [Cells' -> Nat]
  BY SameMatrix DEF CoverStarColumns
<1>1. /\ UNCHANGED <<cost, c, star, prime, row_cov, row, path>>
      /\ col_cov' = {s[2] : s \in star}
      /\ step' = (IF col_cov' = Lines THEN "done" ELSE "search")
  BY DEF CoverStarColumns, marks
<1>2. prime = {} /\ row_cov = {}
  BY DEF IInv, AtRest, CoverStarColumns
<1>3. col_cov' \subseteq Lines
  BY <1>1, CellParts DEF IInv, TypeOK
<1>4. TypeOK'
  BY <1>0, <1>1, <1>3 DEF IInv, TypeOK
<1>5. Matching' /\ OnZeros'
  BY <1>1 DEF IInv, Matching, OnZeros
<1>6. AtRest'
  BY <1>0, <1>1, <1>2 DEF AtRest
<1>7. Covering'
  BY <1>1, <1>2 DEF Covering
<1>8. Ranked'
  BY <1>1, <1>2, RankedAtRest
<1> QED BY <1>0, <1>4, <1>5, <1>6, <1>7, <1>8 DEF IInv

LEMMA AdjustSafe == IInv /\ Adjust => IInv'
<1> SUFFICES ASSUME IInv, Adjust PROVE IInv'
  OBVIOUS
<1>1. PICK e \in Uncovered :
        /\ \A p \in Uncovered : c[e] <= c[p]
        /\ c' = [p \in Cells |-> c[p] + (IF p[1] \in row_cov THEN c[e] ELSE 0)
                                      - (IF p[2] \notin col_cov THEN c[e] ELSE 0)]
  BY DEF Adjust
<1>2. UNCHANGED <<cost, star, prime, row_cov, col_cov, row, path, step>> /\ step = "search"
  BY DEF Adjust, marks, covers
<1>3. /\ Lines' = Lines /\ Cells' = Cells /\ N' = N /\ Shape /\ Shape'
      /\ c \in [Cells -> Nat] /\ c[e] \in Nat
  BY <1>2, Stable DEF IInv, TypeOK, Uncovered
<1>4. \A p \in Cells : c'[p] \in Nat
  <2> SUFFICES ASSUME NEW p \in Cells PROVE c'[p] \in Nat
    OBVIOUS
  <2>1. CASE p[1] \in row_cov
    BY <1>1, <1>3, <2>1
  <2>2. CASE p[1] \notin row_cov /\ p[2] \in col_cov
    BY <1>1, <1>3, <2>2
  <2>3. CASE p[1] \notin row_cov /\ p[2] \notin col_cov
    BY <1>1, <1>3, <2>3 DEF Uncovered
  <2> QED BY <2>1, <2>2, <2>3
<1>5. TypeOK'
  BY <1>1, <1>2, <1>3, <1>4 DEF IInv, TypeOK
<1>6. Shifted'
  <2> DEFINE a == [i \in Lines |-> IF i \in row_cov THEN -c[e] ELSE 0]
             b == [j \in Lines |-> IF j \notin col_cov THEN c[e] ELSE 0]
  <2>1. a \in [Lines -> Int] /\ b \in [Lines -> Int] /\ c \in [Cells -> Int]
    BY <1>3
  <2>2. \A p \in Cells : c'[p] = c[p] - a[p[1]] - b[p[2]]
    <3> SUFFICES ASSUME NEW p \in Cells PROVE c'[p] = c[p] - a[p[1]] - b[p[2]]
      OBVIOUS
    <3>1. p[1] \in Lines /\ p[2] \in Lines
      BY CellParts
    <3> QED BY <1>1, <1>3, <3>1
  <2> HIDE DEF a, b
  <2> QED BY <1>2, <1>3, <2>1, <2>2, ShiftKeeps DEF IInv
<1>7. OnZeros'
  <2> SUFFICES ASSUME NEW p \in star \cup prime PROVE c'[p] = 0
    BY <1>2 DEF OnZeros
  <2>1. p \in Cells /\ c[p] = 0
    BY DEF IInv, TypeOK, OnZeros
  <2>2. p[1] \in row_cov <=> p[2] \notin col_cov
    BY <1>2 DEF IInv, Covering
  <2>3. c'[p] = c[p] + (IF p[1] \in row_cov THEN c[e] ELSE 0)
                     - (IF p[1] \in row_cov THEN c[e] ELSE 0)
    BY <1>1, <2>1, <2>2
  <2> QED BY <1>3, <2>1, <2>3
<1>8. Matching' /\ AtRest' /\ Covering'
  BY <1>2 DEF IInv, Matching, AtRest, Covering
<1>9. Ranked'
  BY <1>2, <1>3 DEF IInv, Ranked, ByAge
<1> QED BY <1>3, <1>5, <1>6, <1>7, <1>8, <1>9 DEF IInv

-----------------------------------------------------------------------------
(* A new prime is the youngest, wherever its row stands after it. *)
LEMMA NewPrime ==
  ASSUME IInv, step = "search", NEW p \in Uncovered \cap Zeros,
         NEW R \in SUBSET Lines, row_cov \subseteq R,
         NEW rank \in [Lines -> Nat], NEW m \in Nat, ByAge(rank, m)
  PROVE  LET older == [rank EXCEPT ![p[1]] = m]
         IN  /\ older \in [Lines -> Nat]
             /\ \A i \in Lines : older[i] < m + 1
             /\ \A q \in prime \cup {p}, s \in star :
                  s[2] = q[2] => s[1] \in R /\ older[s[1]] < older[q[1]]
<1> DEFINE older == [rank EXCEPT ![p[1]] = m]
<1>1. p \in Cells /\ p[1] \in Lines /\ p[1] \notin row_cov /\ p[2] \notin col_cov
  BY CellParts DEF Uncovered
<1>2. older \in [Lines -> Nat] /\ older[p[1]] = m /\ \A i \in Lines \ {p[1]} : older[i] = rank[i]
  BY <1>1
<1>3. \A i \in Lines : rank[i] \in Nat /\ rank[i] < m
  BY DEF ByAge
<1> HIDE DEF older
<1>4. \A i \in Lines : older[i] < m + 1
  BY <1>2, <1>3
<1>5. \A s \in star : s[1] \in Lines /\ (s[1] \in row_cov <=> s[2] \notin col_cov)
  BY CellParts DEF IInv, TypeOK, Covering
<1>6. \A q \in prime : q[1] \in Lines /\ q[1] \in row_cov
  BY CellParts DEF IInv, TypeOK, Covering
<1>7. ASSUME NEW s \in star, s[2] = p[2]
      PROVE  s[1] \in R /\ older[s[1]] < older[p[1]]
  <2>1. s[1] \in row_cov
    BY <1>1, <1>5, <1>7
  <2>2. s[1] \in Lines \ {p[1]}
    BY <1>1, <1>5, <2>1
  <2> QED BY <1>2, <1>3, <2>1, <2>2
<1>8. ASSUME NEW q \in prime, NEW s \in star, s[2] = q[2]
      PROVE  s[1] \in R /\ older[s[1]] < older[q[1]]
  <2>1. s[1] \in row_cov /\ rank[s[1]] < rank[q[1]]
    BY <1>8 DEF ByAge
  <2>2. s[1] \in Lines \ {p[1]} /\ q[1] \in Lines \ {p[1]}
    BY <1>1, <1>5, <1>6, <2>1
  <2> QED BY <1>2, <2>1, <2>2
<1>9. \A q \in prime \cup {p}, s \in star :
        s[2] = q[2] => s[1] \in R /\ older[s[1]] < older[q[1]]
  BY <1>7, <1>8
<1> QED BY <1>2, <1>4, <1>9 DEF older

LEMMA CoverRowSafe ==
  ASSUME IInv, step = "search", NEW p \in Uncovered \cap Zeros, CoverRow(p)
  PROVE  IInv'
<1>1. PICK s \in star : /\ s[1] = p[1]
                        /\ row_cov' = row_cov \cup {p[1]}
                        /\ col_cov' = col_cov \ {s[2]}
  BY DEF CoverRow
<1>2. prime' = prime \cup {p} /\ UNCHANGED <<cost, c, star, row, path, step>>
  BY DEF CoverRow
<1>3. /\ Lines' = Lines /\ Cells' = Cells /\ N' = N
      /\ Shape' /\ Shifted' /\ c' \in [Cells' -> Nat]
  BY <1>2, SameMatrix
<1>4. p \in Cells /\ p[1] \in Lines /\ p[1] \notin row_cov /\ p[2] \notin col_cov /\ c[p] = 0
  BY CellParts DEF Uncovered, Zeros
<1>5. TypeOK'
  BY <1>1, <1>2, <1>3, <1>4 DEF IInv, TypeOK
<1>6. Matching' /\ OnZeros' /\ AtRest'
  BY <1>2, <1>4 DEF IInv, Matching, OnZeros, AtRest
<1>7. Covering'
  <2>1. /\ \A t \in star : t[1] \in row_cov <=> t[2] \notin col_cov
        /\ \A j \in col_cov : \E t \in star : t[2] = j
        /\ \A i \in row_cov : (\E q \in prime : q[1] = i) /\ (\E t \in star : t[1] = i)
        /\ \A q, u \in prime : q[1] = u[1] => q = u
        /\ \A q \in prime : q[2] \notin col_cov /\ q[1] \in row_cov
    BY DEF IInv, Covering
  <2>2. \A t \in star : t[1] \in row_cov' <=> t[2] \notin col_cov'
    <3> SUFFICES ASSUME NEW t \in star PROVE t[1] \in row_cov' <=> t[2] \notin col_cov'
      OBVIOUS
    <3>1. CASE t = s
      BY <1>1, <3>1
    <3>2. CASE t # s
      <4>1. t[1] # s[1] /\ t[2] # s[2]
        BY <3>2 DEF IInv, Matching
      <4> QED BY <1>1, <2>1, <4>1
    <3> QED BY <3>1, <3>2
  <2>3. \A j \in col_cov' : \E t \in star : t[2] = j
    BY <1>1, <2>1
  <2>4. \A i \in row_cov' : (\E q \in prime' : q[1] = i) /\ (\E t \in star : t[1] = i)
    BY <1>1, <1>2, <2>1
  <2>5. \A q, u \in prime' : q[1] = u[1] => q = u
    BY <1>2, <1>4, <2>1
  <2>6. \A q \in prime' : q[2] \notin col_cov' /\ q[1] \in row_cov'
    BY <1>1, <1>2, <1>4, <2>1
  <2> QED BY <1>2, <2>2, <2>3, <2>4, <2>5, <2>6 DEF Covering
<1>8. Ranked'
  <2>1. PICK rank \in [Lines -> Nat], m \in Nat : ByAge(rank, m)
    BY DEF IInv, Ranked
  <2> DEFINE older == [rank EXCEPT ![p[1]] = m]
  <2>2. row_cov' \in SUBSET Lines /\ row_cov \subseteq row_cov'
    BY <1>1, <1>4 DEF IInv, TypeOK
  <2>3. /\ older \in [Lines -> Nat]
        /\ \A i \in Lines : older[i] < m + 1
        /\ \A q \in prime \cup {p}, t \in star :
             t[2] = q[2] => t[1] \in row_cov' /\ older[t[1]] < older[q[1]]
    BY <2>1, <2>2, NewPrime
  <2> HIDE DEF older
  <2>4. ByAge(older, m + 1)'
    BY <1>2, <1>3, <2>3 DEF ByAge
  <2> QED BY <1>2, <1>3, <2>3, <2>4 DEF Ranked
<1> QED BY <1>3, <1>5, <1>6, <1>7, <1>8 DEF IInv

LEMMA BeginPathSafe ==
  ASSUME IInv, step = "search", NEW p \in Uncovered \cap Zeros, BeginPath(p)
  PROVE  IInv'
<1>2. /\ prime' = prime \cup {p} /\ path' = <<p>> /\ step' = "augment"
      /\ UNCHANGED <<cost, c, star, row_cov, col_cov, row>>
      /\ \A s \in star : s[1] # p[1]
  BY DEF BeginPath, covers
<1>3. /\ Lines' = Lines /\ Cells' = Cells /\ N' = N
      /\ Shape' /\ Shifted' /\ c' \in [Cells' -> Nat]
  BY <1>2, SameMatrix
<1>4. p \in Cells /\ p[1] \in Lines /\ p[1] \notin row_cov /\ p[2] \notin col_cov /\ c[p] = 0
  BY CellParts DEF Uncovered, Zeros
<1>5. path'[1] = p /\ Len(path') = 1 /\ path' \in Seq(Cells)
  BY <1>2, <1>4
<1>6. TypeOK'
  BY <1>2, <1>3, <1>4, <1>5 DEF IInv, TypeOK
<1>7. Matching' /\ OnZeros' /\ AtRest'
  BY <1>2, <1>4 DEF IInv, Matching, OnZeros, AtRest
<1>8. Covering'
  <2>1. /\ \A t \in star : t[1] \in row_cov <=> t[2] \notin col_cov
        /\ \A j \in col_cov : \E t \in star : t[2] = j
        /\ \A i \in row_cov : (\E q \in prime : q[1] = i) /\ (\E t \in star : t[1] = i)
        /\ \A q, u \in prime : q[1] = u[1] => q = u
        /\ \A q \in prime : q[2] \notin col_cov /\ q[1] \in row_cov
    BY DEF IInv, Covering
  <2>2. \A q, u \in prime' : q[1] = u[1] => q = u
    BY <1>2, <1>4, <2>1
  <2>3. \A q \in prime' : q[2] \notin col_cov' /\ (q[1] \in row_cov' \/ q = path'[1])
    BY <1>2, <1>4, <1>5, <2>1
  <2> QED BY <1>2, <2>1, <2>2, <2>3 DEF Covering
<1>9. Ranked'
  <2>1. PICK rank \in [Lines -> Nat], m \in Nat : ByAge(rank, m)
    BY DEF IInv, Ranked
  <2> DEFINE older == [rank EXCEPT ![p[1]] = m]
  <2>2. row_cov \in SUBSET Lines
    BY DEF IInv, TypeOK
  <2>3. /\ older \in [Lines -> Nat]
        /\ \A i \in Lines : older[i] < m + 1
        /\ \A q \in prime \cup {p}, t \in star :
             t[2] = q[2] => t[1] \in row_cov /\ older[t[1]] < older[q[1]]
    BY <2>1, <2>2, NewPrime
  <2> HIDE DEF older
  <2>4. ByAge(older, m + 1)'
    BY <1>2, <1>3, <2>3 DEF ByAge
  <2>5. PathOf(1, older)'
    <3>1. 1..1 = {1} /\ 1..(1 - 1) = {}
      OBVIOUS
    <3> QED BY <1>2, <1>5, <3>1 DEF PathOf
  <2> QED BY <1>2, <1>3, <2>3, <2>4, <2>5 DEF Ranked
<1> QED BY <1>3, <1>6, <1>7, <1>8, <1>9 DEF IInv

(* The star in the column of the tip lies in the row of an older prime. *)
LEMMA StarAtTip ==
  ASSUME IInv, step = "augment",
         NEW rank \in [Lines -> Nat], NEW m \in Nat, ByAge(rank, m),
         NEW n \in Nat \ {0}, PathOf(n, rank), NEW s \in StarsAtTip
  PROVE  /\ s \in star /\ s[2] = path[2 * n - 1][2]
         /\ rank[s[1]] < rank[path[2 * n - 1][1]]
         /\ \E p \in prime : p[1] = s[1]
<1>1. Len(path) = 2 * n - 1 /\ path[2 * n - 1] \in prime
  BY DEF PathOf
<1>2. s \in star /\ s[2] = path[2 * n - 1][2]
  BY <1>1 DEF StarsAtTip, Tip
<1>3. s[1] \in row_cov /\ rank[s[1]] < rank[path[2 * n - 1][1]]
  BY <1>1, <1>2 DEF ByAge
<1> QED BY <1>2, <1>3 DEF IInv, Covering

LEMMA LongerPath ==
  ASSUME NEW w \in Seq(Cells), NEW s \in Cells, NEW p \in Cells, NEW n \in Nat \ {0},
         Len(w) = 2 * n - 1
  PROVE  LET v == w \o <<s, p>>
         IN  /\ v \in Seq(Cells) /\ Len(v) = 2 * (n + 1) - 1
             /\ \A i \in 1..(2 * n - 1) : v[i] = w[i]
             /\ v[2 * n] = s /\ v[2 * (n + 1) - 1] = p
<1> DEFINE t == <<s, p>>
<1>1. t \in Seq(Cells) /\ Len(t) = 2 /\ t[1] = s /\ t[2] = p
  OBVIOUS
<1> HIDE DEF t
<1>2. /\ w \o t \in Seq(Cells) /\ Len(w \o t) = Len(w) + 2
      /\ \A i \in 1..(Len(w) + 2) : (w \o t)[i] = IF i <= Len(w) THEN w[i] ELSE t[i - Len(w)]
  <2>1. /\ w \o t \in Seq(Cells) /\ Len(w \o t) = Len(w) + Len(t)
        /\ \A i \in 1..(Len(w) + Len(t)) :
             (w \o t)[i] = IF i <= Len(w) THEN w[i] ELSE t[i - Len(w)]
    BY <1>1, ConcatProperties, Zenon
  <2> QED BY <1>1, <2>1, Zenon
<1>3. \A i \in 1..(2 * n - 1) : (w \o t)[i] = w[i]
  BY <1>2
<1>4. (w \o t)[2 * n] = s
  <2>1. 2 * n \in 1..(Len(w) + 2) /\ ~(2 * n <= Len(w)) /\ 2 * n - Len(w) = 1
    OBVIOUS
  <2> QED BY <1>1, <1>2, <2>1
<1>5. (w \o t)[2 * (n + 1) - 1] = p
  <2>1. /\ 2 * (n + 1) - 1 \in 1..(Len(w) + 2) /\ ~(2 * (n + 1) - 1 <= Len(w))
        /\ 2 * (n + 1) - 1 - Len(w) = 2
    OBVIOUS
  <2> QED BY <1>1, <1>2, <2>1
<1>6. Len(w \o t) = 2 * (n + 1) - 1
  BY <1>2
<1> QED BY <1>2, <1>3, <1>4, <1>5, <1>6 DEF t

LEMMA ExtendPathSafe == IInv /\ ExtendPath => IInv'
<1> SUFFICES ASSUME IInv, ExtendPath PROVE IInv'
  OBVIOUS
<1>1. PICK s \in StarsAtTip, p \in prime :
        /\ IsFirst(p, {q \in prime : q[1] = s[1]})
        /\ path' = path \o <<s, p>>
  BY DEF ExtendPath
<1>2. step = "augment" /\ UNCHANGED <<cost, c, star, prime, row_cov, col_cov, row, step>>
  BY DEF ExtendPath, marks, covers
<1>3. /\ Lines' = Lines /\ Cells' = Cells /\ N' = N
      /\ Shape' /\ Shifted' /\ c' \in [Cells' -> Nat]
  BY <1>2, SameMatrix
<1>4. PICK rank \in [Lines -> Nat], m \in Nat :
        ByAge(rank, m) /\ \E n \in Nat \ {0} : PathOf(n, rank)
  BY <1>2 DEF IInv, Ranked
<1>5. PICK n \in Nat \ {0} : PathOf(n, rank)
  BY <1>4
<1>6. /\ s \in star /\ s[2] = path[2 * n - 1][2]
      /\ rank[s[1]] < rank[path[2 * n - 1][1]]
  BY <1>2, <1>4, <1>5, StarAtTip
<1>7. p[1] = s[1] /\ p \in Cells /\ s \in Cells /\ path \in Seq(Cells)
  BY <1>1, <1>6 DEF IInv, TypeOK, IsFirst
<1>8. Len(path) = 2 * n - 1
  BY <1>5 DEF PathOf
<1>9. /\ path' \in Seq(Cells) /\ Len(path') = 2 * (n + 1) - 1
      /\ \A i \in 1..(2 * n - 1) : path'[i] = path[i]
      /\ path'[2 * n] = s /\ path'[2 * (n + 1) - 1] = p
  BY <1>1, <1>7, <1>8, LongerPath
<1>10. path'[1] = path[1]
  <2>1. 1 \in 1..(2 * n - 1)
    OBVIOUS
  <2> QED BY <1>9, <2>1
<1>11. TypeOK'
  BY <1>2, <1>3, <1>9 DEF IInv, TypeOK
<1>12. Matching' /\ OnZeros' /\ AtRest' /\ Covering'
  BY <1>2, <1>10 DEF IInv, Matching, OnZeros, AtRest, Covering
<1>13. PathOf(n + 1, rank)'
  <2>1. \A k \in 1..n : path'[2 * k - 1] = path[2 * k - 1] /\ path[2 * k - 1] \in prime
    <3>1. \A k \in 1..n : 2 * k - 1 \in 1..(2 * n - 1)
      OBVIOUS
    <3> QED BY <1>5, <1>9, <3>1 DEF PathOf
  <2>2. \A k \in 1..(n + 1) : k \in 1..n \/ k = n + 1
    OBVIOUS
  <2>3. \A k \in 1..(n + 1) : path'[2 * k - 1] \in prime
    BY <1>9, <2>1, <2>2
  <2>4. ASSUME NEW k \in 1..n
        PROVE  /\ path'[2 * k] \in star
               /\ path'[2 * k][2] = path'[2 * k - 1][2]
               /\ path'[2 * k + 1][1] = path'[2 * k][1]
    <3>1. CASE k = n
      <4>1. 2 * k + 1 = 2 * (n + 1) - 1
        BY <3>1
      <4>2. path'[2 * k] = s /\ path'[2 * k + 1] = p
        BY <1>9, <3>1, <4>1
      <4>3. path'[2 * k - 1] = path[2 * n - 1]
        BY <2>1, <3>1
      <4> QED BY <1>6, <1>7, <4>2, <4>3
    <3>2. CASE k # n
      <4>1. k \in 1..(n - 1) /\ 2 * k \in 1..(2 * n - 1) /\ 2 * k + 1 \in 1..(2 * n - 1)
        BY <3>2
      <4>2. path'[2 * k] = path[2 * k] /\ path'[2 * k + 1] = path[2 * k + 1]
        BY <1>9, <4>1
      <4>3. path'[2 * k - 1] = path[2 * k - 1]
        BY <2>1
      <4> QED BY <1>5, <4>1, <4>2, <4>3 DEF PathOf
    <3> QED BY <3>1, <3>2
  <2>5. ASSUME NEW k \in 1..(n + 1), NEW l \in 1..(n + 1), k < l
        PROVE  rank[path'[2 * l - 1][1]] < rank[path'[2 * k - 1][1]]
    <3>0. k \in 1..n
      BY <2>5
    <3>1. CASE l # n + 1
      <4>1. l \in 1..n
        BY <3>1
      <4>2. rank[path[2 * l - 1][1]] < rank[path[2 * k - 1][1]]
        BY <1>5, <2>5, <3>0, <4>1 DEF PathOf
      <4> QED BY <2>1, <3>0, <4>1, <4>2
    <3>2. CASE l = n + 1
      <4>1. path'[2 * l - 1] = p /\ rank[p[1]] < rank[path[2 * n - 1][1]]
        BY <1>6, <1>7, <1>9, <3>2
      <4>2. CASE k = n
        BY <2>1, <4>1, <4>2
      <4>3. CASE k # n
        <5>1. k < n /\ n \in 1..n
          BY <3>0, <4>3
        <5>2. rank[path[2 * n - 1][1]] < rank[path[2 * k - 1][1]]
          BY <1>5, <3>0, <5>1 DEF PathOf
        <5>3. path[2 * n - 1] \in prime /\ path[2 * k - 1] \in prime
          BY <2>1, <3>0, <5>1
        <5>4. /\ rank[p[1]] \in Nat /\ rank[path[2 * n - 1][1]] \in Nat
              /\ rank[path[2 * k - 1][1]] \in Nat
          BY <1>7, <5>3, CellParts DEF IInv, TypeOK
        <5>5. path'[2 * k - 1] = path[2 * k - 1]
          BY <2>1, <3>0
        <5> QED BY <4>1, <5>2, <5>4, <5>5
      <4> QED BY <4>2, <4>3
    <3> QED BY <3>1, <3>2
  <2>6. \A t \in star : t[1] # path'[1][1]
    BY <1>5, <1>10 DEF PathOf
  <2>7. (n + 1) - 1 = n
    OBVIOUS
  <2> QED BY <1>2, <1>9, <2>3, <2>4, <2>5, <2>6, <2>7 DEF PathOf
<1>14. Ranked'
  <2>1. ByAge(rank, m)'
    BY <1>2, <1>3, <1>4 DEF ByAge
  <2>2. n + 1 \in Nat \ {0}
    OBVIOUS
  <2> QED BY <1>3, <1>13, <2>1, <2>2 DEF Ranked
<1> QED BY <1>3, <1>11, <1>12, <1>14 DEF IInv

LEMMA FlipSafe == IInv /\ Flip => IInv'
<1> SUFFICES ASSUME IInv, Flip PROVE IInv'
  OBVIOUS
<1>1. /\ step = "augment" /\ StarsAtTip = {}
      /\ star' = (star \ OnPath(0)) \cup OnPath(1)
      /\ prime' = {} /\ row_cov' = {} /\ col_cov' = {} /\ path' = <<>> /\ step' = "cover"
      /\ UNCHANGED <<cost, c, row>>
  BY DEF Flip
<1>2. /\ Lines' = Lines /\ Cells' = Cells /\ N' = N
      /\ Shape' /\ Shifted' /\ c' \in [Cells' -> Nat]
  BY <1>1, SameMatrix
<1>3. PICK rank \in [Lines -> Nat], m \in Nat :
        ByAge(rank, m) /\ \E n \in Nat \ {0} : PathOf(n, rank)
  BY <1>1 DEF IInv, Ranked
<1>4. PICK n \in Nat \ {0} : PathOf(n, rank)
  BY <1>3
<1>5. /\ star \subseteq Cells /\ prime \subseteq Cells /\ Matching /\ OnZeros
      /\ row \in 1..(N + 1) /\ path \in Seq(Cells)
  BY DEF IInv, TypeOK
<1> DEFINE pr(k) == path[2 * k - 1]
           st(k) == path[2 * k]
<1>6. /\ \A k \in 1..n : pr(k) \in prime
      /\ \A k \in 1..(n - 1) : st(k) \in star /\ st(k)[2] = pr(k)[2] /\ pr(k + 1)[1] = st(k)[1]
      /\ \A k, l \in 1..n : k < l => rank[pr(l)[1]] < rank[pr(k)[1]]
      /\ \A s \in star : s[1] # pr(1)[1]
  <2>1. \A k \in 1..(n - 1) : 2 * (k + 1) - 1 = 2 * k + 1
    OBVIOUS
  <2>2. 2 * 1 - 1 = 1
    OBVIOUS
  <2> QED BY <1>4, <2>1, <2>2 DEF PathOf
<1>7. \A s \in star : s[2] # pr(n)[2]
  BY <1>1, <1>4 DEF StarsAtTip, Tip, PathOf
<1>8. OnPath(1) = {pr(k) : k \in 1..n} /\ OnPath(0) = {st(k) : k \in 1..(n - 1)}
  <2>1. DOMAIN path = 1..(2 * n - 1)
    BY <1>4, <1>5, LenProperties DEF PathOf
  <2>2. ASSUME NEW x \in OnPath(1) PROVE \E k \in 1..n : x = pr(k)
    <3>1. PICK i \in 1..(2 * n - 1) : x = path[i] /\ i % 2 = 1
      BY <2>1 DEF OnPath
    <3>2. (i + 1) \div 2 \in 1..n /\ 2 * ((i + 1) \div 2) - 1 = i
      BY <3>1
    <3> QED BY <3>1, <3>2
  <2>3. ASSUME NEW x \in OnPath(0) PROVE \E k \in 1..(n - 1) : x = st(k)
    <3>1. PICK i \in 1..(2 * n - 1) : x = path[i] /\ i % 2 = 0
      BY <2>1 DEF OnPath
    <3>2. i \div 2 \in 1..(n - 1) /\ 2 * (i \div 2) = i
      BY <3>1
    <3> QED BY <3>1, <3>2
  <2>4. ASSUME NEW k \in 1..n PROVE pr(k) \in OnPath(1)
    <3>1. 2 * k - 1 \in 1..(2 * n - 1) /\ (2 * k - 1) % 2 = 1
      OBVIOUS
    <3> QED BY <2>1, <3>1 DEF OnPath
  <2>5. ASSUME NEW k \in 1..(n - 1) PROVE st(k) \in OnPath(0)
    <3>1. 2 * k \in 1..(2 * n - 1) /\ (2 * k) % 2 = 0
      OBVIOUS
    <3> QED BY <2>1, <3>1 DEF OnPath
  <2> QED BY <2>2, <2>3, <2>4, <2>5
<1> HIDE DEF pr, st
<1>9. \A k, l \in 1..n : pr(k)[1] = pr(l)[1] => k = l
  <2> SUFFICES ASSUME NEW k \in 1..n, NEW l \in 1..n, k < l, pr(k)[1] = pr(l)[1]
               PROVE  FALSE
    OBVIOUS
  <2>1. rank[pr(l)[1]] < rank[pr(k)[1]]
    BY <1>6
  <2>2. rank[pr(k)[1]] \in Nat
    BY <1>5, <1>6, CellParts
  <2> QED BY <2>1, <2>2
<1>10. \A k \in 1..n : k = n \/ k \in 1..(n - 1)
  OBVIOUS
(* Two primes of the path share neither row nor column. *)
<1>11. ASSUME NEW k \in 1..n, NEW l \in 1..n, pr(k)[2] = pr(l)[2]
       PROVE  pr(k) = pr(l)
  <2>1. CASE k = n /\ l = n
    BY <2>1
  <2>2. CASE k = n /\ l \in 1..(n - 1)
    BY <1>6, <1>7, <1>11, <2>2
  <2>3. CASE k \in 1..(n - 1) /\ l = n
    BY <1>6, <1>7, <1>11, <2>3
  <2>4. CASE k \in 1..(n - 1) /\ l \in 1..(n - 1)
    <3>1. st(k) = st(l)
      BY <1>5, <1>6, <1>11, <2>4 DEF Matching
    <3>2. pr(k + 1)[1] = pr(l + 1)[1] /\ k + 1 \in 1..n /\ l + 1 \in 1..n
      BY <1>6, <2>4, <3>1
    <3>3. k + 1 = l + 1
      BY <1>9, <3>2
    <3>4. k = l
      BY <3>3
    <3> QED BY <3>4
  <2> QED BY <1>10, <2>1, <2>2, <2>3, <2>4
(* A star that stays shares neither with them. *)
<1>12. ASSUME NEW s \in star \ OnPath(0), NEW k \in 1..n
       PROVE  s[1] # pr(k)[1] /\ s[2] # pr(k)[2]
  <2>1. s[1] # pr(k)[1]
    <3>1. CASE k = 1
      BY <1>6, <3>1
    <3>2. CASE k # 1
      <4>1. k - 1 \in 1..(n - 1) /\ (k - 1) + 1 = k
        BY <3>2
      <4>2. st(k - 1) \in star /\ st(k - 1) \in OnPath(0) /\ pr(k)[1] = st(k - 1)[1]
        BY <1>6, <1>8, <4>1
      <4> QED BY <1>5, <4>2 DEF Matching
    <3> QED BY <3>1, <3>2
  <2>2. s[2] # pr(k)[2]
    <3>1. CASE k = n
      BY <1>7, <3>1
    <3>2. CASE k \in 1..(n - 1)
      <4>1. st(k) \in star /\ st(k) \in OnPath(0) /\ st(k)[2] = pr(k)[2]
        BY <1>6, <1>8, <3>2
      <4> QED BY <1>5, <4>1 DEF Matching
    <3> QED BY <1>10, <3>1, <3>2
  <2> QED BY <2>1, <2>2
<1>13. Matching'
  <2> SUFFICES ASSUME NEW s \in star', NEW t \in star', s[1] = t[1] \/ s[2] = t[2]
               PROVE  s = t
    BY DEF Matching
  <2>1. CASE s \in star \ OnPath(0) /\ t \in star \ OnPath(0)
    BY <1>5, <2>1 DEF Matching
  <2>2. CASE s \in star \ OnPath(0) /\ t \in OnPath(1)
    BY <1>8, <1>12, <2>2
  <2>3. CASE s \in OnPath(1) /\ t \in star \ OnPath(0)
    BY <1>8, <1>12, <2>3
  <2>4. CASE s \in OnPath(1) /\ t \in OnPath(1)
    BY <1>8, <1>9, <1>11, <2>4
  <2> QED BY <1>1, <2>1, <2>2, <2>3, <2>4
<1>14. OnPath(1) \subseteq prime
  BY <1>6, <1>8
<1>15. OnZeros'
  BY <1>1, <1>5, <1>14 DEF OnZeros
<1>16. TypeOK'
  <2>1. star' \subseteq Cells
    BY <1>1, <1>5, <1>14
  <2>2. path' \in Seq(Cells)
    BY <1>1
  <2> QED BY <1>1, <1>2, <1>5, <2>1, <2>2 DEF TypeOK
<1>17. AtRest' /\ Covering'
  BY <1>1 DEF AtRest, Covering
<1>18. Ranked'
  BY <1>1, RankedAtRest
<1> QED BY <1>2, <1>13, <1>15, <1>16, <1>17, <1>18 DEF IInv

-----------------------------------------------------------------------------
LEMMA StepIInv == IInv /\ [Next]_vars => IInv'
<1> SUFFICES ASSUME IInv, [Next]_vars PROVE IInv'
  OBVIOUS
<1>1. CASE UNCHANGED vars
  <2>1. /\ UNCHANGED <<cost, c, star, prime, row_cov, col_cov, row, path, step>>
    BY <1>1 DEF vars, marks, covers
  <2>2. Lines' = Lines /\ Cells' = Cells /\ N' = N /\ Shape' /\ Shifted' /\ c' \in [Cells' -> Nat]
    BY <2>1, SameMatrix
  <2>3. TypeOK'
    BY <2>1, <2>2 DEF IInv, TypeOK
  <2>4. Matching' /\ OnZeros' /\ AtRest' /\ Covering'
    BY <2>1, <2>2 DEF IInv, Matching, OnZeros, AtRest, Covering
  <2>5. Ranked'
    BY <2>1, <2>2 DEF IInv, Ranked, ByAge, PathOf
  <2> QED BY <2>2, <2>3, <2>4, <2>5 DEF IInv
<1>2. CASE Reduce
  BY <1>2, ReduceSafe
<1>3. CASE StarRow
  BY <1>3, StarRowSafe
<1>4. CASE CoverStarColumns
  BY <1>4, CoverSafe
<1>5. CASE Adjust
  BY <1>5, AdjustSafe
<1>6. CASE PrimeZero
  BY <1>6, CoverRowSafe, BeginPathSafe DEF PrimeZero
<1>7. CASE ExtendPath
  BY <1>7, ExtendPathSafe
<1>8. CASE Flip
  BY <1>8, FlipSafe
<1> QED BY <1>1, <1>2, <1>3, <1>4, <1>5, <1>6, <1>7, <1>8 DEF Next

(* The marks are well formed, the covers account for them, and the primes can
   be put in an order of age that every path descends. *)
THEOREM Inductive == Spec => []IInv
  BY InitIInv, StepIInv, PTL DEF Spec

(* The matrix never goes below zero, and the marks and the path stay inside. *)
THEOREM TypeCorrect == Spec => []TypeOK
<1>1. IInv => TypeOK
  BY DEF IInv
<1> QED BY <1>1, Inductive, PTL

(* The stars are a matching on zeros of a matrix that is the caller's, padded
   and with whole rows and columns shifted. *)
THEOREM CertificateHolds == Spec => []Certificate
<1>1. IInv => Certificate
  BY DEF IInv, TypeOK, Matching, OnZeros, Shifted, Certificate
<1> QED BY <1>1, Inductive, PTL

(* augment() finds a prime in the row of every star it meets, and no row
   twice: the path gets older at every turn. *)
LEMMA PathFindsPrimes == IInv => PathGoesOn
<1> SUFFICES ASSUME IInv, step = "augment"
             PROVE  /\ \A s \in StarsAtTip : \E p \in prime : p[1] = s[1]
                    /\ \A i, j \in DOMAIN path :
                         path[i][1] = path[j][1] => i = j \/ (i % 2 = 0 /\ j = i + 1)
                                                          \/ (j % 2 = 0 /\ i = j + 1)
  BY DEF PathGoesOn
<1>1. PICK rank \in [Lines -> Nat], m \in Nat :
        ByAge(rank, m) /\ \E n \in Nat \ {0} : PathOf(n, rank)
  BY DEF IInv, Ranked
<1>2. PICK n \in Nat \ {0} : PathOf(n, rank)
  BY <1>1
<1>3. \A s \in StarsAtTip : \E p \in prime : p[1] = s[1]
  BY <1>1, <1>2, StarAtTip
<1>4. DOMAIN path = 1..(2 * n - 1)
  BY <1>2, LenProperties DEF PathOf, IInv, TypeOK
(* The row of an entry is that of the prime it ends or begins with. *)
<1> DEFINE turn(i) == i \div 2 + 1
<1>5. ASSUME NEW i \in 1..(2 * n - 1)
      PROVE  turn(i) \in 1..n /\ path[i][1] = path[2 * turn(i) - 1][1]
  <2>1. CASE i % 2 = 1
    <3>1. turn(i) \in 1..n /\ 2 * turn(i) - 1 = i
      BY <2>1
    <3> QED BY <3>1
  <2>2. CASE i % 2 = 0
    <3>1. i \div 2 \in 1..(n - 1) /\ 2 * (i \div 2) = i
      BY <2>2
    <3>2. path[2 * (i \div 2) + 1][1] = path[i][1]
      BY <1>2, <3>1 DEF PathOf
    <3>3. turn(i) \in 1..n /\ 2 * turn(i) - 1 = 2 * (i \div 2) + 1
      BY <3>1
    <3> QED BY <3>2, <3>3
  <2> QED BY <2>1, <2>2
<1>6. ASSUME NEW k \in 1..n, NEW l \in 1..n, k < l
      PROVE  path[2 * k - 1][1] # path[2 * l - 1][1]
  <2>1. rank[path[2 * l - 1][1]] < rank[path[2 * k - 1][1]]
    BY <1>2, <1>6 DEF PathOf
  <2>2. path[2 * k - 1] \in Cells
    BY <1>2 DEF PathOf, IInv, TypeOK
  <2>3. rank[path[2 * k - 1][1]] \in Nat
    BY <2>2, CellParts
  <2> QED BY <2>1, <2>3
<1>7. ASSUME NEW i \in 1..(2 * n - 1), NEW j \in 1..(2 * n - 1), path[i][1] = path[j][1]
      PROVE  i = j \/ (i % 2 = 0 /\ j = i + 1) \/ (j % 2 = 0 /\ i = j + 1)
  <2>1. turn(i) = turn(j)
    <3> DEFINE k == turn(i)
               l == turn(j)
    <3>1. k \in 1..n /\ l \in 1..n /\ path[2 * k - 1][1] = path[2 * l - 1][1]
      BY <1>5, <1>7
    <3> HIDE DEF k, l
    <3>2. ~(k < l) /\ ~(l < k)
      BY <1>6, <3>1
    <3>3. k = l
      BY <3>1, <3>2
    <3> QED BY <3>3 DEF k, l
  <2> QED BY <2>1
<1> QED BY <1>3, <1>4, <1>7

-----------------------------------------------------------------------------
(* What was taken off row i and column j in all. *)
RowShift == [i \in Lines |-> Padded[<<i, 1>>] - c[<<i, 1>>]]
ColShift == [j \in Lines |-> (Padded[<<1, j>>] - c[<<1, j>>]) - (Padded[<<1, 1>>] - c[<<1, 1>>])]

(* What every assignment pays at least. *)
Floor == Total(RowShift, Lines) + Total(ColShift, Lines)

(* The cells f assigns to the rows of R. *)
Graph(f, R) == {<<i, f[i]>> : i \in R}

Image(f, R) == {f[i] : i \in R}

LEMMA CountUp == \A n \in Nat : IsFiniteSet(1..n) /\ Cardinality(1..n) = n
<1> SUFFICES ASSUME NEW n \in Nat PROVE IsFiniteSet(1..n) /\ Cardinality(1..n) = n
  OBVIOUS
<1>1. IsFiniteSet(1..n) /\ Cardinality(1..n) = IF 1 > n THEN 0 ELSE n - 1 + 1
  BY FS_Interval
<1> QED BY <1>1

LEMMA LinesFinite ==
  ASSUME Shape
  PROVE  /\ IsFiniteSet(Lines) /\ Cardinality(Lines) = N
         /\ IsFiniteSet(Cells)
         /\ \A R \in SUBSET Lines : IsFiniteSet(R)
<1>1. N \in Nat \ {0}
  BY Sized
<1>2. IsFiniteSet(Lines) /\ Cardinality(Lines) = N
  BY <1>1, CountUp DEF Lines
<1> QED BY <1>2, FS_Product, FS_Subset DEF Cells

(* An assignment of every line to another leaves none out. *)
LEMMA PermutationOnto ==
  ASSUME Shape, NEW f \in Permutations
  PROVE  Image(f, Lines) = Lines
<1>1. f \in Injection(Lines, Lines)
  BY DEF Permutations, Injection, IsInjective
<1>2. f \in Surjection(Lines, Lines)
  BY <1>1, LinesFinite, FS_Injection
<1> QED BY <1>2 DEF Surjection, Image, Permutations

-----------------------------------------------------------------------------
(* As long as the solver searches, some column has no star. *)
Incomplete ==
  step \in {"search", "augment"} => \E j \in Lines : \A s \in star : s[2] # j

LEMMA StaysIncomplete == IInv /\ Incomplete /\ [Next]_vars => Incomplete'
<1> SUFFICES ASSUME IInv, Incomplete, [Next]_vars PROVE Incomplete'
  OBVIOUS
<1>0. cost' = cost => Lines' = Lines
  BY Stable
<1>1. CASE Reduce \/ StarRow \/ Flip
  BY <1>1 DEF Reduce, StarRow, Flip, Incomplete
<1>2. CASE CoverStarColumns
  <2> SUFFICES ASSUME col_cov' # Lines PROVE \E j \in Lines : \A s \in star : s[2] # j
    BY <1>0, <1>2 DEF CoverStarColumns, marks, Incomplete
  <2>1. col_cov' = {s[2] : s \in star}
    BY <1>2 DEF CoverStarColumns
  <2>2. \A s \in star : s[2] \in Lines
    BY CellParts DEF IInv, TypeOK
  <2> QED BY <2>1, <2>2
<1>3. CASE Adjust \/ ExtendPath \/ UNCHANGED vars
  BY <1>0, <1>3 DEF Adjust, ExtendPath, vars, marks, Incomplete
<1>4. CASE PrimeZero
  <2>1. UNCHANGED <<cost, star>> /\ step = "search"
    BY <1>4 DEF PrimeZero, CoverRow, BeginPath
  <2> QED BY <1>0, <2>1 DEF Incomplete
<1> QED BY <1>1, <1>2, <1>3, <1>4 DEF Next

(* While a column is without a star, so is a row, and neither is covered. *)
LEMMA UncoveredRemains == IInv /\ Incomplete => SearchGoesOn
<1> SUFFICES ASSUME IInv, Incomplete, step = "search" PROVE Uncovered # {}
  BY DEF SearchGoesOn
<1>1. PICK j \in Lines : \A s \in star : s[2] # j
  BY DEF Incomplete
<1>2. j \notin col_cov
  BY <1>1 DEF IInv, Covering
<1>3. \E i \in Lines : i \notin row_cov
  <2> SUFFICES ASSUME \A i \in Lines : i \in row_cov PROVE FALSE
    OBVIOUS
  <2>1. \A i \in Lines : \E s \in star : s[1] = i
    BY DEF IInv, Covering
  <2> DEFINE at(i) == CHOOSE s \in star : s[1] = i
             f == [i \in Lines |-> at(i)[2]]
  <2>2. \A i \in Lines : at(i) \in star /\ at(i)[1] = i
    BY <2>1
  <2> HIDE DEF at
  <2>3. f \in [Lines -> Lines]
    BY <2>2, CellParts DEF IInv, TypeOK
  <2>4. ASSUME NEW i \in Lines, NEW k \in Lines, f[i] = f[k] PROVE i = k
    BY <2>2, <2>4 DEF IInv, Matching
  <2>5. f \in Permutations
    BY <2>3, <2>4 DEF Permutations
  <2>6. PICK i \in Lines : f[i] = j
    BY <2>5, PermutationOnto DEF IInv, Image
  <2> QED BY <1>1, <2>2, <2>6
<1>4. PICK i \in Lines : i \notin row_cov
  BY <1>3
<1>5. <<i, j>> \in Uncovered
  BY <1>2, <1>4, CellParts DEF Uncovered
<1> QED BY <1>5

(* The solver's two searches always go on: adjust() finds an uncovered value,
   and augment() a prime in the row of every star it meets. *)
THEOREM SolverNeverStuck == Spec => []NeverStuck
<1>1. Init => Incomplete
  BY DEF Init, Incomplete
<1>2. IInv /\ Incomplete => NeverStuck
  BY UncoveredRemains, PathFindsPrimes DEF NeverStuck
<1> QED BY <1>1, <1>2, StaysIncomplete, Inductive, PTL DEF Spec

-----------------------------------------------------------------------------
LEMMA Decomposed ==
  ASSUME IInv, NEW p \in Cells
  PROVE  /\ Padded[p] = c[p] + RowShift[p[1]] + ColShift[p[2]]
         /\ Padded[p] \in Nat /\ c[p] \in Nat
         /\ RowShift[p[1]] \in Int /\ ColShift[p[2]] \in Int
<1>1. /\ p[1] \in Lines /\ p[2] \in Lines /\ 1 \in Lines
      /\ Padded \in [Cells -> Nat] /\ c \in [Cells -> Nat]
  BY Sized, CellParts DEF IInv, TypeOK
<1>2. <<p[1], 1>> \in Cells /\ <<1, p[2]>> \in Cells /\ <<1, 1>> \in Cells
  BY <1>1, CellParts
<1>3. /\ RowShift[p[1]] = Padded[<<p[1], 1>>] - c[<<p[1], 1>>]
      /\ ColShift[p[2]] = (Padded[<<1, p[2]>>] - c[<<1, p[2]>>]) - (Padded[<<1, 1>>] - c[<<1, 1>>])
  BY <1>1 DEF RowShift, ColShift
<1>4. /\ Padded[p] \in Nat /\ c[p] \in Nat
      /\ Padded[<<p[1], 1>>] \in Nat /\ c[<<p[1], 1>>] \in Nat
      /\ Padded[<<1, p[2]>>] \in Nat /\ c[<<1, p[2]>>] \in Nat
      /\ Padded[<<1, 1>>] \in Nat /\ c[<<1, 1>>] \in Nat
  BY <1>1, <1>2
<1>5. c[p] - c[<<p[1], 1>>] - c[<<1, p[2]>>] + c[<<1, 1>>]
        = Padded[p] - Padded[<<p[1], 1>>] - Padded[<<1, p[2]>>] + Padded[<<1, 1>>]
  BY DEF IInv, Shifted
<1> QED BY <1>3, <1>4, <1>5

(* An assignment costs what was taken off its rows and columns, and what is
   left in the matrix at its cells. *)
LEMMA FloorHolds ==
  ASSUME IInv, NEW f \in Permutations
  PROVE  LET M == Graph(f, Lines) \cap Real
         IN  /\ CostOf(M) \in Int /\ Floor \in Int
             /\ CostOf(M) >= Floor
             /\ (\A i \in Lines : c[<<i, f[i]>>] = 0) => CostOf(M) = Floor
<1> DEFINE cells(R) == Graph(f, R) \cap Real
           paid(R) == Total(Padded, cells(R))
           due(R) == Total(RowShift, R) + Total(ColShift, Image(f, R))
           Meets(R) == /\ paid(R) \in Int /\ due(R) \in Int /\ paid(R) >= due(R)
                       /\ (\A i \in R : c[<<i, f[i]>>] = 0) => paid(R) = due(R)
           K == {R \in SUBSET Lines : Meets(R)}
<1>0. /\ Shape /\ f \in [Lines -> Lines] /\ \A i, j \in Lines : f[i] = f[j] => i = j
      /\ Padded \in [Cells -> Nat]
  BY Sized DEF IInv, Permutations
<1>1. {} \in K
  <2>1. cells({}) = {} /\ Image(f, {}) = {}
    BY DEF Graph, Image
  <2>2. paid({}) = 0 /\ due({}) = 0
    BY <2>1, TotalEmpty
  <2> QED BY <2>2
<1>2. ASSUME NEW R \in K, NEW x \in Lines \ R PROVE R \cup {x} \in K
  <2> DEFINE p == <<x, f[x]>>
  <2>0. R \in SUBSET Lines /\ Meets(R)
    BY <1>2
  <2>1. p \in Cells /\ p[1] = x /\ p[2] = f[x] /\ f[x] \in Lines
    BY <1>0, CellParts
  <2>2. /\ Padded[p] = c[p] + RowShift[x] + ColShift[f[x]]
        /\ Padded[p] \in Nat /\ c[p] \in Nat /\ RowShift[x] \in Int /\ ColShift[f[x]] \in Int
    BY <2>1, Decomposed
  <2>3. paid(R \cup {x}) = paid(R) + Padded[p]
    <3>1. cells(R) \in SUBSET Cells /\ IsFiniteSet(cells(R)) /\ p \notin cells(R)
      <4>1. cells(R) \subseteq Cells
        BY <1>0, Sized
      <4>2. p \notin cells(R)
        BY DEF Graph
      <4> QED BY <1>0, <4>1, <4>2, LinesFinite, FS_Subset
    <3>2. CASE p \in Real
      <4>1. cells(R \cup {x}) = cells(R) \cup {p}
        BY <3>2 DEF Graph
      <4>2. \A y \in cells(R) \cup {p} : Padded[y] \in Int
        BY <1>0, <2>1, <3>1
      <4> HIDE DEF cells, p
      <4>3. Total(Padded, cells(R) \cup {p}) = Padded[p] + Total(Padded, cells(R))
        BY <3>1, <4>2, TotalAdd
      <4>4. paid(R) \in Int
        BY <2>0
      <4>5. paid(R \cup {x}) = Padded[p] + paid(R)
        BY <4>1, <4>3
      <4> HIDE DEF paid
      <4> QED BY <2>2, <4>4, <4>5
    <3>3. CASE p \notin Real
      <4>1. cells(R \cup {x}) = cells(R)
        BY <3>3 DEF Graph
      <4>2. Padded[p] = 0
        BY <2>1, <3>3 DEF Padded
      <4>3. paid(R) \in Int
        BY <2>0
      <4> HIDE DEF cells, p
      <4> QED BY <4>1, <4>2, <4>3
    <3> QED BY <3>2, <3>3
  <2>4. due(R \cup {x}) = due(R) + RowShift[x] + ColShift[f[x]]
    <3>1. Total(RowShift, R) \in Int /\ Total(RowShift, R \cup {x}) = RowShift[x] + Total(RowShift, R)
      <4>1. \A y \in R \cup {x} : RowShift[y] \in Int
        <5>1. \A y \in Lines : <<y, 1>> \in Cells /\ <<y, 1>>[1] = y
          BY <1>0, Sized, CellParts
        <5> QED BY <2>0, <5>1, Decomposed
      <4>2. IsFiniteSet(R)
        BY <1>0, <2>0, LinesFinite
      <4> QED BY <1>2, <4>1, <4>2, TotalAdd
    <3>2. /\ Total(ColShift, Image(f, R)) \in Int
          /\ Total(ColShift, Image(f, R \cup {x})) = ColShift[f[x]] + Total(ColShift, Image(f, R))
      <4>1. \A y \in Lines : ColShift[y] \in Int
        <5>1. \A y \in Lines : <<1, y>> \in Cells /\ <<1, y>>[2] = y
          BY <1>0, Sized, CellParts
        <5> QED BY <5>1, Decomposed
      <4>2. Image(f, R) \in SUBSET Lines /\ f[x] \notin Image(f, R)
        BY <1>0, <2>0 DEF Image
      <4>3. Image(f, R \cup {x}) = Image(f, R) \cup {f[x]}
        BY DEF Image
      <4>4. IsFiniteSet(Image(f, R))
        BY <1>0, <4>2, LinesFinite
      <4>5. \A y \in Image(f, R) \cup {f[x]} : ColShift[y] \in Int
        BY <2>1, <4>1, <4>2
      <4> QED BY <4>2, <4>3, <4>4, <4>5, TotalAdd
    <3> QED BY <2>2, <3>1, <3>2
  <2>5. Meets(R \cup {x})
    <3> HIDE DEF paid, due, p
    <3>1. (\A i \in R \cup {x} : c[<<i, f[i]>>] = 0) => c[p] = 0 /\ \A i \in R : c[<<i, f[i]>>] = 0
      BY DEF p
    <3> QED BY <2>0, <2>2, <2>3, <2>4, <3>1
  <2> HIDE DEF Meets
  <2> QED BY <2>0, <2>5
<1>3. Lines \in K
  <2>1. K \in SUBSET SUBSET Lines
    OBVIOUS
  <2> HIDE DEF K
  <2> QED BY <1>0, <1>1, <1>2, <2>1, LinesFinite, SubsetInduction
<1>4. CostOf(cells(Lines)) = paid(Lines) /\ due(Lines) = Floor
  BY <1>0, PermutationOnto DEF CostOf, Total, Floor
<1> HIDE DEF cells, paid, due
<1>5. Meets(Lines)
  BY <1>3
<1> QED BY <1>4, <1>5 DEF cells

(* At the end there is a star in every line. *)
LEMMA PerfectMatching ==
  ASSUME IInv, step = "done"
  PROVE  \E f \in Permutations :
           star = Graph(f, Lines) /\ \A i \in Lines : c[<<i, f[i]>>] = 0
<1>0. /\ Shape /\ star \subseteq Cells /\ \A j \in Lines : \E s \in star : s[2] = j
      /\ \A s, t \in star : s[1] = t[1] \/ s[2] = t[2] => s = t
  BY DEF IInv, TypeOK, AtRest, Matching
<1>1. \A s \in star : s[1] \in Lines /\ s[2] \in Lines /\ s = <<s[1], s[2]>> /\ c[s] = 0
  BY <1>0, CellParts DEF IInv, OnZeros
<1> DEFINE at(j) == CHOOSE s \in star : s[2] = j
           g == [j \in Lines |-> at(j)[1]]
<1>2. \A j \in Lines : at(j) \in star /\ at(j)[2] = j
  BY <1>0
<1> HIDE DEF at
<1>3. g \in Permutations
  <2>1. g \in [Lines -> Lines]
    BY <1>1, <1>2
  <2>2. ASSUME NEW i \in Lines, NEW j \in Lines, g[i] = g[j] PROVE i = j
    BY <1>0, <1>2, <2>2
  <2> QED BY <2>1, <2>2 DEF Permutations
<1>4. \A i \in Lines : \E s \in star : s[1] = i
  <2> SUFFICES ASSUME NEW i \in Lines PROVE \E s \in star : s[1] = i
    OBVIOUS
  <2>1. PICK j \in Lines : g[j] = i
    BY <1>0, <1>3, PermutationOnto DEF Image
  <2> QED BY <1>2, <2>1
<1> DEFINE in(i) == CHOOSE s \in star : s[1] = i
           f == [i \in Lines |-> in(i)[2]]
<1>5. \A i \in Lines : in(i) \in star /\ in(i)[1] = i
  BY <1>4
<1> HIDE DEF in
<1>6. f \in Permutations
  <2>1. f \in [Lines -> Lines]
    BY <1>1, <1>5
  <2>2. ASSUME NEW i \in Lines, NEW j \in Lines, f[i] = f[j] PROVE i = j
    BY <1>0, <1>5, <2>2
  <2> QED BY <2>1, <2>2 DEF Permutations
<1>7. \A i \in Lines : <<i, f[i]>> = in(i)
  BY <1>1, <1>5
<1>8. \A s \in star : s = in(s[1])
  BY <1>0, <1>1, <1>5
<1>9. star = Graph(f, Lines)
  BY <1>1, <1>5, <1>7, <1>8 DEF Graph
<1>10. \A i \in Lines : c[<<i, f[i]>>] = 0
  BY <1>1, <1>5, <1>7
<1> QED BY <1>6, <1>9, <1>10

LEMMA AssignmentsAre ==
  Assignments = {Graph(f, Lines) \cap Real : f \in Permutations}
  BY DEF Assignments, Graph

(* Whatever assignment the solver returns, no other is cheaper: the marks make
   it cost the floor no assignment can go below. *)
THEOREM SolverIsOptimal == Spec => []Cheapest
<1>1. IInv => Cheapest
  <2> SUFFICES ASSUME IInv, step = "done"
               PROVE  /\ Assignment \in Assignments
                      /\ \A M \in Assignments : CostOf(Assignment) <= CostOf(M)
    BY DEF Cheapest
  <2>1. PICK f \in Permutations :
          star = Graph(f, Lines) /\ \A i \in Lines : c[<<i, f[i]>>] = 0
    BY PerfectMatching
  <2>2. Assignment = Graph(f, Lines) \cap Real
    BY <2>1 DEF Assignment
  <2>3. Assignment \in Assignments
    BY <2>2, AssignmentsAre
  <2>4. CostOf(Assignment) = Floor /\ Floor \in Int
    BY <2>1, <2>2, FloorHolds
  <2>5. ASSUME NEW M \in Assignments PROVE CostOf(M) \in Int /\ Floor <= CostOf(M)
    <3>1. PICK h \in Permutations : M = Graph(h, Lines) \cap Real
      BY AssignmentsAre
    <3> QED BY <3>1, FloorHolds
  <2> QED BY <2>3, <2>4, <2>5
<1> QED BY <1>1, Inductive, PTL

-----------------------------------------------------------------------------
(* Every assignment fills the shorter side of the caller's matrix. *)
LEMMA AssignmentSize ==
  ASSUME Shape, NEW f \in Permutations
  PROVE  LET M == Graph(f, Lines) \cap Real
         IN  /\ IsFiniteSet(M) /\ Cardinality(M) <= MaxSize
             /\ Cardinality(M) = IF rows > cols THEN cols ELSE rows
<1> DEFINE M == Graph(f, Lines) \cap Real
<1>0. /\ rows \in Nat \ {0} /\ cols \in Nat \ {0} /\ N \in Nat \ {0}
      /\ rows <= N /\ cols <= N /\ N <= MaxSize /\ MaxSize \in Nat /\ Lines = 1..N
      /\ f \in [Lines -> Lines] /\ \A i, j \in Lines : f[i] = f[j] => i = j
  BY Sized, MunkresAssumption DEF Lines, Permutations
<1>1. CASE rows > cols
  <2>1. N = rows /\ N \in Nat
    BY <1>0, <1>1 DEF N
  <2> DEFINE at(j) == CHOOSE i \in Lines : f[i] = j
             b == [j \in 1..cols |-> <<at(j), j>>]
  <2>2. \A j \in 1..cols : at(j) \in Lines /\ f[at(j)] = j
    <3>1. \A j \in 1..cols : j \in Image(f, Lines)
      BY <1>0, PermutationOnto
    <3> QED BY <3>1 DEF Image
  <2> HIDE DEF at
  <2>3. \A j \in 1..cols : b[j] \in M
    <3> SUFFICES ASSUME NEW j \in 1..cols PROVE <<at(j), j>> \in M
      OBVIOUS
    <3>1. at(j) \in 1..rows
      BY <1>0, <2>1, <2>2
    <3>2. <<at(j), j>> = <<at(j), f[at(j)]>>
      BY <2>2
    <3> QED BY <2>2, <3>1, <3>2 DEF Graph, Real
  <2>4. \A p \in M : \E j \in 1..cols : b[j] = p
    <3> SUFFICES ASSUME NEW p \in M PROVE \E j \in 1..cols : b[j] = p
      OBVIOUS
    <3>1. PICK i \in Lines : p = <<i, f[i]>>
      BY DEF Graph
    <3>2. f[i] \in 1..cols
      BY <3>1 DEF Real
    <3>3. at(f[i]) = i
      BY <1>0, <2>2, <3>2
    <3> QED BY <3>1, <3>2, <3>3
  <2>5. b \in Bijection(1..cols, M)
    BY <2>3, <2>4 DEF Bijection, Injection, Surjection, IsInjective
  <2>6. ExistsBijection(1..cols, M)
    BY <2>5 DEF ExistsBijection
  <2>7. IsFiniteSet(1..cols) /\ Cardinality(1..cols) = cols
    BY <1>0, CountUp
  <2> HIDE DEF M, b
  <2>8. IsFiniteSet(M) /\ Cardinality(M) = cols
    BY <2>6, <2>7, FS_Bijection
  <2> QED BY <1>0, <1>1, <2>8 DEF M
<1>2. CASE ~(rows > cols)
  <2>1. N = cols
    BY <1>0, <1>2 DEF N
  <2> DEFINE b == [i \in 1..rows |-> <<i, f[i]>>]
  <2>2. \A i \in 1..rows : i \in Lines /\ f[i] \in 1..cols
    BY <1>0, <2>1
  <2>3. \A i \in 1..rows : b[i] \in M
    BY <2>2 DEF Graph, Real
  <2>4. \A p \in M : \E i \in 1..rows : b[i] = p
    BY DEF Graph, Real
  <2>5. b \in Bijection(1..rows, M)
    BY <2>3, <2>4 DEF Bijection, Injection, Surjection, IsInjective
  <2>6. ExistsBijection(1..rows, M)
    BY <2>5 DEF ExistsBijection
  <2>7. IsFiniteSet(1..rows) /\ Cardinality(1..rows) = rows
    BY <1>0, CountUp
  <2> HIDE DEF M, b
  <2>8. IsFiniteSet(M) /\ Cardinality(M) = rows
    BY <2>6, <2>7, FS_Bijection
  <2> QED BY <1>0, <1>2, <2>8 DEF M
<1> QED BY <1>1, <1>2

(* W, F: the size and the forbidden cost; a pairs within the gate and b out of
   it cost t together. *)
Bounded(W, F, t, a, b) == F * b <= t /\ W * t + a <= W * (F * b) + F * a

LEMMA OneWithin ==
  ASSUME NEW W \in Nat, NEW F \in Nat, NEW t \in Nat, NEW a \in Nat, NEW b \in Nat, NEW w \in Nat,
         Bounded(W, F, t, a, b), W * w < F
  PROVE  Bounded(W, F, t + w, a + 1, b)
<1>1. W * (t + w) = W * t + W * w /\ F * (a + 1) = F * a + F
  OBVIOUS
<1>2. W * t \in Nat /\ W * w \in Nat /\ W * (F * b) \in Nat /\ F * a \in Nat /\ F * b \in Nat
  OBVIOUS
<1> QED BY <1>1, <1>2 DEF Bounded

LEMMA OneOut ==
  ASSUME NEW W \in Nat, NEW F \in Nat, NEW t \in Nat, NEW a \in Nat, NEW b \in Nat,
         Bounded(W, F, t, a, b)
  PROVE  Bounded(W, F, t + F, a, b + 1)
<1>1. /\ W * (t + F) = W * t + W * F /\ F * (b + 1) = F * b + F
      /\ W * (F * b + F) = W * (F * b) + W * F
  OBVIOUS
<1>2. /\ W * t \in Nat /\ W * F \in Nat /\ W * (F * b) \in Nat /\ F * a \in Nat /\ F * b \in Nat
  OBVIOUS
<1> QED BY <1>1, <1>2 DEF Bounded

(* A forbidden pair costs more than every admitted pair together. *)
LEMMA NoneLost ==
  ASSUME NEW W \in Nat, NEW F \in Nat, NEW t \in Nat, NEW u \in Nat,
         NEW a \in Nat, NEW b \in Nat, NEW d \in Nat, NEW e \in Nat,
         Bounded(W, F, t, a, b), Bounded(W, F, u, d, e),
         a + b = d + e, d + e <= W, t <= u
  PROVE  d <= a
<1> SUFFICES ASSUME a + 1 <= d PROVE FALSE
  OBVIOUS
<1>1. PICK x \in Nat : b = e + 1 + x
  <2>1. b - e - 1 \in Nat /\ b = e + 1 + (b - e - 1)
    OBVIOUS
  <2> QED BY <2>1
<1>2. F * b = F * e + F + F * x /\ F * e \in Nat /\ F * x \in Nat
  BY <1>1
<1>3. F * e + F <= u
  BY <1>2 DEF Bounded
<1>4. PICK y \in Nat : u = F * e + F + y
  <2>1. u - (F * e + F) \in Nat /\ u = F * e + F + (u - (F * e + F))
    BY <1>2, <1>3
  <2> QED BY <2>1
<1>5. W * u = W * (F * e) + W * F + W * y /\ W * (F * e) \in Nat /\ W * F \in Nat /\ W * y \in Nat
  BY <1>2, <1>4
<1>6. W * F + d <= F * d
  BY <1>5 DEF Bounded
<1>7. PICK z \in Nat : W = d + z
  <2>1. W - d \in Nat /\ W = d + (W - d)
    OBVIOUS
  <2> QED BY <2>1
<1>8. W * F = F * d + F * z /\ F * d \in Nat /\ F * z \in Nat
  BY <1>7
<1> QED BY <1>6, <1>8

LEMMA AssignmentBounded ==
  ASSUME Shape, NEW M \in SUBSET Real, IsFiniteSet(M)
  PROVE  LET A == Admitted(M)
         IN  /\ CostOf(M) \in Nat
             /\ Cardinality(A) \in Nat /\ Cardinality(M \ A) \in Nat
             /\ Cardinality(A) + Cardinality(M \ A) = Cardinality(M)
             /\ Bounded(MaxSize, Forbidden, CostOf(M), Cardinality(A), Cardinality(M \ A))
<1> DEFINE in(T) == Cardinality(Admitted(T))
           out(T) == Cardinality(T \ Admitted(T))
           Fits(T) == /\ CostOf(T) \in Nat /\ in(T) \in Nat /\ out(T) \in Nat
                      /\ in(T) + out(T) = Cardinality(T)
                      /\ Bounded(MaxSize, Forbidden, CostOf(T), in(T), out(T))
           K == {T \in SUBSET M : Fits(T)}
<1>0. /\ Padded \in [Cells -> Nat] /\ Real \subseteq Cells
      /\ MaxSize \in Nat /\ Forbidden \in Nat
      /\ \A p \in Real : Padded[p] = cost[p[1]][p[2]] /\ Padded[p] \in Costs
  <2>1. Padded \in [Cells -> Nat] /\ Real \subseteq Cells /\ MaxSize \in Nat /\ Forbidden \in Nat
    BY Sized, MunkresAssumption
  <2>2. \A p \in Real : Padded[p] = cost[p[1]][p[2]]
    BY <2>1 DEF Padded
  <2>3. \A p \in Real : cost[p[1]][p[2]] \in Costs
    BY DEF Shape, Real
  <2> QED BY <2>1, <2>2, <2>3
<1>1. {} \in K
  <2>1. Admitted({}) = {} /\ {} \ Admitted({}) = {} /\ CostOf({}) = 0
    <3>1. Admitted({}) = {}
      BY DEF Admitted
    <3>2. CostOf({}) = Total(Padded, {})
      BY DEF CostOf, Total
    <3> QED BY <3>1, <3>2, TotalEmpty
  <2>2. Cardinality({}) = 0
    BY FS_EmptySet
  <2>3. Bounded(MaxSize, Forbidden, 0, 0, 0)
    BY <1>0 DEF Bounded
  <2>4. Fits({})
    BY <2>1, <2>2, <2>3
  <2> HIDE DEF Fits
  <2> QED BY <2>4
<1>2. ASSUME NEW T \in K, NEW x \in M \ T PROVE T \cup {x} \in K
  <2>0. T \in SUBSET M /\ Fits(T)
    BY <1>2
  <2>1. /\ x \in Real /\ Padded[x] \in Costs /\ Padded[x] \in Nat /\ Padded[x] = cost[x[1]][x[2]]
    BY <1>0, MunkresAssumption
  <2>2. IsFiniteSet(T) /\ IsFiniteSet(Admitted(T)) /\ IsFiniteSet(T \ Admitted(T))
    <3>1. IsFiniteSet(T)
      BY <2>0, FS_Subset
    <3>2. Admitted(T) \in SUBSET T /\ T \ Admitted(T) \in SUBSET T
      BY DEF Admitted
    <3> QED BY <3>1, <3>2, FS_Subset
  <2>3. CostOf(T \cup {x}) = CostOf(T) + Padded[x]
    <3>1. \A y \in T \cup {x} : Padded[y] \in Int
      BY <1>0, <2>0
    <3>2. Total(Padded, T \cup {x}) = Padded[x] + Total(Padded, T) /\ Total(Padded, T) \in Int
      BY <1>2, <2>2, <3>1, TotalAdd
    <3> QED BY <2>1, <3>2 DEF CostOf, Total
  <2>4. Cardinality(T \cup {x}) = Cardinality(T) + 1
    BY <1>2, <2>2, FS_AddElement
  <2>5. CASE Padded[x] = Forbidden
    <3>1. Admitted(T \cup {x}) = Admitted(T)
      BY <2>1, <2>5 DEF Admitted
    <3>2. (T \cup {x}) \ Admitted(T \cup {x}) = (T \ Admitted(T)) \cup {x}
      <4>1. x \notin Admitted(T)
        BY <1>2 DEF Admitted
      <4> QED BY <3>1, <4>1
    <3>3. out(T \cup {x}) = out(T) + 1 /\ in(T \cup {x}) = in(T)
      <4>1. x \notin T \ Admitted(T)
        BY <1>2
      <4>2. Cardinality((T \ Admitted(T)) \cup {x}) = Cardinality(T \ Admitted(T)) + 1
        BY <2>2, <4>1, FS_AddElement
      <4> QED BY <3>1, <3>2, <4>2
    <3> HIDE DEF in, out
    <3>4. /\ CostOf(T) \in Nat /\ in(T) \in Nat /\ out(T) \in Nat
          /\ in(T) + out(T) = Cardinality(T)
          /\ Bounded(MaxSize, Forbidden, CostOf(T), in(T), out(T))
      BY <2>0
    <3>5. Bounded(MaxSize, Forbidden, CostOf(T) + Forbidden, in(T), out(T) + 1)
      BY <1>0, <3>4, OneOut
    <3>6. Fits(T \cup {x})
      BY <1>0, <2>3, <2>4, <2>5, <3>3, <3>4, <3>5
    <3> HIDE DEF Fits
    <3> QED BY <2>0, <3>6
  <2>6. CASE Padded[x] # Forbidden
    <3>0. MaxSize * Padded[x] < Forbidden
      BY <2>1, <2>6, MunkresAssumption
    <3>1. Admitted(T \cup {x}) = Admitted(T) \cup {x} /\ x \notin Admitted(T)
      BY <1>2, <2>1, <2>6 DEF Admitted
    <3>2. (T \cup {x}) \ Admitted(T \cup {x}) = T \ Admitted(T)
      BY <1>2, <3>1
    <3>3. in(T \cup {x}) = in(T) + 1 /\ out(T \cup {x}) = out(T)
      BY <2>2, <3>1, <3>2, FS_AddElement
    <3> HIDE DEF in, out
    <3>4. /\ CostOf(T) \in Nat /\ in(T) \in Nat /\ out(T) \in Nat
          /\ in(T) + out(T) = Cardinality(T)
          /\ Bounded(MaxSize, Forbidden, CostOf(T), in(T), out(T))
      BY <2>0
    <3>5. Bounded(MaxSize, Forbidden, CostOf(T) + Padded[x], in(T) + 1, out(T))
      BY <1>0, <2>1, <3>0, <3>4, OneWithin
    <3>6. Fits(T \cup {x})
      BY <1>0, <2>1, <2>3, <2>4, <3>3, <3>4, <3>5
    <3> HIDE DEF Fits
    <3> QED BY <2>0, <3>6
  <2> QED BY <2>5, <2>6
<1>3. M \in K
  <2>1. K \in SUBSET SUBSET M
    OBVIOUS
  <2> HIDE DEF K
  <2> QED BY <1>1, <1>2, <2>1, SubsetInduction
<1> HIDE DEF in, out
<1>4. Fits(M)
  BY <1>3
<1> QED BY <1>4 DEF in, out

(* match_by_iou() gets as many pairs within the gate as there can be: the
   price of a forbidden pair makes the cheapest assignment the one with the
   fewest. *)
THEOREM GateKeepsAll == Spec => []GateLosesNone
<1>1. IInv => GateLosesNone
  <2> SUFFICES ASSUME IInv, step = "done", NEW M \in Assignments
               PROVE  Cardinality(Admitted(M)) <= Cardinality(Admitted(Assignment))
    BY DEF GateLosesNone
  <2>1. Shape /\ MaxSize \in Nat /\ Forbidden \in Nat
    BY MunkresAssumption DEF IInv
  <2>2. PICK f \in Permutations :
          star = Graph(f, Lines) /\ \A i \in Lines : c[<<i, f[i]>>] = 0
    BY PerfectMatching
  <2>3. Assignment = Graph(f, Lines) \cap Real
    BY <2>2 DEF Assignment
  <2>4. PICK h \in Permutations : M = Graph(h, Lines) \cap Real
    BY AssignmentsAre
  <2>5. CostOf(Assignment) <= CostOf(M)
    <3>1. CostOf(Assignment) = Floor /\ Floor \in Int
      BY <2>2, <2>3, FloorHolds
    <3>2. CostOf(M) >= Floor /\ CostOf(M) \in Int
      BY <2>4, FloorHolds
    <3> QED BY <3>1, <3>2
  <2>6. /\ IsFiniteSet(Assignment) /\ IsFiniteSet(M)
        /\ Cardinality(M) = Cardinality(Assignment) /\ Cardinality(M) <= MaxSize
    BY <2>1, <2>3, <2>4, AssignmentSize
  <2>7. M \in SUBSET Real /\ Assignment \in SUBSET Real
    BY <2>3, <2>4
  <2> DEFINE a == Cardinality(Admitted(Assignment))
             b == Cardinality(Assignment \ Admitted(Assignment))
             d == Cardinality(Admitted(M))
             e == Cardinality(M \ Admitted(M))
  <2>8. /\ CostOf(Assignment) \in Nat /\ a \in Nat /\ b \in Nat
        /\ a + b = Cardinality(Assignment)
        /\ Bounded(MaxSize, Forbidden, CostOf(Assignment), a, b)
    BY <2>1, <2>6, <2>7, AssignmentBounded
  <2>9. /\ CostOf(M) \in Nat /\ d \in Nat /\ e \in Nat
        /\ d + e = Cardinality(M)
        /\ Bounded(MaxSize, Forbidden, CostOf(M), d, e)
    BY <2>1, <2>6, <2>7, AssignmentBounded
  <2>10. d <= a
    <3> HIDE DEF a, b, d, e
    <3>1. a + b = d + e /\ d + e <= MaxSize
      BY <2>6, <2>8, <2>9
    <3> QED BY <2>1, <2>5, <2>8, <2>9, <3>1, NoneLost
  <2> QED BY <2>10
<1> QED BY <1>1, Inductive, PTL
-----------------------------------------------------------------------------
(* A number that every pass makes smaller: the columns without a star, and
   within a round of cover, search and path what is left of it. *)
StarColumns == {s[2] : s \in star}
ColumnsLeft == N - Cardinality(StarColumns)
Turns == (Len(path) + 1) \div 2
Round == 3 * N + 4

RowsLeft == N - Cardinality(row_cov)
NoZero == IF Uncovered \cap Zeros = {} THEN 1 ELSE 0

RoundLeft ==
  IF step = "cover" THEN Round - 1
  ELSE IF step = "search" THEN N + 1 + 2 * RowsLeft + NoZero
  ELSE IF step = "augment" THEN N - Turns
  ELSE 0

PassesLeft ==
  IF step = "reduce" THEN (N + 1) * Round + N + 1
  ELSE IF step = "star" THEN (N + 1) * Round + (N + 1 - row)
  ELSE ColumnsLeft * Round + RoundLeft

LEMMA LineSets ==
  ASSUME Shape
  PROVE  /\ \A S \in SUBSET Lines : Cardinality(S) \in 0..N
         /\ \A S, T \in SUBSET Lines : S \subseteq T /\ S # T => Cardinality(S) < Cardinality(T)
<1>1. IsFiniteSet(Lines) /\ Cardinality(Lines) = N /\ N \in Nat
  BY LinesFinite, Sized
<1>2. ASSUME NEW S \in SUBSET Lines PROVE IsFiniteSet(S) /\ Cardinality(S) \in 0..N
  BY <1>1, FS_Subset, FS_CardinalityType
<1>3. ASSUME NEW S \in SUBSET Lines, NEW T \in SUBSET Lines, S \subseteq T, S # T
      PROVE  Cardinality(S) < Cardinality(T)
  <2>1. Cardinality(S) <= Cardinality(T) /\ Cardinality(T) # Cardinality(S)
    BY <1>2, <1>3, FS_Subset
  <2>2. Cardinality(S) \in 0..N /\ Cardinality(T) \in 0..N
    BY <1>2
  <2> QED BY <1>1, <2>1, <2>2
<1> QED BY <1>2, <1>3

(* The primes of the path lie in different rows. *)
LEMMA TurnsFit == IInv /\ step = "augment" => Turns \in 1..N
<1> SUFFICES ASSUME IInv, step = "augment" PROVE Turns \in 1..N
  OBVIOUS
<1>0. Shape /\ path \in Seq(Cells) /\ prime \subseteq Cells
  BY DEF IInv, TypeOK
<1>1. PICK rank \in [Lines -> Nat], n \in Nat \ {0} : PathOf(n, rank)
  BY DEF IInv, Ranked
<1>2. Turns = n
  BY <1>1 DEF PathOf, Turns
<1> DEFINE f == [k \in 1..n |-> path[2 * k - 1][1]]
<1>3. f \in [1..n -> Lines]
  BY <1>0, <1>1, CellParts DEF PathOf
<1>4. ASSUME NEW k \in 1..n, NEW l \in 1..n, k < l PROVE f[k] # f[l]
  <2>1. rank[f[l]] < rank[f[k]]
    BY <1>1, <1>4 DEF PathOf
  <2>2. rank[f[k]] \in Nat
    BY <1>3
  <2> QED BY <2>1, <2>2
<1> HIDE DEF f
<1>5. f \in Injection(1..n, Lines)
  <2>1. \A k, l \in 1..n : f[k] = f[l] => k = l
    <3> SUFFICES ASSUME NEW k \in 1..n, NEW l \in 1..n, f[k] = f[l] PROVE k = l
      OBVIOUS
    <3>1. ~(k < l) /\ ~(l < k)
      BY <1>4
    <3> QED BY <3>1
  <2> QED BY <1>3, <2>1 DEF Injection, IsInjective
<1>6. Cardinality(1..n) = n /\ Cardinality(Lines) = N /\ IsFiniteSet(Lines) /\ N \in Nat
  BY <1>0, CountUp, LinesFinite, Sized
<1>7. n <= N
  BY <1>5, <1>6, FS_Injection
<1> QED BY <1>2, <1>6, <1>7

(* A path stars another column and gives up none. *)
LEMMA FlipStarsAColumn ==
  ASSUME IInv, Flip
  PROVE  StarColumns \subseteq StarColumns' /\ StarColumns # StarColumns'
<1>1. /\ step = "augment" /\ StarsAtTip = {}
      /\ star' = (star \ OnPath(0)) \cup OnPath(1)
  BY DEF Flip
<1>2. PICK rank \in [Lines -> Nat], n \in Nat \ {0} : PathOf(n, rank)
  BY <1>1 DEF IInv, Ranked
<1>3. DOMAIN path = 1..(2 * n - 1)
  BY <1>2, LenProperties DEF PathOf, IInv, TypeOK
<1>4. ASSUME NEW s \in star PROVE \E t \in star' : t[2] = s[2]
  <2>1. CASE s \notin OnPath(0)
    BY <1>1, <2>1
  <2>2. CASE s \in OnPath(0)
    <3>1. PICK i \in 1..(2 * n - 1) : s = path[i] /\ i % 2 = 0
      BY <1>3, <2>2 DEF OnPath
    <3> DEFINE k == i \div 2
    <3>2. k \in 1..(n - 1) /\ 2 * k = i /\ i - 1 \in 1..(2 * n - 1) /\ (i - 1) % 2 = 1
      BY <3>1
    <3>3. path[i][2] = path[i - 1][2]
      BY <1>2, <3>2 DEF PathOf
    <3>4. path[i - 1] \in OnPath(1)
      BY <1>3, <3>2 DEF OnPath
    <3> QED BY <1>1, <3>1, <3>3, <3>4
  <2> QED BY <2>1, <2>2
<1>5. Tip \in star'
  <2>1. Len(path) = 2 * n - 1 /\ 2 * n - 1 \in 1..(2 * n - 1) /\ (2 * n - 1) % 2 = 1
    BY <1>2 DEF PathOf
  <2>2. Tip \in OnPath(1)
    BY <1>3, <2>1 DEF Tip, OnPath
  <2> QED BY <1>1, <2>2
<1>6. \A s \in star : s[2] # Tip[2]
  BY <1>1 DEF StarsAtTip
<1>7. Tip[2] \in StarColumns' /\ Tip[2] \notin StarColumns
  BY <1>5, <1>6 DEF StarColumns
<1>8. StarColumns \subseteq StarColumns'
  BY <1>4 DEF StarColumns
<1> QED BY <1>7, <1>8

(* adjust() makes a zero. *)
LEMMA AdjustMakesZero ==
  ASSUME IInv, Adjust
  PROVE  /\ Uncovered \cap Zeros = {} /\ (Uncovered \cap Zeros)' # {}
         /\ UNCHANGED <<cost, star, row_cov, path>> /\ step = "search" /\ step' = "search"
<1>1. /\ Uncovered \cap Zeros = {} /\ UNCHANGED <<cost, marks, covers, row, path, step>>
      /\ step = "search"
  BY DEF Adjust
<1>2. PICK e \in Uncovered :
        c' = [p \in Cells |-> c[p] + (IF p[1] \in row_cov THEN c[e] ELSE 0)
                                   - (IF p[2] \notin col_cov THEN c[e] ELSE 0)]
  BY DEF Adjust
<1>3. e \in Cells /\ c[e] \in Nat /\ e[1] \notin row_cov /\ e[2] \notin col_cov
  BY DEF Uncovered, IInv, TypeOK
<1>4. c'[e] = 0
  BY <1>2, <1>3
<1>5. Cells' = Cells /\ row_cov' = row_cov /\ col_cov' = col_cov /\ star' = star
  BY <1>1, Stable DEF covers, marks
<1>6. e \in Uncovered' /\ e \in Zeros'
  BY <1>3, <1>4, <1>5 DEF Uncovered, Zeros
<1> QED BY <1>1, <1>5, <1>6

InBounds ==
  /\ N \in Nat /\ Round \in Nat
  /\ ColumnsLeft \in 0..N /\ RowsLeft \in 0..N /\ NoZero \in 0..1
  /\ RoundLeft \in 0..(Round - 1)
  /\ step = "augment" => Turns \in 1..N

LEMMA Bounds == IInv => InBounds
<1> SUFFICES ASSUME IInv PROVE InBounds
  OBVIOUS
<1>1. N \in Nat /\ Round \in Nat /\ Round = 3 * N + 4
  BY Sized DEF IInv, Round
<1>2. StarColumns \in SUBSET Lines /\ row_cov \in SUBSET Lines
  BY CellParts DEF IInv, TypeOK, StarColumns
<1>3. ColumnsLeft \in 0..N /\ RowsLeft \in 0..N
  <2>1. Cardinality(StarColumns) \in 0..N /\ Cardinality(row_cov) \in 0..N
    BY <1>2, LineSets DEF IInv
  <2> QED BY <1>1, <2>1 DEF ColumnsLeft, RowsLeft
<1>4. NoZero \in 0..1
  BY DEF NoZero
<1>5. step = "augment" => Turns \in 1..N
  BY TurnsFit
<1>6. RoundLeft \in 0..(Round - 1)
  BY <1>1, <1>3, <1>4, <1>5 DEF RoundLeft
<1> QED BY <1>1, <1>3, <1>4, <1>5, <1>6 DEF InBounds

LEMMA BoundsNext ==
  ASSUME IInv', N' = N
  PROVE  /\ Round' = Round
         /\ ColumnsLeft' \in 0..N /\ RowsLeft' \in 0..N /\ NoZero' \in 0..1
         /\ RoundLeft' \in 0..(Round - 1)
         /\ step' = "augment" => Turns' \in 1..N
<1>1. IInv' => InBounds'
  BY Bounds, PTL
<1>2. Round' = Round
  BY DEF Round
<1>3. InBounds'
  BY <1>1
<1>4. /\ ColumnsLeft' \in 0..N' /\ RowsLeft' \in 0..N' /\ NoZero' \in 0..1
      /\ RoundLeft' \in 0..(Round' - 1)
      /\ step' = "augment" => Turns' \in 1..N'
  BY <1>3 DEF InBounds
<1>5. 0..N' = 0..N /\ 1..N' = 1..N /\ 0..(Round' - 1) = 0..(Round - 1)
  BY <1>2
<1> QED BY <1>2, <1>4, <1>5

(* The column counts for more than what is left of a round. *)
LEMMA Fewer ==
  ASSUME NEW a \in Nat, NEW b \in Nat, NEW q \in Nat, NEW v \in Nat, NEW w \in Nat, w < q,
         a < b \/ (a = b /\ w < v)
  PROVE  a * q + w \in Nat /\ a * q + w < b * q + v
<1>1. CASE a = b /\ w < v
  <2>1. a * q \in Nat
    OBVIOUS
  <2> QED BY <1>1, <2>1
<1>2. CASE a < b
  <2>1. PICK d \in Nat : b = a + 1 + d
    <3>1. b - (a + 1) \in Nat /\ b = a + 1 + (b - (a + 1))
      BY <1>2
    <3> QED BY <3>1
  <2>2. b * q = a * q + q + d * q /\ a * q \in Nat /\ d * q \in Nat /\ b * q \in Nat
    BY <2>1
  <2> QED BY <2>2
<1> QED BY <1>1, <1>2

LEMMA SearchShrinks ==
  \A n, r, s, z, old, new :
    /\ n \in Nat /\ r \in Nat /\ s \in Nat /\ z \in 0..1 /\ s < r
    /\ old = n + 1 + 2 * r /\ new = n + 1 + 2 * s + z
    => new < old
  OBVIOUS

LEMMA PathShrinks ==
  \A n, r, t, old, new :
    /\ n \in Nat /\ r \in Nat /\ t \in Nat
    /\ old = n + 1 + 2 * r /\ new = n - t
    => new < old
  OBVIOUS

LEMMA LaterInRound ==
  ASSUME IInv, IInv', N' = N, step \notin {"reduce", "star"}, step' \notin {"reduce", "star"},
         \/ ColumnsLeft' < ColumnsLeft
         \/ ColumnsLeft' = ColumnsLeft /\ RoundLeft' < RoundLeft
  PROVE  PassesLeft' < PassesLeft
<1>1. /\ N \in Nat /\ Round \in Nat /\ ColumnsLeft \in 0..N /\ RoundLeft \in 0..(Round - 1)
  BY Bounds DEF InBounds
<1>2. /\ ColumnsLeft' \in 0..N /\ RoundLeft' \in 0..(Round - 1) /\ Round' = Round
  BY BoundsNext
<1>3. ColumnsLeft' * Round + RoundLeft' < ColumnsLeft * Round + RoundLeft
  <2>1. /\ ColumnsLeft' \in Nat /\ ColumnsLeft \in Nat /\ Round \in Nat
        /\ RoundLeft' \in Nat /\ RoundLeft \in Nat /\ RoundLeft' < Round
    BY <1>1, <1>2
  <2> QED BY <2>1, Fewer, Zenon
<1>4. PassesLeft = ColumnsLeft * Round + RoundLeft
  BY DEF PassesLeft
<1>5. PassesLeft' = ColumnsLeft' * Round' + RoundLeft'
  BY DEF PassesLeft
<1> QED BY <1>2, <1>3, <1>4, <1>5

(* munkres_solve() is quadratic in its passes: what is left of them is a number
   that every pass makes smaller.  With the theorem above, it returns. *)
THEOREM EveryPassCounts == Spec => [](PassesLeft \in Nat) /\ [][PassesLeft' < PassesLeft]_vars
<1>1. IInv => PassesLeft \in Nat
  <2> SUFFICES ASSUME IInv PROVE PassesLeft \in Nat
    OBVIOUS
  <2>1. /\ N \in Nat /\ Round \in Nat /\ ColumnsLeft \in 0..N /\ RoundLeft \in 0..(Round - 1)
        /\ row \in 1..(N + 1)
    BY Bounds DEF IInv, TypeOK, InBounds
  <2>2. ColumnsLeft * Round \in Nat /\ (N + 1) * Round \in Nat
    BY <2>1
  <2> QED BY <2>1, <2>2 DEF PassesLeft
<1>2. ASSUME IInv, IInv', Next PROVE PassesLeft' < PassesLeft
  <2>0. cost' = cost /\ N' = N /\ Lines' = Lines
    <3>1. cost' = cost
      BY <1>2 DEF Next, Reduce, StarRow, CoverStarColumns, Adjust, PrimeZero, CoverRow,
                  BeginPath, ExtendPath, Flip
    <3> QED BY <3>1, Stable
  <2>1. N \in Nat /\ Round \in Nat /\ Round' = Round /\ row \in 1..(N + 1) /\ (N + 1) * Round \in Nat
    <3>1. N \in Nat /\ Round \in Nat /\ row \in 1..(N + 1)
      BY <1>2, Bounds DEF IInv, TypeOK, InBounds
    <3> QED BY <2>0, <3>1 DEF Round
  <2>2. CASE Reduce
    <3>1. step = "reduce" /\ step' = "star" /\ row' = row
      BY <2>2 DEF Reduce
    <3> HIDE DEF Round
    <3> QED BY <2>0, <2>1, <3>1 DEF PassesLeft
  <2>3. CASE StarRow
    <3>1. step = "star" /\ row' = row + 1 /\ step' = IF row = N THEN "cover" ELSE "star"
      BY <2>3 DEF StarRow
    <3>2. CASE step' = "star"
      BY <2>0, <2>1, <3>1, <3>2 DEF PassesLeft
    <3>3. CASE step' = "cover"
      <4>1. ColumnsLeft' \in 0..N /\ RoundLeft' \in 0..(Round - 1)
        BY <1>2, <2>0, BoundsNext
      <4>2. ColumnsLeft' * Round + RoundLeft' < (N + 1) * Round + 1
        <5>1. /\ ColumnsLeft' \in Nat /\ N + 1 \in Nat /\ Round \in Nat /\ 1 \in Nat
              /\ RoundLeft' \in Nat /\ RoundLeft' < Round /\ ColumnsLeft' < N + 1
          BY <2>1, <4>1
        <5> QED BY <5>1, Fewer, Zenon
      <4>3. row = N
        BY <3>1, <3>3
      <4>4. PassesLeft = (N + 1) * Round + (N + 1 - N)
        BY <3>1, <4>3 DEF PassesLeft
      <4>5. PassesLeft' = ColumnsLeft' * Round + RoundLeft'
        BY <2>1, <3>3 DEF PassesLeft
      <4> QED BY <2>1, <4>2, <4>4, <4>5
    <3> QED BY <3>1, <3>2, <3>3
  <2>4. CASE CoverStarColumns
    <3>1. step = "cover" /\ star' = star /\ step' \in {"search", "done"}
      BY <2>4 DEF CoverStarColumns, marks
    <3>2. ColumnsLeft' = ColumnsLeft
      BY <2>0, <3>1 DEF ColumnsLeft, StarColumns
    <3>3. RowsLeft' \in 0..N /\ NoZero' \in 0..1
      BY <1>2, <2>0, BoundsNext
    <3>4. RoundLeft' < RoundLeft
      BY <2>0, <2>1, <3>1, <3>3 DEF RoundLeft, Round
    <3> QED BY <1>2, <2>0, <3>1, <3>2, <3>4, LaterInRound
  <2>5. CASE Adjust
    <3>1. /\ Uncovered \cap Zeros = {} /\ (Uncovered \cap Zeros)' # {}
          /\ UNCHANGED <<star, row_cov>> /\ step = "search" /\ step' = "search"
      BY <1>2, <2>5, AdjustMakesZero
    <3>2. ColumnsLeft' = ColumnsLeft /\ RowsLeft' = RowsLeft
      BY <2>0, <3>1 DEF ColumnsLeft, StarColumns, RowsLeft
    <3>3. NoZero = 1 /\ NoZero' = 0
      BY <3>1 DEF NoZero
    <3>4. RowsLeft \in 0..N
      BY <1>2, Bounds DEF InBounds
    <3>5. RoundLeft' < RoundLeft
      BY <2>0, <2>1, <3>1, <3>2, <3>3, <3>4 DEF RoundLeft
    <3> QED BY <1>2, <2>0, <3>1, <3>2, <3>5, LaterInRound
  <2>6. CASE PrimeZero
    <3>1. PICK p : p \in Uncovered \cap Zeros /\ (CoverRow(p) \/ BeginPath(p))
      BY <2>6 DEF PrimeZero
    <3>2. step = "search" /\ star' = star /\ NoZero = 0
      BY <2>6, <3>1 DEF PrimeZero, CoverRow, BeginPath, NoZero
    <3>3. ColumnsLeft' = ColumnsLeft
      BY <2>0, <3>2 DEF ColumnsLeft, StarColumns
    <3>4. RowsLeft \in 0..N
      BY <1>2, Bounds DEF InBounds
    <3>5. CASE CoverRow(p)
      <4>1. step' = "search" /\ row_cov' = row_cov \cup {p[1]} /\ p[1] \notin row_cov
        BY <3>1, <3>2, <3>5 DEF CoverRow, Uncovered
      <4>2. row_cov \in SUBSET Lines /\ row_cov' \in SUBSET Lines
        BY <1>2, <2>0 DEF IInv, TypeOK
      <4>3. Cardinality(row_cov) < Cardinality(row_cov')
        BY <1>2, <4>1, <4>2, LineSets DEF IInv
      <4>4. Cardinality(row_cov) \in 0..N /\ Cardinality(row_cov') \in 0..N
        BY <1>2, <4>2, LineSets DEF IInv
      <4>5. RowsLeft' < RowsLeft /\ RowsLeft' \in 0..N
        BY <2>0, <2>1, <4>3, <4>4 DEF RowsLeft
      <4>6. NoZero' \in 0..1
        BY <1>2, <2>0, BoundsNext
      <4>7. RoundLeft' = N' + 1 + 2 * RowsLeft' + NoZero' /\ RoundLeft = N + 1 + 2 * RowsLeft + NoZero
        BY <3>2, <4>1 DEF RoundLeft
      <4>8. RoundLeft' < RoundLeft
        <5>1. RoundLeft' = N + 1 + 2 * RowsLeft' + NoZero' /\ RoundLeft = N + 1 + 2 * RowsLeft
          BY <2>0, <2>1, <3>2, <3>4, <4>7
        <5>2. RowsLeft' \in Nat /\ RowsLeft \in Nat /\ N \in Nat
          BY <2>1, <3>4, <4>5
        <5> QED BY <4>5, <4>6, <5>1, <5>2, SearchShrinks, Zenon
      <4> QED BY <1>2, <2>0, <3>2, <3>3, <4>1, <4>8, LaterInRound
    <3>6. CASE BeginPath(p)
      <4>1. step' = "augment"
        BY <3>6 DEF BeginPath
      <4>2. Turns' \in 1..N
        BY <1>2, <2>0, <4>1, BoundsNext
      <4>3. RoundLeft' = N' - Turns' /\ RoundLeft = N + 1 + 2 * RowsLeft + NoZero
        BY <3>2, <4>1 DEF RoundLeft
      <4>4. RoundLeft' < RoundLeft
        <5>1. RoundLeft' = N - Turns' /\ RoundLeft = N + 1 + 2 * RowsLeft
          BY <2>0, <2>1, <3>2, <3>4, <4>3
        <5>2. RowsLeft \in Nat /\ N \in Nat /\ Turns' \in Nat
          BY <2>1, <3>4, <4>2
        <5> QED BY <5>1, <5>2, PathShrinks, Zenon
      <4> QED BY <1>2, <2>0, <3>2, <3>3, <4>1, <4>4, LaterInRound
    <3> QED BY <3>1, <3>5, <3>6
  <2>7. CASE ExtendPath
    <3>1. step = "augment" /\ step' = "augment" /\ star' = star
      BY <2>7 DEF ExtendPath, marks
    <3>2. ColumnsLeft' = ColumnsLeft
      BY <2>0, <3>1 DEF ColumnsLeft, StarColumns
    <3>3. Turns' = Turns + 1
      <4>1. PICK s \in StarsAtTip, p \in prime : path' = path \o <<s, p>>
        BY <2>7 DEF ExtendPath
      <4>2. path \in Seq(Cells) /\ s \in Cells /\ p \in Cells
        BY <1>2 DEF IInv, TypeOK, StarsAtTip
      <4>3. Len(path) \in Nat /\ Len(path') = Len(path) + 2
        BY <4>1, <4>2
      <4> QED BY <4>3 DEF Turns
    <3>4. Turns \in 1..N /\ Turns' \in 1..N
      <4>1. Turns \in 1..N
        BY <1>2, <3>1, Bounds DEF InBounds
      <4>2. Turns' \in 1..N
        BY <1>2, <2>0, <3>1, BoundsNext
      <4> QED BY <4>1, <4>2
    <3>5. RoundLeft' < RoundLeft
      BY <2>0, <2>1, <3>1, <3>3, <3>4 DEF RoundLeft
    <3> QED BY <1>2, <2>0, <3>1, <3>2, <3>5, LaterInRound
  <2>8. CASE Flip
    <3>1. step = "augment" /\ step' = "cover"
      BY <2>8 DEF Flip
    <3>2. StarColumns \subseteq StarColumns' /\ StarColumns # StarColumns'
      BY <1>2, <2>8, FlipStarsAColumn
    <3>3. StarColumns \in SUBSET Lines /\ StarColumns' \in SUBSET Lines
      <4>1. star \subseteq Cells /\ star' \subseteq Cells /\ Cells' = Cells
        BY <1>2, <2>0, Stable DEF IInv, TypeOK
      <4> QED BY <4>1, CellParts DEF StarColumns
    <3>4. /\ Cardinality(StarColumns) < Cardinality(StarColumns')
          /\ Cardinality(StarColumns) \in 0..N /\ Cardinality(StarColumns') \in 0..N
      BY <1>2, <3>2, <3>3, LineSets DEF IInv
    <3>5. ColumnsLeft' < ColumnsLeft
      BY <2>0, <2>1, <3>4 DEF ColumnsLeft
    <3> QED BY <1>2, <2>0, <3>1, <3>5, LaterInRound
  <2> QED BY <1>2, <2>2, <2>3, <2>4, <2>5, <2>6, <2>7, <2>8 DEF Next
<1> QED BY <1>1, <1>2, Inductive, PTL DEF Spec
=============================================================================
