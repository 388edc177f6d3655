------------------------------- MODULE Munkres -------------------------------
(***************************************************************************)
(* The assignment solver, core/src/common/munkres.cpp: stars mark the      *)
(* assignment so far, primes the zeros it could turn to, covers the lines  *)
(* already accounted for.  One step is one pass of a loop.  Costs are      *)
(* integers, so a zero is a zero; the code takes less than 1e-9 for one.   *)
(***************************************************************************)
EXTENDS Integers, Sequences, FiniteSets, FiniteSetsExt

CONSTANTS
  MaxSize,             \* bound: rows and columns of a cost matrix
  Costs,               \* what a pair may cost
  Forbidden            \* kForbidden of match_by_iou(): the cost of a pair outside the gate

ASSUME MunkresAssumption ==
  /\ MaxSize \in Nat \ {0}
  /\ Costs \subseteq Nat
  /\ Forbidden \in Costs
  /\ \A w \in Costs \ {Forbidden} : MaxSize * w < Forbidden

VARIABLES
  cost,                \* the caller's matrix, a sequence of rows
  c,                   \* c_, padded to a square
  star, prime,         \* the cells starred and primed
  row_cov, col_cov,    \* the lines covered
  row,                 \* the row star_initial() is at
  path,                \* the path augment() has found so far
  step                 \* where solve() is

marks == <<star, prime>>
covers == <<row_cov, col_cov>>
vars == <<cost, c, marks, covers, row, path, step>>

rows == Len(cost)
cols == Len(cost[1])
N == IF rows > cols THEN rows ELSE cols
Lines == 1..N
Cells == Lines \X Lines
Real == (1..rows) \X (1..cols)

Padded == [p \in Cells |-> IF p \in Real THEN cost[p[1]][p[2]] ELSE 0]

-----------------------------------------------------------------------------
Init ==
  /\ \E r, k \in 1..MaxSize : cost \in [1..r -> [1..k -> Costs]]
  /\ c = Padded
  /\ star = {} /\ prime = {}
  /\ row_cov = {} /\ col_cov = {}
  /\ row = 1
  /\ path = <<>>
  /\ step = "reduce"

(* reduce(): the least value of every row goes, then that of every column. *)
Reduce ==
  /\ step = "reduce"
  /\ LET m == [p \in Cells |-> c[p] - Min({c[<<p[1], j>>] : j \in Lines})]
     IN  c' = [p \in Cells |-> m[p] - Min({m[<<i, p[2]>>] : i \in Lines})]
  /\ step' = "star"
  /\ UNCHANGED <<cost, marks, covers, row, path>>

Zeros == {p \in Cells : c[p] = 0}

(* p comes first in S, row by row. *)
IsFirst(p, S) ==
  /\ p \in S
  /\ \A q \in S : p[1] < q[1] \/ (p[1] = q[1] /\ p[2] <= q[2])

(* star_initial(), one row: its first zero in a column without a star. *)
StarRow ==
  /\ step = "star"
  /\ LET free == {p \in Zeros : p[1] = row /\ \A s \in star : s[2] # p[2]}
     IN  star' = star \cup {p \in free : IsFirst(p, free)}
  /\ row' = row + 1
  /\ step' = IF row = N THEN "cover" ELSE "star"
  /\ UNCHANGED <<cost, c, prime, covers, path>>

CoverStarColumns ==
  /\ step = "cover"
  /\ col_cov' = {s[2] : s \in star}
  /\ step' = IF col_cov' = Lines THEN "done" ELSE "search"
  /\ UNCHANGED <<cost, c, marks, row_cov, row, path>>

-----------------------------------------------------------------------------
Uncovered == {p \in Cells : p[1] \notin row_cov /\ p[2] \notin col_cov}

(* Mutants of Adjust: any uncovered value will do; only the uncovered cells
   change. *)
AdjustByAny ==
  /\ step = "search"
  /\ Uncovered \cap Zeros = {}
  /\ \E e \in Uncovered :
       c' = [p \in Cells |-> c[p] + (IF p[1] \in row_cov THEN c[e] ELSE 0)
                                  - (IF p[2] \notin col_cov THEN c[e] ELSE 0)]
  /\ UNCHANGED <<cost, marks, covers, row, path, step>>

AdjustUncoveredOnly ==
  /\ step = "search"
  /\ Uncovered \cap Zeros = {}
  /\ \E e \in Uncovered :
       /\ \A p \in Uncovered : c[e] <= c[p]
       /\ c' = [p \in Cells |-> c[p] - (IF p \in Uncovered THEN c[e] ELSE 0)]
  /\ UNCHANGED <<cost, marks, covers, row, path, step>>

(* adjust(): the least uncovered value goes to the covered rows, from the
   uncovered columns. *)
Adjust ==
  /\ step = "search"
  /\ Uncovered \cap Zeros = {}
  /\ \E e \in Uncovered :
       /\ \A p \in Uncovered : c[e] <= c[p]
       /\ c' = [p \in Cells |-> c[p] + (IF p[1] \in row_cov THEN c[e] ELSE 0)
                                     - (IF p[2] \notin col_cov THEN c[e] ELSE 0)]
  /\ UNCHANGED <<cost, marks, covers, row, path, step>>

(* Mutant of CoverRow: the row stays uncovered. *)
CoverRowLater(p) ==
  /\ prime' = prime \cup {p}
  /\ \E s \in star :
       /\ s[1] = p[1]
       /\ col_cov' = col_cov \ {s[2]}
  /\ UNCHANGED <<cost, c, star, row_cov, row, path, step>>

(* An uncovered zero in the row of a star: the row is covered in place of the
   star's column. *)
CoverRow(p) ==
  /\ prime' = prime \cup {p}
  /\ \E s \in star :
       /\ s[1] = p[1]
       /\ row_cov' = row_cov \cup {p[1]}
       /\ col_cov' = col_cov \ {s[2]}
  /\ UNCHANGED <<cost, c, star, row, path, step>>

(* In a row without one, it begins a path. *)
BeginPath(p) ==
  /\ \A s \in star : s[1] # p[1]
  /\ prime' = prime \cup {p}
  /\ path' = <<p>>
  /\ step' = "augment"
  /\ UNCHANGED <<cost, c, star, covers, row>>

PrimeZero ==
  /\ step = "search"
  /\ \E p \in Uncovered \cap Zeros :
       /\ IsFirst(p, Uncovered \cap Zeros)
       /\ CoverRow(p) \/ BeginPath(p)

Tip == path[Len(path)]

StarsAtTip == {s \in star : s[2] = Tip[2]}

(* augment(): from a prime to the star in its column, to the prime in that
   star's row. *)
ExtendPath ==
  /\ step = "augment"
  /\ \E s \in StarsAtTip :
     \E p \in prime :
       /\ IsFirst(p, {q \in prime : q[1] = s[1]})
       /\ path' = path \o <<s, p>>
  /\ UNCHANGED <<cost, c, marks, covers, row, step>>

OnPath(parity) == {path[i] : i \in {j \in DOMAIN path : j % 2 = parity}}

(* Mutant of Flip: the primes stay. *)
FlipKeepsPrimes ==
  /\ step = "augment"
  /\ StarsAtTip = {}
  /\ star' = (star \ OnPath(0)) \cup OnPath(1)
  /\ row_cov' = {} /\ col_cov' = {}
  /\ path' = <<>>
  /\ step' = "cover"
  /\ UNCHANGED <<cost, c, prime, row>>

(* The end of the path: its stars go, its primes become stars, and the covers
   and primes are cleared. *)
Flip ==
  /\ step = "augment"
  /\ StarsAtTip = {}
  /\ star' = (star \ OnPath(0)) \cup OnPath(1)
  /\ prime' = {}
  /\ row_cov' = {} /\ col_cov' = {}
  /\ path' = <<>>
  /\ step' = "cover"
  /\ UNCHANGED <<cost, c, row>>

Next ==
  \/ Reduce \/ StarRow \/ CoverStarColumns
  \/ Adjust \/ PrimeZero \/ ExtendPath \/ Flip

(* The solver is a function: it runs until it returns. *)
Spec == Init /\ [][Next]_vars /\ WF_vars(Next)

-----------------------------------------------------------------------------
TypeOK ==
  /\ c \in [Cells -> Nat]
  /\ star \subseteq Cells /\ prime \subseteq Cells
  /\ row_cov \subseteq Lines /\ col_cov \subseteq Lines
  /\ row \in 1..(N + 1)
  /\ path \in Seq(Cells)
  /\ step \in {"reduce", "star", "cover", "search", "augment", "done"}

(* The stars are a matching, and the matrix proves it a cheapest one of its
   size: nothing in it is below zero, the stars lie on zeros, and it is the
   padded costs but for what whole rows and columns were shifted by, which
   shows when every cell is compared with those of its lines in line 1. *)
Certificate ==
  /\ \A p \in Cells : c[p] >= 0
  /\ \A s, t \in star : s[1] = t[1] \/ s[2] = t[2] => s = t
  /\ \A s \in star : c[s] = 0
  /\ \A p \in Cells : c[p] - c[<<p[1], 1>>] - c[<<1, p[2]>>] + c[<<1, 1>>]
       = Padded[p] - Padded[<<p[1], 1>>] - Padded[<<1, p[2]>>] + Padded[<<1, 1>>]

(* adjust() finds an uncovered value to take. *)
SearchGoesOn == step = "search" => Uncovered # {}

(* The row of every star the path meets holds a prime, so that prime_in_row()
   is never -1, and the path meets no row twice. *)
PathGoesOn ==
  step = "augment" =>
    /\ \A s \in StarsAtTip : \E p \in prime : p[1] = s[1]
    /\ \A i, j \in DOMAIN path :
         path[i][1] = path[j][1] => i = j \/ (i % 2 = 0 /\ j = i + 1)
                                          \/ (j % 2 = 0 /\ i = j + 1)

(* Neither of the solver's two searches comes to a halt. *)
NeverStuck == SearchGoesOn /\ PathGoesOn

-----------------------------------------------------------------------------
(* What munkres_solve() returns. *)
Assignment == star \cap Real

(* A cell of an assignment costs what the caller said it does. *)
CostOf(M) == MapThenSumSet(LAMBDA p : Padded[p], M)

Permutations == {f \in [Lines -> Lines] : \A i, j \in Lines : f[i] = f[j] => i = j}

(* Every assignment that leaves as few rows and columns alone as it can. *)
Assignments == {{<<i, f[i]>> : i \in Lines} \cap Real : f \in Permutations}

(* The result is an assignment, and none is cheaper. *)
Cheapest ==
  step = "done" =>
    /\ Assignment \in Assignments
    /\ \A M \in Assignments : CostOf(Assignment) <= CostOf(M)

Admitted(M) == {p \in M : cost[p[1]][p[2]] # Forbidden}

(* What match_by_iou() makes of it, without the forbidden pairs: as many pairs
   within the gate as there can be. *)
GateLosesNone ==
  step = "done" =>
    \A M \in Assignments : Cardinality(Admitted(M)) <= Cardinality(Admitted(Assignment))

(* The solver returns. *)
Returns == <>(step = "done")
=============================================================================
