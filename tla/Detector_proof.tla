--------------------------- MODULE Detector_proof ---------------------------
(***************************************************************************)
(* Theorems about the detector, for every network, every answer of it and  *)
(* every mix of frames no wider than the class offset.                     *)
(***************************************************************************)
EXTENDS Detector, TLAPS

(* Past the inference there is an answer, before nms() there are no marks. *)
Answered == pc \in {"scan", "nms", "done"} => out \in Answers

Unmarked == pc \in {"idle", "infer", "scan"} => keep = {} /\ suppressed = {} /\ pos = 1

(* The canvas agrees with the fit remembered for it. *)
CanvasFits ==
  pc # "idle" =>
    /\ fitted = Fitted(frame) /\ frame \in Sizes
    /\ \A c \in Cells : canvas[c] = IF c \in Interior(Fitted(frame)) THEN "now" ELSE "grey"

FirstFit == pc = "idle" => fitted = [w |-> -1, h |-> -1]

(* Where nms() stands: what it has passed is kept or suppressed, never both;
   what was kept has suppressed all it overlaps; what was suppressed was so by
   something kept that is at least as good. *)
Marked ==
  pc \in {"nms", "done"} =>
    /\ order \in Sorted(Candidates)
    /\ pos \in 1..(Len(order) + 1)
    /\ pc = "done" => pos = Len(order) + 1
    /\ keep \subseteq Candidates
    /\ suppressed \subseteq Candidates
    /\ keep \cap suppressed = {}
    /\ \A k \in 1..(pos - 1) : order[k] \in keep \cup suppressed
    /\ \A i \in keep, b \in Candidates :
         b # i /\ Overlap(Shifted(i), Shifted(b)) => b \in suppressed
    /\ \A b \in suppressed :
         \E i \in keep : /\ Overlap(Shifted(i), Shifted(b))
                         /\ best[i].score >= best[b].score

IInv ==
  /\ TypeOK
  /\ Answered
  /\ Unmarked
  /\ CanvasFits
  /\ FirstFit
  /\ BestClassWins
  /\ Marked

-----------------------------------------------------------------------------
(* What the boxes are made of. *)

LEMMA FitIsNat ==
  ASSUME NEW f \in Sizes
  PROVE  Fitted(f) \in [w : Nat, h : Nat]
<1>1. f.w \in Nat \ {0} /\ f.h \in Nat \ {0} /\ InputSize \in Nat
  BY DetectorAssumption
<1>2. ASSUME NEW side \in Nat PROVE Fit(side, f) \in Nat
  <2>1. Larger(f.w, f.h) \in Nat \ {0}
    BY <1>1 DEF Larger
  <2>2. 2 * side * InputSize \in Nat
    BY <1>1
  <2> DEFINE m == Larger(f.w, f.h)
             n == 2 * side * InputSize
  <2>3. m \in Nat \ {0} /\ n \in Nat
    BY <2>1, <2>2
  <2>4. Fit(side, f) = (n + m) \div (2 * m)
    BY DEF Fit
  <2> HIDE DEF m, n
  <2>5. (n + m) \div (2 * m) \in Nat
    BY <2>3
  <2> QED BY <2>4, <2>5
<1> QED BY <1>1, <1>2 DEF Fitted

LEMMA OverlapSymmetric ==
  ASSUME NEW p \in [lo : Int, hi : Int], NEW q \in [lo : Int, hi : Int], Overlap(p, q)
  PROVE  Overlap(q, p)
<1> DEFINE inter == Smaller(p.hi, q.hi) - Larger(p.lo, q.lo)
           back  == Smaller(q.hi, p.hi) - Larger(q.lo, p.lo)
<1>1. inter = back
  BY DEF Smaller, Larger
<1>2. (p.hi - p.lo) + (q.hi - q.lo) - inter = (q.hi - q.lo) + (p.hi - p.lo) - back
  BY <1>1 DEF Smaller, Larger
<1> QED BY <1>1, <1>2 DEF Overlap

(* Boxes moved by the same distance overlap as before. *)
LEMMA OverlapMoves ==
  ASSUME NEW p \in [lo : Int, hi : Int], NEW q \in [lo : Int, hi : Int], NEW s \in Int
  PROVE  Overlap([lo |-> p.lo + s, hi |-> p.hi + s], [lo |-> q.lo + s, hi |-> q.hi + s])
           <=> Overlap(p, q)
<1> DEFINE ps == [lo |-> p.lo + s, hi |-> p.hi + s]
           qs == [lo |-> q.lo + s, hi |-> q.hi + s]
           inter == Smaller(p.hi, q.hi) - Larger(p.lo, q.lo)
           moved == Smaller(ps.hi, qs.hi) - Larger(ps.lo, qs.lo)
           area  == (p.hi - p.lo) + (q.hi - q.lo) - inter
           areas == (ps.hi - ps.lo) + (qs.hi - qs.lo) - moved
<1>1. inter = moved
  BY DEF Smaller, Larger
<1>2. area = areas
  BY <1>1 DEF Smaller, Larger
<1>3. Overlap(p, q) <=> inter > 0 /\ 100 * inter > NmsIou * area
  BY DEF Overlap
<1>4. Overlap(ps, qs) <=> moved > 0 /\ 100 * moved > NmsIou * areas
  BY DEF Overlap
<1> HIDE DEF inter, moved, area, areas
<1> QED BY <1>1, <1>2, <1>3, <1>4

LEMMA ClassesApart ==
  ASSUME NEW c \in Nat, NEW d \in Nat, c < d
  PROVE  c * Offset + Offset <= d * Offset
<1>1. Offset \in Nat
  BY DetectorAssumption
<1>2. PICK e \in Nat : d = c + 1 + e
  BY d - c - 1 \in Nat
<1>3. e * Offset \in Nat
  BY <1>1
<1>4. (c + 1 + e) * Offset = c * Offset + Offset + e * Offset
  BY <1>1
<1>5. c * Offset \in Nat
  BY <1>1
<1> QED BY <1>1, <1>2, <1>3, <1>4, <1>5

LEMMA BoxTypes ==
  ASSUME TypeOK, out \in Answers, frame \in Sizes, NEW a \in Anchor
  PROVE  /\ out[a] \in [box : Boxes, score : Rows]
         /\ Clipped(a) \in [lo : Int, hi : Int]
         /\ 0 <= Clipped(a).lo /\ Clipped(a).hi <= frame.w /\ frame.w <= Offset
<1>1. out[a] \in [box : Boxes, score : Rows]
  BY DEF Answers
<1>2. out[a].box \in [lo : Int, hi : Int]
  BY <1>1, DetectorAssumption
<1>3. frame.w \in Nat /\ frame.w <= Offset
  BY DetectorAssumption
<1> QED BY <1>1, <1>2, <1>3 DEF Clipped, Larger, Smaller

LEMMA CandidateTypes ==
  ASSUME TypeOK, out \in Answers, frame \in Sizes, NEW a \in Candidates
  PROVE  /\ a \in Anchor
         /\ best[a].class \in Nat /\ best[a].score \in Int
         /\ Shifted(a) \in [lo : Int, hi : Int]
         /\ Clipped(a) \in [lo : Int, hi : Int]
         /\ 0 <= Clipped(a).lo /\ Clipped(a).hi <= Offset
<1>1. a \in Anchor /\ best[a].class # NoClass
  BY DEF Candidates
<1>2. best[a] \in [score : Int, class : Class \cup {NoClass}]
  BY <1>1 DEF TypeOK
<1>3. best[a].class \in Nat
  BY <1>1, <1>2, DetectorAssumption DEF Class
<1>4. /\ Clipped(a) \in [lo : Int, hi : Int]
      /\ 0 <= Clipped(a).lo /\ Clipped(a).hi <= frame.w /\ frame.w <= Offset
  BY <1>1, BoxTypes
<1>5. frame.w \in Nat /\ Offset \in Nat
  BY DetectorAssumption
<1>6. best[a].class * Offset \in Int
  BY <1>3, <1>5
<1>7. Shifted(a) \in [lo : Int, hi : Int]
  BY <1>4, <1>6 DEF Shifted
<1>8. Clipped(a).hi <= Offset
  BY <1>4, <1>5
<1> QED BY <1>1, <1>2, <1>3, <1>4, <1>7, <1>8

(* What nms() takes for overlapping, overlaps in the frame and is of one
   class; and the other way round. *)
LEMMA ShiftTellsClasses ==
  ASSUME TypeOK, out \in Answers, frame \in Sizes,
         NEW a \in Candidates, NEW b \in Candidates
  PROVE  Overlap(Shifted(a), Shifted(b)) <=>
           best[a].class = best[b].class /\ Overlap(Clipped(a), Clipped(b))
<1> DEFINE s == best[a].class * Offset
           t == best[b].class * Offset
<1>1. /\ best[a].class \in Nat /\ best[b].class \in Nat
      /\ Clipped(a) \in [lo : Int, hi : Int] /\ Clipped(b) \in [lo : Int, hi : Int]
      /\ 0 <= Clipped(a).lo /\ Clipped(a).hi <= Offset
      /\ 0 <= Clipped(b).lo /\ Clipped(b).hi <= Offset
  BY CandidateTypes
<1>2. s \in Int /\ t \in Int /\ Offset \in Nat
  BY <1>1, DetectorAssumption
<1>3. /\ Shifted(a) = [lo |-> Clipped(a).lo + s, hi |-> Clipped(a).hi + s]
      /\ Shifted(b) = [lo |-> Clipped(b).lo + t, hi |-> Clipped(b).hi + t]
  BY DEF Shifted
<1>4. CASE best[a].class = best[b].class
  <2>1. s = t
    BY <1>4
  <2> HIDE DEF s, t
  <2> QED BY <1>1, <1>2, <1>3, <1>4, <2>1, OverlapMoves
<1>5. CASE best[a].class # best[b].class
  <2>1. s + Offset <= t \/ t + Offset <= s
    <3>1. CASE best[a].class < best[b].class
      BY <1>1, <3>1, ClassesApart
    <3>2. CASE best[b].class < best[a].class
      BY <1>1, <3>2, ClassesApart
    <3> QED BY <1>1, <1>5, <3>1, <3>2
  <2> HIDE DEF s, t
  <2>2. Smaller(Shifted(a).hi, Shifted(b).hi) - Larger(Shifted(a).lo, Shifted(b).lo) <= 0
    BY <1>1, <1>2, <1>3, <2>1 DEF Smaller, Larger
  <2>3. /\ Smaller(Shifted(a).hi, Shifted(b).hi) \in Int
        /\ Larger(Shifted(a).lo, Shifted(b).lo) \in Int
    BY <1>1, <1>2, <1>3 DEF Smaller, Larger
  <2>4. ~Overlap(Shifted(a), Shifted(b))
    BY <2>2, <2>3 DEF Overlap
  <2> QED BY <1>5, <2>4
<1> QED BY <1>4, <1>5

-----------------------------------------------------------------------------
(* The invariant. *)

LEMMA InitHolds == Init => IInv
<1> SUFFICES ASSUME Init PROVE IInv
  OBVIOUS
<1>1. TypeOK
  BY DetectorAssumption DEF Init, TypeOK, Unscored, NoAnswer, Class, NoClass
<1> QED BY <1>1 DEF Init, IInv, Answered, Unmarked, CanvasFits, FirstFit,
                    BestClassWins, Marked

LEMMA PreprocessHolds ==
  ASSUME IInv, NEW f \in Sizes, Preprocess(f)
  PROVE  IInv'
<1> USE DEF IInv
<1>1. Fitted(f) \in [w : Nat, h : Nat]
  BY FitIsNat
<1>2. TypeOK'
  BY <1>1 DEF Preprocess, TypeOK, Aged
<1>3. CanvasFits'
  <2>1. Fitted(f)' = Fitted(f) /\ Interior(Fitted(f))' = Interior(Fitted(f)) /\ Cells' = Cells
    OBVIOUS
  <2>2. frame' = f /\ fitted' = Fitted(f)
    BY DEF Preprocess
  <2>3. ASSUME NEW c \in Cells
        PROVE  canvas'[c] = IF c \in Interior(Fitted(f)) THEN "now" ELSE "grey"
    <3>1. CASE c \in Interior(Fitted(f))
      BY <3>1 DEF Preprocess
    <3>2. CASE c \notin Interior(Fitted(f)) /\ Refitted(Fitted(f))
      BY <3>2 DEF Preprocess
    <3>3. CASE c \notin Interior(Fitted(f)) /\ ~Refitted(Fitted(f))
      <4>1. pc # "idle"
        BY <1>1, <3>3 DEF FirstFit, Refitted
      <4>2. Fitted(frame) = Fitted(f)
        BY <3>3, <4>1 DEF CanvasFits, Refitted
      <4>3. canvas[c] = "grey"
        BY <3>3, <4>1, <4>2 DEF CanvasFits
      <4> QED BY <3>3, <4>3 DEF Preprocess, Aged
    <3> QED BY <3>1, <3>2, <3>3
  <2> QED BY <2>1, <2>2, <2>3 DEF CanvasFits
<1> QED BY <1>2, <1>3 DEF Preprocess, Answered, Unmarked, FirstFit, BestClassWins, Marked

LEMMA InferHolds ==
  ASSUME IInv, NEW answer \in Answers, Infer(answer)
  PROVE  IInv'
<1> USE DEF IInv
<1>1. TypeOK'
  BY DetectorAssumption DEF Infer, TypeOK, Unscored, imageVars, nmsVars, Class, NoClass
<1>2. CanvasFits' /\ FirstFit'
  BY DEF Infer, imageVars, CanvasFits, FirstFit
<1>3. BestClassWins'
  BY DEF Infer, BestClassWins, Unscored
<1> QED BY <1>1, <1>2, <1>3 DEF Infer, nmsVars, Answered, Unmarked, Marked

LEMMA ScanHolds ==
  ASSUME IInv, Scan
  PROVE  IInv'
<1> USE DEF IInv
<1>1. class \in Class /\ class \in Nat /\ NumClasses \in Nat /\ out \in Answers
  BY DetectorAssumption DEF Scan, TypeOK, Class, Answered
<1>2. ASSUME NEW a \in Anchor
      PROVE  /\ out[a].score \in [Class -> Int]
             /\ best[a] \in [score : Int, class : Class \cup {NoClass}]
  BY <1>1, DetectorAssumption DEF Answers, TypeOK, Class
<1>3. TypeOK'
  BY <1>1, <1>2 DEF Scan, TypeOK, imageVars, nmsVars
<1>4. CanvasFits' /\ FirstFit'
  BY DEF Scan, imageVars, CanvasFits, FirstFit
<1>5. BestClassWins'
  <2> SUFFICES ASSUME NEW a \in Anchor
               PROVE  LET s   == out[a].score
                          win == best'[a].class
                      IN  IF win = NoClass
                          THEN best'[a].score = ConfThr /\ \A c \in 0..class : s[c] < ConfThr
                          ELSE /\ win < class + 1 /\ best'[a].score = s[win] /\ s[win] >= ConfThr
                               /\ \A c \in 0..class :
                                    s[c] < s[win] \/ (s[c] = s[win] /\ c <= win)
    BY <1>1 DEF Scan, BestClassWins
  <2> DEFINE s == out[a].score
  <2>1. \A c \in 0..class : c \in 0..(class - 1) \/ c = class
    BY <1>1
  <2>2. s \in [Class -> Int] /\ 0..class \subseteq Class /\ ConfThr \in Int
    BY <1>1, <1>2, DetectorAssumption DEF Class
  <2>3. IF best[a].class = NoClass
        THEN best[a].score = ConfThr /\ \A c \in 0..(class - 1) : s[c] < ConfThr
        ELSE /\ best[a].class < class
             /\ best[a].score = s[best[a].class] /\ s[best[a].class] >= ConfThr
             /\ \A c \in 0..(class - 1) :
                  \/ s[c] < s[best[a].class]
                  \/ s[c] = s[best[a].class] /\ c <= best[a].class
    BY DEF BestClassWins, Scan
  <2>4. best[a].score \in Int /\ best[a].class \in Class \cup {NoClass} /\ NoClass \notin Class
    BY <1>2 DEF NoClass, Class
  <2>5. CASE s[class] >= best[a].score
    <3>1. best'[a].score = s[class] /\ best'[a].class = class
      BY <2>5 DEF Scan
    <3>2. class # NoClass
      BY <1>1, <2>4
    <3>3. s[class] \in Int /\ \A c \in 0..(class - 1) : s[c] \in Int
      BY <1>1, <2>2
    <3>4. best[a].class # NoClass => s[best[a].class] \in Int
      BY <2>2, <2>4
    <3>5. s[class] >= ConfThr
      BY <2>2, <2>3, <2>4, <2>5, <3>3, <3>4
    <3>6. ASSUME NEW c \in 0..(class - 1) PROVE s[c] <= s[class] /\ c <= class
      <4>1. CASE best[a].class = NoClass
        BY <1>1, <2>2, <2>3, <2>4, <2>5, <3>3, <4>1
      <4>2. CASE best[a].class # NoClass
        BY <1>1, <2>2, <2>3, <2>4, <2>5, <3>3, <3>4, <4>2
      <4> QED BY <4>1, <4>2
    <3>7. ASSUME NEW c \in 0..class
          PROVE  s[c] < s[class] \/ (s[c] = s[class] /\ c <= class)
      BY <1>1, <2>1, <3>3, <3>6
    <3> QED BY <1>1, <3>1, <3>2, <3>5, <3>7
  <2>6. CASE ~(s[class] >= best[a].score)
    <3>1. best'[a] = best[a]
      BY <2>6 DEF Scan
    <3>2. s[class] \in Int /\ s[class] < best[a].score
      BY <1>1, <2>2, <2>4, <2>6
    <3>3. CASE best[a].class = NoClass
      <4>1. \A c \in 0..class : s[c] < ConfThr
        BY <2>1, <2>3, <3>2, <3>3
      <4> QED BY <2>3, <3>1, <3>3, <4>1
    <3>4. CASE best[a].class # NoClass
      <4>1. best[a].class \in Nat /\ best[a].class < class + 1
        BY <1>1, <2>3, <2>4, <3>4 DEF Class
      <4>2. \A c \in 0..class :
              \/ s[c] < s[best[a].class]
              \/ s[c] = s[best[a].class] /\ c <= best[a].class
        BY <2>1, <2>3, <3>2, <3>4
      <4> QED BY <2>3, <3>1, <3>4, <4>1, <4>2
    <3> QED BY <3>3, <3>4
  <2> QED BY <2>5, <2>6
<1> QED BY <1>3, <1>4, <1>5 DEF Scan, nmsVars, Answered, Unmarked, Marked

LEMMA MarkingTypes ==
  ASSUME TypeOK, Answered, CanvasFits, Marked, pc = "nms"
  PROVE  /\ out \in Answers /\ frame \in Sizes
         /\ order \in Seq(Candidates) /\ Len(order) \in Nat
         /\ \A b \in Candidates : \E k \in 1..Len(order) : order[k] = b
         /\ \A k, l \in 1..Len(order) :
              /\ order[k] = order[l] => k = l
              /\ k < l => best[order[k]].score >= best[order[l]].score
<1>1. out \in Answers /\ frame \in Sizes
  BY DEF Answered, CanvasFits
<1>2. order \in Sorted(Candidates)
  BY DEF Marked
<1>3. PICK n \in 0..Cardinality(Candidates) : order \in [1..n -> Candidates]
  BY <1>2 DEF Sorted
<1>4. n \in Nat
  BY <1>3
<1>5. order \in Seq(Candidates) /\ Len(order) = n /\ DOMAIN order = 1..n
  BY <1>3, <1>4
<1> QED BY <1>1, <1>2, <1>4, <1>5 DEF Sorted

LEMMA SortHolds ==
  ASSUME IInv, Sort
  PROVE  IInv'
<1> USE DEF IInv
<1>1. UNCHANGED <<frame, canvas, fitted, out, best, class, pos, suppressed, keep>>
  BY DEF Sort, imageVars
<1>2. Candidates' = Candidates /\ Sorted(Candidates)' = Sorted(Candidates)
  BY <1>1 DEF Candidates, Clipped, Sorted
<1>3. order' \in Sorted(Candidates) /\ pc = "scan" /\ pc' = "nms"
  BY DEF Sort
<1>4. order' \in Seq(Anchor) /\ Len(order') \in Nat
  <2>1. PICK n \in 0..Cardinality(Candidates) : order' \in [1..n -> Candidates]
    BY <1>3 DEF Sorted
  <2>2. order' \in [1..n -> Anchor] /\ n \in Nat
    BY <2>1 DEF Candidates
  <2> QED BY <2>2
<1>5. TypeOK'
  BY <1>1, <1>3, <1>4 DEF TypeOK
<1>6. CanvasFits' /\ FirstFit' /\ Answered' /\ Unmarked' /\ BestClassWins'
  BY <1>1, <1>3 DEF CanvasFits, FirstFit, Answered, Unmarked, BestClassWins
<1>7. Marked'
  BY <1>1, <1>2, <1>3, <1>4 DEF Unmarked, Marked
<1> QED BY <1>5, <1>6, <1>7

LEMMA ReturnHolds ==
  ASSUME IInv, Return
  PROVE  IInv'
<1> USE DEF IInv
<1>1. UNCHANGED <<frame, canvas, fitted, out, best, class, order, pos, suppressed, keep>>
  BY DEF Return, imageVars, nmsVars
<1>2. pc = "nms" /\ pc' = "done" /\ pos > Len(order)
  BY DEF Return
<1>3. TypeOK' /\ CanvasFits' /\ FirstFit' /\ Answered' /\ Unmarked' /\ BestClassWins'
  BY <1>1, <1>2 DEF TypeOK, CanvasFits, FirstFit, Answered, Unmarked, BestClassWins
<1>4. Candidates' = Candidates /\ Sorted(Candidates)' = Sorted(Candidates)
  BY <1>1 DEF Candidates, Clipped, Sorted
<1>5. ASSUME NEW a, NEW b
      PROVE  Overlap(Shifted(a), Shifted(b))' = Overlap(Shifted(a), Shifted(b))
  BY <1>1 DEF Overlap, Shifted, Clipped
<1>6. Len(order) \in Nat
  BY <1>2, MarkingTypes
<1>7. pos = Len(order) + 1
  BY <1>2, <1>6 DEF Marked
<1>8. Marked'
  BY <1>1, <1>2, <1>4, <1>5, <1>7 DEF Marked
<1> QED BY <1>3, <1>8

LEMMA SuppressHolds ==
  ASSUME IInv, Suppress
  PROVE  IInv'
<1> USE DEF IInv
<1>1. UNCHANGED <<pc, frame, canvas, fitted, out, best, class, order>>
  BY DEF Suppress, imageVars
<1>2. pc = "nms" /\ pos <= Len(order) /\ pos' = pos + 1
  BY DEF Suppress
<1>3. /\ out \in Answers /\ frame \in Sizes
      /\ order \in Seq(Candidates) /\ Len(order) \in Nat
      /\ \A b \in Candidates : \E k \in 1..Len(order) : order[k] = b
      /\ \A k, l \in 1..Len(order) :
           /\ order[k] = order[l] => k = l
           /\ k < l => best[order[k]].score >= best[order[l]].score
  BY <1>2, MarkingTypes
<1>4. Candidates' = Candidates /\ Sorted(Candidates)' = Sorted(Candidates)
  BY <1>1 DEF Candidates, Clipped, Sorted
<1>5. \A a, b : Overlap(Shifted(a), Shifted(b))' = Overlap(Shifted(a), Shifted(b))
  BY <1>1 DEF Overlap, Shifted, Clipped
<1> DEFINE i == order[pos]
<1>6. pos \in 1..Len(order) /\ i \in Candidates
  BY <1>2, <1>3 DEF Marked
<1>7. Candidates \subseteq Anchor
  BY DEF Candidates
<1>8. \A a, b \in Candidates :
        /\ Shifted(a) \in [lo : Int, hi : Int]
        /\ best[a].score \in Int
        /\ Overlap(Shifted(a), Shifted(b)) => Overlap(Shifted(b), Shifted(a))
  BY <1>3, CandidateTypes, OverlapSymmetric
<1>9. /\ keep \subseteq Candidates /\ suppressed \subseteq Candidates
      /\ keep \cap suppressed = {}
      /\ \A k \in 1..(pos - 1) : order[k] \in keep \cup suppressed
      /\ \A j \in keep, b \in Candidates :
           b # j /\ Overlap(Shifted(j), Shifted(b)) => b \in suppressed
      /\ \A b \in suppressed :
           \E j \in keep : /\ Overlap(Shifted(j), Shifted(b))
                           /\ best[j].score >= best[b].score
  BY <1>2 DEF Marked
<1>10. /\ keep' \subseteq Candidates /\ suppressed' \subseteq Candidates
       /\ keep' \cap suppressed' = {}
       /\ \A k \in 1..pos : order[k] \in keep' \cup suppressed'
       /\ \A j \in keep', b \in Candidates :
            b # j /\ Overlap(Shifted(j), Shifted(b)) => b \in suppressed'
       /\ \A b \in suppressed' :
            \E j \in keep' : /\ Overlap(Shifted(j), Shifted(b))
                             /\ best[j].score >= best[b].score
  <2>1. CASE i \in suppressed
    <3>1. keep' = keep /\ suppressed' = suppressed
      BY <2>1 DEF Suppress
    <3>2. \A k \in 1..pos : k \in 1..(pos - 1) \/ k = pos
      BY <1>6
    <3> QED BY <1>9, <2>1, <3>1, <3>2
  <2>2. CASE i \notin suppressed
    <3> DEFINE hit == {b \in Candidates \ {i} : Overlap(Shifted(i), Shifted(b))}
    <3>1. keep' = keep \cup {i} /\ suppressed' = suppressed \cup hit
      BY <2>2 DEF Suppress
    <3>2. keep \cap hit = {}
      BY <1>6, <1>8, <1>9, <2>2
    <3>3. \A k \in 1..pos : order[k] \in keep' \cup suppressed'
      <4>1. \A k \in 1..pos : k \in 1..(pos - 1) \/ k = pos
        BY <1>6
      <4> QED BY <1>9, <3>1, <4>1
    <3>4. ASSUME NEW b \in hit, b \notin suppressed
          PROVE  best[i].score >= best[b].score
      <4>1. PICK l \in 1..Len(order) : order[l] = b
        BY <1>3
      <4>2. ~(l < pos)
        <5> SUFFICES ASSUME l < pos PROVE FALSE
          OBVIOUS
        <5>1. l \in 1..(pos - 1)
          BY <1>6
        <5>2. b \in keep
          BY <1>9, <3>4, <4>1, <5>1
        <5> QED BY <3>2, <5>2
      <4>3. l # pos
        BY <4>1
      <4>4. pos < l
        BY <1>6, <4>2, <4>3
      <4> QED BY <1>3, <1>6, <4>1, <4>4
    <3>5. \A b \in suppressed' :
            \E j \in keep' : /\ Overlap(Shifted(j), Shifted(b))
                             /\ best[j].score >= best[b].score
      BY <1>9, <3>1, <3>4
    <3>6. \A j \in keep', b \in Candidates :
            b # j /\ Overlap(Shifted(j), Shifted(b)) => b \in suppressed'
      BY <1>9, <3>1
    <3>7. keep' \cap suppressed' = {}
      BY <1>9, <2>2, <3>1, <3>2
    <3>8. keep' \subseteq Candidates /\ suppressed' \subseteq Candidates
      BY <1>6, <1>9, <3>1
    <3> QED BY <3>3, <3>5, <3>6, <3>7, <3>8
  <2> QED BY <2>1, <2>2
<1>11. pos' \in 1..(Len(order) + 1) /\ pos' - 1 = pos /\ pos' \in Nat
  BY <1>2, <1>3, <1>6
<1>12. TypeOK'
  BY <1>1, <1>7, <1>10, <1>11 DEF TypeOK
<1>13. CanvasFits' /\ FirstFit' /\ Answered' /\ Unmarked' /\ BestClassWins'
  BY <1>1, <1>2 DEF CanvasFits, FirstFit, Answered, Unmarked, BestClassWins
<1>14. Marked'
  BY <1>1, <1>2, <1>4, <1>5, <1>10, <1>11 DEF Marked
<1> QED BY <1>12, <1>13, <1>14

LEMMA StepHolds == IInv /\ [Next]_vars => IInv'
<1> SUFFICES ASSUME IInv, [Next]_vars PROVE IInv'
  OBVIOUS
<1>1. ASSUME NEW f \in Sizes, Preprocess(f) PROVE IInv'
  BY <1>1, PreprocessHolds
<1>2. ASSUME NEW answer \in Answers, Infer(answer) PROVE IInv'
  BY <1>2, InferHolds
<1>3. CASE UNCHANGED vars
  <2>1. UNCHANGED <<pc, frame, canvas, fitted, out, best, class, order, pos, suppressed, keep>>
    BY <1>3 DEF vars, imageVars, nmsVars
  <2>2. TypeOK' /\ Answered' /\ Unmarked' /\ CanvasFits' /\ FirstFit' /\ BestClassWins'
    BY <2>1 DEF IInv, TypeOK, Answered, Unmarked, CanvasFits, FirstFit, BestClassWins
  <2>3. Candidates' = Candidates /\ Sorted(Candidates)' = Sorted(Candidates)
    BY <2>1 DEF Candidates, Clipped, Sorted
  <2>4. ASSUME NEW a, NEW b
        PROVE  Overlap(Shifted(a), Shifted(b))' = Overlap(Shifted(a), Shifted(b))
    BY <2>1 DEF Overlap, Shifted, Clipped
  <2>5. Marked'
    BY <2>1, <2>3, <2>4 DEF IInv, Marked
  <2> QED BY <2>2, <2>5 DEF IInv
<1>4. Scan => IInv'
  BY ScanHolds
<1>5. Sort => IInv'
  BY SortHolds
<1>6. Suppress => IInv'
  BY SuppressHolds
<1>7. Return => IInv'
  BY ReturnHolds
<1> QED BY <1>1, <1>2, <1>3, <1>4, <1>5, <1>6, <1>7 DEF Next

-----------------------------------------------------------------------------
(* The invariant holds of the specification. *)
THEOREM Inductive == Spec => []IInv
<1> QED BY InitHolds, StepHolds, PTL DEF Spec

(* Every variable of the detector keeps its type. *)
THEOREM TypeCorrect == Spec => []TypeOK
<1>1. IInv => TypeOK
  BY DEF IInv
<1> QED BY <1>1, Inductive, PTL

(* Through every sequence of frame sizes, and for every side of the network's
   input, the canvas shows this frame on plain grey: the two lengths kept are
   enough to tell when the bands must be painted anew. *)
THEOREM CanvasStaysClean == Spec => []CanvasIsClean
<1>1. IInv => CanvasIsClean
  BY DEF IInv, CanvasFits, CanvasIsClean
<1> QED BY <1>1, Inductive, PTL

(* The scan by class rows finds each anchor's best class, ties included. *)
THEOREM ScanFindsBest == Spec => []BestClassWins
<1>1. IInv => BestClassWins
  BY DEF IInv
<1> QED BY <1>1, Inductive, PTL

(* For every set of boxes and every order std::sort may leave equals in, two
   kept boxes of one class do not overlap in the frame. *)
THEOREM KeptStayApart == Spec => []KeptApart
<1>1. IInv => KeptApart
  <2> SUFFICES ASSUME IInv, NEW a \in keep, NEW b \in keep, a # b,
                      best[a].class = best[b].class, Overlap(Clipped(a), Clipped(b))
               PROVE  FALSE
    BY DEF KeptApart
  <2>1. pc \in {"nms", "done"}
    BY DEF IInv, Unmarked, TypeOK
  <2>2. a \in Candidates /\ b \in Candidates /\ out \in Answers /\ frame \in Sizes
    BY <2>1 DEF IInv, Marked, Answered, CanvasFits
  <2>3. Overlap(Shifted(a), Shifted(b))
    BY <2>2, ShiftTellsClasses DEF IInv
  <2> QED BY <2>1, <2>2, <2>3 DEF IInv, Marked
<1> QED BY <1>1, Inductive, PTL

(* Nothing seen is lost to another class or to a worse box, as long as frames
   are no wider than the offset between classes. *)
THEOREM AllAreAccountedFor == Spec => []NothingVanishes
<1>1. IInv => NothingVanishes
  <2> SUFFICES ASSUME IInv, pc = "done", NEW a \in Candidates \ keep
               PROVE  \E b \in keep : /\ best[b].class = best[a].class
                                      /\ best[b].score >= best[a].score
                                      /\ Overlap(Clipped(b), Clipped(a))
    BY DEF NothingVanishes
  <2>1. out \in Answers /\ frame \in Sizes
    BY DEF IInv, Answered, CanvasFits
  <2>2. order \in Sorted(Candidates) /\ pos = Len(order) + 1
    BY DEF IInv, Marked
  <2>3. PICK k \in DOMAIN order : order[k] = a
    BY <2>2 DEF Sorted
  <2>4. DOMAIN order = 1..Len(order) /\ Len(order) \in Nat
    BY DEF IInv, TypeOK
  <2>5. k \in 1..(pos - 1)
    BY <2>2, <2>3, <2>4
  <2>6. a \in suppressed
    BY <2>3, <2>5 DEF IInv, Marked
  <2>7. PICK b \in keep : /\ Overlap(Shifted(b), Shifted(a))
                          /\ best[b].score >= best[a].score
    BY <2>6 DEF IInv, Marked
  <2>8. b \in Candidates
    BY DEF IInv, Marked
  <2> QED BY <2>1, <2>7, <2>8, ShiftTellsClasses DEF IInv
<1> QED BY <1>1, Inductive, PTL
=============================================================================
