------------------------------ MODULE Detector ------------------------------
(***************************************************************************)
(* The detector, core/src/tbd/yolov8.cpp: detect() letterboxes a frame     *)
(* onto a canvas kept from call to call, has the network score every       *)
(* anchor, takes the best class of each, and suppresses what overlaps      *)
(* something better (nms() of core/src/common/geometry.cpp).               *)
(*                                                                         *)
(* Boxes are extents along one axis, in pixels of the frame, where         *)
(* from_letterbox() puts them; what the network answers is the             *)
(* environment's choice.  Candidates are named by their anchors.           *)
(***************************************************************************)
EXTENDS Integers, Sequences, FiniteSets

CONSTANTS
  Anchor,              \* the network's anchors
  NumClasses,          \* its classes are 0 .. NumClasses - 1
  KeepClasses,         \* keep_classes; empty keeps all
  ConfThr,             \* conf_thr
  NmsIou,              \* nms_iou in hundredths
  Offset,              \* what separates the classes in nms(): 4096 pixels
  InputSize,           \* side of the canvas
  Sizes,               \* the frames' sizes, [w, h]
  Boxes,               \* the boxes answered, [lo, hi]
  Rows                 \* the class scores answered for an anchor

ASSUME DetectorAssumption ==
  /\ NumClasses \in Nat
  /\ KeepClasses \subseteq Int
  /\ ConfThr \in Int
  /\ Rows \subseteq [0..(NumClasses - 1) -> Int]
  /\ NmsIou \in Nat
  /\ Offset \in Nat
  /\ InputSize \in Nat
  /\ Sizes \subseteq [w : Nat \ {0}, h : Nat \ {0}]
  /\ \A f \in Sizes : f.w <= Offset    \* the frames nms() is sound for
  /\ Boxes \subseteq [lo : Int, hi : Int]

VARIABLES
  pc,                  \* where detect() stands
  frame,               \* size of the frame it works on
  canvas,              \* canvas_: where each pixel comes from
  fitted,              \* fitted_w_, fitted_h_
  out,                 \* the network's answer: box and class scores by anchor
  best,                \* scratch_: best and best_cls by anchor
  class,               \* the class scanned next
  order,               \* the candidates, best score first
  pos,                 \* the one nms() looks at next
  suppressed, keep     \* of the candidates looked at or compared with

imageVars == <<frame, canvas, fitted>>
nmsVars == <<order, pos, suppressed, keep>>
vars == <<pc, imageVars, out, best, class, nmsVars>>

-----------------------------------------------------------------------------
Class == 0..(NumClasses - 1)
NoClass == -1

Answers == [Anchor -> [box : Boxes, score : Rows]]

Larger(a, b) == IF a > b THEN a ELSE b
Smaller(a, b) == IF a < b THEN a ELSE b

Cells == (0..(InputSize - 1)) \X (0..(InputSize - 1))

(* std::round(side * scale), where scale fits the longer side. *)
Fit(side, f) == (2 * side * InputSize + Larger(f.w, f.h)) \div (2 * Larger(f.w, f.h))

(* Size of the letterboxed frame, and the cells it covers. *)
Fitted(f) == [w |-> Fit(f.w, f), h |-> Fit(f.h, f)]

Interior(s) ==
  LET px == (InputSize - s.w) \div 2
      py == (InputSize - s.h) \div 2
  IN  (px..(px + s.w - 1)) \X (py..(py + s.h - 1))

Wanted == IF KeepClasses = {} THEN Class ELSE KeepClasses

(* The box of an anchor, clipped to the frame. *)
Clipped(a) == [lo |-> Larger(out[a].box.lo, 0), hi |-> Smaller(out[a].box.hi, frame.w)]

(* What becomes a candidate. *)
Candidates ==
  {a \in Anchor : /\ best[a].class # NoClass
                  /\ best[a].class \in Wanted
                  /\ Clipped(a).hi - Clipped(a).lo > 1}

(* Mutant of Shifted: the classes are not set apart. *)
ShiftedNowhere(a) == Clipped(a)

(* The box nms() is given: moved along by its class. *)
Shifted(a) ==
  [lo |-> Clipped(a).lo + best[a].class * Offset,
   hi |-> Clipped(a).hi + best[a].class * Offset]

(* iou() above nms_iou. *)
Overlap(p, q) ==
  LET inter == Smaller(p.hi, q.hi) - Larger(p.lo, q.lo)
  IN  /\ inter > 0
      /\ 100 * inter > NmsIou * ((p.hi - p.lo) + (q.hi - q.lo) - inter)

(* std::sort by score: equal scores end up in any order. *)
Sorted(C) ==
  {s \in UNION {[1..n -> C] : n \in 0..Cardinality(C)} :
     /\ \A a \in C : \E k \in DOMAIN s : s[k] = a
     /\ \A k, l \in DOMAIN s :
          /\ s[k] = s[l] => k = l
          /\ k < l => best[s[k]].score >= best[s[l]].score}

-----------------------------------------------------------------------------
NoAnswer == [a \in Anchor |-> [box |-> [lo |-> 0, hi |-> 0], score |-> <<>>]]

Unscored == [a \in Anchor |-> [score |-> ConfThr, class |-> NoClass]]

Init ==
  /\ pc = "idle"
  /\ frame = [w |-> 0, h |-> 0]
  /\ canvas = [c \in Cells |-> "junk"]
  /\ fitted = [w |-> -1, h |-> -1]
  /\ out = NoAnswer
  /\ best = Unscored
  /\ class = NumClasses
  /\ order = <<>> /\ pos = 1
  /\ suppressed = {} /\ keep = {}

(* What is left of an earlier frame. *)
Aged(p) == IF p = "now" THEN "old" ELSE p

(* Mutant of Refitted: one side is enough to tell two fits apart. *)
RefittedByWidth(s) == s.w # fitted.w

Refitted(s) == s # fitted

(* det.preprocess: the grey bands are painted only when the fit changes, the
   interior is overwritten each time. *)
Preprocess(f) ==
  /\ pc \in {"idle", "done"}
  /\ pc' = "infer"
  /\ frame' = f
  /\ fitted' = Fitted(f)
  /\ canvas' = [c \in Cells |->
                  IF c \in Interior(Fitted(f)) THEN "now"
                  ELSE IF Refitted(Fitted(f)) THEN "grey" ELSE Aged(canvas[c])]
  /\ out' = NoAnswer
  /\ order' = <<>> /\ pos' = 1
  /\ suppressed' = {} /\ keep' = {}
  /\ UNCHANGED <<best, class>>

(* det.infer, and the scratch arrays assigned anew. *)
Infer(answer) ==
  /\ pc = "infer"
  /\ pc' = "scan"
  /\ out' = answer
  /\ best' = Unscored
  /\ class' = 0
  /\ UNCHANGED <<imageVars, nmsVars>>

(* Mutant of Scan: the first of equal classes stays, and a score equal to the
   floor does not count. *)
ScanFirstWins ==
  /\ pc = "scan" /\ class < NumClasses
  /\ best' = [a \in Anchor |->
                IF out[a].score[class] > best[a].score
                THEN [score |-> out[a].score[class], class |-> class]
                ELSE best[a]]
  /\ class' = class + 1
  /\ UNCHANGED <<pc, imageVars, out, nmsVars>>

(* One class row, over all anchors. *)
Scan ==
  /\ pc = "scan" /\ class < NumClasses
  /\ best' = [a \in Anchor |->
                IF out[a].score[class] >= best[a].score
                THEN [score |-> out[a].score[class], class |-> class]
                ELSE best[a]]
  /\ class' = class + 1
  /\ UNCHANGED <<pc, imageVars, out, nmsVars>>

(* The candidates, in the order nms() goes through them. *)
Sort ==
  /\ pc = "scan" /\ class = NumClasses
  /\ pc' = "nms"
  /\ order' \in Sorted(Candidates)
  /\ UNCHANGED <<imageVars, out, best, class, pos, suppressed, keep>>

(* Mutant of Suppress: only the next candidate is compared. *)
SuppressNext ==
  /\ pc = "nms" /\ pos <= Len(order)
  /\ pos' = pos + 1
  /\ IF order[pos] \in suppressed
     THEN UNCHANGED <<suppressed, keep>>
     ELSE /\ keep' = keep \cup {order[pos]}
          /\ suppressed' = suppressed \cup
               {order[k] : k \in {l \in DOMAIN order :
                  l = pos + 1 /\ Overlap(Shifted(order[pos]), Shifted(order[l]))}}
  /\ UNCHANGED <<pc, imageVars, out, best, class, order>>

(* One turn of nms(): what was not suppressed is kept, and suppresses all it
   overlaps, wherever that stands. *)
Suppress ==
  /\ pc = "nms" /\ pos <= Len(order)
  /\ pos' = pos + 1
  /\ IF order[pos] \in suppressed
     THEN UNCHANGED <<suppressed, keep>>
     ELSE /\ keep' = keep \cup {order[pos]}
          /\ suppressed' = suppressed \cup
               {b \in Candidates \ {order[pos]} :
                  Overlap(Shifted(order[pos]), Shifted(b))}
  /\ UNCHANGED <<pc, imageVars, out, best, class, order>>

Return ==
  /\ pc = "nms" /\ pos > Len(order)
  /\ pc' = "done"
  /\ UNCHANGED <<imageVars, out, best, class, nmsVars>>

Next ==
  \/ \E f \in Sizes : Preprocess(f)
  \/ \E answer \in Answers : Infer(answer)
  \/ Scan \/ Sort \/ Suppress \/ Return

Spec == Init /\ [][Next]_vars

-----------------------------------------------------------------------------
TypeOK ==
  /\ pc \in {"idle", "infer", "scan", "nms", "done"}
  /\ frame \in Sizes \cup {[w |-> 0, h |-> 0]}
  /\ canvas \in [Cells -> {"junk", "grey", "old", "now"}]
  /\ fitted \in [w : Int, h : Int]
  /\ out \in Answers \cup {NoAnswer}
  /\ best \in [Anchor -> [score : Int, class : Class \cup {NoClass}]]
  /\ class \in 0..NumClasses
  /\ order \in Seq(Anchor)
  /\ pos \in Nat
  /\ suppressed \subseteq Anchor /\ keep \subseteq Anchor

(* What the network is shown is this frame on plain grey: through any mix of
   frame sizes nothing of an earlier frame, and nothing uninitialized, is left
   around it. *)
CanvasIsClean ==
  pc = "infer" =>
    \A c \in Cells : canvas[c] = IF c \in Interior(Fitted(frame)) THEN "now" ELSE "grey"

(* Scanning by class rows with a running maximum comes to what scanning by
   anchor would: of the classes so far, the highest id among the best scores,
   and none if all are below the floor. *)
BestClassWins ==
  pc \in {"scan", "nms", "done"} =>
    \A a \in Anchor :
      LET s   == out[a].score
          win == best[a].class
      IN  IF win = NoClass
          THEN best[a].score = ConfThr /\ \A c \in 0..(class - 1) : s[c] < ConfThr
          ELSE /\ win < class /\ best[a].score = s[win] /\ s[win] >= ConfThr
               /\ \A c \in 0..(class - 1) : s[c] < s[win] \/ (s[c] = s[win] /\ c <= win)

(* No two detections of one class overlap by more than nms_iou, in the frame
   and not only where nms() compared them. *)
KeptApart ==
  \A a, b \in keep :
    a # b /\ best[a].class = best[b].class => ~Overlap(Clipped(a), Clipped(b))

(* Nothing vanishes for want of room: whatever was seen in the frame is
   returned, or overlaps something returned that is at least as good and of
   its own class.  The fixed offset never lets two classes meet. *)
NothingVanishes ==
  pc = "done" =>
    \A a \in Candidates \ keep :
      \E b \in keep : /\ best[b].class = best[a].class
                       /\ best[b].score >= best[a].score
                       /\ Overlap(Clipped(b), Clipped(a))
=============================================================================
