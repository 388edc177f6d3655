----------------------------- MODULE MCDetector -----------------------------
(* Small instances of Detector: three anchors whose boxes overlap in a chain
   and reach over the edge, frames of four shapes of which two differ in
   height only. *)
EXTENDS Detector, TLC

CONSTANTS a1, a2, a3

MCAnchor == {a1, a2, a3}

MCSizes == {[w |-> 8, h |-> 8], [w |-> 8, h |-> 4], [w |-> 3, h |-> 6]}

MCBoxes == {[lo |-> -1, hi |-> 4], [lo |-> 1, hi |-> 5], [lo |-> 2, hi |-> 6]}

(* Nothing, ties at the floor and above, and either class ahead. *)
MCRows == {(0 :> 0 @@ 1 :> 0), (0 :> 1 @@ 1 :> 1), (0 :> 2 @@ 1 :> 1),
           (0 :> 0 @@ 1 :> 2), (0 :> 1 @@ 1 :> 0)}

Symmetry == Permutations(MCAnchor)
=============================================================================
