------------------------------- MODULE SotPick -------------------------------
(***************************************************************************)
(* pick_candidate() of core/src/sot/sot_tracker.cpp as the loop it is: one *)
(* pass over the detections that keeps the best so far.  SotTracker states *)
(* the winner by what distinguishes it (Picked); the two must agree.       *)
(***************************************************************************)
EXTENDS SotTracker, SequencesExt

CONSTANT PickDets      \* bound: detections given to one call

ASSUME PickAssumption == PickDets \in Nat

(* Mutant of PickStep: ties go the other way. *)
PickStepOtherTies(acc, d, lost) ==
  LET sim    == Similarity(d.look)
      dist   == Dist(d.pos, last_good)
      passes == /\ d.gated
                /\ dist <= Radius(lost)
                /\ Embedder # "None" => sim >= Accept
      better == IF Embedder # "None" THEN sim >= acc.sim ELSE dist < acc.dist
  IN  IF passes /\ better
      THEN [best |-> {d},
            dist |-> IF Embedder # "None" THEN acc.dist ELSE dist,
            sim  |-> IF Embedder # "None" THEN sim ELSE acc.sim]
      ELSE acc

(* One turn of the loop; best is a set of at most one detection, dist and
   sim are best_dist and best_sim. *)
PickStep(acc, d, lost) ==
  LET sim    == Similarity(d.look)
      dist   == Dist(d.pos, last_good)
      passes == /\ d.gated
                /\ dist <= Radius(lost)
                /\ Embedder # "None" => sim >= Accept
      better == IF Embedder # "None" THEN sim > acc.sim ELSE dist <= acc.dist
  IN  IF passes /\ better
      THEN [best |-> {d},
            dist |-> IF Embedder # "None" THEN acc.dist ELSE dist,
            sim  |-> IF Embedder # "None" THEN sim ELSE acc.sim]
      ELSE acc

PickLoop(dets, lost) ==
  LET step(acc, d) == PickStep(acc, d, lost)
  IN  FoldLeft(step, [best |-> {}, dist |-> Radius(lost), sim |-> -1], dets).best

(* Whatever the detector returns, and however long the target has been lost,
   the loop ends with the candidate the gates, the veto and the tie-breaks
   single out: the most similar (or nearest) of all that are eligible.  Asked
   wherever the facade is looking for the target. *)
LoopPicksBest ==
  r.state = "Lost" /\ has_detector =>
    \A dets \in UNION {[1..n -> Candidate] : n \in 0..PickDets} :
      PickLoop(dets, frames_lost) = Picked(dets, frames_lost)
=============================================================================
