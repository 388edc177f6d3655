---------------------------- MODULE SotContract ----------------------------
(***************************************************************************)
(* What the single-object tracker promises its caller: the Tracking /      *)
(* Unstable / Lost state machine, with the drift verdict and the detector  *)
(* cadence, and nothing about boxes, appearance or templates.  The module  *)
(* SotTracker is shown to implement it.                                    *)
(***************************************************************************)
EXTENDS Integers

CONSTANTS
  Patience,     \* consecutive low frames that make the target Lost
  Cycle         \* Lost frames between two detector runs

VARIABLES
  phase,        \* what the caller was last told
  lows,         \* consecutive low frames held against the target
  verdict,      \* the target was judged to have drifted, not yet cleared
  wait,         \* Lost frames since the detector last ran
  searching     \* a detector was handed over

vars == <<phase, lows, verdict, wait, searching>>

Phases == {"Idle", "Tracking", "Unstable", "Lost"}

TypeOK ==
  /\ phase \in Phases
  /\ lows \in 0..Patience
  /\ verdict \in BOOLEAN
  /\ wait \in 0..(Cycle - 1)
  /\ searching \in BOOLEAN

Init ==
  /\ phase = "Idle"
  /\ lows = 0
  /\ verdict = FALSE
  /\ wait = 0
  /\ searching = FALSE

(* From now on Lost frames are searched. *)
Equip ==
  /\ searching' = TRUE
  /\ UNCHANGED <<phase, lows, verdict, wait>>

(* The caller (re)designates the target: a clean slate. *)
Begin ==
  /\ phase' = "Tracking"
  /\ lows' = 0
  /\ verdict' = FALSE
  /\ wait' = 0
  /\ UNCHANGED searching

(* A credible frame ends every doubt, whatever came before. *)
Healthy ==
  /\ phase # "Idle"
  /\ Begin

(* A low frame short of patience. *)
Falter ==
  /\ phase \in {"Tracking", "Unstable"}
  /\ lows + 1 < Patience
  /\ phase' = "Unstable"
  /\ lows' = lows + 1
  /\ UNCHANGED <<verdict, wait, searching>>

(* The frame leaves the target Lost: patience ran out, or a drift verdict. *)
Lose ==
  /\ phase # "Idle"
  /\ verdict' \in {verdict, TRUE}
  /\ lows + 1 >= Patience \/ verdict'
  /\ phase' = "Lost"
  /\ lows' = Patience
  /\ wait' = IF searching THEN (wait + 1) % Cycle ELSE wait
  /\ UNCHANGED searching

(* The Lost frame that completes a cycle may end in a re-lock, on probation:
   one more low frame and the target is Lost again. *)
Relock ==
  /\ phase # "Idle"
  /\ searching
  /\ verdict' \in {verdict, TRUE}
  /\ lows + 1 >= Patience \/ verdict'
  /\ wait + 1 = Cycle
  /\ phase' = "Unstable"
  /\ lows' = Patience - 1
  /\ wait' = 0
  /\ UNCHANGED searching

Next == Equip \/ Begin \/ Healthy \/ Falter \/ Lose \/ Relock

Spec == Init /\ [][Next]_vars
=============================================================================
