------------------------------- MODULE Motion -------------------------------
(***************************************************************************)
(* The time the motion model is told has passed: dt of multi_tracker.cpp,  *)
(* taken from the stamps, and what byte_tracker.cpp makes of it: the       *)
(* coasted time that relaxes the gate of its third stage, and the velocity *)
(* a newborn track is seeded with (seed_velocity() of                      *)
(* core/src/common/kalman.cpp).                                            *)
(*                                                                         *)
(* Times are in tenths of a nominal frame.  The code's times are sums of   *)
(* dt; beside them the time by the stamps is kept as history.  A newborn   *)
(* has no velocity, so until it is matched again its box stays where it    *)
(* was born, and what its first match displaces it by took all the time    *)
(* since the birth.                                                        *)
(***************************************************************************)
EXTENDS MultiTracker

CONSTANTS
  VelocitySeed,        \* velocity_seed
  OneFrame,            \* dt of a nominal frame
  MinDt, MaxDt,        \* what dt is clamped to
  Elapsed              \* what the stamps may differ by

ASSUME MotionAssumption ==
  /\ VelocitySeed \in BOOLEAN
  /\ OneFrame \in Nat /\ MinDt \in Nat /\ MaxDt \in Nat
  /\ MinDt <= OneFrame /\ OneFrame <= MaxDt
  /\ Elapsed \subseteq Int

VARIABLES
  coasted_dt,          \* coasted_dt_
  since_birth,         \* history: what the stamps say has passed since the
                       \*   birth, by id, while hits is 1
  glitches,            \* history: what was odd about these stamps, by id
  seeds                \* history: the velocities seeded in this frame

motion == <<coasted_dt, since_birth, glitches, seeds>>
motionVars == <<vars, motion>>

Id == 1..MaxId

-----------------------------------------------------------------------------
MotionInit ==
  /\ TrackerInit
  /\ coasted_dt = 0
  /\ since_birth = [id \in Id |-> 0]
  /\ glitches = [id \in Id |-> {}]
  /\ seeds = {}

Clamped(x) == IF x < MinDt THEN MinDt ELSE IF x > MaxDt THEN MaxDt ELSE x

(* A stream that starts, stands still or turns back counts as one frame. *)
Dt(elapsed) == IF ~started \/ elapsed <= 0 THEN OneFrame ELSE Clamped(elapsed)

(* Stamps further apart than MaxDt are a stall; stamps that stand still, turn
   back or are closer than MinDt come in a burst.  dt is the elapsed time in
   all other cases. *)
Glitch(elapsed) ==
  (IF elapsed > MaxDt THEN {"stall"} ELSE {}) \cup
  (IF elapsed <= 0 \/ elapsed < MinDt THEN {"burst"} ELSE {})

Newborn == {t \in tracks : t.hits = 1}

(* Mutant of EffDt: what was coasted is left out. *)
EffDtOfFrame(dt) == dt

(* eff_dt_: a detect frame spans the coasted ones before it. *)
EffDt(dt) == coasted_dt + dt

(* seed_velocity(): the displacement is divided by eff_dt_. *)
VelocitySeeds(elapsed) ==
  {[over     |-> EffDt(Dt(elapsed)),
    moved    |-> since_birth[t.id] + elapsed,
    missed   |-> t.tsu,
    glitches |-> glitches[t.id] \cup Glitch(elapsed)] :
     t \in {n \in Newborn : VelocitySeed /\ \E u \in tracks' : u.id = n.id /\ u.det # 0}}

(* Newborns stand where they were born, until a match. *)
StandFor(elapsed) ==
  LET Stands(id) == \E t \in Newborn, u \in tracks' : t.id = id /\ u.id = id /\ u.hits = 1
  IN /\ since_birth' = [id \in Id |-> IF Stands(id) THEN since_birth[id] + elapsed ELSE 0]
     /\ glitches' = [id \in Id |->
                       IF Stands(id) THEN glitches[id] \cup Glitch(elapsed) ELSE {}]

CoastTimed ==
  /\ CoastFrame
  /\ \E elapsed \in Elapsed :
       /\ coasted_dt' = coasted_dt + Dt(elapsed)
       /\ StandFor(elapsed)
  /\ seeds' = {}

(* Mutant of DetectTimed: the coasted time is never taken back. *)
DetectTimedAddsUp(dets) ==
  /\ DetectFrame(dets)
  /\ UNCHANGED coasted_dt
  /\ \E elapsed \in Elapsed :
       /\ StandFor(elapsed)
       /\ seeds' = VelocitySeeds(elapsed)

DetectTimed(dets) ==
  /\ DetectFrame(dets)
  /\ coasted_dt' = 0
  /\ \E elapsed \in Elapsed :
       /\ StandFor(elapsed)
       /\ seeds' = VelocitySeeds(elapsed)

MotionNext == CoastTimed \/ \E dets \in Frames : DetectTimed(dets)

(* Frames keep coming, whatever their stamps. *)
MotionSpec == MotionInit /\ [][MotionNext]_motionVars /\ WF_vars(TrackerNext)

-----------------------------------------------------------------------------
MotionTypeOK ==
  /\ coasted_dt \in Nat
  /\ since_birth \in [Id -> Int]
  /\ glitches \in [Id -> SUBSET {"stall", "burst"}]
  /\ seeds \subseteq [over : Nat, moved : Int, missed : Nat,
                      glitches : SUBSET {"stall", "burst"}]

(* The time by which the third stage relaxes its gate is that of the frames
   skipped since the last detection, none when none was skipped ("bit-identical
   N=1 behavior" in byte_tracker.cpp): the facade, which counts frames, and the
   association, which sums what it is told, agree to within the clamping. *)
CoastedTimeFits ==
  started =>
    LET skipped == Interval - 1 - until_detect
    IN skipped * MinDt <= coasted_dt /\ coasted_dt <= skipped * MaxDt

(* A newborn matched at its first chance starts with its true velocity, by the
   stamps, however many frames were coasted since its birth: the time its
   displacement is divided by is the time it took.  Only stamps that dt does not
   follow make a difference, and each kind in one direction: a stall makes the
   velocity too high, a burst too low. *)
PromptSeedIsTrue ==
  \A s \in seeds : s.missed = 0 =>
    /\ "stall" \notin s.glitches => s.over >= s.moved
    /\ "burst" \notin s.glitches => s.over <= s.moved

(* As kalman.hpp and byte_tracker.cpp have it, the velocity comes from the
   first two detections and the time between them, under stamps that dt
   follows. *)
SeedSpansDelta == \A s \in seeds : s.glitches = {} => s.over = s.moved
=============================================================================
