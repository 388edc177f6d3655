----------------------------- MODULE SotTracker -----------------------------
(***************************************************************************)
(* The single-object tracker facade, core/src/sot/sot_tracker.cpp: lost    *)
(* detection from the per-frame score, drift verification against the      *)
(* frozen init-time appearance, and detector-assisted re-acquisition.      *)
(*                                                                         *)
(* One step is one call of init() or update().  What a frame shows is the  *)
(* environment's choice: whether the backend's score is below              *)
(* lost_score_thr, where the tracked box went (a position on a line), what *)
(* the image looks like there, and which detections the detector returns.  *)
(* A "look" stands for an appearance descriptor (an HSV histogram or an    *)
(* embedding); Sim is the similarity of two looks.                         *)
(***************************************************************************)
EXTENDS Integers, Sequences

CONSTANTS
  LostPatience, DriftCheckEvery,       \* SotConfig
  Backend, Embedder,                   \* "NanoTrack"/"Mosse", the re-ID embedder
  Accept, DriftThr, One,               \* thresholds; One is the similarity 1.f
  DetectEvery,                         \* ReacquireConfig: the detector cadence
  BaseRadius, Growth,                  \* search radius and growth per lost frame
  Look, NoCrop,                        \* appearances; the empty descriptor
  Sim,                                 \* similarity of two looks
  Pos,                                 \* positions of a box
  MaxDets,                             \* bound: detections per frame
  MaxStreak, MaxLost                   \* bounds: low_streak and frames_lost

ASSUME ConfigAssumption ==
  /\ LostPatience \in Nat \ {0}
  /\ DetectEvery \in Nat \ {0}
  /\ DriftCheckEvery \in Nat
  /\ Backend \in {"NanoTrack", "Mosse"}
  /\ Embedder \in {"None", "HsvHist", "NanoZ"}

ASSUME DataAssumption ==
  /\ Accept \in Nat /\ DriftThr \in Nat /\ One \in Nat
  /\ BaseRadius \in Nat /\ Growth \in Nat
  /\ Pos \subseteq Int /\ 0 \in Pos
  /\ NoCrop \notin Look
  /\ Sim \in [Look -> [Look -> Int]]
  /\ MaxDets \in Nat /\ MaxStreak \in Nat /\ MaxLost \in Nat

VARIABLES
  low_streak,          \* consecutive low scores, or what a verdict set it to
  last_good,           \* position last credibly seen
  frames_lost,         \* Lost frames since then
  ref,                 \* ref_hist / ref_embed, NoCrop when empty
  since_drift_check,   \* Tracking frames since the last verification
  has_detector,        \* enable_reacquire() was called
  drift_latched,       \* a verification failed and was not cleared
  template,            \* look the backend was last initialized on
  r,                   \* the last SotResult, with the look under its box
  target,              \* history: look the caller designated in init()
  strays               \* history: Tracking reports in a row unlike target

counters == <<low_streak, frames_lost, since_drift_check>>
vars == <<counters, has_detector, last_good, ref, drift_latched, template, r, target, strays>>

-----------------------------------------------------------------------------
(* A crop clipped away by the image border has an empty histogram; the
   template branch pads its crop and never comes back empty. *)
Crop == IF Embedder = "HsvHist" THEN Look \cup {NoCrop} ELSE Look

(* What the backend reports.  Both backends clamp the centre into the image
   and the size to at least 10 pixels, so its crop is never empty. *)
Tracked == [pos : Pos, look : Look]

(* What init() is given: any box, the image border included. *)
Designated == [pos : Pos, look : Crop]

(* A detection; "gated" when score, class and size ratio are acceptable. *)
Candidate == [pos : Pos, look : Crop, gated : BOOLEAN]
Detections == UNION {[1..n -> Candidate] : n \in 0..MaxDets}

States == {"Idle", "Tracking", "Unstable", "Lost"}

Similarity(look) ==
  IF \/ Embedder = "None"
     \/ Embedder = "NanoZ" /\ Backend = "Mosse"
     \/ NoCrop \in {ref, look}
  THEN One
  ELSE Sim[ref][look]

Dist(a, b) == IF a <= b THEN b - a ELSE a - b

Radius(lost) == BaseRadius + Growth * lost

(* The gates of pick_candidate(). *)
Eligible(d, lost) ==
  /\ d.gated
  /\ Dist(d.pos, last_good) <= Radius(lost)
  /\ Embedder # "None" => Similarity(d.look) >= Accept

(* With re-ID the most similar wins and the first of equals; without it the
   nearest wins and the last of equals. *)
Beats(dets, i, j) ==
  IF Embedder # "None"
  THEN LET si == Similarity(dets[i].look)
           sj == Similarity(dets[j].look)
       IN  si > sj \/ (si = sj /\ i < j)
  ELSE LET di == Dist(dets[i].pos, last_good)
           dj == Dist(dets[j].pos, last_good)
       IN  di < dj \/ (di = dj /\ i > j)

(* The winner, as a set of at most one detection. *)
Picked(dets, lost) ==
  LET E == {i \in DOMAIN dets : Eligible(dets[i], lost)}
  IN  {dets[i] : i \in {k \in E : \A j \in E \ {k} : Beats(dets, k, j)}}

DriftChecks == Embedder # "None" /\ DriftCheckEvery > 0

(* Mutant of CheckDue: one frame late. *)
CheckDueLate ==
  /\ DriftChecks
  /\ drift_latched \/ since_drift_check >= DriftCheckEvery

CheckDue ==
  /\ DriftChecks
  /\ drift_latched \/ since_drift_check + 1 >= DriftCheckEvery

Report(b, state) == r' = [pos |-> b.pos, look |-> b.look, state |-> state]

(* History: the designated target can be recognised at all, and this look
   would fail verification against it. *)
Stray(look) ==
  /\ target # NoCrop
  /\ ~(Embedder = "NanoZ" /\ Backend = "Mosse")
  /\ Sim[target][look] < DriftThr

-----------------------------------------------------------------------------
Init ==
  /\ low_streak = 0
  /\ last_good = 0
  /\ frames_lost = 0
  /\ ref = NoCrop
  /\ since_drift_check = 0
  /\ has_detector = FALSE
  /\ drift_latched = FALSE
  /\ template = NoCrop
  /\ r = [pos |-> 0, look |-> NoCrop, state |-> "Idle"]
  /\ target = NoCrop
  /\ strays = 0

(* Both callers hand the detector over once, before or after init(). *)
EnableReacquire ==
  /\ ~has_detector
  /\ has_detector' = TRUE
  /\ UNCHANGED <<counters, last_good, ref, drift_latched, template, r, target,
                 strays>>

(* init(): the reference is captured here and nowhere else. *)
InitTarget(b) ==
  /\ low_streak' = 0
  /\ frames_lost' = 0
  /\ last_good' = b.pos
  /\ drift_latched' = FALSE
  /\ since_drift_check' = 0
  /\ template' = b.look
  /\ ref' = IF Embedder = "HsvHist" \/ (Embedder = "NanoZ" /\ Backend = "NanoTrack")
            THEN b.look ELSE ref
  /\ Report(b, "Tracking")
  /\ target' = b.look
  /\ strays' = 0
  /\ UNCHANGED has_detector

(* Mutant of Credible: the cadence runs on. *)
CredibleKeepsClock(b) ==
  /\ low_streak' = 0
  /\ last_good' = b.pos
  /\ Report(b, "Tracking")
  /\ strays' = IF DriftChecks /\ Stray(b.look) THEN strays + 1 ELSE 0
  /\ UNCHANGED <<frames_lost, has_detector, ref, template, target>>

(* A credible frame: the anchor of the search moves along. *)
Credible(b) ==
  /\ low_streak' = 0
  /\ last_good' = b.pos
  /\ frames_lost' = 0
  /\ Report(b, "Tracking")
  /\ strays' = IF DriftChecks /\ Stray(b.look) THEN strays + 1 ELSE 0
  /\ UNCHANGED <<has_detector, ref, template, target>>

(* update(), healthy score, no verification due. *)
Track(b) ==
  /\ r.state # "Idle"
  /\ ~CheckDue
  /\ since_drift_check' = IF DriftChecks THEN since_drift_check + 1
                                         ELSE since_drift_check
  /\ Credible(b)
  /\ UNCHANGED drift_latched

(* update(), healthy score, verification due and passed. *)
Verify(b) ==
  /\ r.state # "Idle"
  /\ CheckDue
  /\ Similarity(b.look) >= DriftThr
  /\ since_drift_check' = 0
  /\ drift_latched' = FALSE
  /\ Credible(b)

(* update(), low score, patience not exhausted. *)
Falter(b) ==
  /\ r.state # "Idle"
  /\ low_streak < MaxStreak
  /\ low_streak + 1 < LostPatience
  /\ low_streak' = low_streak + 1
  /\ Report(b, "Unstable")
  /\ UNCHANGED <<frames_lost, since_drift_check, has_detector, last_good, ref,
                 drift_latched, template, target, strays>>

StayLost(b, streak) ==
  /\ Report(b, "Lost")
  /\ low_streak' = streak
  /\ UNCHANGED <<ref, template>>

(* Mutants of Relock: no probation; the reference follows the re-lock. *)
RelockForgives(c) ==
  /\ Report(c, "Unstable")
  /\ low_streak' = 0
  /\ template' = c.look
  /\ UNCHANGED ref

RelockRecaptures(c) ==
  /\ Report(c, "Unstable")
  /\ low_streak' = LostPatience - 1
  /\ template' = c.look
  /\ ref' = c.look

(* Re-seed the backend on the candidate and put it on probation. *)
Relock(c) ==
  /\ Report(c, "Unstable")
  /\ low_streak' = LostPatience - 1
  /\ template' = c.look
  /\ UNCHANGED ref

(* The rest of update() once the frame is Lost. *)
Seek(b, streak) ==
  /\ UNCHANGED <<has_detector, last_good, target, strays>>
  /\ \/ /\ ~has_detector
        /\ StayLost(b, streak)
        /\ UNCHANGED frames_lost
     \/ /\ has_detector
        /\ frames_lost < MaxLost
        /\ frames_lost' = frames_lost + 1
        /\ \/ /\ (frames_lost + 1) % DetectEvery # 0
              /\ StayLost(b, streak)
           \/ /\ (frames_lost + 1) % DetectEvery = 0
              /\ \E dets \in Detections :
                   LET picked == Picked(dets, frames_lost + 1)
                   IN  \/ picked = {} /\ StayLost(b, streak)
                       \/ \E c \in picked : Relock(c)

(* update(), low score, patience exhausted. *)
Lose(b) ==
  /\ r.state # "Idle"
  /\ low_streak < MaxStreak
  /\ low_streak + 1 >= LostPatience
  /\ Seek(b, low_streak + 1)
  /\ UNCHANGED <<since_drift_check, drift_latched>>

(* Mutant of Drift: Lost is reported but low_streak does not know. *)
DriftKeepsStreak(b) ==
  /\ r.state # "Idle"
  /\ CheckDue
  /\ Similarity(b.look) < DriftThr
  /\ since_drift_check' = 0
  /\ drift_latched' = TRUE
  /\ Seek(b, low_streak)

(* update(), healthy score, verification due and failed: the verdict. *)
Drift(b) ==
  /\ r.state # "Idle"
  /\ CheckDue
  /\ Similarity(b.look) < DriftThr
  /\ since_drift_check' = 0
  /\ drift_latched' = TRUE
  /\ Seek(b, LostPatience)

Update(b) == Track(b) \/ Verify(b) \/ Falter(b) \/ Lose(b) \/ Drift(b)

Next ==
  \/ EnableReacquire
  \/ \E b \in Designated : InitTarget(b)
  \/ \E b \in Tracked : Update(b)

Spec == Init /\ [][Next]_vars

-----------------------------------------------------------------------------
TypeOK ==
  /\ low_streak \in Nat
  /\ frames_lost \in Nat
  /\ since_drift_check \in Nat
  /\ last_good \in Pos
  /\ ref \in Look \cup {NoCrop}
  /\ has_detector \in BOOLEAN
  /\ drift_latched \in BOOLEAN
  /\ template \in Look \cup {NoCrop}
  /\ r \in [pos : Pos, look : Look \cup {NoCrop}, state : States]
  /\ target \in Look \cup {NoCrop}
  /\ strays \in Nat

(* The caller is told Lost exactly when low_streak says so: update() derives
   the previous state from low_streak alone, and the drift verdict and the
   re-lock overwrite both by hand. *)
StateFromStreak == r.state = "Lost" <=> low_streak >= LostPatience

(* A drift verdict stands: until it is cleared the caller sees Lost, or the
   probation of a re-lock that one more low frame ends, never Tracking. *)
VerdictHolds ==
  drift_latched => \/ r.state = "Lost"
                   \/ r.state = "Unstable" /\ low_streak = LostPatience - 1

(* Whenever the tracker is not Lost the detector cadence stands at its start,
   so a target that gets Lost (again) waits a full cycle for the first try. *)
FullCycleFirst == r.state # "Lost" => frames_lost % DetectEvery = 0

(* With re-ID the backend is only ever seeded on the designated target or on
   something whose similarity to that target, not to an intermediate re-lock,
   clears "accept"; a crop or target without a descriptor passes. *)
NeverLocksLookalike ==
  (Embedder = "HsvHist" \/ (Embedder = "NanoZ" /\ Backend = "NanoTrack")) =>
    \/ template = target
    \/ NoCrop \in {template, target}
    \/ Sim[target][template] >= Accept

(* Confident drift is caught: something unlike the designated target is
   reported as Tracking on fewer than DriftCheckEvery frames in a row, however
   Unstable, Lost and re-locked frames are mixed in. *)
DriftBlindSpot == DriftChecks => strays < DriftCheckEvery

(* The anchor of the search is the box last reported as Tracking: no low,
   drifted or re-locked but unproven box ever moves it. *)
AnchorIsCredible ==
  [][last_good' = IF r'.state = "Tracking" THEN r'.pos ELSE last_good]_vars

(* The state machine the header promises; see SotContract. *)
Contract == INSTANCE SotContract WITH
  Patience  <- LostPatience,
  Cycle     <- DetectEvery,
  phase     <- r.state,
  lows      <- IF low_streak < LostPatience THEN low_streak ELSE LostPatience,
  verdict   <- drift_latched,
  wait      <- frames_lost % DetectEvery,
  searching <- has_detector

ImplementsContract == Contract!Spec
=============================================================================
