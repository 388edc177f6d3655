---------------------------- MODULE MultiTracker ----------------------------
(***************************************************************************)
(* The tracking-by-detection facade, core/src/tbd/multi_tracker.cpp: one   *)
(* step is one update(frame), which either runs the detector and           *)
(* associates, or coasts; with camera-motion compensation every frame also *)
(* goes through GmcEstimator::estimate (core/src/tbd/gmc.cpp).             *)
(*                                                                         *)
(* The images and boxes the estimator keeps are represented by their lag:  *)
(* how many frames before the last processed one they were taken.          *)
(***************************************************************************)
EXTENDS ByteTracker

CONSTANTS
  DetectInterval,      \* detect_interval, any int
  Gmc                  \* "Off" or "SparseFlow"

ASSUME CadenceAssumption ==
  DetectInterval \in Int /\ Gmc \in {"Off", "SparseFlow"}

VARIABLES
  until_detect,        \* frames left to coast before the next detection
  started,             \* history: a frame has been processed
  gray_lag,            \* lag of prev_gray_
  mask_lag,            \* lag of the boxes in prev_exclude_
  boxes_lag            \* lag of the boxes in gmc_exclude

gmcVars == <<gray_lag, mask_lag, boxes_lag>>
vars == <<assocVars, until_detect, started, gmcVars>>

None == -1             \* nothing kept yet

Interval == IF DetectInterval < 1 THEN 1 ELSE DetectInterval

-----------------------------------------------------------------------------
TrackerInit ==
  /\ Init
  /\ until_detect = 0
  /\ started = FALSE
  /\ gray_lag = None
  /\ mask_lag = None
  /\ boxes_lag = None

(* estimate(frame, gmc_exclude): the kept image becomes this frame's; the kept
   boxes become the ones passed in, which the caller recorded a frame ago. *)
Estimate ==
  /\ gray_lag' = 0
  /\ mask_lag' = IF boxes_lag = None THEN None ELSE boxes_lag + 1

(* After the frame the caller records its boxes for the next call. *)
RecordBoxes == boxes_lag' = 0

Compensate ==
  IF Gmc = "Off" THEN UNCHANGED gmcVars ELSE Estimate /\ RecordBoxes

(* Mutant of CoastFrame: the boxes are recorded on detect frames only. *)
CoastFrameOldBoxes ==
  /\ until_detect > 0
  /\ until_detect' = until_detect - 1
  /\ started' = TRUE
  /\ IF Gmc = "Off" THEN UNCHANGED gmcVars ELSE Estimate /\ boxes_lag' = boxes_lag + 1
  /\ UNCHANGED assocVars

(* A frame between two detections: every track coasts on its prediction, no
   association and no lifecycle. *)
CoastFrame ==
  /\ until_detect > 0
  /\ until_detect' = until_detect - 1
  /\ started' = TRUE
  /\ Compensate
  /\ UNCHANGED assocVars

DetectFrame(dets) ==
  /\ until_detect = 0
  /\ until_detect' = Interval - 1
  /\ started' = TRUE
  /\ Compensate
  /\ Update(dets)

TrackerNext == CoastFrame \/ \E dets \in Frames : DetectFrame(dets)

(* Frames keep coming: the stream drives update() again and again. *)
TrackerSpec == TrackerInit /\ [][TrackerNext]_vars /\ WF_vars(TrackerNext)

-----------------------------------------------------------------------------
TrackerTypeOK ==
  /\ TypeOK
  /\ until_detect \in 0..(Interval - 1)
  /\ started \in BOOLEAN
  /\ gray_lag \in {None, 0}
  /\ mask_lag \in {None, 1}
  /\ boxes_lag \in {None, 0}

(* The boxes that mask moving objects are never more than a frame older than
   the image they are applied to, coast frames included. *)
MaskStaysRecent == mask_lag # None => mask_lag <= gray_lag + 1

(* No track stays unmatched for ever: at every cadence a track that misses a
   detection is matched again or is removed. *)
MissesEnd ==
  \A id \in 1..MaxId :
    (\E t \in tracks : t.id = id /\ t.tsu > 0) ~>
      ~(\E t \in tracks : t.id = id /\ t.tsu > 0)

(* As multi_tracker.cpp and gmc.hpp have it: the boxes masked out of the kept
   image are the boxes of that image's own frame. *)
MaskFitsImage == gray_lag # None /\ mask_lag # None => mask_lag = gray_lag
=============================================================================
