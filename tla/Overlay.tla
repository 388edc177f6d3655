------------------------------- MODULE Overlay -------------------------------
(***************************************************************************)
(* The debug view on the pipeline, ros2/ctrk_ros/src/draw_node.cpp: each   *)
(* image is drawn over with the newest tracks received and published       *)
(* again.  launch/pipeline.launch.py puts it beside the player and the     *)
(* tracker of Playback.                                                    *)
(*                                                                         *)
(* A frame reaches the subscriptions of the tracker and of the view in one *)
(* step; after that the three nodes go on as they please, each taking its  *)
(* queues in any order.                                                    *)
(***************************************************************************)
EXTENDS Playback

CONSTANTS
  ViewDepth,           \* depth of the tracks subscription, 10 in the code
  Lossless             \* no image is lost on its way: one process for all

ASSUME ViewAssumption ==
  ViewDepth \in Nat \ {0} /\ Lossless \in BOOLEAN /\ Viewer

VARIABLES
  waiting,             \* images waiting in the view's subscription
  pending,             \* tracks waiting in the other
  tracks,              \* tracks_: the frame of the newest received, or None
  annotated            \* history: the last image published, and the frame of its tracks

viewVars == <<waiting, pending, tracks, annotated>>
allVars == <<vars, viewVars>>

-----------------------------------------------------------------------------
ViewInit ==
  /\ Init
  /\ waiting = <<>> /\ pending = <<>>
  /\ tracks = None
  /\ annotated = [image |-> None, tracks |-> None]

(* Mutant of Show: room for two images. *)
ShowTwo ==
  \/ waiting' = KeepLast(waiting, 2, published)
  \/ ~Lossless /\ UNCHANGED waiting

(* The newest frame takes the only place, unless it is lost. *)
Show ==
  \/ waiting' = KeepLast(waiting, 1, published)
  \/ ~Lossless /\ UNCHANGED waiting

Play ==
  /\ Start \/ Pace \/ Ack \/ GiveUp
  /\ IF published' # published THEN Show ELSE UNCHANGED waiting
  /\ UNCHANGED <<pending, tracks, annotated>>

Track ==
  /\ Deliver
  /\ pending' = KeepLast(pending, ViewDepth, working)
  /\ UNCHANGED <<waiting, tracks, annotated>>

OnTracks ==
  /\ pending # <<>>
  /\ tracks' = Head(pending)
  /\ pending' = Tail(pending)
  /\ UNCHANGED <<vars, waiting, annotated>>

(* on_image(): no waiting for the tracks of this very frame. *)
OnImage ==
  /\ waiting # <<>>
  /\ annotated' = [image |-> Head(waiting), tracks |-> tracks]
  /\ waiting' = Tail(waiting)
  /\ UNCHANGED <<vars, pending, tracks>>

ViewNext ==
  \/ Play \/ Track
  \/ (Operate \/ Take) /\ UNCHANGED viewVars
  \/ OnTracks \/ OnImage

(* The view owes nobody anything: it may stop at any time. *)
ViewSpec == ViewInit /\ [][ViewNext]_allVars /\ Fairness

-----------------------------------------------------------------------------
ViewTypeOK ==
  /\ waiting \in Seq(Frame) /\ Len(waiting) <= 1
  /\ pending \in Seq(Frame) /\ Len(pending) <= ViewDepth
  /\ tracks \in Frame \cup {None}
  /\ annotated \in [image : Frame \cup {None}, tracks : Frame \cup {None}]

(* In one process the view may lag behind the tracker but never runs ahead of
   its picture: no image is drawn over with the tracks of a later frame,
   however long it had to wait. *)
NeverAhead == Lossless => annotated.tracks <= annotated.image
=============================================================================
