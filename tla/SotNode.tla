------------------------------- MODULE SotNode -------------------------------
(***************************************************************************)
(* The ROS 2 lifecycle node around the single-object tracker,              *)
(* ros2/ctrk_ros/src/sot_node.cpp.  One step is one callback: a lifecycle  *)
(* transition, a service request or an image.  All of them run in the      *)
(* node's mutually exclusive group, so no two overlap; what is left to     *)
(* chance is their order, the image queue of the middleware, and which of  *)
(* the things a transition tries can be had.                               *)
(*                                                                         *)
(* A frame has no identity here.  What matters is how old the cached one   *)
(* is: its lag, the number of frames the node has looked at since.         *)
(***************************************************************************)
EXTENDS Integers, Sequences

CONSTANTS
  Boxes,               \* boxes a client may ask for, w and h positive
  Degenerate,          \* a box with a w or h that is not
  InitBox,             \* the init_bbox parameter, None when empty
  DumpPath,            \* dump_path is set
  QosDepth,            \* qos_depth of the image subscription, keep last
  MaxLag,              \* bound: lags are counted up to here
  None

ASSUME NodeAssumption ==
  /\ None \notin Boxes /\ Degenerate \notin Boxes
  /\ None \notin [box : Boxes \cup {None}, lag : Nat]
  /\ InitBox \in Boxes \cup {None}
  /\ DumpPath \in BOOLEAN
  /\ QosDepth \in Nat \ {0}
  /\ MaxLag \in Nat \ {0}

VARIABLES
  lifecycle,           \* the primary lifecycle state
  declared,            \* the parameters have been declared on this node
  tracker,             \* tracker_: the box it was last initialized with and,
                       \* history, the lag of the frame it was initialized on
  services,            \* set_target_srv_ and reset_srv_ exist
  subscribed,          \* image_sub_ exists
  publisher,           \* target_pub_: "none", "inactive" or "active"
  queue,               \* encodings of the images waiting in the middleware
  last_frame,          \* lag of the cached frame, None when there is none
  pending_init,        \* the armed box, or None
  target_set,          \* target_set_
  dump,                \* dump_ is open
  status,              \* state of the last SotStatus published
  wanted,              \* history: box of the last accepted request, not undone
  since_reset          \* history: frames since the last reset or activation

session == <<last_frame, pending_init, target_set, dump, status, wanted, since_reset>>
vars == <<lifecycle, declared, tracker, services, subscribed, publisher, queue, session>>

-----------------------------------------------------------------------------
Encodings == {"bgr8", "other"}

(* optional<SotTracker> before init(): there, but without a target. *)
Fresh == [box |-> None, lag |-> 0]

Older(lag) == IF lag = None \/ lag = MaxLag THEN lag ELSE lag + 1

Init ==
  /\ lifecycle = "Unconfigured"
  /\ declared = FALSE
  /\ tracker = None
  /\ services = FALSE
  /\ subscribed = FALSE
  /\ publisher = "none"
  /\ queue = <<>>
  /\ last_frame = None
  /\ pending_init = None
  /\ target_set = FALSE
  /\ dump = FALSE
  /\ status = None
  /\ wanted = None
  /\ since_reset = 0

-----------------------------------------------------------------------------
(* declare_sot_params() returns at most once: a parameter stays declared, and
   declaring it again throws. *)
DeclareSotParams == ~declared /\ declared' = TRUE

(* on_configure() that throws: on a parameter, on the backend's model, or on
   the detector's, when the tracker is already there. *)
ConfigureFails ==
  /\ lifecycle = "Unconfigured"
  /\ \/ declared' = TRUE /\ UNCHANGED tracker
     \/ DeclareSotParams /\ tracker' \in {None, Fresh}
  /\ UNCHANGED <<lifecycle, services, subscribed, publisher, queue, session>>

Configure ==
  /\ lifecycle = "Unconfigured"
  /\ DeclareSotParams
  /\ tracker' = Fresh
  /\ publisher' = "inactive"
  /\ services' = TRUE
  /\ lifecycle' = "Inactive"
  /\ UNCHANGED <<subscribed, queue, session>>

(* on_activate(): the publishers first, then a clean session, then the dump
   file, whose failure leaves the rest behind, and the subscription last. *)
StartSession ==
  /\ publisher' = "active"
  /\ target_set' = FALSE
  /\ last_frame' = None
  /\ pending_init' = InitBox
  /\ since_reset' = 0
  /\ UNCHANGED <<declared, tracker, services, queue, status>>

Activate ==
  /\ lifecycle = "Inactive"
  /\ StartSession
  /\ dump' = DumpPath
  /\ subscribed' = TRUE
  /\ wanted' = InitBox
  /\ lifecycle' = "Active"

ActivateFails ==
  /\ lifecycle = "Inactive"
  /\ DumpPath
  /\ StartSession
  /\ UNCHANGED <<dump, subscribed, wanted, lifecycle>>

(* Dropping the subscription drops what waits in it. *)
Unsubscribe ==
  /\ subscribed' = FALSE
  /\ queue' = <<>>

Deactivate ==
  /\ lifecycle = "Active"
  /\ Unsubscribe
  /\ publisher' = "inactive"
  /\ last_frame' = None
  /\ dump' = FALSE
  /\ wanted' = None
  /\ lifecycle' = "Inactive"
  /\ UNCHANGED <<declared, tracker, services, pending_init, target_set, status, since_reset>>

Cleanup ==
  /\ lifecycle = "Inactive"
  /\ tracker' = None
  /\ publisher' = "none"
  /\ services' = FALSE
  /\ lifecycle' = "Unconfigured"
  /\ UNCHANGED <<declared, subscribed, queue, session>>

(* Mutant of Shutdown: the subscription survives. *)
ShutdownKeepsStream ==
  /\ lifecycle # "Finalized"
  /\ tracker' = None
  /\ publisher' = "none"
  /\ services' = FALSE
  /\ lifecycle' = "Finalized"
  /\ UNCHANGED <<declared, subscribed, queue, session>>

(* on_shutdown() from any state; from Active the dump stays open. *)
Shutdown ==
  /\ lifecycle # "Finalized"
  /\ Unsubscribe
  /\ tracker' = None
  /\ publisher' = "none"
  /\ services' = FALSE
  /\ lifecycle' = "Finalized"
  /\ UNCHANGED <<declared, session>>

-----------------------------------------------------------------------------
(* The middleware delivers an image; a full queue gives up its oldest. *)
Deliver(enc) ==
  /\ subscribed
  /\ queue' = Append(IF Len(queue) < QosDepth THEN queue ELSE Tail(queue), enc)
  /\ UNCHANGED <<lifecycle, declared, tracker, services, subscribed, publisher, session>>

TakeImage(enc) ==
  /\ subscribed
  /\ queue # <<>>
  /\ Head(queue) = enc
  /\ queue' = Tail(queue)
  /\ UNCHANGED <<lifecycle, declared, services, subscribed, publisher, dump, wanted>>

(* on_image(), early return: bgr8 only. *)
DropImage ==
  /\ TakeImage("other")
  /\ UNCHANGED <<tracker, last_frame, pending_init, target_set, status, since_reset>>

(* to_sot_status(), by the state of the result. *)
TargetStatus == {"Tracking", "Unstable", "Lost"}

(* on_image(), update(): the target is being tracked. *)
Feed ==
  /\ target_set
  /\ status' \in TargetStatus
  /\ last_frame' = Older(last_frame)
  /\ UNCHANGED <<tracker, pending_init, target_set>>

(* Mutant of ArmedInit: target_set_ is left alone. *)
ArmedInitForgets ==
  /\ ~target_set
  /\ pending_init # None
  /\ tracker' = [box |-> pending_init, lag |-> 0]
  /\ status' = "Tracking"
  /\ pending_init' = None
  /\ last_frame' = Older(last_frame)
  /\ UNCHANGED target_set

(* on_image(), init() on the armed box. *)
ArmedInit ==
  /\ ~target_set
  /\ pending_init # None
  /\ tracker' = [box |-> pending_init, lag |-> 0]
  /\ status' = "Tracking"
  /\ pending_init' = None
  /\ target_set' = TRUE
  /\ last_frame' = Older(last_frame)

(* on_image(), nothing to track: the frame is cached. *)
Idle ==
  /\ ~target_set
  /\ pending_init = None
  /\ last_frame' = 0
  /\ status' = "Idle"
  /\ UNCHANGED <<tracker, pending_init, target_set>>

OnImage ==
  /\ TakeImage("bgr8")
  /\ since_reset' = IF since_reset > MaxLag THEN since_reset ELSE since_reset + 1
  /\ Feed \/ ArmedInit \/ Idle

(* Mutant of Designate: a request armed while tracking lets it go on. *)
DesignateKeepsTracking(box) ==
  \/ /\ last_frame # None
     /\ tracker' = [box |-> box, lag |-> last_frame]
     /\ target_set' = TRUE
     /\ pending_init' = None
  \/ /\ last_frame = None
     /\ pending_init' = box
     /\ UNCHANGED <<tracker, target_set>>

(* The box is taken at once on the cached frame, or armed for the next. *)
Designate(box) ==
  \/ /\ last_frame # None
     /\ tracker' = [box |-> box, lag |-> last_frame]
     /\ target_set' = TRUE
     /\ pending_init' = None
  \/ /\ last_frame = None
     /\ pending_init' = box
     /\ target_set' = FALSE
     /\ UNCHANGED tracker

(* on_set_target(), accepted. *)
SetTarget(box) ==
  /\ services
  /\ lifecycle = "Active"
  /\ box # Degenerate
  /\ Designate(box)
  /\ wanted' = box
  /\ UNCHANGED <<lifecycle, declared, services, subscribed, publisher, queue,
                 last_frame, dump, status, since_reset>>

(* on_set_target(), accepted = false. *)
RefuseTarget(box) ==
  /\ services
  /\ lifecycle # "Active" \/ box = Degenerate
  /\ UNCHANGED vars

(* Mutants of Reset: the cached frame survives; the target survives. *)
ResetKeepsFrame ==
  /\ services
  /\ target_set' = FALSE
  /\ pending_init' = None
  /\ wanted' = None
  /\ since_reset' = 0
  /\ UNCHANGED <<lifecycle, declared, tracker, services, subscribed, publisher,
                 queue, last_frame, dump, status>>

ResetKeepsTarget ==
  /\ services
  /\ pending_init' = None
  /\ last_frame' = None
  /\ wanted' = None
  /\ since_reset' = 0
  /\ UNCHANGED <<lifecycle, declared, tracker, services, subscribed, publisher,
                 queue, target_set, dump, status>>

(* on_reset(), in any state the service exists in. *)
Reset ==
  /\ services
  /\ target_set' = FALSE
  /\ pending_init' = None
  /\ last_frame' = None
  /\ wanted' = None
  /\ since_reset' = 0
  /\ UNCHANGED <<lifecycle, declared, tracker, services, subscribed, publisher,
                 queue, dump, status>>

-----------------------------------------------------------------------------
Transition ==
  \/ ConfigureFails \/ Configure
  \/ Activate \/ ActivateFails
  \/ Deactivate \/ Cleanup \/ Shutdown

Next ==
  \/ Transition
  \/ \E enc \in Encodings : Deliver(enc)
  \/ DropImage
  \/ OnImage
  \/ \E box \in Boxes \cup {Degenerate} : SetTarget(box) \/ RefuseTarget(box)
  \/ Reset

(* The camera goes on sending readable images, the executor serves the image
   callback, and readable images are not for ever crowded out of the queue.
   No transition and no request is ever due. *)
Fairness ==
  /\ WF_vars(Deliver("bgr8"))
  /\ WF_vars(DropImage)
  /\ SF_vars(OnImage)

Spec == Init /\ [][Next]_vars /\ Fairness

-----------------------------------------------------------------------------
TypeOK ==
  /\ lifecycle \in {"Unconfigured", "Inactive", "Active", "Finalized"}
  /\ declared \in BOOLEAN
  /\ tracker \in [box : Boxes \cup {None}, lag : 0..MaxLag] \cup {None}
  /\ services \in BOOLEAN
  /\ subscribed \in BOOLEAN
  /\ publisher \in {"none", "inactive", "active"}
  /\ queue \in Seq(Encodings) /\ Len(queue) <= QosDepth
  /\ last_frame \in 0..MaxLag \cup {None}
  /\ pending_init \in Boxes \cup {None}
  /\ target_set \in BOOLEAN
  /\ dump \in BOOLEAN
  /\ status \in {"Idle", "Tracking", "Unstable", "Lost", None}
  /\ wanted \in Boxes \cup {None}
  /\ since_reset \in 0..(MaxLag + 1)

(* Whatever callback comes next finds what it dereferences: images arrive and
   targets are accepted only while the tracker and an active publisher exist,
   through failed, repeated and aborted transitions. *)
CallbacksHaveTracker ==
  /\ subscribed \/ (services /\ lifecycle = "Active") =>
       tracker # None /\ publisher = "active"
  /\ services => tracker # None

(* The last accepted request decides: while the node is active the box being
   tracked, or the one armed, is that of the last SetTarget (or init_bbox)
   not undone by a reset, and there is never both. *)
LastRequestWins ==
  lifecycle = "Active" =>
    \/ target_set /\ pending_init = None /\ wanted # None /\ tracker.box = wanted
    \/ ~target_set /\ pending_init = wanted

(* A reset, like an activation, is a clean slate: the cached frame is one the
   node has received since. *)
CacheSinceReset == last_frame # None => last_frame < since_reset

(* The status that goes out tells the truth about the target: from an accepted
   request on, until a reset, never IDLE, and otherwise nothing but IDLE. *)
StatusTellsTarget ==
  [][status' # status => (status' = "Idle" <=> wanted = None)]_vars

(* A requested target is taken up: an armed box ends in tracking, unless a
   reset or the end of the session comes first. *)
TargetTakesHold == pending_init # None /\ lifecycle = "Active" ~>
                     target_set \/ wanted = None \/ lifecycle # "Active"

(* As sot_node.hpp has it: SetTarget initializes on the last seen frame. *)
SeededOnLastSeen == tracker # None => tracker.lag = 0
=============================================================================
