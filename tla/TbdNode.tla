------------------------------- MODULE TbdNode -------------------------------
(***************************************************************************)
(* The lifecycle node around the multi-object tracker,                     *)
(* ros2/ctrk_ros/src/tbd_node.cpp.  One step is one lifecycle transition,  *)
(* or half an image callback: the tracker takes its time, and meanwhile    *)
(* the other nodes go on.  The node's own callbacks exclude each other, so *)
(* none of them runs between the two halves.                               *)
(***************************************************************************)
EXTENDS Topics

CONSTANT DumpPath      \* dump_path is set

ASSUME TbdAssumption == DumpPath \in BOOLEAN

VARIABLES
  lifecycle,           \* the primary lifecycle state
  declared,            \* the parameters have been declared on this node
  tracker,             \* tracker_ exists
  publisher,           \* tracks_pub_: "none", "inactive" or "active"
  frame_no,            \* frame_no_: images processed in this session
  dump,                \* dump_ is open
  working,             \* the frame on_image() is working on, or None
  newest               \* history: the last frame given to this tracker

nodeState == <<lifecycle, declared, tracker, publisher, dump>>
nodeVars == <<nodeState, frame_no, working, newest>>

-----------------------------------------------------------------------------
NodeInit ==
  /\ lifecycle = "Unconfigured"
  /\ declared = FALSE
  /\ tracker = FALSE
  /\ publisher = "none"
  /\ frame_no = 0
  /\ dump = FALSE
  /\ working = None
  /\ newest = None

(* declare_tbd_params() returns at most once: a parameter stays declared, and
   declaring it again throws. *)
DeclareTbdParams == ~declared /\ declared' = TRUE

(* on_configure() that throws: on a parameter or on the detector's model. *)
ConfigureFails ==
  /\ lifecycle = "Unconfigured"
  /\ declared' = TRUE
  /\ UNCHANGED <<lifecycle, tracker, publisher, frame_no, dump, working, newest, topicVars>>

Configure ==
  /\ lifecycle = "Unconfigured"
  /\ DeclareTbdParams
  /\ tracker' = TRUE
  /\ publisher' = "inactive"
  /\ lifecycle' = "Inactive"
  /\ UNCHANGED <<frame_no, dump, working, newest, topicVars>>

(* on_activate(): the publisher first, the dump file next, the subscription
   last.  The tracker goes on where the last session left it. *)
Activate ==
  /\ lifecycle = "Inactive"
  /\ publisher' = "active"
  /\ frame_no' = 0
  /\ dump' = DumpPath
  /\ subscribed' = TRUE
  /\ lifecycle' = "Active"
  /\ UNCHANGED <<declared, tracker, working, newest, images, acks>>

ActivateFails ==
  /\ lifecycle = "Inactive"
  /\ DumpPath
  /\ publisher' = "active"
  /\ frame_no' = 0
  /\ UNCHANGED <<lifecycle, declared, tracker, dump, working, newest, topicVars>>

Unsubscribe ==
  /\ subscribed' = FALSE
  /\ images' = <<>>
  /\ UNCHANGED acks

Deactivate ==
  /\ lifecycle = "Active"
  /\ working = None
  /\ Unsubscribe
  /\ publisher' = "inactive"
  /\ dump' = FALSE
  /\ lifecycle' = "Inactive"
  /\ UNCHANGED <<declared, tracker, frame_no, working, newest>>

Cleanup ==
  /\ lifecycle = "Inactive"
  /\ tracker' = FALSE
  /\ publisher' = "none"
  /\ newest' = None
  /\ lifecycle' = "Unconfigured"
  /\ UNCHANGED <<declared, frame_no, dump, working, topicVars>>

(* on_shutdown() from any state; from Active the dump stays open. *)
Shutdown ==
  /\ lifecycle # "Finalized"
  /\ working = None
  /\ Unsubscribe
  /\ tracker' = FALSE
  /\ publisher' = "none"
  /\ newest' = None
  /\ lifecycle' = "Finalized"
  /\ UNCHANGED <<declared, frame_no, dump, working>>

-----------------------------------------------------------------------------
(* on_image(), up to the call of the tracker.  The player sends bgr8 only, so
   the early return for other encodings is not taken. *)
TakeImage ==
  /\ subscribed
  /\ working = None
  /\ images # <<>>
  /\ images' = Tail(images)
  /\ working' = Head(images)
  /\ frame_no' = frame_no + 1
  /\ UNCHANGED <<nodeState, newest, subscribed, acks>>

(* on_image(), from there on: the tracks are published and dumped. *)
PublishTracks(listening) ==
  /\ working # None
  /\ newest' = working
  /\ working' = None
  /\ SendTracks(working, listening)
  /\ UNCHANGED <<nodeState, frame_no, subscribed, images>>

Transition ==
  \/ ConfigureFails \/ Configure
  \/ Activate \/ ActivateFails
  \/ Deactivate \/ Cleanup \/ Shutdown
=============================================================================
