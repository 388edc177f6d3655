---------------------------- MODULE FramesPlayer ----------------------------
(***************************************************************************)
(* The playback node, ros2/ctrk_ros/src/frames_player_node.cpp.  It        *)
(* publishes the frames of a source at a fixed rate, or in lockstep: the   *)
(* next frame when an output of the tracker arrives or a timeout expires.  *)
(* One step is one callback.  Timers expire when they please.              *)
(***************************************************************************)
EXTENDS Topics

CONSTANTS
  SourceLen,           \* frames in the source
  FrameLimit,          \* frame_limit, 0 for none
  Loop,                \* loop
  Viewer               \* some other node subscribes to the images as well

ASSUME PlayerAssumption ==
  /\ SourceLen \in Nat /\ FrameLimit \in Nat
  /\ Loop \in BOOLEAN /\ Viewer \in BOOLEAN

VARIABLES
  mode,                \* mode_
  position,            \* frames read since cap_ was last opened
  published,           \* published_
  done,                \* done_
  wait_timer,          \* wait_timer_ runs
  rate_timer,          \* rate_timer_ runs
  timeout_timer        \* timeout_timer_ runs

timers == <<wait_timer, rate_timer, timeout_timer>>
playerVars == <<mode, position, published, done, timers>>

-----------------------------------------------------------------------------
PlayerInit ==
  /\ mode \in {"rate", "lockstep"}
  /\ position = 0
  /\ published = 0
  /\ done = FALSE
  /\ wait_timer = TRUE
  /\ rate_timer = FALSE
  /\ timeout_timer = FALSE

(* cap_.read(), reopening a source that has ended if it is to be looped. *)
Readable == position < SourceLen \/ (Loop /\ published > 0 /\ SourceLen > 0)

Exhausted == (FrameLimit > 0 /\ published >= FrameLimit) \/ ~Readable

(* Mutant of Publish: the stamp is the place in the file. *)
PublishPlace ==
  /\ position' = IF position < SourceLen THEN position + 1 ELSE 1
  /\ published' = published + 1
  /\ SendImage(position' - 1)
  /\ UNCHANGED done

(* A frame goes out with the stamp of its number. *)
Publish ==
  /\ position' = IF position < SourceLen THEN position + 1 ELSE 1
  /\ published' = published + 1
  /\ SendImage(published)
  /\ UNCHANGED done

Finish ==
  /\ done' = TRUE
  /\ UNCHANGED <<position, published, images>>

(* publish_next(), its timers apart. *)
PublishNext ==
  \/ ~done /\ ~Exhausted /\ Publish
  \/ ~done /\ Exhausted /\ Finish
  \/ done /\ UNCHANGED <<position, published, done, images>>

(* Mutant of WaitTick: its timer goes on. *)
WaitTickRepeats ==
  /\ wait_timer
  /\ subscribed \/ Viewer
  /\ PublishNext
  /\ rate_timer' = (mode = "rate")
  /\ timeout_timer' = (mode = "lockstep")
  /\ UNCHANGED <<mode, wait_timer, subscribed, acks>>

(* on_wait_tick(): any subscriber will do.  The timers are armed after the
   first frame, also when there was none. *)
WaitTick ==
  /\ wait_timer
  /\ subscribed \/ Viewer
  /\ wait_timer' = FALSE
  /\ PublishNext
  /\ rate_timer' = (mode = "rate")
  /\ timeout_timer' = (mode = "lockstep")
  /\ UNCHANGED <<mode, subscribed, acks>>

RateTick ==
  /\ rate_timer
  /\ PublishNext
  /\ rate_timer' = (done \/ ~done')
  /\ UNCHANGED <<mode, wait_timer, timeout_timer, subscribed, acks>>

(* Mutant of OnAck: the timeout is not armed again. *)
OnAckNoRearm ==
  /\ PublishNext
  /\ timeout_timer' = (done /\ timeout_timer)
  /\ UNCHANGED <<mode, wait_timer, rate_timer, subscribed>>

(* on_ack(): the next frame goes out, its timeout is armed. *)
OnAck ==
  /\ PublishNext
  /\ timeout_timer' = IF done THEN timeout_timer ELSE ~done'
  /\ UNCHANGED <<mode, wait_timer, rate_timer, subscribed>>

(* An output of the tracker, whichever frame it belongs to. *)
AckArrives ==
  /\ acks # <<>>
  /\ acks' = Tail(acks)
  /\ OnAck

TimeoutFires ==
  /\ timeout_timer
  /\ OnAck
  /\ UNCHANGED acks
=============================================================================
