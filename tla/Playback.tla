------------------------------ MODULE Playback ------------------------------
(***************************************************************************)
(* The frame player and the multi-object node together, over the two       *)
(* topics between them: scripts/ros_parity.sh runs them in lockstep,       *)
(* launch/pipeline.launch.py at a fixed rate.                              *)
(*                                                                         *)
(* Two history variables say how regular a run has been: how many timeouts *)
(* the player has taken for acks, and whether the node attended to the     *)
(* whole playback, in one session and over a reliable topic.               *)
(***************************************************************************)
EXTENDS FramesPlayer, TbdNode

CONSTANT MaxTimeouts   \* bound: timeouts taken before playback is done

ASSUME PlaybackAssumption == MaxTimeouts \in Nat

VARIABLES
  timeouts,            \* history: timeouts that were taken for acks
  attended             \* history: no frame was published, and no session
                       \* ended, so that the node would miss a frame

history == <<timeouts, attended>>
vars == <<topicVars, playerVars, nodeVars, history>>

-----------------------------------------------------------------------------
Init ==
  /\ subscribed = FALSE
  /\ images = <<>>
  /\ acks = <<>>
  /\ PlayerInit
  /\ NodeInit
  /\ timeouts = 0
  /\ attended = TRUE

(* A frame published is attended to when the node is there to receive it. *)
Attend == attended' = (attended /\ (published' = published \/ (subscribed /\ Reliable)))

Start   == WaitTick /\ Attend /\ UNCHANGED <<nodeVars, timeouts>>
Pace    == RateTick /\ Attend /\ UNCHANGED <<nodeVars, timeouts>>
Ack     == AckArrives /\ Attend /\ UNCHANGED <<nodeVars, timeouts>>

GiveUp ==
  /\ timeouts < MaxTimeouts \/ done
  /\ TimeoutFires
  /\ Attend
  /\ timeouts' = IF done THEN timeouts ELSE timeouts + 1
  /\ UNCHANGED nodeVars

(* Transitions are the operator's. *)
Operate ==
  /\ Transition
  /\ attended' = (attended /\ (subscribed' = subscribed \/ published = 0))
  /\ UNCHANGED <<playerVars, timeouts>>

Take    == TakeImage /\ UNCHANGED <<playerVars, history>>
Deliver == PublishTracks(mode = "lockstep") /\ UNCHANGED <<playerVars, history>>

Next == Start \/ Pace \/ Ack \/ GiveUp \/ Operate \/ Take \/ Deliver

(* The player's timers expire and its executor serves them.  Nothing else is
   due: the tracker may hang, acks be late or never come, transitions happen
   at any time or not at all. *)
Fairness == WF_vars(Pace) /\ WF_vars(GiveUp)

Spec == Init /\ [][Next]_vars /\ Fairness

-----------------------------------------------------------------------------
Frame == Nat

TypeOK ==
  /\ subscribed \in BOOLEAN
  /\ images \in Seq(Frame) /\ Len(images) <= ImageDepth
  /\ acks \in Seq(Frame) /\ Len(acks) <= AckDepth
  /\ mode \in {"rate", "lockstep"}
  /\ position \in 0..SourceLen
  /\ published \in Nat
  /\ done \in BOOLEAN
  /\ wait_timer \in BOOLEAN /\ rate_timer \in BOOLEAN /\ timeout_timer \in BOOLEAN
  /\ lifecycle \in {"Unconfigured", "Inactive", "Active", "Finalized"}
  /\ declared \in BOOLEAN
  /\ tracker \in BOOLEAN
  /\ publisher \in {"none", "inactive", "active"}
  /\ frame_no \in Nat
  /\ dump \in BOOLEAN
  /\ working \in Frame \cup {None}
  /\ newest \in Frame \cup {None}
  /\ timeouts \in Nat
  /\ attended \in BOOLEAN

(* on_image() finds the tracker and an active publisher, whatever transitions
   fail, repeat or come between. *)
CallbacksHaveTracker ==
  subscribed \/ working # None => tracker /\ publisher = "active"

Working == IF working = None THEN 0 ELSE 1

InFlight == Len(images) + Working + Len(acks)

(* Lockstep means one frame at a time; every timeout may put one more in
   flight, for good, and nothing else does. *)
OneInFlight == mode = "lockstep" => InFlight <= 1 + timeouts

(* Parity: the k-th image of the session is the player's k-th frame, and all
   that were published are processed, or are about to be, in order.  This is
   what lockstep over a reliable topic buys as long as fewer timeouts fire
   than the node's queue is deep. *)
InStep ==
  /\ frame_no + Len(images) = published
  /\ working # None => working = frame_no - 1
  /\ \A i \in 1..Len(images) : images[i] = frame_no + i - 1

Parity == mode = "lockstep" /\ attended /\ timeouts < ImageDepth /\ published > 0 => InStep

(* The tracker is given later and later frames, through dropped frames,
   looped sources and sessions that end in between: the time step of its
   motion model is never taken backwards. *)
TimeGoesOn == [][working' # working /\ working' # None => working' > newest]_vars

(* Playback comes to an end, though the tracker may be slow, stop answering
   or be shut down half way. *)
PlaybackEnds == published > 0 ~> done

(* As frames_player_node.cpp has it: lockstep is drop-proof by construction. *)
DropProof == mode = "lockstep" /\ attended /\ published > 0 =>
               frame_no + Len(images) = published
=============================================================================
