------------------------------- MODULE Topics -------------------------------
(***************************************************************************)
(* The two topics between the frame player and the multi-object node, as   *)
(* the middleware keeps them for one subscription each.  Both are volatile *)
(* keep-last subscriptions: what is published while there is none is lost, *)
(* and a full queue gives up its oldest message.  A message is the number  *)
(* of the frame it is or belongs to, counted from 0 by the player.         *)
(***************************************************************************)
EXTENDS Integers, Sequences

CONSTANTS
  ImageDepth,          \* image_qos_depth of the node
  AckDepth,            \* depth of the player's subscription, 10 in the code
  Reliable             \* image_qos_reliability is "reliable"

ASSUME TopicAssumption ==
  /\ ImageDepth \in Nat \ {0}
  /\ AckDepth \in Nat \ {0}
  /\ Reliable \in BOOLEAN

VARIABLES
  subscribed,          \* the node's image subscription exists
  images,              \* frames waiting in it
  acks                 \* track messages waiting in the player's subscription

topicVars == <<subscribed, images, acks>>

None == -1

KeepLast(queue, depth, m) ==
  Append(IF Len(queue) < depth THEN queue ELSE Tail(queue), m)

(* A frame is published: it reaches the node, or is lost. *)
SendImage(no) ==
  \/ subscribed /\ images' = KeepLast(images, ImageDepth, no)
  \/ ~(subscribed /\ Reliable) /\ UNCHANGED images

(* The tracks of a frame are published; the player takes them in lockstep
   only, and then until it is gone. *)
SendTracks(no, listening) ==
  acks' = IF listening THEN KeepLast(acks, AckDepth, no) ELSE acks
=============================================================================
