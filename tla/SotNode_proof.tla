---------------------------- MODULE SotNode_proof ----------------------------
(***************************************************************************)
(* Theorems about the single-object tracker node, for every set of boxes,  *)
(* every parameter set and every queue depth.                              *)
(***************************************************************************)
EXTENDS SotNode, SequenceTheorems, TLAPS

(* What each lifecycle state owns, between transitions. *)
Owned ==
  /\ services => lifecycle \in {"Inactive", "Active"}
  /\ lifecycle \in {"Inactive", "Active"} => services /\ tracker # None
  /\ subscribed => lifecycle = "Active"
  /\ lifecycle = "Active" => publisher = "active"

(* A frame is cached in a session only, and none at its start. *)
CacheIsOfSession == last_frame # None => lifecycle \in {"Active", "Finalized"}

IInv == TypeOK /\ Owned /\ CacheIsOfSession /\ CacheSinceReset /\ LastRequestWins

Trackers == [box : Boxes \cup {None}, lag : 0..MaxLag]

-----------------------------------------------------------------------------
LEMMA TrackerIsNotNone == \A t \in Trackers : t # None
  BY NodeAssumption DEF Trackers

LEMMA FreshIsTracker == Fresh \in Trackers
  BY NodeAssumption DEF Fresh, Trackers

LEMMA OlderType ==
  ASSUME NEW lag \in 0..MaxLag \cup {None}
  PROVE  /\ Older(lag) \in 0..MaxLag \cup {None}
         /\ Older(lag) # None => lag # None /\ lag \in 0..MaxLag /\ Older(lag) <= lag + 1
  BY NodeAssumption DEF Older

LEMMA QueueType ==
  ASSUME TypeOK, NEW enc \in Encodings
  PROVE  LET kept == IF Len(queue) < QosDepth THEN queue ELSE Tail(queue)
         IN  Append(kept, enc) \in Seq(Encodings) /\ Len(Append(kept, enc)) <= QosDepth
<1>1. queue \in Seq(Encodings) /\ Len(queue) \in Nat /\ Len(queue) <= QosDepth
      /\ QosDepth \in Nat \ {0}
  BY NodeAssumption DEF TypeOK
<1> DEFINE kept == IF Len(queue) < QosDepth THEN queue ELSE Tail(queue)
<1>2. kept \in Seq(Encodings) /\ Len(kept) + 1 <= QosDepth
  BY <1>1
<1> HIDE DEF kept
<1>3. Append(kept, enc) \in Seq(Encodings) /\ Len(Append(kept, enc)) = Len(kept) + 1
  BY <1>2
<1> QED BY <1>1, <1>2, <1>3 DEF kept

LEMMA TailType ==
  ASSUME TypeOK, queue # <<>>
  PROVE  Tail(queue) \in Seq(Encodings) /\ Len(Tail(queue)) <= QosDepth
<1>1. queue \in Seq(Encodings) /\ Len(queue) <= QosDepth /\ QosDepth \in Nat
  BY NodeAssumption DEF TypeOK
<1>2. Tail(queue) \in Seq(Encodings) /\ Len(Tail(queue)) = Len(queue) - 1
  BY <1>1
<1> QED BY <1>1, <1>2

-----------------------------------------------------------------------------
LEMMA InitIInv == Init => IInv
<1> SUFFICES ASSUME Init PROVE IInv
  OBVIOUS
<1> USE NodeAssumption DEF Init
<1>1. <<>> \in Seq(Encodings) /\ Len(<<>>) = 0
  OBVIOUS
<1>2. TypeOK
  <2>1. declared \in BOOLEAN /\ services \in BOOLEAN /\ subscribed \in BOOLEAN
        /\ target_set \in BOOLEAN /\ dump \in BOOLEAN
    OBVIOUS
  <2> QED BY <1>1, <2>1 DEF TypeOK
<1>3. Owned /\ CacheIsOfSession /\ CacheSinceReset /\ LastRequestWins
  BY DEF Owned, CacheIsOfSession, CacheSinceReset, LastRequestWins
<1> QED BY <1>2, <1>3 DEF IInv

(* The images: a frame ages the cache and is counted. *)
LEMMA ImageKeepsIInv ==
  ASSUME IInv, OnImage \/ DropImage
  PROVE  IInv'
<1> USE NodeAssumption
<1>1. /\ TypeOK /\ lifecycle = "Active" /\ services /\ tracker # None /\ tracker \in Trackers
      /\ queue' = Tail(queue) /\ queue # <<>>
      /\ UNCHANGED <<lifecycle, declared, services, subscribed, publisher, dump, wanted>>
  BY DEF IInv, Owned, TypeOK, Trackers, OnImage, DropImage, TakeImage
<1>2. queue' \in Seq(Encodings) /\ Len(queue') <= QosDepth
  BY <1>1, TailType
<1>3. CASE DropImage
  <2>1. UNCHANGED <<tracker, last_frame, pending_init, target_set, status, since_reset>>
    BY <1>3 DEF DropImage
  <2>2. TypeOK'
    BY <1>1, <1>2, <2>1 DEF TypeOK
  <2> QED BY <1>1, <2>1, <2>2
       DEF IInv, Owned, CacheIsOfSession, CacheSinceReset, LastRequestWins
<1>4. CASE OnImage
  <2>1. since_reset' \in 1..(MaxLag + 1)
        /\ \/ since_reset' = since_reset + 1
           \/ since_reset' = since_reset /\ since_reset > MaxLag
    BY <1>1, <1>4 DEF OnImage, TypeOK
  <2>2. last_frame' = 0 \/ last_frame' = Older(last_frame)
    BY <1>4 DEF OnImage, Feed, TargetStatus, ArmedInit, Idle
  <2>3. last_frame' \in 0..MaxLag \cup {None} /\ CacheSinceReset'
    <3>1. CASE last_frame' = 0
      BY <2>1, <3>1 DEF CacheSinceReset
    <3>2. CASE last_frame' = Older(last_frame)
      <4>1. last_frame \in 0..MaxLag \cup {None}
        BY <1>1 DEF TypeOK
      <4>2. /\ last_frame' \in 0..MaxLag \cup {None}
            /\ last_frame' # None =>
                 last_frame # None /\ last_frame \in 0..MaxLag /\ last_frame' <= last_frame + 1
        BY <3>2, <4>1, OlderType
      <4>3. last_frame # None => last_frame < since_reset
        BY DEF IInv, CacheSinceReset
      <4>4. ASSUME last_frame' # None PROVE last_frame' < since_reset'
        <5>1. last_frame' \in 0..MaxLag /\ since_reset \in 0..(MaxLag + 1)
          BY <4>2, <4>4, <1>1 DEF TypeOK
        <5> QED BY <2>1, <4>2, <4>3, <4>4, <5>1
      <4> QED BY <4>2, <4>4 DEF CacheSinceReset
    <3> QED BY <2>2, <3>1, <3>2
  <2>4. /\ tracker' \in Trackers
        /\ pending_init' \in Boxes \cup {None}
        /\ target_set' \in BOOLEAN
        /\ status' \in {"Idle", "Tracking", "Unstable", "Lost"}
        /\ LastRequestWins'
    <3>1. lifecycle' = "Active" /\ wanted' = wanted
      BY <1>1
    <3>2. CASE Feed
      BY <1>1, <3>1, <3>2 DEF Feed, TargetStatus, IInv, TypeOK, LastRequestWins
    <3>3. CASE ArmedInit
      <4>1. tracker' = [box |-> pending_init, lag |-> 0] /\ pending_init \in Boxes
            /\ pending_init = wanted
        BY <1>1, <3>3 DEF ArmedInit, IInv, TypeOK, LastRequestWins
      <4>2. tracker' \in Trackers /\ tracker'.box = wanted
        BY <4>1 DEF Trackers
      <4> QED BY <3>1, <3>3, <4>1, <4>2 DEF ArmedInit, LastRequestWins
    <3>4. CASE Idle
      BY <1>1, <3>1, <3>4 DEF Idle, IInv, TypeOK, LastRequestWins
    <3> QED BY <1>4, <3>2, <3>3, <3>4 DEF OnImage
  <2>5. TypeOK'
    BY <1>1, <1>2, <2>1, <2>3, <2>4 DEF TypeOK, Trackers
  <2>6. Owned' /\ CacheIsOfSession'
    BY <1>1, <2>4, TrackerIsNotNone DEF IInv, Owned, CacheIsOfSession
  <2> QED BY <2>3, <2>4, <2>5, <2>6 DEF IInv
<1> QED BY <1>3, <1>4

(* The requests. *)
LEMMA RequestKeepsIInv ==
  ASSUME IInv, Reset \/ \E box \in Boxes \cup {Degenerate} : SetTarget(box)
  PROVE  IInv'
<1> USE NodeAssumption
<1>1. CASE Reset
  <2>1. TypeOK'
    <3>1. target_set' \in BOOLEAN
      BY <1>1 DEF Reset
    <3> QED BY <1>1, <3>1 DEF Reset, IInv, TypeOK
  <2> QED BY <1>1, <2>1
       DEF Reset, IInv, Owned, CacheIsOfSession, CacheSinceReset, LastRequestWins
<1>2. ASSUME NEW box \in Boxes \cup {Degenerate}, SetTarget(box) PROVE IInv'
  <2>1. /\ box \in Boxes /\ box # None
        /\ lifecycle = "Active" /\ services /\ tracker \in Trackers
        /\ UNCHANGED <<lifecycle, declared, services, subscribed, publisher, queue,
                       last_frame, dump, status, since_reset>>
        /\ wanted' = box
    BY <1>2 DEF SetTarget, IInv, TypeOK, Owned, Trackers
  <2>2. /\ tracker' \in Trackers
        /\ pending_init' \in Boxes \cup {None}
        /\ target_set' \in BOOLEAN
        /\ LastRequestWins'
    <3>1. CASE last_frame # None
      <4>1. /\ tracker' = [box |-> box, lag |-> last_frame]
            /\ target_set' = TRUE /\ pending_init' = None
        BY <1>2, <3>1 DEF SetTarget, Designate
      <4>2. last_frame \in 0..MaxLag
        BY <3>1 DEF IInv, TypeOK
      <4>3. tracker' \in Trackers /\ tracker'.box = box
        BY <2>1, <4>1, <4>2 DEF Trackers
      <4> QED BY <2>1, <4>1, <4>3 DEF LastRequestWins
    <3>2. CASE last_frame = None
      BY <1>2, <2>1, <3>2 DEF SetTarget, Designate, LastRequestWins
    <3> QED BY <3>1, <3>2
  <2>3. TypeOK'
    BY <2>1, <2>2 DEF IInv, TypeOK, Trackers
  <2>4. Owned'
    BY <2>1, <2>2, TrackerIsNotNone DEF IInv, Owned
  <2> QED BY <2>1, <2>2, <2>3, <2>4 DEF IInv, CacheIsOfSession, CacheSinceReset
<1> QED BY <1>1, <1>2

(* The lifecycle transitions, those that fail half-way included. *)
LEMMA TransitionKeepsIInv ==
  ASSUME IInv, Transition
  PROVE  IInv'
<1> USE NodeAssumption, FreshIsTracker, TrackerIsNotNone
<1>1. <<>> \in Seq(Encodings) /\ Len(<<>>) = 0
  OBVIOUS
<1>2. TypeOK'
  <2>1. CASE ConfigureFails \/ Configure
    BY <2>1 DEF ConfigureFails, Configure, DeclareSotParams, session, IInv, TypeOK, Trackers
  <2>2. CASE Activate \/ ActivateFails
    <3>1. target_set' \in BOOLEAN
      BY <2>2 DEF Activate, ActivateFails, StartSession
    <3>2. subscribed' \in BOOLEAN /\ dump' \in BOOLEAN
      BY <2>2 DEF Activate, ActivateFails, StartSession, IInv, TypeOK
    <3> QED BY <2>2, <3>1, <3>2 DEF Activate, ActivateFails, StartSession, IInv, TypeOK
  <2>3. CASE Deactivate
    <3>1. subscribed' \in BOOLEAN /\ dump' \in BOOLEAN
      BY <2>3 DEF Deactivate, Unsubscribe
    <3> QED BY <1>1, <2>3, <3>1 DEF Deactivate, Unsubscribe, IInv, TypeOK
  <2>4. CASE Cleanup
    <3>1. services' \in BOOLEAN
      BY <2>4 DEF Cleanup
    <3> QED BY <2>4, <3>1 DEF Cleanup, session, IInv, TypeOK
  <2>5. CASE Shutdown
    <3>1. services' \in BOOLEAN /\ subscribed' \in BOOLEAN
      BY <2>5 DEF Shutdown, Unsubscribe
    <3> QED BY <1>1, <2>5, <3>1 DEF Shutdown, Unsubscribe, session, IInv, TypeOK
  <2> QED BY <2>1, <2>2, <2>3, <2>4, <2>5 DEF Transition
<1>3. Owned' /\ CacheIsOfSession' /\ CacheSinceReset' /\ LastRequestWins'
  <2> USE DEF IInv, Owned, CacheIsOfSession, CacheSinceReset, LastRequestWins
  <2>1. CASE ConfigureFails \/ Configure
    BY <2>1 DEF ConfigureFails, Configure, DeclareSotParams, session
  <2>2. CASE Activate \/ ActivateFails
    BY <2>2 DEF Activate, ActivateFails, StartSession
  <2>3. CASE Deactivate
    BY <2>3 DEF Deactivate, Unsubscribe
  <2>4. CASE Cleanup \/ Shutdown
    BY <2>4 DEF Cleanup, Shutdown, Unsubscribe, session
  <2> QED BY <2>1, <2>2, <2>3, <2>4 DEF Transition
<1> QED BY <1>2, <1>3 DEF IInv

LEMMA DeliverKeepsIInv ==
  ASSUME IInv, NEW enc \in Encodings, Deliver(enc)
  PROVE  IInv'
<1>1. /\ UNCHANGED <<lifecycle, declared, tracker, services, subscribed, publisher, session>>
      /\ queue' = Append(IF Len(queue) < QosDepth THEN queue ELSE Tail(queue), enc)
  BY DEF Deliver
<1>2. queue' \in Seq(Encodings) /\ Len(queue') <= QosDepth
  BY <1>1, QueueType DEF IInv
<1>3. TypeOK'
  BY <1>1, <1>2 DEF IInv, TypeOK, session
<1> QED BY <1>1, <1>3
     DEF session, IInv, Owned, CacheIsOfSession, CacheSinceReset, LastRequestWins

LEMMA NextIInv == IInv /\ [Next]_vars => IInv'
<1> SUFFICES ASSUME IInv, [Next]_vars PROVE IInv'
  OBVIOUS
<1>1. CASE UNCHANGED vars
  <2>1. TypeOK'
    BY <1>1 DEF vars, session, IInv, TypeOK
  <2> QED BY <1>1, <2>1
       DEF vars, session, IInv, Owned, CacheIsOfSession, CacheSinceReset, LastRequestWins
<1>2. CASE Next
  BY <1>1, <1>2, ImageKeepsIInv, RequestKeepsIInv, TransitionKeepsIInv, DeliverKeepsIInv
  DEF Next, RefuseTarget
<1> QED BY <1>1, <1>2

-----------------------------------------------------------------------------
(* The inductive invariant holds in every reachable state of the node. *)
THEOREM Inductive == Spec => []IInv
BY InitIInv, NextIInv, PTL DEF Spec

(* The node's state is well formed, the image queue within its depth. *)
THEOREM TypeCorrect == Spec => []TypeOK
<1>1. IInv => TypeOK
  BY DEF IInv
<1> QED BY <1>1, Inductive, PTL

(* No callback ever finds the tracker or the publisher gone. *)
THEOREM CallbacksAreSafe == Spec => []CallbacksHaveTracker
<1>1. IInv => CallbacksHaveTracker
  BY DEF IInv, Owned, CallbacksHaveTracker
<1> QED BY <1>1, Inductive, PTL

(* The target is always the one of the last request accepted. *)
THEOREM LastRequestStands == Spec => []LastRequestWins
<1>1. IInv => LastRequestWins
  BY DEF IInv
<1> QED BY <1>1, Inductive, PTL

(* Nothing seen before a reset or an activation is cached after it. *)
THEOREM CacheIsFresh == Spec => []CacheSinceReset
<1>1. IInv => CacheSinceReset
  BY DEF IInv
<1> QED BY <1>1, Inductive, PTL

(* IDLE is published when there is no target, and only then. *)
THEOREM StatusIsTrue == Spec => StatusTellsTarget
<1> DEFINE Truth == status' # status => (status' = "Idle" <=> wanted = None)
<1>1. IInv /\ [Next]_vars => [Truth]_vars
  <2> SUFFICES ASSUME IInv, Next, status' # status
               PROVE  status' = "Idle" <=> wanted = None
    OBVIOUS
  <2>1. OnImage
    BY DEF Next, Transition, ConfigureFails, Configure, DeclareSotParams, Activate, ActivateFails,
           StartSession, Deactivate, Cleanup, Shutdown, Deliver, DropImage, SetTarget,
           RefuseTarget, Reset, session, vars
  <2>2. lifecycle = "Active"
    BY <2>1 DEF OnImage, TakeImage, IInv, Owned
  <2>3. \/ target_set /\ wanted # None
        \/ ~target_set /\ pending_init = wanted
    BY <2>2 DEF IInv, LastRequestWins
  <2> QED BY <2>1, <2>3 DEF OnImage, Feed, TargetStatus, ArmedInit, Idle
<1> QED BY <1>1, Inductive, PTL DEF Spec, StatusTellsTarget
=============================================================================
