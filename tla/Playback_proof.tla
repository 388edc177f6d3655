--------------------------- MODULE Playback_proof ---------------------------
(***************************************************************************)
(* Proofs about Playback, for every depth of the queues, length of the     *)
(* source, frame limit and number of timeouts.                             *)
(*                                                                         *)
(* The invariant counts what is in flight (Count), numbers what is queued  *)
(* (Order) and follows the parity of the two ends (Even); the lifecycle of *)
(* the node (Session) says when there may be anything in flight at all.    *)
(* Overlay's view keeps up with the player by the last part.               *)
(***************************************************************************)
EXTENDS Overlay, TLAPS

(* When anything can be in flight, and who is there to take it. *)
Session ==
  /\ lifecycle = "Active" <=> subscribed
  /\ lifecycle = "Active" => publisher = "active"
  /\ lifecycle \in {"Inactive", "Active"} => tracker
  /\ working # None => subscribed
  /\ ~subscribed => images = <<>>
  /\ wait_timer => published = 0
  /\ published = 0 => images = <<>> /\ acks = <<>> /\ working = None /\ frame_no = 0
  /\ attended /\ published > 0 => subscribed

(* Lockstep and rate do not mix, and both wait for the first subscriber. *)
Count ==
  /\ mode = "lockstep" => ~rate_timer /\ InFlight <= 1 + timeouts
  /\ mode = "rate" => ~timeout_timer /\ acks = <<>>
  /\ wait_timer => ~rate_timer /\ ~timeout_timer

(* Whatever is queued is newer than what went before it. *)
Order ==
  /\ \A i \in 1..Len(images) : images[i] < published /\ images[i] > newest
  /\ \A i, j \in 1..Len(images) : i < j => images[i] < images[j]
  /\ working # None =>
       /\ working > newest /\ working < published
       /\ \A i \in 1..Len(images) : images[i] > working
  /\ newest < published

Even == Parity

IInv == TypeOK /\ Session /\ Count /\ Order /\ Even

-----------------------------------------------------------------------------
(* A keep-last queue takes a message at its end and grows by one, or keeps
   its length and gives up its first. *)
LEMMA KeepLastFacts ==
  ASSUME NEW q \in Seq(Nat), NEW d \in Nat \ {0}, NEW m \in Nat, Len(q) <= d
  PROVE  LET k == KeepLast(q, d, m)
         IN  /\ k \in Seq(Nat) /\ Len(k) <= d /\ Len(k) <= Len(q) + 1
             /\ Len(k) \in Nat \ {0}
             /\ k[Len(k)] = m
             /\ Len(q) < d => /\ Len(k) = Len(q) + 1
                              /\ \A i \in 1..Len(q) : k[i] = q[i]
             /\ Len(q) >= d => /\ Len(k) = Len(q)
                               /\ \A i \in 1..(Len(q) - 1) : k[i] = q[i + 1]
<1>1. CASE Len(q) < d
  <2>1. KeepLast(q, d, m) = Append(q, m)
    BY <1>1 DEF KeepLast
  <2> QED
    BY <1>1, <2>1
<1>2. CASE Len(q) >= d
  <2>1. KeepLast(q, d, m) = Append(Tail(q), m)
    BY <1>2 DEF KeepLast
  <2>2. q # <<>> /\ Len(q) = d
    BY <1>2
  <2>3. Tail(q) \in Seq(Nat) /\ Len(Tail(q)) = Len(q) - 1
    BY <2>2
  <2>4. \A i \in 1..(Len(q) - 1) : Tail(q)[i] = q[i + 1]
    BY <2>2
  <2> QED
    BY <1>2, <2>1, <2>2, <2>3, <2>4
<1> QED
  BY <1>1, <1>2

(* The head of a queue is its first message, and the others move up. *)
LEMMA TailFacts ==
  ASSUME NEW q \in Seq(Nat), q # <<>>
  PROVE  /\ Head(q) = q[1] /\ Head(q) \in Nat
         /\ Tail(q) \in Seq(Nat) /\ Len(Tail(q)) = Len(q) - 1
         /\ Len(q) \in Nat \ {0}
         /\ \A i \in 1..(Len(q) - 1) : Tail(q)[i] = q[i + 1]
OBVIOUS

-----------------------------------------------------------------------------
LEMMA Initially == Init => IInv
<1> SUFFICES ASSUME Init PROVE IInv
  OBVIOUS
<1> USE DEF Init, PlayerInit, NodeInit, None
<1>1. TypeOK
  <2>1. /\ subscribed \in BOOLEAN /\ done \in BOOLEAN /\ declared \in BOOLEAN
        /\ tracker \in BOOLEAN /\ dump \in BOOLEAN /\ attended \in BOOLEAN
        /\ wait_timer \in BOOLEAN /\ rate_timer \in BOOLEAN /\ timeout_timer \in BOOLEAN
    OBVIOUS
  <2>2. /\ images \in Seq(Nat) /\ Len(images) <= ImageDepth
        /\ acks \in Seq(Nat) /\ Len(acks) <= AckDepth
    BY TopicAssumption
  <2>3. /\ mode \in {"rate", "lockstep"} /\ position \in 0..SourceLen
        /\ published \in Nat /\ frame_no \in Nat /\ timeouts \in Nat
        /\ working \in Nat \cup {None} /\ newest \in Nat \cup {None}
    BY PlayerAssumption
  <2>4. /\ lifecycle \in {"Unconfigured", "Inactive", "Active", "Finalized"}
        /\ publisher \in {"none", "inactive", "active"}
    OBVIOUS
  <2> QED
    BY <2>1, <2>2, <2>3, <2>4 DEF TypeOK, Frame
<1>2. Session /\ Even
  BY DEF Session, Even, Parity
<1>4. Order
  <2>1. Len(images) = 0 /\ published = 0 /\ newest = -1 /\ working = -1
    OBVIOUS
  <2> QED
    BY <2>1 DEF Order
<1>3. Count
  BY DEF Count, InFlight, Working
<1> QED
  BY <1>1, <1>2, <1>3, <1>4 DEF IInv

(* What publish_next() may do to the queue, whoever calls it. *)
LEMMA Publishing ==
  ASSUME IInv, PublishNext
  PROVE  /\ images' \in Seq(Nat) /\ Len(images') <= ImageDepth
         /\ position' \in 0..SourceLen /\ published' \in Nat /\ done' \in BOOLEAN
         /\ \/ published' = published /\ images' = images
            \/ /\ published' = published + 1
               /\ ~done
               /\ \/ images' = images /\ ~(subscribed /\ Reliable)
                  \/ subscribed /\ images' = KeepLast(images, ImageDepth, published)
<1> USE TopicAssumption, PlayerAssumption DEF IInv, TypeOK, Frame
<1>1. CASE ~done /\ ~Exhausted /\ Publish
  <2>1. position' \in 0..SourceLen
    BY <1>1 DEF Publish, Exhausted, Readable
  <2>2. published' = published + 1 /\ done' = done
    BY <1>1 DEF Publish
  <2>3. \/ images' = images /\ ~(subscribed /\ Reliable)
        \/ subscribed /\ images' = KeepLast(images, ImageDepth, published)
    BY <1>1 DEF Publish, SendImage
  <2>4. images' \in Seq(Nat) /\ Len(images') <= ImageDepth
    BY <2>3, KeepLastFacts
  <2> QED
    BY <1>1, <2>1, <2>2, <2>3, <2>4
<1>2. CASE (~done /\ Exhausted /\ Finish) \/ (done /\ UNCHANGED <<position, published, done, images>>)
  BY <1>2 DEF Finish
<1> QED
  BY <1>1, <1>2 DEF PublishNext

LEMMA Sending ==
  ASSUME TypeOK
  PROVE  LET k == KeepLast(images, ImageDepth, published)
         IN  /\ k \in Seq(Nat) /\ Len(k) <= ImageDepth /\ Len(k) <= Len(images) + 1
             /\ Len(k) \in Nat \ {0}
             /\ k[Len(k)] = published
             /\ Len(images) < ImageDepth =>
                  Len(k) = Len(images) + 1 /\ \A i \in 1..Len(images) : k[i] = images[i]
             /\ Len(images) >= ImageDepth =>
                  Len(k) = Len(images) /\ \A i \in 1..(Len(images) - 1) : k[i] = images[i + 1]
<1>1. images \in Seq(Nat) /\ ImageDepth \in Nat \ {0} /\ published \in Nat /\ Len(images) <= ImageDepth
  BY TopicAssumption DEF TypeOK, Frame
<1> QED
  BY <1>1, KeepLastFacts

(* A frame put at the end of the queue keeps it ordered, whether or not the
   first had to go. *)
LEMMA QueueStaysOrdered ==
  ASSUME IInv, PublishNext, UNCHANGED <<newest, working>>
  PROVE  Order'
<1> USE DEF IInv, TypeOK, Frame, Order
<1>1. CASE published' = published /\ images' = images
  BY <1>1
<1>2. CASE published' = published + 1 /\ images' = images
  BY <1>2
<1>3. CASE published' = published + 1 /\ images' = KeepLast(images, ImageDepth, published)
  <2> DEFINE k == KeepLast(images, ImageDepth, published)
  <2>1. /\ k \in Seq(Nat) /\ Len(k) \in Nat \ {0}
        /\ k[Len(k)] = published
        /\ Len(images) < ImageDepth =>
             Len(k) = Len(images) + 1 /\ \A i \in 1..Len(images) : k[i] = images[i]
        /\ Len(images) >= ImageDepth =>
             Len(k) = Len(images) /\ \A i \in 1..(Len(images) - 1) : k[i] = images[i + 1]
    BY Sending
  <2> HIDE DEF k
  <2>2. \A i \in 1..Len(k) : i # Len(k) =>
          \E h \in 1..Len(images) : k[i] = images[h] /\ (h = i \/ h = i + 1)
                                    /\ (h = i <=> Len(images) < ImageDepth)
    <3> SUFFICES ASSUME NEW i \in 1..Len(k), i # Len(k)
                 PROVE  \E h \in 1..Len(images) :
                          /\ k[i] = images[h] /\ (h = i \/ h = i + 1)
                          /\ (h = i <=> Len(images) < ImageDepth)
      OBVIOUS
    <3>1. CASE Len(images) < ImageDepth
      <4>1. i \in 1..Len(images) /\ k[i] = images[i]
        BY <2>1, <3>1
      <4> QED
        BY <3>1, <4>1
    <3>2. CASE Len(images) >= ImageDepth
      <4>1. i + 1 \in 1..Len(images) /\ i \in 1..(Len(images) - 1)
        BY <2>1, <3>2
      <4>2. k[i] = images[i + 1]
        BY <2>1, <3>2, <4>1
      <4>3. ~(Len(images) < ImageDepth) /\ i + 1 # i
        BY <3>2, TopicAssumption
      <4> QED
        BY <4>1, <4>2, <4>3
    <3> QED
      BY <3>1, <3>2, TopicAssumption
  <2>3. \A i \in 1..Len(k) :
          /\ k[i] < published + 1 /\ k[i] > newest
          /\ working # None => k[i] > working
    <3> SUFFICES ASSUME NEW i \in 1..Len(k)
                 PROVE  /\ k[i] < published + 1 /\ k[i] > newest
                        /\ working # None => k[i] > working
      OBVIOUS
    <3>1. newest \in Int /\ working \in Int
      BY DEF None
    <3>2. CASE i = Len(k)
      BY <2>1, <3>1, <3>2
    <3>3. CASE i # Len(k)
      <4>1. PICK h \in 1..Len(images) : k[i] = images[h]
        BY <2>2, <3>3
      <4>2. /\ images[h] \in Nat /\ images[h] < published /\ images[h] > newest
            /\ working # None => images[h] > working
        OBVIOUS
      <4> QED
        BY <3>1, <4>1, <4>2
    <3> QED
      BY <3>2, <3>3
  <2>4. \A i, j \in 1..Len(k) : i < j => k[i] < k[j]
    <3> SUFFICES ASSUME NEW i \in 1..Len(k), NEW j \in 1..Len(k), i < j
                 PROVE  k[i] < k[j]
      OBVIOUS
    <3>1. PICK h \in 1..Len(images) : k[i] = images[h] /\ (h = i \/ h = i + 1)
                                      /\ (h = i <=> Len(images) < ImageDepth)
      BY <2>1, <2>2
    <3>2. CASE j = Len(k)
      <4>1. k[j] = published /\ images[h] < published
        BY <2>1, <3>2
      <4> QED
        BY <3>1, <4>1
    <3>3. CASE j # Len(k)
      <4>1. PICK g \in 1..Len(images) : k[j] = images[g] /\ (g = j \/ g = j + 1)
                                        /\ (g = j <=> Len(images) < ImageDepth)
        BY <2>1, <2>2, <3>3
      <4>2. h < g
        BY <3>1, <4>1
      <4> QED
        BY <3>1, <4>1, <4>2
    <3> QED
      BY <3>2, <3>3
  <2>5. images' = k
    BY <1>3 DEF k
  <2> QED
    BY <1>3, <2>3, <2>4, <2>5
<1> QED
  BY <1>1, <1>2, <1>3, Publishing

-----------------------------------------------------------------------------
(* Publishing keeps everything but the count, which depends on the caller. *)
LEMMA PublishingKeeps ==
  ASSUME IInv, PublishNext, Attend, UNCHANGED <<nodeVars, subscribed, mode>>,
         wait_timer' \in BOOLEAN, rate_timer' \in BOOLEAN, timeout_timer' \in BOOLEAN,
         acks' \in Seq(Nat), Len(acks') <= AckDepth,
         acks' = acks \/ acks # <<>>,
         timeouts' \in Nat, timeouts' >= timeouts,
         wait_timer' => published' = 0,
         mode = "lockstep" /\ published # 0 /\ published' # published =>
           Len(images) <= timeouts'
  PROVE  TypeOK' /\ Session' /\ Order' /\ Even'
<1> USE DEF IInv, TypeOK, Frame, nodeVars, nodeState
<1>1. TypeOK'
  <2>1. attended' \in BOOLEAN
    BY DEF Attend
  <2>2. /\ images' \in Seq(Nat) /\ Len(images') <= ImageDepth
        /\ position' \in 0..SourceLen /\ published' \in Nat /\ done' \in BOOLEAN
    BY Publishing
  <2> QED
    BY <2>1, <2>2
<1>2. Session'
  <2>1. published' = 0 => published = 0 /\ images' = images
    BY Publishing
  <2>2. ~subscribed => images' = images
    BY Publishing
  <2>3. attended' /\ published' > 0 => subscribed
    BY Publishing DEF Attend, Session
  <2> QED
    BY <2>1, <2>2, <2>3 DEF Session
<1>3. Order'
  BY QueueStaysOrdered
<1>4. Even'
  <2> SUFFICES ASSUME mode = "lockstep", attended', timeouts' < ImageDepth, published' > 0
               PROVE  InStep'
    BY DEF Even, Parity
  <2>1. attended /\ timeouts < ImageDepth
    BY TopicAssumption DEF Attend
  <2>2. CASE published' = published /\ images' = images
    BY <2>1, <2>2 DEF Even, Parity, InStep
  <2>3. CASE published' = published + 1
    <3>1. subscribed /\ Reliable
      BY <2>3 DEF Attend
    <3>2. images' = KeepLast(images, ImageDepth, published)
      BY <2>3, <3>1, Publishing
    <3>3. Len(images) < ImageDepth
      <4>1. CASE published = 0
        BY <4>1, TopicAssumption DEF Session
      <4>2. CASE published # 0
        <5>1. published' # published
          BY <2>3
        <5>2. Len(images) <= timeouts' /\ timeouts' \in Nat
          BY <4>2, <5>1
        <5> QED
          BY <5>2, TopicAssumption
      <4> QED
        BY <4>1, <4>2
    <3>4. /\ Len(images') = Len(images) + 1
          /\ \A i \in 1..Len(images) : images'[i] = images[i]
          /\ images'[Len(images')] = published
      <4> DEFINE k == KeepLast(images, ImageDepth, published)
      <4>1. /\ k[Len(k)] = published
            /\ Len(k) = Len(images) + 1
            /\ \A i \in 1..Len(images) : k[i] = images[i]
        BY <3>3, Sending
      <4> QED
        BY <3>2, <4>1
    <3>5. /\ frame_no + Len(images) = published
          /\ working # None => working = frame_no - 1
          /\ \A i \in 1..Len(images) : images[i] = frame_no + i - 1
      <4>1. CASE published = 0
        BY <4>1 DEF Session
      <4>2. CASE published # 0
        BY <2>1, <4>2 DEF Even, Parity, InStep
      <4> QED
        BY <4>1, <4>2
    <3>6. \A i \in 1..Len(images') : images'[i] = frame_no + i - 1
      <4> SUFFICES ASSUME NEW i \in 1..Len(images')
                   PROVE  images'[i] = frame_no + i - 1
        OBVIOUS
      <4>1. CASE i \in 1..Len(images)
        BY <3>4, <3>5, <4>1
      <4>2. CASE i = Len(images')
        BY <3>4, <3>5, <4>2
      <4>3. \A n \in Nat : i \in 1..(n + 1) => i \in 1..n \/ i = n + 1
        OBVIOUS
      <4>4. Len(images) \in Nat /\ Len(images') = Len(images) + 1 /\ i \in 1..(Len(images) + 1)
        BY <3>4
      <4>5. i \in 1..Len(images) \/ i = Len(images')
        BY <4>3, <4>4
      <4> QED
        BY <4>1, <4>2, <4>5
    <3> QED
      BY <2>3, <3>4, <3>5, <3>6 DEF InStep
  <2> QED
    BY <2>2, <2>3, Publishing
<1> QED
  BY <1>1, <1>2, <1>3, <1>4

LEMMA PlayerSteps ==
  ASSUME IInv, Start \/ Pace \/ Ack \/ GiveUp
  PROVE  IInv'
<1> USE DEF IInv, TypeOK, Frame
<1>1. PublishNext /\ Attend /\ UNCHANGED <<nodeVars, subscribed, mode>>
  BY DEF Start, Pace, Ack, GiveUp, WaitTick, RateTick, AckArrives, TimeoutFires, OnAck
<1>2. /\ working' = working
      /\ Len(images') \in Nat /\ Len(images) \in Nat /\ Working \in {0, 1}
      /\ Len(images') <= Len(images) + 1
      /\ done => images' = images /\ published' = published
  BY <1>1, Publishing, Sending DEF nodeVars, Working
<1>3. CASE Start
  <2>1. /\ wait_timer /\ wait_timer' = FALSE /\ acks' = acks /\ timeouts' = timeouts
        /\ rate_timer' = (mode = "rate") /\ timeout_timer' = (mode = "lockstep")
    BY <1>3 DEF Start, WaitTick
  <2>2. published = 0 /\ images = <<>> /\ acks = <<>> /\ working = None
    BY <2>1 DEF Session
  <2>3. wait_timer' \in BOOLEAN /\ rate_timer' \in BOOLEAN /\ timeout_timer' \in BOOLEAN
    BY <2>1
  <2>4. TypeOK' /\ Session' /\ Order' /\ Even'
    BY <1>1, <2>1, <2>2, <2>3, PublishingKeeps
  <2>5. Count'
    BY <1>1, <1>2, <2>1, <2>2 DEF Count, InFlight, Working
  <2> QED
    BY <2>4, <2>5
<1>4. CASE Pace
  <2>1. /\ rate_timer /\ wait_timer' = wait_timer /\ acks' = acks /\ timeouts' = timeouts
        /\ rate_timer' \in BOOLEAN /\ timeout_timer' = timeout_timer
    BY <1>4 DEF Pace, RateTick
  <2>2. mode = "rate" /\ ~wait_timer
    BY <2>1 DEF Count
  <2>3. TypeOK' /\ Session' /\ Order' /\ Even'
    BY <1>1, <2>1, <2>2, PublishingKeeps
  <2>4. Count'
    BY <1>1, <2>1, <2>2 DEF Count
  <2> QED
    BY <2>3, <2>4
<1>5. CASE Ack
  <2>1. /\ acks # <<>> /\ acks' = Tail(acks) /\ timeouts' = timeouts
        /\ UNCHANGED <<wait_timer, rate_timer>>
        /\ timeout_timer' = IF done THEN timeout_timer ELSE ~done'
    BY <1>5 DEF Ack, AckArrives, OnAck
  <2>2. acks' \in Seq(Nat) /\ Len(acks') = Len(acks) - 1 /\ Len(acks) \in Nat
    BY <2>1, TailFacts
  <2>3. ~wait_timer /\ mode = "lockstep"
    BY <2>1 DEF Session, Count
  <2>4. wait_timer' \in BOOLEAN /\ rate_timer' \in BOOLEAN /\ timeout_timer' \in BOOLEAN
    <3>1. done \in BOOLEAN /\ done' \in BOOLEAN /\ timeout_timer \in BOOLEAN
      BY <1>1, Publishing
    <3>2. timeout_timer' \in BOOLEAN
      BY <2>1, <3>1
    <3> QED
      BY <2>1, <3>2
  <2>5. Len(images) <= timeouts
    BY <1>2, <2>1, <2>2, <2>3 DEF Count, InFlight
  <2>6. TypeOK' /\ Session' /\ Order' /\ Even'
    <3>1. Len(acks') <= AckDepth /\ timeouts' \in Nat /\ timeouts' >= timeouts
      BY <2>1, <2>2, TopicAssumption
    <3>2. mode = "lockstep" /\ published # 0 /\ published' # published => Len(images) <= timeouts'
      BY <2>1, <2>5
    <3> QED
      BY <1>1, <2>1, <2>2, <2>3, <2>4, <3>1, <3>2, PublishingKeeps
  <2>7. Count'
    BY <1>1, <1>2, <2>1, <2>2, <2>3 DEF Count, InFlight, Working
  <2> QED
    BY <2>6, <2>7
<1>6. CASE GiveUp
  <2>1. /\ timeout_timer /\ acks' = acks
        /\ UNCHANGED <<wait_timer, rate_timer>>
        /\ timeout_timer' = IF done THEN timeout_timer ELSE ~done'
        /\ timeouts' = IF done THEN timeouts ELSE timeouts + 1
    BY <1>6 DEF GiveUp, TimeoutFires, OnAck
  <2>2. ~wait_timer /\ mode = "lockstep" /\ Len(acks) \in Nat
    BY <2>1 DEF Count
  <2>3. /\ wait_timer' \in BOOLEAN /\ rate_timer' \in BOOLEAN /\ timeout_timer' \in BOOLEAN
        /\ timeouts' \in Nat /\ timeouts' >= timeouts
    <3>1. done \in BOOLEAN /\ done' \in BOOLEAN /\ timeout_timer \in BOOLEAN
      BY <1>1, Publishing
    <3>2. timeout_timer' \in BOOLEAN
      BY <2>1, <3>1
    <3>3. timeouts' \in Nat /\ timeouts' >= timeouts
      BY <2>1
    <3>4. wait_timer' \in BOOLEAN /\ rate_timer' \in BOOLEAN
      BY <2>1
    <3> QED
      BY <3>2, <3>3, <3>4
  <2>4. Count'
    BY <1>1, <1>2, <2>1, <2>2, <2>3 DEF Count, InFlight, Working
  <2>5. ~done => Len(images) <= timeouts'
    BY <1>2, <2>1, <2>2 DEF Count, InFlight
  <2>6. TypeOK' /\ Session' /\ Order' /\ Even'
    BY <1>1, <1>2, <2>1, <2>2, <2>3, <2>5, PublishingKeeps
  <2> QED
    BY <2>4, <2>6
<1> QED
  BY <1>3, <1>4, <1>5, <1>6
-----------------------------------------------------------------------------
(* A transition leaves the player alone, and the queues as they are or the
   images to nobody. *)
LEMMA OperateStep ==
  ASSUME IInv, Operate
  PROVE  IInv'
<1> USE DEF IInv, TypeOK, Frame, Operate, playerVars, timers
<1>1. /\ UNCHANGED <<mode, position, published, done, wait_timer, rate_timer, timeout_timer, timeouts>>
      /\ attended' = (attended /\ (subscribed' = subscribed \/ published = 0))
  OBVIOUS
<1>2. /\ UNCHANGED <<acks, working>>
      /\ images' = images \/ (images' = <<>> /\ subscribed' = FALSE)
  BY DEF Transition, ConfigureFails, Configure, DeclareTbdParams, Activate, ActivateFails, Deactivate,
         Cleanup, Shutdown, Unsubscribe, topicVars
<1>3. newest' = newest \/ newest' = None
  BY DEF Transition, ConfigureFails, Configure, DeclareTbdParams, Activate, ActivateFails, Deactivate,
         Cleanup, Shutdown
<1>4. TypeOK'
  <2>1. /\ subscribed' \in BOOLEAN /\ declared' \in BOOLEAN /\ tracker' \in BOOLEAN
        /\ dump' \in BOOLEAN /\ attended' \in BOOLEAN
    <3>1. attended' \in BOOLEAN
      BY <1>1
    <3>2. dump' \in BOOLEAN
      BY TbdAssumption DEF Transition, ConfigureFails, Configure, DeclareTbdParams, Activate, ActivateFails,
                           Deactivate, Cleanup, Shutdown
    <3>3. subscribed' \in BOOLEAN
      BY DEF Transition, ConfigureFails, Configure, DeclareTbdParams, Activate, ActivateFails, Deactivate,
             Cleanup, Shutdown, Unsubscribe, topicVars
    <3>4. declared' \in BOOLEAN /\ tracker' \in BOOLEAN
      BY DEF Transition, ConfigureFails, Configure, DeclareTbdParams, Activate, ActivateFails, Deactivate,
             Cleanup, Shutdown
    <3> QED
      BY <3>1, <3>2, <3>3, <3>4
  <2>2. /\ lifecycle' \in {"Unconfigured", "Inactive", "Active", "Finalized"}
        /\ publisher' \in {"none", "inactive", "active"}
        /\ frame_no' \in Nat
    BY DEF Transition, ConfigureFails, Configure, DeclareTbdParams, Activate, ActivateFails, Deactivate,
           Cleanup, Shutdown
  <2>3. images' \in Seq(Nat) /\ Len(images') <= ImageDepth
    <3>1. CASE images' = images
      BY <3>1
    <3>2. CASE images' = <<>>
      BY <3>2, TopicAssumption
    <3> QED
      BY <1>2, <3>1, <3>2
  <2>4. /\ done' \in BOOLEAN /\ wait_timer' \in BOOLEAN
        /\ rate_timer' \in BOOLEAN /\ timeout_timer' \in BOOLEAN
    BY <1>1
  <2>5. /\ acks' \in Seq(Nat) /\ Len(acks') <= AckDepth
        /\ mode' \in {"rate", "lockstep"} /\ position' \in 0..SourceLen
        /\ published' \in Nat /\ timeouts' \in Nat
    BY <1>1, <1>2
  <2>6. working' \in Nat \cup {None} /\ newest' \in Nat \cup {None}
    BY <1>2, <1>3
  <2> QED
    BY <2>1, <2>2, <2>3, <2>4, <2>5, <2>6, Zenon
<1>5. Session'
  <2>1. working # None => UNCHANGED <<subscribed, lifecycle, publisher, tracker, images>>
    BY DEF Session, Transition, ConfigureFails, Configure, DeclareTbdParams, Activate, ActivateFails, Deactivate,
           Cleanup, Shutdown
  <2>2. /\ lifecycle' = "Active" <=> subscribed'
        /\ lifecycle' = "Active" => publisher' = "active"
        /\ lifecycle' \in {"Inactive", "Active"} => tracker'
        /\ ~subscribed' => images' = <<>>
        /\ published = 0 => frame_no' = 0
    BY DEF Session, Transition, ConfigureFails, Configure, DeclareTbdParams, Activate, ActivateFails, Deactivate,
           Cleanup, Shutdown, Unsubscribe, topicVars
  <2>3. attended' /\ published' > 0 => subscribed'
    BY <1>1 DEF Session
  <2> QED
    BY <1>1, <1>2, <2>1, <2>2, <2>3 DEF Session
<1>6. Count'
  BY <1>1, <1>2 DEF Count, InFlight, Working
<1>7. Order'
  <2>1. newest' \in Int /\ newest' <= newest
    BY <1>3 DEF None
  <2>2. CASE images' = images
    BY <1>1, <1>2, <2>1, <2>2 DEF Order
  <2>3. CASE images' = <<>>
    BY <1>1, <1>2, <2>1, <2>3 DEF Order
  <2> QED
    BY <1>2, <2>2, <2>3
<1>8. Even'
  <2> SUFFICES ASSUME mode = "lockstep", attended', timeouts < ImageDepth, published > 0
               PROVE  InStep'
    BY <1>1 DEF Even, Parity
  <2>1. attended /\ subscribed' = subscribed /\ subscribed
    BY <1>1 DEF Session
  <2>2. images' = images /\ frame_no' = frame_no
    BY <2>1 DEF Session, Transition, ConfigureFails, Configure, DeclareTbdParams, Activate, ActivateFails,
                Deactivate, Cleanup, Shutdown, Unsubscribe, topicVars
  <2> QED
    BY <1>1, <1>2, <2>1, <2>2 DEF Even, Parity, InStep
<1> QED
  BY <1>4, <1>5, <1>6, <1>7, <1>8

(* The head of the queue becomes the frame worked on. *)
LEMMA TakeStep ==
  ASSUME IInv, Take
  PROVE  IInv'
<1> USE DEF IInv, TypeOK, Frame, Take, TakeImage, nodeState, playerVars, timers, history
<1>1. /\ images # <<>> /\ images' = Tail(images) /\ working' = images[1] /\ working' \in Nat
      /\ Len(images') = Len(images) - 1 /\ images' \in Seq(Nat) /\ Len(images) \in Nat \ {0}
      /\ \A i \in 1..(Len(images) - 1) : images'[i] = images[i + 1]
  BY TailFacts
<1>2. \A i \in 1..Len(images') : i + 1 \in 1..Len(images) /\ images'[i] = images[i + 1]
  BY <1>1
<1>3. 1 \in 1..Len(images) /\ working = None /\ working' # None
  BY <1>1 DEF None
<1>4. TypeOK'
  BY <1>1, TopicAssumption
<1>5. Session'
  BY <1>1 DEF Session
<1>6. Count'
  BY <1>1, <1>3 DEF Count, InFlight, Working
<1>7. Order'
  <2>1. /\ working' > newest /\ working' < published
        /\ \A i \in 1..Len(images') :
             images'[i] < published /\ images'[i] > newest /\ images'[i] > working'
    BY <1>1, <1>2, <1>3 DEF Order
  <2>2. \A i, j \in 1..Len(images') : i < j => images'[i] < images'[j]
    BY <1>1, <1>2 DEF Order
  <2> QED
    BY <2>1, <2>2 DEF Order
<1>8. Even'
  <2> SUFFICES ASSUME mode = "lockstep", attended, timeouts < ImageDepth, published > 0
               PROVE  InStep'
    BY DEF Even, Parity
  <2>1. InStep
    BY DEF Even, Parity
  <2>2. /\ frame_no + Len(images) = published
        /\ \A i \in 1..Len(images) : images[i] = frame_no + i - 1
    BY <2>1 DEF InStep
  <2>3. frame_no' = frame_no + 1 /\ frame_no \in Nat /\ published' = published
    OBVIOUS
  <2>4. images[1] = frame_no
    BY <1>3, <2>2, <2>3
  <2>5. ASSUME NEW i \in 1..Len(images') PROVE images'[i] = frame_no' + i - 1
    <3>1. images'[i] = images[i + 1] /\ i + 1 \in 1..Len(images) /\ i \in Nat
      BY <1>1, <1>2
    <3> QED
      BY <2>2, <2>3, <3>1
  <2>6. frame_no' + Len(images') = published'
    <3>1. /\ Len(images') = Len(images) - 1 /\ Len(images) \in Nat
          /\ frame_no + Len(images) = published
      BY <1>1, <2>2
    <3>2. DEFINE n == Len(images)
                 k == Len(images')
    <3>3. k = n - 1 /\ n \in Nat /\ frame_no + n = published
      BY <3>1
    <3> HIDE DEF n, k
    <3>4. frame_no' + k = published'
      BY <2>3, <3>3
    <3> QED
      BY <3>4 DEF k
  <2>7. working' = frame_no' - 1
    BY <1>1, <2>3, <2>4
  <2> QED
    BY <2>5, <2>6, <2>7 DEF InStep
<1> QED
  BY <1>4, <1>5, <1>6, <1>7, <1>8

(* The frame worked on becomes an ack, in lockstep. *)
LEMMA DeliverStep ==
  ASSUME IInv, Deliver
  PROVE  IInv'
<1> USE DEF IInv, TypeOK, Frame, Deliver, PublishTracks, SendTracks, nodeState, playerVars,
            timers, history
<1>1. working \in Nat /\ working' = None /\ newest' = working /\ UNCHANGED <<images, published>>
  BY DEF None
<1>2. /\ acks' \in Seq(Nat) /\ Len(acks') <= AckDepth /\ Len(acks') <= Len(acks) + 1
      /\ Len(acks) \in Nat /\ Len(acks') \in Nat
      /\ mode = "rate" => acks' = acks
  <2>1. CASE mode = "lockstep"
    <3>1. acks' = KeepLast(acks, AckDepth, working)
      BY <2>1
    <3> QED
      BY <1>1, <2>1, <3>1, KeepLastFacts, TopicAssumption
  <2>2. CASE mode = "rate"
    BY <2>2
  <2> QED
    BY <2>1, <2>2
<1>3. TypeOK'
  BY <1>1, <1>2
<1>4. Session'
  BY <1>1 DEF Session
<1>5. Count'
  <2>1. Working = 1 /\ Working' = 0
    BY <1>1 DEF Working, None
  <2>2. Len(images) \in Nat
    OBVIOUS
  <2>3. InFlight' <= InFlight
    BY <1>1, <1>2, <2>1, <2>2 DEF InFlight
  <2>4. InFlight \in Nat /\ InFlight' \in Nat
    BY <1>1, <1>2, <2>1, <2>2 DEF InFlight
  <2> QED
    BY <1>2, <2>3, <2>4 DEF Count
<1>6. Order'
  BY <1>1 DEF Order
<1>7. Even'
  BY <1>1 DEF Even, Parity, InStep
<1> QED
  BY <1>3, <1>4, <1>5, <1>6, <1>7

(* The invariant holds in every reachable state, whatever the constants. *)
THEOREM Inductive == Spec => []IInv
<1>1. Init => IInv
  BY Initially
<1>2. IInv /\ [Next]_vars => IInv'
  <2> SUFFICES ASSUME IInv, [Next]_vars PROVE IInv'
    OBVIOUS
  <2>1. CASE Next
    BY <2>1, PlayerSteps, OperateStep, TakeStep, DeliverStep DEF Next
  <2>2. CASE UNCHANGED vars
    BY <2>2 DEF vars, topicVars, playerVars, timers, nodeVars, nodeState, history, IInv, TypeOK,
                Session, Count, Order, Even, Parity, InStep, InFlight, Working
  <2> QED
    BY <2>1, <2>2
<1> QED
  BY <1>1, <1>2, PTL DEF Spec

(* Player, topics and node are well formed, both queues within their depth. *)
THEOREM TypeCorrect == Spec => []TypeOK
<1>1. IInv => TypeOK
  BY DEF IInv
<1> QED
  BY <1>1, Inductive, PTL

(* tbd_node.cpp: on_image() never finds the tracker or the publisher gone. *)
THEOREM CallbacksAreSafe == Spec => []CallbacksHaveTracker
<1>1. IInv => CallbacksHaveTracker
  BY DEF IInv, Session, CallbacksHaveTracker
<1> QED
  BY <1>1, Inductive, PTL

(* frames_player_node.cpp, lockstep: a frame in flight, and one more for every
   timeout taken. *)
THEOREM LockstepBound == Spec => []OneInFlight
<1>1. IInv => OneInFlight
  BY DEF IInv, Count, OneInFlight
<1> QED
  BY <1>1, Inductive, PTL

(* scripts/ros_parity.sh: the node numbers the frames as the player does, as
   long as fewer timeouts fire than its queue is deep. *)
THEOREM ParityHolds == Spec => []Parity
<1>1. IInv => Parity
  BY DEF IInv, Even
<1> QED
  BY <1>1, Inductive, PTL

(* The tracker's time goes on, whatever is dropped, looped or restarted. *)
THEOREM LaterAndLater == Spec => TimeGoesOn
<1> DEFINE Later == working' # working /\ working' # None => working' > newest
<1>1. IInv /\ [Next]_vars => [Later]_vars
  <2> SUFFICES ASSUME IInv, Next PROVE Later
    OBVIOUS
  <2>1. CASE Take
    <3>1. images # <<>> /\ working' = Head(images)
      BY <2>1 DEF Take, TakeImage
    <3>2. Head(images) = images[1] /\ 1 \in 1..Len(images)
      BY <3>1, TailFacts DEF IInv, TypeOK, Frame
    <3> QED
      BY <3>1, <3>2 DEF IInv, Order
  <2>2. CASE Deliver
    BY <2>2 DEF Deliver, PublishTracks
  <2>3. CASE Operate
    BY <2>3 DEF Operate, Transition, ConfigureFails, Configure, DeclareTbdParams, Activate, ActivateFails,
                Deactivate, Cleanup, Shutdown
  <2>4. CASE Start \/ Pace \/ Ack \/ GiveUp
    BY <2>4 DEF Start, Pace, Ack, GiveUp, nodeVars
  <2> QED
    BY <2>1, <2>2, <2>3, <2>4 DEF Next
<1> QED
  BY <1>1, Inductive, PTL DEF Spec, TimeGoesOn

-----------------------------------------------------------------------------
(* The view: what waits for it is the newest frame published, and nothing it
   has got of the tracker is of a later one. *)
InView ==
  /\ Lossless => \A i \in 1..Len(waiting) : waiting[i] = published - 1
  /\ \A i \in 1..Len(pending) : pending[i] < published
  /\ tracks < published

ViewInv == ViewTypeOK /\ InView /\ NeverAhead

LEMMA ViewInitially == ViewInit => ViewInv
<1> SUFFICES ASSUME ViewInit PROVE ViewInv
  OBVIOUS
<1>1. /\ waiting = <<>> /\ pending = <<>> /\ tracks = -1 /\ published = 0
      /\ annotated = [image |-> -1, tracks |-> -1]
  BY DEF ViewInit, Init, PlayerInit, None
<1>2. /\ waiting \in Seq(Nat) /\ Len(waiting) = 0
      /\ pending \in Seq(Nat) /\ Len(pending) = 0
  BY <1>1
<1>3. ViewTypeOK
  BY <1>1, <1>2, ViewAssumption DEF ViewTypeOK, Frame, None
<1>4. InView /\ NeverAhead
  BY <1>1, <1>2 DEF InView, NeverAhead
<1> QED BY <1>3, <1>4 DEF ViewInv

LEMMA PublishedGrows ==
  ASSUME TypeOK, Start \/ Pace \/ Ack \/ GiveUp
  PROVE  published \in Nat /\ published' \in {published, published + 1}
<1>1. PublishNext
  BY DEF Start, Pace, Ack, GiveUp, WaitTick, RateTick, AckArrives, TimeoutFires, OnAck
<1> QED BY <1>1 DEF TypeOK, PublishNext, Publish, Finish

LEMMA OneWaits ==
  ASSUME NEW q \in Seq(Nat), Len(q) <= 1, NEW m \in Nat, NEW w, w = KeepLast(q, 1, m)
  PROVE  w \in Seq(Nat) /\ Len(w) <= 1 /\ \A i \in 1..Len(w) : w[i] = m
<1>1. /\ w \in Seq(Nat) /\ Len(w) <= 1 /\ Len(w) \in Nat \ {0}
      /\ w[Len(w)] = m
  <2>1. 1 \in Nat \ {0}
    OBVIOUS
  <2> QED BY <2>1, KeepLastFacts
<1>2. ASSUME NEW i \in 1..Len(w) PROVE i = Len(w)
  BY <1>1
<1> QED BY <1>1, <1>2

LEMMA PlayKeepsView ==
  ASSUME TypeOK, ViewInv, Play
  PROVE  ViewInv'
<1> USE DEF ViewInv
<1>1. published \in Nat /\ published' \in {published, published + 1}
  BY PublishedGrows DEF Play
<1>2. UNCHANGED <<pending, tracks, annotated>>
  BY DEF Play
<1>3. CASE published' = published
  <2>1. waiting' = waiting
    BY <1>3 DEF Play
  <2> QED BY <1>2, <1>3, <2>1 DEF ViewTypeOK, InView, NeverAhead
<1>4. CASE published' # published
  <2>1. published' = published + 1 /\ Show
    BY <1>1, <1>4 DEF Play
  <2>0. waiting \in Seq(Nat) /\ Len(waiting) <= 1
    BY DEF ViewTypeOK, Frame
  <2>2. waiting' = KeepLast(waiting, 1, published) =>
          /\ waiting' \in Seq(Nat) /\ Len(waiting') <= 1
          /\ \A i \in 1..Len(waiting') : waiting'[i] = published
    BY <1>1, <2>0, OneWaits
  <2>3. waiting' \in Seq(Nat) /\ Len(waiting') <= 1
    <3>1. CASE ~Lossless /\ waiting' = waiting
      BY <2>0, <3>1
    <3>2. CASE waiting' = KeepLast(waiting, 1, published)
      BY <2>2, <3>2
    <3> QED BY <2>1, <3>1, <3>2 DEF Show
  <2>4. Lossless => \A i \in 1..Len(waiting') : waiting'[i] = published' - 1
    <3> SUFFICES ASSUME Lossless, NEW i \in 1..Len(waiting')
                 PROVE  waiting'[i] = published' - 1
      OBVIOUS
    <3>1. waiting'[i] = published
      BY <2>1, <2>2 DEF Show
    <3> QED BY <1>1, <2>1, <3>1
  <2>5. \A i \in 1..Len(pending) : pending[i] \in Int
    BY DEF ViewTypeOK, Frame
  <2>6. tracks \in Int
    BY DEF ViewTypeOK, Frame, None
  <2>7. InView'
    BY <1>1, <1>2, <2>1, <2>4, <2>5, <2>6 DEF InView
  <2> QED BY <1>2, <2>3, <2>7 DEF ViewTypeOK, NeverAhead, Frame
<1> QED BY <1>3, <1>4

LEMMA TrackKeepsView ==
  ASSUME IInv, ViewInv, Track
  PROVE  ViewInv'
<1> USE DEF ViewInv
<1>1. UNCHANGED <<published, waiting, tracks, annotated>>
  BY DEF Track, Deliver, playerVars
<1>2. working \in Nat /\ working < published
  BY DEF Track, Deliver, PublishTracks, IInv, TypeOK, Order, Frame
<1> DEFINE k == KeepLast(pending, ViewDepth, working)
<1>3. pending' = k
  BY DEF Track
<1>4. pending \in Seq(Nat) /\ Len(pending) <= ViewDepth /\ ViewDepth \in Nat \ {0}
  BY ViewAssumption DEF ViewTypeOK, Frame
<1>5. /\ k \in Seq(Nat) /\ Len(k) <= ViewDepth /\ Len(k) \in Nat \ {0}
      /\ k[Len(k)] = working
      /\ Len(pending) < ViewDepth =>
           Len(k) = Len(pending) + 1 /\ \A i \in 1..Len(pending) : k[i] = pending[i]
      /\ Len(pending) >= ViewDepth =>
           Len(k) = Len(pending) /\ \A i \in 1..(Len(pending) - 1) : k[i] = pending[i + 1]
  BY <1>2, <1>4, KeepLastFacts
<1> HIDE DEF k
<1>6. ASSUME NEW i \in 1..Len(k) PROVE k[i] < published
  <2>1. Len(pending) \in Nat
    BY <1>4
  <2>2. CASE i = Len(k)
    BY <1>2, <1>5, <2>2
  <2>3. CASE i # Len(k) /\ Len(pending) < ViewDepth
    <3>1. i \in 1..Len(pending)
      BY <1>5, <2>1, <2>3
    <3> QED BY <1>5, <2>3, <3>1 DEF InView
  <2>4. CASE i # Len(k) /\ Len(pending) >= ViewDepth
    <3>1. i \in 1..(Len(pending) - 1) /\ i + 1 \in 1..Len(pending)
      BY <1>5, <2>1, <2>4
    <3> QED BY <1>5, <2>4, <3>1 DEF InView
  <2> QED BY <1>4, <2>1, <2>2, <2>3, <2>4
<1> QED BY <1>1, <1>3, <1>5, <1>6 DEF ViewTypeOK, InView, NeverAhead, Frame

LEMMA ViewSteps ==
  ASSUME TypeOK, ViewInv, OnTracks \/ OnImage
  PROVE  ViewInv'
<1> USE DEF ViewInv
<1>1. published' = published /\ published \in Nat
  BY DEF OnTracks, OnImage, vars, playerVars, TypeOK
<1>2. CASE OnTracks
  <2>1. pending \in Seq(Nat) /\ pending # <<>> /\ tracks' = Head(pending)
        /\ pending' = Tail(pending) /\ UNCHANGED <<waiting, annotated>>
    BY <1>2 DEF OnTracks, ViewTypeOK, Frame
  <2>2. /\ Head(pending) = pending[1] /\ Head(pending) \in Nat
        /\ Tail(pending) \in Seq(Nat) /\ Len(Tail(pending)) = Len(pending) - 1
        /\ \A i \in 1..(Len(pending) - 1) : Tail(pending)[i] = pending[i + 1]
        /\ Len(pending) \in Nat \ {0}
    BY <2>1
  <2>3. InView'
    BY <1>1, <2>1, <2>2 DEF InView
  <2> QED BY <2>1, <2>2, <2>3, ViewAssumption DEF ViewTypeOK, NeverAhead, Frame
<1>3. CASE OnImage
  <2>1. waiting \in Seq(Nat) /\ Len(waiting) <= 1 /\ waiting # <<>>
    BY <1>3 DEF OnImage, ViewTypeOK, Frame
  <2>2. /\ Head(waiting) = waiting[1] /\ Head(waiting) \in Nat
        /\ Tail(waiting) \in Seq(Nat) /\ Len(Tail(waiting)) = Len(waiting) - 1
        /\ Len(waiting) \in Nat \ {0}
    BY <2>1, TailFacts
  <2>3. /\ annotated' = [image |-> waiting[1], tracks |-> tracks]
        /\ waiting' = Tail(waiting) /\ UNCHANGED <<pending, tracks>>
    BY <1>3, <2>2 DEF OnImage
  <2>4. tracks \in Nat \cup {None}
    BY DEF ViewTypeOK, Frame
  <2>8. waiting' \in Seq(Nat) /\ Len(waiting') = 0
    BY <2>1, <2>2, <2>3
  <2>9. 1 \in 1..Len(waiting)
    BY <2>1, <2>2
  <2>5. NeverAhead'
    <3>1. Lossless => waiting[1] = published - 1
      BY <2>9 DEF InView
    <3> QED BY <1>1, <2>3, <2>4, <3>1 DEF InView, NeverAhead, None
  <2>6. ViewTypeOK'
    <3>1. waiting[1] \in Nat
      BY <2>2
    <3> QED BY <2>3, <2>4, <2>8, <3>1 DEF ViewTypeOK, Frame
  <2>7. InView'
    BY <1>1, <2>3, <2>8 DEF InView
  <2> QED BY <2>5, <2>6, <2>7
<1> QED BY <1>2, <1>3

LEMMA ViewInductive == IInv /\ ViewInv /\ [ViewNext]_allVars => ViewInv'
<1> SUFFICES ASSUME IInv, ViewInv, [ViewNext]_allVars PROVE ViewInv'
  OBVIOUS
<1>1. CASE Play
  BY <1>1, PlayKeepsView DEF IInv
<1>2. CASE Track
  BY <1>2, TrackKeepsView
<1>3. CASE OnTracks \/ OnImage
  BY <1>3, ViewSteps DEF IInv
<1>4. CASE published' = published /\ UNCHANGED viewVars
  BY <1>4 DEF viewVars, ViewInv, ViewTypeOK, InView, NeverAhead
<1>5. (Operate \/ Take) /\ UNCHANGED viewVars => published' = published
  BY DEF Operate, Take, playerVars
<1>6. UNCHANGED allVars => published' = published /\ UNCHANGED viewVars
  BY DEF allVars, vars, playerVars
<1> QED BY <1>1, <1>2, <1>3, <1>4, <1>5, <1>6 DEF ViewNext

(* The view only looks on: with it, player and tracker do what they do without. *)
THEOREM ViewLooksOn == ViewSpec => Spec
<1>1. ViewInit => Init
  BY DEF ViewInit
<1>2. [ViewNext]_allVars => [Next]_vars
  BY DEF ViewNext, Play, Track, OnTracks, OnImage, Next, allVars
<1> QED BY <1>1, <1>2, PTL DEF ViewSpec, Spec

(* draw_node.cpp with images that are not lost: no picture carries the tracks
   of a later frame. *)
THEOREM ViewNeverAhead == ViewSpec => []NeverAhead
<1>1. ViewInv => NeverAhead
  BY DEF ViewInv
<1> QED BY <1>1, ViewInitially, ViewInductive, ViewLooksOn, Inductive, PTL DEF ViewSpec
=============================================================================
