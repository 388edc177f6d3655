----------------------------- MODULE ByteTracker -----------------------------
(***************************************************************************)
(* Association and track lifecycle of core/src/tbd/byte_tracker.cpp.       *)
(*                                                                         *)
(* One step is one update() with the detections of a frame.  Geometry is   *)
(* free: a detection is its index and its score level, and which of the    *)
(* pairs offered to the gated assignment overlap enough to be matched is   *)
(* the environment's choice.  No pair is offered to two of the three       *)
(* stages, so the choices are independent.  coast() moves boxes and ages   *)
(* only; MultiTracker has it as a step.                                    *)
(***************************************************************************)
EXTENDS Integers, FiniteSets

CONSTANTS
  NInit,               \* n_init: hits to confirm
  MaxAge,              \* max_age: detect frames a lost track survives
  TentativePatience,   \* tentative_patience
  UseByte,             \* use_byte: run stage 2
  MaxDets,             \* bound: detections per frame
  MaxId,               \* bound: ids handed out
  HitCap               \* bound: hits counted; only 1 and n_init are tested

ASSUME AssocAssumption ==
  /\ NInit \in Nat /\ MaxAge \in Nat /\ TentativePatience \in Nat
  /\ UseByte \in BOOLEAN
  /\ MaxDets \in Nat /\ MaxId \in Nat
  /\ HitCap \in Nat /\ HitCap >= NInit /\ HitCap > 1

VARIABLES
  tracks,              \* the live tracks, a set of records
  next_id              \* next_id_

assocVars == <<tracks, next_id>>

-----------------------------------------------------------------------------
TrackState == {"Tentative", "Confirmed", "Lost"}

(* Below track_thresh; at least track_thresh; also at least new_track_thresh. *)
Score == {"low", "high", "sure"}

(* hits and tsu are STrack's hits and time_since_update, score the level of
   the last detection matched; det is history: the index of the detection
   matched in the last update, 0 if none. *)
Track == [id : Nat \ {0}, state : TrackState, hits : Nat \ {0}, tsu : Nat,
          score : Score, det : Nat]

Frames == UNION {[1..n -> Score] : n \in 0..MaxDets}

(* One gated assignment: every track and every detection in at most one pair. *)
MatchByIou(T, D) ==
  {m \in SUBSET (T \X D) :
     \A p, q \in m : p[1] = q[1] \/ p[2] = q[2] => p = q}

(* Mutant of Free: a detection stays on offer after a match. *)
FreeForAll(D, m) == D

Unmatched(T, m) == {t \in T : \A p \in m : p[1] # t}
Free(D, m) == {d \in D : \A p \in m : p[2] # d}

(* Mutant of Predict: a Lost track does not age. *)
PredictHoldsLost(t) ==
  [t EXCEPT !.tsu = IF t.state = "Lost" THEN @ ELSE @ + 1, !.det = 0]

Predict(t) == [t EXCEPT !.tsu = @ + 1, !.det = 0]

Mature(T) == {t \in T : t.state # "Tentative"}
Tentative(T) == {t \in T : t.state = "Tentative"}

(* Mutant of Recent: stage 2 serves every unmatched mature track. *)
RecentOrNot(T) == T

(* Stage 2 serves tracks matched as recently as the previous frame. *)
Recent(T) == {t \in T : t.state = "Confirmed" /\ t.tsu = 1}

MarkMatched(t, j, score) ==
  LET hits == IF t.hits < HitCap THEN t.hits + 1 ELSE t.hits
  IN  [t EXCEPT !.tsu   = 0,
                !.hits  = hits,
                !.score = score,
                !.det   = j,
                !.state = IF t.state = "Lost" \/ hits >= NInit THEN "Confirmed"
                                                               ELSE t.state]

(* Mutant of Missed: a miss leaves Confirmed. *)
MissedStaysConfirmed(t) == t

(* Lifecycle of an unmatched track. *)
Missed(t) == IF t.state = "Confirmed" THEN [t EXCEPT !.state = "Lost"] ELSE t

(* Mutant of Expired: a frame early. *)
ExpiredEarly(t) ==
  IF t.state = "Tentative" THEN t.tsu >= TentativePatience ELSE t.tsu >= MaxAge

Expired(t) ==
  IF t.state = "Tentative" THEN t.tsu > TentativePatience ELSE t.tsu > MaxAge

(* New tracks take consecutive ids in the order of their detections. *)
Rank(D, j) == Cardinality({k \in D : k < j})

(* Mutant of Spawn: the births of a frame share one id. *)
SpawnTwins(D, id) ==
  {[id    |-> id,
    state |-> IF NInit <= 1 THEN "Confirmed" ELSE "Tentative",
    hits  |-> 1, tsu |-> 0, score |-> "sure", det |-> j] : j \in D}

Spawn(D, id) ==
  {[id    |-> id + Rank(D, j),
    state |-> IF NInit <= 1 THEN "Confirmed" ELSE "Tentative",
    hits  |-> 1, tsu |-> 0, score |-> "sure", det |-> j] : j \in D}

-----------------------------------------------------------------------------
Init ==
  /\ tracks = {}
  /\ next_id = 1

(* The tracks after the matches, the misses and the births of one frame. *)
Survivors(T, m) == {t \in {Missed(u) : u \in Unmatched(T, m)} : ~Expired(t)}

(* Mutant of Settle: ids are numbered by the live tracks. *)
SettleRenumbers(dets, predicted, m, births) ==
  /\ next_id + Cardinality(births) <= MaxId + 1
  /\ tracks' = {MarkMatched(p[1], p[2], dets[p[2]]) : p \in m}
               \cup Survivors(predicted, m)
               \cup Spawn(births, next_id)
  /\ next_id' = Cardinality(tracks') + 1

Settle(dets, predicted, m, births) ==
  /\ next_id + Cardinality(births) <= MaxId + 1
  /\ tracks' = {MarkMatched(p[1], p[2], dets[p[2]]) : p \in m}
               \cup Survivors(predicted, m)
               \cup Spawn(births, next_id)
  /\ next_id' = next_id + Cardinality(births)

Update(dets) ==
  LET predicted == {Predict(t) : t \in tracks}
      high == {j \in DOMAIN dets : dets[j] # "low"}
      low  == {j \in DOMAIN dets : dets[j] = "low"}
  IN  \E m1 \in MatchByIou(Mature(predicted), high) :
      \E m2 \in MatchByIou(IF UseByte THEN Recent(Unmatched(Mature(predicted), m1))
                                      ELSE {}, low) :
      \E m3 \in MatchByIou(Tentative(predicted), Free(high, m1)) :
        Settle(dets, predicted, m1 \cup m2 \cup m3,
               {j \in Free(Free(high, m1), m3) : dets[j] = "sure"})

Next == \E dets \in Frames : Update(dets)

Spec == Init /\ [][Next]_assocVars

-----------------------------------------------------------------------------
TypeOK ==
  /\ tracks \subseteq Track
  /\ next_id \in Nat \ {0}

(* Two live tracks never carry one id, and no id is ahead of the counter. *)
UniqueIds ==
  /\ \A t, u \in tracks : t.id = u.id => t = u
  /\ \A t \in tracks : t.id < next_id

(* What the state of a track says about its counters between two updates:
   Confirmed means matched in the last detect frame, which is what makes the
   stage-2 window; Lost and Tentative tracks are within their allowance. *)
Lifecycle ==
  \A t \in tracks :
    /\ t.state = "Confirmed" => t.tsu = 0
    /\ t.state = "Lost"      => t.tsu \in 1..MaxAge
    /\ t.state = "Tentative" => t.tsu <= TentativePatience /\ t.hits < NInit
    /\ t.state # "Tentative" => t.hits >= NInit \/ NInit <= 1

(* One detection feeds one track: through three stages and the births no two
   tracks end a frame on the same detection. *)
OneDetectionOneTrack ==
  \A t, u \in tracks : t.det # 0 /\ t.det = u.det => t = u

(* An id that appears in a frame is new: it was never handed out before, for
   ids come from the counter and the counter never turns back. *)
IdsAreNeverReused ==
  [][/\ next_id' >= next_id
     /\ \A u \in tracks' : \/ \E t \in tracks : t.id = u.id
                           \/ u.id >= next_id]_assocVars

(* Low-score detections only bridge: they feed a track that was matched in
   the previous detect frame, and never revive a Lost track, never feed a
   Tentative one and never start a new one. *)
LowScoreOnlyBridges ==
  [][\A u \in tracks' :
       u.det # 0 /\ u.score = "low" =>
         \E t \in tracks : t.id = u.id /\ t.state = "Confirmed" /\ t.tsu = 0]_assocVars

(* A track never loses maturity: once confirmed it is Confirmed or Lost until
   it is gone, and it stays as long as max_age allows. *)
MaturityIsKept ==
  [][\A t \in tracks :
       t.state # "Tentative" =>
         \/ \E u \in tracks' : u.id = t.id /\ u.state # "Tentative"
         \/ t.tsu = MaxAge]_assocVars
=============================================================================
