---------------------------- MODULE NanoTemplate ----------------------------
(***************************************************************************)
(* The dual template of core/src/sot/nanotrack.cpp under the facade that   *)
(* judges its frames: the head is fed the template frozen at the seeding,  *)
(* or its blend with the tracked box of a later, confident frame.          *)
(*                                                                         *)
(* The facade is SotTracker, unchanged; `template` is what the backend was *)
(* seeded on.  A score is one of a few levels: the threshold the facade    *)
(* loses a target by and the one the backend refreshes by are set apart    *)
(* and compared with the same number.                                      *)
(***************************************************************************)
EXTENDS SotTracker

CONSTANTS
  RefreshEvery,        \* template_update_interval; 0 is off
  Scores,              \* the levels a score is told apart by
  LostThr,             \* lost_score_thr
  RefreshThr           \* template_refresh_thr

ASSUME RefreshAssumption ==
  /\ Backend = "NanoTrack"
  /\ RefreshEvery \in Nat
  /\ Scores \subseteq Nat
  /\ LostThr \in Nat /\ RefreshThr \in Nat

VARIABLES
  mix,                 \* the look in zf_mix_ beside the template; NoCrop when empty
  since_refresh,       \* since_refresh_, up to the interval it is compared with
  credited,            \* history: looks, since the seeding, of frames with no low score
  settled              \* history: frames since the template last changed, capped likewise

blend == <<mix, since_refresh, credited, settled>>
allVars == <<vars, blend>>

-----------------------------------------------------------------------------
BlendInit ==
  /\ Init
  /\ mix = NoCrop
  /\ credited = {}
  /\ since_refresh = 0 /\ settled = 0

(* Mutants of Seed: the blend with the last target stays; its clock runs on. *)
SeedKeepsBlend ==
  /\ since_refresh' = 0
  /\ credited' = {}
  /\ settled' = 0
  /\ UNCHANGED mix

SeedKeepsClock ==
  /\ mix' = NoCrop
  /\ credited' = {}
  /\ settled' = 0
  /\ UNCHANGED since_refresh

(* NanoTracker::init(). *)
Seed ==
  /\ mix' = NoCrop
  /\ since_refresh' = 0
  /\ credited' = {}
  /\ settled' = 0

Counted(n) == IF n < RefreshEvery THEN n + 1 ELSE n

RefreshDue(score) ==
  /\ RefreshEvery > 0
  /\ since_refresh + 1 >= RefreshEvery
  /\ score >= RefreshThr

(* A frame that leaves the template as it is. *)
Settle(score) ==
  /\ ~RefreshDue(score)
  /\ since_refresh' = Counted(since_refresh)
  /\ settled' = Counted(settled)
  /\ UNCHANGED mix

(* The box tracked takes the place of whatever was blended in before. *)
Refresh(look, score) ==
  /\ RefreshDue(score)
  /\ mix' = look
  /\ since_refresh' = 0
  /\ settled' = 0

(* NanoTracker::update(), which is over before the facade judges the frame. *)
Follow(b, score) ==
  /\ Settle(score) \/ Refresh(b.look, score)
  /\ credited' = IF score >= LostThr THEN credited \cup {b.look} ELSE credited

-----------------------------------------------------------------------------
SeedTarget(b) == InitTarget(b) /\ Seed

Equip == EnableReacquire /\ UNCHANGED blend

(* update() of the facade, by where its judgement of the frame leads. *)
Healthy(b, score) ==
  /\ score >= LostThr
  /\ Track(b) \/ Verify(b)
  /\ Follow(b, score)

Doubted(b, score) ==
  /\ score < LostThr
  /\ Falter(b)
  /\ Follow(b, score)

(* Lost by its score or by a verdict; a re-lock seeds the backend anew, after
   it has followed the frame. *)
Adrift(b, score) ==
  /\ IF score < LostThr THEN Lose(b) ELSE Drift(b)
  /\ IF r'.state = "Lost" THEN Follow(b, score) ELSE Seed

BlendNext ==
  \/ Equip
  \/ \E b \in Designated : SeedTarget(b)
  \/ \E b \in Tracked, score \in Scores :
       Healthy(b, score) \/ Doubted(b, score) \/ Adrift(b, score)

BlendSpec == BlendInit /\ [][BlendNext]_allVars

-----------------------------------------------------------------------------
BlendTypeOK ==
  /\ mix \in Look \cup {NoCrop}
  /\ since_refresh \in 0..RefreshEvery
  /\ credited \subseteq Look
  /\ settled \in 0..RefreshEvery

(* What is blended into the template was seen under the box tracked since the
   designation or the re-lock that seeded the backend, on a frame whose score is
   not below lost_score_thr.  Neither a low score nor the target before leaves a
   trace in it, through any chain of losses and re-locks.  It says nothing about
   looks: a frame with a good score that the drift check then rejects is blended
   in all the same.  It takes thresholds in the order of the defaults, 0.30 and
   0.7, which the code does not enforce. *)
BlendOfThisTarget == mix # NoCrop => mix \in credited

(* The template is given RefreshEvery frames before it changes again, and as
   many after a seeding. *)
RefreshesApart ==
  [][mix' \notin {mix, NoCrop} => settled + 1 >= RefreshEvery]_allVars
=============================================================================
