-------------------------- MODULE SotTracker_proof --------------------------
(***************************************************************************)
(* Theorems about the single-object tracker, for every configuration,      *)
(* every similarity and every set of positions; at the end, about the dual *)
(* template its backend keeps, for every interval and pair of thresholds.  *)
(***************************************************************************)
EXTENDS NanoTemplate, SotPick, SetRecursion, TLAPS

(* An embedder that produces a reference at all. *)
ReidActive == Embedder = "HsvHist" \/ (Embedder = "NanoZ" /\ Backend = "NanoTrack")

(* The reference stays the one captured from the designated target. *)
RefIsTarget == ReidActive => ref = target

(* While no verdict stands, strays are also counted by since_drift_check. *)
StraysCounted ==
  /\ drift_latched => DriftChecks
  /\ DriftChecks /\ ~drift_latched => strays <= since_drift_check

(* A box reported as Tracking is the anchor of the search. *)
Anchored == r.state = "Tracking" => last_good = r.pos

IInv ==
  /\ TypeOK
  /\ Anchored
  /\ StateFromStreak
  /\ VerdictHolds
  /\ FullCycleFirst
  /\ RefIsTarget
  /\ NeverLocksLookalike
  /\ StraysCounted
  /\ DriftBlindSpot

-----------------------------------------------------------------------------
LEMMA ZeroMod == \A d \in Nat \ {0} : 0 % d = 0
  BY SMT

(* The detection picked came from the detector and passed every gate. *)
LEMMA PickedEligible ==
  ASSUME NEW lost, NEW dets \in Detections, NEW c \in Picked(dets, lost)
  PROVE  c \in Candidate /\ Eligible(c, lost)
<1>1. PICK i \in DOMAIN dets : c = dets[i] /\ Eligible(dets[i], lost)
  BY DEF Picked
<1>2. PICK n \in 0..MaxDets : dets \in [1..n -> Candidate]
  BY DEF Detections
<1> QED BY <1>1, <1>2

LEMMA CropType == Crop \subseteq Look \cup {NoCrop}
  BY DEF Crop

-----------------------------------------------------------------------------
LEMMA InitIInv == Init => IInv
<1> SUFFICES ASSUME Init PROVE IInv
  OBVIOUS
<1> USE ConfigAssumption, DataAssumption DEF Init
<1>1. TypeOK
  BY DEF TypeOK, States
<1>2. Anchored /\ StateFromStreak /\ VerdictHolds /\ RefIsTarget /\ NeverLocksLookalike
  BY DEF Anchored, StateFromStreak, VerdictHolds, RefIsTarget, NeverLocksLookalike
<1>3. FullCycleFirst
  BY ZeroMod DEF FullCycleFirst
<1>4. StraysCounted /\ DriftBlindSpot
  BY DEF StraysCounted, DriftBlindSpot, DriftChecks
<1> QED BY <1>1, <1>2, <1>3, <1>4 DEF IInv

LEMMA EnableReacquireIInv == IInv /\ EnableReacquire => IInv'
  BY DEF EnableReacquire, counters, IInv, TypeOK, Anchored, StateFromStreak, VerdictHolds,
     FullCycleFirst, RefIsTarget, NeverLocksLookalike, StraysCounted,
     DriftBlindSpot, DriftChecks

LEMMA InitTargetIInv ==
  ASSUME IInv, NEW b \in Designated, InitTarget(b)
  PROVE  IInv'
<1> USE ConfigAssumption, DataAssumption DEF IInv, InitTarget, Report
<1>0. b.pos \in Pos /\ b.look \in Look \cup {NoCrop}
  BY CropType DEF Designated
<1>1. TypeOK'
  BY <1>0 DEF TypeOK, States
<1>2. /\ Anchored' /\ StateFromStreak' /\ VerdictHolds'
      /\ RefIsTarget' /\ NeverLocksLookalike'
  BY DEF Anchored, StateFromStreak, VerdictHolds, RefIsTarget, ReidActive, NeverLocksLookalike
<1>3. FullCycleFirst'
  BY ZeroMod DEF FullCycleFirst
<1>4. StraysCounted' /\ DriftBlindSpot'
  BY DEF StraysCounted, DriftBlindSpot, DriftChecks
<1> QED BY <1>1, <1>2, <1>3, <1>4

(* What a credible frame does to the parts that its two callers share. *)
LEMMA CredibleIInv ==
  ASSUME IInv, NEW b \in Tracked, Credible(b),
         since_drift_check' \in Nat, drift_latched' = FALSE
  PROVE  /\ TypeOK' /\ Anchored' /\ StateFromStreak' /\ VerdictHolds'
         /\ FullCycleFirst' /\ RefIsTarget' /\ NeverLocksLookalike'
<1> USE ConfigAssumption, DataAssumption DEF IInv, Credible, Report
<1>0. b.pos \in Pos /\ b.look \in Look
  BY DEF Tracked
<1>1. TypeOK'
  <2>1. strays' \in Nat
    BY DEF TypeOK
  <2>2. UNCHANGED <<has_detector, ref, template, target>> /\ drift_latched' \in BOOLEAN
    OBVIOUS
  <2>3. r' \in [pos : Pos, look : Look \cup {NoCrop}, state : States]
    BY <1>0 DEF States
  <2> QED BY <1>0, <2>1, <2>2, <2>3 DEF TypeOK
<1>2. /\ Anchored' /\ StateFromStreak' /\ VerdictHolds'
      /\ RefIsTarget' /\ NeverLocksLookalike'
  BY DEF Anchored, StateFromStreak, VerdictHolds, RefIsTarget, NeverLocksLookalike
<1>3. FullCycleFirst'
  BY ZeroMod DEF FullCycleFirst
<1> QED BY <1>1, <1>2, <1>3

LEMMA TrackIInv ==
  ASSUME IInv, NEW b \in Tracked, Track(b)
  PROVE  IInv'
<1> USE ConfigAssumption
<1>1. ~drift_latched
  BY DEF Track, CheckDue, IInv, StraysCounted
<1>2. since_drift_check' \in Nat /\ drift_latched' = FALSE
  BY <1>1 DEF Track, IInv, TypeOK
<1>3. StraysCounted' /\ DriftBlindSpot'
  BY <1>1, <1>2 DEF Track, Credible, CheckDue, IInv, TypeOK, StraysCounted,
                    DriftBlindSpot, DriftChecks
<1>4. Credible(b)
  BY DEF Track
<1>5. /\ TypeOK' /\ Anchored' /\ StateFromStreak' /\ VerdictHolds'
      /\ FullCycleFirst' /\ RefIsTarget' /\ NeverLocksLookalike'
  BY <1>2, <1>4, CredibleIInv
<1> QED BY <1>3, <1>5 DEF IInv

LEMMA VerifyIInv ==
  ASSUME IInv, NEW b \in Tracked, Verify(b)
  PROVE  IInv'
<1> USE ConfigAssumption
<1>1. since_drift_check' \in Nat /\ drift_latched' = FALSE
  BY DEF Verify
<1>2. ~Stray(b.look)
  <2>1. Embedder # "None" /\ Similarity(b.look) >= DriftThr
    BY DEF Verify, CheckDue, DriftChecks
  <2>2. b.look \in Look /\ b.look # NoCrop
    BY DataAssumption DEF Tracked
  <2>3. CASE Embedder = "NanoZ" /\ Backend = "Mosse"
    BY <2>3 DEF Stray
  <2>4. CASE target = NoCrop
    BY <2>4 DEF Stray
  <2>5. CASE target # NoCrop /\ ~(Embedder = "NanoZ" /\ Backend = "Mosse")
    <3>1. ref = target
      BY <2>1, <2>5 DEF IInv, RefIsTarget, ReidActive
    <3>2. Similarity(b.look) = Sim[target][b.look]
      BY <2>1, <2>2, <2>5, <3>1 DEF Similarity
    <3>3. Sim[target][b.look] \in Int /\ DriftThr \in Int
      BY <2>2, <2>5, DataAssumption DEF IInv, TypeOK
    <3> QED BY <2>1, <3>2, <3>3 DEF Stray
  <2> QED BY <2>3, <2>4, <2>5
<1>3. strays' = 0
  BY <1>2 DEF Verify, Credible
<1>4. StraysCounted' /\ DriftBlindSpot'
  BY <1>1, <1>3 DEF Verify, IInv, TypeOK, StraysCounted, DriftBlindSpot, DriftChecks
<1>5. Credible(b)
  BY DEF Verify
<1>6. /\ TypeOK' /\ Anchored' /\ StateFromStreak' /\ VerdictHolds'
      /\ FullCycleFirst' /\ RefIsTarget' /\ NeverLocksLookalike'
  BY <1>1, <1>5, CredibleIInv
<1> QED BY <1>4, <1>6 DEF IInv

LEMMA FalterIInv ==
  ASSUME IInv, NEW b \in Tracked, Falter(b)
  PROVE  IInv'
<1> USE ConfigAssumption, DataAssumption DEF IInv, Falter, Report
<1>0. b.pos \in Pos /\ b.look \in Look
  BY DEF Tracked
<1>1. TypeOK'
  BY <1>0 DEF TypeOK, States
<1>2. Anchored' /\ StateFromStreak' /\ RefIsTarget' /\ NeverLocksLookalike'
  BY DEF TypeOK, Anchored, StateFromStreak, RefIsTarget, NeverLocksLookalike
<1>3. VerdictHolds'
  BY DEF TypeOK, StateFromStreak, VerdictHolds
<1>4. FullCycleFirst'
  BY DEF TypeOK, StateFromStreak, FullCycleFirst
<1>5. StraysCounted' /\ DriftBlindSpot'
  BY DEF StraysCounted, DriftBlindSpot, DriftChecks
<1> QED BY <1>1, <1>2, <1>3, <1>4, <1>5

(* A Lost frame, re-locked or not, keeps the parts of the invariant that do
   not speak of the drift counters. *)
LEMMA SeekIInv ==
  ASSUME IInv, NEW b \in Tracked, NEW streak \in Nat, streak >= LostPatience,
         Seek(b, streak), drift_latched' \in BOOLEAN, since_drift_check' \in Nat
  PROVE  /\ TypeOK' /\ Anchored' /\ StateFromStreak' /\ VerdictHolds'
         /\ FullCycleFirst' /\ RefIsTarget' /\ NeverLocksLookalike'
<1> USE ConfigAssumption, DataAssumption
<1>0. b.pos \in Pos /\ b.look \in Look
  BY DEF Tracked
<1>1. UNCHANGED <<has_detector, last_good, target, strays>>
  BY DEF Seek
<1>2. frames_lost' \in Nat
  BY DEF Seek, IInv, TypeOK
<1>3. CASE StayLost(b, streak)
  <2> USE <1>3 DEF StayLost, Report
  <2>1. TypeOK'
    BY <1>0, <1>1, <1>2 DEF IInv, TypeOK, States
  <2>2. Anchored' /\ StateFromStreak' /\ VerdictHolds' /\ FullCycleFirst'
    BY DEF Anchored, StateFromStreak, VerdictHolds, FullCycleFirst
  <2>3. RefIsTarget' /\ NeverLocksLookalike'
    BY <1>1 DEF IInv, RefIsTarget, NeverLocksLookalike
  <2> QED BY <2>1, <2>2, <2>3
<1>4. ASSUME NEW dets \in Detections, NEW c \in Picked(dets, frames_lost + 1),
             Relock(c), (frames_lost + 1) % DetectEvery = 0,
             frames_lost' = frames_lost + 1
      PROVE  /\ TypeOK' /\ Anchored' /\ StateFromStreak' /\ VerdictHolds'
             /\ FullCycleFirst' /\ RefIsTarget' /\ NeverLocksLookalike'
  <2>0. c \in Candidate /\ Eligible(c, frames_lost + 1)
    BY <1>4, PickedEligible
  <2>1. c.pos \in Pos /\ c.look \in Look \cup {NoCrop}
    BY <2>0, CropType DEF Candidate
  <2>2. TypeOK'
    <3>1. r' \in [pos : Pos, look : Look \cup {NoCrop}, state : States]
      BY <1>4, <2>1 DEF Relock, Report, States
    <3>2. low_streak' \in Nat /\ ref' = ref /\ template' = c.look
      BY <1>4 DEF Relock
    <3> QED BY <1>1, <1>2, <1>4, <2>1, <3>1, <3>2 DEF IInv, TypeOK
  <2>3. Anchored' /\ StateFromStreak' /\ VerdictHolds' /\ FullCycleFirst'
    BY <1>4 DEF Relock, Report, Anchored, StateFromStreak, VerdictHolds, FullCycleFirst
  <2>4. RefIsTarget'
    BY <1>1, <1>4 DEF Relock, IInv, RefIsTarget
  <2>5. NeverLocksLookalike'
    <3>1. SUFFICES ASSUME ReidActive, c.look # NoCrop, target # NoCrop
                   PROVE  Sim[target][c.look] >= Accept
      BY <1>1, <1>4 DEF Relock, NeverLocksLookalike, ReidActive
    <3>2. ref = target
      BY <3>1 DEF IInv, RefIsTarget
    <3>3. Similarity(c.look) = Sim[target][c.look]
      BY <3>1, <3>2 DEF Similarity, ReidActive
    <3>4. Similarity(c.look) >= Accept
      BY <2>0, <3>1 DEF Eligible, ReidActive
    <3> QED BY <3>3, <3>4
  <2> QED BY <2>2, <2>3, <2>4, <2>5
<1>5. \/ StayLost(b, streak)
      \/ /\ frames_lost' = frames_lost + 1
         /\ (frames_lost + 1) % DetectEvery = 0
         /\ \E dets \in Detections :
              \E c \in Picked(dets, frames_lost + 1) : Relock(c)
  BY DEF Seek
<1> QED BY <1>3, <1>4, <1>5

LEMMA LoseIInv ==
  ASSUME IInv, NEW b \in Tracked, Lose(b)
  PROVE  IInv'
<1> USE ConfigAssumption
<1>1. /\ low_streak + 1 \in Nat /\ low_streak + 1 >= LostPatience
      /\ Seek(b, low_streak + 1)
      /\ UNCHANGED <<since_drift_check, drift_latched, strays>>
  BY DEF Lose, Seek, IInv, TypeOK
<1>2. drift_latched' \in BOOLEAN /\ since_drift_check' \in Nat
  BY <1>1 DEF IInv, TypeOK
<1>3. /\ TypeOK' /\ Anchored' /\ StateFromStreak' /\ VerdictHolds'
      /\ FullCycleFirst' /\ RefIsTarget' /\ NeverLocksLookalike'
  BY <1>1, <1>2, SeekIInv
<1>4. StraysCounted' /\ DriftBlindSpot'
  BY <1>1 DEF IInv, StraysCounted, DriftBlindSpot, DriftChecks
<1> QED BY <1>3, <1>4 DEF IInv

LEMMA DriftIInv ==
  ASSUME IInv, NEW b \in Tracked, Drift(b)
  PROVE  IInv'
<1> USE ConfigAssumption
<1>1. /\ Seek(b, LostPatience) /\ strays' = strays /\ DriftChecks
      /\ since_drift_check' = 0 /\ drift_latched' = TRUE
  BY DEF Drift, Seek, CheckDue
<1>2. LostPatience \in Nat /\ LostPatience >= LostPatience
  OBVIOUS
<1>3. /\ TypeOK' /\ Anchored' /\ StateFromStreak' /\ VerdictHolds'
      /\ FullCycleFirst' /\ RefIsTarget' /\ NeverLocksLookalike'
  BY <1>1, <1>2, SeekIInv
<1>4. StraysCounted' /\ DriftBlindSpot'
  BY <1>1 DEF IInv, StraysCounted, DriftBlindSpot, DriftChecks
<1> QED BY <1>3, <1>4 DEF IInv

-----------------------------------------------------------------------------
(* The invariant behind every theorem of this module: the counters, the
   reported state, the reference and the strays agree after every call. *)
THEOREM Inductive == Spec => []IInv
<1>1. IInv /\ [Next]_vars => IInv'
  <2> SUFFICES ASSUME IInv, [Next]_vars PROVE IInv'
    OBVIOUS
  <2>1. ASSUME NEW b \in Designated, InitTarget(b) PROVE IInv'
    BY <2>1, InitTargetIInv
  <2>2. ASSUME NEW b \in Tracked, Update(b) PROVE IInv'
    BY <2>2, TrackIInv, VerifyIInv, FalterIInv, LoseIInv, DriftIInv DEF Update
  <2>3. CASE UNCHANGED vars
    BY <2>3 DEF vars, counters, IInv, TypeOK, Anchored, StateFromStreak, VerdictHolds,
       FullCycleFirst, RefIsTarget, NeverLocksLookalike, StraysCounted,
       DriftBlindSpot, DriftChecks
  <2> QED BY <2>1, <2>2, <2>3, EnableReacquireIInv DEF Next
<1> QED BY InitIInv, <1>1, PTL DEF Spec

(* Every variable of the tracker keeps its type. *)
THEOREM TypeCorrect == Spec => []TypeOK
<1>1. IInv => TypeOK
  BY DEF IInv
<1> QED BY Inductive, <1>1, PTL

(* Lost is reported exactly when low_streak has reached the patience, whoever
   set low_streak: the scores, a drift verdict or the end of a probation. *)
THEOREM StreakTellsLost == Spec => []StateFromStreak
<1>1. IInv => StateFromStreak
  BY DEF IInv
<1> QED BY Inductive, <1>1, PTL

(* A drift verdict is never followed by Tracking before it is cleared. *)
THEOREM VerdictStands == Spec => []VerdictHolds
<1>1. IInv => VerdictHolds
  BY DEF IInv
<1> QED BY Inductive, <1>1, PTL

(* For every cadence, a target that gets Lost waits a full detector cycle. *)
THEOREM CadenceRestarts == Spec => []FullCycleFirst
<1>1. IInv => FullCycleFirst
  BY DEF IInv
<1> QED BY Inductive, <1>1, PTL

(* For every similarity measure, no chain of re-locks ends on something the
   designated target itself would have vetoed. *)
THEOREM NoLookalike == Spec => []NeverLocksLookalike
<1>1. IInv => NeverLocksLookalike
  BY DEF IInv
<1> QED BY Inductive, <1>1, PTL

(* For every check interval, confident drift stays unnoticed on fewer frames
   in a row than the interval. *)
THEOREM DriftIsCaught == Spec => []DriftBlindSpot
<1>1. IInv => DriftBlindSpot
  BY DEF IInv
<1> QED BY Inductive, <1>1, PTL

-----------------------------------------------------------------------------
(* The cadence of the contract is the residue of frames_lost. *)
LEMMA Division ==
  \A n \in Nat, d \in Nat \ {0} :
     n % d \in 0..(d - 1) /\ n \div d \in Nat /\ n = d * (n \div d) + (n % d)
  BY SMT

LEMMA Residue ==
  \A d \in Nat \ {0}, q \in Nat, s \in Nat : s < d => (d * q + s) % d = s
  BY SMT

LEMMA NextResidue ==
  ASSUME NEW n \in Nat, NEW d \in Nat \ {0}
  PROVE  /\ (n + 1) % d = ((n % d) + 1) % d
         /\ (n + 1) % d = 0 => (n % d) + 1 = d
<1> DEFINE q == n \div d
           s == n % d
<1>1. s \in 0..(d - 1) /\ q \in Nat /\ n = d * q + s
  BY Division
<1>2. CASE s + 1 < d
  <2>1. n + 1 = d * q + (s + 1)
    BY <1>1
  <2> HIDE DEF q, s
  <2>2. (n + 1) % d = s + 1
    BY <2>1, <1>1, <1>2, Residue
  <2>3. (s + 1) % d = s + 1
    BY <1>1, <1>2
  <2> QED BY <1>1, <2>2, <2>3 DEF s
<1>3. CASE s + 1 = d
  <2> HIDE DEF q, s
  <2>1. n + 1 = d * (q + 1) + 0
    BY <1>1, <1>3
  <2>2. (n + 1) % d = 0
    BY <2>1, <1>1, <1>3, Residue
  <2>3. (s + 1) % d = 0
    BY <1>1, <1>3
  <2> QED BY <1>3, <2>2, <2>3 DEF s
<1> QED BY <1>1, <1>2, <1>3

LEMMA InitImplements == Init => Contract!Init
  BY ConfigAssumption, ZeroMod DEF Init, Contract!Init

LEMMA InitTargetImplements ==
  ASSUME NEW b \in Designated, InitTarget(b)
  PROVE  Contract!Begin
  BY ConfigAssumption, ZeroMod DEF InitTarget, Report, Contract!Begin

LEMMA CredibleImplements ==
  ASSUME NEW b \in Tracked, Credible(b), drift_latched' = FALSE, r.state # "Idle"
  PROVE  Contract!Healthy
  BY ConfigAssumption, ZeroMod
  DEF Credible, Report, Contract!Begin, Contract!Healthy

LEMMA FalterImplements ==
  ASSUME IInv, NEW b \in Tracked, Falter(b)
  PROVE  Contract!Falter
<1>1. r.state \in {"Tracking", "Unstable"}
  BY ConfigAssumption DEF Falter, IInv, TypeOK, StateFromStreak, States
<1> QED BY <1>1, ConfigAssumption DEF Falter, Report, IInv, TypeOK, Contract!Falter

LEMMA SeekImplements ==
  ASSUME IInv, NEW b \in Tracked, NEW streak \in Nat, streak >= LostPatience,
         Seek(b, streak), r.state # "Idle", drift_latched' \in {drift_latched, TRUE},
         low_streak + 1 >= LostPatience \/ drift_latched'
  PROVE  Contract!Lose \/ Contract!Relock
<1> USE ConfigAssumption
<1> DEFINE lows == IF low_streak < LostPatience THEN low_streak ELSE LostPatience
<1>0. has_detector' = has_detector
  BY DEF Seek
<1>1. lows + 1 >= LostPatience \/ drift_latched'
  BY DEF IInv, TypeOK
<1>2. CASE StayLost(b, streak)
  <2>1. r'.state = "Lost" /\ lows' = LostPatience
    BY <1>2 DEF StayLost, Report
  <2>2. frames_lost' % DetectEvery =
          IF has_detector THEN ((frames_lost % DetectEvery) + 1) % DetectEvery
                         ELSE frames_lost % DetectEvery
    BY NextResidue DEF Seek, IInv, TypeOK
  <2> QED BY <1>0, <1>1, <2>1, <2>2 DEF Contract!Lose
<1>3. ASSUME has_detector, frames_lost' = frames_lost + 1,
             (frames_lost + 1) % DetectEvery = 0, NEW c, Relock(c)
      PROVE  Contract!Relock
  <2>1. r'.state = "Unstable" /\ lows' = LostPatience - 1
    BY <1>3 DEF Relock, Report
  <2>2. (frames_lost % DetectEvery) + 1 = DetectEvery
    BY <1>3, NextResidue DEF IInv, TypeOK
  <2> QED BY <1>0, <1>1, <1>3, <2>1, <2>2 DEF Contract!Relock
<1> QED BY <1>2, <1>3 DEF Seek

(* Every call of the tracker is a step the contract allows, for every patience
   and cadence, every similarity and every detector output. *)
THEOREM TrackerImplementsContract == Spec => ImplementsContract
<1>1. IInv /\ [Next]_vars => [Contract!Next]_Contract!vars
  <2> SUFFICES ASSUME IInv, [Next]_vars PROVE [Contract!Next]_Contract!vars
    OBVIOUS
  <2> USE DEF Contract!Next
  <2>1. ASSUME NEW b \in Designated, InitTarget(b) PROVE Contract!Next
    BY <2>1, InitTargetImplements
  <2>2. ASSUME NEW b \in Tracked, Track(b) PROVE Contract!Next
    <3>1. drift_latched' = FALSE
      BY <2>2 DEF Track, CheckDue, IInv, StraysCounted, TypeOK
    <3> QED BY <2>2, <3>1, CredibleImplements DEF Track
  <2>3. ASSUME NEW b \in Tracked, Verify(b) PROVE Contract!Next
    BY <2>3, CredibleImplements DEF Verify
  <2>4. ASSUME NEW b \in Tracked, Falter(b) PROVE Contract!Next
    BY <2>4, FalterImplements
  <2>5. ASSUME NEW b \in Tracked, Lose(b) PROVE Contract!Next
    <3>1. /\ low_streak + 1 \in Nat /\ low_streak + 1 >= LostPatience
          /\ Seek(b, low_streak + 1) /\ r.state # "Idle"
          /\ drift_latched' = drift_latched
      BY <2>5 DEF Lose, IInv, TypeOK
    <3> QED BY <3>1, SeekImplements
  <2>6. ASSUME NEW b \in Tracked, Drift(b) PROVE Contract!Next
    <3>1. /\ Seek(b, LostPatience) /\ r.state # "Idle" /\ drift_latched' = TRUE
          /\ LostPatience \in Nat /\ LostPatience >= LostPatience
      BY <2>6, ConfigAssumption DEF Drift
    <3> QED BY <3>1, SeekImplements
  <2>7. CASE EnableReacquire
    BY <2>7 DEF EnableReacquire, counters, Contract!Equip
  <2>8. CASE UNCHANGED vars
    BY <2>8 DEF vars, counters, Contract!vars
  <2> QED BY <2>1, <2>2, <2>3, <2>4, <2>5, <2>6, <2>7, <2>8 DEF Next, Update
<1> QED BY Inductive, InitImplements, <1>1, PTL
        DEF Spec, ImplementsContract, Contract!Spec

(* Only a box reported as Tracking ever becomes the anchor of the search. *)
THEOREM AnchorOnlyCredible == Spec => AnchorIsCredible
<1>1. IInv /\ [Next]_vars =>
        [last_good' = IF r'.state = "Tracking" THEN r'.pos ELSE last_good]_vars
  <2> SUFFICES ASSUME IInv, Next
               PROVE  last_good' = IF r'.state = "Tracking" THEN r'.pos ELSE last_good
    OBVIOUS
  <2>1. ASSUME NEW b \in Designated, InitTarget(b)
        PROVE  last_good' = b.pos /\ r'.state = "Tracking" /\ r'.pos = b.pos
    BY <2>1 DEF InitTarget, Report
  <2>2. ASSUME NEW b \in Tracked, Track(b) \/ Verify(b)
        PROVE  last_good' = b.pos /\ r'.state = "Tracking" /\ r'.pos = b.pos
    BY <2>2 DEF Track, Verify, Credible, Report
  <2>3. ASSUME NEW b \in Tracked, Falter(b) \/ Lose(b) \/ Drift(b)
        PROVE  last_good' = last_good /\ r'.state # "Tracking"
    BY <2>3 DEF Falter, Lose, Drift, Seek, StayLost, Relock, Report
  <2>4. CASE EnableReacquire
    BY <2>4 DEF EnableReacquire, IInv, Anchored
  <2> QED BY <2>1, <2>2, <2>3, <2>4 DEF Next, Update
<1> QED BY Inductive, <1>1, PTL DEF Spec, AnchorIsCredible
-----------------------------------------------------------------------------
(* The dual template. *)

(* The clock of the backend and the age of the template never part. *)
ClockTellsAge == settled = since_refresh

(* Only frames that count as tracked are confident enough to learn from. *)
ThresholdsInOrder == LostThr <= RefreshThr

BlendInv ==
  /\ BlendTypeOK /\ ClockTellsAge
  /\ ThresholdsInOrder => BlendOfThisTarget

-----------------------------------------------------------------------------
LEMMA SeedSafe == ASSUME Seed PROVE BlendInv'
  BY RefreshAssumption DEF Seed, BlendInv, BlendTypeOK, BlendOfThisTarget, ClockTellsAge

LEMMA CountedType == \A n \in 0..RefreshEvery : Counted(n) \in 0..RefreshEvery
  BY RefreshAssumption DEF Counted

LEMMA FollowSafe ==
  ASSUME BlendInv, NEW b \in Tracked, NEW score \in Scores, Follow(b, score)
  PROVE  BlendInv'
<1> USE DEF BlendInv, BlendTypeOK
<1>1. b.look \in Look
  BY DEF Tracked
<1>2. credited' \subseteq Look /\ credited \subseteq credited'
  BY <1>1 DEF Follow
<1>3. CASE Settle(score)
  BY <1>2, <1>3, CountedType DEF Settle, BlendOfThisTarget, ClockTellsAge
<1>4. CASE Refresh(b.look, score)
  <2>1. ThresholdsInOrder => score >= LostThr
    BY <1>4, RefreshAssumption DEF Refresh, RefreshDue, ThresholdsInOrder
  <2>2. ThresholdsInOrder => b.look \in credited'
    BY <2>1 DEF Follow
  <2> QED BY <1>1, <1>2, <1>4, <2>2, RefreshAssumption DEF Refresh, BlendOfThisTarget, ClockTellsAge
<1> QED BY <1>3, <1>4 DEF Follow

(* Every step of the composition is one of the facade, and either leaves the
   blend alone, seeds the backend or lets it follow a frame. *)
LEMMA Steps ==
  ASSUME BlendNext
  PROVE  /\ Next
         /\ \/ UNCHANGED blend
            \/ Seed
            \/ \E b \in Tracked, score \in Scores : Follow(b, score)
<1>1. CASE Equip
  BY <1>1 DEF Equip, Next
<1>2. ASSUME NEW b \in Designated, SeedTarget(b)
      PROVE  Next /\ Seed
  BY <1>2 DEF SeedTarget, Next
<1>3. ASSUME NEW b \in Tracked, NEW score \in Scores,
             Healthy(b, score) \/ Doubted(b, score) \/ Adrift(b, score)
      PROVE  Next /\ (Seed \/ Follow(b, score))
  BY <1>3 DEF Healthy, Doubted, Adrift, Next, Update
<1> QED BY <1>1, <1>2, <1>3 DEF BlendNext

LEMMA BlendInductive == BlendInv /\ [BlendNext]_allVars => BlendInv'
<1> SUFFICES ASSUME BlendInv, [BlendNext]_allVars PROVE BlendInv'
  OBVIOUS
<1>1. CASE UNCHANGED blend
  BY <1>1 DEF blend, BlendInv, BlendTypeOK, BlendOfThisTarget, ClockTellsAge
<1>2. CASE Seed
  BY <1>2, SeedSafe
<1>3. ASSUME NEW b \in Tracked, NEW score \in Scores, Follow(b, score)
      PROVE  BlendInv'
  BY <1>3, FollowSafe
<1> QED BY <1>1, <1>2, <1>3, Steps DEF allVars, blend

-----------------------------------------------------------------------------
LEMMA BlendSafe == BlendSpec => []BlendInv
<1>1. BlendInit => BlendInv
  BY RefreshAssumption
  DEF BlendInit, BlendInv, BlendTypeOK, BlendOfThisTarget, ClockTellsAge
<1> QED BY <1>1, BlendInductive, PTL DEF BlendSpec

(* The blend and its clock are well formed. *)
THEOREM BlendTypeCorrect == BlendSpec => []BlendTypeOK
<1>1. BlendInv => BlendTypeOK
  BY DEF BlendInv
<1> QED BY <1>1, BlendSafe, PTL

(* With the thresholds in the order of the defaults, what is blended into the
   template was seen since the backend was seeded, on a frame whose score was not
   low: nanotrack.cpp, init() and update().  What the drift check said of that
   frame does not matter. *)
THEOREM BlendSinceSeeding == ThresholdsInOrder => (BlendSpec => []BlendOfThisTarget)
<1> SUFFICES ASSUME ThresholdsInOrder PROVE BlendSpec => []BlendOfThisTarget
  OBVIOUS
<1>1. BlendInv => BlendOfThisTarget
  BY DEF BlendInv
<1> QED BY <1>1, BlendSafe, PTL

(* The template keeps for RefreshEvery frames between two changes. *)
THEOREM RefreshSpacing == BlendSpec => RefreshesApart
<1> DEFINE A == mix' \notin {mix, NoCrop} => settled + 1 >= RefreshEvery
<1>1. BlendInv /\ [BlendNext]_allVars => [A]_allVars
  <2> SUFFICES ASSUME BlendInv, BlendNext PROVE A
    OBVIOUS
  <2>1. CASE UNCHANGED blend
    BY <2>1 DEF blend
  <2>2. CASE Seed
    BY <2>2 DEF Seed
  <2>3. ASSUME NEW b \in Tracked, NEW score \in Scores, Follow(b, score)
        PROVE  A
    BY <2>3 DEF Follow, Settle, Refresh, RefreshDue, BlendInv, ClockTellsAge
  <2> QED BY <2>1, <2>2, <2>3, Steps
<1> QED BY <1>1, BlendSafe, PTL DEF BlendSpec, RefreshesApart

(* The blend moves nothing the facade keeps: every behaviour of the two is one
   of the facade alone. *)
THEOREM BlendImplementsFacade == BlendSpec => Spec
<1>1. BlendInit => Init
  BY DEF BlendInit
<1>2. [BlendNext]_allVars => [Next]_vars
  BY Steps DEF allVars
<1> QED BY <1>1, <1>2, PTL DEF BlendSpec, Spec

(* So a re-lock never seeds it on a lookalike, and drift is caught, whatever is
   blended in. *)
THEOREM FacadeHoldsUnderBlend == BlendSpec => [](NeverLocksLookalike /\ DriftBlindSpot)
  BY BlendImplementsFacade, NoLookalike, DriftIsCaught, PTL
-----------------------------------------------------------------------------
(* The candidate picked. *)

Accs == [best : SUBSET Candidate, dist : Int, sim : Int]

Start(lost) == [best |-> {}, dist |-> Radius(lost), sim |-> -1]

EligibleUpto(k, dets, lost) == {i \in 1..k : Eligible(dets[i], lost)}

(* What the loop holds once it prefers detection d. *)
Holding(d, lost) ==
  [best |-> {d},
   dist |-> IF Embedder = "None" THEN Dist(d.pos, last_good) ELSE Radius(lost),
   sim  |-> IF Embedder = "None" THEN -1 ELSE Similarity(d.look)]

(* The loop holds the best of the first k detections. *)
BestUpto(acc, k, dets, lost) ==
  LET E == EligibleUpto(k, dets, lost)
  IN  \/ E = {} /\ acc = Start(lost)
      \/ \E w \in E : /\ acc = Holding(dets[w], lost)
                      /\ \A j \in E \ {w} : Beats(dets, w, j)

(* g is the loop: its value for 1..k is what it holds after k detections. *)
Run(g, dets, lost) ==
  g = [s \in SUBSET DOMAIN dets |->
         IF s = {} THEN Start(lost) ELSE PickStep(g[s \ {Max(s)}], dets[Max(s)], lost)]

-----------------------------------------------------------------------------
LEMMA Measures ==
  ASSUME TypeOK, NEW lost \in Nat
  PROVE  /\ Radius(lost) \in Int /\ Accept \in Nat
         /\ \A d \in Candidate : Similarity(d.look) \in Int /\ Dist(d.pos, last_good) \in Int
<1> USE DataAssumption
<1>1. Radius(lost) \in Int
  BY DEF Radius
<1>2. ASSUME NEW d \in Candidate
      PROVE  Similarity(d.look) \in Int /\ Dist(d.pos, last_good) \in Int
  <2>1. d.look \in Look \cup {NoCrop} /\ d.pos \in Int /\ last_good \in Int
    BY CropType DEF Candidate, TypeOK
  <2>2. CASE NoCrop \in {ref, d.look}
    BY <2>1, <2>2 DEF Similarity, Dist
  <2>3. CASE NoCrop \notin {ref, d.look}
    <3>1. ref \in Look /\ d.look \in Look
      BY <2>1, <2>3 DEF TypeOK
    <3>2. Sim[ref][d.look] \in Int
      BY <3>1
    <3> QED BY <2>1, <3>2 DEF Similarity, Dist
  <2> QED BY <2>2, <2>3
<1> QED BY <1>1, <1>2

(* A turn of the loop gates the detection, then compares it with the best. *)
LEMMA Turn ==
  ASSUME NEW acc, NEW d \in Candidate, NEW lost
  PROVE  /\ ~Eligible(d, lost) => PickStep(acc, d, lost) = acc
         /\ Eligible(d, lost) /\ Embedder # "None" =>
              PickStep(acc, d, lost) = IF Similarity(d.look) > acc.sim
                THEN [best |-> {d}, dist |-> acc.dist, sim |-> Similarity(d.look)] ELSE acc
         /\ Eligible(d, lost) /\ Embedder = "None" =>
              PickStep(acc, d, lost) = IF Dist(d.pos, last_good) <= acc.dist
                THEN [best |-> {d}, dist |-> Dist(d.pos, last_good), sim |-> acc.sim] ELSE acc
  BY DEF PickStep, Eligible

LEMMA TurnType ==
  ASSUME TypeOK, NEW lost \in Nat, NEW acc \in Accs, NEW d \in Candidate
  PROVE  PickStep(acc, d, lost) \in Accs
<1>1. Similarity(d.look) \in Int /\ Dist(d.pos, last_good) \in Int
  BY Measures
<1> QED BY <1>1 DEF PickStep, Accs

LEMMA TurnKeepsBest ==
  ASSUME TypeOK, NEW lost \in Nat, NEW n \in Nat, NEW dets \in [1..n -> Candidate],
         NEW k \in 1..n, NEW acc, BestUpto(acc, k - 1, dets, lost)
  PROVE  BestUpto(PickStep(acc, dets[k], lost), k, dets, lost)
<1> DEFINE d == dets[k]
           E == EligibleUpto(k - 1, dets, lost)
           F == EligibleUpto(k, dets, lost)
           sim(i) == Similarity(dets[i].look)
           dist(i) == Dist(dets[i].pos, last_good)
<1>1. /\ F = IF Eligible(d, lost) THEN E \cup {k} ELSE E
      /\ E \subseteq 1..(k - 1) /\ k \notin E
  BY DEF EligibleUpto
<1>2. /\ \A i \in 1..n : sim(i) \in Int /\ dist(i) \in Int
      /\ Radius(lost) \in Int /\ Accept \in Nat /\ d \in Candidate
  BY Measures
<1>3. \/ E = {} /\ acc = Start(lost)
      \/ \E w \in E : /\ acc = Holding(dets[w], lost)
                      /\ \A j \in E \ {w} : Beats(dets, w, j)
  BY DEF BestUpto
<1>4. CASE ~Eligible(d, lost)
  BY <1>1, <1>4, Turn DEF BestUpto
<1>5. CASE Eligible(d, lost)
  <2>1. F = E \cup {k}
    BY <1>1, <1>5
  <2>2. /\ Embedder # "None" => sim(k) >= Accept
        /\ dist(k) <= Radius(lost)
    BY <1>5 DEF Eligible
  <2>3. CASE E = {} /\ acc = Start(lost)
    <3>0. acc.dist = Radius(lost) /\ acc.sim = -1
      BY <2>3 DEF Start
    <3>1. PickStep(acc, d, lost) = Holding(d, lost)
      <4>1. CASE Embedder = "None"
        BY <1>2, <1>5, <2>2, <3>0, <4>1, Turn DEF Holding
      <4>2. CASE Embedder # "None"
        <5>1. sim(k) > acc.sim
          BY <1>2, <2>2, <3>0, <4>2
        <5> QED BY <1>2, <1>5, <3>0, <4>2, <5>1, Turn DEF Holding
      <4> QED BY <4>1, <4>2
    <3> QED BY <2>1, <2>3, <3>1 DEF BestUpto
  <2>4. ASSUME NEW w \in E, acc = Holding(dets[w], lost), \A j \in E \ {w} : Beats(dets, w, j)
        PROVE  BestUpto(PickStep(acc, d, lost), k, dets, lost)
    <3>1. w \in 1..n /\ w < k /\ k \in F /\ w \in F
      BY <1>1, <2>1
    <3>2. CASE Beats(dets, k, w)
      <4>1. PickStep(acc, d, lost) = Holding(d, lost)
        <5>1. CASE Embedder = "None"
          <6>1. acc.dist = dist(w) /\ acc.sim = -1 /\ dist(k) <= dist(w)
            BY <1>2, <2>4, <3>1, <3>2, <5>1 DEF Holding, Beats
          <6> QED BY <1>2, <1>5, <5>1, <6>1, Turn DEF Holding
        <5>2. CASE Embedder # "None"
          <6>1. acc.dist = Radius(lost) /\ acc.sim = sim(w) /\ sim(k) > sim(w)
            BY <1>2, <2>4, <3>1, <3>2, <5>2 DEF Holding, Beats
          <6> QED BY <1>2, <1>5, <5>2, <6>1, Turn DEF Holding
        <5> QED BY <5>1, <5>2
      <4>2. ASSUME NEW j \in F, j # k PROVE Beats(dets, k, j)
        <5>1. j \in E /\ j \in 1..n /\ j < k
          BY <1>1, <2>1, <4>2
        <5>2. CASE j = w
          BY <3>2, <5>2
        <5>3. CASE j # w
          <6>1. Beats(dets, w, j)
            BY <2>4, <5>1, <5>3
          <6>2. /\ sim(k) \in Int /\ sim(w) \in Int /\ sim(j) \in Int
                /\ dist(k) \in Int /\ dist(w) \in Int /\ dist(j) \in Int
            BY <1>2, <3>1, <5>1
          <6>3. CASE Embedder = "None"
            <7>1. dist(k) <= dist(w) /\ dist(w) <= dist(j)
              BY <3>1, <3>2, <5>1, <6>1, <6>2, <6>3 DEF Beats
            <7>2. dist(k) <= dist(j)
              BY <6>2, <7>1
            <7> QED BY <5>1, <6>2, <6>3, <7>2 DEF Beats
          <6>4. CASE Embedder # "None"
            <7>1. sim(k) > sim(w) /\ sim(w) >= sim(j)
              BY <3>1, <3>2, <5>1, <6>1, <6>2, <6>4 DEF Beats
            <7>2. sim(k) > sim(j)
              BY <6>2, <7>1
            <7> QED BY <6>2, <6>4, <7>2 DEF Beats
          <6> QED BY <6>3, <6>4
        <5> QED BY <5>2, <5>3
      <4> QED BY <3>1, <4>1, <4>2 DEF BestUpto
    <3>3. CASE ~Beats(dets, k, w)
      <4>1. PickStep(acc, d, lost) = acc
        BY <1>2, <1>5, <2>4, <3>1, <3>3, Turn DEF Holding, Beats
      <4>2. Beats(dets, w, k)
        BY <1>2, <3>1, <3>3 DEF Beats
      <4>3. \A j \in F \ {w} : Beats(dets, w, j)
        BY <2>1, <2>4, <4>2
      <4> QED BY <2>4, <3>1, <4>1, <4>3 DEF BestUpto
    <3> QED BY <3>2, <3>3
  <2> QED BY <1>3, <2>3, <2>4
<1> QED BY <1>4, <1>5

(* The best of all is the one picked. *)
LEMMA BestIsPicked ==
  ASSUME TypeOK, NEW lost \in Nat, NEW n \in Nat, NEW dets \in [1..n -> Candidate],
         NEW acc, BestUpto(acc, n, dets, lost)
  PROVE  acc.best = Picked(dets, lost)
<1> DEFINE E == EligibleUpto(n, dets, lost)
           W == {k \in E : \A j \in E \ {k} : Beats(dets, k, j)}
<1>1. Picked(dets, lost) = {dets[i] : i \in W}
  BY DEF Picked, EligibleUpto
<1>2. CASE E = {} /\ acc = Start(lost)
  BY <1>1, <1>2 DEF Start
<1>3. ASSUME NEW w \in E, acc = Holding(dets[w], lost), \A j \in E \ {w} : Beats(dets, w, j)
      PROVE  acc.best = Picked(dets, lost)
  <2>1. ASSUME NEW k \in W PROVE k = w
    <3> SUFFICES ASSUME k # w PROVE FALSE
      OBVIOUS
    <3>1. Beats(dets, w, k) /\ Beats(dets, k, w)
      BY <1>3, <2>1
    <3>2. k \in 1..n /\ w \in 1..n
      BY <1>3, <2>1 DEF EligibleUpto
    <3>3. \A i \in {k, w} : Similarity(dets[i].look) \in Int /\ Dist(dets[i].pos, last_good) \in Int
      BY <3>2, Measures
    <3> QED BY <3>1, <3>2, <3>3 DEF Beats
  <2>2. W = {w}
    BY <1>3, <2>1
  <2> QED BY <1>1, <1>3, <2>2 DEF Holding
<1> QED BY <1>2, <1>3 DEF BestUpto

LEMMA LoopIsRun ==
  ASSUME TypeOK, NEW lost \in Nat, NEW n \in Nat, NEW dets \in [1..n -> Candidate]
  PROVE  \E g : Run(g, dets, lost) /\ PickLoop(dets, lost) = g[1..n].best
<1> DEFINE S == 1..n
           h == [i \in S |-> [acc \in Accs |-> PickStep(acc, dets[i], lost)]]
           pick == [s \in SUBSET S |-> Max(s)]
<1>0. DOMAIN dets = S /\ IsFiniteSet(S)
  BY FS_Interval
<1>1. h \in [S -> [Accs -> Accs]]
  BY TurnType
<1>2. Picks(pick, S)
  BY GreatestUpto DEF Picks
<1>3. Start(lost) \in Accs
  BY Measures DEF Start, Accs
<1>4. PICK g \in [SUBSET S -> Accs] : Recursion(g, S, Start(lost), h, pick)
  <2> HIDE DEF h, pick, S
  <2> QED BY <1>0, <1>1, <1>2, <1>3, SubsetRecursion, Zenon
<1>5. ASSUME NEW s \in SUBSET S, s # {}
      PROVE  g[s] = PickStep(g[s \ {Max(s)}], dets[Max(s)], lost)
  <2>1. Max(s) \in S /\ s \ {Max(s)} \in SUBSET S
    BY <1>5, GreatestUpto
  <2>2. g[s] = h[Max(s)][g[s \ {Max(s)}]]
    BY <1>4, <1>5 DEF Recursion
  <2>3. g[s \ {Max(s)}] \in Accs
    BY <2>1
  <2> QED BY <2>1, <2>2, <2>3
<1>6. g[{}] = Start(lost)
  BY <1>4 DEF Recursion
<1>7. Run(g, dets, lost)
  BY <1>0, <1>5, <1>6 DEF Run
<1> DEFINE f == CHOOSE e : Run(e, dets, lost)
<1>8. Run(f, dets, lost)
  BY <1>7
<1>9. PickLoop(dets, lost) = f[DOMAIN dets].best
  BY DEF PickLoop, FoldLeft, MapThenFoldSet, Run, Start
<1> QED BY <1>0, <1>8, <1>9

LEMMA WithoutLast == \A k \in Nat : (1..(k + 1)) \ {k + 1} = 1..k
  OBVIOUS

LEMMA RunPicksBest ==
  ASSUME TypeOK, NEW lost \in Nat, NEW n \in Nat, NEW dets \in [1..n -> Candidate]
  PROVE  PickLoop(dets, lost) = Picked(dets, lost)
<1>1. PICK g : Run(g, dets, lost) /\ PickLoop(dets, lost) = g[1..n].best
  BY LoopIsRun
<1> DEFINE K == {k \in Nat : k <= n => BestUpto(g[1..k], k, dets, lost)}
<1>2. 0 \in K
  <2>1. 1..0 = {} /\ {} \in SUBSET DOMAIN dets
    OBVIOUS
  <2>2. g[1..0] = Start(lost)
    BY <1>1, <2>1 DEF Run
  <2> QED BY <2>1, <2>2 DEF BestUpto, EligibleUpto
<1>3. ASSUME NEW k \in K PROVE k + 1 \in K
  <2> SUFFICES ASSUME k + 1 <= n PROVE BestUpto(g[1..(k + 1)], k + 1, dets, lost)
    OBVIOUS
  <2>1. k \in Nat /\ k + 1 \in 1..n /\ (k + 1) - 1 = k /\ BestUpto(g[1..k], k, dets, lost)
    BY <1>3
  <2> DEFINE s == 1..(k + 1)
  <2>2. s \in SUBSET DOMAIN dets /\ s # {}
    <3>1. k + 1 \in s /\ DOMAIN dets = 1..n
      BY <2>1
    <3>2. \A x \in s : x \in 1..n
      BY <2>1
    <3> QED BY <3>1, <3>2
  <2>3. Max(s) = k + 1
    <3>1. Max(s) \in s /\ \A x \in s : Max(s) >= x
      BY <2>1, <2>2, GreatestUpto
    <3> QED BY <2>1, <3>1
  <2>4. s \ {k + 1} = 1..k
    BY <2>1, WithoutLast
  <2>5. g[s] = PickStep(g[1..k], dets[k + 1], lost)
    BY <1>1, <2>2, <2>3, <2>4 DEF Run
  <2> HIDE DEF s
  <2>6. BestUpto(PickStep(g[1..k], dets[k + 1], lost), k + 1, dets, lost)
    BY <2>1, TurnKeepsBest
  <2> QED BY <2>5, <2>6 DEF s
<1>4. n \in K
  <2>1. K \in SUBSET Nat
    OBVIOUS
  <2> HIDE DEF K
  <2> QED BY <1>2, <1>3, <2>1, NatSetInduction
<1> QED BY <1>1, <1>4, BestIsPicked

(* pick_candidate() ends with the detection that the gates and the tie-breaks
   single out, however many it is given and however long the target is lost. *)
THEOREM LoopFindsBest == Spec => []LoopPicksBest
<1>1. TypeOK => LoopPicksBest
  <2> SUFFICES ASSUME TypeOK, NEW dets \in UNION {[1..n -> Candidate] : n \in 0..PickDets}
               PROVE  PickLoop(dets, frames_lost) = Picked(dets, frames_lost)
    BY DEF LoopPicksBest
  <2>1. PICK n \in Nat : dets \in [1..n -> Candidate]
    BY PickAssumption
  <2> QED BY <2>1, RunPicksBest DEF TypeOK
<1> QED BY <1>1, TypeCorrect, PTL
=============================================================================
