-------------------------- MODULE MultiTracker_proof --------------------------
(***************************************************************************)
(* Theorems about tracking by detection: first about the association, for  *)
(* every number of tracks and detections and every n_init, max_age and     *)
(* tentative_patience; then about the facade, for every detect interval,   *)
(* and about the time its motion model is told.                            *)
(*                                                                         *)
(* The argument about the association has two halves.  OneMatching melts   *)
(* the three stages into one matching between predicted tracks and         *)
(* detections; Fates then tells where every track after a frame comes      *)
(* from.  Each property is a case analysis over the fates.  The facade     *)
(* runs the association and nothing else on its state, so that all of it   *)
(* holds under the facade as well.                                         *)
(***************************************************************************)
EXTENDS Motion, FiniteSetTheorems, TLAPS

IInv == TypeOK /\ UniqueIds /\ Lifecycle

Predicted == {Predict(t) : t \in tracks}

(* What the three stages amount to. *)
Matching(m, dets) ==
  /\ m \subseteq Predicted \X DOMAIN dets
  /\ \A p, q \in m : p[1] = q[1] \/ p[2] = q[2] => p = q
  /\ \A p \in m : dets[p[2]] = "low" => p[1].state = "Confirmed" /\ p[1].tsu = 1

Births(B, m, dets) ==
  /\ B \subseteq DOMAIN dets
  /\ \A j \in B, p \in m : p[2] # j

Outcome(m, B, dets) ==
  /\ Matching(m, dets)
  /\ Births(B, m, dets)
  /\ Settle(dets, Predicted, m, B)

(* Where a track u of the next state comes from. *)
WasMatched(u, m, dets) == \E p \in m : u = MarkMatched(p[1], p[2], dets[p[2]])
WasMissed(u, m) == \E t \in Unmatched(Predicted, m) : u = Missed(t) /\ ~Expired(u)
WasBorn(u, B) == \E j \in B :
  u = [id    |-> next_id + Rank(B, j),
       state |-> IF NInit <= 1 THEN "Confirmed" ELSE "Tentative",
       hits  |-> 1, tsu |-> 0, score |-> "sure", det |-> j]

-----------------------------------------------------------------------------
(* Ranks number the births from 0 without a gap's or a tie's worth of doubt:
   each is below the number of births, and they rise with the detection. *)
LEMMA RankIsBelow ==
  ASSUME NEW D \in SUBSET Nat, IsFiniteSet(D), NEW j \in D
  PROVE  Rank(D, j) \in Nat /\ Rank(D, j) < Cardinality(D)
<1> DEFINE below == {k \in D : k < j}
<1>1. below \in SUBSET D /\ j \notin below
  OBVIOUS
<1>2. IsFiniteSet(below) /\ Cardinality(below) <= Cardinality(D)
      /\ Cardinality(D) # Cardinality(below)
  BY <1>1, FS_Subset
<1>3. Cardinality(below) \in Nat /\ Cardinality(D) \in Nat
  BY <1>2, FS_CardinalityType
<1> QED BY <1>2, <1>3 DEF Rank

LEMMA RankRises ==
  ASSUME NEW D \in SUBSET Nat, IsFiniteSet(D), NEW i \in D, NEW j \in D, i < j
  PROVE  Rank(D, i) < Rank(D, j)
<1> DEFINE low  == {k \in D : k < i}
           high == {k \in D : k < j}
<1>1. high \in SUBSET D /\ low \in SUBSET high /\ i \in high /\ i \notin low
  <2>1. \A k \in D : k < i => k < j
    BY D \subseteq Nat
  <2>2. ~(i < i)
    BY D \subseteq Nat
  <2> QED BY <2>1, <2>2
<1>2. IsFiniteSet(high)
  BY <1>1, FS_Subset
<1>3. IsFiniteSet(low) /\ Cardinality(low) <= Cardinality(high)
      /\ Cardinality(high) # Cardinality(low)
  BY <1>1, <1>2, FS_Subset
<1>4. Cardinality(low) \in Nat /\ Cardinality(high) \in Nat
  BY <1>2, <1>3, FS_CardinalityType
<1> QED BY <1>3, <1>4 DEF Rank

LEMMA RanksDiffer ==
  ASSUME NEW D \in SUBSET Nat, IsFiniteSet(D), NEW i \in D, NEW j \in D,
         Rank(D, i) = Rank(D, j)
  PROVE  i = j
<1>1. Rank(D, i) \in Nat /\ Rank(D, j) \in Nat
  BY RankIsBelow
<1>2. ~(i < j) /\ ~(j < i)
  BY <1>1, RankRises
<1> QED BY <1>2

LEMMA Indices ==
  ASSUME NEW dets \in Frames
  PROVE  /\ DOMAIN dets \subseteq Nat \ {0}
         /\ IsFiniteSet(DOMAIN dets)
         /\ \A j \in DOMAIN dets : dets[j] \in Score
<1>1. PICK n \in 0..MaxDets : dets \in [1..n -> Score]
  BY DEF Frames
<1>2. DOMAIN dets = 1..n
  BY <1>1
<1>3. IsFiniteSet(1..n)
  BY <1>1, FS_Interval, AssocAssumption
<1> QED BY <1>1, <1>2, <1>3, AssocAssumption

-----------------------------------------------------------------------------
(* The three stages never offer a track or a detection twice, so together
   they make one matching. *)
LEMMA OneMatching ==
  ASSUME NEW dets \in Frames, Update(dets)
  PROVE  \E m, B : Outcome(m, B, dets)
<1> DEFINE high == {j \in DOMAIN dets : dets[j] # "low"}
           low  == {j \in DOMAIN dets : dets[j] = "low"}
           left(m1) == IF UseByte THEN Recent(Unmatched(Mature(Predicted), m1)) ELSE {}
<1>1. PICK m1 \in MatchByIou(Mature(Predicted), high) :
      \E m2 \in MatchByIou(left(m1), low) :
      \E m3 \in MatchByIou(Tentative(Predicted), Free(high, m1)) :
        Settle(dets, Predicted, m1 \cup m2 \cup m3,
               {j \in Free(Free(high, m1), m3) : dets[j] = "sure"})
  BY DEF Update, Predicted
<1>2. PICK m2 \in MatchByIou(left(m1), low) :
      \E m3 \in MatchByIou(Tentative(Predicted), Free(high, m1)) :
        Settle(dets, Predicted, m1 \cup m2 \cup m3,
               {j \in Free(Free(high, m1), m3) : dets[j] = "sure"})
  BY <1>1
<1>3. PICK m3 \in MatchByIou(Tentative(Predicted), Free(high, m1)) :
        Settle(dets, Predicted, m1 \cup m2 \cup m3,
               {j \in Free(Free(high, m1), m3) : dets[j] = "sure"})
  BY <1>2
<1> DEFINE m == m1 \cup m2 \cup m3
           B == {j \in Free(Free(high, m1), m3) : dets[j] = "sure"}
<1> HIDE DEF high, low, left
<1>4. \A p \in m1 : p[1] \in Mature(Predicted) /\ p[2] \in high
                    /\ p \in Predicted \X DOMAIN dets
  BY <1>1 DEF MatchByIou, Mature, high
<1>5. \A p \in m2 : /\ p[1] \in Recent(Unmatched(Mature(Predicted), m1))
                    /\ p[2] \in low
                    /\ p \in Predicted \X DOMAIN dets
  BY <1>2 DEF MatchByIou, Recent, Unmatched, Mature, left, low
<1>6. \A p \in m3 : /\ p[1] \in Tentative(Predicted) /\ p[2] \in Free(high, m1)
                    /\ p \in Predicted \X DOMAIN dets
  BY <1>3 DEF MatchByIou, Tentative, Free, high
<1>7. /\ \A p, q \in m1 : p[1] = q[1] \/ p[2] = q[2] => p = q
      /\ \A p, q \in m2 : p[1] = q[1] \/ p[2] = q[2] => p = q
      /\ \A p, q \in m3 : p[1] = q[1] \/ p[2] = q[2] => p = q
  BY <1>1, <1>2, <1>3 DEF MatchByIou
<1>8. \A p \in m1, q \in m2 : p[1] # q[1] /\ p[2] # q[2]
  BY <1>4, <1>5 DEF Recent, Unmatched, high, low
<1>9. \A p \in m1, q \in m3 : p[1] # q[1] /\ p[2] # q[2]
  BY <1>4, <1>6 DEF Mature, Tentative, Free
<1>10. \A p \in m2, q \in m3 : p[1] # q[1] /\ p[2] # q[2]
  BY <1>5, <1>6 DEF Recent, Unmatched, Mature, Tentative, Free, high, low
<1>11. Matching(m, dets)
  <2>1. m \subseteq Predicted \X DOMAIN dets
    BY <1>4, <1>5, <1>6
  <2>2. \A p, q \in m : p[1] = q[1] \/ p[2] = q[2] => p = q
    BY <1>7, <1>8, <1>9, <1>10
  <2>3. \A p \in m : dets[p[2]] = "low" => p[1].state = "Confirmed" /\ p[1].tsu = 1
    BY <1>4, <1>5, <1>6 DEF high, Free, Recent
  <2> QED BY <2>1, <2>2, <2>3 DEF Matching
<1>12. Births(B, m, dets)
  BY <1>5 DEF Births, Free, high, low
<1> QED BY <1>3, <1>11, <1>12 DEF Outcome

(* Every track after a frame was matched, missed or born in it. *)
LEMMA Fates ==
  ASSUME NEW m, NEW B, NEW dets, Outcome(m, B, dets), NEW u \in tracks'
  PROVE  WasMatched(u, m, dets) \/ WasMissed(u, m) \/ WasBorn(u, B)
BY DEF Outcome, Settle, Survivors, Spawn, WasMatched, WasMissed, WasBorn

-----------------------------------------------------------------------------
(* What prediction, a match, a miss and a birth do to a track. *)
LEMMA PredictedTrack ==
  ASSUME IInv, NEW p \in Predicted
  PROVE  /\ p \in Track /\ p.det = 0 /\ p.tsu \in Nat \ {0}
         /\ \E t \in tracks :
              /\ p.id = t.id /\ p.state = t.state /\ p.hits = t.hits
              /\ p.tsu = t.tsu + 1
<1>1. PICK t \in tracks : p = Predict(t)
  BY DEF Predicted
<1>2. t \in Track
  BY DEF IInv, TypeOK
<1>3. /\ p.id = t.id /\ p.state = t.state /\ p.hits = t.hits /\ p.score = t.score
      /\ p.tsu = t.tsu + 1 /\ p.det = 0
  BY <1>1, <1>2 DEF Predict, Track
<1>4. p = [id |-> t.id, state |-> t.state, hits |-> t.hits, tsu |-> t.tsu + 1,
           score |-> t.score, det |-> 0]
  BY <1>1, <1>2 DEF Predict, Track
<1>5. t.tsu + 1 \in Nat \ {0}
  BY <1>2 DEF Track
<1>6. p \in Track
  BY <1>2, <1>4, <1>5 DEF Track
<1> QED BY <1>3, <1>5, <1>6

LEMMA PredictedUnique ==
  ASSUME IInv, NEW p \in Predicted, NEW q \in Predicted, p.id = q.id
  PROVE  p = q
<1>1. PICK t \in tracks : p = Predict(t)
  BY DEF Predicted
<1>2. PICK s \in tracks : q = Predict(s)
  BY DEF Predicted
<1>3. t \in Track /\ s \in Track
  BY DEF IInv, TypeOK
<1>4. t.id = s.id
  BY <1>1, <1>2, <1>3 DEF Predict, Track
<1> QED BY <1>1, <1>2, <1>4 DEF IInv, UniqueIds

LEMMA MatchedTrack ==
  ASSUME NEW p \in Track, NEW j \in Nat, NEW score \in Score,
         NEW u, u = MarkMatched(p, j, score)
  PROVE  /\ u \in Track
         /\ u.id = p.id /\ u.tsu = 0 /\ u.det = j /\ u.score = score
         /\ u.hits >= p.hits
         /\ u.state = IF p.state = "Lost" \/ u.hits >= NInit THEN "Confirmed" ELSE p.state
<1> DEFINE hits  == IF p.hits < HitCap THEN p.hits + 1 ELSE p.hits
           state == IF p.state = "Lost" \/ hits >= NInit THEN "Confirmed" ELSE p.state
<1>1. u = [id |-> p.id, state |-> state, hits |-> hits, tsu |-> 0,
           score |-> score, det |-> j]
  BY DEF MarkMatched, Track
<1>2. hits \in Nat \ {0} /\ hits >= p.hits
  BY AssocAssumption DEF Track
<1>3. state \in TrackState
  BY DEF Track, TrackState
<1> HIDE DEF hits
<1>4. u \in Track
  BY <1>1, <1>2, <1>3 DEF Track
<1> QED BY <1>1, <1>2, <1>4

LEMMA MissedTrack ==
  ASSUME NEW p \in Track, NEW u, u = Missed(p)
  PROVE  /\ u \in Track
         /\ u.id = p.id /\ u.tsu = p.tsu /\ u.hits = p.hits /\ u.det = p.det
         /\ u.state = IF p.state = "Confirmed" THEN "Lost" ELSE p.state
<1> DEFINE state == IF p.state = "Confirmed" THEN "Lost" ELSE p.state
<1>1. u = [id |-> p.id, state |-> state, hits |-> p.hits, tsu |-> p.tsu,
           score |-> p.score, det |-> p.det]
  BY DEF Missed, Track
<1>2. state \in TrackState
  BY DEF Track, TrackState
<1>3. u \in Track
  BY <1>1, <1>2 DEF Track
<1> QED BY <1>1, <1>3

LEMMA BornTrack ==
  ASSUME IInv, NEW dets \in Frames, NEW m, NEW B, Births(B, m, dets),
         NEW u, WasBorn(u, B)
  PROVE  /\ u \in Track
         /\ u.id >= next_id /\ u.id < next_id + Cardinality(B)
         /\ u.tsu = 0 /\ u.hits = 1 /\ u.det \in B /\ u.score = "sure"
         /\ u.id = next_id + Rank(B, u.det)
         /\ u.state = IF NInit <= 1 THEN "Confirmed" ELSE "Tentative"
<1>1. PICK j \in B :
        u = [id    |-> next_id + Rank(B, j),
             state |-> IF NInit <= 1 THEN "Confirmed" ELSE "Tentative",
             hits  |-> 1, tsu |-> 0, score |-> "sure", det |-> j]
  BY DEF WasBorn
<1>2. B \in SUBSET (DOMAIN dets)
  BY DEF Births
<1>3. B \in SUBSET Nat /\ IsFiniteSet(B)
  BY <1>2, Indices, FS_Subset
<1>4. Rank(B, j) \in Nat /\ Rank(B, j) < Cardinality(B) /\ Cardinality(B) \in Nat
  BY <1>3, RankIsBelow, FS_CardinalityType
<1>5. next_id \in Nat \ {0} /\ j \in Nat
  BY <1>3 DEF IInv, TypeOK
<1>6. u \in Track
  BY <1>1, <1>4, <1>5 DEF Track, TrackState, Score
<1> QED BY <1>1, <1>4, <1>5, <1>6

LEMMA BirthsDiffer ==
  ASSUME IInv, NEW dets \in Frames, NEW m, NEW B, Births(B, m, dets),
         NEW u, WasBorn(u, B), NEW v, WasBorn(v, B),
         u.id = v.id \/ u.det = v.det
  PROVE  u = v
<1>1. B \in SUBSET (DOMAIN dets)
  BY DEF Births
<1>2. B \in SUBSET Nat /\ IsFiniteSet(B)
  BY <1>1, Indices, FS_Subset
<1>3. u.det \in B /\ v.det \in B
      /\ u.id = next_id + Rank(B, u.det) /\ v.id = next_id + Rank(B, v.det)
  BY BornTrack
<1>4. Rank(B, u.det) \in Nat /\ Rank(B, v.det) \in Nat /\ next_id \in Nat
  BY <1>2, <1>3, RankIsBelow DEF IInv, TypeOK
<1>5. \A i, j \in B : Rank(B, i) = Rank(B, j) => i = j
  BY <1>2, RanksDiffer
<1>6. u.det = v.det
  BY <1>3, <1>4, <1>5
<1> QED BY <1>6 DEF WasBorn

-----------------------------------------------------------------------------
(* One frame, by the fates of the tracks it leaves. *)
LEMMA MatchedFate ==
  ASSUME IInv, NEW dets \in Frames, NEW m, NEW B, Outcome(m, B, dets),
         NEW u, WasMatched(u, m, dets)
  PROVE  \E p \in m :
           /\ u = MarkMatched(p[1], p[2], dets[p[2]])
           /\ p[1] \in Predicted /\ p[1] \in Track
           /\ p[2] \in DOMAIN dets /\ p[2] \in Nat \ {0}
           /\ u \in Track
           /\ u.id = p[1].id /\ u.tsu = 0 /\ u.det = p[2] /\ u.score = dets[p[2]]
           /\ u.hits >= p[1].hits
           /\ u.state = IF p[1].state = "Lost" \/ u.hits >= NInit
                        THEN "Confirmed" ELSE p[1].state
<1>1. PICK p \in m : u = MarkMatched(p[1], p[2], dets[p[2]])
  BY DEF WasMatched
<1>2. p[1] \in Predicted /\ p[2] \in DOMAIN dets
  BY DEF Outcome, Matching
<1>3. p[1] \in Track
  BY <1>2, PredictedTrack
<1>4. p[2] \in Nat \ {0} /\ dets[p[2]] \in Score
  BY <1>2, Indices
<1>5. /\ u \in Track
      /\ u.id = p[1].id /\ u.tsu = 0 /\ u.det = p[2] /\ u.score = dets[p[2]]
      /\ u.hits >= p[1].hits
      /\ u.state = IF p[1].state = "Lost" \/ u.hits >= NInit
                   THEN "Confirmed" ELSE p[1].state
  <2> DEFINE q == p[1]
             j == p[2]
             score == dets[j]
  <2>1. q \in Track /\ j \in Nat /\ score \in Score /\ u = MarkMatched(q, j, score)
    BY <1>1, <1>3, <1>4
  <2> HIDE DEF q, j, score
  <2>2. /\ u \in Track
        /\ u.id = q.id /\ u.tsu = 0 /\ u.det = j /\ u.score = score
        /\ u.hits >= q.hits
        /\ u.state = IF q.state = "Lost" \/ u.hits >= NInit THEN "Confirmed" ELSE q.state
    BY <2>1, MatchedTrack
  <2> QED BY <2>2 DEF q, j, score
<1> QED BY <1>1, <1>2, <1>3, <1>4, <1>5

LEMMA MissedFate ==
  ASSUME IInv, NEW m, NEW u, WasMissed(u, m)
  PROVE  \E t \in Unmatched(Predicted, m) :
           /\ t \in Predicted /\ t \in Track /\ u = Missed(t) /\ ~Expired(u)
           /\ u \in Track
           /\ u.id = t.id /\ u.tsu = t.tsu /\ u.hits = t.hits /\ u.det = 0
           /\ u.state = IF t.state = "Confirmed" THEN "Lost" ELSE t.state
<1>1. PICK t \in Unmatched(Predicted, m) : u = Missed(t) /\ ~Expired(u)
  BY DEF WasMissed
<1>2. t \in Predicted
  BY DEF Unmatched
<1>3. t \in Track /\ t.det = 0
  BY <1>2, PredictedTrack
<1> QED BY <1>1, <1>2, <1>3, MissedTrack

(* Ids of a frame: those of matched and missed tracks come from a live track,
   those of births are fresh. *)
LEMMA IdsAfter ==
  ASSUME IInv, NEW dets \in Frames, NEW m, NEW B, Outcome(m, B, dets), NEW u
  PROVE  /\ WasMatched(u, m, dets) \/ WasMissed(u, m) =>
              /\ u \in Track /\ u.id < next_id
              /\ \E t \in tracks : t.id = u.id
         /\ WasBorn(u, B) =>
              u \in Track /\ u.id >= next_id /\ u.id < next_id + Cardinality(B)
<1>1. ASSUME WasMatched(u, m, dets) \/ WasMissed(u, m)
      PROVE  u \in Track /\ \E t \in tracks : t.id = u.id
  <2>1. PICK p \in Predicted : u \in Track /\ u.id = p.id
    BY <1>1, MatchedFate, MissedFate
  <2>2. PICK t \in tracks : p.id = t.id
    BY PredictedTrack
  <2> QED BY <2>1, <2>2
<1>2. (\E t \in tracks : t.id = u.id) => u.id < next_id
  BY DEF IInv, UniqueIds
<1>3. Births(B, m, dets)
  BY DEF Outcome
<1> QED BY <1>1, <1>2, <1>3, BornTrack

LEMMA BirthCount ==
  ASSUME IInv, NEW dets \in Frames, NEW m, NEW B, Outcome(m, B, dets)
  PROVE  /\ Cardinality(B) \in Nat /\ next_id \in Nat \ {0}
         /\ next_id' = next_id + Cardinality(B)
<1>1. B \in SUBSET (DOMAIN dets)
  BY DEF Outcome, Births
<1>2. IsFiniteSet(B)
  BY <1>1, Indices, FS_Subset
<1> QED BY <1>2, FS_CardinalityType DEF Outcome, Settle, IInv, TypeOK

-----------------------------------------------------------------------------
LEMMA NextTypeOK ==
  ASSUME IInv, NEW dets \in Frames, NEW m, NEW B, Outcome(m, B, dets)
  PROVE  TypeOK'
<1>1. ASSUME NEW u \in tracks' PROVE u \in Track
  BY Fates, IdsAfter
<1>2. next_id' \in Nat \ {0}
  BY BirthCount
<1> QED BY <1>1, <1>2 DEF TypeOK

(* Same id after a frame: one track matched or missed twice, or one birth. *)
LEMMA NextUniqueIds ==
  ASSUME IInv, NEW dets \in Frames, NEW m, NEW B, Outcome(m, B, dets)
  PROVE  UniqueIds'
<1>1. ASSUME NEW u \in tracks' PROVE u.id < next_id'
  <2>1. u \in Track => u.id \in Nat
    BY DEF Track
  <2> QED BY <2>1, Fates, IdsAfter, BirthCount
<1>2. ASSUME NEW u \in tracks', NEW v \in tracks', u.id = v.id PROVE u = v
  <2>1. CASE WasBorn(u, B) \/ WasBorn(v, B)
    <3>1. WasBorn(u, B) /\ WasBorn(v, B)
      <4>1. \A w \in Track : w.id \in Nat
        BY DEF Track
      <4> QED BY <1>2, <2>1, <4>1, Fates, IdsAfter, BirthCount
    <3> QED BY <1>2, <3>1, BirthsDiffer DEF Outcome
  <2>2. CASE WasMatched(u, m, dets) /\ WasMatched(v, m, dets)
    <3>1. PICK p \in m : /\ u = MarkMatched(p[1], p[2], dets[p[2]])
                         /\ p[1] \in Predicted /\ u.id = p[1].id
      BY <2>2, MatchedFate
    <3>2. PICK q \in m : /\ v = MarkMatched(q[1], q[2], dets[q[2]])
                         /\ q[1] \in Predicted /\ v.id = q[1].id
      BY <2>2, MatchedFate
    <3>3. p[1] = q[1]
      BY <1>2, <3>1, <3>2, PredictedUnique
    <3>4. p = q
      BY <3>3 DEF Outcome, Matching
    <3> QED BY <3>1, <3>2, <3>4
  <2>3. CASE WasMissed(u, m) /\ WasMissed(v, m)
    <3>1. PICK s \in Predicted : u = Missed(s) /\ u.id = s.id
      BY <2>3, MissedFate
    <3>2. PICK t \in Predicted : v = Missed(t) /\ v.id = t.id
      BY <2>3, MissedFate
    <3> QED BY <1>2, <3>1, <3>2, PredictedUnique
  <2>4. ASSUME NEW a, NEW b, WasMatched(a, m, dets), WasMissed(b, m), a.id = b.id
        PROVE  FALSE
    <3>1. PICK p \in m : p[1] \in Predicted /\ a.id = p[1].id
      BY <2>4, MatchedFate
    <3>2. PICK t \in Unmatched(Predicted, m) : t \in Predicted /\ b.id = t.id
      BY <2>4, MissedFate
    <3>3. p[1] = t
      BY <2>4, <3>1, <3>2, PredictedUnique
    <3> QED BY <3>3 DEF Unmatched
  <2> QED BY <1>2, <2>1, <2>2, <2>3, <2>4, Fates
<1> QED BY <1>1, <1>2 DEF UniqueIds

LEMMA NextLifecycle ==
  ASSUME IInv, NEW dets \in Frames, NEW m, NEW B, Outcome(m, B, dets)
  PROVE  Lifecycle'
<1> DEFINE Good(u) ==
      /\ u.state = "Confirmed" => u.tsu = 0
      /\ u.state = "Lost"      => u.tsu \in 1..MaxAge
      /\ u.state = "Tentative" => u.tsu <= TentativePatience /\ u.hits < NInit
      /\ u.state # "Tentative" => u.hits >= NInit \/ NInit <= 1
<1> USE AssocAssumption
<1>1. ASSUME NEW p \in Predicted
      PROVE  /\ p \in Track /\ p.tsu \in Nat \ {0} /\ p.hits \in Nat
             /\ p.state = "Tentative" => p.hits < NInit
             /\ p.state # "Tentative" => p.hits >= NInit \/ NInit <= 1
  <2>1. PICK t \in tracks : p.state = t.state /\ p.hits = t.hits
    BY PredictedTrack
  <2>2. /\ t.state = "Tentative" => t.hits < NInit
        /\ t.state # "Tentative" => t.hits >= NInit \/ NInit <= 1
    BY DEF IInv, Lifecycle
  <2>3. p \in Track /\ p.tsu \in Nat \ {0}
    BY PredictedTrack
  <2> QED BY <2>1, <2>2, <2>3 DEF Track
<1>2. ASSUME NEW u, WasMatched(u, m, dets) PROVE Good(u)
  <2>1. PICK p \in m :
          /\ p[1] \in Predicted /\ u \in Track /\ u.tsu = 0 /\ u.hits >= p[1].hits
          /\ u.state = IF p[1].state = "Lost" \/ u.hits >= NInit
                       THEN "Confirmed" ELSE p[1].state
    BY <1>2, MatchedFate
  <2>2. PICK t \in Predicted :
          /\ u.tsu = 0 /\ u.hits >= t.hits
          /\ u.state = IF t.state = "Lost" \/ u.hits >= NInit
                       THEN "Confirmed" ELSE t.state
    BY <2>1
  <2>3. u.hits \in Nat /\ t.state \in {"Tentative", "Confirmed", "Lost"}
    BY <1>1, <2>1 DEF Track, TrackState
  <2> QED BY <1>1, <2>2, <2>3
<1>3. ASSUME NEW u, WasMissed(u, m) PROVE Good(u)
  <2>1. PICK t \in Predicted :
          /\ ~Expired(u) /\ u.tsu = t.tsu /\ u.hits = t.hits
          /\ u.state = IF t.state = "Confirmed" THEN "Lost" ELSE t.state
    BY <1>3, MissedFate
  <2>2. t.state \in {"Tentative", "Confirmed", "Lost"}
    BY <1>1 DEF Track, TrackState
  <2>3. IF u.state = "Tentative" THEN u.tsu <= TentativePatience ELSE u.tsu <= MaxAge
    BY <1>1, <2>1 DEF Expired
  <2> QED BY <1>1, <2>1, <2>2, <2>3
<1>4. ASSUME NEW u, WasBorn(u, B) PROVE Good(u)
  BY <1>4, BornTrack DEF Outcome
<1>5. \A u \in tracks' : Good(u)
  BY <1>2, <1>3, <1>4, Fates
<1> QED BY <1>5 DEF Lifecycle

(* A detection ends a frame in the matching or among the births, once. *)
LEMMA NextOneDetection ==
  ASSUME IInv, NEW dets \in Frames, NEW m, NEW B, Outcome(m, B, dets)
  PROVE  OneDetectionOneTrack'
<1> SUFFICES ASSUME NEW u \in tracks', NEW v \in tracks', u.det # 0, u.det = v.det
             PROVE  u = v
  BY DEF OneDetectionOneTrack
<1>1. ASSUME NEW w \in {u, v}
      PROVE  \/ WasBorn(w, B) /\ w.det \in B
             \/ \E p \in m : w = MarkMatched(p[1], p[2], dets[p[2]]) /\ w.det = p[2]
  <2>1. ~WasMissed(w, m)
    BY MissedFate
  <2>2. WasBorn(w, B) => w.det \in B
    BY BornTrack DEF Outcome
  <2>3. WasMatched(w, m, dets) =>
          \E p \in m : w = MarkMatched(p[1], p[2], dets[p[2]]) /\ w.det = p[2]
    BY MatchedFate
  <2> QED BY <2>1, <2>2, <2>3, Fates
<1>2. \A j \in B, p \in m : p[2] # j
  BY DEF Outcome, Births
<1>3. CASE WasBorn(u, B) /\ WasBorn(v, B)
  BY <1>3, BirthsDiffer DEF Outcome
<1>4. CASE \E p \in m : u = MarkMatched(p[1], p[2], dets[p[2]]) /\ u.det = p[2]
  <2>1. PICK p \in m : u = MarkMatched(p[1], p[2], dets[p[2]]) /\ u.det = p[2]
    BY <1>4
  <2>2. PICK q \in m : v = MarkMatched(q[1], q[2], dets[q[2]]) /\ v.det = q[2]
    BY <1>1, <1>2, <2>1
  <2>3. p = q
    BY <2>1, <2>2 DEF Outcome, Matching
  <2> QED BY <2>1, <2>2, <2>3
<1> QED BY <1>1, <1>2, <1>3, <1>4

LEMMA NextIInv == IInv /\ [Next]_assocVars => IInv'
<1> SUFFICES ASSUME IInv, [Next]_assocVars PROVE IInv'
  OBVIOUS
<1>1. CASE Next
  <2>1. PICK dets \in Frames : Update(dets)
    BY <1>1 DEF Next
  <2>2. PICK m, B : Outcome(m, B, dets)
    BY <2>1, OneMatching
  <2> QED BY <2>2, NextTypeOK, NextUniqueIds, NextLifecycle DEF IInv
<1>2. CASE UNCHANGED assocVars
  BY <1>2 DEF IInv, TypeOK, UniqueIds, Lifecycle, assocVars
<1> QED BY <1>1, <1>2

LEMMA InitIInv == Init => IInv
BY DEF Init, IInv, TypeOK, UniqueIds, Lifecycle

-----------------------------------------------------------------------------
(* The inductive invariant holds in every reachable state. *)
THEOREM Inductive == Spec => []IInv
BY InitIInv, NextIInv, PTL DEF Spec

(* Tracks stay well formed: counters, states and scores of every live track. *)
THEOREM TypeCorrect == Spec => []TypeOK
<1>1. IInv => TypeOK
  BY DEF IInv
<1> QED BY <1>1, Inductive, PTL

(* No two live tracks ever carry the same id. *)
THEOREM IdsAreUnique == Spec => []UniqueIds
<1>1. IInv => UniqueIds
  BY DEF IInv
<1> QED BY <1>1, Inductive, PTL

(* A track's state bounds its counters: Confirmed is fresh, Lost and Tentative
   are within their allowance, and nothing unripe was ever confirmed. *)
THEOREM LifecycleHolds == Spec => []Lifecycle
<1>1. IInv => Lifecycle
  BY DEF IInv
<1> QED BY <1>1, Inductive, PTL

(* No detection feeds two tracks, through all stages and births. *)
THEOREM DetectionsAreSpentOnce == Spec => []OneDetectionOneTrack
<1>1. Init => OneDetectionOneTrack
  BY DEF Init, OneDetectionOneTrack
<1>2. IInv /\ OneDetectionOneTrack /\ [Next]_assocVars => OneDetectionOneTrack'
  <2> SUFFICES ASSUME IInv, OneDetectionOneTrack, [Next]_assocVars
               PROVE  OneDetectionOneTrack'
    OBVIOUS
  <2>1. CASE Next
    <3>1. PICK dets \in Frames : Update(dets)
      BY <2>1 DEF Next
    <3>2. PICK m, B : Outcome(m, B, dets)
      BY <3>1, OneMatching
    <3> QED BY <3>2, NextOneDetection
  <2>2. CASE UNCHANGED assocVars
    BY <2>2 DEF OneDetectionOneTrack, assocVars
  <2> QED BY <2>1, <2>2
<1> QED BY <1>1, <1>2, Inductive, PTL DEF Spec

-----------------------------------------------------------------------------
(* The ids of the tracks that are new in a frame are ids never used before. *)
THEOREM FreshIds == Spec => IdsAreNeverReused
<1> DEFINE New == /\ next_id' >= next_id
                  /\ \A u \in tracks' : \/ \E t \in tracks : t.id = u.id
                                        \/ u.id >= next_id
<1>1. IInv /\ [Next]_assocVars => [New]_assocVars
  <2> SUFFICES ASSUME IInv, Next PROVE New
    OBVIOUS
  <2>1. PICK dets \in Frames : Update(dets)
    BY DEF Next
  <2>2. PICK m, B : Outcome(m, B, dets)
    BY <2>1, OneMatching
  <2>3. next_id' >= next_id
    BY <2>2, BirthCount
  <2>4. \A u \in tracks' : (\E t \in tracks : t.id = u.id) \/ u.id >= next_id
    BY <2>2, Fates, IdsAfter
  <2> QED BY <2>3, <2>4
<1> QED BY <1>1, Inductive, PTL DEF Spec, IdsAreNeverReused

(* Stage 2 only bridges: a low-score detection only ever feeds a track that
   was matched in the frame before. *)
THEOREM LowScoresBridge == Spec => LowScoreOnlyBridges
<1> DEFINE Bridge == \A u \in tracks' :
      u.det # 0 /\ u.score = "low" =>
        \E t \in tracks : t.id = u.id /\ t.state = "Confirmed" /\ t.tsu = 0
<1>1. IInv /\ [Next]_assocVars => [Bridge]_assocVars
  <2> SUFFICES ASSUME IInv, Next, NEW u \in tracks', u.det # 0, u.score = "low"
               PROVE  \E t \in tracks : t.id = u.id /\ t.state = "Confirmed" /\ t.tsu = 0
    OBVIOUS
  <2>1. PICK dets \in Frames : Update(dets)
    BY DEF Next
  <2>2. PICK m, B : Outcome(m, B, dets)
    BY <2>1, OneMatching
  <2>3. WasMatched(u, m, dets)
    BY <2>2, Fates, MissedFate, BornTrack DEF Outcome
  <2>4. PICK p \in m : p[1] \in Predicted /\ u.id = p[1].id /\ u.score = dets[p[2]]
    BY <2>2, <2>3, MatchedFate
  <2>5. p[1].state = "Confirmed" /\ p[1].tsu = 1
    BY <2>2, <2>4 DEF Outcome, Matching
  <2>6. PICK t \in tracks : p[1].id = t.id /\ p[1].state = t.state
    BY <2>4, PredictedTrack
  <2>7. t.tsu = 0
    BY <2>5, <2>6 DEF IInv, Lifecycle
  <2> QED BY <2>4, <2>5, <2>6, <2>7
<1> QED BY <1>1, Inductive, PTL DEF Spec, LowScoreOnlyBridges

(* A track that was confirmed once stays, Confirmed or Lost, until max_age. *)
THEOREM MaturityKept == Spec => MaturityIsKept
<1> DEFINE Kept == \A t \in tracks :
      t.state # "Tentative" =>
        \/ \E u \in tracks' : u.id = t.id /\ u.state # "Tentative"
        \/ t.tsu = MaxAge
<1>1. IInv /\ [Next]_assocVars => [Kept]_assocVars
  <2> SUFFICES ASSUME IInv, Next, NEW t \in tracks, t.state # "Tentative", t.tsu # MaxAge
               PROVE  \E u \in tracks' : u.id = t.id /\ u.state # "Tentative"
    OBVIOUS
  <2>1. PICK dets \in Frames : Update(dets)
    BY DEF Next
  <2>2. PICK m, B : Outcome(m, B, dets)
    BY <2>1, OneMatching
  <2> DEFINE p == Predict(t)
  <2>3. /\ t \in Track /\ p \in Predicted
        /\ p.id = t.id /\ p.state = t.state /\ p.tsu = t.tsu + 1
    BY DEF IInv, TypeOK, Predicted, Predict, Track
  <2>4. p \in Track
    BY <2>3, PredictedTrack
  <2> HIDE DEF p
  <2>5. CASE \E q \in m : q[1] = p
    <3>1. PICK q \in m : q[1] = p
      BY <2>5
    <3> DEFINE u == MarkMatched(q[1], q[2], dets[q[2]])
    <3>2. WasMatched(u, m, dets)
      BY DEF WasMatched
    <3>3. u \in tracks'
      BY <2>2 DEF Outcome, Settle
    <3>4. u.id = p.id /\ u.state # "Tentative"
      <4>1. q[2] \in Nat /\ dets[q[2]] \in Score
        BY <2>2, Indices DEF Outcome, Matching
      <4> DEFINE j == q[2]
                 score == dets[j]
      <4>2. j \in Nat /\ score \in Score /\ u = MarkMatched(p, j, score)
        BY <3>1, <4>1
      <4> HIDE DEF j, score, u
      <4> QED BY <2>3, <2>4, <4>2, MatchedTrack
    <3> QED BY <2>3, <3>3, <3>4
  <2>6. CASE \A q \in m : q[1] # p
    <3> DEFINE u == Missed(p)
    <3>1. p \in Unmatched(Predicted, m)
      BY <2>3, <2>6 DEF Unmatched
    <3>2. u.id = p.id /\ u.tsu = p.tsu /\ u.state = "Lost"
      BY <2>3, <2>4, MissedTrack DEF Track, TrackState
    <3>3. t.tsu \in 0..MaxAge
      BY <2>3, AssocAssumption DEF IInv, Lifecycle, Track, TrackState
    <3>4. ~Expired(u)
      BY <2>3, <3>2, <3>3, AssocAssumption DEF Expired
    <3>5. u \in tracks'
      BY <2>2, <3>1, <3>4 DEF Outcome, Settle, Survivors
    <3> QED BY <2>3, <3>2, <3>5
  <2> QED BY <2>5, <2>6
<1> QED BY <1>1, Inductive, PTL DEF Spec, MaturityIsKept

-----------------------------------------------------------------------------
(* The facade. *)

FacadeTypeOK ==
  /\ until_detect \in 0..(Interval - 1)
  /\ started \in BOOLEAN
  /\ gray_lag \in {None, 0}
  /\ mask_lag \in {None, 1}
  /\ boxes_lag \in {None, 0}

(* The image and the boxes start being kept together, the mask a frame later. *)
KeptTogether == gray_lag = None => mask_lag = None

(* The very first frame is a detect frame. *)
StartsDetecting == ~started => until_detect = 0

FacadeInv == FacadeTypeOK /\ StartsDetecting /\ KeptTogether

-----------------------------------------------------------------------------
LEMMA IntervalType == Interval \in Nat \ {0}
  BY CadenceAssumption DEF Interval

LEMMA CompensateKeeps ==
  ASSUME FacadeInv, Compensate \/ UNCHANGED gmcVars
  PROVE  /\ gray_lag' \in {None, 0} /\ mask_lag' \in {None, 1} /\ boxes_lag' \in {None, 0}
         /\ KeptTogether'
<1> USE DEF FacadeInv, FacadeTypeOK, KeptTogether, None
<1>1. CASE UNCHANGED gmcVars
  BY <1>1 DEF gmcVars
<1>2. CASE Compensate /\ Gmc # "Off"
  BY <1>2 DEF Compensate, Estimate, RecordBoxes
<1>3. CASE Compensate /\ Gmc = "Off"
  BY <1>3 DEF Compensate, gmcVars
<1> QED BY <1>1, <1>2, <1>3

LEMMA FacadeInductive == FacadeInv /\ [TrackerNext]_vars => FacadeInv'
<1> SUFFICES ASSUME FacadeInv, [TrackerNext]_vars PROVE FacadeInv'
  OBVIOUS
<1>1. Compensate \/ UNCHANGED gmcVars
  BY DEF TrackerNext, CoastFrame, DetectFrame, vars
<1>2. /\ until_detect' \in 0..(Interval - 1)
      /\ started' \in BOOLEAN /\ StartsDetecting'
  <2> USE IntervalType DEF FacadeInv, FacadeTypeOK, StartsDetecting
  <2>1. CASE CoastFrame
    <3>1. started
      BY <2>1 DEF CoastFrame
    <3>2. started' \in BOOLEAN /\ started'
      BY <2>1 DEF CoastFrame
    <3> QED BY <2>1, <3>1, <3>2 DEF CoastFrame
  <2>2. ASSUME NEW dets \in Frames, DetectFrame(dets)
        PROVE  /\ until_detect' \in 0..(Interval - 1)
               /\ started' \in BOOLEAN /\ StartsDetecting'
    <3>1. started' \in BOOLEAN /\ started'
      BY <2>2 DEF DetectFrame
    <3> QED BY <2>2, <3>1 DEF DetectFrame
  <2>3. CASE UNCHANGED vars
    BY <2>3 DEF vars
  <2> QED BY <2>1, <2>2, <2>3 DEF TrackerNext
<1> QED BY <1>1, <1>2, CompensateKeeps DEF FacadeInv, FacadeTypeOK

LEMMA FacadeInit == TrackerInit => FacadeInv
<1> SUFFICES ASSUME TrackerInit PROVE FacadeInv
  OBVIOUS
<1>1. started \in BOOLEAN
  BY DEF TrackerInit
<1> QED BY <1>1, IntervalType
     DEF TrackerInit, FacadeInv, FacadeTypeOK, StartsDetecting, KeptTogether, None

-----------------------------------------------------------------------------
(* The facade drives the association and never touches its state otherwise:
   every behaviour of MultiTracker is one of ByteTracker. *)
THEOREM FacadeImplementsAssociation == TrackerSpec => Spec
<1>1. TrackerInit => Init
  BY DEF TrackerInit
<1>2. [TrackerNext]_vars => [Next]_assocVars
  BY DEF TrackerNext, CoastFrame, DetectFrame, Next, vars
<1> QED BY <1>1, <1>2, PTL DEF TrackerSpec, Spec

(* The association's safety, coasting included: ids are unique and the state
   of a track bounds its counters at every frame, detected or skipped. *)
THEOREM SafeUnderCoasting == TrackerSpec => [](UniqueIds /\ Lifecycle /\ OneDetectionOneTrack)
BY FacadeImplementsAssociation, IdsAreUnique, LifecycleHolds, DetectionsAreSpentOnce, PTL

(* The inductive invariant of the facade holds in every reachable state. *)
THEOREM FacadeInductiveHolds == TrackerSpec => []FacadeInv
BY FacadeInit, FacadeInductive, PTL DEF TrackerSpec

(* Everything the facade and its parts keep is well formed. *)
THEOREM TrackerTypeCorrect == TrackerSpec => []TrackerTypeOK
<1>1. FacadeInv /\ TypeOK => TrackerTypeOK
  BY DEF FacadeInv, FacadeTypeOK, TrackerTypeOK
<1> QED BY <1>1, FacadeInductiveHolds, FacadeImplementsAssociation, TypeCorrect, PTL

(* The boxes masked out of an image are at most a frame older than it. *)
THEOREM MaskIsRecent == TrackerSpec => []MaskStaysRecent
<1>1. FacadeInv => MaskStaysRecent
  BY DEF FacadeInv, FacadeTypeOK, KeptTogether, MaskStaysRecent, None
<1> QED BY <1>1, FacadeInductiveHolds, PTL

-----------------------------------------------------------------------------
(* How many frames an unmatched track has left: the misses it is allowed, each
   an interval long, and the frames until the next detection. *)
Allowance == IF MaxAge > TentativePatience THEN MaxAge ELSE TentativePatience
FramesLeft(t) == (Allowance - t.tsu) * Interval + until_detect

LEMMA Allowed == TypeOK /\ Lifecycle => \A t \in tracks : t.tsu \in 0..Allowance
<1> SUFFICES ASSUME TypeOK, Lifecycle, NEW t \in tracks PROVE t.tsu \in 0..Allowance
  OBVIOUS
<1>1. t.tsu \in Nat /\ t.state \in {"Tentative", "Confirmed", "Lost"}
  BY DEF TypeOK, Track, TrackState
<1>2. \/ t.tsu = 0
      \/ t.tsu <= MaxAge
      \/ t.tsu <= TentativePatience
  BY <1>1, AssocAssumption DEF Lifecycle
<1> QED BY <1>1, <1>2, AssocAssumption DEF Allowance

LEMMA AllowedNext == IInv' => \A t \in tracks' : t.tsu \in 0..Allowance
<1>1. IInv => TypeOK /\ Lifecycle
  BY DEF IInv
<1>2. IInv' => (\A t \in tracks : t.tsu \in 0..Allowance)'
  BY <1>1, Allowed, PTL
<1> QED BY <1>2 DEF Allowance

(* A track that leaves a detect frame unmatched missed one more. *)
LEMMA OneMoreMiss ==
  ASSUME IInv, NEW dets \in Frames, Update(dets), NEW t \in tracks, NEW u \in tracks',
         u.id = t.id, u.tsu > 0
  PROVE  u.tsu = t.tsu + 1
<1>1. PICK m, B : Outcome(m, B, dets)
  BY OneMatching
<1>2. CASE WasMatched(u, m, dets)
  BY <1>1, <1>2, MatchedFate
<1>3. CASE WasBorn(u, B)
  <2>1. u.id >= next_id
    BY <1>1, <1>3, IdsAfter
  <2>2. t.id < next_id /\ t.id \in Nat /\ next_id \in Nat
    BY DEF IInv, TypeOK, UniqueIds, Track
  <2> QED BY <2>1, <2>2
<1>4. CASE WasMissed(u, m)
  <2>1. PICK p \in Predicted : u.id = p.id /\ u.tsu = p.tsu
    BY <1>1, <1>4, MissedFate
  <2>2. PICK s \in tracks : p.id = s.id /\ p.tsu = s.tsu + 1
    BY <2>1, PredictedTrack
  <2>3. s = t
    BY <2>1, <2>2 DEF IInv, UniqueIds
  <2> QED BY <2>1, <2>2, <2>3
<1> QED BY <1>1, <1>2, <1>3, <1>4, Fates

(* Every frame a track stays unmatched for, coasted ones included, counts: it
   is removed when none is left.  With frames that keep coming, its misses end. *)
THEOREM EveryMissCounts ==
  TrackerSpec => /\ [](\A t \in tracks : FramesLeft(t) \in Nat)
                 /\ [][\A t \in tracks, u \in tracks' :
                         u.id = t.id /\ u.tsu > 0 => FramesLeft(u)' < FramesLeft(t)]_vars
<1> DEFINE Bounded == \A t \in tracks : FramesLeft(t) \in Nat
           Counts == \A t \in tracks, u \in tracks' :
                       u.id = t.id /\ u.tsu > 0 => FramesLeft(u)' < FramesLeft(t)
<1>1. ASSUME IInv, FacadeInv PROVE Bounded
  <2> SUFFICES ASSUME NEW t \in tracks PROVE FramesLeft(t) \in Nat
    OBVIOUS
  <2>1. t.tsu \in 0..Allowance /\ Allowance \in Nat
    BY <1>1, Allowed, AssocAssumption DEF IInv, Allowance
  <2>2. Interval \in Nat /\ until_detect \in Nat
    BY <1>1, IntervalType DEF FacadeInv, FacadeTypeOK
  <2>3. Allowance - t.tsu \in Nat
    BY <2>1
  <2>4. (Allowance - t.tsu) * Interval \in Nat
    BY <2>2, <2>3
  <2> QED BY <2>2, <2>4 DEF FramesLeft
<1>2. ASSUME IInv, IInv', FacadeInv, [TrackerNext]_vars PROVE [Counts]_vars
  <2> SUFFICES ASSUME TrackerNext, NEW t \in tracks, NEW u \in tracks', u.id = t.id, u.tsu > 0
               PROVE  FramesLeft(u)' < FramesLeft(t)
    BY <1>2
  <2> DEFINE left == Allowance - t.tsu
  <2>1. /\ t.tsu \in 0..Allowance /\ Allowance \in Nat /\ left \in Nat
        /\ Interval \in Nat \ {0} /\ until_detect \in Nat
    BY <1>2, Allowed, AssocAssumption, IntervalType
       DEF IInv, FacadeInv, FacadeTypeOK, Allowance
  <2>2. FramesLeft(t) = left * Interval + until_detect
    BY DEF FramesLeft
  <2>3. FramesLeft(u)' = (Allowance - u.tsu) * Interval + until_detect'
    BY DEF FramesLeft, Allowance, Interval
  <2>4. CASE CoastFrame
    <3>1. until_detect' = until_detect - 1 /\ tracks' = tracks
      BY <2>4 DEF CoastFrame, assocVars
    <3>2. u = t
      BY <1>2, <3>1 DEF IInv, UniqueIds
    <3>3. FramesLeft(u)' = left * Interval + (until_detect - 1)
      BY <2>3, <3>1, <3>2
    <3>4. left * Interval \in Nat
      BY <2>1
    <3> HIDE DEF left
    <3> QED BY <2>1, <2>2, <3>3, <3>4
  <2>5. ASSUME NEW dets \in Frames, DetectFrame(dets) PROVE FramesLeft(u)' < FramesLeft(t)
    <3>1. until_detect = 0 /\ until_detect' = Interval - 1 /\ Update(dets)
      BY <2>5 DEF DetectFrame
    <3>2. u.tsu = t.tsu + 1
      BY <1>2, <3>1, OneMoreMiss
    <3>3. u.tsu \in 0..Allowance
      BY <1>2, AllowedNext
    <3> DEFINE rest == Allowance - u.tsu
    <3>4. rest \in Nat /\ left = rest + 1
      BY <2>1, <3>2, <3>3
    <3>5. FramesLeft(u)' = rest * Interval + (Interval - 1) /\ FramesLeft(t) = left * Interval + 0
      BY <2>2, <2>3, <3>1
    <3> HIDE DEF rest, left
    <3>6. left * Interval = rest * Interval + Interval /\ rest * Interval \in Nat
      BY <2>1, <3>4
    <3> QED BY <2>1, <3>5, <3>6
  <2> QED BY <2>4, <2>5 DEF TrackerNext
<1> HIDE DEF Bounded, Counts
<1>3. TrackerSpec => []IInv
  BY FacadeImplementsAssociation, Inductive, PTL
<1>4. TrackerSpec => []Bounded /\ [][Counts]_vars
  BY <1>1, <1>2, <1>3, FacadeInductiveHolds, PTL DEF TrackerSpec
<1> QED BY <1>4 DEF Bounded, Counts

-----------------------------------------------------------------------------
(* Time.  The code's clock and the stamps go together but for stalls, at which
   the code's falls behind, and bursts, at which it gets ahead. *)
Begun == tracks # {} => started

Standing ==
  /\ next_id <= MaxId + 1
  /\ \A t \in Newborn : t.tsu = 0 =>
       /\ "stall" \notin glitches[t.id] => coasted_dt >= since_birth[t.id]
       /\ "burst" \notin glitches[t.id] => coasted_dt <= since_birth[t.id]

NewbornsWait ==
  TentativePatience = 0 /\ NInit > 1 => \A s \in seeds : s.missed = 0

MotionInv ==
  /\ IInv /\ FacadeInv /\ Begun
  /\ MotionTypeOK /\ Standing /\ CoastedTimeFits
  /\ PromptSeedIsTrue /\ NewbornsWait

LEMMA DtIsClamped ==
  ASSUME NEW elapsed \in Elapsed
  PROVE  Dt(elapsed) \in Nat /\ MinDt <= Dt(elapsed) /\ Dt(elapsed) <= MaxDt
BY MotionAssumption DEF Dt, Clamped

(* Once started, only a stall makes dt too short and only a burst too long. *)
LEMMA DtFollowsStamps ==
  ASSUME started, NEW elapsed \in Elapsed
  PROVE  /\ "stall" \notin Glitch(elapsed) => Dt(elapsed) >= elapsed
         /\ "burst" \notin Glitch(elapsed) => Dt(elapsed) <= elapsed
<1>1. elapsed \in Int /\ MinDt \in Nat /\ MaxDt \in Nat /\ OneFrame \in Nat
  BY MotionAssumption
<1>2. elapsed > MaxDt <=> "stall" \in Glitch(elapsed)
  BY DEF Glitch
<1>3. elapsed <= 0 \/ elapsed < MinDt <=> "burst" \in Glitch(elapsed)
  BY DEF Glitch
<1> QED BY <1>1, <1>2, <1>3, MotionAssumption DEF Dt, Clamped

LEMMA GlitchType ==
  ASSUME NEW elapsed
  PROVE  Glitch(elapsed) \in SUBSET {"stall", "burst"}
BY DEF Glitch

LEMMA NewbornTypes ==
  ASSUME IInv, Standing, NEW t \in Newborn
  PROVE  t \in tracks /\ t \in Track /\ t.id \in Id /\ t.tsu \in Nat /\ t.hits = 1
<1>1. t \in tracks /\ t.hits = 1
  BY DEF Newborn
<1>2. t \in Track /\ next_id \in Nat /\ MaxId \in Nat
  BY <1>1, AssocAssumption DEF IInv, TypeOK
<1>3. t.id \in Nat \ {0} /\ t.id < next_id /\ t.tsu \in Nat
  BY <1>1, <1>2 DEF IInv, UniqueIds, Track
<1> QED BY <1>1, <1>2, <1>3 DEF Id, Standing

(* Only births leave a track on its first hit with no miss. *)
LEMMA NewbornFates ==
  ASSUME IInv, NEW dets \in Frames, NEW m, NEW B, Outcome(m, B, dets),
         NEW u \in tracks', u.hits = 1
  PROVE  u.tsu \in Nat \ {0} \/ u.id >= next_id
<1>1. ~WasMatched(u, m, dets)
  <2> SUFFICES ASSUME WasMatched(u, m, dets) PROVE FALSE
    OBVIOUS
  <2>1. PICK p \in m : u = MarkMatched(p[1], p[2], dets[p[2]]) /\ p[1] \in Track
    BY MatchedFate
  <2> DEFINE t == p[1]
             j == p[2]
             score == dets[j]
             hits == IF t.hits < HitCap THEN t.hits + 1 ELSE t.hits
  <2>2. t \in Track /\ u = MarkMatched(t, j, score)
    BY <2>1
  <2> HIDE DEF t, j, score
  <2>3. u = [id |-> t.id, score |-> score, det |-> j, tsu |-> 0, hits |-> hits,
             state |-> IF t.state = "Lost" \/ hits >= NInit THEN "Confirmed" ELSE t.state]
    BY <2>2 DEF MarkMatched, Track
  <2>4. t.hits \in Nat \ {0}
    BY <2>2 DEF Track
  <2>5. hits > 1
    BY <2>4, AssocAssumption
  <2> QED BY <2>3, <2>5
<1>2. WasMissed(u, m) => u.tsu \in Nat \ {0}
  <2> SUFFICES ASSUME WasMissed(u, m) PROVE u.tsu \in Nat \ {0}
    OBVIOUS
  <2>1. PICK t \in Predicted : u.tsu = t.tsu
    BY MissedFate
  <2> QED BY <2>1, PredictedTrack
<1>3. WasBorn(u, B) => u.id >= next_id
  BY BornTrack DEF Outcome
<1> QED BY <1>1, <1>2, <1>3, Fates

LEMMA CoastedOnce ==
  \A k, d, c, x, y \in Nat :
    /\ k * d <= c /\ d <= x => (k + 1) * d <= c + x
    /\ c <= k * d /\ y <= d => c + y <= (k + 1) * d
  OBVIOUS

LEMMA CoastTimedHolds ==
  ASSUME MotionInv, CoastTimed
  PROVE  /\ MotionTypeOK' /\ Standing' /\ CoastedTimeFits'
         /\ PromptSeedIsTrue' /\ NewbornsWait'
<1>1. PICK elapsed \in Elapsed : coasted_dt' = coasted_dt + Dt(elapsed) /\ StandFor(elapsed)
  BY DEF CoastTimed
<1>2. /\ UNCHANGED <<tracks, next_id>> /\ until_detect > 0
      /\ until_detect' = until_detect - 1 /\ seeds' = {} /\ started
  <2>1. until_detect > 0
    BY DEF CoastTimed, CoastFrame
  <2>2. started
    BY <2>1 DEF MotionInv, FacadeInv, FacadeTypeOK, StartsDetecting
  <2> QED BY <2>1, <2>2 DEF CoastTimed, CoastFrame, assocVars
<1>3. /\ elapsed \in Int /\ coasted_dt \in Nat
      /\ Dt(elapsed) \in Nat /\ MinDt <= Dt(elapsed) /\ Dt(elapsed) <= MaxDt
  BY DtIsClamped, MotionAssumption DEF MotionInv, MotionTypeOK
<1>4. \A id \in Id : since_birth[id] \in Int /\ glitches[id] \in SUBSET {"stall", "burst"}
  BY DEF MotionInv, MotionTypeOK
<1>5. MotionTypeOK'
  <2>1. since_birth' \in [Id -> Int] /\ glitches' \in [Id -> SUBSET {"stall", "burst"}]
    BY <1>1, <1>3, <1>4, GlitchType DEF StandFor
  <2> QED BY <1>1, <1>2, <1>3, <2>1 DEF MotionTypeOK
<1>6. Standing'
  <2>1. Newborn' = Newborn
    BY <1>2 DEF Newborn
  <2>2. ASSUME NEW t \in Newborn, t.tsu = 0
        PROVE  /\ "stall" \notin glitches'[t.id] => coasted_dt' >= since_birth'[t.id]
               /\ "burst" \notin glitches'[t.id] => coasted_dt' <= since_birth'[t.id]
    <3>1. t.id \in Id /\ t \in tracks' /\ t.hits = 1
      BY <1>2, NewbornTypes DEF MotionInv
    <3>2. /\ since_birth'[t.id] = since_birth[t.id] + elapsed
          /\ glitches'[t.id] = glitches[t.id] \cup Glitch(elapsed)
      BY <1>1, <3>1 DEF StandFor
    <3>3. /\ "stall" \notin glitches[t.id] => coasted_dt >= since_birth[t.id]
          /\ "burst" \notin glitches[t.id] => coasted_dt <= since_birth[t.id]
      BY <2>2 DEF MotionInv, Standing
    <3>4. /\ "stall" \notin Glitch(elapsed) => Dt(elapsed) >= elapsed
          /\ "burst" \notin Glitch(elapsed) => Dt(elapsed) <= elapsed
      BY <1>2, DtFollowsStamps
    <3>5. since_birth[t.id] \in Int
      BY <1>4, <3>1
    <3>6. CASE "stall" \notin glitches'[t.id]
      <4>1. coasted_dt' >= since_birth'[t.id]
        BY <1>1, <1>3, <3>2, <3>3, <3>4, <3>5, <3>6
      <4>2. CASE "burst" \notin glitches'[t.id]
        BY <1>1, <1>3, <3>2, <3>3, <3>4, <3>5, <4>1, <4>2
      <4> QED BY <4>1, <4>2
    <3>7. CASE "burst" \notin glitches'[t.id] /\ "stall" \in glitches'[t.id]
      BY <1>1, <1>3, <3>2, <3>3, <3>4, <3>5, <3>7
    <3> QED BY <3>6, <3>7
  <2> QED BY <1>2, <2>1, <2>2 DEF MotionInv, Standing
<1>7. CoastedTimeFits'
  <2> DEFINE skipped == Interval - 1 - until_detect
  <2>1. /\ skipped \in Nat /\ MinDt \in Nat /\ MaxDt \in Nat
        /\ skipped' = skipped + 1
    BY <1>2, IntervalType, MotionAssumption DEF MotionInv, FacadeInv, FacadeTypeOK, Interval
  <2>2. skipped * MinDt <= coasted_dt /\ coasted_dt <= skipped * MaxDt
    BY <1>2 DEF MotionInv, CoastedTimeFits
  <2>3. CoastedTimeFits' <=>
          (started' => skipped' * MinDt <= coasted_dt' /\ coasted_dt' <= skipped' * MaxDt)
    BY DEF CoastedTimeFits
  <2> HIDE DEF skipped
  <2>4. /\ (skipped + 1) * MinDt <= coasted_dt + Dt(elapsed)
        /\ coasted_dt + Dt(elapsed) <= (skipped + 1) * MaxDt
    BY <1>3, <2>1, <2>2, CoastedOnce
  <2> QED BY <1>1, <2>1, <2>3, <2>4
<1> QED BY <1>2, <1>5, <1>6, <1>7 DEF PromptSeedIsTrue, NewbornsWait

LEMMA DetectTimedHolds ==
  ASSUME MotionInv, NEW dets \in Frames, DetectTimed(dets)
  PROVE  /\ MotionTypeOK' /\ Standing' /\ CoastedTimeFits'
         /\ PromptSeedIsTrue' /\ NewbornsWait'
<1>1. PICK elapsed \in Elapsed : StandFor(elapsed) /\ seeds' = VelocitySeeds(elapsed)
  BY DEF DetectTimed
<1>2. Update(dets) /\ coasted_dt' = 0 /\ until_detect' = Interval - 1
  BY DEF DetectTimed, DetectFrame
<1>3. PICK m, B : Outcome(m, B, dets)
  BY <1>2, OneMatching DEF MotionInv
<1>4. /\ elapsed \in Int /\ coasted_dt \in Nat /\ Dt(elapsed) \in Nat
      /\ \A id \in Id : since_birth[id] \in Int /\ glitches[id] \in SUBSET {"stall", "burst"}
  BY DtIsClamped, MotionAssumption DEF MotionInv, MotionTypeOK
<1>5. /\ since_birth' \in [Id -> Int] /\ glitches' \in [Id -> SUBSET {"stall", "burst"}]
      /\ \A id \in Id : (\A t \in Newborn : t.id # id) => since_birth'[id] = 0
  BY <1>1, <1>4, GlitchType DEF StandFor
<1>6. ASSUME NEW s \in seeds'
      PROVE  \E t \in Newborn : s = [over     |-> coasted_dt + Dt(elapsed),
                                     moved    |-> since_birth[t.id] + elapsed,
                                     missed   |-> t.tsu,
                                     glitches |-> glitches[t.id] \cup Glitch(elapsed)]
  BY <1>1 DEF VelocitySeeds, EffDt
<1>7. MotionTypeOK'
  <2>1. ASSUME NEW s \in seeds'
        PROVE  s \in [over : Nat, moved : Int, missed : Nat,
                      glitches : SUBSET {"stall", "burst"}]
    <3>1. PICK t \in Newborn : s = [over     |-> coasted_dt + Dt(elapsed),
                                   moved    |-> since_birth[t.id] + elapsed,
                                   missed   |-> t.tsu,
                                   glitches |-> glitches[t.id] \cup Glitch(elapsed)]
      BY <1>6
    <3>2. t.id \in Id /\ t.tsu \in Nat
      BY NewbornTypes DEF MotionInv
    <3>3. /\ coasted_dt + Dt(elapsed) \in Nat /\ since_birth[t.id] + elapsed \in Int
          /\ glitches[t.id] \cup Glitch(elapsed) \in SUBSET {"stall", "burst"}
      BY <1>4, <3>2, GlitchType
    <3> QED BY <3>1, <3>2, <3>3
  <2> QED BY <1>2, <1>5, <2>1 DEF MotionTypeOK
<1>8. PromptSeedIsTrue'
  <2> SUFFICES ASSUME NEW s \in seeds', s.missed = 0
               PROVE  /\ "stall" \notin s.glitches => s.over >= s.moved
                      /\ "burst" \notin s.glitches => s.over <= s.moved
    BY DEF PromptSeedIsTrue
  <2>1. PICK t \in Newborn : s = [over     |-> coasted_dt + Dt(elapsed),
                                 moved    |-> since_birth[t.id] + elapsed,
                                 missed   |-> t.tsu,
                                 glitches |-> glitches[t.id] \cup Glitch(elapsed)]
    BY <1>6
  <2>2. t \in tracks /\ t.id \in Id /\ t.tsu = 0
    BY <2>1, NewbornTypes DEF MotionInv
  <2>3. started
    BY <2>2 DEF MotionInv, Begun
  <2>4. /\ "stall" \notin glitches[t.id] => coasted_dt >= since_birth[t.id]
        /\ "burst" \notin glitches[t.id] => coasted_dt <= since_birth[t.id]
    BY <2>2 DEF MotionInv, Standing
  <2>5. /\ "stall" \notin Glitch(elapsed) => Dt(elapsed) >= elapsed
        /\ "burst" \notin Glitch(elapsed) => Dt(elapsed) <= elapsed
    BY <2>3, DtFollowsStamps
  <2>6. since_birth[t.id] \in Int
    BY <1>4, <2>2
  <2>7. /\ s.over = coasted_dt + Dt(elapsed) /\ s.moved = since_birth[t.id] + elapsed
        /\ s.glitches = glitches[t.id] \cup Glitch(elapsed)
    BY <2>1
  <2>8. ASSUME "stall" \notin s.glitches PROVE s.over >= s.moved
    BY <1>4, <2>4, <2>5, <2>6, <2>7, <2>8
  <2>9. ASSUME "burst" \notin s.glitches PROVE s.over <= s.moved
    BY <1>4, <2>4, <2>5, <2>6, <2>7, <2>9
  <2> QED BY <2>8, <2>9
<1>9. NewbornsWait'
  <2> SUFFICES ASSUME TentativePatience = 0, NInit > 1, NEW s \in seeds'
               PROVE  s.missed = 0
    BY DEF NewbornsWait
  <2>1. PICK t \in Newborn : s.missed = t.tsu
    BY <1>6
  <2>2. t \in tracks /\ t.hits = 1 /\ t.tsu \in Nat
    BY NewbornTypes DEF MotionInv
  <2>3. t.state = "Tentative"
    BY <2>2, AssocAssumption DEF MotionInv, IInv, Lifecycle
  <2> QED BY <2>1, <2>2, <2>3 DEF MotionInv, IInv, Lifecycle
<1>10. next_id' <= MaxId + 1
  BY <1>3 DEF Outcome, Settle
<1>11. ASSUME NEW u \in Newborn', u.tsu = 0 PROVE since_birth'[u.id] = 0
  <2>1. u \in tracks' /\ u.hits = 1
    BY DEF Newborn
  <2>2. IInv'
    BY <1>3, NextTypeOK, NextUniqueIds, NextLifecycle DEF IInv, MotionInv
  <2>3. u.id \in Id
    <3>1. u \in Track /\ next_id' \in Nat /\ u.id < next_id' /\ MaxId \in Nat
      BY <2>1, <2>2, AssocAssumption DEF IInv, TypeOK, UniqueIds
    <3> QED BY <1>10, <3>1 DEF Id, Track
  <2>4. u.id >= next_id
    BY <1>3, <1>11, <2>1, NewbornFates DEF MotionInv
  <2>5. \A t \in Newborn : t.id < next_id /\ t.id \in Nat /\ next_id \in Nat
    BY NewbornTypes DEF MotionInv, IInv, UniqueIds, TypeOK, Id
  <2>6. \A t \in Newborn : t.id # u.id
    BY <2>4, <2>5
  <2> QED BY <1>5, <2>3, <2>6
<1>12. Standing'
  BY <1>2, <1>10, <1>11 DEF Standing
<1>13. CoastedTimeFits'
  <2>1. Interval \in Nat /\ MinDt \in Nat /\ MaxDt \in Nat
    BY IntervalType, MotionAssumption
  <2>2. Interval - 1 - (Interval - 1) = 0 /\ 0 * MinDt = 0 /\ 0 * MaxDt = 0
    BY <2>1
  <2> QED BY <1>2, <2>2 DEF CoastedTimeFits, Interval
<1> QED BY <1>7, <1>8, <1>9, <1>12, <1>13

LEMMA MotionInductive == MotionInv /\ [MotionNext]_motionVars => MotionInv'
<1> SUFFICES ASSUME MotionInv, [MotionNext]_motionVars PROVE MotionInv'
  OBVIOUS
<1>1. IInv'
  <2>1. [Next]_assocVars
    BY DEF MotionNext, CoastTimed, DetectTimed, CoastFrame, DetectFrame, Next, motionVars, vars
  <2> QED BY <2>1, NextIInv DEF MotionInv
<1>2. FacadeInv'
  <2>1. [TrackerNext]_vars
    BY DEF MotionNext, CoastTimed, DetectTimed, TrackerNext, motionVars
  <2> QED BY <2>1, FacadeInductive DEF MotionInv
<1>3. CASE MotionNext
  <2>1. Begun'
    BY <1>3 DEF MotionNext, CoastTimed, DetectTimed, CoastFrame, DetectFrame, Begun
  <2> QED BY <1>1, <1>2, <1>3, <2>1, CoastTimedHolds, DetectTimedHolds DEF MotionNext, MotionInv
<1>4. CASE UNCHANGED motionVars
  <2>1. UNCHANGED <<tracks, next_id, started, until_detect,
                    coasted_dt, since_birth, glitches, seeds>>
    BY <1>4 DEF motionVars, motion, vars, assocVars
  <2>2. MotionTypeOK' /\ Standing' /\ Begun' /\ CoastedTimeFits'
    BY <2>1 DEF MotionInv, MotionTypeOK, Standing, Newborn, Begun, CoastedTimeFits, Interval
  <2>3. PromptSeedIsTrue' /\ NewbornsWait'
    BY <2>1 DEF MotionInv, PromptSeedIsTrue, NewbornsWait
  <2> QED BY <1>1, <1>2, <2>2, <2>3 DEF MotionInv
<1> QED BY <1>3, <1>4

LEMMA MotionInitHolds == MotionInit => MotionInv
<1> SUFFICES ASSUME MotionInit PROVE MotionInv
  OBVIOUS
<1>1. IInv /\ tracks = {} /\ next_id = 1 /\ started = FALSE
  BY InitIInv DEF MotionInit, TrackerInit, Init
<1>2. FacadeInv
  BY FacadeInit DEF MotionInit
<1>3. MotionTypeOK
  BY DEF MotionInit, MotionTypeOK
<1> QED BY <1>1, <1>2, <1>3, AssocAssumption
        DEF MotionInit, MotionInv, Begun, Standing, Newborn, CoastedTimeFits,
            PromptSeedIsTrue, NewbornsWait

(* Stamps change nothing about the facade: under any of them it does what
   MultiTracker says, and goes on as long as frames come. *)
THEOREM MotionImplementsFacade == MotionSpec => TrackerSpec
<1>1. MotionInit => TrackerInit
  BY DEF MotionInit
<1>2. [MotionNext]_motionVars => [TrackerNext]_vars
  BY DEF MotionNext, CoastTimed, DetectTimed, TrackerNext, motionVars
<1> QED BY <1>1, <1>2, PTL DEF MotionSpec, TrackerSpec

(* The inductive invariant of the model with time holds in every reachable
   state. *)
THEOREM MotionInductiveHolds == MotionSpec => []MotionInv
BY MotionInitHolds, MotionInductive, PTL DEF MotionSpec

(* What relaxes the gate of the third stage is the time of the frames skipped
   since the last detection, each between MinDt and MaxDt, at every interval and
   under all stamps; with no frame skipped the gate is the configured one. *)
THEOREM CoastedTimeHolds == MotionSpec => []CoastedTimeFits
<1>1. MotionInv => CoastedTimeFits
  BY DEF MotionInv
<1> QED BY <1>1, MotionInductiveHolds, PTL

(* A newborn matched at the first detection after its birth is seeded with the
   velocity the stamps tell, at every interval, where no stamp went astray; a
   stall alone can only make it too high, a burst alone only too low. *)
THEOREM PromptSeeds == MotionSpec => []PromptSeedIsTrue
<1>1. MotionInv => PromptSeedIsTrue
  BY DEF MotionInv
<1> QED BY <1>1, MotionInductiveHolds, PTL

(* Where no newborn outlives a miss, every velocity seeded under stamps that dt
   follows is the one they tell: without patience, stalls and bursts the
   documents are right about seed_velocity(). *)
THEOREM PatienceIsToBlame ==
  TentativePatience = 0 /\ NInit > 1 => (MotionSpec => []SeedSpansDelta)
<1> SUFFICES ASSUME TentativePatience = 0 /\ NInit > 1 PROVE MotionSpec => []SeedSpansDelta
  OBVIOUS
<1>1. MotionInv => SeedSpansDelta
  <2> SUFFICES ASSUME MotionInv, NEW s \in seeds, s.glitches = {} PROVE s.over = s.moved
    BY DEF SeedSpansDelta
  <2>1. s.missed = 0
    BY DEF MotionInv, NewbornsWait
  <2>2. s.over >= s.moved /\ s.over <= s.moved
    BY <2>1 DEF MotionInv, PromptSeedIsTrue
  <2>3. s.over \in Nat /\ s.moved \in Int
    BY DEF MotionInv, MotionTypeOK
  <2> QED BY <2>2, <2>3
<1> QED BY <1>1, MotionInductiveHolds, PTL
=============================================================================
