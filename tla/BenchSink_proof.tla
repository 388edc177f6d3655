--------------------------- MODULE BenchSink_proof ---------------------------
(***************************************************************************)
(* Theorems about the registry of collectors, for every set of nodes and   *)
(* whichever of them collect.                                              *)
(***************************************************************************)
EXTENDS BenchSink, SetRecursion, SequenceTheorems, TLAPS

Doings == {"idle", "resetting", "subscribing", "leaving", "printing",
           "finalized", "gone", "tracking", "emitting", "adding"}

Registered == Range(collectors)

TypeOK ==
  /\ doing \in [Nodes -> Doings]
  /\ session \subseteq Nodes
  /\ lock \in Nodes \cup {Nobody}
  /\ collectors \in Seq(Nodes)
  /\ callee \in Seq(Nodes)

(* The lock is held by the node that emits, and by no other. *)
LockIsEmitters == \A n \in Nodes : doing[n] = "emitting" <=> lock = n

(* No node has two collectors. *)
OnceEach == IsInjective(collectors)

(* A collector is there from the start of a session to its end, or to the
   node's. *)
RegisteredInSession ==
  \A n \in Registered :
    /\ n \in Benched
    /\ \/ doing[n] \in {"subscribing", "leaving", "finalized"}
       \/ n \in session /\ doing[n] \in {"idle", "tracking", "emitting", "adding"}

(* Only a node that collects readies its samples for a session. *)
ReadiesToCollect == \A n \in Nodes : doing[n] = "resetting" => n \in Benched

(* While the lock is held, a collector has been called or is yet to be. *)
NoneSkipped ==
  IF lock = Nobody THEN callee = <<>> ELSE told \cup Range(callee) = Registered

IInv ==
  /\ TypeOK
  /\ LockIsEmitters
  /\ OnceEach
  /\ RegisteredInSession
  /\ ReadiesToCollect
  /\ NoneSkipped

-----------------------------------------------------------------------------
(* Without the entry at k, those after it move up. *)
LEMMA RemoveAtFacts ==
  ASSUME NEW S, NEW q \in Seq(S), NEW k \in 1..Len(q)
  PROVE  /\ RemoveAt(q, k) \in Seq(S)
         /\ Len(RemoveAt(q, k)) = Len(q) - 1
         /\ \A i \in 1..(Len(q) - 1) :
              RemoveAt(q, k)[i] = IF i < k THEN q[i] ELSE q[i + 1]
<1> DEFINE a == SubSeq(q, 1, k - 1)
           b == SubSeq(q, k + 1, Len(q))
<1>0. Len(q) \in Nat /\ \A i \in 1..Len(q) : q[i] \in S
  BY LenProperties, ElementOfSeq
<1>1. /\ a \in Seq(S) /\ Len(a) = k - 1
      /\ \A i \in 1..(k - 1) : a[i] = q[i]
  BY <1>0, SubSeqProperties
<1>2. /\ b \in Seq(S) /\ Len(b) = Len(q) - k
      /\ \A i \in 1..(Len(q) - k) : b[i] = q[k + i]
  BY <1>0, SubSeqProperties
<1>3. /\ a \o b \in Seq(S) /\ Len(a \o b) = Len(q) - 1
      /\ \A i \in 1..(Len(q) - 1) :
           (a \o b)[i] = IF i <= k - 1 THEN a[i] ELSE b[i - (k - 1)]
  <2> HIDE DEF a, b
  <2> QED BY <1>0, <1>1, <1>2, ConcatProperties
<1>4. \A i \in 1..(Len(q) - 1) : (a \o b)[i] = IF i < k THEN q[i] ELSE q[i + 1]
  <2> HIDE DEF a, b
  <2> SUFFICES ASSUME NEW i \in 1..(Len(q) - 1)
               PROVE  (a \o b)[i] = IF i < k THEN q[i] ELSE q[i + 1]
    OBVIOUS
  <2>1. CASE i < k
    BY <1>0, <1>1, <1>3, <2>1
  <2>2. CASE ~(i < k)
    <3>0. ~(i <= k - 1)
      BY <1>0, <2>2
    <3>1. (a \o b)[i] = b[i - (k - 1)]
      BY <1>3, <3>0
    <3>2. i - (k - 1) \in 1..(Len(q) - k) /\ k + (i - (k - 1)) = i + 1
      BY <1>0, <2>2
    <3> QED BY <1>2, <2>2, <3>1, <3>2
  <2> QED BY <2>1, <2>2
<1> QED BY <1>3, <1>4 DEF RemoveAt

(* std::erase_if() on a registry without duplicates. *)
LEMMA EraseFacts ==
  ASSUME NEW S, NEW q \in Seq(S), NEW e, IsInjective(q)
  PROVE  /\ RemoveFirst(q, e) \in Seq(S)
         /\ IsInjective(RemoveFirst(q, e))
         /\ Range(RemoveFirst(q, e)) = Range(q) \ {e}
<1>0. Len(q) \in Nat /\ DOMAIN q = 1..Len(q)
  BY LenProperties
<1>1. CASE \E i \in 1..Len(q) : q[i] = e
  <2> DEFINE I == {i \in 1..Len(q) : q[i] = e}
             k == Min(I)
             w == RemoveAt(q, k)
  <2>1. k \in 1..Len(q) /\ q[k] = e
    <3>1. I \in SUBSET Nat /\ I # {}
      BY <1>0, <1>1
    <3> QED BY <3>1, LeastNat
  <2>2. RemoveFirst(q, e) = w
    BY <1>1 DEF RemoveFirst, SelectInSeq
  <2> HIDE DEF k
  <2>3. /\ w \in Seq(S) /\ Len(w) = Len(q) - 1
        /\ \A i \in 1..(Len(q) - 1) : w[i] = IF i < k THEN q[i] ELSE q[i + 1]
    BY <2>1, RemoveAtFacts
  <2> HIDE DEF w
  <2>4. DOMAIN w = 1..(Len(q) - 1)
    BY <2>3, LenProperties
  <2>5. IsInjective(w)
    <3> SUFFICES ASSUME NEW i \in 1..(Len(q) - 1), NEW j \in 1..(Len(q) - 1), w[i] = w[j]
                 PROVE  i = j
      BY <2>4 DEF IsInjective
    <3> DEFINE at(x) == IF x < k THEN x ELSE x + 1
    <3>1. at(i) \in 1..Len(q) /\ at(j) \in 1..Len(q) /\ (at(i) = at(j) => i = j)
      BY <1>0, <2>1
    <3>2. q[at(i)] = w[i] /\ q[at(j)] = w[j]
      BY <2>3
    <3> QED BY <1>0, <3>1, <3>2 DEF IsInjective
  <2>6. ASSUME NEW x \in Range(w)
        PROVE  x \in Range(q) \ {e}
    <3>1. PICK i \in 1..(Len(q) - 1) : x = w[i]
      BY <2>4 DEF Range
    <3>2. PICK j \in 1..Len(q) : x = q[j] /\ j # k
      BY <1>0, <2>1, <2>3, <3>1
    <3> QED BY <1>0, <2>1, <3>2 DEF Range, IsInjective
  <2>7. ASSUME NEW x \in Range(q) \ {e}
        PROVE  x \in Range(w)
    <3>1. PICK j \in 1..Len(q) : x = q[j] /\ j # k
      BY <1>0, <2>1 DEF Range
    <3>2. CASE j < k
      <4>1. j \in 1..(Len(q) - 1) /\ w[j] = x
        BY <1>0, <2>1, <2>3, <3>1, <3>2
      <4> QED BY <2>4, <4>1 DEF Range
    <3>3. CASE j > k
      <4>1. j - 1 \in 1..(Len(q) - 1) /\ ~(j - 1 < k) /\ (j - 1) + 1 = j
        BY <1>0, <2>1, <3>1, <3>3
      <4>2. w[j - 1] = x
        BY <2>3, <3>1, <4>1
      <4> QED BY <2>4, <4>1, <4>2 DEF Range
    <3> QED BY <1>0, <2>1, <3>1, <3>2, <3>3
  <2> QED BY <2>2, <2>3, <2>5, <2>6, <2>7
<1>2. CASE ~ \E i \in 1..Len(q) : q[i] = e
  <2>1. RemoveFirst(q, e) = q
    BY <1>2 DEF RemoveFirst
  <2>2. e \notin Range(q)
    BY <1>0, <1>2 DEF Range
  <2> QED BY <2>1, <2>2
<1> QED BY <1>1, <1>2

(* A new collector goes to the end of the registry. *)
LEMMA AppendFacts ==
  ASSUME NEW S, NEW q \in Seq(S), NEW e \in S, IsInjective(q), e \notin Range(q)
  PROVE  /\ Append(q, e) \in Seq(S)
         /\ IsInjective(Append(q, e))
         /\ Range(Append(q, e)) = Range(q) \cup {e}
<1>1. /\ Append(q, e) \in Seq(S) /\ Len(Append(q, e)) = Len(q) + 1
      /\ \A i \in 1..Len(q) : Append(q, e)[i] = q[i]
      /\ Append(q, e)[Len(q) + 1] = e
  BY AppendProperties
<1>2. /\ Len(q) \in Nat /\ DOMAIN q = 1..Len(q)
      /\ DOMAIN Append(q, e) = 1..(Len(q) + 1)
  BY <1>1, LenProperties
<1>3. \A i \in 1..(Len(q) + 1) : i \in 1..Len(q) \/ i = Len(q) + 1
  BY <1>2
<1> QED BY <1>1, <1>2, <1>3 DEF IsInjective, Range

(* Calling the first of those left to call. *)
LEMMA TailFacts ==
  ASSUME NEW S, NEW q \in Seq(S), q # <<>>
  PROVE  /\ Tail(q) \in Seq(S)
         /\ Head(q) \in Range(q)
         /\ Range(q) = {Head(q)} \cup Range(Tail(q))
<1>1. /\ Tail(q) \in Seq(S) /\ Len(Tail(q)) = Len(q) - 1
      /\ \A i \in 1..Len(Tail(q)) : Tail(q)[i] = q[i + 1]
  BY HeadTailProperties
<1>2. Len(q) \in Nat \ {0} /\ DOMAIN q = 1..Len(q) /\ Head(q) = q[1]
  BY EmptySeq, LenProperties
<1>3. DOMAIN Tail(q) = 1..(Len(q) - 1)
  BY <1>1, LenProperties
<1>4. ASSUME NEW x \in Range(Tail(q))
      PROVE  x \in Range(q)
  <2>1. PICK i \in 1..(Len(q) - 1) : x = q[i + 1]
    BY <1>1, <1>3 DEF Range
  <2>2. i + 1 \in 1..Len(q)
    BY <1>2
  <2> QED BY <1>2, <2>1, <2>2 DEF Range
<1>5. ASSUME NEW x \in Range(q), x # Head(q)
      PROVE  x \in Range(Tail(q))
  <2>1. PICK i \in 1..Len(q) : x = q[i] /\ i # 1
    BY <1>2, <1>5 DEF Range
  <2>2. i - 1 \in 1..(Len(q) - 1) /\ (i - 1) + 1 = i
    BY <1>2, <2>1
  <2>3. x = Tail(q)[i - 1]
    BY <1>1, <2>1, <2>2
  <2> QED BY <1>3, <2>2, <2>3 DEF Range
<1>6. Head(q) \in Range(q)
  BY <1>2 DEF Range
<1> QED BY <1>1, <1>4, <1>5, <1>6

-----------------------------------------------------------------------------
LEMMA InitIInv == Init => IInv
<1> SUFFICES ASSUME Init PROVE IInv
  OBVIOUS
<1>1. TypeOK
  BY EmptySeq DEF Init, TypeOK, Doings
<1>2. DOMAIN collectors = {}
  BY DEF Init
<1>3. Registered = {} /\ OnceEach
  BY <1>2 DEF Registered, Range, OnceEach, IsInjective
<1> QED BY <1>1, <1>3, NobodyAssumption
        DEF Init, IInv, LockIsEmitters, RegisteredInSession, ReadiesToCollect,
            NoneSkipped

(* Steps that only move the thread of a node on, outside the lock. *)
LEMMA MoveOn ==
  ASSUME IInv, NEW n \in Nodes, NEW what \in Doings \ {"emitting"},
         doing[n] # "emitting", Does(n, what),
         what = "resetting" => n \in Benched,
         session' \in SUBSET Nodes,
         UNCHANGED <<lock, collectors, callee, told>>,
         \A m \in Nodes \ {n} : m \in session => m \in session',
         n \in Registered =>
           \/ what \in {"subscribing", "leaving", "finalized"}
           \/ n \in session' /\ what \in {"idle", "tracking", "adding"}
  PROVE  IInv'
<1> USE DEF IInv, Does, ReadiesToCollect
<1>1. TypeOK' /\ OnceEach' /\ NoneSkipped' /\ Registered' = Registered
  BY DEF TypeOK, OnceEach, NoneSkipped, Registered
<1>2. LockIsEmitters'
  BY DEF LockIsEmitters, TypeOK
<1>3. RegisteredInSession'
  <2> SUFFICES ASSUME NEW m \in Registered
               PROVE  /\ m \in Benched
                      /\ \/ doing'[m] \in {"subscribing", "leaving", "finalized"}
                         \/ m \in session' /\ doing'[m] \in {"idle", "tracking", "emitting", "adding"}
    BY <1>1 DEF RegisteredInSession
  <2>1. m \in Nodes /\ m \in Benched
    BY BenchAssumption DEF RegisteredInSession
  <2>2. CASE m = n
    BY <2>1, <2>2 DEF TypeOK
  <2>3. CASE m # n
    BY <2>1, <2>3 DEF TypeOK, RegisteredInSession
  <2> QED BY <2>1, <2>2, <2>3
<1> QED BY <1>1, <1>2, <1>3 DEF TypeOK

(* A node takes its collector out, by the end of a session or of its own. *)
LEMMA Erase ==
  ASSUME IInv, NEW n \in Nodes, NEW what \in {"printing", "gone"},
         doing[n] \in {"leaving", "finalized"}, lock = Nobody, Does(n, what),
         collectors' = RemoveFirst(collectors, n),
         UNCHANGED <<session, lock, callee, told>>
  PROVE  IInv'
<1> USE DEF IInv, Does
<1>1. /\ collectors' \in Seq(Nodes) /\ IsInjective(collectors')
      /\ Registered' = Registered \ {n}
  BY EraseFacts DEF TypeOK, OnceEach, Registered
<1>2. TypeOK' /\ OnceEach' /\ NoneSkipped'
  BY <1>1 DEF TypeOK, Doings, OnceEach, NoneSkipped
<1>3. LockIsEmitters'
  BY NobodyAssumption DEF LockIsEmitters, TypeOK
<1>4. RegisteredInSession'
  BY <1>1, BenchAssumption DEF RegisteredInSession, TypeOK
<1> QED BY <1>2, <1>3, <1>4 DEF ReadiesToCollect, TypeOK

LEMMA RegisterSafe ==
  ASSUME IInv, NEW n \in Nodes, Register(n)
  PROVE  IInv'
<1> USE DEF IInv, Register, Does, ReadiesToCollect
<1>1. n \notin Registered
  BY DEF RegisteredInSession
<1>2. /\ collectors' \in Seq(Nodes) /\ IsInjective(collectors')
      /\ Registered' = Registered \cup {n}
  BY <1>1, AppendFacts DEF TypeOK, OnceEach, Registered
<1>3. TypeOK' /\ OnceEach' /\ NoneSkipped'
  BY <1>2 DEF TypeOK, Doings, OnceEach, NoneSkipped
<1>4. LockIsEmitters'
  BY NobodyAssumption DEF LockIsEmitters, TypeOK
<1>5. RegisteredInSession'
  BY <1>2, BenchAssumption DEF RegisteredInSession, TypeOK
<1> QED BY <1>3, <1>4, <1>5 DEF TypeOK

LEMMA EmitStageSafe ==
  ASSUME IInv, NEW n \in Nodes, EmitStage(n)
  PROVE  IInv'
<1> USE DEF IInv, EmitStage, Does
<1>1. TypeOK' /\ OnceEach' /\ Registered' = Registered
  BY DEF TypeOK, Doings, OnceEach, Registered
<1>2. LockIsEmitters'
  BY NobodyAssumption DEF LockIsEmitters, TypeOK
<1>3. RegisteredInSession'
  BY <1>1, BenchAssumption DEF RegisteredInSession, TypeOK
<1>4. ReadiesToCollect'
  BY DEF ReadiesToCollect, TypeOK
<1>5. NoneSkipped'
  BY <1>1, NobodyAssumption DEF NoneSkipped, Registered
<1> QED BY <1>1, <1>2, <1>3, <1>4, <1>5

LEMMA CollectSafe ==
  ASSUME IInv, NEW n \in Nodes, Collect(n)
  PROVE  IInv'
<1> USE DEF IInv, Collect
<1>1. /\ Tail(callee) \in Seq(Nodes)
      /\ Range(callee) = {Head(callee)} \cup Range(Tail(callee))
  BY TailFacts DEF TypeOK
<1>2. TypeOK' /\ OnceEach' /\ Registered' = Registered
  BY <1>1 DEF TypeOK, OnceEach, Registered
<1>3. LockIsEmitters' /\ RegisteredInSession' /\ ReadiesToCollect'
  BY <1>2 DEF LockIsEmitters, RegisteredInSession, ReadiesToCollect
<1>4. NoneSkipped'
  <2>1. lock = n /\ lock # Nobody
    BY NobodyAssumption DEF LockIsEmitters
  <2> QED BY <1>1, <1>2, <2>1 DEF NoneSkipped
<1> QED BY <1>2, <1>3, <1>4

LEMMA StageDoneSafe ==
  ASSUME IInv, NEW n \in Nodes, StageDone(n)
  PROVE  IInv'
<1> USE DEF IInv, StageDone, Does
<1>1. TypeOK' /\ OnceEach' /\ NoneSkipped' /\ Registered' = Registered
  BY DEF TypeOK, Doings, OnceEach, Registered, NoneSkipped
<1>2. LockIsEmitters'
  BY NobodyAssumption DEF LockIsEmitters, TypeOK
<1>3. RegisteredInSession' /\ ReadiesToCollect'
  BY <1>1, BenchAssumption DEF RegisteredInSession, ReadiesToCollect, TypeOK
<1> QED BY <1>1, <1>2, <1>3

(* One case per thing a node's thread can do. *)
LEMMA StepIInv == IInv /\ [Next]_vars => IInv'
<1> SUFFICES ASSUME IInv, [Next]_vars PROVE IInv'
  OBVIOUS
<1>1. CASE UNCHANGED vars
  BY <1>1 DEF vars, IInv, TypeOK, LockIsEmitters, OnceEach, RegisteredInSession,
              ReadiesToCollect, NoneSkipped, Registered
<1>2. ASSUME NEW n \in Nodes,
             Activate(n) \/ Subscribe(n) \/ Deactivate(n) \/ PrintTable(n) \/ Shutdown(n)
               \/ Load(n) \/ TakeImage(n) \/ AddOwn(n) \/ ImageDone(n)
      PROVE  IInv'
  <2> DEFINE Kept == /\ doing[n] # "emitting"
                     /\ session' \in SUBSET Nodes
                     /\ UNCHANGED <<lock, collectors, callee, told>>
                     /\ \A m \in Nodes \ {n} : m \in session => m \in session'
  <2>0. session \subseteq Nodes
    BY DEF IInv, TypeOK
  <2>1. /\ n \in Registered => n \in Benched
        /\ n \in Registered =>
             \/ doing[n] \in {"subscribing", "leaving", "finalized"}
             \/ n \in session /\ doing[n] \in {"idle", "tracking", "emitting", "adding"}
    BY DEF IInv, RegisteredInSession
  <2>2. CASE Activate(n)
    <3>1. CASE n \in Benched
      <4>1. Kept /\ Does(n, "resetting") /\ n \notin Registered
        BY <2>0, <2>1, <2>2, <3>1 DEF Activate
      <4> QED BY <3>1, <4>1, MoveOn DEF Doings
    <3>2. CASE n \notin Benched
      <4>1. Kept /\ Does(n, "subscribing") /\ n \notin Registered
        BY <2>0, <2>1, <2>2, <3>2 DEF Activate
      <4> QED BY <4>1, MoveOn DEF Doings
    <3> QED BY <3>1, <3>2
  <2>3. CASE Subscribe(n)
    <3>1. Kept /\ Does(n, "idle") /\ n \in session'
      BY <2>0, <2>3 DEF Subscribe
    <3> QED BY <3>1, MoveOn DEF Doings
  <2>4. CASE Deactivate(n)
    <3>1. CASE n \in Benched
      <4>1. Kept /\ Does(n, "leaving")
        BY <2>0, <2>4, <3>1 DEF Deactivate
      <4> QED BY <4>1, MoveOn DEF Doings
    <3>2. CASE n \notin Benched
      <4>1. Kept /\ Does(n, "idle") /\ n \notin Registered
        BY <2>0, <2>1, <2>4, <3>2 DEF Deactivate
      <4> QED BY <4>1, MoveOn DEF Doings
    <3> QED BY <3>1, <3>2
  <2>5. CASE PrintTable(n)
    <3>1. Kept /\ Does(n, "idle") /\ n \notin Registered
      BY <2>0, <2>1, <2>5 DEF PrintTable
    <3> QED BY <3>1, MoveOn DEF Doings
  <2>6. CASE Shutdown(n)
    <3>1. Kept /\ Does(n, "finalized")
      BY <2>0, <2>6 DEF Shutdown
    <3> QED BY <3>1, MoveOn DEF Doings
  <2>7. CASE Load(n)
    <3>1. Kept /\ Does(n, "idle") /\ n \notin Registered
      BY <2>0, <2>1, <2>7 DEF Load
    <3> QED BY <3>1, MoveOn DEF Doings
  <2>8. CASE TakeImage(n)
    <3>1. Kept /\ Does(n, "tracking") /\ n \in session'
      BY <2>0, <2>8 DEF TakeImage
    <3> QED BY <3>1, MoveOn DEF Doings
  <2>9. CASE AddOwn(n) /\ n \in Benched
    <3>1. Kept /\ Does(n, "adding") /\ (n \in Registered => n \in session')
      BY <2>0, <2>1, <2>9 DEF AddOwn
    <3> QED BY <3>1, MoveOn DEF Doings
  <2>10. CASE AddOwn(n) /\ n \notin Benched
    <3>1. Kept /\ Does(n, "idle") /\ n \notin Registered
      BY <2>0, <2>1, <2>10 DEF AddOwn
    <3> QED BY <3>1, MoveOn DEF Doings
  <2>11. CASE ImageDone(n)
    <3>1. Kept /\ Does(n, "idle") /\ (n \in Registered => n \in session')
      BY <2>0, <2>1, <2>11 DEF ImageDone
    <3> QED BY <3>1, MoveOn DEF Doings
  <2> QED BY <1>2, <2>2, <2>3, <2>4, <2>5, <2>6, <2>7, <2>8, <2>9, <2>10, <2>11
<1>3. ASSUME NEW n \in Nodes, Register(n) PROVE IInv'
  BY <1>3, RegisterSafe
<1>4. ASSUME NEW n \in Nodes, Unregister(n) PROVE IInv'
  BY <1>4, Erase DEF Unregister
<1>5. ASSUME NEW n \in Nodes, Destroy(n) PROVE IInv'
  BY <1>5, Erase DEF Destroy
<1>6. ASSUME NEW n \in Nodes, EmitStage(n) PROVE IInv'
  BY <1>6, EmitStageSafe
<1>7. ASSUME NEW n \in Nodes, Collect(n) PROVE IInv'
  BY <1>7, CollectSafe
<1>8. ASSUME NEW n \in Nodes, StageDone(n) PROVE IInv'
  BY <1>8, StageDoneSafe
<1> QED BY <1>1, <1>2, <1>3, <1>4, <1>5, <1>6, <1>7, <1>8 DEF Next

-----------------------------------------------------------------------------
(* The registry and who holds its lock are well formed, a node has one
   collector at most, and has it only from the start of a session to its end. *)
THEOREM Inductive == Spec => []IInv
  BY InitIInv, StepIInv, PTL DEF Spec

(* No stage of another node's pipeline reaches the samples of a node that
   empties or prints them, or that is gone: ProfileCollector's constructor and
   destructor take the lock its callers hold. *)
THEOREM PrivateSamples == Spec => []SamplesArePrivate
<1>1. IInv => SamplesArePrivate
  <2> SUFFICES ASSUME IInv, NEW n \in Nodes, doing[n] \in {"resetting", "printing", "gone"},
                      NEW m \in Inside(n), m # n
               PROVE  FALSE
    BY DEF SamplesArePrivate
  <2>1. lock = m /\ m \in Nodes /\ callee # <<>> /\ Head(callee) = n
    BY DEF Inside
  <2>2. n \in Range(callee)
    BY <2>1, TailFacts DEF IInv, TypeOK
  <2>3. n \in Registered
    BY <2>1, <2>2, NobodyAssumption DEF IInv, NoneSkipped
  <2> QED BY <2>3 DEF IInv, RegisteredInSession
<1> QED BY <1>1, Inductive, PTL

(* A stage reaches every collector there is: nobody registers or leaves while
   the sink of sink_bridge.cpp goes through them. *)
THEOREM EveryoneTold == Spec => AllAreTold
<1> DEFINE A == \A n \in Nodes : doing[n] = "emitting" /\ doing'[n] = "tracking" =>
                  told = Range(collectors)
<1>1. IInv /\ [Next]_vars => [A]_vars
  <2> SUFFICES ASSUME IInv, Next, NEW n \in Nodes,
                      doing[n] = "emitting", doing'[n] = "tracking"
               PROVE  told = Range(collectors)
    OBVIOUS
  <2>1. PICK m \in Nodes : \/ Activate(m) \/ Register(m) \/ Subscribe(m)
                           \/ Deactivate(m) \/ Unregister(m) \/ PrintTable(m)
                           \/ Shutdown(m) \/ Destroy(m) \/ Load(m)
                           \/ TakeImage(m) \/ EmitStage(m) \/ Collect(m) \/ StageDone(m)
                           \/ AddOwn(m) \/ ImageDone(m)
    BY DEF Next
  <2>2. StageDone(n)
    BY <2>1 DEF IInv, TypeOK, Does, Activate, Register, Subscribe, Deactivate, Unregister,
                PrintTable, Shutdown, Destroy, Load, TakeImage, EmitStage, Collect,
                StageDone, AddOwn, ImageDone
  <2>3. lock = n /\ lock # Nobody /\ callee = <<>>
    BY <2>2, NobodyAssumption DEF IInv, LockIsEmitters, StageDone
  <2>4. Range(callee) = {}
    BY <2>3 DEF Range
  <2> QED BY <2>3, <2>4 DEF IInv, NoneSkipped, Registered
<1> QED BY <1>1, Inductive, PTL DEF Spec, AllAreTold
=============================================================================
