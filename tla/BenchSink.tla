------------------------------ MODULE BenchSink ------------------------------
(***************************************************************************)
(* The `bench` parameter of the tracker nodes composed in one process.     *)
(* ros2/ctrk_ros/src/sink_bridge.cpp calls the collectors of all of them   *)
(* for every stage any pipeline emits, under the registry's lock; each     *)
(* collector adds to its node's samples (bench_stats.hpp), and so does the *)
(* node itself, with no lock, after every image.                           *)
(*                                                                         *)
(* Each node has a thread of its own (component_container_isolated), and   *)
(* one step is what it does between two points where others can come in.   *)
(***************************************************************************)
EXTENDS Naturals, Sequences, SequencesExt

CONSTANTS
  Nodes,               \* the tracker nodes of the process
  Benched              \* those whose `bench` is set

ASSUME BenchAssumption == Benched \subseteq Nodes

VARIABLES
  doing,               \* what the thread of each node is at
  session,             \* the nodes that have their image subscription
  lock,                \* who holds the registry's mutex
  collectors,          \* the nodes registered, in order
  callee,              \* the collectors the holder of the lock has yet to call
  told                 \* history: those it has called

vars == <<doing, session, lock, collectors, callee, told>>

Nobody == "nobody"

ASSUME NobodyAssumption == Nobody \notin Nodes

Does(n, what) == doing' = [doing EXCEPT ![n] = what]

-----------------------------------------------------------------------------
Init ==
  /\ doing = [n \in Nodes |-> "idle"]
  /\ session = {}
  /\ lock = Nobody
  /\ collectors = <<>>
  /\ callee = <<>>
  /\ told = {}

(* on_activate() of a node: its samples are emptied if it is to collect. *)
Activate(n) ==
  /\ doing[n] = "idle"
  /\ n \notin session
  /\ Does(n, IF n \in Benched THEN "resetting" ELSE "subscribing")
  /\ UNCHANGED <<session, lock, collectors, callee, told>>

(* ProfileCollector's constructor. *)
Register(n) ==
  /\ doing[n] = "resetting"
  /\ lock = Nobody
  /\ collectors' = Append(collectors, n)
  /\ Does(n, "subscribing")
  /\ UNCHANGED <<session, lock, callee, told>>

Subscribe(n) ==
  /\ doing[n] = "subscribing"
  /\ session' = session \cup {n}
  /\ Does(n, "idle")
  /\ UNCHANGED <<lock, collectors, callee, told>>

(* on_deactivate(): the subscription goes first, the collector next. *)
Deactivate(n) ==
  /\ doing[n] = "idle"
  /\ n \in session
  /\ session' = session \ {n}
  /\ Does(n, IF n \in Benched THEN "leaving" ELSE "idle")
  /\ UNCHANGED <<lock, collectors, callee, told>>

(* Mutant of Unregister: the registry is not locked. *)
UnregisterUnlocked(n) ==
  /\ doing[n] = "leaving"
  /\ collectors' = RemoveFirst(collectors, n)
  /\ Does(n, "printing")
  /\ UNCHANGED <<session, lock, callee, told>>

(* ProfileCollector's destructor. *)
Unregister(n) ==
  /\ doing[n] = "leaving"
  /\ lock = Nobody
  /\ collectors' = RemoveFirst(collectors, n)
  /\ Does(n, "printing")
  /\ UNCHANGED <<session, lock, callee, told>>

(* table() and the end of on_deactivate(). *)
PrintTable(n) ==
  /\ doing[n] = "printing"
  /\ Does(n, "idle")
  /\ UNCHANGED <<session, lock, collectors, callee, told>>

(* on_shutdown() leaves the collector registered, ... *)
Shutdown(n) ==
  /\ doing[n] = "idle"
  /\ session' = session \ {n}
  /\ Does(n, "finalized")
  /\ UNCHANGED <<lock, collectors, callee, told>>

(* ... to be destroyed with the node, before its samples are. *)
Destroy(n) ==
  /\ doing[n] = "finalized"
  /\ lock = Nobody
  /\ collectors' = RemoveFirst(collectors, n)
  /\ Does(n, "gone")
  /\ UNCHANGED <<session, lock, callee, told>>

(* The container loads the node again. *)
Load(n) ==
  /\ doing[n] = "gone"
  /\ Does(n, "idle")
  /\ UNCHANGED <<session, lock, collectors, callee, told>>

-----------------------------------------------------------------------------
(* on_image(): the tracker emits stages until it is done with the frame. *)
TakeImage(n) ==
  /\ doing[n] = "idle"
  /\ n \in session
  /\ Does(n, "tracking")
  /\ UNCHANGED <<session, lock, collectors, callee, told>>

(* profile_emit(): the bridge's sink locks the registry ... *)
EmitStage(n) ==
  /\ doing[n] = "tracking"
  /\ lock = Nobody
  /\ lock' = n
  /\ callee' = collectors
  /\ told' = {}
  /\ Does(n, "emitting")
  /\ UNCHANGED <<session, collectors>>

(* ... the first of the collectors left to call returns from its add() ... *)
Collect(n) ==
  /\ doing[n] = "emitting"
  /\ callee # <<>>
  /\ told' = told \cup {Head(callee)}
  /\ callee' = Tail(callee)
  /\ UNCHANGED <<doing, session, lock, collectors>>

(* Mutant of StageDone: one collector is enough. *)
StageDoneEarly(n) ==
  /\ doing[n] = "emitting"
  /\ callee = <<>> \/ told # {}
  /\ callee' = <<>>
  /\ lock' = Nobody
  /\ Does(n, "tracking")
  /\ UNCHANGED <<session, collectors, told>>

(* ... and it unlocks the registry when none is left. *)
StageDone(n) ==
  /\ doing[n] = "emitting"
  /\ callee = <<>>
  /\ lock' = Nobody
  /\ Does(n, "tracking")
  /\ UNCHANGED <<session, collectors, callee, told>>

(* The tracks are published, and the node adds its own two samples. *)
AddOwn(n) ==
  /\ doing[n] = "tracking"
  /\ Does(n, IF n \in Benched THEN "adding" ELSE "idle")
  /\ UNCHANGED <<session, lock, collectors, callee, told>>

ImageDone(n) ==
  /\ doing[n] = "adding"
  /\ Does(n, "idle")
  /\ UNCHANGED <<session, lock, collectors, callee, told>>

Next ==
  \E n \in Nodes :
    \/ Activate(n) \/ Register(n) \/ Subscribe(n)
    \/ Deactivate(n) \/ Unregister(n) \/ PrintTable(n)
    \/ Shutdown(n) \/ Destroy(n) \/ Load(n)
    \/ TakeImage(n) \/ EmitStage(n) \/ Collect(n) \/ StageDone(n)
    \/ AddOwn(n) \/ ImageDone(n)

Spec == Init /\ [][Next]_vars

-----------------------------------------------------------------------------
(* The threads inside the samples of a node: its own, and the one whose stage
   its collector is called with. *)
Inside(n) ==
  {m \in Nodes : \/ m = n /\ doing[m] \in {"resetting", "printing", "adding"}
                 \/ lock = m /\ callee # <<>> /\ Head(callee) = n}

(* While a node empties its samples or prints them, and once it is gone, no
   stage is added to them, whatever the others emit: a table is never torn,
   it holds one session, and no collector outlives its node. *)
SamplesArePrivate ==
  \A n \in Nodes : doing[n] \in {"resetting", "printing", "gone"} => Inside(n) \subseteq {n}

(* Every stage reaches every collector that is registered when it is over. *)
AllAreTold ==
  [][\A n \in Nodes : doing[n] = "emitting" /\ doing'[n] = "tracking" =>
       told = Range(collectors)]_vars

(* As bench_stats.hpp has it: all calls of add() come from the node's own
   callback group, so that no lock is needed. *)
NoLockNeeded ==
  \A n, m, k \in Nodes : m \in Inside(n) /\ k \in Inside(n) => m = k
=============================================================================
