------------------------------ MODULE ForkJoin ------------------------------
(***************************************************************************)
(* What src/src/threading promises to the program that owns a              *)
(* ThreadManager: the main thread publishes the data of a cycle, every     *)
(* worker thread does its necessary work on that data exactly once, and    *)
(* only then the main thread collects the results.  Barriers, flags,       *)
(* tasks and optional work are details of the implementation.              *)
(***************************************************************************)
EXTENDS Naturals

CONSTANTS Worker,     \* the worker threads
          MaxCycle    \* how many cycles the main thread starts

VARIABLES phase,      \* "idle", "working" or "stopped": what the main thread asked for
          cycle,      \* number of the published cycle, 0 before the first one
          finished    \* workers that finished their necessary work of this cycle

fjVars == <<phase, cycle, finished>>

Init ==
  /\ phase = "idle"
  /\ cycle = 0
  /\ finished = {}

\* ThreadManager::SendDataToThreads
Publish ==
  /\ phase = "idle"
  /\ cycle < MaxCycle
  /\ phase' = "working"
  /\ cycle' = cycle + 1
  /\ UNCHANGED finished

\* one worker is through its necessary work
Finish(w) ==
  /\ phase = "working"
  /\ w \notin finished
  /\ finished' = finished \cup {w}
  /\ UNCHANGED <<phase, cycle>>

\* ThreadManager::ReceiveDataFromThreads
Collect ==
  /\ phase = "working"
  /\ finished = Worker
  /\ phase' = "idle"
  /\ finished' = {}
  /\ UNCHANGED cycle

\* ThreadManager::~ThreadManager
Stop ==
  /\ phase = "idle"
  /\ phase' = "stopped"
  /\ UNCHANGED <<cycle, finished>>

Next ==
  \/ Publish
  \/ \E w \in Worker : Finish(w)
  \/ Collect
  \/ Stop

Spec == Init /\ [][Next]_fjVars
=============================================================================
