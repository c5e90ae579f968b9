--------------------------- MODULE ThreadedForLoop ---------------------------
(***************************************************************************)
(* src/src/threading/threaded_for_loop: a for loop whose iterations are    *)
(* shared by a pool of threads.  Thread Root is the caller of DoLoop, it   *)
(* does the last part itself; the others were started by the constructor.  *)
(* One boost::barrier object serves as the start and as the end of a loop, *)
(* so it opens whenever all threads wait, wherever each of them waits.     *)
(***************************************************************************)
EXTENDS Integers

CONSTANTS
  NumberOfThreads,  \* mNumberOfThreads: the caller and the pool
  MaxLoops,         \* bound: largest numberOfLoops a caller passes to DoLoop
  MaxCalls          \* bound: calls of DoLoop

ASSUME ConstantsAssumption ==
  /\ NumberOfThreads \in Nat \ {0}
  /\ MaxLoops \in Nat
  /\ MaxCalls \in Nat

Thread == 0..(NumberOfThreads - 1)
Root == NumberOfThreads - 1
Index == 0..(MaxLoops - 1)

VARIABLES
  pc,             \* where each thread is
  position,       \* i of each thread's DoLoop
  mNumberOfLoops,
  mTerminate,
  calls,          \* calls of DoLoop so far
  iterated        \* iterated[i]: how often Iterate( i ) ran in this call

vars == <<pc, position, mNumberOfLoops, mTerminate, calls, iterated>>

\* mutant: the end of a part is rounded up
EndRoundedUp(n, r) == (n * (r + 1) + NumberOfThreads - 1) \div NumberOfThreads

\* start and end of the part of thread r in a loop of n iterations
Start(n, r) == (n * r) \div NumberOfThreads
End(n, r) == (n * (r + 1)) \div NumberOfThreads

Init ==
  /\ pc = [r \in Thread |-> IF r = Root THEN "idle" ELSE "start"]
  /\ position = [r \in Thread |-> 0]
  /\ mNumberOfLoops = 0
  /\ mTerminate = FALSE
  /\ calls = 0
  /\ iterated = [i \in Index |-> 0]

\* the program calls DoLoop
CallDoLoop ==
  /\ pc[Root] = "idle"
  /\ calls < MaxCalls
  /\ calls' = calls + 1
  /\ mNumberOfLoops' \in 0..MaxLoops
  /\ iterated' = [i \in Index |-> 0]
  /\ pc' = [pc EXCEPT ![Root] = "start"]
  /\ UNCHANGED <<position, mTerminate>>

\* mutant: the pool is not told to stop
DestroyWithoutTerminate ==
  /\ pc[Root] = "idle"
  /\ pc' = [pc EXCEPT ![Root] = "stop"]
  /\ UNCHANGED <<position, mNumberOfLoops, mTerminate, calls, iterated>>

\* ~ThreadedForLoop up to its wait
Destroy ==
  /\ pc[Root] = "idle"
  /\ mTerminate' = TRUE
  /\ pc' = [pc EXCEPT ![Root] = "stop"]
  /\ UNCHANGED <<position, mNumberOfLoops, calls, iterated>>

\* mutant: the root thread is not one of the parties
BarrierWithoutRoot ==
  /\ \A r \in Thread \ {Root} : pc[r] \in {"start", "end"}
  /\ pc' = [r \in Thread |-> CASE pc[r] = "start" -> IF r = Root THEN "loop" ELSE "check"
                               [] pc[r] = "end" -> IF r = Root THEN "idle" ELSE "start"
                               [] pc[r] = "stop" -> "join"
                               [] OTHER -> pc[r]]
  /\ position' = [position EXCEPT ![Root] = IF pc[Root] = "start" THEN Start(mNumberOfLoops, Root) ELSE @]
  /\ UNCHANGED <<mNumberOfLoops, mTerminate, calls, iterated>>

\* all threads wait at mSynchronizeLoop
Barrier ==
  /\ \A r \in Thread : pc[r] \in {"start", "end", "stop"}
  /\ pc' = [r \in Thread |-> CASE pc[r] = "start" -> IF r = Root THEN "loop" ELSE "check"
                               [] pc[r] = "end" -> IF r = Root THEN "idle" ELSE "start"
                               [] OTHER -> "join"]
  /\ position' = [position EXCEPT ![Root] = IF pc[Root] = "start" THEN Start(mNumberOfLoops, Root) ELSE @]
  /\ UNCHANGED <<mNumberOfLoops, mTerminate, calls, iterated>>

\* mutant: the condition is inverted
CheckTerminateInverted(r) ==
  /\ pc[r] = "check"
  /\ pc' = [pc EXCEPT ![r] = IF mTerminate THEN "loop" ELSE "done"]
  /\ position' = [position EXCEPT ![r] = Start(mNumberOfLoops, r)]
  /\ UNCHANGED <<mNumberOfLoops, mTerminate, calls, iterated>>

\* a pool thread behind the first wait of its operator()
CheckTerminate(r) ==
  /\ pc[r] = "check"
  /\ pc' = [pc EXCEPT ![r] = IF mTerminate THEN "done" ELSE "loop"]
  /\ position' = [position EXCEPT ![r] = Start(mNumberOfLoops, r)]
  /\ UNCHANGED <<mNumberOfLoops, mTerminate, calls, iterated>>

\* mutant: the part is closed on the right
IterateOneMore(r) ==
  /\ pc[r] = "loop"
  /\ IF position[r] <= End(mNumberOfLoops, r)
     THEN /\ iterated' = [iterated EXCEPT ![position[r]] = @ + 1]
          /\ position' = [position EXCEPT ![r] = @ + 1]
          /\ UNCHANGED pc
     ELSE /\ pc' = [pc EXCEPT ![r] = "end"]
          /\ UNCHANGED <<position, iterated>>
  /\ UNCHANGED <<mNumberOfLoops, mTerminate, calls>>

\* one turn of ThreadFunction::DoLoop
Iterate(r) ==
  /\ pc[r] = "loop"
  /\ IF position[r] < End(mNumberOfLoops, r)
     THEN /\ iterated' = [iterated EXCEPT ![position[r]] = @ + 1]
          /\ position' = [position EXCEPT ![r] = @ + 1]
          /\ UNCHANGED pc
     ELSE /\ pc' = [pc EXCEPT ![r] = "end"]
          /\ UNCHANGED <<position, iterated>>
  /\ UNCHANGED <<mNumberOfLoops, mTerminate, calls>>

\* the join loop of ~ThreadedForLoop
Join ==
  /\ pc[Root] = "join"
  /\ \A r \in Thread \ {Root} : pc[r] = "done"
  /\ pc' = [pc EXCEPT ![Root] = "done"]
  /\ UNCHANGED <<position, mNumberOfLoops, mTerminate, calls, iterated>>

\* The program is over when the pool is destroyed.
Terminated == pc[Root] = "done" /\ UNCHANGED vars

Next ==
  \/ CallDoLoop \/ Destroy
  \/ Barrier
  \/ \E r \in Thread : CheckTerminate(r) \/ Iterate(r)
  \/ Join
  \/ Terminated

Spec == Init /\ [][Next]_vars

\* The operating system runs every thread that does not wait.
Fairness ==
  /\ WF_vars(Barrier)
  /\ WF_vars(Join)
  /\ \A r \in Thread : WF_vars(CheckTerminate(r) \/ Iterate(r))

FairSpec == Spec /\ Fairness

-----------------------------------------------------------------------------
(* Properties *)

\* Every variable holds a value of its type; in particular no position leaves
\* the range of the loop the caller asked for.
TypeOK ==
  /\ pc \in [Thread -> {"idle", "start", "check", "loop", "end", "stop", "join", "done"}]
  /\ position \in [Thread -> 0..MaxLoops]
  /\ mNumberOfLoops \in 0..MaxLoops
  /\ mTerminate \in BOOLEAN
  /\ calls \in 0..MaxCalls
  /\ iterated \in [Index -> Nat]

\* When DoLoop is back, every index below numberOfLoops was iterated exactly
\* once and no other index was, for any number of iterations and threads:
\* the parts the threads compute for themselves neither overlap nor leave a gap.
ExactlyOnce ==
  pc[Root] = "idle" => \A i \in Index : iterated[i] = IF i < mNumberOfLoops THEN 1 ELSE 0

\* While the caller is outside of a loop, where it is free to change
\* mNumberOfLoops and mLoopFunctor, no thread of the pool reads them.
PoolAtRest ==
  pc[Root] \in {"idle", "start", "stop"} => \A r \in Thread \ {Root} : pc[r] = "start"

\* DoLoop returns, and ~ThreadedForLoop joins the pool and returns.
CallsReturn ==
  /\ (pc[Root] = "start") ~> (pc[Root] = "idle")
  /\ (pc[Root] = "stop") ~> (pc[Root] = "done")

-----------------------------------------------------------------------------
(* The inductive invariant that ThreadedForLoopProofs proves. *)

Phase ==
  /\ pc[Root] \in {"idle", "start", "stop"} => \A r \in Thread \ {Root} : pc[r] = "start"
  /\ pc[Root] \in {"loop", "end"} => \A r \in Thread \ {Root} : pc[r] \in {"check", "loop", "end"}
  /\ pc[Root] \in {"join", "done"} => \A r \in Thread \ {Root} : pc[r] \in {"check", "done"}
  /\ pc[Root] # "check"
  /\ mTerminate <=> pc[Root] \in {"stop", "join", "done"}

\* how far thread r has come in its part
Progress(r) ==
  CASE pc[Root] \in {"loop", "end"} /\ pc[r] = "check" -> Start(mNumberOfLoops, r)
    [] pc[Root] \in {"loop", "end"} /\ pc[r] = "loop" -> position[r]
    [] pc[Root] = "start" -> Start(mNumberOfLoops, r)
    [] OTHER -> End(mNumberOfLoops, r)

Parts ==
  \A r \in Thread :
    /\ pc[r] = "loop" => position[r] \in Start(mNumberOfLoops, r)..End(mNumberOfLoops, r)
    /\ \A i \in Start(mNumberOfLoops, r)..(End(mNumberOfLoops, r) - 1) :
         iterated[i] = IF i < Progress(r) THEN 1 ELSE 0

Outside == \A i \in Index : i >= mNumberOfLoops => iterated[i] = 0

IInv == Phase /\ Parts /\ Outside
=============================================================================
