---------------------------- MODULE ThreadManager ----------------------------
(***************************************************************************)
(* The computing cycle of src/src/threading when it is built with          *)
(* BOOST_THREAD: ThreadManager< ThreadCommunicator > and its TaskGroups.   *)
(* The main thread ("root") and every worker thread meet at two barriers;  *)
(* three atomics (mNeedFinish, mReadyRemoteTasks, mNeedStop) steer the     *)
(* optional work and the shutdown.                                         *)
(*                                                                         *)
(* One action is what a thread does between two accesses to shared state.  *)
(* A boost::barrier is the joint step of everybody who waits at it, as     *)
(* all of its parties have to wait before anyone is released; being        *)
(* released and not yet running again is being at the next label.          *)
(*                                                                         *)
(* The data of a task is abstracted to the number of the cycle it belongs  *)
(* to: input[g][t] is the cycle PrepareDataForThreads last wrote, and      *)
(* output[g][t][w] the cycle of the input that worker w last computed on.  *)
(***************************************************************************)
EXTENDS Integers, FiniteSets, Sequences, SequencesExt

CONSTANTS
  NumberOfGroups,   \* mTaskGroupVec.size()
  NumberOfTasks,    \* mTaskVec.size() of each group
  NumberOfWorkers,  \* mRemoteHandlerVec.size(): all registered worker threads
  GroupOf,          \* GroupOf[w]: the group whose handler thread w runs
  Assigned,         \* Assigned[g]: workers AssignThreadsToTasks gave group g
  TaskMax,          \* TaskMax[g][t]: GetMaximalNumberOfWorker of a task
  StopAtConstruction, \* values mNeedStop can hold before StopAllProcesses
  MaxCycle          \* bound: cycles the main thread starts

Group  == 1..NumberOfGroups
TaskNr == 1..NumberOfTasks
Worker == 0..(NumberOfWorkers - 1)     \* the argument RunThreads passes on

ASSUME ConstantsAssumption ==
  /\ NumberOfGroups \in Nat \ {0}
  /\ NumberOfTasks \in Nat \ {0}
  /\ NumberOfWorkers \in Nat \ {0}
  /\ GroupOf \in [Worker -> Group]
  /\ Assigned \in [Group -> Nat]
  /\ TaskMax \in [Group -> [TaskNr -> Nat]]
  /\ StopAtConstruction \subseteq BOOLEAN
  /\ MaxCycle \in Nat

\* RegisterWorker pushed one handler for each assigned worker of a group.
ASSUME RegistrationAssumption ==
  \A g \in Group : Assigned[g] = Cardinality({w \in Worker : GroupOf[w] = g})

VARIABLES
  root,     \* where the main thread is
  group,    \* groupID of the loops in SendDataToThreads/ReceiveDataFromThreads
  rootTask, \* taskIndex of the main thread's loops
  cycle,    \* cycles started so far
  worker,   \* where each worker thread is, in TaskGroup::RunTasks
  task,     \* taskIndex of each worker's necessary-work loop
  pending,  \* tasksWithUncompletedOptionalWork of each worker
  index,    \* position in pending of the next optional work (from 1)
  mNeedFinish, mReadyRemoteTasks, mNeedStop,
  input, output

rootVars == <<root, group, rootTask, cycle>>
workerVars == <<worker, task, pending, index>>
flags == <<mNeedFinish, mReadyRemoteTasks, mNeedStop>>
data == <<input, output>>
vars == <<root, group, rootTask, cycle, worker, task, pending, index,
          mNeedFinish, mReadyRemoteTasks, mNeedStop, input, output>>

RootPC == {"idle", "prepare", "recv", "sent", "send", "reset", "clear", "use",
           "stopRecv", "join", "stopped"}
WorkerPC == {"recv", "stop?", "necessary", "setReady", "finish?", "ready?",
             "optional", "send", "reset", "clear", "done"}

-----------------------------------------------------------------------------
\* TaskGroup::Init: what GetNumberOfWorker() of a task is after it
NumberOfWorker(g, t) == IF Assigned[g] > TaskMax[g][t] THEN TaskMax[g][t] ELSE Assigned[g]

\* the workers of group g that run task t: RunTasks skips the others
WorkersOf(g, t) == {w \in Worker : GroupOf[w] = g /\ w < NumberOfWorker(g, t)}

\* mutant: one worker too few is enough
IsReadyOffByOne == mReadyRemoteTasks >= NumberOfWorkers - 1

\* ThreadCommunicator::IsReady
IsReady == mReadyRemoteTasks = NumberOfWorkers

Init ==
  /\ root = "idle"
  /\ group = 1
  /\ rootTask = 1
  /\ cycle = 0
  /\ worker = [w \in Worker |-> "recv"]
  /\ task = [w \in Worker |-> 1]
  /\ pending = [w \in Worker |-> << >>]
  /\ index = [w \in Worker |-> 1]
  /\ mNeedFinish = FALSE
  /\ mReadyRemoteTasks = 0
  /\ mNeedStop \in StopAtConstruction
  /\ input = [g \in Group |-> [t \in TaskNr |-> 0]]
  /\ output = [g \in Group |-> [t \in TaskNr |-> [w \in Worker |-> 0]]]

-----------------------------------------------------------------------------
(* The main thread *)

\* the program calls ThreadManager::SendDataToThreads
CallSend ==
  /\ root = "idle"
  /\ cycle < MaxCycle
  /\ root' = "prepare"
  /\ group' = 1
  /\ rootTask' = 1
  /\ cycle' = cycle + 1
  /\ UNCHANGED <<workerVars, flags, data>>

\* mutant: the loop over the tasks ends one task too early
PrepareSkipsLast ==
  /\ root = "prepare"
  /\ input' = [input EXCEPT ![group][rootTask] = cycle]
  /\ IF rootTask < NumberOfTasks - 1
     THEN rootTask' = rootTask + 1 /\ root' = root
     ELSE rootTask' = 1 /\ root' = "recv"
  /\ UNCHANGED <<group, cycle, workerVars, flags, output>>

\* PrepareDataForThreads of one task; after the last one SyncBeforeThreadWork
Prepare ==
  /\ root = "prepare"
  /\ input' = [input EXCEPT ![group][rootTask] = cycle]
  /\ IF rootTask < NumberOfTasks
     THEN rootTask' = rootTask + 1 /\ root' = root
     ELSE rootTask' = 1 /\ root' = "recv"
  /\ UNCHANGED <<group, cycle, workerVars, flags, output>>

\* mutant: FinishThisCycle is forgotten
CallReceiveUnfinished ==
  /\ root = "sent"
  /\ root' = "send"
  /\ group' = 1
  /\ UNCHANGED <<rootTask, cycle, workerVars, flags, data>>

\* the program calls ThreadManager::ReceiveDataFromThreads: FinishThisCycle,
\* then the first group's SyncAfterThreadWork
CallReceive ==
  /\ root = "sent"
  /\ mNeedFinish' = TRUE
  /\ root' = "send"
  /\ group' = 1
  /\ UNCHANGED <<rootTask, cycle, workerVars, mReadyRemoteTasks, mNeedStop, data>>

\* the rest of SyncAfterThreadWork, on the main thread
RootReset ==
  /\ root = "reset"
  /\ mNeedFinish' = FALSE
  /\ root' = "clear"
  /\ UNCHANGED <<group, rootTask, cycle, workerVars, mReadyRemoteTasks, mNeedStop, data>>

\* mutant: the main thread leaves the counter to the workers
RootClearForgotten ==
  /\ root = "clear"
  /\ root' = "use"
  /\ UNCHANGED <<group, rootTask, cycle, workerVars, flags, data>>

RootClear ==
  /\ root = "clear"
  /\ mReadyRemoteTasks' = 0
  /\ root' = "use"
  /\ UNCHANGED <<group, rootTask, cycle, workerVars, mNeedFinish, mNeedStop, data>>

\* mutant: the loop over the groups goes one group too far
UseOneGroupTooMany ==
  /\ root = "use"
  /\ IF rootTask < NumberOfTasks
     THEN rootTask' = rootTask + 1 /\ UNCHANGED <<root, group>>
     ELSE /\ rootTask' = 1
          /\ IF group <= NumberOfGroups
             THEN group' = group + 1 /\ root' = "send"
             ELSE group' = 1 /\ root' = "idle"
  /\ UNCHANGED <<cycle, workerVars, flags, data>>

\* UseDataFromThreads of one task; after the last task the next group
Use ==
  /\ root = "use"
  /\ IF rootTask < NumberOfTasks
     THEN rootTask' = rootTask + 1 /\ UNCHANGED <<root, group>>
     ELSE /\ rootTask' = 1
          /\ IF group < NumberOfGroups
             THEN group' = group + 1 /\ root' = "send"
             ELSE group' = 1 /\ root' = "idle"
  /\ UNCHANGED <<cycle, workerVars, flags, data>>

\* mutant: the stop command is not given
StopWithoutCommand ==
  /\ root = "idle"
  /\ root' = "stopRecv"
  /\ UNCHANGED <<group, rootTask, cycle, workerVars, flags, data>>

\* ~ThreadManager runs StopAllProcesses
StopAllProcesses ==
  /\ root = "idle"
  /\ mNeedStop' = TRUE
  /\ root' = "stopRecv"
  /\ UNCHANGED <<group, rootTask, cycle, workerVars, mNeedFinish, mReadyRemoteTasks, data>>

\* the join loop of StopAllProcesses
Join ==
  /\ root = "join"
  /\ \A w \in Worker : worker[w] = "done"
  /\ root' = "stopped"
  /\ UNCHANGED <<group, rootTask, cycle, workerVars, flags, data>>

-----------------------------------------------------------------------------
(* The two barriers; each has NumberOfWorkers + 1 parties *)

RecvBarrier ==
  /\ root \in {"recv", "stopRecv"}
  /\ \A w \in Worker : worker[w] = "recv"
  /\ worker' = [w \in Worker |-> "stop?"]
  /\ IF root = "stopRecv" THEN root' = "join" /\ group' = group
     ELSE IF group < NumberOfGroups THEN root' = "prepare" /\ group' = group + 1
     ELSE root' = "sent" /\ group' = 1
  /\ UNCHANGED <<rootTask, cycle, task, pending, index, flags, data>>

\* mutant: created for one party too few
SendBarrierOneShort ==
  /\ root = "send"
  /\ \E late \in Worker : \A w \in Worker \ {late} : worker[w] = "send"
  /\ worker' = [w \in Worker |-> IF worker[w] = "send" THEN "reset" ELSE worker[w]]
  /\ root' = "reset"
  /\ UNCHANGED <<group, rootTask, cycle, task, pending, index, flags, data>>

SendBarrier ==
  /\ root = "send"
  /\ \A w \in Worker : worker[w] = "send"
  /\ worker' = [w \in Worker |-> "reset"]
  /\ root' = "reset"
  /\ UNCHANGED <<group, rootTask, cycle, task, pending, index, flags, data>>

-----------------------------------------------------------------------------
(* A worker thread *)

Goto(w, from, to) ==
  /\ worker[w] = from
  /\ worker' = [worker EXCEPT ![w] = to]

\* IsStop() behind the first barrier
CheckStop(w) ==
  /\ Goto(w, "stop?", IF mNeedStop THEN "done" ELSE "necessary")
  /\ task' = [task EXCEPT ![w] = 1]
  /\ UNCHANGED <<rootVars, pending, index, flags, data>>

\* mutant: the last worker of a task skips it
NecessaryWorkSkipsLast(w) ==
  LET g == GroupOf[w]  t == task[w] IN
  /\ Goto(w, "necessary", IF t < NumberOfTasks THEN "necessary" ELSE "setReady")
  /\ task' = [task EXCEPT ![w] = IF t < NumberOfTasks THEN t + 1 ELSE t]
  /\ IF w < NumberOfWorker(g, t) - 1
     THEN /\ output' = [output EXCEPT ![g][t][w] = input[g][t]]
          /\ pending' = [pending EXCEPT ![w] = Append(@, t)]
     ELSE UNCHANGED <<output, pending>>
  /\ UNCHANGED <<rootVars, index, flags, input>>

\* one turn of the necessary-work loop
NecessaryWork(w) ==
  LET g == GroupOf[w]  t == task[w] IN
  /\ Goto(w, "necessary", IF t < NumberOfTasks THEN "necessary" ELSE "setReady")
  /\ task' = [task EXCEPT ![w] = IF t < NumberOfTasks THEN t + 1 ELSE t]
  /\ IF w < NumberOfWorker(g, t)
     THEN /\ output' = [output EXCEPT ![g][t][w] = input[g][t]]
          /\ pending' = [pending EXCEPT ![w] = Append(@, t)]
     ELSE UNCHANGED <<output, pending>>
  /\ UNCHANGED <<rootVars, index, flags, input>>

SetReady(w) ==
  /\ Goto(w, "setReady", "finish?")
  /\ mReadyRemoteTasks' = mReadyRemoteTasks + 1
  /\ index' = [index EXCEPT ![w] = 1]
  /\ UNCHANGED <<rootVars, task, pending, mNeedFinish, mNeedStop, data>>

(* The optional-work loop goes on while IsCycleFinished() is FALSE and some *)
(* task is not completed; behind it the list is cleared and the worker      *)
(* waits at the second barrier.                                             *)
LeaveOptional(w) ==
  /\ worker' = [worker EXCEPT ![w] = "send"]
  /\ pending' = [pending EXCEPT ![w] = << >>]

ContinueOptional(w) ==
  \/ pending[w] = << >> /\ LeaveOptional(w)
  \/ pending[w] # << >> /\ worker' = [worker EXCEPT ![w] = "optional"] /\ UNCHANGED pending

\* mutant: IsCycleFinished does not ask IsReady
CheckNeedFinishOnly(w) ==
  /\ worker[w] = "finish?"
  /\ \/ mNeedFinish /\ LeaveOptional(w)
     \/ ~mNeedFinish /\ ContinueOptional(w)
  /\ UNCHANGED <<rootVars, task, index, flags, data>>

\* IsCycleFinished reads mNeedFinish ...
CheckNeedFinish(w) ==
  /\ worker[w] = "finish?"
  /\ \/ mNeedFinish /\ worker' = [worker EXCEPT ![w] = "ready?"] /\ UNCHANGED pending
     \/ ~mNeedFinish /\ ContinueOptional(w)
  /\ UNCHANGED <<rootVars, task, index, flags, data>>

\* ... and then mReadyRemoteTasks
CheckReady(w) ==
  /\ worker[w] = "ready?"
  /\ \/ IsReady /\ LeaveOptional(w)
     \/ ~IsReady /\ ContinueOptional(w)
  /\ UNCHANGED <<rootVars, task, index, flags, data>>

\* mutant: the index is not wrapped behind an erase
OptionalWorkNoWrap(w) ==
  /\ Goto(w, "optional", "finish?")
  /\ \E isCompleted \in BOOLEAN :
       IF isCompleted
       THEN pending' = [pending EXCEPT ![w] = RemoveAt(@, index[w])] /\ UNCHANGED index
       ELSE /\ index' = [index EXCEPT ![w] = IF @ + 1 > Len(pending[w]) THEN 1 ELSE @ + 1]
            /\ UNCHANGED pending
  /\ UNCHANGED <<rootVars, task, flags, data>>

\* one turn of the optional-work loop
OptionalWork(w) ==
  /\ Goto(w, "optional", "finish?")
  /\ \E isCompleted \in BOOLEAN :
       LET rest == IF isCompleted THEN RemoveAt(pending[w], index[w]) ELSE pending[w]
           next == IF isCompleted THEN index[w] ELSE index[w] + 1
       IN /\ pending' = [pending EXCEPT ![w] = rest]
          /\ index' = [index EXCEPT ![w] = IF next > Len(rest) THEN 1 ELSE next]
  /\ UNCHANGED <<rootVars, task, flags, data>>

\* the rest of SyncAfterThreadWork, on a worker
WorkerReset(w) ==
  /\ Goto(w, "reset", "clear")
  /\ mNeedFinish' = FALSE
  /\ UNCHANGED <<rootVars, task, pending, index, mReadyRemoteTasks, mNeedStop, data>>

WorkerClear(w) ==
  /\ Goto(w, "clear", "recv")
  /\ mReadyRemoteTasks' = 0
  /\ UNCHANGED <<rootVars, task, pending, index, mNeedFinish, mNeedStop, data>>

-----------------------------------------------------------------------------
RunTasks(w) ==
  \/ CheckStop(w) \/ NecessaryWork(w) \/ SetReady(w)
  \/ CheckNeedFinish(w) \/ CheckReady(w) \/ OptionalWork(w)
  \/ WorkerReset(w) \/ WorkerClear(w)

\* calls that are under way; the program decides about the next call
RootStep == Prepare \/ RootReset \/ RootClear \/ Use \/ Join

\* The program is over when the main thread joined its workers.
Terminated == root = "stopped" /\ UNCHANGED vars

Next ==
  \/ CallSend \/ CallReceive \/ StopAllProcesses
  \/ RootStep
  \/ RecvBarrier \/ SendBarrier
  \/ \E w \in Worker : RunTasks(w)
  \/ Terminated

Spec == Init /\ [][Next]_vars

(***************************************************************************)
(* The scheduler of the operating system runs every thread that is not     *)
(* blocked, so each thread's steps and the barriers are weakly fair.  The  *)
(* program is free to stop calling SendDataToThreads, but performTest      *)
(* calls ReceiveDataFromThreads right behind it.                           *)
(***************************************************************************)
Fairness ==
  /\ WF_vars(RootStep)
  /\ WF_vars(CallReceive)
  /\ WF_vars(RecvBarrier)
  /\ WF_vars(SendBarrier)
  /\ \A w \in Worker : WF_vars(RunTasks(w))

FairSpec == Spec /\ Fairness

-----------------------------------------------------------------------------
(* Properties *)

RootType ==
  /\ root \in RootPC
  /\ group \in Group
  /\ rootTask \in TaskNr
  /\ cycle \in 0..MaxCycle

WorkerType ==
  /\ worker \in [Worker -> WorkerPC]
  /\ task \in [Worker -> TaskNr]
  /\ pending \in [Worker -> Seq(TaskNr)]
  /\ index \in [Worker -> Nat \ {0}]

FlagType ==
  /\ mNeedFinish \in BOOLEAN
  /\ mReadyRemoteTasks \in Nat
  /\ mNeedStop \in BOOLEAN

DataType ==
  /\ input \in [Group -> [TaskNr -> 0..MaxCycle]]
  /\ output \in [Group -> [TaskNr -> [Worker -> 0..MaxCycle]]]

\* tasksWithUncompletedOptionalWork.at( index ) is always in range, whatever
\* order tasks complete in.
OptionalIndexInRange ==
  \A w \in Worker : worker[w] = "optional" => index[w] \in 1..Len(pending[w])

\* Every variable holds a value of its type, and every index of the optional work is in range.
TypeOK == RootType /\ WorkerType /\ FlagType /\ DataType /\ OptionalIndexInRange

\* All shares of a task are computed from the input of this cycle.
SharesDone(g, t) ==
  \A share \in 0..(NumberOfWorker(g, t) - 1) : output[g][t][share] = cycle

\* The main thread is never inside PrepareDataForThreads or
\* UseDataFromThreads while a worker is inside the necessary or the optional
\* work: the tasks share plain memory and no lock (taskGroup.cpp).
NoDataRace ==
  root \in {"prepare", "use"} => \A w \in Worker : worker[w] \notin {"necessary", "optional"}

\* A worker that has a share of a task, and so does not skip it, only computes
\* it on data that was prepared in this cycle: the "datatransfer and
\* synchronization of the threads with the rootthread" of SendDataToThreads.
OnlyPreparedInput ==
  \A w \in Worker :
    LET g == GroupOf[w]  t == task[w] IN
    worker[w] = "necessary" /\ w < NumberOfWorker(g, t) => input[g][t] = cycle

\* UseDataFromThreads finds every share of its task computed in this cycle,
\* none left over from the cycle before.
UseSeesThisCycle == root = "use" => SharesDone(group, rootTask)

\* IsReadyForReceiveData is TRUE only when "the necessary parts of all
\* TaskGroups are finished in the current cycle", whenever it is called.
ReadyMeansFinished ==
  IsReady => \A g \in Group, t \in TaskNr : SharesDone(g, t)

\* Every party of the second barrier clears the flags, at its own pace.  No
\* late clear may hit the next cycle: while a cycle is worked on, the counter
\* is exactly the number of workers behind SetReady, and the finish request is
\* there exactly when the main thread waits.
BehindSetReady == {w \in Worker : worker[w] \in {"finish?", "ready?", "optional", "send"}}
FlagsOfThisCycle ==
  /\ root \in {"sent", "send"} =>
       /\ mReadyRemoteTasks = Cardinality(BehindSetReady)
       /\ mNeedFinish <=> root = "send"
  /\ root \in {"idle", "prepare", "recv"} => mReadyRemoteTasks = 0 /\ ~mNeedFinish

\* A worker gives up optional work that is not completed only when the main
\* thread asked for the results and all workers are ready.
OptionalWorkNotCutShort ==
  [][\A w \in Worker :
       worker[w] # "send" /\ worker'[w] = "send" /\ pending[w] # << >>
         => root = "send" /\ BehindSetReady = Worker]_vars

\* No share of a task skips a cycle or computes one twice.
EachCycleOnce ==
  [][\A g \in Group, t \in TaskNr, w \in Worker :
       output'[g][t][w] # output[g][t][w] => output'[g][t][w] = output[g][t][w] + 1]_output

\* The published cycle and who finished it, seen as the abstract fork and join.
Working == root \in {"sent", "send"}
FJ == INSTANCE ForkJoin WITH
        phase <- CASE Working -> "working"
                   [] root \in {"stopRecv", "join", "stopped"} -> "stopped"
                   [] OTHER -> "idle",
        cycle <- IF root \in {"prepare", "recv"} THEN cycle - 1 ELSE cycle,
        finished <- IF Working THEN BehindSetReady ELSE {}

\* The threads implement the abstract fork and join.
ImplementsForkJoin == FJ!Spec

\* A cycle that was started comes to its end: nobody waits for ever at a barrier and no
\* worker stays in the optional work for ever.  StopAllProcesses joins all threads and returns.
CallsReturn ==
  /\ (root = "prepare") ~> (root = "idle")
  /\ (root = "stopRecv") ~> (root = "stopped")

-----------------------------------------------------------------------------
(* The inductive invariant of a manager with one task group, which the     *)
(* module ThreadManagerProofs proves: where the workers are when the main  *)
(* thread is at a label, and what the flags and the data are then.         *)

Phase ==
  /\ Working => \A w \in Worker : worker[w] \notin {"recv", "reset", "clear"}
  /\ root \in {"join", "stopped"} => \A w \in Worker : worker[w] \in {"stop?", "done"}
  /\ ~Working /\ root \notin {"join", "stopped"}
       => \A w \in Worker : worker[w] \in {"recv", "reset", "clear"}
  /\ root \in {"stopRecv", "join", "stopped"} => mNeedStop

\* The main thread's own reset already separates two cycles.
Flags ==
  /\ Working => mReadyRemoteTasks = Cardinality(BehindSetReady)
  /\ ~Working /\ root \notin {"reset", "clear"} => mReadyRemoteTasks = 0
  /\ root = "send" => mNeedFinish
  /\ root \notin {"send", "reset"} => ~mNeedFinish
  /\ root = "sent" => \A w \in Worker : worker[w] # "ready?"

Inputs ==
  /\ root = "prepare" => \A t \in 1..(rootTask - 1) : input[1][t] = cycle
  /\ Working \/ root \in {"recv", "reset", "clear", "use"}
       => \A t \in TaskNr : input[1][t] = cycle

\* worker w is through with its share of task t
Through(w, t) ==
  CASE root \in {"prepare", "recv"} -> FALSE
    [] Working -> \/ w \in BehindSetReady \/ worker[w] = "setReady"
                  \/ worker[w] = "necessary" /\ t < task[w]
    [] OTHER -> TRUE

Outputs ==
  \A t \in TaskNr : \A w \in 0..(NumberOfWorker(1, t) - 1) :
     output[1][t][w] = IF Through(w, t) THEN cycle ELSE cycle - 1

IInv == Phase /\ Flags /\ Inputs /\ Outputs
=============================================================================
