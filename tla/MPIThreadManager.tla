--------------------------- MODULE MPIThreadManager ---------------------------
(***************************************************************************)
(* The computing cycle of src/src/threading when it is built with          *)
(* BOOST_MPI: ThreadManager< MPICommunicator > and its TaskGroups.  Rank 0 *)
(* is the root, every other rank works for one group.  The processes share *)
(* no memory: input and output of a cycle are scattered and gathered in    *)
(* each group, a worker tells the root that it is ready (tag 0), and the   *)
(* root asks all workers to finish (tag 1).                                *)
(*                                                                         *)
(* Messages are on their way for any time; MPI neither loses them nor lets *)
(* them overtake each other.  The data of a task is abstracted to the      *)
(* cycle it was prepared in, and whether DoNecessaryWork made it.          *)
(***************************************************************************)
EXTENDS Naturals, Sequences, SequencesExt

CONSTANTS
  NumberOfTasks,      \* mTaskVec.size() of each group
  TaskMin, TaskMax,   \* TaskMin[g][t], TaskMax[g][t]: the limits of a task
  SystemThreadCount,  \* GetSystemThreadCount(): ranks of the world but the root
  SizeT,              \* number of values of a size_t
  MaxLimit, MaxTotal, \* bounds of the arguments AssignmentWithinLimits looks at
  MaxCycle            \* bound: cycles the root starts

Group == DOMAIN TaskMax
TaskNr == 1..NumberOfTasks
Worker == 1..SystemThreadCount   \* the ranks

Unlimited == SizeT - 1

-----------------------------------------------------------------------------
(* The workers of the groups *)

\* the numbers of the first groups, added up
SumUpTo(number) ==
  LET sum[g \in 0..Len(number)] == IF g = 0 THEN 0 ELSE sum[g - 1] + number[g]
  IN  sum

Total(number) == SumUpTo(number)[Len(number)]

MaximalNumberOfWorker(g) == Max({0} \cup {TaskMax[g][t] : t \in TaskNr})
MinimalNumberOfWorker(g) == Max({0} \cup {TaskMin[g][t] : t \in TaskNr})

\* a turn of the inner loop of AssignThreadsToTasks for one group: a worker more below its limit
OneMore(assigned, g, limit, total) ==
  IF assigned[g] < limit[g] /\ Total(assigned) < total THEN [assigned EXCEPT ![g] = @ + 1]
  ELSE assigned

Turn(assigned, limit, total) ==
  LET after[g \in 0..Len(limit)] ==
        IF g = 0 THEN assigned ELSE OneMore(after[g - 1], g, limit, total)
  IN  after[Len(limit)]

\* its turns until nothing changes
Distribute(assigned, limit, total) ==
  LET after[n \in 0..total] ==
        IF n = 0 THEN assigned ELSE Turn(after[n - 1], limit, total)
  IN  after[total]

\* AssignThreadsToTasks throws TooFewThreads or TooFewWorker
Refused(min, max, total) ==
  LET maxThreadCount == Total(max) % SizeT
  IN  \/ total < Total(min) % SizeT
      \/ maxThreadCount # 0 /\ total > maxThreadCount

\* Variant: the second loop distributes as if the groups had no limit
AssignBeyondLimits(min, max, total) ==
  LET least == Distribute([g \in DOMAIN min |-> 0], min, total)
  IN  Distribute(least, [g \in DOMAIN max |-> Unlimited], total)

AssignThreadsToTasks(min, max, total) ==
  LET least == Distribute([g \in DOMAIN min |-> 0], min, total)
  IN  Distribute(least, max, total)

minOfGroups == [g \in Group |-> MinimalNumberOfWorker(g)]
maxOfGroups == [g \in Group |-> MaximalNumberOfWorker(g)]

groupArrangement == AssignThreadsToTasks(minOfGroups, maxOfGroups, SystemThreadCount)

\* The program is started with as many processes as its groups can take.
ASSUME StartAssumption ==
  /\ NumberOfTasks \in Nat \ {0} /\ MaxCycle \in Nat /\ SystemThreadCount \in Nat
  /\ TaskMax \in Seq([TaskNr -> Nat]) /\ TaskMax # <<>>
  /\ TaskMin \in [Group -> [TaskNr -> Nat]]
  /\ ~Refused(minOfGroups, maxOfGroups, SystemThreadCount)
  /\ Total(groupArrangement) = SystemThreadCount

\* the ranks in front of those of group g
tmpProcessID(g) == SumUpTo(groupArrangement)[g - 1]

RanksOf(g) == {w \in Worker : tmpProcessID(g) < w /\ w <= tmpProcessID(g) + groupArrangement[g]}
GroupOf(w) == CHOOSE g \in Group : w \in RanksOf(g)
WorkerID(w) == w - tmpProcessID(GroupOf(w)) - 1

\* TaskGroup::Init
NumberOfWorker(g, t) ==
  IF groupArrangement[g] > TaskMax[g][t] THEN TaskMax[g][t] ELSE groupArrangement[g]

\* the tasks a worker does its share of
TasksOf(w) == {t \in TaskNr : WorkerID(w) < NumberOfWorker(GroupOf(w), t)}

-----------------------------------------------------------------------------
VARIABLES
  root,       \* where the root is
  group,      \* groupID of the loops in SendDataToThreads/ReceiveDataFromThreads
  cycle,      \* cycles started so far
  mReadyRemoteTasks,
  collected,  \* groupDataVec of ReceiveDataFromThreads
  worker,     \* where each worker is, in TaskGroup::RunTasks
  groupData,  \* the data each worker has
  uncompleted, \* number of its tasksWithUncompletedOptionalWork
  request,    \* mCycleFinishRequest: "none", "pending" or "complete"
  scattered, gathered,  \* to and from each worker: sequences of messages
  ready, finish         \* number of messages of tag 0 and 1 from and to each worker

rootVars == <<root, group, cycle, mReadyRemoteTasks, collected>>
workerVars == <<worker, groupData, uncompleted, request>>
channels == <<scattered, gathered, ready, finish>>
vars == <<root, group, cycle, mReadyRemoteTasks, collected, worker, groupData, uncompleted,
          request, scattered, gathered, ready, finish>>

NoData == [cycle |-> 0, worked |-> FALSE]
Data == [TaskNr -> [cycle : 0..MaxCycle, worked : BOOLEAN]]
NoGroupData == [t \in TaskNr |-> NoData]

\* what GetPreparedDataForThreads prepares for a worker
Prepared(w) ==
  [t \in TaskNr |-> IF t \in TasksOf(w) THEN [cycle |-> cycle, worked |-> FALSE] ELSE NoData]

Init ==
  /\ root = "create"
  /\ group = 1
  /\ cycle = 0
  /\ mReadyRemoteTasks = 0
  /\ collected = [w \in Worker |-> NoGroupData]
  /\ worker = [w \in Worker |-> "create"]
  /\ groupData = [w \in Worker |-> NoGroupData]
  /\ uncompleted = [w \in Worker |-> 0]
  /\ request = [w \in Worker |-> "none"]
  /\ scattered = [w \in Worker |-> <<>>]
  /\ gathered = [w \in Worker |-> <<>>]
  /\ ready = [w \in Worker |-> 0]
  /\ finish = [w \in Worker |-> 0]

\* CreateAndRunThreads: all ranks meet at the barrier of RunThreads
RunThreads ==
  /\ root = "create"
  /\ root' = "idle"
  /\ worker' = [w \in Worker |-> "receive"]
  /\ UNCHANGED <<group, cycle, mReadyRemoteTasks, collected, groupData, uncompleted, request,
                 channels>>

-----------------------------------------------------------------------------
(* The root *)

\* the program calls ThreadManager::SendDataToThreads
CallSend ==
  /\ root = "idle"
  /\ cycle < MaxCycle
  /\ root' = "scatter"
  /\ group' = 1
  /\ cycle' = cycle + 1
  /\ UNCHANGED <<mReadyRemoteTasks, collected, workerVars, channels>>

\* SendDataToThreads of one group
SendDataToRemoteTasks ==
  /\ root = "scatter"
  /\ mReadyRemoteTasks' = 0
  /\ scattered' = [w \in Worker |->
                    IF w \in RanksOf(group)
                    THEN Append(scattered[w], [mIsStop |-> FALSE, mDataVec |-> Prepared(w)])
                    ELSE scattered[w]]
  /\ IF group < Len(TaskMax) THEN group' = group + 1 /\ root' = root
     ELSE group' = 1 /\ root' = "sent"
  /\ UNCHANGED <<cycle, collected, workerVars, gathered, ready, finish>>

\* the program calls ThreadManager::ReceiveDataFromThreads
CallReceive ==
  /\ root = "sent"
  /\ root' = "finish"
  /\ UNCHANGED <<group, cycle, mReadyRemoteTasks, collected, workerVars, channels>>

\* one turn of the loop of FinishThisCycle: any worker's message of tag 0
ReceiveReady(w) ==
  /\ root = "finish"
  /\ mReadyRemoteTasks < SystemThreadCount
  /\ ready[w] > 0
  /\ ready' = [ready EXCEPT ![w] = @ - 1]
  /\ mReadyRemoteTasks' = mReadyRemoteTasks + 1
  /\ UNCHANGED <<root, group, cycle, collected, workerVars, scattered, gathered, finish>>

\* Variant: the root does not wait for the last worker
SendFinishEarly ==
  /\ root = "finish"
  /\ mReadyRemoteTasks >= SystemThreadCount - 1
  /\ finish' = [w \in Worker |-> finish[w] + 1]
  /\ root' = "finishSent"
  /\ UNCHANGED <<group, cycle, mReadyRemoteTasks, collected, workerVars, scattered, gathered, ready>>

\* the rest of FinishThisCycle: a message of tag 1 to every rank
SendFinish ==
  /\ root = "finish"
  /\ mReadyRemoteTasks >= SystemThreadCount
  /\ finish' = [w \in Worker |-> finish[w] + 1]
  /\ root' = "finishSent"
  /\ UNCHANGED <<group, cycle, mReadyRemoteTasks, collected, workerVars, scattered, gathered, ready>>

\* wait_all, which may return before the messages are received, or only then
WaitFinishSent ==
  /\ root = "finishSent"
  /\ root' = "gather"
  /\ UNCHANGED <<group, cycle, mReadyRemoteTasks, collected, workerVars, channels>>

\* ReceiveDataFromThreads of one group, which needs the data of all of its workers
ReceiveDataFromRemoteTasks ==
  /\ root = "gather"
  /\ \A w \in RanksOf(group) : gathered[w] # <<>>
  /\ collected' = [w \in Worker |->
                    IF w \in RanksOf(group) THEN Head(gathered[w]) ELSE NoGroupData]
  /\ gathered' = [w \in Worker |->
                   IF w \in RanksOf(group) THEN Tail(gathered[w]) ELSE gathered[w]]
  /\ root' = "use"
  /\ UNCHANGED <<group, cycle, mReadyRemoteTasks, workerVars, scattered, ready, finish>>

\* UseProcessedDataFromThreads of the tasks of that group
Use ==
  /\ root = "use"
  /\ IF group < Len(TaskMax) THEN group' = group + 1 /\ root' = "gather"
     ELSE group' = 1 /\ root' = "idle"
  /\ UNCHANGED <<cycle, mReadyRemoteTasks, collected, workerVars, channels>>

\* ~ThreadManager runs StopAllProcesses, on the root only
StopAllProcesses ==
  /\ root = "idle"
  /\ root' = "stopped"
  /\ scattered' = [w \in Worker |->
                    Append(scattered[w], [mIsStop |-> TRUE, mDataVec |-> NoGroupData])]
  /\ UNCHANGED <<group, cycle, mReadyRemoteTasks, collected, workerVars, gathered, ready, finish>>

-----------------------------------------------------------------------------
(* A worker *)

Goto(w, from, to) ==
  /\ worker[w] = from
  /\ worker' = [worker EXCEPT ![w] = to]

\* ReceiveDataFromRoot, and IsStop
ReceiveDataFromRoot(w) ==
  /\ scattered[w] # <<>>
  /\ Goto(w, "receive", IF Head(scattered[w]).mIsStop THEN "exit" ELSE "necessary")
  /\ groupData' = [groupData EXCEPT ![w] = Head(scattered[w]).mDataVec]
  /\ scattered' = [scattered EXCEPT ![w] = Tail(@)]
  /\ UNCHANGED <<rootVars, uncompleted, request, gathered, ready, finish>>

\* Variant: a worker leaves out its last task
NecessaryWorkSkipsLast(w) ==
  /\ Goto(w, "necessary", "setReady")
  /\ groupData' = [groupData EXCEPT ![w] =
                    [t \in TaskNr |->
                      IF t \in TasksOf(w) \ {NumberOfTasks} THEN [@[t] EXCEPT !.worked = TRUE]
                      ELSE @[t]]]
  /\ uncompleted' = [uncompleted EXCEPT ![w] = Cardinality(TasksOf(w))]
  /\ UNCHANGED <<rootVars, request, channels>>

\* DoNecessaryWork of the tasks a worker has a share of
NecessaryWork(w) ==
  /\ Goto(w, "necessary", "setReady")
  /\ groupData' = [groupData EXCEPT ![w] =
                    [t \in TaskNr |->
                      IF t \in TasksOf(w) THEN [@[t] EXCEPT !.worked = TRUE] ELSE @[t]]]
  /\ uncompleted' = [uncompleted EXCEPT ![w] = Cardinality(TasksOf(w))]
  /\ UNCHANGED <<rootVars, request, channels>>

SetReady(w) ==
  /\ Goto(w, "setReady", "readySent")
  /\ ready' = [ready EXCEPT ![w] = @ + 1]
  /\ UNCHANGED <<rootVars, groupData, uncompleted, request, scattered, gathered, finish>>

\* its wait, which may return before the message is received, or only then
WaitReadySent(w) ==
  /\ Goto(w, "readySent", "finished?")
  /\ UNCHANGED <<rootVars, groupData, uncompleted, request, channels>>

\* Variant: the loop goes on when no optional work is left
FinishedOnlyByMessage(w) ==
  /\ worker[w] = "finished?"
  /\ \E received \in {r \in BOOLEAN : r => request[w] # "complete" /\ finish[w] > 0} :
       \E finished \in {r \in BOOLEAN : IF request[w] = "none" THEN r = received ELSE r => received} :
         /\ finish' = IF received THEN [finish EXCEPT ![w] = @ - 1] ELSE finish
         /\ request' = [request EXCEPT ![w] =
                         IF received \/ @ = "complete" THEN "complete" ELSE "pending"]
         /\ worker' = [worker EXCEPT ![w] = IF finished THEN "send" ELSE "optional"]
  /\ UNCHANGED <<rootVars, groupData, uncompleted, scattered, gathered, ready>>

(* IsCycleFinished has MPI write the message of tag 1 into a local variable *)
(* of the call that posts the receive, and returns that of its own call: it *)
(* sees a message that comes in the same call, and one that comes later     *)
(* only if the two happen to be the same memory.                            *)
IsCycleFinished(w) ==
  /\ worker[w] = "finished?"
  /\ \E received \in {r \in BOOLEAN : r => request[w] # "complete" /\ finish[w] > 0} :
       \E finished \in {r \in BOOLEAN : IF request[w] = "none" THEN r = received ELSE r => received} :
         /\ finish' = IF received THEN [finish EXCEPT ![w] = @ - 1] ELSE finish
         /\ request' = [request EXCEPT ![w] =
                         IF received \/ @ = "complete" THEN "complete" ELSE "pending"]
         /\ worker' = [worker EXCEPT ![w] =
                        IF finished \/ uncompleted[w] = 0 THEN "send" ELSE "optional"]
  /\ UNCHANGED <<rootVars, groupData, uncompleted, scattered, gathered, ready>>

\* Variant: a task whose optional work is completed stays among the uncompleted ones
OptionalWorkNotErased(w, isCompleted) ==
  /\ Goto(w, "optional", "finished?")
  /\ UNCHANGED <<rootVars, groupData, uncompleted, request, channels>>

\* DoOptionalWork of one task, which is completed or not
OptionalWork(w, isCompleted) ==
  /\ Goto(w, "optional", "finished?")
  /\ uncompleted' = [uncompleted EXCEPT ![w] = IF isCompleted THEN @ - 1 ELSE @]
  /\ UNCHANGED <<rootVars, groupData, request, channels>>

\* Variant: the data is sent without waiting for the message of tag 1
SendDataToRootAtOnce(w) ==
  /\ Goto(w, "send", "receive")
  /\ request' = [request EXCEPT ![w] = "none"]
  /\ gathered' = [gathered EXCEPT ![w] = Append(@, groupData[w])]
  /\ uncompleted' = [uncompleted EXCEPT ![w] = 0]
  /\ UNCHANGED <<rootVars, groupData, scattered, ready, finish>>

SendDataToRoot(w) ==
  /\ request[w] = "complete" \/ finish[w] > 0
  /\ Goto(w, "send", "receive")
  /\ finish' = IF request[w] = "complete" THEN finish ELSE [finish EXCEPT ![w] = @ - 1]
  /\ request' = [request EXCEPT ![w] = "none"]
  /\ gathered' = [gathered EXCEPT ![w] = Append(@, groupData[w])]
  /\ uncompleted' = [uncompleted EXCEPT ![w] = 0]
  /\ UNCHANGED <<rootVars, groupData, scattered, ready>>

-----------------------------------------------------------------------------
RunTasks(w) ==
  \/ ReceiveDataFromRoot(w) \/ NecessaryWork(w) \/ SetReady(w)
  \/ IsCycleFinished(w) \/ SendDataToRoot(w)
  \/ \E isCompleted \in BOOLEAN : OptionalWork(w, isCompleted)

\* calls that are under way; the program decides about the next call
RootStep ==
  \/ RunThreads \/ SendDataToRemoteTasks \/ SendFinish
  \/ \E w \in Worker : ReceiveReady(w)
  \/ ReceiveDataFromRemoteTasks \/ Use

\* The program is over when the root stopped its workers and they are gone.
Terminated ==
  root = "stopped" /\ (\A w \in Worker : worker[w] = "exit") /\ UNCHANGED vars

Next ==
  \/ CallSend \/ CallReceive \/ StopAllProcesses
  \/ RootStep \/ WaitFinishSent
  \/ \E w \in Worker : RunTasks(w) \/ WaitReadySent(w)
  \/ Terminated

Spec == Init /\ [][Next]_vars

(***************************************************************************)
(* Every process runs and every message arrives.  A wait for a send is     *)
(* only sure to return when the message has been received.  Each task      *)
(* completes its optional work at some time (task.h: "If the work is done  *)
(* in a cycle, then return true"); a program that sent the data of a cycle *)
(* also calls ReceiveDataFromThreads.                                      *)
(***************************************************************************)
Fairness ==
  /\ WF_vars(RootStep)
  /\ WF_vars(CallReceive)
  /\ WF_vars((\A w \in Worker : finish[w] = 0) /\ WaitFinishSent)
  /\ \A w \in Worker :
       /\ WF_vars(RunTasks(w))
       /\ WF_vars(ready[w] = 0 /\ WaitReadySent(w))
       /\ SF_vars(OptionalWork(w, TRUE))

FairSpec == Spec /\ Fairness

-----------------------------------------------------------------------------
(* Properties *)

\* Every variable holds a value of its type.
TypeOK ==
  /\ root \in {"create", "idle", "scatter", "sent", "finish", "finishSent", "gather", "use",
               "stopped"}
  /\ group \in Group
  /\ cycle \in 0..MaxCycle
  /\ mReadyRemoteTasks \in 0..SystemThreadCount
  /\ collected \in [Worker -> Data]
  /\ worker \in [Worker -> {"create", "receive", "necessary", "setReady", "readySent",
                            "finished?", "optional", "send", "exit"}]
  /\ groupData \in [Worker -> Data]
  /\ uncompleted \in [Worker -> 0..NumberOfTasks]
  /\ request \in [Worker -> {"none", "pending", "complete"}]
  /\ scattered \in [Worker -> Seq([mIsStop : BOOLEAN, mDataVec : Data])]
  /\ gathered \in [Worker -> Seq(Data)]
  /\ ready \in [Worker -> Nat] /\ finish \in [Worker -> Nat]

\* Whatever the limits of two groups and the number of threads, also where the sum of the
\* limits overflows: unless AssignThreadsToTasks throws, each group has its minimum and not
\* more than its maximum, no thread is left over while a group could take one, and the
\* threads beyond the minima are shared evenly.  (taskGroup.h: the limits are observed)
AssignmentWithinLimits ==
  root = "create" =>
    \A min \in [Group -> 0..MaxLimit], max \in [Group -> (0..MaxLimit) \cup {Unlimited}],
       total \in 0..MaxTotal :
      ~Refused(min, max, total) =>
        LET a == AssignThreadsToTasks(min, max, total)
            full == {g \in Group : a[g] >= max[g]}
        IN  /\ \A g \in Group : min[g] <= a[g] /\ (a[g] <= max[g] \/ a[g] = min[g])
            /\ Total(a) = total \/ (Total(a) < total /\ full = Group)
            /\ \A g \in Group, h \in Group \ full : a[g] > min[g] => a[g] - min[g] <= a[h] - min[h] + 1

\* Messages carry no number of their cycle.  When a call of ReceiveDataFromThreads is over,
\* none is on its way that the next cycle could take for its own, and no receive is left open.
NoMessageLeftOver ==
  root \in {"idle", "stopped"} =>
    \A w \in Worker : /\ ready[w] = 0 /\ finish[w] = 0 /\ gathered[w] = <<>>
                      /\ request[w] = "none"

\* UseProcessedDataFromThreads is handed what each worker of a task made of the data of this cycle.
UseSeesThisCycle ==
  root = "use" =>
    \A w \in RanksOf(group) : \A t \in TasksOf(w) :
      collected[w][t] = [cycle |-> cycle, worked |-> TRUE]

\* The published cycle and who finished it, seen as the abstract fork and join.
BehindNecessaryWork == {w \in Worker : worker[w] \in {"readySent", "finished?", "optional", "send"}}
Working == root \in {"sent", "finish"} \/ (root = "scatter" /\ group > 1)
FJ == INSTANCE ForkJoin WITH
        phase <- CASE Working -> "working" [] root = "stopped" -> "stopped" [] OTHER -> "idle",
        cycle <- IF root = "scatter" /\ group = 1 THEN cycle - 1 ELSE cycle,
        finished <- IF Working THEN BehindNecessaryWork ELSE {}

\* The processes implement the fork and join the threads implement.
ImplementsForkJoin == FJ!Spec

\* Each call the program makes returns, and when it is over all workers leave RunTasks.
CallsReturn ==
  /\ (root # "idle") ~> (root \in {"idle", "stopped"})
  /\ (root = "stopped") ~> (\A w \in Worker : worker[w] = "exit")
=============================================================================
