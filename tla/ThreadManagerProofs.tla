------------------------- MODULE ThreadManagerProofs -------------------------
(***************************************************************************)
(* Proofs about ThreadManager, for every number of workers, tasks and      *)
(* cycles.  TypeCorrect holds for any number of task groups.  The rest is  *)
(* about the single group that the repository's programs use: the run      *)
(* ThreadManagerTwoGroups shows that it is wrong for two.                  *)
(***************************************************************************)
EXTENDS ThreadManager, FiniteSetTheorems, SequenceTheorems, TLAPS

-----------------------------------------------------------------------------
(* Erasing an element keeps a vector a vector of the same kind. *)
LEMMA RemoveAtType ==
  ASSUME NEW S, NEW s \in Seq(S), NEW i \in 1..Len(s)
  PROVE  RemoveAt(s, i) \in Seq(S) /\ Len(RemoveAt(s, i)) = Len(s) - 1
<1> DEFINE left == SubSeq(s, 1, i-1)
           right == SubSeq(s, i+1, Len(s))
<1>1. left \in Seq(S) /\ Len(left) = i - 1
  BY SubSeqProperties
<1>2. right \in Seq(S) /\ Len(right) = Len(s) - i
  BY SubSeqProperties
<1>3. left \o right \in Seq(S) /\ Len(left \o right) = Len(left) + Len(right)
  BY <1>1, <1>2, ConcatProperties
<1>4. Len(s) \in Nat /\ i \in Int
  OBVIOUS
<1> DEFINE joined == left \o right
<1> HIDE DEF left, right
<1>5. joined \in Seq(S) /\ Len(joined) = Len(left) + Len(right)
  BY <1>3
<1>6. RemoveAt(s, i) = joined
  BY DEF RemoveAt, left, right
<1> HIDE DEF joined
<1>7. Len(joined) = Len(s) - 1
  BY <1>1, <1>2, <1>4, <1>5
<1>8. QED BY <1>5, <1>6, <1>7

-----------------------------------------------------------------------------
(* Where the optional-work loop is in its list. *)
IndexInv ==
  \A w \in Worker : worker[w] \in {"finish?", "ready?", "optional"} =>
     IF pending[w] = << >> THEN index[w] = 1 /\ worker[w] # "optional"
     ELSE index[w] \in 1..Len(pending[w])

TypeInv == TypeOK /\ IndexInv

LEMMA IndexSafe == WorkerType /\ IndexInv => OptionalIndexInRange
BY DEF WorkerType, IndexInv, OptionalIndexInRange

LEMMA InitType == Init => TypeInv
<1> USE ConstantsAssumption DEF Init
<1>0. Init => RootType
  BY DEF RootType, RootPC, Group, TaskNr
<1>1. Init => FlagType
  <2>1. Init => mNeedStop \in BOOLEAN
    OBVIOUS
  <2>2. Init => mNeedFinish \in BOOLEAN
    OBVIOUS
  <2>3. Init => mReadyRemoteTasks \in Nat
    OBVIOUS
  <2>4. QED BY <2>1, <2>2, <2>3, Zenon DEF FlagType
<1>2. Init => WorkerType
  BY DEF WorkerType, WorkerPC, TaskNr
<1>3. Init => DataType
  BY DEF DataType
<1>4. Init => IndexInv
  BY DEF IndexInv
<1>5. QED BY <1>0, <1>1, <1>2, <1>3, <1>4, IndexSafe DEF TypeInv, TypeOK

(* A worker's step leaves the main thread alone. *)
LEMMA WorkerFrame ==
  ASSUME NEW w \in Worker, RunTasks(w)
  PROVE  UNCHANGED rootVars
BY DEF RunTasks, CheckStop, NecessaryWork, SetReady, CheckNeedFinish, CheckReady,
       OptionalWork, WorkerReset, WorkerClear

LEMMA NextRootType == TypeOK /\ [Next]_vars => RootType'
<1> SUFFICES ASSUME RootType, [Next]_vars PROVE RootType'
  BY DEF TypeOK
<1> USE ConstantsAssumption DEF RootType, RootPC, Group, TaskNr
<1>1. CASE CallSend     BY <1>1 DEF CallSend
<1>2. CASE Prepare      BY <1>2 DEF Prepare
<1>3. CASE CallReceive  BY <1>3 DEF CallReceive
<1>4. CASE RootReset    BY <1>4 DEF RootReset
<1>5. CASE RootClear    BY <1>5 DEF RootClear
<1>6. CASE Use
  <2>1. CASE rootTask < NumberOfTasks
    BY <1>6, <2>1 DEF Use
  <2>2. CASE ~(rootTask < NumberOfTasks)
    BY <1>6, <2>2 DEF Use
  <2>3. QED BY <2>1, <2>2
<1>7. CASE StopAllProcesses BY <1>7 DEF StopAllProcesses
<1>8. CASE Join         BY <1>8 DEF Join
<1>9. CASE RecvBarrier  BY <1>9, SMTT(30) DEF RecvBarrier
<1>10. CASE SendBarrier BY <1>10 DEF SendBarrier
<1>11. CASE UNCHANGED rootVars BY <1>11 DEF rootVars
<1>12. QED
  BY <1>1, <1>2, <1>3, <1>4, <1>5, <1>6, <1>7, <1>8, <1>9, <1>10, <1>11, WorkerFrame
     DEF Next, RootStep, Terminated, vars, rootVars

(* Only barriers and workers move workers. *)
LEMMA RootFrame ==
  ASSUME CallSend \/ CallReceive \/ StopAllProcesses \/ RootStep
  PROVE  UNCHANGED workerVars
BY DEF CallSend, CallReceive, StopAllProcesses, RootStep, Prepare, RootReset,
       RootClear, Use, Join

LEMMA NextWorkerType == TypeInv /\ [Next]_vars => WorkerType' /\ IndexInv'
<1> SUFFICES ASSUME WorkerType, IndexInv, [Next]_vars PROVE WorkerType' /\ IndexInv'
  BY DEF TypeOK, TypeInv
<1> USE ConstantsAssumption DEF WorkerType, IndexInv, WorkerPC, TaskNr
<1>1. CASE RecvBarrier
  BY <1>1 DEF RecvBarrier
<1>2. CASE SendBarrier
  BY <1>2 DEF SendBarrier
<1>3. ASSUME NEW w \in Worker, CheckStop(w) PROVE WorkerType' /\ IndexInv'
  BY <1>3, SMTT(30) DEF CheckStop, Goto
<1>4. ASSUME NEW w \in Worker, NecessaryWork(w) PROVE WorkerType' /\ IndexInv'
  <2>1. UNCHANGED index /\ Goto(w, "necessary", IF task[w] < NumberOfTasks THEN "necessary" ELSE "setReady")
    BY <1>4 DEF NecessaryWork
  <2>2. task' \in [Worker -> TaskNr] /\ worker' \in [Worker -> WorkerPC]
    BY <1>4, <2>1 DEF NecessaryWork, Goto
  <2>3. Append(pending[w], task[w]) \in Seq(TaskNr)
    OBVIOUS
  <2>4. pending' \in [Worker -> Seq(TaskNr)]
    BY <1>4, <2>3 DEF NecessaryWork
  <2>5. \A v \in Worker \ {w} : UNCHANGED <<worker[v], pending[v], index[v]>>
    BY <1>4, <2>1 DEF NecessaryWork, Goto
  <2>6. worker'[w] \notin {"finish?", "ready?", "optional"}
    BY <2>1 DEF Goto
  <2>7. QED BY <2>1, <2>2, <2>4, <2>5, <2>6
<1>5. ASSUME NEW w \in Worker, SetReady(w) PROVE WorkerType' /\ IndexInv'
  <2>1. UNCHANGED <<task, pending>> /\ worker' = [worker EXCEPT ![w] = "finish?"]
        /\ index' = [index EXCEPT ![w] = 1]
    BY <1>5 DEF SetReady, Goto
  <2>2. worker' \in [Worker -> WorkerPC] /\ index' \in [Worker -> Nat \ {0}]
    BY <2>1
  <2>3. ASSUME NEW v \in Worker, v # w
        PROVE  worker'[v] = worker[v] /\ index'[v] = index[v] /\ pending'[v] = pending[v]
    BY <2>1, <2>3
  <2>4. worker'[w] = "finish?" /\ index'[w] = 1 /\ pending'[w] = pending[w] /\ pending[w] \in Seq(TaskNr)
    BY <2>1
  <2>5. pending[w] # << >> => 1 \in 1..Len(pending[w])
    BY <2>4
  <2>6. QED BY <2>1, <2>2, <2>3, <2>4, <2>5
<1>6. ASSUME NEW w \in Worker, CheckNeedFinish(w) PROVE WorkerType' /\ IndexInv'
  <2>1. UNCHANGED <<task, index>> /\ worker[w] = "finish?"
    BY <1>6 DEF CheckNeedFinish
  <2>2. CASE LeaveOptional(w)
    BY <2>1, <2>2, SMTT(30) DEF LeaveOptional
  <2>3. CASE worker' = [worker EXCEPT ![w] = "ready?"] /\ UNCHANGED pending
    BY <2>1, <2>3
  <2>4. CASE pending[w] # << >> /\ worker' = [worker EXCEPT ![w] = "optional"] /\ UNCHANGED pending
    BY <2>1, <2>4
  <2>5. QED BY <1>6, <2>2, <2>3, <2>4 DEF CheckNeedFinish, ContinueOptional
<1>7. ASSUME NEW w \in Worker, CheckReady(w) PROVE WorkerType' /\ IndexInv'
  <2>1. UNCHANGED <<task, index>> /\ worker[w] = "ready?" /\ (LeaveOptional(w) \/ ContinueOptional(w))
    BY <1>7 DEF CheckReady
  <2>2. CASE LeaveOptional(w)
    BY <2>1, <2>2, SMTT(30) DEF LeaveOptional
  <2>3. CASE pending[w] # << >> /\ worker' = [worker EXCEPT ![w] = "optional"] /\ UNCHANGED pending
    BY <2>1, <2>3
  <2>4. QED BY <2>1, <2>2, <2>3 DEF ContinueOptional
<1>8. ASSUME NEW w \in Worker, OptionalWork(w) PROVE WorkerType' /\ IndexInv'
  <2>1. Goto(w, "optional", "finish?") /\ UNCHANGED task
    BY <1>8 DEF OptionalWork
  <2>2. PICK isCompleted \in BOOLEAN :
       LET rest == IF isCompleted THEN RemoveAt(pending[w], index[w]) ELSE pending[w]
           next == IF isCompleted THEN index[w] ELSE index[w] + 1
       IN /\ pending' = [pending EXCEPT ![w] = rest]
          /\ index' = [index EXCEPT ![w] = IF next > Len(rest) THEN 1 ELSE next]
    BY <1>8 DEF OptionalWork
  <2> DEFINE rest == IF isCompleted THEN RemoveAt(pending[w], index[w]) ELSE pending[w]
             next == IF isCompleted THEN index[w] ELSE index[w] + 1
  <2>3. pending[w] \in Seq(TaskNr) /\ index[w] \in 1..Len(pending[w])
    BY <2>1 DEF Goto
  <2>4. rest \in Seq(TaskNr) /\ Len(rest) \in Nat /\ next \in Nat \ {0}
    <3>1. CASE isCompleted
      <4>1. rest = RemoveAt(pending[w], index[w]) /\ next = index[w]
        BY <3>1
      <4>2. RemoveAt(pending[w], index[w]) \in Seq(TaskNr)
        BY <2>3, RemoveAtType
      <4>3. QED BY <2>3, <4>1, <4>2
    <3>2. CASE ~isCompleted
      BY <2>3, <3>2
    <3>3. QED BY <3>1, <3>2
  <2>5. rest # << >> => Len(rest) # 0
    BY <2>4
  <2>6. /\ pending' = [pending EXCEPT ![w] = rest]
        /\ index' = [index EXCEPT ![w] = IF next > Len(rest) THEN 1 ELSE next]
    BY <2>2
  <2>7. rest = << >> => Len(rest) = 0
    OBVIOUS
  <2> HIDE DEF rest, next
  <2>8. WorkerType'
    BY <2>1, <2>4, <2>6, SMTT(30) DEF Goto
  <2>9. pending'[w] = rest /\ index'[w] = IF next > Len(rest) THEN 1 ELSE next
    BY <2>6
  <2>10. IF rest = << >> THEN index'[w] = 1 ELSE index'[w] \in 1..Len(rest)
    BY <2>4, <2>5, <2>7, <2>9
  <2>11. worker'[w] = "finish?"
    BY <2>1 DEF Goto
  <2>12. \A v \in Worker \ {w} : UNCHANGED <<worker[v], pending[v], index[v]>>
    BY <2>1, <2>6 DEF Goto
  <2>13. QED BY <2>8, <2>9, <2>10, <2>11, <2>12
<1>9. ASSUME NEW w \in Worker, WorkerReset(w) PROVE WorkerType' /\ IndexInv'
  BY <1>9 DEF WorkerReset, Goto
<1>10. ASSUME NEW w \in Worker, WorkerClear(w) PROVE WorkerType' /\ IndexInv'
  BY <1>10 DEF WorkerClear, Goto
<1>11. CASE UNCHANGED workerVars
  BY <1>11 DEF workerVars
<1>12. QED
  BY <1>1, <1>2, <1>3, <1>4, <1>5, <1>6, <1>7, <1>8, <1>9, <1>10, <1>11, RootFrame
     DEF Next, RunTasks, Terminated, vars, workerVars

LEMMA NextFlagType == TypeOK /\ [Next]_vars => FlagType'
<1> SUFFICES ASSUME FlagType, [Next]_vars PROVE FlagType'
  BY DEF TypeOK
<1> USE DEF FlagType
<1>1. CASE CallReceive      BY <1>1 DEF CallReceive
<1>2. CASE RootReset        BY <1>2 DEF RootReset
<1>3. CASE RootClear        BY <1>3 DEF RootClear
<1>4. CASE StopAllProcesses BY <1>4 DEF StopAllProcesses
<1>5. ASSUME NEW w \in Worker, SetReady(w) PROVE FlagType'
  BY <1>5 DEF SetReady
<1>6. ASSUME NEW w \in Worker, WorkerReset(w) PROVE FlagType'
  BY <1>6 DEF WorkerReset
<1>7. ASSUME NEW w \in Worker, WorkerClear(w) PROVE FlagType'
  BY <1>7 DEF WorkerClear
<1>8. CASE UNCHANGED flags  BY <1>8 DEF flags
<1>9. CASE CallSend \/ Prepare \/ Use \/ Join \/ RecvBarrier \/ SendBarrier
  BY <1>8, <1>9 DEF CallSend, Prepare, Use, Join, RecvBarrier, SendBarrier
<1>10. ASSUME NEW w \in Worker, CheckStop(w) \/ NecessaryWork(w) \/ CheckNeedFinish(w)
                                \/ CheckReady(w) \/ OptionalWork(w)
       PROVE  FlagType'
  BY <1>8, <1>10 DEF CheckStop, NecessaryWork, CheckNeedFinish, CheckReady, OptionalWork
<1>11. QED
  BY <1>1, <1>2, <1>3, <1>4, <1>5, <1>6, <1>7, <1>8, <1>9, <1>10
     DEF Next, RootStep, RunTasks, Terminated, vars, flags

LEMMA NextDataType == TypeOK /\ [Next]_vars => DataType'
<1> SUFFICES ASSUME TypeOK, [Next]_vars PROVE DataType'
  OBVIOUS
<1>1. CASE Prepare
  <2>1. group \in Group /\ rootTask \in TaskNr /\ cycle \in 0..MaxCycle
    BY DEF TypeOK, RootType
  <2>2. QED BY <1>1, <2>1 DEF Prepare, DataType, TypeOK
<1>2. ASSUME NEW w \in Worker, NecessaryWork(w) PROVE DataType'
  <2>1. GroupOf[w] \in Group /\ task[w] \in TaskNr
    BY ConstantsAssumption DEF TypeOK, WorkerType
  <2> DEFINE g == GroupOf[w]  t == task[w]
  <2>2. CASE w < NumberOfWorker(g, t)
    <3>1. UNCHANGED input /\ output' = [output EXCEPT ![g][t][w] = input[g][t]]
      BY <1>2, <2>2 DEF NecessaryWork
    <3>2. QED BY <2>1, <3>1 DEF TypeOK, DataType
  <2>3. CASE ~(w < NumberOfWorker(g, t))
    BY <1>2, <2>3 DEF NecessaryWork, DataType, TypeOK
  <2>4. QED BY <2>2, <2>3
<1>3. CASE UNCHANGED data
  BY <1>3 DEF TypeOK, DataType, data
<1>4. CASE CallSend \/ CallReceive \/ StopAllProcesses \/ RecvBarrier \/ SendBarrier
           \/ RootReset \/ RootClear \/ Use \/ Join
  BY <1>3, <1>4 DEF CallSend, CallReceive, StopAllProcesses, RecvBarrier, SendBarrier,
                    RootReset, RootClear, Use, Join
<1>5. ASSUME NEW w \in Worker, CheckStop(w) \/ SetReady(w) \/ CheckNeedFinish(w)
                               \/ CheckReady(w) \/ OptionalWork(w)
                               \/ WorkerReset(w) \/ WorkerClear(w)
      PROVE  DataType'
  BY <1>3, <1>5 DEF CheckStop, SetReady, CheckNeedFinish, CheckReady, OptionalWork,
                    WorkerReset, WorkerClear
<1>6. QED
  BY <1>1, <1>2, <1>3, <1>4, <1>5 DEF Next, RootStep, RunTasks, Terminated, vars, data

LEMMA NextType == TypeInv /\ [Next]_vars => TypeInv'
<1>1. WorkerType' /\ IndexInv' => OptionalIndexInRange'
  BY DEF WorkerType, IndexInv, OptionalIndexInRange
<1>2. QED
  BY <1>1, NextRootType, NextWorkerType, NextFlagType, NextDataType DEF TypeInv, TypeOK

(* Every variable keeps its type, for any number of groups, tasks, workers, *)
(* and the optional-work loop never reads behind the end of its list.      *)
THEOREM TypeCorrect == Spec => []TypeOK
<1>1. TypeInv => TypeOK  BY DEF TypeInv
<1>2. QED BY <1>1, InitType, NextType, PTL DEF Spec

-----------------------------------------------------------------------------
(* A manager with one task group *)

OneGroup == NumberOfGroups = 1

(* With one group every worker belongs to it and its number is a share. *)
LEMMA OneGroupShares ==
  ASSUME OneGroup
  PROVE  /\ Group = {1}
         /\ \A w \in Worker : GroupOf[w] = 1
         /\ \A t \in TaskNr : NumberOfWorker(1, t) \in Nat
         /\ \A t \in TaskNr : 0..(NumberOfWorker(1, t) - 1) \subseteq Worker
<1>1. Group = {1}
  BY DEF OneGroup, Group
<1>2. \A w \in Worker : GroupOf[w] = 1
  BY <1>1, ConstantsAssumption
<1>3. {w \in Worker : GroupOf[w] = 1} = 0..(NumberOfWorkers - 1)
  BY <1>2 DEF Worker
<1>4. Cardinality(0..(NumberOfWorkers - 1)) = NumberOfWorkers
  BY FS_Interval, ConstantsAssumption
<1>5. Assigned[1] = NumberOfWorkers
  BY <1>1, <1>3, <1>4, RegistrationAssumption
<1>6. \A t \in TaskNr : NumberOfWorker(1, t) \in Nat /\ NumberOfWorker(1, t) <= NumberOfWorkers
  BY <1>1, <1>5, ConstantsAssumption DEF NumberOfWorker
<1>7. QED BY <1>1, <1>2, <1>6, ConstantsAssumption DEF Worker

LEMMA WorkerFinite == IsFiniteSet(Worker) /\ Cardinality(Worker) = NumberOfWorkers
BY FS_Interval, ConstantsAssumption DEF Worker

LEMMA BehindFinite == BehindSetReady \subseteq Worker /\ IsFiniteSet(BehindSetReady)
BY WorkerFinite, FS_Subset DEF BehindSetReady

(* Who is behind SetReady once all workers wait at the second barrier. *)
LEMMA AllBehind ==
  ASSUME \A w \in Worker : worker[w] = "send"
  PROVE  BehindSetReady = Worker
BY DEF BehindSetReady

LEMMA InitIInv == OneGroup => (Init => IInv)
<1> SUFFICES ASSUME OneGroup, Init PROVE IInv
  OBVIOUS
<1>1. Phase
  BY DEF Init, Phase, Working
<1>2. Flags
  BY DEF Init, Flags, Working
<1>3. Inputs
  BY DEF Init, Inputs, Working
<1>4. Outputs
  BY OneGroupShares DEF Init, Outputs, Through, Working
<1>5. QED BY <1>1, <1>2, <1>3, <1>4 DEF IInv

(* The workers are where the main thread's label allows them to be. *)
LEMMA NextPhase == TypeOK /\ Phase /\ [Next]_vars /\ OneGroup => Phase'
<1> SUFFICES ASSUME TypeOK, Phase, [Next]_vars, OneGroup PROVE Phase'
  OBVIOUS
<1> USE DEF Phase, Working
<1>1. CASE CallSend         BY <1>1 DEF CallSend, workerVars, flags
<1>2. CASE Prepare          BY <1>2 DEF Prepare, workerVars, flags
<1>3. CASE CallReceive      BY <1>3 DEF CallReceive, workerVars
<1>4. CASE RootReset        BY <1>4 DEF RootReset, workerVars
<1>5. CASE RootClear        BY <1>5 DEF RootClear, workerVars
<1>6. CASE Use
  <2>1. UNCHANGED <<worker, mNeedStop>> /\ root = "use" /\ root' \in {"use", "idle"}
    BY <1>6 DEF Use, workerVars, flags, OneGroup, TypeOK, RootType, Group
  <2>2. QED BY <2>1
<1>7. CASE StopAllProcesses BY <1>7 DEF StopAllProcesses, workerVars
<1>8. CASE Join             BY <1>8 DEF Join, workerVars, flags
<1>9. CASE RecvBarrier
  BY <1>9 DEF RecvBarrier, flags, OneGroup, TypeOK, RootType, Group
<1>10. CASE SendBarrier     BY <1>10 DEF SendBarrier, flags
<1>11. ASSUME NEW w \in Worker, RunTasks(w) PROVE Phase'
  <2>1. UNCHANGED <<root, mNeedStop>>
    BY <1>11, WorkerFrame
       DEF RunTasks, rootVars, flags, CheckStop, NecessaryWork, SetReady, CheckNeedFinish,
           CheckReady, OptionalWork, WorkerReset, WorkerClear
  <2>2. \A v \in Worker \ {w} : UNCHANGED worker[v]
    BY <1>11 DEF RunTasks, Goto, CheckStop, NecessaryWork, SetReady, CheckNeedFinish,
          CheckReady, ContinueOptional, LeaveOptional, OptionalWork, WorkerReset,
          WorkerClear, TypeOK, WorkerType
  <2>3. CASE CheckStop(w)
    <3>1. worker[w] = "stop?" /\ worker'[w] = (IF mNeedStop THEN "done" ELSE "necessary")
      BY <2>3 DEF CheckStop, Goto, TypeOK, WorkerType
    <3>2. CASE mNeedStop  BY <2>1, <2>2, <3>1, <3>2
    <3>3. CASE ~mNeedStop BY <2>1, <2>2, <3>1, <3>3
    <3>4. QED BY <3>2, <3>3
  <2>4. CASE NecessaryWork(w) \/ SetReady(w) \/ CheckNeedFinish(w) \/ CheckReady(w) \/ OptionalWork(w)
    <3>1. /\ worker[w] \in {"necessary", "setReady", "finish?", "ready?", "optional"}
          /\ worker'[w] \in {"necessary", "setReady", "finish?", "ready?", "optional", "send"}
      BY <2>4 DEF Goto, NecessaryWork, SetReady, CheckNeedFinish, CheckReady,
                  ContinueOptional, LeaveOptional, OptionalWork, TypeOK, WorkerType
    <3>2. QED BY <2>1, <2>2, <3>1
  <2>5. CASE WorkerReset(w) \/ WorkerClear(w)
    <3>1. worker[w] \in {"reset", "clear"} /\ worker'[w] \in {"clear", "recv"}
      BY <2>5 DEF Goto, WorkerReset, WorkerClear, TypeOK, WorkerType
    <3>2. QED BY <2>1, <2>2, <3>1
  <2>6. QED BY <1>11, <2>3, <2>4, <2>5 DEF RunTasks
<1>12. CASE UNCHANGED vars  BY <1>12 DEF vars
<1>13. QED
  BY <1>1, <1>2, <1>3, <1>4, <1>5, <1>6, <1>7, <1>8, <1>9, <1>10, <1>11, <1>12
     DEF Next, RootStep, Terminated

(* A step that is none of the three keeps everybody on his side of SetReady. *)
LEMMA BehindFrame ==
  ASSUME TypeOK, NEW w \in Worker,
         CheckStop(w) \/ NecessaryWork(w) \/ CheckNeedFinish(w) \/ CheckReady(w)
           \/ OptionalWork(w)
  PROVE  UNCHANGED <<root, flags, BehindSetReady>>
<1>1. UNCHANGED <<root, flags>>
  BY DEF CheckStop, NecessaryWork, CheckNeedFinish, CheckReady, OptionalWork, rootVars
<1>2. \A v \in Worker \ {w} : UNCHANGED worker[v]
  BY DEF Goto, CheckStop, NecessaryWork, CheckNeedFinish, CheckReady, ContinueOptional,
         LeaveOptional, OptionalWork, TypeOK, WorkerType
<1>3. \/ worker[w] \in {"stop?", "necessary"} /\ worker'[w] \in {"done", "necessary", "setReady"}
      \/ /\ worker[w] \in {"finish?", "ready?", "optional"}
         /\ worker'[w] \in {"finish?", "ready?", "optional", "send"}
  BY DEF Goto, CheckStop, NecessaryWork, CheckNeedFinish, CheckReady, ContinueOptional,
         LeaveOptional, OptionalWork, TypeOK, WorkerType
<1>4. BehindSetReady' = BehindSetReady
  BY <1>2, <1>3 DEF BehindSetReady
<1>5. QED BY <1>1, <1>4

LEMMA SetReadyBehind ==
  ASSUME TypeOK, NEW w \in Worker, SetReady(w)
  PROVE  /\ w \notin BehindSetReady
         /\ BehindSetReady' = BehindSetReady \cup {w}
         /\ Cardinality(BehindSetReady') = Cardinality(BehindSetReady) + 1
<1>1. worker[w] = "setReady" /\ worker' = [worker EXCEPT ![w] = "finish?"]
  BY DEF SetReady, Goto
<1>2. w \notin BehindSetReady /\ BehindSetReady' = BehindSetReady \cup {w}
  BY <1>1 DEF BehindSetReady, TypeOK, WorkerType
<1>3. QED BY <1>2, BehindFinite, FS_AddElement

(* The flags say exactly what happened in this cycle. *)
LEMMA NextFlags == TypeOK /\ Phase /\ Flags /\ [Next]_vars /\ OneGroup => Flags'
<1> SUFFICES ASSUME TypeOK, Phase, Flags, [Next]_vars, OneGroup PROVE Flags'
  OBVIOUS
<1> USE DEF Flags, Working
<1>1. CASE CallSend         BY <1>1 DEF CallSend, flags
<1>2. CASE Prepare          BY <1>2 DEF Prepare, flags
<1>3. CASE CallReceive
  <2>1. root = "sent" /\ root' = "send" /\ mNeedFinish' /\ UNCHANGED mReadyRemoteTasks
    BY <1>3 DEF CallReceive
  <2>2. BehindSetReady' = BehindSetReady
    BY <1>3 DEF CallReceive, workerVars, BehindSetReady
  <2>3. QED BY <2>1, <2>2
<1>4. CASE RootReset        BY <1>4 DEF RootReset
<1>5. CASE RootClear        BY <1>5 DEF RootClear
<1>6. CASE Use
  <2>1. root = "use" /\ root' \in {"use", "idle"} /\ UNCHANGED flags
    BY <1>6 DEF Use, OneGroup, TypeOK, RootType, Group
  <2>2. QED BY <2>1 DEF flags
<1>7. CASE StopAllProcesses BY <1>7 DEF StopAllProcesses
<1>8. CASE Join             BY <1>8 DEF Join, flags
<1>9. CASE RecvBarrier
  <2>1. mReadyRemoteTasks = 0 /\ ~mNeedFinish /\ UNCHANGED <<mNeedFinish, mReadyRemoteTasks>>
    BY <1>9 DEF RecvBarrier, flags
  <2>2. BehindSetReady' = {}
    BY <1>9 DEF RecvBarrier, BehindSetReady
  <2>3. Cardinality(BehindSetReady') = 0
    BY <2>2, FS_EmptySet
  <2>4. root' \in {"join", "prepare", "sent"}
    BY <1>9 DEF RecvBarrier
  <2>5. \A v \in Worker : worker'[v] # "ready?"
    BY <1>9 DEF RecvBarrier
  <2>6. QED BY <2>1, <2>3, <2>4, <2>5
<1>10. CASE SendBarrier     BY <1>10 DEF SendBarrier, flags
<1>11. ASSUME NEW w \in Worker,
              CheckStop(w) \/ NecessaryWork(w) \/ CheckNeedFinish(w) \/ CheckReady(w)
                \/ OptionalWork(w)
       PROVE  Flags'
  <2>1. UNCHANGED <<root, flags, BehindSetReady>>
    BY <1>11, BehindFrame
  <2>2. root = "sent" => \A v \in Worker : worker'[v] # "ready?"
    BY <1>11 DEF Goto, CheckStop, NecessaryWork, CheckNeedFinish, CheckReady,
         ContinueOptional, LeaveOptional, OptionalWork, TypeOK, WorkerType
  <2>3. /\ root' = root /\ mReadyRemoteTasks' = mReadyRemoteTasks
        /\ Cardinality(BehindSetReady') = Cardinality(BehindSetReady)
    BY <2>1 DEF flags
  <2>4. mNeedFinish' = mNeedFinish
    BY <2>1 DEF flags
  <2>5. QED BY <2>2, <2>3, <2>4
<1>12. ASSUME NEW w \in Worker, SetReady(w) PROVE Flags'
  <2>1. worker[w] = "setReady" /\ mReadyRemoteTasks' = mReadyRemoteTasks + 1
        /\ UNCHANGED <<root, mNeedFinish>>
    BY <1>12 DEF SetReady, Goto, rootVars
  <2>2. Working \/ root \in {"join", "stopped"}
    BY <2>1 DEF Phase
  <2>3. root \notin {"join", "stopped"}
    BY <2>1 DEF Phase
  <2>4. root = "sent" => \A v \in Worker : worker'[v] # "ready?"
    BY <1>12 DEF SetReady, Goto, TypeOK, WorkerType
  <2>5. QED BY <1>12, <2>1, <2>2, <2>3, <2>4, SetReadyBehind
<1>13. ASSUME NEW w \in Worker, WorkerReset(w) \/ WorkerClear(w) PROVE Flags'
  <2>1. worker[w] \in {"reset", "clear"} /\ root' = root
    BY <1>13 DEF WorkerReset, WorkerClear, Goto, rootVars
  <2>2. ~Working
    BY <2>1 DEF Phase
  <2>3. CASE WorkerReset(w) BY <2>1, <2>2, <2>3 DEF WorkerReset
  <2>4. CASE WorkerClear(w) BY <2>1, <2>2, <2>4 DEF WorkerClear
  <2>5. QED BY <1>13, <2>3, <2>4
<1>14. CASE UNCHANGED vars  BY <1>14 DEF vars, BehindSetReady
<1>15. QED
  BY <1>1, <1>2, <1>3, <1>4, <1>5, <1>6, <1>7, <1>8, <1>9, <1>10, <1>11, <1>12, <1>13, <1>14
     DEF Next, RootStep, RunTasks, Terminated

(* PrepareDataForThreads is through before the first barrier opens. *)
LEMMA NextInputs == TypeOK /\ Inputs /\ [Next]_vars /\ OneGroup => Inputs'
<1> SUFFICES ASSUME TypeOK, Inputs, [Next]_vars, OneGroup PROVE Inputs'
  OBVIOUS
<1>1. group = 1 /\ rootTask \in TaskNr /\ NumberOfTasks \in Nat \ {0}
  BY ConstantsAssumption DEF TypeOK, RootType, OneGroup, Group
<1> USE DEF Inputs, Working
<1>2. CASE CallSend
  <2>1. root' = "prepare" /\ rootTask' = 1
    BY <1>2 DEF CallSend
  <2>2. QED BY <2>1
<1>3. CASE Prepare
  <2>1. /\ root = "prepare" /\ cycle' = cycle
        /\ input' = [input EXCEPT ![1][rootTask] = cycle]
    BY <1>1, <1>3 DEF Prepare
  <2>2. \A t \in 1..rootTask : input'[1][t] = cycle
    BY <1>1, <2>1, OneGroupShares DEF TypeOK, DataType, TaskNr
  <2>3. CASE rootTask < NumberOfTasks
    <3>1. root' = "prepare" /\ rootTask' = rootTask + 1
      BY <1>3, <2>1, <2>3 DEF Prepare
    <3>2. QED BY <1>1, <2>1, <2>2, <3>1 DEF TaskNr
  <2>4. CASE ~(rootTask < NumberOfTasks)
    <3>1. root' = "recv"
      BY <1>3, <2>4 DEF Prepare
    <3>2. rootTask = NumberOfTasks
      BY <1>1, <2>4 DEF TaskNr
    <3>3. QED BY <2>1, <2>2, <3>1, <3>2 DEF TaskNr
  <2>5. QED BY <2>3, <2>4
<1>4. CASE Use
  <2>1. root = "use" /\ root' \in {"use", "idle"} /\ UNCHANGED <<input, cycle>>
    BY <1>1, <1>4 DEF Use, OneGroup, data
  <2>2. QED BY <2>1
<1>5. CASE RecvBarrier
  <2>1. root \in {"recv", "stopRecv"} /\ UNCHANGED <<input, cycle>>
        /\ root' = IF root = "recv" THEN "sent" ELSE "join"
    BY <1>1, <1>5 DEF RecvBarrier, OneGroup, data
  <2>2. QED BY <2>1
<1>6. CASE CallReceive \/ RootReset \/ RootClear \/ StopAllProcesses \/ Join \/ SendBarrier
  BY <1>6 DEF CallReceive, RootReset, RootClear, StopAllProcesses, Join, SendBarrier, data
<1>7. CASE UNCHANGED <<root, rootTask, cycle, input>>
  BY <1>7
<1>8. ASSUME NEW w \in Worker, RunTasks(w) PROVE Inputs'
  <2>1. UNCHANGED input
    BY <1>8 DEF RunTasks, CheckStop, NecessaryWork, SetReady, CheckNeedFinish,
         CheckReady, OptionalWork, WorkerReset, WorkerClear, data
  <2>2. QED BY <1>7, <1>8, <2>1, WorkerFrame DEF rootVars
<1>9. QED
  BY <1>2, <1>3, <1>4, <1>5, <1>6, <1>7, <1>8 DEF Next, RootStep, Terminated, vars

(* Everything but CallSend, the barriers and a worker's progress leaves the *)
(* outputs and who is through with them alone.                             *)
LEMMA NextOutputs ==
  TypeOK /\ Phase /\ Flags /\ Inputs /\ Outputs /\ [Next]_vars /\ OneGroup => Outputs'
<1> SUFFICES ASSUME TypeOK, Phase, Flags, Inputs, Outputs, [Next]_vars, OneGroup,
                    NEW t \in TaskNr, NEW w \in 0..(NumberOfWorker(1, t) - 1)
             PROVE  output'[1][t][w] = IF Through(w, t)' THEN cycle' ELSE cycle' - 1
  BY DEF Outputs, NumberOfWorker
<1> DEFINE Ok == output'[1][t][w] = IF Through(w, t)' THEN cycle' ELSE cycle' - 1
<1>1. w \in Worker /\ group = 1 /\ GroupOf[w] = 1 /\ cycle \in Int
  BY OneGroupShares DEF TypeOK, RootType, OneGroup, Group
<1>2. output[1][t][w] = IF Through(w, t) THEN cycle ELSE cycle - 1
  BY DEF Outputs
<1> USE DEF Working
<1>3. CASE CallSend
  <2>1. root = "idle" /\ root' = "prepare" /\ cycle' = cycle + 1 /\ UNCHANGED output
    BY <1>3 DEF CallSend, data
  <2>2. Through(w, t) /\ ~Through(w, t)'
    BY <2>1 DEF Through
  <2>3. QED BY <1>1, <1>2, <2>1, <2>2
<1>4. CASE UNCHANGED <<cycle, output, Through(w, t)>>
  BY <1>2, <1>4
<1>5. CASE Prepare
  <2>1. root = "prepare" /\ root' \in {"prepare", "recv"} /\ UNCHANGED <<cycle, output>>
    BY <1>5 DEF Prepare
  <2>2. QED BY <1>4, <2>1 DEF Through
<1>6. CASE CallReceive
  <2>1. root = "sent" /\ root' = "send" /\ UNCHANGED <<cycle, output, worker, task>>
    BY <1>6 DEF CallReceive, data, workerVars
  <2>2. QED BY <1>4, <2>1 DEF Through, BehindSetReady
<1>7. CASE RootReset \/ RootClear \/ Use \/ StopAllProcesses \/ Join
  <2>1. /\ root \in {"reset", "clear", "use", "idle", "join"}
        /\ root' \in {"clear", "use", "idle", "stopRecv", "stopped"}
        /\ UNCHANGED <<cycle, output>>
    BY <1>1, <1>7 DEF RootReset, RootClear, Use, StopAllProcesses, Join, data, OneGroup
  <2>2. QED BY <1>4, <2>1 DEF Through
<1>8. CASE RecvBarrier
  <2>1. /\ root \in {"recv", "stopRecv"} /\ root' = IF root = "recv" THEN "sent" ELSE "join"
        /\ UNCHANGED <<cycle, output>> /\ worker'[w] = "stop?"
    BY <1>1, <1>8 DEF RecvBarrier, data, OneGroup
  <2>2. QED BY <1>4, <2>1 DEF Through, BehindSetReady
<1>9. CASE SendBarrier
  <2>1. root = "send" /\ root' = "reset" /\ UNCHANGED <<cycle, output>> /\ worker[w] = "send"
    BY <1>1, <1>9 DEF SendBarrier, data
  <2>2. QED BY <1>1, <1>4, <2>1 DEF Through, BehindSetReady
<1>10. ASSUME NEW v \in Worker, RunTasks(v) PROVE Ok
  <2>1. UNCHANGED <<root, cycle>>
    BY <1>10, WorkerFrame DEF rootVars
  <2>2. CASE NecessaryWork(v)
    <3>1. worker[v] = "necessary" /\ task[v] \in TaskNr
      BY <2>2 DEF NecessaryWork, Goto, TypeOK, WorkerType
    <3>2. Working
      BY <3>1 DEF Phase
    <3>3. CASE v # w
      <4>1. UNCHANGED <<worker[w], task[w]>>
        BY <1>1, <2>2, <3>3 DEF NecessaryWork, Goto, TypeOK, WorkerType
      <4>2. UNCHANGED output[1][t][w]
        <5>1. \/ UNCHANGED output
              \/ output' = [output EXCEPT ![1][task[v]][v] = input[1][task[v]]]
          BY <2>2, OneGroupShares DEF NecessaryWork
        <5>2. QED BY <1>1, <3>1, <3>3, <5>1, OneGroupShares DEF TypeOK, DataType
      <4>3. Through(w, t)' <=> Through(w, t)
        BY <1>1, <2>1, <4>1 DEF Through, BehindSetReady
      <4>4. QED BY <1>2, <2>1, <4>2, <4>3
    <3>4. CASE v = w /\ task[w] # t
      <4>1. UNCHANGED output[1][t][w]
        BY <1>1, <2>2, <3>1, <3>4, OneGroupShares DEF NecessaryWork, TypeOK, DataType
      <4>2. Through(w, t)' <=> Through(w, t)
        <5>1. w \notin BehindSetReady /\ w \notin BehindSetReady'
          BY <1>1, <2>2, <3>1, <3>4 DEF BehindSetReady, NecessaryWork, Goto, TypeOK, WorkerType
        <5>2. Through(w, t) <=> t < task[w]
          BY <1>1, <3>1, <3>2, <3>4, <5>1 DEF Through
        <5>3. CASE task[w] < NumberOfTasks
          <6>1. worker'[w] = "necessary" /\ task'[w] = task[w] + 1
            BY <1>1, <2>2, <3>4, <5>3 DEF NecessaryWork, Goto, TypeOK, WorkerType
          <6>2. Through(w, t)' <=> t < task[w] + 1
            BY <1>1, <2>1, <3>2, <5>1, <6>1 DEF Through
          <6>3. QED BY <3>1, <3>4, <5>2, <6>2 DEF TaskNr
        <5>4. CASE ~(task[w] < NumberOfTasks)
          <6>1. worker'[w] = "setReady"
            BY <1>1, <2>2, <3>4, <5>4 DEF NecessaryWork, Goto, TypeOK, WorkerType
          <6>2. Through(w, t)'
            BY <1>1, <2>1, <3>2, <6>1 DEF Through
          <6>3. t < task[w]
            BY <3>1, <3>4, <5>4, ConstantsAssumption DEF TaskNr
          <6>4. QED BY <5>2, <6>2, <6>3
        <5>5. QED BY <5>3, <5>4
      <4>3. QED BY <1>2, <2>1, <4>1, <4>2
    <3>5. CASE v = w /\ task[w] = t
      <4>1. input[1][t] = cycle
        BY <3>2 DEF Inputs
      <4>2. w < NumberOfWorker(1, t)
        BY OneGroupShares
      <4>3. output' = [output EXCEPT ![1][t][w] = input[1][t]]
        BY <1>1, <2>2, <3>5, <4>2 DEF NecessaryWork
      <4>4. output'[1][t][w] = cycle
        BY <1>1, <4>1, <4>3, OneGroupShares DEF TypeOK, DataType
      <4>5. Through(w, t)'
        <5>1. \/ worker'[w] = "necessary" /\ task'[w] = t + 1
              \/ worker'[w] = "setReady"
          BY <1>1, <2>2, <3>5 DEF NecessaryWork, Goto, TypeOK, WorkerType
        <5>2. QED BY <1>1, <2>1, <3>2, <5>1 DEF Through, TaskNr
      <4>6. QED BY <2>1, <4>4, <4>5
    <3>6. QED BY <3>3, <3>4, <3>5
  <2>3. ASSUME ~NecessaryWork(v) PROVE Ok
    <3>1. UNCHANGED output
      BY <1>10, <2>3 DEF RunTasks, CheckStop, SetReady, CheckNeedFinish, CheckReady,
            OptionalWork, WorkerReset, WorkerClear, data
    <3>2. Through(w, t)' <=> Through(w, t)
      <4>1. \A u \in Worker \ {v} : UNCHANGED <<worker[u], task[u]>>
        BY <1>10, <2>3 DEF RunTasks, Goto, CheckStop, SetReady, CheckNeedFinish, CheckReady,
             ContinueOptional, LeaveOptional, OptionalWork, WorkerReset, WorkerClear,
             TypeOK, WorkerType
      <4>2. CASE v # w
        BY <1>1, <2>1, <4>1, <4>2 DEF Through, BehindSetReady
      <4>3. CASE v = w /\ CheckStop(v)
        <5>1. worker[w] = "stop?" /\ task'[w] = 1
              /\ worker'[w] = (IF mNeedStop THEN "done" ELSE "necessary")
          BY <4>3, <1>1 DEF CheckStop, Goto, TypeOK, WorkerType
        <5>2. ~(t < 1)
          BY DEF TaskNr
        <5>3. QED BY <1>1, <2>1, <5>1, <5>2 DEF Through, BehindSetReady
      <4>4. CASE v = w /\ ~CheckStop(v) /\ ~WorkerReset(v) /\ ~WorkerClear(v)
        <5>1. /\ worker[w] \in {"setReady", "finish?", "ready?", "optional"}
              /\ worker'[w] \in {"finish?", "ready?", "optional", "send"}
          BY <1>1, <1>10, <2>3, <4>4 DEF RunTasks, Goto, SetReady, CheckNeedFinish, CheckReady,
               ContinueOptional, LeaveOptional, OptionalWork, TypeOK, WorkerType
        <5>2. QED BY <1>1, <2>1, <5>1 DEF Through, BehindSetReady
      <4>5. CASE v = w /\ (WorkerReset(v) \/ WorkerClear(v))
        <5>1. worker[v] \in {"reset", "clear"}
          BY <4>5 DEF WorkerReset, WorkerClear, Goto
        <5>2. ~Working
          BY <5>1 DEF Phase
        <5>3. QED BY <2>1, <5>2 DEF Through
      <4>6. QED BY <4>2, <4>3, <4>4, <4>5
    <3>3. QED BY <1>2, <2>1, <3>1, <3>2
  <2>4. QED BY <2>2, <2>3
<1>11. CASE UNCHANGED vars
  BY <1>4, <1>11 DEF vars, Through, BehindSetReady
<1>12. QED
  BY <1>3, <1>5, <1>6, <1>7, <1>8, <1>9, <1>10, <1>11 DEF Next, RootStep, Terminated

LEMMA NextIInv == TypeOK /\ IInv /\ [Next]_vars /\ OneGroup => IInv'
BY NextPhase, NextFlags, NextInputs, NextOutputs DEF IInv

(* The inductive invariant of a manager with one group. *)
THEOREM OneGroupInv == OneGroup => (Spec => []IInv)
<1> SUFFICES ASSUME OneGroup PROVE Spec => []IInv
  OBVIOUS
<1>1. Init => IInv
  BY InitIInv
<1>2. TypeOK /\ IInv /\ [Next]_vars => IInv'
  BY NextIInv
<1>3. QED BY <1>1, <1>2, TypeCorrect, PTL DEF Spec

-----------------------------------------------------------------------------
(* What it implies *)

LEMMA IInvFlags == IInv => FlagsOfThisCycle
BY DEF IInv, Flags, FlagsOfThisCycle, Working

LEMMA IInvRace == IInv => NoDataRace
BY DEF IInv, Phase, NoDataRace, Working

LEMMA IInvInput == TypeOK /\ IInv /\ OneGroup => OnlyPreparedInput
<1> SUFFICES ASSUME TypeOK, IInv, OneGroup, NEW w \in Worker, worker[w] = "necessary",
                    w < NumberOfWorker(GroupOf[w], task[w])
             PROVE  input[GroupOf[w]][task[w]] = cycle
  BY DEF OnlyPreparedInput
<1>1. Working
  BY DEF IInv, Phase
<1>2. task[w] \in TaskNr /\ GroupOf[w] = 1
  BY OneGroupShares DEF TypeOK, WorkerType
<1>3. QED BY <1>1, <1>2 DEF IInv, Inputs

LEMMA IInvUse == TypeOK /\ IInv /\ OneGroup => UseSeesThisCycle
<1> SUFFICES ASSUME TypeOK, IInv, OneGroup, root = "use"
             PROVE  SharesDone(group, rootTask)
  BY DEF UseSeesThisCycle
<1>1. group = 1 /\ rootTask \in TaskNr
  BY OneGroupShares DEF TypeOK, RootType
<1>2. QED BY <1>1 DEF SharesDone, IInv, Outputs, Through, Working

LEMMA IInvReady == TypeOK /\ IInv /\ OneGroup => ReadyMeansFinished
<1> SUFFICES ASSUME TypeOK, IInv, OneGroup, IsReady, NEW t \in TaskNr
             PROVE  SharesDone(1, t)
  BY OneGroupShares DEF ReadyMeansFinished
<1>1. CASE Working
  <2>1. Cardinality(BehindSetReady) = Cardinality(Worker)
    BY <1>1, WorkerFinite DEF IsReady, IInv, Flags
  <2>2. BehindSetReady = Worker
    BY <2>1, BehindFinite, WorkerFinite, FS_Subset
  <2>3. QED BY <1>1, <2>2, OneGroupShares DEF SharesDone, IInv, Outputs, Through, Working
<1>2. CASE root \in {"reset", "clear"}
  BY <1>2 DEF SharesDone, IInv, Outputs, Through, Working
<1>3. CASE ~Working /\ root \notin {"reset", "clear"}
  BY <1>3, ConstantsAssumption DEF IsReady, IInv, Flags
<1>4. QED BY <1>1, <1>2, <1>3

(* No flag of one cycle reaches the next one, and the counter is exact. *)
THEOREM FlagsSafe == OneGroup => (Spec => []FlagsOfThisCycle)
<1> SUFFICES ASSUME OneGroup PROVE Spec => []FlagsOfThisCycle
  OBVIOUS
<1>1. QED BY OneGroupInv, IInvFlags, PTL

(* Main thread and workers never touch a task's data at the same time. *)
THEOREM RaceFree == OneGroup => (Spec => []NoDataRace)
<1> SUFFICES ASSUME OneGroup PROVE Spec => []NoDataRace
  OBVIOUS
<1>1. QED BY OneGroupInv, IInvRace, PTL

(* Workers compute their shares on prepared data only. *)
THEOREM InputPrepared == OneGroup => (Spec => []OnlyPreparedInput)
<1> SUFFICES ASSUME OneGroup PROVE Spec => []OnlyPreparedInput
  OBVIOUS
<1>1. TypeOK /\ IInv => OnlyPreparedInput
  BY IInvInput
<1>2. QED BY <1>1, OneGroupInv, TypeCorrect, PTL

(* The main thread uses the results of this cycle, of all shares. *)
THEOREM ResultsCurrent == OneGroup => (Spec => []UseSeesThisCycle)
<1> SUFFICES ASSUME OneGroup PROVE Spec => []UseSeesThisCycle
  OBVIOUS
<1>1. TypeOK /\ IInv => UseSeesThisCycle
  BY IInvUse
<1>2. QED BY <1>1, OneGroupInv, TypeCorrect, PTL

(* IsReadyForReceiveData never answers TRUE too early. *)
THEOREM ReadySound == OneGroup => (Spec => []ReadyMeansFinished)
<1> SUFFICES ASSUME OneGroup PROVE Spec => []ReadyMeansFinished
  OBVIOUS
<1>1. TypeOK /\ IInv => ReadyMeansFinished
  BY IInvReady
<1>2. QED BY <1>1, OneGroupInv, TypeCorrect, PTL

LEMMA OutputStep ==
  ASSUME OneGroup, TypeOK, IInv, [Next]_vars,
         NEW t \in TaskNr, NEW w \in Worker, output'[1][t][w] # output[1][t][w]
  PROVE  output'[1][t][w] = output[1][t][w] + 1
<1>1. PICK v \in Worker : NecessaryWork(v)
  BY DEF Next, RootStep, Terminated, vars, data, CallSend, Prepare, CallReceive, RootReset,
         RootClear, Use, StopAllProcesses, Join, RecvBarrier, SendBarrier, RunTasks,
         CheckStop, SetReady, CheckNeedFinish, CheckReady, OptionalWork, WorkerReset,
         WorkerClear
<1>2. worker[v] = "necessary" /\ task[v] \in TaskNr /\ GroupOf[v] = 1
  BY <1>1, OneGroupShares DEF NecessaryWork, Goto, TypeOK, WorkerType
<1>3. Working
  BY <1>2 DEF IInv, Phase
<1>4. input[1][task[v]] = cycle
  BY <1>2, <1>3 DEF IInv, Inputs
<1>5. v < NumberOfWorker(1, task[v]) /\ output' = [output EXCEPT ![1][task[v]][v] = cycle]
  BY <1>1, <1>2, <1>4 DEF NecessaryWork
<1>6. v = w /\ task[v] = t /\ output'[1][t][w] = cycle
  BY <1>2, <1>5, OneGroupShares DEF TypeOK, DataType
<1>7. w \in 0..(NumberOfWorker(1, t) - 1)
  BY <1>5, <1>6, OneGroupShares DEF Worker
<1>8. output[1][t][w] \in {cycle, cycle - 1} /\ cycle \in Int
  BY <1>7 DEF IInv, Outputs, TypeOK, RootType
<1>9. QED BY <1>6, <1>8

(* Every share goes through the cycles one by one. *)
THEOREM NoCycleSkipped == OneGroup => (Spec => EachCycleOnce)
<1> SUFFICES ASSUME OneGroup PROVE Spec => EachCycleOnce
  OBVIOUS
<1>1. TypeOK /\ IInv /\ [Next]_vars =>
        [\A g \in Group, t \in TaskNr, w \in Worker :
           output'[g][t][w] # output[g][t][w] => output'[g][t][w] = output[g][t][w] + 1]_output
  BY OutputStep, OneGroupShares
<1>2. QED BY <1>1, OneGroupInv, TypeCorrect, PTL DEF Spec, EachCycleOnce

(* Optional work is only given up when the cycle can be finished. *)
THEOREM OptionalWorkKept == OneGroup => (Spec => OptionalWorkNotCutShort)
<1> SUFFICES ASSUME OneGroup PROVE Spec => OptionalWorkNotCutShort
  OBVIOUS
<1> DEFINE Kept == \A w \in Worker :
       worker[w] # "send" /\ worker'[w] = "send" /\ pending[w] # << >>
         => root = "send" /\ BehindSetReady = Worker
<1>1. ASSUME TypeOK, IInv, Next PROVE Kept
  <2> SUFFICES ASSUME NEW w \in Worker, worker[w] # "send", worker'[w] = "send",
                      pending[w] # << >>
               PROVE  root = "send" /\ BehindSetReady = Worker
    OBVIOUS
  <2>1. CheckReady(w) /\ IsReady
    <3>1. CheckReady(w) \/ CheckNeedFinish(w)
      <4>1. worker \in [Worker -> WorkerPC]
        BY <1>1 DEF TypeOK, WorkerType
      <4>2. CASE CallSend \/ CallReceive \/ StopAllProcesses \/ RootStep
        BY <4>2, RootFrame DEF workerVars
      <4>3. CASE RecvBarrier \/ SendBarrier \/ Terminated
        BY <4>3 DEF RecvBarrier, SendBarrier, Terminated, vars, workerVars
      <4>4. ASSUME NEW v \in Worker, RunTasks(v) PROVE CheckReady(w) \/ CheckNeedFinish(w)
        <5>1. CASE CheckReady(v) \/ CheckNeedFinish(v)
          <6>1. v = w
            BY <4>1, <5>1 DEF CheckNeedFinish, CheckReady, ContinueOptional, LeaveOptional
          <6>2. QED BY <5>1, <6>1
        <5>2. CASE CheckStop(v) \/ NecessaryWork(v) \/ SetReady(v) \/ OptionalWork(v)
          BY <4>1, <5>2 DEF CheckStop, NecessaryWork, SetReady, OptionalWork, Goto
        <5>3. CASE WorkerReset(v) \/ WorkerClear(v)
          BY <4>1, <5>3 DEF WorkerReset, WorkerClear, Goto
        <5>4. QED BY <4>4, <5>1, <5>2, <5>3 DEF RunTasks
      <4>5. QED BY <1>1, <4>2, <4>3, <4>4 DEF Next
    <3>2. QED BY <1>1, <3>1 DEF CheckReady, CheckNeedFinish, ContinueOptional, TypeOK, WorkerType
  <2>2. w \in BehindSetReady /\ worker[w] = "ready?"
    BY <2>1 DEF CheckReady, BehindSetReady
  <2>3. Working
    BY <1>1, <2>2 DEF IInv, Phase
  <2>4. Cardinality(BehindSetReady) = Cardinality(Worker)
    BY <1>1, <2>1, <2>3, WorkerFinite DEF IsReady, IInv, Flags
  <2>5. BehindSetReady = Worker
    BY <2>4, BehindFinite, WorkerFinite, FS_Subset
  <2>6. root = "send"
    BY <1>1, <2>2, <2>3 DEF IInv, Flags, Working
  <2>7. QED BY <2>5, <2>6
<1>2. TypeOK /\ IInv /\ [Next]_vars => [Kept]_vars
  BY <1>1
<1>3. QED BY <1>2, OneGroupInv, TypeCorrect, PTL DEF Spec, OptionalWorkNotCutShort

-----------------------------------------------------------------------------
(* The refinement *)

LEMMA FJInit == Init => FJ!Init
BY DEF Init, FJ!Init, Working

LEMMA FJNext ==
  ASSUME OneGroup, TypeOK, IInv, [Next]_vars
  PROVE  [FJ!Next]_FJ!fjVars
<1> USE DEF Working, IInv
<1>0. cycle \in 0..MaxCycle /\ group = 1 /\ MaxCycle \in Nat
  BY ConstantsAssumption DEF TypeOK, RootType, OneGroup, Group
<1>1. CASE CallSend
  BY <1>0, <1>1 DEF CallSend, FJ!fjVars
<1>2. CASE Prepare
  BY <1>2 DEF Prepare, FJ!fjVars
<1>3. CASE CallReceive
  <2>1. BehindSetReady' = BehindSetReady
    BY <1>3 DEF CallReceive, workerVars, BehindSetReady
  <2>2. root = "sent" /\ root' = "send" /\ cycle' = cycle
    BY <1>3 DEF CallReceive
  <2>3. QED BY <2>1, <2>2 DEF FJ!fjVars
<1>4. CASE RootReset \/ RootClear
  BY <1>4 DEF RootReset, RootClear, FJ!fjVars
<1>5. CASE Use
  <2>1. root = "use" /\ root' \in {"use", "idle"} /\ cycle' = cycle
    BY <1>0, <1>5 DEF Use, OneGroup
  <2>2. QED BY <2>1 DEF FJ!fjVars
<1>6. CASE StopAllProcesses
  <2>1. root = "idle" /\ root' = "stopRecv" /\ cycle' = cycle
    BY <1>6 DEF StopAllProcesses
  <2>2. FJ!Stop
    BY <2>1 DEF FJ!Stop
  <2>3. QED BY <2>2 DEF FJ!Next
<1>7. CASE Join
  BY <1>7 DEF Join, FJ!fjVars
<1>8. CASE RecvBarrier
  <2>1. BehindSetReady' = {} /\ cycle' = cycle
    BY <1>8 DEF RecvBarrier, BehindSetReady
  <2>2. CASE root = "stopRecv"
    BY <1>8, <2>1, <2>2 DEF RecvBarrier, FJ!fjVars
  <2>3. CASE root = "recv"
    <3>1. root' = "sent"
      BY <1>0, <1>8, <2>3 DEF RecvBarrier, OneGroup
    <3>2. FJ!Publish
      <4>1. cycle - 1 < MaxCycle /\ cycle = (cycle - 1) + 1
        BY <1>0
      <4>2. QED BY <2>1, <2>3, <3>1, <4>1 DEF FJ!Publish
    <3>3. QED BY <3>2 DEF FJ!Next
  <2>4. QED BY <1>8, <2>2, <2>3 DEF RecvBarrier
<1>9. CASE SendBarrier
  <2>1. root = "send" /\ root' = "reset" /\ cycle' = cycle /\ BehindSetReady = Worker
    BY <1>9, AllBehind DEF SendBarrier
  <2>2. FJ!Collect
    BY <2>1 DEF FJ!Collect
  <2>3. QED BY <2>2 DEF FJ!Next
<1>10. ASSUME NEW w \in Worker,
              CheckStop(w) \/ NecessaryWork(w) \/ CheckNeedFinish(w) \/ CheckReady(w)
                \/ OptionalWork(w)
       PROVE  [FJ!Next]_FJ!fjVars
  <2>1. UNCHANGED <<root, BehindSetReady>>
    BY <1>10, BehindFrame
  <2>2. cycle' = cycle
    BY <1>10, WorkerFrame DEF RunTasks, rootVars
  <2>3. QED BY <2>1, <2>2 DEF FJ!fjVars
<1>11. ASSUME NEW w \in Worker, SetReady(w) PROVE [FJ!Next]_FJ!fjVars
  <2>1. worker[w] = "setReady" /\ UNCHANGED <<root, cycle>>
    BY <1>11 DEF SetReady, Goto, rootVars
  <2>2. Working
    BY <2>1 DEF Phase
  <2>3. w \notin BehindSetReady /\ BehindSetReady' = BehindSetReady \cup {w}
    BY <1>11, SetReadyBehind
  <2>4. FJ!Finish(w)
    BY <2>1, <2>2, <2>3 DEF FJ!Finish
  <2>5. QED BY <2>4 DEF FJ!Next
<1>12. ASSUME NEW w \in Worker, WorkerReset(w) \/ WorkerClear(w)
       PROVE  [FJ!Next]_FJ!fjVars
  <2>1. worker[w] \in {"reset", "clear"} /\ UNCHANGED <<root, cycle>>
    BY <1>12 DEF WorkerReset, WorkerClear, Goto, rootVars
  <2>2. ~Working
    BY <2>1 DEF Phase
  <2>3. QED BY <2>1, <2>2 DEF FJ!fjVars
<1>13. CASE UNCHANGED vars
  BY <1>13 DEF vars, FJ!fjVars, BehindSetReady
<1>14. QED
  BY <1>1, <1>2, <1>3, <1>4, <1>5, <1>6, <1>7, <1>8, <1>9, <1>10, <1>11, <1>12, <1>13
     DEF Next, RootStep, RunTasks, Terminated

(* A manager with one group is a fork and join of its workers. *)
THEOREM ForkJoinRefinement == OneGroup => (Spec => ImplementsForkJoin)
<1> SUFFICES ASSUME OneGroup PROVE Spec => FJ!Spec
  BY DEF ImplementsForkJoin
<1>1. TypeOK /\ IInv /\ [Next]_vars => [FJ!Next]_FJ!fjVars
  BY FJNext
<1>2. QED BY <1>1, FJInit, OneGroupInv, TypeCorrect, PTL DEF Spec, FJ!Spec
=============================================================================
