# Verification of the ISEA-Framework

The ISEA-Framework simulates battery packs. It builds a tree of electrical two
ports and a mesh of thermal elements from an XML file, solves both with adaptive
ODE solvers, lets each run for a while and exchanges the results: heat goes from
the electrical to the thermal simulation, temperatures come back. Around that
core there are load profiles, stop criteria with rollback, an aging simulation,
a small framework for parallel computing, observers and file formats.

The equations are floating-point arithmetic and stay out of this project. What
is modelled is the control logic around them: who may run, in which order, on
which data, what is undone and what must not be forgotten. `PROJECT.json` maps
every definition to the lines it models.

## The system

| Part | State it keeps | Operations | Works together with |
|---|---|---|---|
| `threading`: `ThreadManager`, `TaskGroup`, `ThreadCommunicator` | tasks and their shares; two barriers; `mNeedFinish`, `mReadyRemoteTasks`, `mNeedStop` | `AssignThreadsToTasks`, `CreateAndRunThreads`, `SendDataToThreads`, `ReceiveDataFromThreads`, `IsReadyForReceiveData`, destructor | threads over barriers and atomics; tasks by virtual calls |
| `threading`: `ThreadedForLoop` | `mNumberOfLoops`, `mTerminate`, one barrier | `DoLoop`, destructor | the caller is one of the threads |
| `threading`: MPI | `mReadyRemoteTasks`, requests | the same cycle over messages | processes over MPI |
| `time_series` | times, values, index, cycle length | evaluate, skip a segment, start a new cycle | called by the standalone simulations |
| `state` | heat record, temperature; capacity, stored energy and offset | add, reset, average; set and convert | shared by cells, simulations and aging |
| `electrical`, `system` | two ports, state vector, samples of the current step | update, substep, save, rollback | observers, states, lookup tables |
| `thermal`, `geometry` | elements, temperatures | update, stop criterion | thermal states |
| `standalone` | profile, `mProfileChangeTime`, times | the main loops | everything above |
| `aging` | collected samples, capacity and resistance factors | collect, calculate, reset | state of charge, profile length |
| `observer`, `export` | filter chain, buffers | decimate, write | called after every substep |
| `factory`, `xmlparser`, `object`, `lookup` | cache of objects, tables | create, look up | construction of the tree |
| `cinterface`, Simulink | handles | step by step operation from outside | the same classes |

Which behaviours are hard, and what makes each part correct:

* **Threads.** The data of a task is plain memory. Only two barriers and the
  order of three atomics keep the main thread and the workers apart, and every
  party of the second barrier clears the flags for the next cycle. Correct means:
  no data race, no share left over from the last cycle, no flag leaking into the
  next cycle, every cycle and the shutdown come to an end.
* **Coupling.** The electrical simulation goes ahead, the thermal one follows
  and may send it back to any time in between. Time, charge, state vector and
  heat record are stored apart from each other and are all cut back. At the same
  time the profile may be shortened by the voltage limits and repeated. Correct
  means: both simulate the same time, each joule and each ampere second of the
  surviving run counts once, and the load is the one the profile asks for.
* **Heat record.** Searches with several boundary cases over a vector that is
  shortened at both ends.
* **Profile.** An index that only moves forward over times that change under it.
* **Aging.** Several vectors of samples that are filled and emptied by different
  calls, and a profile length with two meanings.
* **Messages.** The messages of the MPI build carry no number of their cycle, and
  the request for the end of a cycle may be answered in any of several calls.
  Correct means: no message of one cycle is taken for one of the next, and the
  processes do what the threads do.
* **Output.** Filters that drop samples, close full files and are destroyed and
  created again under other names, while the clock of the samples may go back.
  Correct means: each sample is in exactly one file, in order, and every row of
  a file has a value for each of its times.
* **Partitions and rainflow counting.** Integer algorithms where a boundary case
  loses or repeats an element.

`hazards` in `PROJECT.json` lists them line by line.

## The modules

| Module | Models | Role |
|---|---|---|
| `ForkJoin` | what the threads promise | abstract specification |
| `ThreadManager` | `threadManager.h`, `taskGroup.*`, `threadCommunicator.*` | detailed specification, implements `ForkJoin` |
| `MCThreadManager` | | values for the constants |
| `ThreadManagerProofs` | | theorems |
| `ThreadedForLoop` | `threaded_for_loop.*` | specification |
| `ThreadedForLoopProofs` | | theorems |
| `TimeSeries` | `time_series.h` with `EvalNoInterpolation` | specification, and the profile of `ThermalElectrical` |
| `MCTimeSeries` | | values for the constants |
| `TimeSeriesProofs` | | theorems |
| `ThermalState` | the heat record of `thermal_state.h` | specification, and the record of `ThermalElectrical` |
| `ThermalStateProofs` | | theorems |
| `CoSimulation` | what the coupling promises | abstract specification |
| `ThermalElectrical` | main loop, `electrical_standalone.cpp`, `thermal_electrical_standalone.cpp`, the step control of both simulations | composes `TimeSeries` and `ThermalState`, implements `CoSimulation` |
| `MCThermalElectrical` | | profiles and options |
| `Rainflow` | `misc/rainflow.cpp` | operators, used by `AgingSimulation` |
| `AgingSimulation` | `agingSimulation.cpp`, `aging_standalone.cpp`, `aging_simulation.h`, the data of the aging effects | extends `ThermalElectrical` and `Rainflow` |
| `MCAgingSimulation` | | profiles and options |
| `SimulationProofs` | | theorems of the coupling and of the aging program |
| `MPIThreadManager` | `mpiCommunicator.cpp`, `AssignThreadsToTasks` and `RunThreads` of `threadManager.*`, `taskGroup.*` under `BOOST_MPI` | detailed specification, implements the same `ForkJoin` |
| `MCMPIThreadManager` | | values for the constants |
| `MPIThreadManagerProofs` | | theorems |
| `Observer` | the filter chain of `observer/` and its creation and destruction by the programs | specification |
| `MCObserver` | | filter chains |
| `ObserverProofs` | | theorems |
| `DataLemmas` | | lemmas about sequences, about least and greatest indices, about induction and recursive functions, and about rainflow counting, used by the proofs of profile, heat record, coupling, aging and MPI |

### ThreadManager

`root` and `worker[w]` are program counters: where the main thread is in
`SendDataToThreads` / `ReceiveDataFromThreads` / `StopAllProcesses`, and where a
worker is in `TaskGroup::RunTasks`. One action is what a thread does between two
accesses to shared state; the reads of `mNeedFinish` and `mReadyRemoteTasks` in
`IsCycleFinished` and the two writes at the end of `SyncAfterThreadWork` are
separate steps, as nothing makes them one. A `boost::barrier` is one joint step
of everybody who waits. The data of a task is abstracted to the number of the
cycle it was prepared for (`input`) and computed from (`output`), which is what
tells stale data from fresh data.

### ThreadedForLoop

Every thread walks through its own part `Start(t)..End(t) - 1` one index at a
time and all of them meet at the barrier. The property counts the visits.

### TimeSeries

The state is that of the class; `now` is the clock of the caller. Reading a file
prepends a value at 0 and drops repeated lines as the constructor does.
A skip (`CallMove`) comes between the current change of the profile and the next
one. The skips that a stale load makes too early or too late, under voltage limits
in a cycle behind the first (see The runs), are outside of this module's caller and
in `ThermalElectrical` and `AgingSimulation`, which call the operation at any time
their program does.

### ThermalState

The record and its four operations. `EnergyTaken(time, dt)` is
`GetPowerDissipation(time, dt) * dt`: that of the fixed power, or the
`RecordedEnergy` with the searches of the code and its sum over the entries
(`SumOf`). `Energy` is the definition it is compared with, a sum over the time.

### ThermalElectrical

One action per call of the main loop or turn of a step's loop; the program is
sequential, so the nondeterminism is that of its environment: the substeps the
solvers take, the rate of a cell, whether the voltage is outside of the limits,
whether a temperature moved too far. `SetCurrent` is a disjunction of its three
cases. `steps` is the valid prefix of `mTimeSteps`, `mStatesSteps` and
`mSocValuesSteps`. `run` is a ghost variable: what flowed in the run as it would
have been without the parts that were undone (`total`, both the charge of the
cell and the heat it generated), and the ends of its substeps, where the power
was sampled (`samples`, from the latest one that is not behind the thermal time
on). Exceptions lead to `pc = "error"`. Left out: `mProfileLength` (no reader in this program),
the duration of the thermal simulation (never asked by the main loop), and the
clipping of the charge to the capacity. The observers have a module of their own.

Heat takes a detour. A substep stores its power with the time of its end
(`AddPowerDissipation`), and the power holds from there to the next entry. A turn
of the thermal loop first integrates, with the power that the `Update` before left
in `mC_th`, and only then asks for the average over the time just integrated
(`UpdateSystem`): `source` is that answer, as an energy over a duration, and the
next thermal substep uses it, however long it is. So the heat that reaches the
temperatures is not that of the period they are integrated over, and no
conservation of energy is stated. What the record has to get right over resets and
rollbacks is `SourceOfSurvivingRun`: the answer is the average of the sampled
powers of the surviving run over exactly the thermal substep just made.
`GeneratedHeatPassedOn`, that it is the heat generated in that time, is what
`simulation_cycle.md` says and is violated.

Every update of the electrical system (`UpdateSystemValues`) adds `current *
mDt` to the charge of each cell, whoever asks for it: a substep, but also a look
at the voltages after a change of the load, a skipped segment or a rollback.
`mDt` of the `StateSystemGroup` therefore is a variable: a substep counts its
duration and sets `mDt` to 0 behind it, so that the later updates count nothing.
`SocOfSurvivingRun` depends on that one line. The rejected attempts of the
adaptive solver (`try_step`) are abstracted to the choice of the substep that is
accepted at last.

### Rainflow

`Look` decides at each value whether it is a reversal. `CountingTurn` is one turn
of the loop of `countCycles` on the reversals it has read and not discarded;
positions take the place of iterators. Both loops are recursive functions, over
the positions and over at most two turns for each reversal, so that they can be
proved about. `TotalVariation` and `SpanOf` are the definitions that the counted
cycles are compared with.

### AgingSimulation

The main program around the coupling. `StartElectricalStep`, `ThermalStop` and
the other actions of `ThermalElectrical` are taken as they are and joined with
what the aging program does behind or in front of them: `CollectAgingData` after
each thermal step, `SetCollectAgingData` around the steady state cycles,
`StartNewCycle`, `DoAgingStep`, and `ResetThElSimulation` before the next aging
step. Each effect keeps its own clock and its own vectors with its own early
returns (`CollectData`, `UsesData`, `CalculateAging`). `mProfileLength` is state
here, as `DoAgingStep` reads what `SetCurrent` wrote. What the formulas make of
the samples is left out; the charge of a sample is any of `SocSamples`, the
cells run without a rate of their own (`rates` is `{0}`) so that the samples are
what varies. `aged` and `simulated` are ghost variables: the time each effect
has used, and the time that was simulated to be used.

### MPIThreadManager

The build of the same classes with `BOOST_MPI`. `root` and `worker[w]` are where
the root process and each other rank are; `scattered` and `gathered` hold the
data messages of the collective operations of a group, `ready` and `finish`
count the messages of tag 0 and tag 1 that are under way. MPI neither loses
messages nor lets two of the same pair and tag overtake each other. A wait for a
send may return at once or only when the message was received: both happen, as
the standard allows both. `IsCycleFinished` has MPI write into a local variable
of the call that posted the receive and returns that of the present call. What a
later call returns therefore is indeterminate once the message is there, and the
model takes both outcomes.

`AssignThreadsToTasks` is an operator here (`Distribute`; its two loops are the
recursive functions `Turn` over the turns and `Total`, `SumUpTo` over the
groups), with the arithmetic of `size_t` (`SizeT`): the sum of the maxima of an unlimited group and another one wraps
around, so that a program may be refused although its groups could take every
worker. `ThreadManager` uses the same function with one group, whose share is
all threads. The initial state has the groups' ranks already assigned; that the
number of processes suits the groups is `StartAssumption`.

Left out: `IsReady`, which nothing calls for MPI (once it has received a message
it would not leave its loop, and a receive that it leaves open would take a
message of the next call), and the serialization of the data. The build itself is
one that no build file of the repository switches on, and two `catch` handlers of
`mpiCommunicator.cpp` (lines 93 to 97 and 107 to 111) are no valid C++ today.

### Observer

A sample is the number of its observer call. `chain` is the linked list of
filters, `files` what was written; a file is its name, its samples and the
lengths of its rows. `Observe` is one call of the observer through the whole
chain, with the full file that a Matlab filter closes in it. `AddFilter` is one
turn of the creation, which opens (and empties) the file of its name;
`ResetThElSimulation` destroys the filters, which writes what they hold, and
creates them anew under names that count the aging steps. A rollback takes the
time back without telling the filters.

The model is that of the electrical observer. The thermal Matlab filter never
calls `InitializeMatrices`, so that its `mMatrixSizes` stays 0 and a file behind
a full one begins without rows; the variant `mMatrixSizesForgotten` is that
behaviour, and `RowsMatchTimes` is false under it.

## The runs

| Run | Shows |
|---|---|
| `threads_one_group` | the use of `performTest`: no race, no stale data, no flag leaks, the index of the optional work in range (part of `TypeOK`), cycles and shutdown end (`CallsReturn`), `ForkJoin` is implemented |
| `threads_two_groups` | **violation**: with two task groups a worker of the second computes its share of a task before that data is prepared |
| `threaded_for_loop` | every index exactly once, the pool rests between loops, `DoLoop` and the destructor return |
| `mpi` | no message is left over for the next cycle, results are of this cycle, threads are assigned within the limits of the groups, calls return, `ForkJoin` is implemented |
| `thermal_state` | the average is that of the powers that held; resets keep what still counts |
| `time_series` | value, durations and repetition of the profile under any order of calls |
| `coupling` | a repeated profile and one with voltage limits: both simulations cover the same period (`CoSimulation`), nothing is refused, the charge is that of the surviving run, the power handed to the thermal simulation is the average of its samples, the load is that of the profile, and the run ends having simulated the whole profile (`Terminates`); its `TypeOK` holds those of `TimeSeries` and `ThermalState` |
| `coupling_states` | **violation**: the rollback does not interpolate the state vector |
| `aging` | every simulated second ages the cell once, the samples stay in order, the counted cycles stand for the way of the charge, aging steps come in time and after the right number of cycles (`AgingStepsInTime`), the simulation ends |
| `aging_skips` | **violation**: a skipped segment overwrites the profile length, and the timestep that the effects are told is not the time they collected |
| `observers` | each sample is written once and in order, a decimation keeps what is far enough from the last kept sample, rows and times agree, files stay within their limit |
| `observers_csv` | **violation**: the CSV filter is not renamed for the next aging step and truncates what it wrote in the one before |

The violations are explained in `findings`. Four further disagreements that
instances of the modules show without a run of their own:

* `mNeedStop` is not initialised: with an arbitrary first value in `Init` of
  `ThreadManager` (`StopAtConstruction = {FALSE, TRUE}`) a worker leaves without
  a command.
* The power handed to the thermal simulation is not the heat of the step:
  `simulation_cycle.md` says "After each electrical step, the ohmic heat generation
  during the timestep is passed from the electrical to the thermal model", but the
  power of a substep is stored with the time of its end and holds from there on,
  so the first thermal substep behind the first electrical step is handed 0, and
  the power of a substep that is rolled back is never asked for, not even for the
  part that survives. `GeneratedHeatPassedOn` of `ThermalElectrical` is violated as
  an invariant of the instance of `coupling_states`.
* A profile from two vectors has no cycle length: `SpecFromVectors` of
  `TimeSeries` violates `NextCycleFollows`.
* After a skip of the last segment of a profile the whole next cycle runs under
  a stale load: options with `limits` and more than one cycle violate
  `ProfileFollowed`, which is why `LoadFollowsProfile` stops at the first cycle of
  such options.

### Bounds

* `threads_one_group`: three workers, of which one is left out by a task with a
  maximum of two; two tasks, so that the loops have a first and a last turn; two
  cycles, so that flags and data of a first cycle can reach a second one. One
  more cycle repeats the same states with other numbers. The proofs have no
  bound.
* `threads_two_groups`: a group of one worker and one of two. The workers of both
  have the indices 0 to 2, and `RunThreads` hands a group that index where the
  number of workers of a task is compared with it: of the second group worker 1
  takes its share and worker 2 skips it. `OnlyPreparedInput` counts no worker that
  skips. That nobody computes share 0 of the second group, and that the second
  wait at the first barrier never returns, are further consequences that the run
  does not need to reach.
* `threaded_for_loop`: three threads and up to seven iterations cover fewer
  iterations than threads, equal parts and unequal parts; two loops cover what a
  first loop leaves behind.
* `thermal_state`: three entries at five times place both ends of an interval
  before, on, between and behind entries.
* `time_series`: four values and a clock of three cycles.
* `coupling`: electrical steps of two time units with substeps of one or two, so
  that a rollback hits a sample, falls between samples and falls into the first
  or the last interval; a segment that is no multiple of a step; two cycles.
  `MaxTime` bounds the ghost variables; `TimesAssumption` asks of the instance
  that it is not smaller than the latest time of each of its `Options`, and
  `RunEndsInTime` proves that no clock gets behind that.
* `mpi`: three workers in two groups, so that a group has one and a group has two
  ranks; of the two tasks of the first group one takes a single worker; two
  cycles, so that a message of the first can meet the second. `SizeT = 16` makes
  the sum of an unlimited and a limited group overflow; the assignment is
  compared for limits up to 3 and unlimited ones, and up to 8 threads, more than
  two limited groups take.
* `observers`: a chain with a Matlab filter in front of a decimation by 2 and one
  behind it, and the decimation and the standard output that the programs append;
  full files after two samples, with a limit that is a multiple of the number of
  elements and one that is not; six samples fill more than one file between two
  recreations of the chain.
* `aging`: three profiles shorter than an aging step (with a steady state cycle,
  with one long cycle, and with segments that may be skipped) and one longer than
  two of them; two aging steps, so that what the first one leaves behind reaches
  the second one. Up to five samples of three charges are the smallest data in
  which rainflow counting meets full and half cycles, plateaus and ties.

`Nat` in place of `size_t` (but for the sums of `AssignThreadsToTasks`) and
integers in place of doubles are the remaining abstractions of data: no other
counter comes near its width, and times are only compared, added and subtracted.

### Fairness

* Threads: weak fairness for the steps of each thread and for the barriers. The
  operating system runs every thread that is not blocked. The program need not
  call `SendDataToThreads` again, but it calls `ReceiveDataFromThreads` behind it
  as `performTest` does, so that call is fair, too.
* `ThreadedForLoop`: the same, and nothing about the caller.
* MPI: every process runs, and every message arrives. The wait for a send is fair
  only when the message was received. Each task completes its optional work at
  some time (strong fairness), which `task.h` asks of it; a program that sent the
  data of a cycle calls `ReceiveDataFromThreads`.
* `Observer` and the profile have no liveness: their callers decide.
* Coupling: the program is sequential, weak fairness of its next step. That time
  advances by at least one unit per substep stands for the lower limit of the
  step control of the solvers.
* Aging: the same program with more calls, weak fairness of its next step.

## Proofs

TLAPS checks these for all values of the constants (`theorems` in
`PROJECT.json`):

* `ThreadManagerProofs`: type correctness and the range of the optional work's
  index for any number of groups; with one group also the absence of races,
  fresh data, exact flags, and the refinement of `ForkJoin`. The inductive
  invariant is `TypeOK /\ IInv`. `IInv` says where the workers are for each
  label of the main thread (`Phase`), what the flags are then (`Flags`), and
  which data is there (`Inputs`, `Outputs`). It is needed because the properties
  speak of single labels, and why no worker is in its work while the main thread
  prepares only follows from where all of them have been since the last barrier.
  `OneGroup` is an assumption of these theorems, and has to be: with two groups
  the properties are wrong.
* `ThreadedForLoopProofs`: the parts of the threads are a partition
  (`PartsCover`, `PartsDisjoint`, from the bounds of integer division), and from
  an invariant that relates the labels of all threads, `EveryIndexOnce` and
  `PoolRests`.

* `SimulationProofs`, the coupling: both simulations meet after each step
  (`SimulationsMeet`), no reset and no question for heat is refused
  (`CouplingNeverThrows`), the thermal simulation never outruns the record
  (`HeatIsRecorded`), and the coupling implements `CoSimulation`
  (`CoSimulationRefinement`). The inductive invariant is `ProfileType /\ IInv`:
  `Phases` says how far each simulation is at each label, `Recorded` what the
  record of heat covers at its beginning and at its end. It is needed because a
  reset at an early stop is refused by a comparison with samples that other
  actions appended and cut, and the heat by a comparison with a record that the
  beginning of a step and the last rollback erased from.
  `ChargeSurvives`: the charge after any number of steps and rollbacks is that of
  the surviving run. Its invariant `Charged` adds that each sample has the charge
  of the ghost run at its time, that the run has one rate between two samples, so
  that the interpolation of a rollback is exact; `CouplingType` has that `mDt` is
  0 between substeps, so that no other update counts a second time.
  `SourceSurvives`: the power that a thermal substep leaves for the next one is
  the average of the samples of the surviving run over the substep just made. Its
  invariant `Heated` says that the record is in order and that, from the thermal
  time on, the power it holds at a time is the latest sample of the ghost run
  (`Sampled`); what a reset erases and an early stop makes valid again is taken
  from the lemmas about the record, and `RecordedEnergyIsHeld` turns each answer
  into a sum over the time. It says nothing of the heat that was generated (see
  `GeneratedHeatPassedOn`).
  `RunEndsInTime`: a run is over by `LatestTime`, which the options tell
  beforehand. The invariant is `InSchedule`: where the cycle began, what is left of
  its profile, and which next change the load was told (`Changing`). Without skips
  a cycle takes exactly the profile. Under voltage limits a skip may move the end
  of the profile forward while the load still waits for a change of the cycle
  before (`Stale`); the skip that ends this takes the rest of the segment off a
  time that is behind it, which makes the cycle longer, by less than one profile.
  The theorems that speak of the ghost run need this, as it has no entries
  behind `MaxTime`.
  `CouplingTypeCorrect`: type correctness, which needs all of the invariants
  above: the charges and the power handed over are not negative because they come from the
  surviving run, the times are bounded because of the schedule, and the record of heat has
  at most as many entries as there are times because no two have the same one
  (`RecordTyped`).
  `LoadFollowsProfile` and `ProfileIsSimulated`: without voltage limits the load
  is that of the profile at every time, and a run that ends has simulated all of
  its cycles. The invariant (`Planned`, `Following`) relates the times of the
  profile, moved by the cycles before, to the index and the next change; without
  it nothing says that a change is met exactly and not stepped over. With voltage
  limits a skip of the last segment breaks it; there `LoadFollowsProfile` says the
  same of the first cycle, from a weaker invariant (`Underway`): however many
  segments are skipped, the times stay in order, the index is that of the last
  one to have come, and the load was set for it (`SkipFollows`).
* `SimulationProofs`, the aging program: the theorems of the coupling carried over to its use
  by the aging program. `TimeAgesOnce`: what each effect has used and what it has
  collected is the time that was simulated to be used. `SamplesAscend`: its
  samples have ascending times. This needs that the clock stays in front of the
  largest double, which stands for "no next change": `AgingEndsInTime` bounds it by
  the cycles of all aging steps, with the invariant `OnSchedule` that counts the
  cycles and the electrical step that an aging step may be late.
  `CyclesAreComplete`: in every state the cycles counted of the collected charges
  stand for their whole way and their span; it combines `Ordered` with the lemma
  `CyclesCounted` about every sequence of values (see `DataLemmas`).
  `AgingIsInTime`: a profile longer than an aging step is interrupted
  less than one electrical step late, and without voltage limits an aging step of
  a shorter one comes behind as many whole cycles as the options say, counted
  from the start. `AgingNeverThrows`: no reset is refused in
  spite of the recreated states. The invariant is `ProfileType`, `CouplingInv`
  (the invariant of the coupling, from its first observer call on),
  `Clocks`, `Collected`, `InTime` and `Cyclic`, and for the samples `Moves` and
  `Ordered`. `Cyclic` says that the profile was moved once for each cycle of all
  aging steps so far (`InCycle`); it needs `Following`, the invariant behind
  `LoadFollowsProfile`, since only a load that is set in time makes a cycle end
  at the last second of the profile.
* `MPIThreadManagerProofs`: the assignment gives every group between one and its
  maximum of ranks and never more than there are, whatever the groups
  (`AssignmentIsWithinLimits`): an induction over the groups for the sums and one
  over the turns for the threads that are left. Its hypothesis `MinimaFit` is
  that the sum of the maxima of limited groups stays below `SizeT`; the sum that
  the code takes for unlimited ones may wrap around, which only refuses a program.
  For any number of groups: type correctness, `NoMessageLeftOver`,
  `UseSeesThisCycle` and the refinement of `ForkJoin`, which needs no `OneGroup`
  here, as data and messages of a rank are its own and no flag is shared. The
  inductive invariant is `TypeInv /\ IInv`: `WorkerInv(w)` says for each label of
  the root where rank `w` can be and which of its messages are under way,
  `Counted` and `CollectedInv` what the counters of the root say of the ready
  messages it has received. It is needed because no message carries the number of
  its cycle: that none is left over only follows from where every rank can be.
* `ThermalStateProofs`: the record ascends (`Ascending`, inductive together with
  `TypeOK`), the reset at the beginning of a step keeps the power that holds then
  (`ResetForgetsNothing`), and a rollback leaves the past alone
  (`RollbackKeepsThePast`); together, no reset loses an entry that still counts
  (`ResetsForgetNothing`). `AverageIsExact`: an answer is the energy of the
  powers that held. The lemma behind it, `RecordedEnergyIsHeld`, needs no
  invariant but the order of the record: the searches find the entries around the
  interval (`SearchesOfRequest`), whose times cut it into pieces of one power
  each, and the sum of the pieces is that over the time (`SumOfPieces`). That
  lemma assumes no bound of an instance, so that `SourceSurvives` can use it.
* `TimeSeriesProofs`: type correctness, the value is that of the profile at the
  internal time (`ProfileIsEvaluated`), the rest of the profile keeps its
  durations (`RestIsNotShortened`), and cycles follow each other as planned
  (`CyclesFollow`). In the invariant `IInv`, `Order` says that skips keep the
  times in order and change no distance in front of the index, `Evaluated` where
  the index is against the internal time, and `Period` what the cycle length is;
  the skip preserves `Order` only because it always moves the index.
* `ObserverProofs`: type correctness, rows and times agree (`RowsAlwaysMatch`), no
  file is larger than its limit (`FilesStayBounded`), and a Matlab filter that no
  decimation precedes keeps each sample once and in order (`EverySampleKept`).
  The last one needs that the names in use ascend with the numbers of the files
  and the aging steps, since a file of the same name would be truncated. Behind
  one decimation exactly the samples are kept that are its delay away from the
  last kept one (`DecimationIsExact`). Its invariant `DecimationInv` adds that
  `mLastPassedTime` is the time of the last sample the Matlab filter keeps of this
  aging step, in its memory or in a file, and that a new chain, whose decimations
  remember nothing, is always one of an aging step without samples.

* `DataLemmas`: induction is stated there for a set of numbers that holds 0 and
  with each number the next one (`Induction`, `InductionTo`), from the
  well-foundedness of the natural numbers. With it, recursive functions exist and
  are what their equations say (`RecursionExists`), which gives the sums over
  groups, entries and time. The second half is about rainflow counting
  (`CyclesCounted`). The reversals keep the way of the values and hold all of them
  between their own (`Looked`, by induction over the positions). The turns keep
  `Counts`: what is counted plus the way along the reversals still in use is the
  way along those read so far, and no discarded value lies outside of the others.
  It needs that maxima and minima alternate also where a cycle was taken out
  (`Zigzag`), and that the ranges in use get smaller (`Falling`): a full cycle is
  covered on both sides, so that what is left around it is one range (`ZigFold`).
  Each turn makes the measure in `Progress` smaller until nothing is unread; then
  the first range in use is the widest, and is the span.

Assumptions: besides those on the options, `StreamsAssumption` says that `Lines`
turns a file into a sequence of lines that begins at 0. `TimesAssumption` and
`AgingTimesAssumption` say that the bounds `MaxTime` and `Infinity` are behind the
latest time of the options; in the program the second one is the largest double. `Lines` is a fold of the
community modules, whose definition goes through an operator as parameter and is
out of the provers' reach; TLC evaluates the assumption for the profiles of every
run. The proofs about `TimeSeries` are
about `Spec`, the profile from a file; for `SpecFromVectors` the last theorem is
wrong.

Only model-checked: everything about liveness (`CallsReturn`, `Terminates`,
`AgingTerminates`), which is out of the provers' reach.

## Plan

Done: the threads, the loop, the profile, the heat record, the coupling, the
aging simulation with rainflow counting, the assignment of threads, the processes
over MPI, and the filter chain of the observers, with proofs for all of them.
Left, in this order:

1. The C interface, step by step operation of the same classes from outside; it
   sets `mDt` itself and has no line that sets it back.
2. The cache of the factories, as a protocol of creation and cleaning.
3. `Soc`: the conversions, as soon as they can be stated without floating point.

Runs stay few: one passing run per component, small bounds, and one violating
run for each disagreement between code and documentation. A property that says
less than a newer one makes room for it.

## Not modelled

Numerical code (two ports, elements, geometry, lookup, matrices, the formulas of
the aging effects) is floating-point arithmetic without control of its own: an
integer model of it would not say anything about the program. File formats and
export, the XML parser, the symbolic mode (`_SYMBOLIC_`), Simulink code
generation, and the classes that build the tree of objects once. An exception
that leaves a task ends the process, which is all there is to say of it. The
tests and the benchmark are clients; the benchmark is used here as the typical
caller of the threads. The largest files of the repository are vendored
libraries (`exprtk`, `CLI11`, `tinyxml2`), tests and the factories' wrappers, so
that the code with state and control, which is what is modelled here, is a small
share of its lines. `components` in `PROJECT.json` gives the reason for each part.
