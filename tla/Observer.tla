------------------------------ MODULE Observer ------------------------------
(***************************************************************************)
(* The output of the electrical simulation (src/src/observer): the         *)
(* observer calls the first filter of its chain with every sample, a       *)
(* filter writes or drops it and calls the next one.  The Matlab filter    *)
(* collects samples and writes them when it is full or destroyed; the      *)
(* aging simulation destroys the chain after each aging step and creates   *)
(* it anew with other names.                                               *)
(*                                                                         *)
(* A sample is the number of its observer call, observed[i] says when that *)
(* was; what a matrix holds is abstracted to the lengths of its rows.      *)
(***************************************************************************)
EXTENDS Naturals, Sequences

CONSTANTS
  Filters,             \* filters of the XML file: sequence of [class, limit]; limit is
                       \* maxSampleSize of a MatlabFilter, TimeDelay of a DecimateFilter
  DefaultFilters,      \* filters InitializeSimulation appends
  NumberOfElements,    \* observed two ports
  Rows,                \* for each matrix of the Matlab filter the rows a sample is pushed to
  mMaxSimulationStepDuration,
  MaxTime,             \* bound of the time
  MaxSamples,          \* bound of the observer calls
  MaxAgingSteps        \* number of aging steps

Classes == {"MatlabFilter", "CSVFilter", "DecimateFilter", "StdoutFilter"}

AllFilters == Filters \o DefaultFilters

ASSUME FiltersAssumption ==
  /\ Filters \in Seq([class : Classes, limit : Nat])
  /\ DefaultFilters \in Seq([class : Classes, limit : Nat])
ASSUME ElementsAssumption == NumberOfElements \in Nat \ {0}
ASSUME RowsAssumption == \A m \in DOMAIN Rows : Rows[m] \subseteq 1..NumberOfElements
ASSUME BoundsAssumption ==
  /\ mMaxSimulationStepDuration \in Nat \ {0}
  /\ MaxTime \in Nat /\ MaxSamples \in Nat /\ MaxAgingSteps \in Nat \ {0}

VARIABLES
  pc,         \* "create", "run", "reset" or "ended"
  time,       \* mElectricalSimulation->mTime
  stepBegin,  \* where the current electrical step began
  agingStep,  \* the number setOutputFilenames wrote into the file names
  chain,      \* mFilterChain, each filter linked to the one behind it
  files,      \* the files that were written, by name
  observed    \* time and aging step of all observer calls so far

vars == <<pc, time, stepBegin, agingStep, chain, files, observed>>

Matrices == DOMAIN Rows

(***************************************************************************)
(* The Matlab filter.                                                      *)
(***************************************************************************)

\* std::numeric_limits< double >::lowest(), further away than any delay
Lowest == MaxTime + 1

\* Variant: PrepareFilter does not call InitializeMatrices (as in the thermal version)
mMatrixSizesForgotten == 0

\* the size PrepareFilter hands to InitializeMatrices, to which MaxSampleReached restores it
mMatrixSizes == NumberOfElements

Name(f) == [position |-> f.position, step |-> f.step, number |-> f.mCurrentCycle]

\* the names setOutputFilenames changes; the factory calls the other class CSVFilter
Renamed == {"MatlabFilter", "CsvFilter"}

NewFilter(k) ==
  [class |-> AllFilters[k].class,
   limit |-> AllFilters[k].limit,
   position |-> k,
   step |-> IF AllFilters[k].class \in Renamed THEN agingStep ELSE 0,
   mCurrentCycle |-> 0,
   mTime |-> <<>>,
   mSampleCounter |-> 0,
   rows |-> [m \in Matrices |-> [r \in 1..NumberOfElements |-> 0]],
   mLastPassedTime |-> Lowest]

Writes(f) == f.class \in {"MatlabFilter", "CSVFilter"}

\* push_back of a sample to mTime and to the rows of the matrices
MatlabPush(f, i) ==
  [f EXCEPT !.mTime = Append(@, i),
            !.mSampleCounter = @ + NumberOfElements,
            !.rows = [m \in Matrices |->
                       [r \in DOMAIN @[m] |-> @[m][r] + IF r \in Rows[m] THEN 1 ELSE 0]]]

\* WriteToDisk: the times and the rows; an empty row is erased, which leaves it its length 0
Written(f) == [name |-> Name(f), samples |-> f.mTime, rows |-> f.rows]

FilesOf(f) == IF f.mTime = <<>> \/ ~Writes(f) THEN {} ELSE {Written(f)}

\* Variant: the number of the file is not counted up
NextFileSameNumber(f) ==
  [f EXCEPT !.mTime = <<>>, !.mSampleCounter = 0,
            !.rows = [m \in Matrices |-> [r \in 1..mMatrixSizes |-> 0]]]

\* MaxSampleReached: a file with the next number, the matrices as InitializeMatrices left them
NextFile(f) ==
  [f EXCEPT !.mCurrentCycle = @ + 1,
            !.mTime = <<>>,
            !.mSampleCounter = 0,
            !.rows = [m \in Matrices |-> [r \in 1..mMatrixSizes |-> 0]]]

\* Mat_Create and std::ofstream truncate a file of that name
Without(fs, name) == {file \in fs : file.name # name}

\* Variant: > in place of >=
MaxSampleReachedTooLate(f) == f.class = "MatlabFilter" /\ f.mSampleCounter > f.limit

MaxSampleReached(f) == f.class = "MatlabFilter" /\ f.mSampleCounter >= f.limit

(***************************************************************************)
(* The chain.                                                              *)
(***************************************************************************)
Distance(s, t) == IF s >= t THEN s - t ELSE t - s

\* Variant: the difference without std::abs
PassesForwardOnly(f, t) ==
  f.class = "DecimateFilter" =>
    f.mLastPassedTime = Lowest \/ t >= f.mLastPassedTime + f.limit

Passes(f, t) ==
  f.class = "DecimateFilter" =>
    f.mLastPassedTime = Lowest \/ Distance(t, f.mLastPassedTime) >= f.limit

\* the filters a sample of time t arrives at
Reached(t) == {k \in DOMAIN chain : \A j \in 1..(k - 1) : Passes(chain[j], t)}

\* ProcessData of one filter, before a full file is closed
Processed(f, i, t) ==
  CASE f.class = "MatlabFilter" -> MatlabPush(f, i)
    [] f.class = "CSVFilter" -> [f EXCEPT !.mTime = Append(@, i)]
    [] f.class = "DecimateFilter" /\ Passes(f, t) -> [f EXCEPT !.mLastPassedTime = t]
    [] OTHER -> f

\* TwoPortObserver::operator()
Observe(t) ==
  LET i == Len(observed) + 1
      after == [k \in DOMAIN chain |->
                 IF k \in Reached(t) THEN Processed(chain[k], i, t) ELSE chain[k]]
      full == {k \in Reached(t) : MaxSampleReached(after[k])}
  IN  /\ observed' = Append(observed, [time |-> t, step |-> agingStep])
      /\ chain' = [k \in DOMAIN chain |-> IF k \in full THEN NextFile(after[k]) ELSE after[k]]
      /\ files' = {file \in files : \A k \in full :
                     file.name # Name(NextFile(after[k]))}
                    \cup UNION {FilesOf(after[k]) : k \in full}

(***************************************************************************)
(* The programs.                                                           *)
(***************************************************************************)
Init ==
  /\ pc = "create"
  /\ time = 0
  /\ stepBegin = 0
  /\ agingStep = 0
  /\ chain = <<>>
  /\ files = {}
  /\ observed = <<>>

\* one turn of CreateNewFilters, CreateTwoPortObserver or of InitializeSimulation's additions
AddFilter ==
  LET f == NewFilter(Len(chain) + 1)
  IN  /\ pc = "create"
      /\ Len(chain) < Len(AllFilters)
      /\ chain' = Append(chain, f)
      /\ files' = IF Writes(f) THEN Without(files, Name(f)) ELSE files
      /\ UNCHANGED <<pc, time, stepBegin, agingStep, observed>>

\* the initial observer call of InitializeSimulation
FirstObserverCall ==
  /\ pc = "create"
  /\ Len(chain) = Len(AllFilters)
  /\ Len(observed) < MaxSamples
  /\ pc' = "run"
  /\ stepBegin' = time
  /\ Observe(time)
  /\ UNCHANGED <<time, agingStep>>

\* Variant: the step does not restrict its last substep
SubstepTooLong(dt) ==
  /\ pc = "run"
  /\ Len(observed) < MaxSamples
  /\ time + dt <= MaxTime
  /\ stepBegin' \in {stepBegin, time}
  /\ time' = time + dt
  /\ Observe(time')
  /\ UNCHANGED <<pc, agingStep>>

\* one turn of DoElectricalStep, with StartNewTimeStep where the last step ended
Substep(dt) ==
  /\ pc = "run"
  /\ Len(observed) < MaxSamples
  /\ time + dt <= MaxTime
  /\ stepBegin' \in {stepBegin, time}
  /\ time + dt <= stepBegin' + mMaxSimulationStepDuration
  /\ time' = time + dt
  /\ Observe(time')
  /\ UNCHANGED <<pc, agingStep>>

\* ElectricalSimulation::ResetStatesToPointOfTime behind a thermal step that stopped early; the
\* observer is not told
ResetStatesToPointOfTime(t) ==
  /\ pc = "run"
  /\ stepBegin < t /\ t < time
  /\ time' = t
  /\ stepBegin' = t
  /\ UNCHANGED <<pc, agingStep, chain, files, observed>>

\* setOutputFilenames in front of an aging step; the filters keep the names they have
SetOutputFilenames ==
  /\ pc = "run"
  /\ agingStep < MaxAgingSteps
  /\ agingStep' = agingStep + 1
  /\ pc' = "reset"
  /\ UNCHANGED <<time, stepBegin, chain, files, observed>>

\* destructors of all filters
DestroyFilters ==
  /\ chain' = <<>>
  /\ files' = files \cup UNION {FilesOf(chain[k]) : k \in DOMAIN chain}

\* AgingStandalone::ResetThElSimulation, Observer::DeleteFilters
ResetThElSimulation ==
  /\ pc = "reset"
  /\ agingStep < MaxAgingSteps
  /\ pc' = "create"
  /\ DestroyFilters
  /\ UNCHANGED <<time, stepBegin, agingStep, observed>>

\* the end of the program: after the last aging step, or of a profile without aging steps
End ==
  /\ \/ pc = "reset" /\ agingStep = MaxAgingSteps
     \/ pc = "run" /\ agingStep = 0
  /\ pc' = "ended"
  /\ DestroyFilters
  /\ UNCHANGED <<time, stepBegin, agingStep, observed>>

Next ==
  \/ AddFilter
  \/ FirstObserverCall
  \/ \E dt \in 1..mMaxSimulationStepDuration : Substep(dt)
  \/ \E t \in 0..MaxTime : ResetStatesToPointOfTime(t)
  \/ SetOutputFilenames
  \/ ResetThElSimulation
  \/ End

Spec == Init /\ [][Next]_vars

-----------------------------------------------------------------------------
FilterType ==
  [class : Classes, limit : Nat, position : 1..Len(AllFilters), step : 0..MaxAgingSteps,
   mCurrentCycle : Nat, mTime : Seq(Nat), mSampleCounter : Nat,
   rows : [Matrices -> [1..NumberOfElements -> Nat]], mLastPassedTime : 0..Lowest]

FileType ==
  [name : [position : 1..Len(AllFilters), step : 0..MaxAgingSteps, number : Nat],
   samples : Seq(Nat), rows : [Matrices -> [1..NumberOfElements -> Nat]]]

\* Every variable keeps its type; the state of the filters and files of src/src/observer.
TypeOK ==
  /\ pc \in {"create", "run", "reset", "ended"}
  /\ time \in 0..MaxTime
  /\ stepBegin \in 0..time
  /\ time <= stepBegin + mMaxSimulationStepDuration
  /\ agingStep \in 0..MaxAgingSteps
  /\ chain \in Seq(FilterType)
  /\ Len(chain) <= Len(AllFilters)
  /\ files \subseteq FileType
  /\ observed \in Seq([time : 0..MaxTime, step : 0..MaxAgingSteps])

(***************************************************************************)
(* Properties.                                                             *)
(***************************************************************************)
Samples == DOMAIN observed

\* the filters that see every sample, and those behind one decimation
Undecimated == {k \in DOMAIN AllFilters : \A j \in 1..(k - 1) : AllFilters[j].class # "DecimateFilter"}
DecimatedBy(d) ==
  {k \in DOMAIN AllFilters :
     d < k /\ \A j \in 1..(k - 1) : AllFilters[j].class = "DecimateFilter" <=> j = d}

OfClass(class) == {k \in DOMAIN AllFilters : AllFilters[k].class = class}

\* the output of filter k: the files it wrote, and what it holds
Output(k) ==
  {[name |-> file.name, samples |-> file.samples] : file \in {g \in files : g.name.position = k}}
    \cup {[name |-> Name(chain[j]), samples |-> chain[j].mTime] : j \in {l \in DOMAIN chain : l = k}}

Kept(k) == UNION {{piece.samples[p] : p \in DOMAIN piece.samples} : piece \in Output(k)}

Earlier(a, b) == a.step < b.step \/ (a.step = b.step /\ a.number < b.number)

\* each piece of the output ascends, and a later file holds later samples
InOrder(k) ==
  \A f, g \in Output(k) : \A p \in DOMAIN f.samples, q \in DOMAIN g.samples :
    \/ Earlier(f.name, g.name) /\ f.samples[p] < g.samples[q]
    \/ Earlier(g.name, f.name) /\ g.samples[q] < f.samples[p]
    \/ f = g /\ (p < q <=> f.samples[p] < f.samples[q])

\* A Matlab filter in front of any decimation keeps each sample exactly once and in order,
\* over full files, aging steps, recreated filters, rollbacks and the end of the program.
\* (matlabFilter.h, WriteToDisk; xmlobserver.md: all simulation output is stored)
NothingLost ==
  \A k \in OfClass("MatlabFilter") \cap Undecimated :
    InOrder(k) /\ Samples \subseteq Kept(k)

\* The same of the CSV filter.
\* (createObserver.h: the filters are recreated to change the output filenames)
CSVNothingLost ==
  \A k \in OfClass("CSVFilter") \cap Undecimated : Samples \subseteq Kept(k)

\* Behind a decimation exactly those samples are kept whose time differs by its delay from
\* that of the last one kept by the same filter, also where time went back in between.
\* (decimatefilter.h, ProcessData)
DecimatedOutput ==
  \A d \in OfClass("DecimateFilter") :
    \A k \in OfClass("MatlabFilter") \cap DecimatedBy(d) : \A i \in Samples :
      LET before == {j \in Kept(k) : j < i /\ observed[j].step = observed[i].step}
      IN  i \in Kept(k) <=>
            \A j \in before :
              \/ \E l \in before : l > j
              \/ Distance(observed[j].time, observed[i].time) >= AllFilters[d].limit

\* the elements of a matrix have a value for each time, the others none
Match(rows, times) ==
  \A m \in Matrices : \A r \in 1..NumberOfElements :
    r \in DOMAIN rows[m] /\ rows[m][r] = IF r \in Rows[m] THEN Len(times) ELSE 0

\* In the files and in memory each matrix has the rows of the elements it is about, and each
\* of them a value for each time; the row the next sample is pushed to exists.
\* (matlabFilter.h: empty rows are removed, so the matrix sizes have to be restored)
RowsMatchTimes ==
  /\ \A file \in files :
       AllFilters[file.name.position].class = "MatlabFilter" => Match(file.rows, file.samples)
  /\ \A k \in DOMAIN chain :
       chain[k].class = "MatlabFilter" => Match(chain[k].rows, chain[k].mTime)

\* No Matlab file holds a sample more than it takes to reach the limit.
\* (xmlobserver.md: the maximum number of samples in one file can be controlled)
FilesBounded ==
  \A file \in files :
    LET f == AllFilters[file.name.position]
    IN  f.class = "MatlabFilter" =>
          Len(file.samples) = 1 \/ (Len(file.samples) - 1) * NumberOfElements < f.limit
=============================================================================
