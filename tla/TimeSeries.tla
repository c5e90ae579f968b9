------------------------------ MODULE TimeSeries ------------------------------
(***************************************************************************)
(* src/src/time_series: the load profile of a simulation, a TimeSeries     *)
(* with EvalNoInterpolation.  Value i holds from time i to time i + 1.     *)
(*                                                                         *)
(* The caller asks for the value at its own time, skips the rest of a      *)
(* segment when a cell leaves its voltage limits, and repeats the whole    *)
(* profile as often as the options say.  Indices start at 1; the scaling   *)
(* factors, which the simulations leave at 1, are left out.                *)
(***************************************************************************)
EXTENDS Integers, Sequences, SequencesExt, FiniteSetsExt

CONSTANTS
  Streams,       \* profile files: sequences of lines [time, value]
  Indeterminate, \* what an uninitialised double may hold
  Infinity,      \* the largest double
  MaxTime        \* bound: the caller's clock

VARIABLES
  mTimesData, mValuesData, mTimesDataInitial, mTime, mValue, mIndex, mCycleLength,
  now            \* the caller's clock, the time of its last call

series == <<mTimesData, mValuesData, mTimesDataInitial, mTime, mValue, mIndex, mCycleLength>>
vars == <<mTimesData, mValuesData, mTimesDataInitial, mTime, mValue, mIndex, mCycleLength, now>>

-----------------------------------------------------------------------------
\* CheckTimesValuesDataValidity; where it fails it throws
Valid(times) ==
  /\ times # <<>>
  /\ times[1] >= 0
  /\ \A i \in 1..(Len(times) - 1) : times[i] < times[i + 1]

\* The lines of a file as the constructor keeps them: a profile that does not
\* begin at 0 gets a first line, and a repeated line is dropped.
Lines(stream) ==
  LET Push(kept, line) == IF kept # <<>> /\ Last(kept) = line THEN kept ELSE Append(kept, line)
      start == IF stream # <<>> /\ Head(stream).time # 0 THEN <<[time |-> 0, value |-> 0]>> ELSE <<>>
  IN FoldLeft(Push, start, stream)

\* what the lines of a file hold; they begin at 0
ASSUME StreamsAssumption ==
  \A stream \in Streams :
    /\ Lines(stream) \in Seq([time : Int, value : Int])
    /\ Lines(stream) # <<>> => Head(Lines(stream)).time = 0

ASSUME ConstantsAssumption == MaxTime \in Nat

HasData(lines) ==
  /\ mTimesData = [i \in DOMAIN lines |-> lines[i].time]
  /\ mValuesData = [i \in DOMAIN lines |-> lines[i].value]
  /\ Valid(mTimesData)
  /\ mTimesDataInitial = mTimesData
  /\ mTime = 0
  /\ mIndex = 1
  /\ mValue = mValuesData[1]

\* the constructor that reads a file
ReadFrom(stream) ==
  /\ HasData(Lines(stream))
  /\ mCycleLength = Last(mTimesData)

Init ==
  /\ \E stream \in Streams : ReadFrom(stream)
  /\ now = 0

\* the constructor that takes two vectors, as for a profile in a .mat file,
\* does not set mCycleLength
InitFromVectors ==
  /\ \E stream \in Streams : HasData(stream)
  /\ mCycleLength \in Indeterminate
  /\ now = 0

GetMaxTime == Last(mTimesData)

\* mutant: a value begins behind its time
CurrentIndexBehind(times, from, time) ==
  Min({i \in from..Len(times) : i = Len(times) \/ time <= times[i + 1]})

\* the index LoopConditionForIndexIncrement stops at
CurrentIndex(times, from, time) ==
  Min({i \in from..Len(times) : i = Len(times) \/ time < times[i + 1]})

\* SetTimeAndTriggerEvaluation on the given times
Evaluate(times, time) ==
  /\ mTime' = time
  /\ mIndex' = CurrentIndex(times, mIndex, time)
  /\ mValue' = IF mIndex' # mIndex THEN mValuesData[mIndex'] ELSE mValue

SetTimeAndTriggerEvaluation(time) ==
  /\ Evaluate(mTimesData, time)
  /\ UNCHANGED <<mTimesData, mValuesData, mTimesDataInitial, mCycleLength>>

HasNext == mIndex < Len(mTimesData)

RemainingTimeInStep(time) == mTimesData[mIndex + 1] - time

\* mutant: only the next time is moved
MoveOnlyNext(time) ==
  /\ HasNext
  /\ mTimesData' = [mTimesData EXCEPT ![mIndex + 1] = @ - RemainingTimeInStep(time)]
  /\ Evaluate(mTimesData', time)
  /\ UNCHANGED <<mValuesData, mTimesDataInitial, mCycleLength>>

\* the successful call; without a next value it changes nothing
MoveToNextProfileValue(time) ==
  /\ HasNext
  /\ mTimesData' = [i \in DOMAIN mTimesData |->
                      IF i > mIndex THEN mTimesData[i] - RemainingTimeInStep(time) ELSE mTimesData[i]]
  /\ Evaluate(mTimesData', time)
  /\ UNCHANGED <<mValuesData, mTimesDataInitial, mCycleLength>>

\* mutant: the next cycle repeats the shortened times
StartNewCycleFromCurrent ==
  /\ mTimesData' = [i \in DOMAIN mTimesData |-> mTimesData[i] + mCycleLength]
  /\ Valid(mTimesData')
  /\ mTimesDataInitial' = mTimesData'
  /\ mTime' = 0
  /\ mIndex' = 1
  /\ mValue' = mValuesData[1]
  /\ UNCHANGED <<mValuesData, mCycleLength>>

StartNewCycle ==
  /\ mTimesData' = [i \in DOMAIN mTimesDataInitial |-> mTimesDataInitial[i] + mCycleLength]
  /\ Valid(mTimesData')
  /\ mTimesDataInitial' = mTimesData'
  /\ mTime' = 0
  /\ mIndex' = 1
  /\ mValue' = mValuesData[1]
  /\ UNCHANGED <<mValuesData, mCycleLength>>

\* GetTimeUntilMaxValueDeviation( 0 ): any next value deviates by at least 0
GetTimeUntilMaxValueDeviation == IF HasNext THEN mTimesData[mIndex + 1] ELSE Infinity

-----------------------------------------------------------------------------
(* The simulation as the caller *)

CallSetTime ==
  \E time \in now..MaxTime : SetTimeAndTriggerEvaluation(time) /\ now' = time

\* a skip happens only before the next value is due
CallMove ==
  /\ HasNext
  /\ \E time \in now..MaxTime :
       /\ mTimesData[mIndex] <= time /\ time < mTimesData[mIndex + 1]
       /\ MoveToNextProfileValue(time)
       /\ now' = time

CallStartNewCycle ==
  /\ now >= GetMaxTime
  /\ StartNewCycle
  /\ UNCHANGED now

Next == CallSetTime \/ CallMove \/ CallStartNewCycle

Spec == Init /\ [][Next]_vars
SpecFromVectors == InitFromVectors /\ [][Next]_vars

-----------------------------------------------------------------------------
(* Properties *)

\* Every variable holds a value of its type.
TypeOK ==
  /\ mTimesData \in Seq(Int) /\ mTimesData # <<>>
  /\ mValuesData \in [DOMAIN mTimesData -> Int]
  /\ mTimesDataInitial \in [DOMAIN mTimesData -> Int]
  /\ mTime \in 0..MaxTime /\ now \in 0..MaxTime
  /\ mIndex \in DOMAIN mTimesData
  /\ mValue \in Int
  /\ mCycleLength \in Int

\* the profile by definition: the last value whose time has come
ValueAt(time) == mValuesData[Max({1} \cup {i \in DOMAIN mTimesData : mTimesData[i] <= time})]

\* GetValue is the profile at the internal time, although the index only ever
\* moves forward and the value is only read when it moved, and although skips
\* change the times under it.
EvaluatesTheProfile == mValue = ValueAt(mTime)

\* A skip shortens the segment it leaves and no other one: the current segment
\* and all those still to come last as long as the profile says.
RestKeepsItsDurations ==
  \A i \in mIndex..(Len(mTimesData) - 1) :
    mTimesData[i + 1] - mTimesData[i] = mTimesDataInitial[i + 1] - mTimesDataInitial[i]

\* Skips of one cycle are forgotten in the next one: it is the profile of the
\* file, and it begins where the undisturbed profile ended ("automatically
\* repeated after the profile has ended", doxygen/aging_simulation.md).
NextCycleFollows ==
  [][StartNewCycle =>
       \A i \in DOMAIN mTimesData :
         mTimesData'[i] = Last(mTimesDataInitial) + (mTimesDataInitial[i] - mTimesDataInitial[1])]_vars
=============================================================================
