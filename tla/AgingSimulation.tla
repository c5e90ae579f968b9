---------------------------- MODULE AgingSimulation ----------------------------
(***************************************************************************)
(* The main loop of src/standalone/agingSimulation.cpp around the coupled  *)
(* simulation of ThermalElectrical, and the data the aging effects collect *)
(* in it (src/src/aging).                                                  *)
(*                                                                         *)
(* A profile longer than an aging step is simulated once, with an aging    *)
(* step whenever its time has passed.  A shorter one is simulated a number *)
(* of cycles, the first of which may only reach the steady state; then the *)
(* aging is scaled up to the time of the aging step, and everything starts *)
(* again.  What an effect makes of its data is a number and left out, but  *)
(* for the cycles that the cyclical aging counts.                          *)
(***************************************************************************)
EXTENDS ThermalElectrical, Rainflow

CONSTANT SocSamples   \* states of charge an effect may find when it collects

ASSUME AgingOptionsAssumption ==
  /\ \A o \in Options :
       /\ o.mAgingStepTime \in Nat \ {0}
       /\ o.mAgingSteps \in Nat \ {0}
       /\ o.mSteadyStateCycles \in 0..(o.cycles - 1)   \* or ReadXmlOptions throws
       /\ o.mResetThElStates \in BOOLEAN
  /\ SocSamples \subseteq Nat /\ SocSamples # {}

\* the end of the last cycle of the last aging step, with what late skips add
LatestAgingTime(o) ==
  (o.mAgingSteps * o.cycles + 1) * ProfileEnd(o) + o.mAgingSteps * mMaxSimulationStepDuration

ASSUME AgingTimesAssumption == \A o \in Options : LatestAgingTime(o) < Infinity

Effects == {"calendarian", "cyclical", "overhang"}

VARIABLES
  mProfileLength,          \* of the standalone
  actualAgingStep,
  mTimeOfLastAgingStep,
  agingTime,               \* AgingSimulation::mTime
  mLastAgingDataTime,
  mCollectAgingData,
  mTimeSinceLastAgingStep, \* of each effect (mTotalCalculationTime of the overhang)
  mTimeValues,             \* of each effect
  mSocValues,              \* of the cyclical aging
  aged,                    \* ghost: the collected time that each effect has used
  simulated                \* ghost: the time simulated outside of steady state cycles

data == <<mTimeSinceLastAgingStep, mTimeValues, mSocValues>>
clocks == <<agingTime, mLastAgingDataTime, mCollectAgingData>>
agingVars == <<vars, mProfileLength, actualAgingStep, mTimeOfLastAgingStep, clocks, data, aged, simulated>>

AgingInit ==
  /\ Init
  /\ mProfileLength = Profile!GetMaxTime
  /\ actualAgingStep = 0
  /\ mTimeOfLastAgingStep = 0
  /\ agingTime = 0 /\ mLastAgingDataTime = 0 /\ mCollectAgingData = TRUE
  /\ mTimeSinceLastAgingStep = [e \in Effects |-> 0]
  /\ mTimeValues = [e \in Effects |-> <<>>]
  /\ mSocValues = <<>>
  /\ aged = [e \in Effects |-> 0]
  /\ simulated = 0

\* compared before the first step, with the length of the undisturbed profile
ProfileIsLonger == mCycleLength > options.mAgingStepTime

SteadyStateCycles == IF ProfileIsLonger THEN 0 ELSE options.mSteadyStateCycles

GetTimeSinceLastAgingStep == elTime - mTimeOfLastAgingStep

-----------------------------------------------------------------------------
\* mutant: the time of the last data is not reset
StartCollectingOnly ==
  /\ mCollectAgingData' = TRUE
  /\ UNCHANGED <<agingTime, mLastAgingDataTime>>

\* SetCollectAgingData( true )
StartCollecting ==
  /\ mCollectAgingData' = TRUE
  /\ mLastAgingDataTime' = agingTime
  /\ UNCHANGED agingTime

\* SetCollectAgingData( false )
StopCollecting ==
  /\ mCollectAgingData' = FALSE
  /\ UNCHANGED <<agingTime, mLastAgingDataTime>>

\* SetCurrent stores the new length of the profile when it skips a segment
SetCurrentAndLength ==
  /\ SetCurrent
  /\ mProfileLength' = IF elTime < mProfileChangeTime /\ IsStopElectricalCriterionFulfilled /\ Profile!HasNext
                       THEN Profile!GetMaxTime' ELSE mProfileLength

\* InitializeSimulation, at the start and in ResetThElSimulation, and the head
\* of the first of the calculation cycles
StartAgingStep ==
  /\ pc = "init"
  /\ pc' = "values"
  /\ SetCurrentAndLength
  /\ IF ProfileIsLonger THEN UNCHANGED clocks
     ELSE IF options.mSteadyStateCycles = 0 THEN StartCollecting ELSE StopCollecting
  /\ UNCHANGED <<cycle, elTime, states, mDt, steps, thermal, record, run,
                 actualAgingStep, mTimeOfLastAgingStep, data, aged, simulated>>

\* UpdateSystemValues of InitializeSimulation
InitialValues ==
  /\ pc = "values"
  /\ pc' = "cycle"
  /\ UpdateSystemValues(soc)
  /\ UNCHANGED <<cycle, profile, load, elTime, states, mDt, steps, thermal, record, run, mProfileLength,
                 actualAgingStep, mTimeOfLastAgingStep, clocks, data, aged, simulated>>

\* mutant: the inner loop goes on to the end of the profile
AgingStepDueAtEnd ==
  /\ pc = "cycle"
  /\ HasEnded
  /\ ProfileIsLonger \/ cycle + 1 = options.cycles

AgingStepDue ==
  /\ pc = "cycle"
  /\ IF ProfileIsLonger
     THEN GetTimeSinceLastAgingStep >= options.mAgingStepTime \/ HasEnded
     ELSE HasEnded /\ cycle + 1 = options.cycles

DoElectricalStep ==
  /\ \/ StartElectricalStep /\ ~AgingStepDue /\ SetCurrentAndLength
     \/ (ElectricalSubstep \/ EndElectricalStep) /\ UNCHANGED mProfileLength
  /\ UNCHANGED <<actualAgingStep, mTimeOfLastAgingStep, clocks, data, aged, simulated>>

\* CollectData of every effect; the calendarian one leaves out an empty step
CollectData(timestep) ==
  /\ mTimeSinceLastAgingStep' = [e \in Effects |-> mTimeSinceLastAgingStep[e] + timestep]
  /\ \E sample \in SocSamples :
       /\ mTimeValues' = [e \in Effects |->
                            IF e = "calendarian" /\ timestep = 0 THEN mTimeValues[e]
                            ELSE Append(mTimeValues[e], mTimeSinceLastAgingStep'[e])]
       /\ mSocValues' = Append(mSocValues, sample)

\* CollectAgingData of the standalone, behind each thermal step
CollectAgingData ==
  /\ agingTime' = elTime'
  /\ IF mCollectAgingData
     THEN CollectData(agingTime' - mLastAgingDataTime) /\ mLastAgingDataTime' = agingTime'
     ELSE UNCHANGED <<data, mLastAgingDataTime>>
  /\ UNCHANGED mCollectAgingData

DoThermalStep ==
  /\ \/ ThermalSubstep /\ UNCHANGED <<clocks, data, simulated>>
     \/ /\ EndThermalStep \/ ThermalStop
        /\ IF pc' = "error" THEN UNCHANGED <<clocks, data, simulated>>
           ELSE /\ CollectAgingData
                /\ simulated' = IF cycle >= SteadyStateCycles
                                THEN simulated + (elTime' - steps[1].time) ELSE simulated
  /\ UNCHANGED <<mProfileLength, actualAgingStep, mTimeOfLastAgingStep, aged>>

\* StartNewCycle behind a cycle that is not the last of the aging step
NextCalculationCycle ==
  /\ ~ProfileIsLonger
  /\ NextCycle
  /\ IF cycle' = options.mSteadyStateCycles THEN StartCollecting ELSE UNCHANGED clocks
  /\ UNCHANGED <<mProfileLength, actualAgingStep, mTimeOfLastAgingStep, data, aged, simulated>>

-----------------------------------------------------------------------------
(* DoAgingStep *)

\* the timestep that the effects are told
AgingTimestep == GetTimeSinceLastAgingStep - SteadyStateCycles * mProfileLength

\* the guards of CalculateAging; the effects are enabled
UsesData(e) ==
  CASE e = "calendarian" -> mTimeSinceLastAgingStep[e] > 0 /\ mTimeValues[e] # <<>>
    [] e = "cyclical"    -> Len(mSocValues) >= 2 /\ mTimeSinceLastAgingStep[e] # 0
    [] e = "overhang"    -> mTimeSinceLastAgingStep[e] > 0

\* mutant: the samples are cleared, their time is not
CalculateAgingKeepsTime ==
  /\ aged' = [e \in Effects |-> aged[e] + IF UsesData(e) THEN mTimeSinceLastAgingStep[e] ELSE 0]
  /\ mTimeValues' = [e \in Effects |-> IF UsesData(e) THEN <<>> ELSE mTimeValues[e]]
  /\ mSocValues' = IF UsesData("cyclical") THEN <<>> ELSE mSocValues
  /\ UNCHANGED mTimeSinceLastAgingStep

\* CalculateAging of every effect
CalculateAging ==
  /\ aged' = [e \in Effects |-> aged[e] + IF UsesData(e) THEN mTimeSinceLastAgingStep[e] ELSE 0]
  /\ mTimeSinceLastAgingStep' = [e \in Effects |-> IF UsesData(e) THEN 0 ELSE mTimeSinceLastAgingStep[e]]
  /\ mTimeValues' = [e \in Effects |-> IF UsesData(e) THEN <<>> ELSE mTimeValues[e]]
  /\ mSocValues' = IF UsesData("cyclical") THEN <<>> ELSE mSocValues

LastAgingStep == IF ProfileIsLonger THEN HasEnded ELSE actualAgingStep + 1 = options.mAgingSteps

\* mutant: the number of the cycle goes on
ResetThElSimulationOnly ==
  /\ pc' = "init"
  /\ IF options.mResetThElStates
     THEN states' = 0 /\ UpdateSystemValues(0)
     ELSE UNCHANGED <<states, soc, outOfLimits>>
  /\ Profile!StartNewCycle
  /\ mSimulationDuration' = Profile!GetMaxTime'
  /\ UNCHANGED <<options, cycle, mProfileChangeTime, current, elTime, mDt, steps>>

\* ResetThElStates and StartNewCycle; InitializeSimulation follows
ResetThElSimulation ==
  /\ pc' = "init"
  /\ cycle' = 0
  /\ IF options.mResetThElStates
     THEN states' = 0 /\ UpdateSystemValues(0)
     ELSE UNCHANGED <<states, soc, outOfLimits>>
  /\ Profile!StartNewCycle
  /\ mSimulationDuration' = Profile!GetMaxTime'
  /\ UNCHANGED <<options, mProfileChangeTime, current, elTime, mDt, steps>>

DoAgingStep ==
  /\ AgingStepDue
  /\ agingTime' = elTime
  /\ CalculateAging
  /\ mTimeOfLastAgingStep' = elTime
  /\ actualAgingStep' = actualAgingStep + 1
  /\ IF LastAgingStep THEN pc' = "done" /\ UNCHANGED <<cycle, profile, load, cell>>
     ELSE IF ProfileIsLonger THEN UNCHANGED <<pc, cycle, profile, load, cell>>
     ELSE ResetThElSimulation
  /\ UNCHANGED <<mProfileLength, mLastAgingDataTime, mCollectAgingData, thermal, record, run, simulated>>

AgingTerminated == pc \in {"done", "error"} /\ UNCHANGED agingVars

AgingStep ==
  \/ StartAgingStep \/ InitialValues
  \/ DoElectricalStep \/ DoThermalStep
  \/ NextCalculationCycle \/ DoAgingStep

AgingNext == AgingStep \/ AgingTerminated

AgingSpec == AgingInit /\ [][AgingNext]_agingVars

FairAgingSpec == AgingSpec /\ WF_agingVars(AgingStep)

-----------------------------------------------------------------------------
(* Properties *)

\* Every second that was simulated outside of the steady state cycles ages the
\* cell once: it was used in one aging step or waits for the next one, also when
\* rollbacks moved the clock back and an effect had too little data to use.
EverySecondAgesOnce ==
  pc # "error" => \A e \in Effects : aged[e] + mTimeSinceLastAgingStep[e] = simulated

\* The samples of an effect come in strictly ascending times up to the time it
\* has collected, one charge for each: the bisections of GetAverageValue and
\* ResetToPointInTime rely on it, and no cycle has the duration 0.
SamplesInOrder ==
  \A e \in Effects :
    LET times == mTimeValues[e]
    IN /\ \A i \in 1..(Len(times) - 1) : times[i] < times[i + 1]
       /\ mTimeSinceLastAgingStep[e] = IF times = <<>> THEN 0 ELSE Last(times)
       /\ e = "cyclical" => Len(mSocValues) = Len(times)

\* The cycles counted in an aging step stand for the whole way of the state of
\* charge, up and down, and the widest one for its span: what the cyclical aging
\* doubles "to get the integral over the absolute value of the current".
CyclesStandForTheCharge ==
  AgingStepDue /\ Len(mSocValues) >= 2 =>
    LET cycles == CountCycles(mSocValues)
    IN /\ CountedWay(cycles) = TotalVariation(mSocValues)
       /\ \E i \in DOMAIN cycles : cycles[i].depth = SpanOf(mSocValues)

\* The stress factors are "( alphaCap1 * timeStep1 + ... ) / totalCalculationTime"
\* (calendarian_aging.cpp): the timestep is the time that the samples cover.
TimestepIsTotalCalculationTime ==
  AgingStepDue => AgingTimestep = mTimeSinceLastAgingStep["calendarian"]

\* In a long profile "an aging step occurs every time the aging step time has
\* passed", late by less than one electrical step.
LongProfileInTime ==
  ProfileIsLonger => GetTimeSinceLastAgingStep < options.mAgingStepTime + mMaxSimulationStepDuration

\* A short profile "is simulated before each aging step" as often as the options
\* say, steady state cycles included.
CyclesBeforeAgingStep ==
  AgingStepDue /\ ~ProfileIsLonger /\ ~options.limits =>
    elTime = (actualAgingStep + 1) * options.cycles * mCycleLength

\* Aging steps come when the documentation says.
AgingStepsInTime == LongProfileInTime /\ CyclesBeforeAgingStep

\* The aging simulation comes to its end.
AgingTerminates == <>(pc = "done")
================================================================================
