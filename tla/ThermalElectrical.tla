-------------------------- MODULE ThermalElectrical --------------------------
(***************************************************************************)
(* The main loop of src/standalone/thermalElectricalSimulation.cpp.        *)
(*                                                                         *)
(* The electrical simulation goes ahead by at most                         *)
(* mMaxSimulationStepDuration, under the load that the profile gives for   *)
(* the start of the step.  The thermal simulation follows over the same    *)
(* period with the recorded heat.  When a temperature has moved too far it *)
(* stops early, and the electrical simulation is interpolated back to that *)
(* time.  A cell that leaves its voltage limits ends the current segment   *)
(* of the profile.  Heat reaches the temperatures late: a thermal substep  *)
(* is integrated with the average power that was asked for at the end of   *)
(* the thermal substep before.                                             *)
(*                                                                         *)
(* One action is one call of the main loop or one turn of the loop of a    *)
(* step; nothing runs concurrently.  Times are integers and the step       *)
(* control of the solvers is free to take any substep.  One cell stands    *)
(* for all of them: in a substep its state and its charge move linearly,   *)
(* at a rate that depends on the pack and is chosen freely, and its power  *)
(* dissipation is that rate, so that the charge that flowed in a period is *)
(* also the heat that was generated in it.  The temperatures are left out, *)
(* but for their moving too far, which any substep may do.  The load       *)
(* `current' is the profile value it was set for.                          *)
(***************************************************************************)
EXTENDS Integers, Sequences, SequencesExt, FiniteSetsExt

CONSTANTS
  Options,        \* the simulations to look at: profile file (TimeSeries), profile type,
                  \* whether both operational cell voltages are given, number of
                  \* cycles, and the rates of the cell
  mVoltageLimitDelay,
  mMaxSimulationStepDuration,
  Infinity,       \* the largest double
  MaxTime         \* bound of the ghost variables, behind every reachable time

ASSUME OptionsAssumption ==
  \A o \in Options :
    /\ o.type \in {"current", "power"}
    /\ o.limits \in BOOLEAN
    /\ o.cycles \in Nat \ {0}
    /\ o.rates \subseteq Nat

ASSUME ConstantsAssumption ==
  /\ mVoltageLimitDelay \in Nat \ {0}
  /\ mMaxSimulationStepDuration \in Nat \ {0}
  /\ MaxTime \in Nat /\ Infinity \in Nat /\ Infinity > MaxTime

VARIABLES
  options,        \* one of Options, never changed
  pc,             \* where the main program is
  cycle,          \* actualCycleNumber
  mTimesData, mValuesData, mTimesDataInitial, mTime, mValue, mIndex, mCycleLength,
  mProfileChangeTime, mSimulationDuration,
  current,        \* the profile value that the load was set for
  elTime,         \* ElectricalSimulation::mTime
  states, soc,    \* of the cell
  outOfLimits,    \* the voltage of the cell is outside of its limits
  mDt,            \* of the StateSystemGroup: the time that an update charges the cell for
  steps,          \* mTimeSteps, mStatesSteps, mSocValuesSteps up to mNumberOfSteps
  thTime,         \* ThermalSimulation::mTime
  mLastTime,      \* time of the last Update of the thermal system
  tooHot,         \* a temperature moved too far in this thermal step
  mPowerDissipations, mFixedPowerDissipation,
  source,         \* power in mC_th of the thermal system, an average: energy over dt
  run             \* ghost: the electrical run without its undone parts.  total[t] is the
                  \* charge that flowed, and the heat that was generated, up to t, and
                  \* samples are the ends of its substeps, none before the last one
                  \* up to thTime

profile == <<options, mTimesData, mValuesData, mTimesDataInitial, mTime, mValue, mIndex, mCycleLength>>
load == <<mProfileChangeTime, mSimulationDuration, current>>
cell == <<elTime, states, soc, outOfLimits, mDt, steps>>
record == <<mPowerDissipations, mFixedPowerDissipation>>
thermal == <<thTime, tooHot, mLastTime, source>>
vars == <<options, pc, cycle, mTimesData, mValuesData, mTimesDataInitial, mTime, mValue, mIndex,
          mCycleLength, mProfileChangeTime, mSimulationDuration, current, elTime, states, soc,
          outOfLimits, mDt, steps, thTime, mLastTime, tooHot, mPowerDissipations,
          mFixedPowerDissipation, source, run>>

Profile == INSTANCE TimeSeries WITH
             now <- elTime, Streams <- {o.stream : o \in Options}, Indeterminate <- {}
Thermal == INSTANCE ThermalState WITH Power <- {0} \cup UNION {o.rates : o \in Options}, MaxEntries <- MaxTime + 1

\* what the lines of a file hold; they begin at 0
ASSUME StreamsAssumption ==
  \A o \in Options :
    /\ Profile!Lines(o.stream) \in Seq([time : Int, value : Int])
    /\ Profile!Lines(o.stream) # <<>> => Head(Profile!Lines(o.stream)).time = 0

\* the end of the undisturbed profile
ProfileEnd(o) == IF Profile!Lines(o.stream) = <<>> THEN 0 ELSE Last(Profile!Lines(o.stream)).time

\* A skip that is told the change of the cycle before comes late and makes its
\* cycle longer than the profile, by less than the length of the profile.
LatestTime(o) ==
  (o.cycles + IF o.limits /\ o.cycles > 1 THEN 1 ELSE 0) * ProfileEnd(o) + mMaxSimulationStepDuration

ASSUME TimesAssumption == \A o \in Options : LatestTime(o) <= MaxTime

-----------------------------------------------------------------------------
\* a new voltage may be outside of the limits, if there are any
Voltages == IF options.limits THEN BOOLEAN ELSE {FALSE}

\* CalculateStateDependentValues: besides its voltage, the cell gets the charge
\* that flowed in mDt, however often it is called
UpdateSystemValues(charge) ==
  /\ outOfLimits' \in Voltages
  /\ \E r \in options.rates : soc' = charge + r * mDt

Sample(time, x, s) == [time |-> time, states |-> x, soc |-> s]

\* the constructors, in which no current flows
Init ==
  /\ pc = "init"
  /\ cycle = 0
  /\ options \in Options
  /\ Profile!ReadFrom(options.stream)
  /\ mProfileChangeTime = 0
  /\ mSimulationDuration = Profile!GetMaxTime
  /\ current = 0
  /\ elTime = 0
  /\ states = 0 /\ soc = 0
  /\ outOfLimits \in Voltages
  /\ mDt = 0
  /\ steps = <<>>
  /\ thTime = 0 /\ mLastTime = 0 /\ tooHot = FALSE
  /\ Thermal!Init
  /\ source = [energy |-> 0, dt |-> 0]
  /\ run = [total |-> [t \in 0..MaxTime |-> 0], samples |-> {0}]

IsStopElectricalCriterionFulfilled ==
  /\ Len(steps) > mVoltageLimitDelay
  /\ options.limits
  /\ outOfLimits
  /\ current # 0

\* mutant: the step is measured from the current time
LoopStopFromNow == Min({elTime + mMaxSimulationStepDuration, mProfileChangeTime})

\* CheckLoopConditionAndSetDeltaTime of the electrical simulation: the end of the loop
LoopStopTime == Min({steps[1].time + mMaxSimulationStepDuration, mProfileChangeTime})

-----------------------------------------------------------------------------
(* SetCurrent *)

EvaluateProfile ==
  /\ elTime >= mProfileChangeTime
  /\ Profile!SetTimeAndTriggerEvaluation(elTime)
  /\ mProfileChangeTime' = Profile!GetTimeUntilMaxValueDeviation'
  /\ current' = mValue'
  /\ IF options.type = "power" THEN UpdateSystemValues(soc) ELSE UNCHANGED <<soc, outOfLimits>>
  /\ UNCHANGED <<options, mSimulationDuration>>

\* mutant: the time of the next change is not updated
SkipSegmentOnly ==
  /\ elTime < mProfileChangeTime
  /\ IsStopElectricalCriterionFulfilled
  /\ Profile!MoveToNextProfileValue(elTime)
  /\ mSimulationDuration' = Profile!GetMaxTime'
  /\ current' = mValue'
  /\ UpdateSystemValues(soc)
  /\ UNCHANGED <<options, mProfileChangeTime>>

SkipSegment ==
  /\ elTime < mProfileChangeTime
  /\ IsStopElectricalCriterionFulfilled
  /\ Profile!MoveToNextProfileValue(elTime)
  /\ mSimulationDuration' = Profile!GetMaxTime'
  /\ mProfileChangeTime' = Profile!GetTimeUntilMaxValueDeviation'
  /\ current' = mValue'
  /\ UpdateSystemValues(soc)
  /\ UNCHANGED options

\* a power profile sets the current for the voltage of the moment in every step
KeepValue ==
  /\ elTime < mProfileChangeTime
  /\ ~(IsStopElectricalCriterionFulfilled /\ Profile!HasNext)
  /\ IF options.type = "power"
     THEN current' = mValue /\ UpdateSystemValues(soc)
     ELSE UNCHANGED <<current, soc, outOfLimits>>
  /\ UNCHANGED <<profile, mProfileChangeTime, mSimulationDuration>>

SetCurrent == EvaluateProfile \/ SkipSegment \/ KeepValue

-----------------------------------------------------------------------------
(* The main loop *)

HasEnded == elTime >= mSimulationDuration

InitializeSimulation ==
  /\ pc = "init"
  /\ pc' = "cycle"
  /\ SetCurrent
  /\ UNCHANGED <<cycle, elTime, states, mDt, steps, thermal, record, run>>

\* DoElectricalStep up to its loop: SetCurrent and StartNewTimeStep
StartElectricalStep ==
  /\ pc = "cycle"
  /\ ~HasEnded
  /\ pc' = "electrical"
  /\ SetCurrent
  /\ Thermal!ResetPowerDissipation
  /\ steps' = <<Sample(elTime, states, soc')>>
  /\ UNCHANGED <<cycle, elTime, states, mDt, thermal, run>>

\* the electrical run goes on to the new time, at one rate
RunGoesOn(r) ==
  run' = [total   |-> [t \in 0..MaxTime |->
                         IF t \in elTime..elTime' THEN run.total[elTime] + r * (t - elTime) ELSE run.total[t]],
          samples |-> run.samples \cup {elTime'}]

\* samples that no later thermal substep asks for are dropped
RunIsFollowed ==
  run' = [run EXCEPT !.samples = {s \in @ : \A x \in @ : x <= thTime' => x <= s}]

\* the electrical run ends at the thermal time
RunIsCut ==
  run' = [total   |-> [t \in 0..MaxTime |-> IF t <= thTime THEN run.total[t] ELSE 0],
          samples |-> {s \in run.samples : s <= thTime}]

\* mutant: mDt keeps the length of the substep
ElectricalSubstepKeepsDt ==
  /\ pc = "electrical"
  /\ ~IsStopElectricalCriterionFulfilled
  /\ \E d \in 1..(LoopStopTime - elTime), r \in options.rates :
       /\ elTime' = elTime + d
       /\ states' = states + r * d
       /\ soc' = soc + r * d
       /\ Thermal!AddPowerDissipation(r, elTime')
       /\ steps' = Append(steps, Sample(elTime', states', soc'))
       /\ RunGoesOn(r)
  /\ mDt' = elTime' - elTime
  /\ outOfLimits' \in Voltages
  /\ UNCHANGED <<pc, cycle, profile, load, thermal>>

\* one turn of the loop: UpdateSystemValues with the length of the substep in mDt,
\* then mDt is 0, which "prevents SOCs from changing when calling
\* UpdateSystemValues multiple times"
ElectricalSubstep ==
  /\ pc = "electrical"
  /\ ~IsStopElectricalCriterionFulfilled
  /\ \E d \in 1..(LoopStopTime - elTime), r \in options.rates :
       /\ elTime' = elTime + d
       /\ states' = states + r * d
       /\ soc' = soc + r * d
       /\ Thermal!AddPowerDissipation(r, elTime')
       /\ steps' = Append(steps, Sample(elTime', states', soc'))
       /\ RunGoesOn(r)
  /\ mDt' = 0
  /\ outOfLimits' \in Voltages
  /\ UNCHANGED <<pc, cycle, profile, load, thermal>>

\* mutant: the stop criterion is not initialised
EndElectricalStepUninitialized ==
  /\ pc = "electrical"
  /\ elTime >= LoopStopTime \/ IsStopElectricalCriterionFulfilled \/ Len(steps) > 1
  /\ pc' = "thermal"
  /\ UNCHANGED <<cycle, profile, load, cell, record, thermal, run>>

\* The loop ends at LoopStopTime, at the voltage limits, or behind any substep
\* if the charge or the power has moved too far (IsStopThermalCriterionFulfilled).
\* The thermal step begins with InitializeStopCriterion.
EndElectricalStep ==
  /\ pc = "electrical"
  /\ elTime >= LoopStopTime \/ IsStopElectricalCriterionFulfilled \/ Len(steps) > 1
  /\ pc' = "thermal"
  /\ tooHot' = FALSE
  /\ UNCHANGED <<cycle, profile, load, cell, record, thTime, mLastTime, source, run>>

\* mutant: the time of the update is not kept, the next one asks for all since then
UpdateSystemFromLast ==
  LET dt == thTime' - mLastTime
  IN IF Thermal!Accepts(thTime', dt)
     THEN /\ source' = [energy |-> Thermal!EnergyTaken(thTime', dt), dt |-> dt]
          /\ UNCHANGED <<pc, mLastTime>>
     ELSE pc' = "error" /\ UNCHANGED <<mLastTime, source>>

\* asks for the power since the last update, for the substeps to come, or throws
UpdateSystem ==
  LET dt == thTime' - mLastTime
  IN IF Thermal!Accepts(thTime', dt)
     THEN /\ source' = [energy |-> Thermal!EnergyTaken(thTime', dt), dt |-> dt]
          /\ mLastTime' = thTime'
          /\ UNCHANGED pc
     ELSE pc' = "error" /\ UNCHANGED <<mLastTime, source>>

\* One turn of the loop of DoThermalStep: the solver integrates with the source
\* as it is, so a temperature may move too far, and UpdateSystem comes behind it.
ThermalSubstep ==
  /\ pc = "thermal"
  /\ ~tooHot
  /\ \E d \in 1..(elTime - thTime) : thTime' = thTime + d
  /\ tooHot' \in BOOLEAN
  /\ UpdateSystem
  /\ RunIsFollowed
  /\ UNCHANGED <<cycle, profile, load, cell, record>>

EndThermalStep ==
  /\ pc = "thermal"
  /\ thTime >= elTime
  /\ pc' = "cycle"
  /\ UNCHANGED <<cycle, profile, load, cell, record, thermal, run>>

-----------------------------------------------------------------------------
(* ResetStatesToPointOfTime *)

RefusesReset(time) == time <= steps[1].time \/ time > Last(steps).time \/ Len(steps) < 2

\* the last sample that is not behind time
IndexBefore(time) == Min({i \in 2..Len(steps) : steps[i].time > time}) - 1

\* x1 at factor1 and x2 at factor2, the distances of time from the two samples
Scaled(i, time, x1, x2) ==
  (x1 * (steps[i + 1].time - time) + x2 * (time - steps[i].time))
     \div (steps[i + 1].time - steps[i].time)

\* mutant: the charge of the sample before is taken, not the interpolated one
ResetToSampleBefore(time) ==
  LET i == IndexBefore(time)
  IN /\ elTime' = time
     /\ states' = Scaled(i, time, steps[i].states, steps[i].states)
     /\ UpdateSystemValues(soc + (steps[i].soc - Last(steps).soc))
     /\ Thermal!ResetPowerDissipationToTime(time)
     /\ UNCHANGED <<mDt, steps>>

\* mutant: the heat of the undone part stays in the record
ResetKeepsHeat(time) ==
  LET i == IndexBefore(time)
  IN /\ elTime' = time
     /\ states' = Scaled(i, time, steps[i].states, steps[i].states)
     /\ UpdateSystemValues(soc + (Scaled(i, time, steps[i].soc, steps[i + 1].soc) - Last(steps).soc))
     /\ UNCHANGED <<mDt, steps, record>>

\* The state vector is scaled between one and the same sample (line 499); the
\* charge is corrected by its distance from the last sample.
ResetStatesToPointOfTime(time) ==
  LET i == IndexBefore(time)
  IN /\ elTime' = time
     /\ states' = Scaled(i, time, steps[i].states, steps[i].states)
     /\ UpdateSystemValues(soc + (Scaled(i, time, steps[i].soc, steps[i + 1].soc) - Last(steps).soc))
     /\ Thermal!ResetPowerDissipationToTime(time)
     /\ UNCHANGED <<mDt, steps>>

ThermalStop ==
  /\ pc = "thermal"
  /\ tooHot
  /\ thTime < elTime
  /\ IF RefusesReset(thTime)
     THEN pc' = "error" /\ UNCHANGED <<cell, record, run>>
     ELSE /\ pc' = "cycle"
          /\ ResetStatesToPointOfTime(thTime)
          /\ RunIsCut
  /\ UNCHANGED <<cycle, profile, load, thermal>>

\* mutant: the duration of the simulation is not updated
NextCycleSameDuration ==
  /\ pc = "cycle"
  /\ HasEnded
  /\ cycle + 1 < options.cycles
  /\ cycle' = cycle + 1
  /\ Profile!StartNewCycle
  /\ UNCHANGED <<options, pc, load, cell, record, thermal, run>>

NextCycle ==
  /\ pc = "cycle"
  /\ HasEnded
  /\ cycle + 1 < options.cycles
  /\ cycle' = cycle + 1
  /\ Profile!StartNewCycle
  /\ mSimulationDuration' = Profile!GetMaxTime'
  /\ UNCHANGED <<options, pc, mProfileChangeTime, current, cell, record, thermal, run>>

Finish ==
  /\ pc = "cycle"
  /\ HasEnded
  /\ cycle + 1 = options.cycles
  /\ pc' = "done"
  /\ UNCHANGED <<cycle, profile, load, cell, record, thermal, run>>

\* an exception ends the program, too
Terminated == pc \in {"done", "error"} /\ UNCHANGED vars

Step ==
  \/ InitializeSimulation
  \/ StartElectricalStep \/ ElectricalSubstep \/ EndElectricalStep
  \/ ThermalSubstep \/ EndThermalStep \/ ThermalStop
  \/ NextCycle \/ Finish

Next == Step \/ Terminated

Spec == Init /\ [][Next]_vars

\* a sequential program goes on
FairSpec == Spec /\ WF_vars(Step)

-----------------------------------------------------------------------------
(* Properties *)

\* Every variable of the coupling holds a value of its type, the profile and the record of heat included.
TypeOK ==
  /\ options \in Options
  /\ pc \in {"init", "cycle", "electrical", "thermal", "done", "error"}
  /\ cycle \in 0..(options.cycles - 1)
  /\ elTime \in 0..MaxTime /\ thTime \in 0..MaxTime /\ mLastTime \in 0..MaxTime
  /\ states \in Nat /\ soc \in Nat
  /\ source \in [energy : Nat, dt : 0..MaxTime]
  /\ mDt \in 0..mMaxSimulationStepDuration
  /\ outOfLimits \in BOOLEAN /\ tooHot \in BOOLEAN
  /\ mProfileChangeTime \in 0..MaxTime \cup {Infinity}
  /\ mSimulationDuration \in 0..MaxTime
  /\ Profile!TypeOK
  /\ Thermal!TypeOK

\* When one of the two simulations is asked again, both have simulated the
\* same period: "the thermal model is simulated for exactly the same period".
TimesMeet == pc \in {"cycle", "done"} => elTime = thTime

\* Neither ResetStatesToPointOfTime nor GetPowerDissipation ever throws: a
\* thermal step that stops early stops strictly inside of the electrical step
\* whose samples are still there, and the record of the heat reaches back to
\* the thermal time, whatever was erased from it.
NeverThrows == pc # "error"

\* The thermal simulation is never behind the last entry of the record when it
\* asks for heat, where it would be told wrong (AverageOfHeldValues in ThermalState).
RecordNotOutrun == pc = "thermal" /\ thTime < elTime => thTime < Thermal!LastTime

\* The power that was measured at the end of the last substep of the surviving
\* run up to t, taken to hold until the end of the next one.
SampledPower(t) ==
  LET s == Max({x \in run.samples : x <= t})
  IN IF s = 0 THEN 0 ELSE run.total[s] - run.total[s - 1]

\* After every thermal substep, the power that the next one is integrated with
\* is the average of what was sampled from the surviving run over the substep
\* just made: no sample of an undone part counts, none is lost that the resets
\* of the record should have kept, and no time is asked for twice or left out.
\* Samples hold from the end of their substep, so this is not the heat that was
\* generated in that time (GeneratedHeatPassedOn).
SourceOfSurvivingRun ==
  [][thTime' # thTime =>
       LET dt == thTime' - thTime
           sampled == [t \in thTime..(thTime' - 1) |-> SampledPower(t)]
       IN source' = [energy |-> Thermal!SumOf(sampled, thTime, dt), dt |-> dt]]_vars

\* "After each electrical step, the ohmic heat generation during the timestep is
\* passed from the electrical to the thermal model" (simulation_cycle.md): the
\* power handed over is the heat generated in its interval.  It is not: a power
\* counts from the end of its substep on, and the power of the last substep
\* before a rollback not at all.
GeneratedHeatPassedOn == source.energy = run.total[thTime] - run.total[thTime - source.dt]

\* The charge is that of the surviving run, also where a rollback interpolated it.
SocOfSurvivingRun == soc = run.total[elTime]

\* So are the states, as the comment above the interpolation says.
StatesOfSurvivingRun == states = run.total[elTime]

\* "For each timestep of the electrical model, the profile is evaluated at the
\* current time and the current is set" (simulation_cycle.md): the load of every
\* simulated time of a cycle is that of the profile, whatever rollbacks and
\* skipped segments came before.
ProfileFollowed ==
  pc \in {"electrical", "thermal"} =>
    \A t \in steps[1].time..(elTime - 1) :
      mTimesData[1] <= t => current = Profile!ValueAt(t)

\* Without voltage limits the run is over when the profile was simulated
\* as often as the options say, to the second.
WholeProfile ==
  pc = "done" /\ ~options.limits => elTime = options.cycles * mCycleLength /\ elTime = Last(mTimesData)

\* The run comes to its end, at the time the profile says; the rollbacks cannot hold it up for ever.
Terminates == <>(pc = "done" /\ WholeProfile)

\* The coupling implements the abstract co-simulation.
Co == INSTANCE CoSimulation WITH
        MaxStep <- mMaxSimulationStepDuration,
        turn <- IF pc = "thermal" THEN "follower" ELSE "leader",
        start <- IF steps = <<>> THEN 0 ELSE steps[1].time,
        leader <- elTime,
        follower <- thTime

ImplementsCoSimulation == Co!Spec
=============================================================================
