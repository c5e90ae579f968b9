-------------------------- MODULE SimulationProofs --------------------------
(***************************************************************************)
(* Proofs about ThermalElectrical and AgingSimulation, for every profile,  *)
(* number of cycles and of aging steps, rate of the cell and length of a   *)
(* step, and for every choice of substeps, rollbacks and skipped segments. *)
(*                                                                         *)
(* The first part is about the coupled simulation: it implements the       *)
(* co-simulation, neither of its halves refuses what the other one asks of *)
(* it, and the charge, the load and the sampled powers are those of the    *)
(* surviving run.  The second part uses its facts action by action: the    *)
(* aging program takes the same steps in between its own.                  *)
(***************************************************************************)
EXTENDS AgingSimulation, DataLemmas, SequenceTheorems, TLAPS

-----------------------------------------------------------------------------
(* The inductive invariant. *)

SampleOfCell == [time : Nat, states : Int, soc : Int]
EntryOfHeat == [value : Int, time : Nat]

\* what the search and the times of the profile are made of
ProfileType ==
  /\ options \in Options
  /\ mTimesData \in Seq(Int) /\ mTimesData # <<>>
  /\ mTimesDataInitial \in Seq(Int) /\ DOMAIN mTimesDataInitial = DOMAIN mTimesData
  /\ mCycleLength \in Int
  /\ mIndex \in 1..Len(mTimesData)
  /\ mProfileChangeTime \in Int

CouplingType ==
  /\ pc \in {"init", "cycle", "electrical", "thermal", "done", "error"}
  /\ elTime \in Nat /\ thTime \in Nat
  /\ states \in Int /\ soc \in Int /\ mDt = 0
  /\ steps \in Seq(SampleOfCell)
  /\ mPowerDissipations \in Seq(EntryOfHeat)

\* how far the simulations are
Phases ==
  /\ pc = "init" => elTime = 0 /\ steps = <<>>
  /\ pc \in {"init", "cycle", "done"} => thTime = elTime
  /\ pc \in {"electrical", "thermal"} => steps # <<>> /\ Last(steps).time = elTime
  /\ pc = "electrical" => thTime = steps[1].time /\ thTime <= elTime
  /\ pc = "thermal" => /\ steps[1].time <= thTime /\ thTime <= elTime
                       /\ tooHot => steps[1].time < thTime
  /\ pc # "error"

\* what the record of the heat reaches, and from where on it is asked for
Recorded ==
  /\ mPowerDissipations # <<>>
  /\ mPowerDissipations[1].time <= thTime
  /\ mLastTime = thTime
  /\ \A i \in 1..Len(mPowerDissipations) : mPowerDissipations[i].time <= elTime
  /\ pc \in {"electrical", "thermal"} /\ Len(steps) >= 2 => Last(mPowerDissipations).time = elTime

IInv == CouplingType /\ Phases /\ Recorded

-----------------------------------------------------------------------------
(* The profile. *)

LEMMA InitProfile == Init => ProfileType
<1> SUFFICES ASSUME Init PROVE ProfileType
  OBVIOUS
<1> DEFINE lines == Profile!Lines(options.stream)
<1>1. options \in Options /\ Profile!ReadFrom(options.stream) /\ mProfileChangeTime = 0
  BY DEF Init
<1>2. lines \in Seq([time : Int, value : Int])
  BY <1>1, StreamsAssumption
<1>3. Profile!HasData(lines) /\ mCycleLength = Last(mTimesData)
  BY <1>1 DEF Profile!ReadFrom, Profile!Last, Last
<1> HIDE DEF lines
<1>4. mTimesData = [i \in DOMAIN lines |-> lines[i].time] /\ Profile!Valid(mTimesData)
      /\ mTimesDataInitial = mTimesData /\ mIndex = 1
  BY <1>3 DEF Profile!HasData
<1>5. mTimesData \in Seq(Int)
  <2>1. Len(lines) \in Nat /\ DOMAIN lines = 1..Len(lines)
    BY <1>2, LenProperties
  <2>2. \A i \in 1..Len(lines) : lines[i].time \in Int
    <3>1. TAKE i \in 1..Len(lines)
    <3>2. lines[i] \in [time : Int, value : Int]
      BY <1>2, ElementOfSeq
    <3>3. QED BY <3>2
  <2>4. mTimesData \in [1..Len(lines) -> Int]
    BY <1>4, <2>1, <2>2
  <2>5. QED BY <2>1, <2>4, FunctionIsSequence
<1>6. mTimesData # <<>>
  BY <1>4 DEF Profile!Valid
<1>7. Len(mTimesData) \in Nat /\ 1 \in 1..Len(mTimesData) /\ Last(mTimesData) \in Int
  BY <1>5, <1>6 DEF Last
<1>8. QED BY <1>1, <1>3, <1>4, <1>5, <1>6, <1>7 DEF ProfileType

\* the search of the index ends in front of the first time that has not come yet
LEMMA IndexFacts ==
  ASSUME NEW times \in Seq(Int), NEW from \in 1..Len(times), NEW time \in Int
  PROVE  LET k == Profile!CurrentIndex(times, from, time)
         IN /\ k \in 1..Len(times) /\ k \in from..Len(times)
            /\ k = Len(times) \/ time < times[k + 1]
            /\ k # from => times[k] <= time
<1> DEFINE k == Profile!CurrentIndex(times, from, time)
<1>1. k = Min({i \in from..Len(times) : i = Len(times) \/ time < times[i + 1]})
  BY DEF Profile!CurrentIndex, Profile!Min, Min
<1> HIDE DEF k
<1>2. k \in from..Len(times) /\ (k = Len(times) \/ time < times[k + 1]) /\ (k # from => times[k] <= time)
  BY <1>1, FirstToCome
<1>3. k \in 1..Len(times)
  BY <1>2, LenProperties
<1>4. QED BY <1>2, <1>3 DEF k

LEMMA ChangeTimeType ==
  ASSUME mTimesData' \in Seq(Int), mIndex' \in 1..Len(mTimesData')
  PROVE  (Profile!GetTimeUntilMaxValueDeviation)' \in Int
<1>1. Infinity \in Int
  BY ConstantsAssumption
<1>2. QED BY <1>1 DEF Profile!GetTimeUntilMaxValueDeviation, Profile!HasNext

LEMMA SetCurrentProfile == ProfileType /\ elTime \in Nat /\ SetCurrent => ProfileType'
<1> SUFFICES ASSUME ProfileType, elTime \in Nat, SetCurrent PROVE ProfileType'
  OBVIOUS
<1> USE DEF ProfileType
<1>1. CASE EvaluateProfile
  <2>1. UNCHANGED <<options, mTimesData, mTimesDataInitial, mCycleLength>>
    BY <1>1 DEF EvaluateProfile, Profile!SetTimeAndTriggerEvaluation
  <2>2. mIndex' = Profile!CurrentIndex(mTimesData, mIndex, elTime)
    BY <1>1 DEF EvaluateProfile, Profile!SetTimeAndTriggerEvaluation, Profile!Evaluate
  <2>3. mIndex' \in 1..Len(mTimesData)
    BY <2>2, IndexFacts
  <2>4. mProfileChangeTime' \in Int
    BY <1>1, <2>1, <2>3, ChangeTimeType DEF EvaluateProfile
  <2>5. QED BY <2>1, <2>3, <2>4
<1>2. CASE SkipSegment
  <2> DEFINE moved == [i \in DOMAIN mTimesData |->
                         IF i > mIndex THEN mTimesData[i] - Profile!RemainingTimeInStep(elTime) ELSE mTimesData[i]]
  <2>1. UNCHANGED <<options, mTimesDataInitial, mCycleLength>> /\ mTimesData' = moved
    BY <1>2 DEF SkipSegment, Profile!MoveToNextProfileValue
  <2>2. moved \in Seq(Int) /\ Len(moved) = Len(mTimesData)
    <3>1. Len(mTimesData) \in Nat /\ DOMAIN mTimesData = 1..Len(mTimesData)
      BY LenProperties
    <3>2. moved \in [1..Len(mTimesData) -> Int]
      BY <3>1, SMTT(30) DEF Profile!RemainingTimeInStep
    <3> HIDE DEF moved
    <3>3. QED BY <3>1, <3>2, FunctionIsSequence
  <2>3. mIndex' = Profile!CurrentIndex(mTimesData', mIndex, elTime)
    BY <1>2 DEF SkipSegment, Profile!MoveToNextProfileValue, Profile!Evaluate
  <2> HIDE DEF moved
  <2>4. mIndex' \in 1..Len(mTimesData')
    BY <2>1, <2>2, <2>3, IndexFacts
  <2>5. mProfileChangeTime' \in Int
    BY <1>2, <2>1, <2>2, <2>4, ChangeTimeType DEF SkipSegment
  <2>6. QED BY <2>1, <2>2, <2>4, <2>5
<1>3. CASE KeepValue
  BY <1>3 DEF KeepValue, profile
<1>4. QED BY <1>1, <1>2, <1>3 DEF SetCurrent

LEMMA NewCycleProfile ==
  ASSUME ProfileType, Profile!StartNewCycle, UNCHANGED <<options, mProfileChangeTime>>
  PROVE  ProfileType'
<1> DEFINE next == [i \in DOMAIN mTimesDataInitial |-> mTimesDataInitial[i] + mCycleLength]
<1>1. mTimesData' = next /\ mTimesDataInitial' = next /\ mIndex' = 1
      /\ UNCHANGED <<options, mCycleLength, mProfileChangeTime>>
  BY DEF Profile!StartNewCycle
<1>2. Len(mTimesData) \in Nat /\ DOMAIN mTimesData = 1..Len(mTimesData)
      /\ DOMAIN mTimesDataInitial = 1..Len(mTimesData)
  BY LenProperties DEF ProfileType
<1>3. next \in [1..Len(mTimesData) -> Int]
  BY <1>2, SMTT(30) DEF ProfileType
<1> HIDE DEF next
<1>4. next \in Seq(Int) /\ Len(next) = Len(mTimesData) /\ DOMAIN next = 1..Len(mTimesData)
  BY <1>2, <1>3, FunctionIsSequence
<1>5. Len(mTimesData) >= 1
  BY <1>2 DEF ProfileType
<1>6. QED BY <1>1, <1>4, <1>5 DEF ProfileType

LEMMA NextProfile == ProfileType /\ elTime \in Nat /\ [Next]_vars => ProfileType'
<1> SUFFICES ASSUME ProfileType, elTime \in Nat, [Next]_vars PROVE ProfileType'
  OBVIOUS
<1>1. CASE InitializeSimulation \/ StartElectricalStep
  BY <1>1, SetCurrentProfile DEF InitializeSimulation, StartElectricalStep
<1>2. CASE NextCycle
  BY <1>2, NewCycleProfile DEF NextCycle
<1>3. CASE ElectricalSubstep \/ EndElectricalStep \/ ThermalSubstep \/ EndThermalStep
           \/ ThermalStop \/ Finish \/ UNCHANGED vars
  BY <1>3 DEF ElectricalSubstep, EndElectricalStep, ThermalSubstep, EndThermalStep, ThermalStop,
              Finish, vars, profile, load, ProfileType
<1>4. QED BY <1>1, <1>2, <1>3 DEF Next, Step, Terminated

-----------------------------------------------------------------------------
(* The record of the heat. *)

\* what is left when the electrical simulation is sent back to a time
LEMMA ResetToTimeFacts ==
  ASSUME NEW time \in Nat,
         mPowerDissipations \in Seq(EntryOfHeat), mPowerDissipations # <<>>,
         mPowerDissipations[1].time <= time,
         Thermal!ResetPowerDissipationToTime(time)
  PROVE  /\ mPowerDissipations' \in Seq(EntryOfHeat) /\ mPowerDissipations' # <<>>
         /\ mPowerDissipations'[1] = mPowerDissipations[1]
         /\ \A i \in 1..Len(mPowerDissipations') : mPowerDissipations'[i].time <= time
         /\ Len(mPowerDissipations') <= Len(mPowerDissipations)
         /\ \A i \in 1..Len(mPowerDissipations') : mPowerDissipations'[i] = mPowerDissipations[i]
<1> DEFINE p == mPowerDissipations
           behind == {i \in DOMAIN p : p[i].time > time}
<1>1. Len(p) \in Nat /\ Len(p) >= 1 /\ DOMAIN p = 1..Len(p)
  BY LenProperties
<1>2. \A i \in 1..Len(p) : p[i] \in EntryOfHeat
  BY ElementOfSeq
<1>3. p' = IF behind = {} THEN p ELSE SubSeq(p, 1, Min(behind) - 1)
  BY DEF Thermal!ResetPowerDissipationToTime, Thermal!Min, Min
<1>4. CASE behind = {}
  <2>1. p' = p
    BY <1>3, <1>4
  <2>2. ASSUME NEW i \in 1..Len(p) PROVE p[i].time <= time
    <3>1. ~(p[i].time > time)
      BY <1>1, <1>4
    <3>2. p[i].time \in Nat
      BY <1>2 DEF EntryOfHeat
    <3>3. QED BY <3>1, <3>2
  <2>3. QED BY <1>1, <2>1, <2>2
<1>5. CASE behind # {}
  <2> DEFINE first == Min(behind)
             m == first - 1
  <2>0. behind \in SUBSET Nat
    BY <1>1
  <2> HIDE DEF behind
  <2>1. first \in behind /\ \A i \in behind : first <= i
    BY <1>5, <2>0, LeastElement
  <2> HIDE DEF first
  <2> USE DEF behind
  <2>2. m \in Nat /\ m >= 1 /\ m <= Len(p)
    <3>1. first \in 1..Len(p) /\ p[first].time > time
      BY <1>1, <2>1
    <3>2. first # 1
      BY <1>2, <3>1 DEF EntryOfHeat
    <3>3. QED BY <1>1, <3>1, <3>2
  <2>3. \A i \in 1..m : p[i].time <= time
    <3>1. TAKE i \in 1..m
    <3>2. i \in 1..Len(p) /\ i \notin behind
      BY <1>1, <2>1, <2>2
    <3>3. p[i] \in EntryOfHeat
      BY <1>2, <3>2
    <3>4. QED BY <1>1, <3>2, <3>3 DEF EntryOfHeat
  <2>4. p' = SubSeq(p, 1, m)
    BY <1>3, <1>5 DEF first
  <2> HIDE DEF m, behind
  <2>5. p' \in Seq(EntryOfHeat) /\ Len(p') = m /\ \A i \in 1..m : p'[i] = p[i]
    <3>1. \A i \in 1..m : p[i] \in EntryOfHeat
      BY <1>2, <2>2
    <3>2. QED BY <2>2, <2>4, <3>1, SubSeqProperties
  <2>6. QED BY <2>2, <2>3, <2>5
<1>6. QED BY <1>4, <1>5

-----------------------------------------------------------------------------
(* The charge. *)

\* between two substeps an update leaves the charge as it is
LEMMA UpdateKeepsCharge ==
  ASSUME options \in Options, mDt = 0, NEW charge \in Int, UpdateSystemValues(charge)
  PROVE  soc' = charge
<1>1. PICK r \in options.rates : soc' = charge + r * mDt
  BY DEF UpdateSystemValues
<1>2. r \in Int
  BY <1>1, OptionsAssumption
<1>3. QED BY <1>1, <1>2

LEMMA SetCurrentKeepsCharge ==
  ASSUME options \in Options, mDt = 0, soc \in Int, SetCurrent
  PROVE  soc' = soc
BY UpdateKeepsCharge DEF SetCurrent, EvaluateProfile, SkipSegment, KeepValue

-----------------------------------------------------------------------------
(* Steps of the coupling. *)

LEMMA InitCoupling == Init => IInv
<1> SUFFICES ASSUME Init PROVE IInv
  OBVIOUS
<1>1. mPowerDissipations = <<[value |-> 0, time |-> 0]>>
  BY DEF Init, Thermal!Init
<1>2. CouplingType
  BY <1>1 DEF Init, CouplingType, EntryOfHeat, SampleOfCell
<1>3. Phases
  BY DEF Init, Phases
<1>4. Recorded
  BY <1>1 DEF Init, Recorded
<1>5. QED BY <1>2, <1>3, <1>4 DEF IInv

LEMMA StartElectricalStepInv == ProfileType /\ IInv /\ StartElectricalStep => IInv'
<1> SUFFICES ASSUME ProfileType, IInv, StartElectricalStep PROVE IInv'
  OBVIOUS
<1>0. soc' = soc
  BY SetCurrentKeepsCharge DEF StartElectricalStep, IInv, CouplingType, ProfileType
<1>1. /\ pc = "cycle" /\ pc' = "electrical"
      /\ UNCHANGED <<elTime, states, soc, mDt, thTime, mLastTime>>
      /\ steps' = <<Sample(elTime, states, soc)>>
      /\ Thermal!ResetPowerDissipation
  BY <1>0 DEF StartElectricalStep, thermal
<1>2. Len(mPowerDissipations) \in Nat /\ Len(mPowerDissipations) >= 1
      /\ \A i \in 1..Len(mPowerDissipations) : mPowerDissipations[i] \in EntryOfHeat
  BY ElementOfSeq, LenProperties DEF IInv, CouplingType, Recorded
<1>3. mPowerDissipations' = <<Last(mPowerDissipations)>>
  BY <1>1 DEF IInv, Recorded, Thermal!ResetPowerDissipation, Thermal!Last, Last
<1>4. Last(mPowerDissipations) \in EntryOfHeat /\ Last(mPowerDissipations).time <= elTime
  BY <1>2 DEF Last, IInv, Recorded
<1>5. Sample(elTime, states, soc) \in SampleOfCell /\ Sample(elTime, states, soc).time = elTime
  BY DEF IInv, CouplingType, SampleOfCell, Sample
<1>6. thTime = elTime
  BY <1>1 DEF IInv, Phases
<1>7. CouplingType'
  BY <1>1, <1>3, <1>4, <1>5 DEF CouplingType, IInv
<1>8. Phases'
  BY <1>1, <1>5, <1>6 DEF Phases, Last, IInv, CouplingType
<1>9. Recorded'
  <2>1. /\ mPowerDissipations' # <<>> /\ Len(mPowerDissipations') = 1
        /\ mPowerDissipations'[1] = Last(mPowerDissipations)
    BY <1>3
  <2>2. Len(steps') = 1
    BY <1>1
  <2>3. mLastTime' = thTime' /\ thTime' = elTime'
    BY <1>1, <1>6 DEF IInv, Recorded
  <2>4. QED BY <1>1, <1>4, <2>1, <2>2, <2>3 DEF Recorded
<1>10. QED BY <1>7, <1>8, <1>9 DEF IInv

LEMMA ElectricalSubstepInv == ProfileType /\ IInv /\ ElectricalSubstep => IInv'
<1> SUFFICES ASSUME ProfileType, IInv, ElectricalSubstep PROVE IInv'
  OBVIOUS
<1>1. PICK d \in 1..(LoopStopTime - elTime), r \in options.rates :
       /\ elTime' = elTime + d
       /\ states' = states + r * d
       /\ soc' = soc + r * d
       /\ Thermal!AddPowerDissipation(r, elTime')
       /\ steps' = Append(steps, Sample(elTime', states', soc'))
  BY DEF ElectricalSubstep
<1>2. r \in Nat
  BY OptionsAssumption DEF ProfileType
<1>3. d \in Nat /\ d >= 1
  OBVIOUS
<1>4. pc = "electrical" /\ pc' = pc /\ thTime' = thTime /\ mLastTime' = mLastTime /\ mDt' = 0
  BY DEF ElectricalSubstep, thermal
<1>5. elTime' \in Nat /\ elTime' >= elTime /\ states' \in Int /\ soc' \in Int
  BY <1>1, <1>2, <1>3 DEF IInv, CouplingType
<1> DEFINE sample == Sample(elTime', states', soc')
           entry == [value |-> r, time |-> elTime']
<1>6. sample \in SampleOfCell /\ sample.time = elTime' /\ entry \in EntryOfHeat /\ entry.time = elTime'
  BY <1>2, <1>5 DEF SampleOfCell, EntryOfHeat, Sample
<1>7. mPowerDissipations' = Append(mPowerDissipations, entry)
  BY <1>1 DEF Thermal!AddPowerDissipation
<1> HIDE DEF sample, entry
<1>8. /\ steps' \in Seq(SampleOfCell) /\ Len(steps') = Len(steps) + 1 /\ Last(steps') = sample
      /\ \A i \in 1..Len(steps) : steps'[i] = steps[i]
  BY <1>1, <1>6, AppendFacts DEF Last, IInv, CouplingType, sample
<1>9. /\ mPowerDissipations' \in Seq(EntryOfHeat) /\ Len(mPowerDissipations') = Len(mPowerDissipations) + 1
      /\ Last(mPowerDissipations') = entry /\ mPowerDissipations'[Len(mPowerDissipations) + 1] = entry
      /\ \A i \in 1..Len(mPowerDissipations) : mPowerDissipations'[i] = mPowerDissipations[i]
  BY <1>6, <1>7, AppendFacts DEF Last, IInv, CouplingType
<1>10. Len(steps) \in Nat /\ Len(steps) >= 1 /\ Len(mPowerDissipations) \in Nat /\ Len(mPowerDissipations) >= 1
  BY <1>4, LenProperties DEF IInv, Phases, Recorded, CouplingType
<1>11. CouplingType'
  BY <1>4, <1>5, <1>8, <1>9 DEF CouplingType, IInv
<1>12. Phases'
  <2>1. steps' # <<>> /\ Last(steps').time = elTime' /\ steps'[1] = steps[1]
    BY <1>6, <1>8, <1>10
  <2>2. thTime' = steps'[1].time /\ thTime' <= elTime'
    BY <1>4, <1>5, <2>1 DEF IInv, Phases, CouplingType
  <2>3. QED BY <1>4, <2>1, <2>2 DEF Phases
<1>13. Recorded'
  <2>1. mPowerDissipations'[1].time <= thTime'
    BY <1>4, <1>9, <1>10 DEF IInv, Recorded
  <2>2. ASSUME NEW i \in 1..Len(mPowerDissipations') PROVE mPowerDissipations'[i].time <= elTime'
    <3>1. CASE i = Len(mPowerDissipations) + 1
      BY <1>5, <1>6, <1>9, <3>1
    <3>2. CASE i \in 1..Len(mPowerDissipations)
      <4>1. mPowerDissipations[i] \in EntryOfHeat
        BY <3>2, ElementOfSeq DEF IInv, CouplingType
      <4>2. mPowerDissipations[i].time \in Nat /\ mPowerDissipations[i].time <= elTime
        BY <3>2, <4>1 DEF IInv, Recorded, EntryOfHeat
      <4>3. QED BY <1>5, <1>9, <3>2, <4>2 DEF IInv, CouplingType
    <3>3. QED BY <1>9, <1>10, <3>1, <3>2
  <2>3. mPowerDissipations' # <<>>
    BY <1>9, <1>10
  <2>4. Last(mPowerDissipations').time = elTime'
    BY <1>6, <1>9
  <2>5. mLastTime' = thTime'
    BY <1>4 DEF IInv, Recorded
  <2>6. QED BY <2>1, <2>2, <2>3, <2>4, <2>5 DEF Recorded
<1>14. QED BY <1>11, <1>12, <1>13 DEF IInv

LEMMA EndElectricalStepInv == IInv /\ EndElectricalStep => IInv'
<1> SUFFICES ASSUME IInv, EndElectricalStep PROVE IInv'
  OBVIOUS
<1>1. /\ pc = "electrical" /\ pc' = "thermal" /\ tooHot' = FALSE
      /\ UNCHANGED <<elTime, thTime, mLastTime, states, soc, mDt, steps, mPowerDissipations>>
  BY DEF EndElectricalStep, cell, record
<1>2. CouplingType' /\ Recorded'
  BY <1>1 DEF IInv, CouplingType, Recorded
<1>3. Phases'
  BY <1>1 DEF IInv, CouplingType, Phases
<1>4. QED BY <1>2, <1>3 DEF IInv

LEMMA FirstEntry == IInv => mPowerDissipations[1] \in EntryOfHeat
  BY ElementOfSeq, LenProperties DEF IInv, CouplingType, Recorded

\* the thermal simulation is never refused its heat
LEMMA HeatAccepted ==
  ASSUME IInv, NEW d \in 1..(elTime - thTime)
  PROVE  Thermal!Accepts(thTime + d, (thTime + d) - mLastTime)
<1>1. mPowerDissipations[1] \in EntryOfHeat
  BY FirstEntry
<1>2. (thTime + d) - ((thTime + d) - mLastTime) = thTime
  BY DEF IInv, CouplingType, Recorded
<1>3. QED BY <1>1, <1>2 DEF IInv, CouplingType, Recorded, EntryOfHeat, Thermal!Accepts

LEMMA ThermalSubstepStep ==
  ASSUME IInv, ThermalSubstep
  PROVE  /\ pc = "thermal" /\ pc' = "thermal" /\ thTime' \in Nat
         /\ thTime < thTime' /\ thTime' <= elTime
         /\ mLastTime' = thTime'
         /\ source' = [energy |-> Thermal!EnergyTaken(thTime', thTime' - mLastTime), dt |-> thTime' - mLastTime]
         /\ UNCHANGED <<elTime, states, soc, mDt, steps, mPowerDissipations>>
<1>1. PICK d \in 1..(elTime - thTime) : thTime' = thTime + d
  BY DEF ThermalSubstep
<1>2. Thermal!Accepts(thTime', thTime' - mLastTime)
  BY <1>1, HeatAccepted
<1>3. /\ pc = "thermal" /\ pc' = "thermal" /\ mLastTime' = thTime'
      /\ source' = [energy |-> Thermal!EnergyTaken(thTime', thTime' - mLastTime), dt |-> thTime' - mLastTime]
  BY <1>2 DEF ThermalSubstep, UpdateSystem
<1>4. thTime' \in Nat /\ thTime < thTime' /\ thTime' <= elTime
  BY <1>1 DEF IInv, CouplingType
<1>5. QED BY <1>3, <1>4 DEF ThermalSubstep, cell, record

LEMMA ThermalSubstepInv == IInv /\ ThermalSubstep => IInv'
<1> SUFFICES ASSUME IInv, ThermalSubstep PROVE IInv'
  OBVIOUS
<1>1. /\ pc = "thermal" /\ pc' = "thermal" /\ thTime' \in Nat
      /\ thTime < thTime' /\ thTime' <= elTime /\ mLastTime' = thTime'
      /\ UNCHANGED <<elTime, states, soc, mDt, steps, mPowerDissipations>>
  BY ThermalSubstepStep
<1>2. CouplingType'
  BY <1>1 DEF IInv, CouplingType
<1>3. mPowerDissipations[1].time \in Nat
  BY FirstEntry DEF EntryOfHeat
<1>4. Recorded'
  BY <1>1, <1>3 DEF IInv, CouplingType, Recorded
<1>5. Phases'
  <2>1. steps # <<>> /\ steps[1] \in SampleOfCell
    BY <1>1, ElementOfSeq, LenProperties DEF IInv, CouplingType, Phases
  <2>2. steps[1].time \in Nat /\ steps[1].time < thTime'
    BY <1>1, <2>1 DEF IInv, CouplingType, Phases, SampleOfCell
  <2>3. QED BY <1>1, <2>2 DEF IInv, CouplingType, Phases
<1>6. QED BY <1>2, <1>4, <1>5 DEF IInv

LEMMA EndThermalStepInv == IInv /\ EndThermalStep => thTime = elTime /\ IInv'
<1> SUFFICES ASSUME IInv, EndThermalStep PROVE thTime = elTime /\ IInv'
  OBVIOUS
<1>1. /\ pc = "thermal" /\ pc' = "cycle" /\ thTime >= elTime
      /\ UNCHANGED <<elTime, thTime, mLastTime, states, soc, mDt, steps, mPowerDissipations>>
  BY DEF EndThermalStep, cell, record, thermal
<1>2. thTime = elTime
  BY <1>1 DEF IInv, CouplingType, Phases
<1>3. QED BY <1>1, <1>2 DEF IInv, CouplingType, Phases, Recorded

\* the electrical simulation is never refused its reset, and what it
\* interpolates are numbers
LEMMA ResetAccepted ==
  ASSUME IInv, pc = "thermal", tooHot, thTime < elTime
  PROVE  /\ ~RefusesReset(thTime)
         /\ \A x1 \in Int, x2 \in Int : Scaled(IndexBefore(thTime), thTime, x1, x2) \in Int
         /\ IndexBefore(thTime) \in 1..(Len(steps) - 1)
         /\ steps[IndexBefore(thTime)].time \in Nat /\ steps[IndexBefore(thTime) + 1].time \in Nat
         /\ steps[IndexBefore(thTime)].time <= thTime
         /\ thTime < steps[IndexBefore(thTime) + 1].time
<1> DEFINE behind == {i \in 2..Len(steps) : steps[i].time > thTime}
           first == Min(behind)
           i == IndexBefore(thTime)
<1>1. Len(steps) \in Nat /\ steps # <<>> /\ steps[Len(steps)].time = elTime
  BY LenProperties DEF IInv, CouplingType, Phases, Last
<1>2. \A k \in 1..Len(steps) : steps[k].time \in Nat
  <2>1. TAKE k \in 1..Len(steps)
  <2>2. steps[k] \in SampleOfCell
    BY ElementOfSeq DEF IInv, CouplingType
  <2>3. QED BY <2>2 DEF SampleOfCell
<1>3. steps[1].time < thTime /\ thTime \in Nat
  BY DEF IInv, CouplingType, Phases
<1>4. Len(steps) >= 2
  <2>1. Len(steps) # 1
    BY <1>1, <1>2, <1>3 DEF IInv, CouplingType
  <2>2. Len(steps) # 0
    BY <1>1, EmptySeq DEF IInv, CouplingType
  <2>3. Len(steps) = 0 \/ Len(steps) = 1 \/ Len(steps) >= 2
    BY <1>1, NatCases
  <2>4. QED BY <2>1, <2>2, <2>3
<1>5. ~RefusesReset(thTime)
  BY <1>1, <1>2, <1>3, <1>4 DEF RefusesReset, Last, IInv, CouplingType
<1>6. behind \in SUBSET Nat /\ Len(steps) \in behind
  BY <1>1, <1>4
<1> HIDE DEF behind
<1>7. first \in behind /\ \A k \in behind : first <= k
  BY <1>6, LeastElement
<1>8. i = first - 1
  BY DEF IndexBefore, behind
<1> HIDE DEF first, i
<1>9. first \in 2..Len(steps) /\ steps[first].time > thTime
  BY <1>7 DEF behind
<1>10. i \in 1..(Len(steps) - 1) /\ first = i + 1
  BY <1>1, <1>8, <1>9
<1>11. steps[i].time <= thTime
  <2>1. CASE i = 1
    BY <1>2, <1>3, <1>10, <2>1
  <2>2. CASE i # 1
    <3>1. i \in 2..Len(steps) /\ ~(first <= i)
      BY <1>1, <1>10, <2>2
    <3>2. i \notin behind
      BY <1>7, <3>1
    <3>3. ~(steps[i].time > thTime)
      BY <3>1, <3>2 DEF behind
    <3>4. QED BY <1>2, <1>3, <3>1, <3>3
  <2>3. QED BY <2>1, <2>2
<1>12. steps[i].time \in Nat /\ steps[i + 1].time \in Nat /\ steps[i + 1].time > thTime
  BY <1>1, <1>2, <1>9, <1>10
<1> DEFINE before == thTime - steps[i].time
           after == steps[i + 1].time - thTime
           length == steps[i + 1].time - steps[i].time
<1>13. before \in Int /\ after \in Int /\ length \in Nat \ {0}
  BY <1>3, <1>11, <1>12
<1>14. ASSUME NEW x1 \in Int, NEW x2 \in Int PROVE Scaled(i, thTime, x1, x2) \in Int
  <2>1. Scaled(i, thTime, x1, x2) = (x1 * after + x2 * before) \div length
    BY DEF Scaled
  <2> HIDE DEF before, after, length
  <2>2. x1 * after + x2 * before \in Int
    BY <1>13
  <2>3. QED BY <1>13, <2>1, <2>2, QuotientType
<1>15. QED BY <1>5, <1>10, <1>11, <1>12, <1>14 DEF i

LEMMA ThermalStopStep ==
  ASSUME IInv, ThermalStop
  PROVE  /\ pc = "thermal" /\ pc' = "cycle" /\ tooHot /\ thTime < elTime
         /\ thTime' = thTime /\ mLastTime' = mLastTime /\ steps' = steps
         /\ ResetStatesToPointOfTime(thTime)
<1>1. pc = "thermal" /\ tooHot /\ thTime < elTime
  BY DEF ThermalStop
<1>2. ~RefusesReset(thTime)
  BY <1>1, ResetAccepted
<1>3. pc' = "cycle" /\ ResetStatesToPointOfTime(thTime) /\ thTime' = thTime /\ mLastTime' = mLastTime
  BY <1>2 DEF ThermalStop, thermal
<1>4. QED BY <1>1, <1>3 DEF ResetStatesToPointOfTime

\* the charge of a rollback
LEMMA ResetCharge ==
  ASSUME ProfileType, IInv, ThermalStop
  PROVE  LET i == IndexBefore(thTime)
         IN soc' = soc + (Scaled(i, thTime, steps[i].soc, steps[i + 1].soc) - Last(steps).soc)
<1> DEFINE i == IndexBefore(thTime)
           charge == soc + (Scaled(i, thTime, steps[i].soc, steps[i + 1].soc) - Last(steps).soc)
<1>1. /\ pc = "thermal" /\ tooHot /\ thTime < elTime
      /\ UpdateSystemValues(charge)
  BY ThermalStopStep DEF ResetStatesToPointOfTime
<1>2. i \in 1..(Len(steps) - 1)
      /\ \A x1 \in Int, x2 \in Int : Scaled(i, thTime, x1, x2) \in Int
  BY <1>1, ResetAccepted
<1>3. Len(steps) \in Nat /\ \A k \in 1..Len(steps) : steps[k].soc \in Int
  <2>1. Len(steps) \in Nat
    BY LenProperties DEF IInv, CouplingType
  <2>2. ASSUME NEW k \in 1..Len(steps) PROVE steps[k].soc \in Int
    <3>1. steps[k] \in SampleOfCell
      BY ElementOfSeq DEF IInv, CouplingType
    <3>2. QED BY <3>1 DEF SampleOfCell
  <2>3. QED BY <2>1, <2>2
<1> HIDE DEF i
<1>4. i \in 1..Len(steps) /\ i + 1 \in 1..Len(steps) /\ Len(steps) \in 1..Len(steps)
  <2> HIDE DEF charge
  <2>1. i \in 1..(Len(steps) - 1) /\ Len(steps) \in Nat
    BY <1>2, <1>3
  <2>2. i \in 1..Len(steps)
    BY <2>1
  <2>3. i + 1 \in 1..Len(steps)
    BY <2>1
  <2>4. Len(steps) \in 1..Len(steps)
    BY <2>1
  <2>5. QED BY <2>2, <2>3, <2>4
<1>5. charge \in Int
  <2>1. Scaled(i, thTime, steps[i].soc, steps[i + 1].soc) \in Int
    BY <1>2, <1>3, <1>4
  <2>2. Last(steps).soc \in Int /\ soc \in Int
    BY <1>3, <1>4 DEF Last, IInv, CouplingType
  <2>3. QED BY <2>1, <2>2
<1> HIDE DEF charge
<1>6. soc' = charge
  BY <1>1, <1>5, UpdateKeepsCharge DEF IInv, CouplingType, ProfileType
<1>7. QED BY <1>6 DEF i, charge

LEMMA ThermalStopInv == ProfileType /\ IInv /\ ThermalStop => IInv'
<1> SUFFICES ASSUME ProfileType, IInv, ThermalStop PROVE IInv'
  OBVIOUS
<1> DEFINE i == IndexBefore(thTime)
<1>1. /\ pc = "thermal" /\ pc' = "cycle" /\ tooHot /\ thTime < elTime
      /\ thTime' = thTime /\ mLastTime' = mLastTime /\ steps' = steps
      /\ ResetStatesToPointOfTime(thTime)
  BY ThermalStopStep
<1>2. /\ elTime' = thTime
      /\ states' = Scaled(i, thTime, steps[i].states, steps[i].states)
      /\ soc' = soc + (Scaled(i, thTime, steps[i].soc, steps[i + 1].soc) - Last(steps).soc)
      /\ Thermal!ResetPowerDissipationToTime(thTime) /\ mDt' = mDt
  BY <1>1, ResetCharge DEF ResetStatesToPointOfTime
<1>3. i \in 1..(Len(steps) - 1)
      /\ \A x1 \in Int, x2 \in Int : Scaled(i, thTime, x1, x2) \in Int
  BY <1>1, ResetAccepted
<1> HIDE DEF i
<1>4. Len(steps) \in Nat /\ steps \in Seq(SampleOfCell) /\ thTime \in Nat
  BY LenProperties DEF IInv, CouplingType
<1>5. \A k \in {i, i + 1, Len(steps)} : steps[k].states \in Int /\ steps[k].soc \in Int
  <2>1. TAKE k \in {i, i + 1, Len(steps)}
  <2>2. k \in 1..Len(steps)
    <3>1. i \in 1..(Len(steps) - 1) /\ Len(steps) \in Nat
      BY <1>3, <1>4
    <3>2. i \in 1..Len(steps)
      BY <3>1
    <3>3. i + 1 \in 1..Len(steps)
      BY <3>1
    <3>4. Len(steps) \in 1..Len(steps)
      BY <3>1
    <3>5. QED BY <3>2, <3>3, <3>4
  <2>3. steps[k] \in SampleOfCell
    BY <1>4, <2>2, ElementOfSeq
  <2>4. QED BY <2>3 DEF SampleOfCell
<1>6. states' \in Int /\ soc' \in Int
  <2>1. Scaled(i, thTime, steps[i].states, steps[i].states) \in Int
        /\ Scaled(i, thTime, steps[i].soc, steps[i + 1].soc) \in Int
    BY <1>3, <1>5
  <2>2. Last(steps).soc \in Int /\ soc \in Int
    BY <1>5 DEF Last, IInv, CouplingType
  <2>3. QED BY <1>2, <2>1, <2>2
<1>7. /\ mPowerDissipations' \in Seq(EntryOfHeat) /\ mPowerDissipations' # <<>>
      /\ mPowerDissipations'[1] = mPowerDissipations[1]
      /\ \A k \in 1..Len(mPowerDissipations') : mPowerDissipations'[k].time <= thTime
  BY <1>2, <1>4, ResetToTimeFacts DEF IInv, CouplingType, Recorded
<1>8. CouplingType'
  BY <1>1, <1>2, <1>4, <1>6, <1>7 DEF CouplingType, IInv
<1>9. Phases'
  BY <1>1, <1>2 DEF Phases
<1>10. Recorded'
  BY <1>1, <1>2, <1>7 DEF IInv, Recorded
<1>11. QED BY <1>8, <1>9, <1>10 DEF IInv

LEMMA NextCoupling == ProfileType /\ IInv /\ [Next]_vars => IInv'
<1> SUFFICES ASSUME ProfileType, IInv, [Next]_vars PROVE IInv'
  OBVIOUS
<1>1. CASE InitializeSimulation
  <2>1. /\ pc = "init" /\ pc' = "cycle"
        /\ UNCHANGED <<elTime, thTime, mLastTime, states, soc, mDt, steps, mPowerDissipations>>
    BY <1>1, SetCurrentKeepsCharge DEF InitializeSimulation, thermal, record, IInv, CouplingType, ProfileType
  <2>2. QED BY <2>1 DEF IInv, CouplingType, Phases, Recorded
<1>2. CASE NextCycle \/ Finish
  <2>1. /\ pc = "cycle" /\ pc' \in {"cycle", "done"}
        /\ UNCHANGED <<elTime, thTime, mLastTime, states, soc, mDt, steps, mPowerDissipations>>
    BY <1>2 DEF NextCycle, Finish, cell, thermal, record
  <2>2. QED BY <2>1 DEF IInv, CouplingType, Phases, Recorded
<1>3. CASE UNCHANGED vars
  BY <1>3 DEF vars, IInv, CouplingType, Phases, Recorded
<1>4. QED
  BY <1>1, <1>2, <1>3, StartElectricalStepInv, ElectricalSubstepInv, EndElectricalStepInv,
     ThermalSubstepInv, EndThermalStepInv, ThermalStopInv DEF Next, Step, Terminated

LEMMA CouplingInvariant == Spec => [](ProfileType /\ IInv)
<1>1. ProfileType /\ IInv /\ [Next]_vars => ProfileType' /\ IInv'
  BY NextProfile, NextCoupling DEF IInv, CouplingType
<1>2. QED BY <1>1, InitProfile, InitCoupling, PTL DEF Spec

-----------------------------------------------------------------------------
(* What follows for every profile. *)

\* Whenever one of the simulations is asked again, both have simulated the same
\* period, wherever rollbacks and skipped segments cut the steps.
THEOREM SimulationsMeet == Spec => []TimesMeet
<1>1. IInv => TimesMeet
  BY DEF IInv, Phases, TimesMeet
<1>2. QED BY <1>1, CouplingInvariant, PTL

\* No call of the coupling throws: a rollback always finds its samples, the
\* thermal simulation always finds its heat.
THEOREM CouplingNeverThrows == Spec => []NeverThrows
<1>1. IInv => NeverThrows
  BY DEF IInv, Phases, NeverThrows
<1>2. QED BY <1>1, CouplingInvariant, PTL

\* the record reaches beyond the thermal time as long as the thermal simulation has to follow
LEMMA RecordInFront == IInv => RecordNotOutrun
<1> SUFFICES ASSUME IInv, pc = "thermal", thTime < elTime PROVE thTime < Thermal!LastTime
  BY DEF RecordNotOutrun
<1>1. steps \in Seq(SampleOfCell) /\ steps # <<>> /\ Len(steps) \in Nat
      /\ steps[Len(steps)].time = elTime
  BY LenProperties DEF IInv, CouplingType, Phases, Last
<1>2. Len(steps) # 0
  BY <1>1, EmptySeq
<1>3. Len(steps) # 1
  <2>1. steps[1].time <= thTime /\ elTime \in Nat /\ thTime \in Nat
    BY DEF IInv, CouplingType, Phases
  <2>2. steps[1].time # elTime
    BY <2>1
  <2>3. QED BY <1>1, <2>2
<1>4. Len(steps) = 0 \/ Len(steps) = 1 \/ Len(steps) >= 2
  BY <1>1, NatCases
<1>5. Last(mPowerDissipations).time = elTime
  BY <1>2, <1>3, <1>4 DEF IInv, Recorded
<1>6. Thermal!LastTime = elTime
  BY <1>5 DEF IInv, Recorded, Thermal!LastTime, Thermal!Last, Last
<1>7. QED BY <1>6

\* The thermal simulation is always in front of the end of the record when it
\* asks for heat, so that the search in it finds the right entry.
THEOREM HeatIsRecorded == Spec => []RecordNotOutrun
  BY RecordInFront, CouplingInvariant, PTL

-----------------------------------------------------------------------------
(* The charge of the surviving run.  The ghost variable reaches up to MaxTime, *)
(* and the clock never gets behind it (TimeIsBounded).                         *)

\* between two samples the charge moves linearly
Linear(charge, a, b) ==
  /\ a.time < b.time
  /\ \E rate \in Nat : \A t \in a.time..b.time : charge[t] = a.soc + rate * (t - a.time)

Charged ==
  /\ run \in [total : [0..MaxTime -> Int], samples : SUBSET Nat]
  /\ soc = run.total[elTime]
  /\ pc \in {"electrical", "thermal"} =>
       /\ \A i \in 1..Len(steps) : steps[i].time <= elTime /\ steps[i].soc = run.total[steps[i].time]
       /\ \A i \in 1..(Len(steps) - 1) : Linear(run.total, steps[i], steps[i + 1])

LEMMA InitCharged == Init => Charged
<1> SUFFICES ASSUME Init PROVE Charged
  OBVIOUS
<1>1. 0 \in 0..MaxTime
  BY ConstantsAssumption
<1>2. run = [total |-> [t \in 0..MaxTime |-> 0], samples |-> {0}] /\ pc = "init" /\ soc = 0 /\ elTime = 0
  BY DEF Init
<1>3. QED BY <1>1, <1>2 DEF Charged

LEMMA ExactQuotient ==
  ASSUME NEW q \in Int, NEW d \in Nat \ {0}
  PROVE  (q * d) \div d = q
OBVIOUS

LEMMA LastTick ==
  ASSUME NEW a \in Nat, NEW b \in Nat, NEW m \in Nat, a < b, b <= m
  PROVE  b \in a..b /\ b - 1 \in a..b /\ b \in 0..m /\ b - 1 \in 0..m /\ b # 0
OBVIOUS

LEMMA LastProduct ==
  ASSUME NEW r \in Nat, NEW k \in Int
  PROVE  r * k \in Int /\ r * (k - 1) \in Int /\ r * k - r * (k - 1) = r
OBVIOUS

LEMMA LastIncrease ==
  ASSUME NEW a \in Nat, NEW b \in Nat, NEW c \in Int, NEW r \in Nat
  PROVE  (c + r * (b - a)) - (c + r * ((b - 1) - a)) = r
<1>1. PICK k \in Int : k = b - a /\ k - 1 = (b - 1) - a
  OBVIOUS
<1>2. PICK x \in Int, y \in Int : x = r * k /\ y = r * (k - 1) /\ x - y = r
  BY LastProduct
<1>3. (c + x) - (c + y) = r
  BY <1>2
<1>4. QED BY <1>1, <1>2, <1>3

LEMMA SumOfDistances == \A a \in Int, b \in Int, c \in Int : (b - a) + (c - b) = c - a
OBVIOUS

\* on a line the interpolation is exact
LEMMA ExactInterpolation ==
  ASSUME NEW x \in Int, NEW rate \in Nat, NEW before \in Nat, NEW after \in Nat \ {0}
  PROVE  (x * after + (x + rate * (before + after)) * before) \div (before + after) = x + rate * before
<1> DEFINE d == before + after
           q == x + rate * before
<1>1. d \in Nat \ {0} /\ q \in Int
  OBVIOUS
<1>2. x * after + (x + rate * (before + after)) * before = q * d
  OBVIOUS
<1>3. (q * d) \div d = q
  BY <1>1, ExactQuotient
<1>4. QED BY <1>2, <1>3

LEMMA SubstepCharged ==
  ASSUME ProfileType, IInv, Charged, elTime' <= MaxTime, ElectricalSubstep
  PROVE  Charged'
<1>1. PICK d \in 1..(LoopStopTime - elTime), r \in options.rates :
       /\ elTime' = elTime + d
       /\ soc' = soc + r * d
       /\ steps' = Append(steps, Sample(elTime', states', soc'))
       /\ RunGoesOn(r)
  BY DEF ElectricalSubstep
<1>2. r \in Nat /\ d \in Nat /\ d >= 1 /\ elTime \in Nat /\ MaxTime \in Nat
  BY OptionsAssumption, ConstantsAssumption DEF ProfileType, IInv, CouplingType
<1>3. elTime' \in 0..MaxTime /\ elTime \in 0..MaxTime /\ elTime < elTime'
  BY <1>1, <1>2
<1>4. /\ soc \in Int /\ soc = run.total[elTime]
      /\ \A t \in 0..MaxTime : run.total[t] \in Int
  BY DEF Charged, IInv, CouplingType
<1>5. pc = "electrical" /\ pc' = pc /\ IInv'
  BY ElectricalSubstepInv DEF ElectricalSubstep
<1> DEFINE sample == Sample(elTime', states', soc')
           n == Len(steps)
<1>6. sample \in SampleOfCell /\ sample.time = elTime' /\ sample.soc = soc'
  BY <1>5 DEF Sample, SampleOfCell, IInv, CouplingType
<1> HIDE DEF sample
<1>7. /\ Len(steps') = n + 1 /\ steps'[n + 1] = sample /\ n \in Nat /\ n >= 1
      /\ \A i \in 1..n : steps'[i] = steps[i]
      /\ steps[n].time = elTime
  BY <1>1, <1>5, <1>6, AppendFacts, LenProperties DEF IInv, CouplingType, Phases, Last, sample
<1>8. \A i \in 1..n : steps[i].time \in Nat /\ steps[i].soc \in Int
  <2>1. TAKE i \in 1..n
  <2>2. steps[i] \in SampleOfCell
    BY ElementOfSeq DEF IInv, CouplingType
  <2>3. QED BY <2>2 DEF SampleOfCell
<1> HIDE DEF n
<1>8a. \A t \in 0..MaxTime :
          run'.total[t] = IF t \in elTime..elTime' THEN run.total[elTime] + r * (t - elTime) ELSE run.total[t]
  BY <1>1 DEF RunGoesOn
<1>8b. elTime \in elTime..elTime' /\ r * (elTime - elTime) = 0
  BY <1>2, <1>3
<1>9. \A t \in 0..elTime : run'.total[t] = run.total[t]
  <2>1. TAKE t \in 0..elTime
  <2>2. t \in 0..MaxTime
    BY <1>2, <1>3
  <2>3. CASE t = elTime
    <3>1. run'.total[elTime] = run.total[elTime] + r * (elTime - elTime)
      BY <1>3, <1>8a, <1>8b
    <3>2. run.total[elTime] \in Int
      BY <1>3, <1>4
    <3>3. QED BY <1>8b, <2>3, <3>1, <3>2
  <2>4. CASE t # elTime
    <3>1. t \notin elTime..elTime'
      BY <1>2, <2>4
    <3>2. QED BY <1>8a, <2>2, <3>1
  <2>5. QED BY <2>3, <2>4
<1>10. \A t \in elTime..elTime' : run'.total[t] = soc + r * (t - elTime)
  <2>1. TAKE t \in elTime..elTime'
  <2>2. t \in 0..MaxTime
    BY <1>2, <1>3
  <2>3. QED BY <1>4, <1>8a, <2>2
<1>11. run' \in [total : [0..MaxTime -> Int], samples : SUBSET Nat]
  <2>1. ASSUME NEW t \in 0..MaxTime
        PROVE  (IF t \in elTime..elTime' THEN run.total[elTime] + r * (t - elTime) ELSE run.total[t]) \in Int
    BY <1>2, <1>3, <1>4
  <2>2. (run.samples \cup {elTime'}) \in SUBSET Nat
    BY <1>3 DEF Charged
  <2>3. QED BY <1>1, <2>1, <2>2 DEF RunGoesOn
<1>12. soc' = run'.total[elTime']
  <2>1. elTime' - elTime = d /\ elTime' \in elTime..elTime'
    BY <1>1, <1>2
  <2>2. run'.total[elTime'] = soc + r * (elTime' - elTime)
    BY <1>10, <2>1
  <2>3. QED BY <1>1, <2>1, <2>2
<1>13. ASSUME NEW i \in 1..(n + 1)
       PROVE  steps'[i].time <= elTime' /\ steps'[i].soc = run'.total[steps'[i].time]
  <2>1. CASE i = n + 1
    BY <1>3, <1>6, <1>7, <1>12, <2>1
  <2>2. CASE i \in 1..n
    <3>1. steps[i].time <= elTime /\ steps[i].soc = run.total[steps[i].time]
      BY <1>5, <2>2 DEF Charged, n
    <3>2. steps[i].time \in 0..elTime
      BY <1>2, <1>8, <2>2, <3>1
    <3>3. QED BY <1>2, <1>3, <1>7, <1>9, <2>2, <3>1, <3>2
  <2>3. QED BY <1>7, <2>1, <2>2
<1>14. ASSUME NEW i \in 1..n PROVE Linear(run'.total, steps'[i], steps'[i + 1])
  <2>1. CASE i = n
    <3>1. /\ steps'[i].time = elTime /\ steps'[i + 1].time = elTime' /\ steps'[i].soc = soc
      <4>1. steps[n].soc = run.total[steps[n].time]
        BY <1>5, <1>7 DEF Charged, n
      <4>2. QED BY <1>4, <1>6, <1>7, <2>1, <4>1
    <3>2. \A t \in elTime..elTime' : run'.total[t] = soc + r * (t - elTime)
      BY <1>10
    <3>3. QED BY <1>2, <1>3, <1>7, <3>1, <3>2 DEF Linear
  <2>2. CASE i # n
    <3>1. i \in 1..(n - 1) /\ i + 1 \in 1..n
      BY <1>7, <2>2
    <3>2. Linear(run.total, steps[i], steps[i + 1]) /\ steps[i + 1].time <= elTime
      BY <1>5, <3>1 DEF Charged, n
    <3>3. PICK rate \in Nat : \A t \in steps[i].time..steps[i + 1].time :
                                run.total[t] = steps[i].soc + rate * (t - steps[i].time)
      BY <3>2 DEF Linear
    <3>4. \A t \in steps[i].time..steps[i + 1].time : t \in 0..elTime
      BY <1>2, <1>8, <3>1, <3>2
    <3>5. \A t \in steps[i].time..steps[i + 1].time :
            run'.total[t] = steps[i].soc + rate * (t - steps[i].time)
      BY <1>9, <3>3, <3>4
    <3>6. steps'[i] = steps[i] /\ steps'[i + 1] = steps[i + 1] /\ steps[i].time < steps[i + 1].time
      BY <1>7, <3>1, <3>2 DEF Linear
    <3>7. QED BY <3>5, <3>6 DEF Linear
  <2>3. QED BY <2>1, <2>2
<1>15. \A i \in 1..Len(steps') : steps'[i].time <= elTime' /\ steps'[i].soc = run'.total[steps'[i].time]
  BY <1>7, <1>13
<1>16. \A i \in 1..(Len(steps') - 1) : Linear(run'.total, steps'[i], steps'[i + 1])
  BY <1>7, <1>14
<1>17. QED BY <1>11, <1>12, <1>15, <1>16 DEF Charged, Linear

LEMMA StopCharged ==
  ASSUME ProfileType, IInv, Charged, elTime <= MaxTime, ThermalStop
  PROVE  Charged'
<1> DEFINE i == IndexBefore(thTime)
           before == thTime - steps[i].time
           after == steps[i + 1].time - thTime
<1>1. /\ pc = "thermal" /\ pc' = "cycle" /\ tooHot /\ thTime < elTime
      /\ ResetStatesToPointOfTime(thTime)
  BY ThermalStopStep
<1>2. /\ i \in 1..(Len(steps) - 1)
      /\ steps[i].time \in Nat /\ steps[i + 1].time \in Nat
      /\ steps[i].time <= thTime /\ thTime < steps[i + 1].time
      /\ ~RefusesReset(thTime)
  BY <1>1, ResetAccepted
<1>3. /\ thTime \in Nat /\ elTime \in Nat /\ soc \in Int /\ MaxTime \in Nat
      /\ steps \in Seq(SampleOfCell) /\ Len(steps) \in Nat /\ steps[Len(steps)].time = elTime
  BY <1>1, ConstantsAssumption, LenProperties DEF IInv, CouplingType, Phases, Last
<1>4. /\ elTime' = thTime
      /\ soc' = soc + (Scaled(i, thTime, steps[i].soc, steps[i + 1].soc) - Last(steps).soc)
      /\ run' = [total   |-> [t \in 0..MaxTime |-> IF t <= thTime THEN run.total[t] ELSE 0],
                 samples |-> {x \in run.samples : x <= thTime}]
  BY <1>1, <1>2, ResetCharge DEF ResetStatesToPointOfTime, ThermalStop, RunIsCut
<1> HIDE DEF i
<1>5. steps[i].soc \in Int
  <2>1. i \in 1..Len(steps)
    BY <1>2, <1>3
  <2>2. steps[i] \in SampleOfCell
    BY <1>3, <2>1, ElementOfSeq
  <2>3. QED BY <2>2 DEF SampleOfCell
<1>6. PICK rate \in Nat : \A t \in steps[i].time..steps[i + 1].time :
                            run.total[t] = steps[i].soc + rate * (t - steps[i].time)
  BY <1>1, <1>2 DEF Charged, Linear
<1>7. /\ steps[i + 1].soc = steps[i].soc + rate * (before + after)
      /\ run.total[thTime] = steps[i].soc + rate * before
  <2>1. i + 1 \in 1..Len(steps) /\ steps[i + 1].time \in steps[i].time..steps[i + 1].time
        /\ thTime \in steps[i].time..steps[i + 1].time
    BY <1>2, <1>3
  <2>2. steps[i + 1].soc = run.total[steps[i + 1].time]
    BY <1>1, <2>1 DEF Charged
  <2>3. before + after = steps[i + 1].time - steps[i].time
    <3>1. thTime \in Int /\ steps[i].time \in Int /\ steps[i + 1].time \in Int
      BY <1>2, <1>3
    <3>2. QED BY <3>1, SumOfDistances
  <2>4. QED BY <1>6, <2>1, <2>2, <2>3
<1>8. before \in Nat /\ after \in Nat \ {0}
  BY <1>2, <1>3
<1>9. Scaled(i, thTime, steps[i].soc, steps[i + 1].soc) = run.total[thTime]
  <2>1. steps[i + 1].time - steps[i].time = before + after
    <3>1. thTime \in Int /\ steps[i].time \in Int /\ steps[i + 1].time \in Int
      BY <1>2, <1>3
    <3>2. QED BY <3>1, SumOfDistances
  <2>2. Scaled(i, thTime, steps[i].soc, steps[i + 1].soc)
          = (steps[i].soc * after + steps[i + 1].soc * before) \div (before + after)
    BY <2>1 DEF Scaled
  <2> HIDE DEF before, after
  <2>3. (steps[i].soc * after + (steps[i].soc + rate * (before + after)) * before) \div (before + after)
          = steps[i].soc + rate * before
    BY <1>5, <1>6, <1>8, ExactInterpolation
  <2>4. QED BY <1>7, <2>2, <2>3
<1>10. Last(steps).soc = soc
  <2>1. Len(steps) \in 1..Len(steps)
    BY <1>2, <1>3
  <2>2. steps[Len(steps)].soc = run.total[steps[Len(steps)].time]
    BY <1>1, <2>1 DEF Charged
  <2>3. QED BY <1>3, <2>2 DEF Last, Charged
<1>11. thTime \in 0..MaxTime
  BY <1>1, <1>3
<1>12. run.total[thTime] \in Int /\ run'.total[thTime] = run.total[thTime]
  BY <1>3, <1>4, <1>11 DEF Charged
<1>13. soc' = run'.total[elTime']
  BY <1>3, <1>4, <1>9, <1>10, <1>11, <1>12
<1>14. run' \in [total : [0..MaxTime -> Int], samples : SUBSET Nat]
  <2>1. \A t \in 0..MaxTime : (IF t <= thTime THEN run.total[t] ELSE 0) \in Int
    <3>1. run.total \in [0..MaxTime -> Int]
      BY DEF Charged
    <3>2. TAKE t \in 0..MaxTime
    <3>3. run.total[t] \in Int
      BY <3>1
    <3>4. QED BY <3>3
  <2>2. {x \in run.samples : x <= thTime} \in SUBSET Nat
    BY DEF Charged
  <2>3. QED BY <1>4, <2>1, <2>2
<1>15. QED BY <1>1, <1>13, <1>14 DEF Charged

\* a thermal substep forgets samples, but nothing else of the run
LEMMA SamplesOfSubstep ==
  ASSUME Charged, ThermalSubstep
  PROVE  /\ run'.total = run.total
         /\ run'.samples = {s \in run.samples : \A x \in run.samples : x <= thTime' => x <= s}
         /\ run' \in [total : [0..MaxTime -> Int], samples : SUBSET Nat]
<1> DEFINE kept == {s \in run.samples : \A x \in run.samples : x <= thTime' => x <= s}
<1>1. run' = [run EXCEPT !.samples = kept]
  BY DEF ThermalSubstep, RunIsFollowed
<1>2. run = [total |-> run.total, samples |-> run.samples] /\ kept \in SUBSET Nat
      /\ run.total \in [0..MaxTime -> Int]
  BY DEF Charged
<1>3. run' = [total |-> run.total, samples |-> kept]
  BY <1>1, <1>2
<1>4. QED BY <1>2, <1>3

LEMMA NextCharged ==
  ASSUME ProfileType, IInv, Charged, elTime <= MaxTime, elTime' <= MaxTime, [Next]_vars
  PROVE  Charged'
<1>1. CASE StartElectricalStep
  <2>1. pc' = "electrical" /\ UNCHANGED <<elTime, soc, run>>
        /\ steps' = <<Sample(elTime, states, soc)>>
    BY <1>1, SetCurrentKeepsCharge DEF StartElectricalStep, IInv, CouplingType, ProfileType
  <2>2. Len(steps') = 1 /\ steps'[1].time = elTime /\ steps'[1].soc = soc
    BY <2>1 DEF Sample
  <2>3. elTime \in Nat
    BY DEF IInv, CouplingType
  <2>4. QED BY <2>1, <2>2, <2>3 DEF Charged
<1>2. CASE EndElectricalStep \/ ThermalSubstep
  <2>1. UNCHANGED <<elTime, soc, steps>> /\ pc \in {"electrical", "thermal"}
    BY <1>2 DEF EndElectricalStep, ThermalSubstep, cell
  <2>2. run'.total = run.total /\ run' \in [total : [0..MaxTime -> Int], samples : SUBSET Nat]
    <3>1. CASE EndElectricalStep
      BY <3>1 DEF EndElectricalStep, Charged
    <3>2. CASE ThermalSubstep
      BY <3>2, SamplesOfSubstep
    <3>3. QED BY <1>2, <3>1, <3>2
  <2>3. PICK total : total = run.total /\ total = run'.total
    BY <2>2
  <2>4. soc' = run'.total[elTime']
    BY <2>1, <2>3 DEF Charged
  <2>5. /\ \A i \in 1..Len(steps) : steps[i].time <= elTime /\ steps[i].soc = total[steps[i].time]
        /\ \A i \in 1..(Len(steps) - 1) : Linear(total, steps[i], steps[i + 1])
    BY <2>1, <2>3 DEF Charged
  <2>6. /\ \A i \in 1..Len(steps') : steps'[i].time <= elTime' /\ steps'[i].soc = run'.total[steps'[i].time]
        /\ \A i \in 1..(Len(steps') - 1) : Linear(run'.total, steps'[i], steps'[i + 1])
    BY <2>1, <2>3, <2>5
  <2>7. QED BY <2>2, <2>4, <2>6 DEF Charged
<1>3. CASE InitializeSimulation \/ EndThermalStep \/ NextCycle \/ Finish
  <2>1. UNCHANGED <<elTime, soc, run>> /\ pc' \notin {"electrical", "thermal"}
    BY <1>3, SetCurrentKeepsCharge DEF InitializeSimulation, EndThermalStep, NextCycle, Finish, cell,
                                       IInv, CouplingType, ProfileType
  <2>2. QED BY <2>1 DEF Charged
<1>4. CASE UNCHANGED vars
  BY <1>4 DEF vars, Charged, Linear
<1>5. QED
  BY <1>1, <1>2, <1>3, <1>4, SubstepCharged, StopCharged DEF Next, Step, Terminated

-----------------------------------------------------------------------------
(* The power handed to the thermal simulation. *)

Heat == INSTANCE ThermalStateProofs WITH
          Power <- {0} \cup UNION {o.rates : o \in Options}, MaxEntries <- MaxTime + 1

\* The proofs about the record hold under its assumptions, which are met here.
LEMMA AssumptionsOfRecord ==
  /\ MaxTime \in Nat /\ MaxTime + 1 \in Nat \ {0}
  /\ ({0} \cup UNION {o.rates : o \in Options}) \subseteq Int
  /\ 0 \in {0} \cup UNION {o.rates : o \in Options}
BY ConstantsAssumption, OptionsAssumption

LEMMA HeldOfRecord == \A p, t : Heat!Held(p, t) = Thermal!Held(p, t)
BY DEF Heat!Held, Thermal!Held, Heat!Max, Thermal!Max

LEMMA SumOfRecord == \A f, first, n : Heat!SumOf(f, first, n) = Thermal!SumOf(f, first, n)
BY DEF Heat!SumOf, Thermal!SumOf

LEMMA EnergyOfRecord == \A p, start, end : Heat!Energy(p, start, end) = Thermal!Energy(p, start, end)
<1> TAKE p, start, end
<1> DEFINE held == [t \in start..(end - 1) |-> Heat!Held(p, t)]
<1>1. held = [t \in start..(end - 1) |-> Thermal!Held(p, t)]
  BY HeldOfRecord
<1>2. Heat!Energy(p, start, end) = Heat!SumOf(held, start, end - start)
  BY DEF Heat!Energy
<1>3. Thermal!Energy(p, start, end) = Thermal!SumOf(held, start, end - start)
  BY <1>1 DEF Thermal!Energy
<1>4. QED BY <1>2, <1>3, SumOfRecord

LEMMA RecordedOfRecord ==
  \A p, time, dt : Heat!RecordedEnergy(p, time, dt) = Thermal!RecordedEnergy(p, time, dt)
BY SumOfRecord DEF Heat!RecordedEnergy, Thermal!RecordedEnergy, Heat!FirstFrom, Thermal!FirstFrom,
                   Heat!Min, Thermal!Min

IsEnergyUpTo(sum, f, first, n) == IsSum(sum, f, first, n) /\ Thermal!SumOf(f, first, n) = sum[n]
HasEnergy(f, first, n) == \E sum \in [0..n -> Int] : IsEnergyUpTo(sum, f, first, n)

LEMMA EnergyExists ==
  ASSUME NEW n \in Nat, NEW first \in Nat, NEW f, \A i \in first..(first + n - 1) : f[i] \in Int
  PROVE  HasEnergy(f, first, n)
<1>1. Heat!HasSum(f, first, n)
  BY AssumptionsOfRecord, Heat!SumOfFacts
<1>2. PICK sum \in [0..n -> Int] : Heat!IsSumUpTo(sum, f, first, n)
  BY <1>1 DEF Heat!HasSum
<1>3. IsSum(sum, f, first, n) /\ Thermal!SumOf(f, first, n) = sum[n]
  BY <1>2, SumOfRecord DEF Heat!IsSumUpTo, Heat!IsSum, IsSum
<1>4. QED BY <1>3 DEF HasEnergy, IsEnergyUpTo

\* The samples of the surviving run, of which one is not behind the thermal time.  From
\* that time on, the record answers with them.
Sampled ==
  /\ \A s \in run.samples : s <= elTime
  /\ \E s \in run.samples : s <= thTime

Heated ==
  /\ Heat!InOrderOfTime(mPowerDissipations)
  /\ Sampled
  /\ \A t \in 0..MaxTime : thTime <= t => SampledPower(t) = Thermal!Held(mPowerDissipations, t)

LEMMA RecordOfCoupling ==
  ASSUME IInv
  PROVE  /\ EntryOfHeat = Heat!AnyEntry /\ EntryOfHeat \in SUBSET Heat!AnyEntry
         /\ mPowerDissipations \in Seq(EntryOfHeat) /\ mPowerDissipations # <<>>
         /\ Len(mPowerDissipations) \in Nat /\ Len(mPowerDissipations) >= 1
         /\ DOMAIN mPowerDissipations = 1..Len(mPowerDissipations)
         /\ \A i \in 1..Len(mPowerDissipations) :
              /\ mPowerDissipations[i] \in EntryOfHeat
              /\ mPowerDissipations[i].time \in Nat /\ mPowerDissipations[i].time <= elTime
<1>1. EntryOfHeat = Heat!AnyEntry /\ EntryOfHeat \in SUBSET Heat!AnyEntry
  BY DEF EntryOfHeat, Heat!AnyEntry
<1>2. mPowerDissipations \in Seq(EntryOfHeat) /\ mPowerDissipations # <<>>
  BY DEF IInv, CouplingType, Recorded
<1>3. /\ Len(mPowerDissipations) \in Nat /\ Len(mPowerDissipations) >= 1
      /\ DOMAIN mPowerDissipations = 1..Len(mPowerDissipations)
  BY <1>2, LenProperties, EmptySeq
<1>4. ASSUME NEW i \in 1..Len(mPowerDissipations)
      PROVE  /\ mPowerDissipations[i] \in EntryOfHeat
             /\ mPowerDissipations[i].time \in Nat /\ mPowerDissipations[i].time <= elTime
  <2>1. mPowerDissipations[i] \in EntryOfHeat
    BY <1>2, ElementOfSeq
  <2>2. QED BY <2>1 DEF EntryOfHeat, IInv, Recorded
<1>5. QED BY <1>1, <1>2, <1>3, <1>4

IsLatest(s, S, t) == s \in S /\ s <= t /\ \A x \in S : x <= t => x <= s
PowerAt(total, s) == IF s = 0 THEN 0 ELSE total[s] - total[s - 1]

LEMMA LatestSample ==
  ASSUME NEW S \in SUBSET Nat, NEW t \in Nat, NEW s \in Nat, IsLatest(s, S, t)
  PROVE  Max({x \in S : x <= t}) = s
<1> DEFINE upTo == {x \in S : x <= t}
<1>1. s \in upTo /\ upTo \in SUBSET (0..t)
  <2>1. s \in upTo
    BY DEF IsLatest
  <2>2. ASSUME NEW x \in upTo PROVE x \in 0..t
    BY <2>2
  <2> HIDE DEF upTo
  <2>3. QED BY <2>1, <2>2
<1>2. \A x \in upTo : x <= s
  BY DEF IsLatest
<1> HIDE DEF upTo
<1>3. Max(upTo) \in upTo /\ Max(upTo) >= s
  BY <1>1, GreatestNumber
<1>4. Max(upTo) <= s /\ Max(upTo) \in Nat
  <2>1. PICK m \in 0..t : m = Max(upTo)
    BY <1>1, <1>3
  <2>2. QED BY <1>2, <1>3, <2>1
<1>5. Max(upTo) = s
  BY <1>3, <1>4
<1>6. QED BY <1>5 DEF upTo

\* which sample holds at a time from the thermal time on
HasSample(t) ==
  \E s \in 0..elTime : IsLatest(s, run.samples, t) /\ SampledPower(t) = PowerAt(run.total, s)

LEMMA SampleAt ==
  ASSUME Charged, Sampled, elTime \in Nat, thTime \in Nat, NEW t \in Nat, thTime <= t
  PROVE  HasSample(t)
<1> DEFINE upTo == {x \in run.samples : x <= t}
           s == Max(upTo)
<1>1. upTo \in SUBSET (0..t) /\ upTo \in SUBSET (0..elTime)
  BY DEF Charged, Sampled
<1>2. PICK first \in run.samples : first <= thTime
  BY DEF Sampled
<1>3. first \in upTo
  <2>1. first \in Nat
    BY DEF Charged
  <2>2. QED BY <1>2, <2>1
<1>4. SampledPower(t) = PowerAt(run.total, s)
  BY DEF SampledPower, PowerAt
<1> HIDE DEF upTo, s
<1>5. s \in upTo /\ \A x \in upTo : s >= x
  BY <1>1, <1>3, GreatestNumber DEF s
<1>6. s \in 0..elTime
  BY <1>1, <1>5
<1>7. IsLatest(s, run.samples, t)
  <2>1. s \in run.samples /\ s <= t
    BY <1>5 DEF upTo
  <2>2. ASSUME NEW x \in run.samples, x <= t PROVE x <= s
    <3>1. x \in upTo /\ x \in Int /\ s \in Int
      BY <1>6, <2>2 DEF upTo, Charged
    <3>2. QED BY <1>5, <3>1
  <2>3. QED BY <2>1, <2>2 DEF IsLatest
<1>8. QED BY <1>4, <1>6, <1>7 DEF HasSample

\* the same sample and the same totals: the same power
LEMMA SamePower ==
  ASSUME NEW s \in Nat, NEW u \in [0..MaxTime -> Int], NEW v \in [0..MaxTime -> Int],
         s <= MaxTime, \A t \in 0..s : u[t] = v[t]
  PROVE  PowerAt(u, s) = PowerAt(v, s)
<1>1. s \in 0..s /\ (s # 0 => s - 1 \in 0..s)
  OBVIOUS
<1>2. QED BY <1>1 DEF PowerAt

\* The power of a substep holds from its end on, whatever was sampled before holds in front.
LEMMA SubstepSampled ==
  ASSUME ProfileType, IInv, Charged, Sampled, elTime' <= MaxTime, NEW r \in options.rates,
         elTime' \in Nat, elTime < elTime', thTime <= elTime, thTime' = thTime, RunGoesOn(r),
         NEW t \in 0..MaxTime, thTime <= t
  PROVE  Sampled' /\ SampledPower(t)' = IF t >= elTime' THEN r ELSE SampledPower(t)
<1>1. /\ r \in Nat /\ elTime \in Nat /\ thTime \in Nat /\ MaxTime \in Nat /\ t \in Nat
      /\ elTime \in 0..MaxTime /\ elTime' \in 0..MaxTime
  BY OptionsAssumption, ConstantsAssumption DEF ProfileType, IInv, CouplingType
<1>2. run.total \in [0..MaxTime -> Int] /\ run.samples \in SUBSET Nat
  BY DEF Charged
<1>3. /\ run'.samples = run.samples \cup {elTime'}
      /\ run'.total = [u \in 0..MaxTime |->
                         IF u \in elTime..elTime' THEN run.total[elTime] + r * (u - elTime) ELSE run.total[u]]
  BY DEF RunGoesOn
<1>4. run'.samples \in SUBSET Nat
  BY <1>1, <1>2, <1>3
<1>5. \A x \in run.samples : x \in Nat /\ x <= elTime
  BY <1>2 DEF Sampled
<1>6. Sampled'
  <2>1. \A x \in run'.samples : x <= elTime'
    BY <1>1, <1>3, <1>5
  <2>2. \E x \in run'.samples : x <= thTime'
    BY <1>3 DEF Sampled
  <2>3. QED BY <2>1, <2>2 DEF Sampled
<1>7. CASE t >= elTime'
  <2>1. IsLatest(elTime', run'.samples, t)
    BY <1>1, <1>3, <1>5, <1>7 DEF IsLatest
  <2>2. SampledPower(t)' = PowerAt(run'.total, elTime')
    <3>1. Max({x \in run'.samples : x <= t}) = elTime'
      BY <1>1, <1>4, <2>1, LatestSample
    <3>2. QED BY <3>1 DEF SampledPower, PowerAt
  <2>3. PICK c \in Int, a \in Nat, b \in Nat : c = run.total[elTime] /\ a = elTime /\ b = elTime'
    BY <1>1, <1>2
  <2>4. b \in a..b /\ b - 1 \in a..b /\ b \in 0..MaxTime /\ b - 1 \in 0..MaxTime /\ b # 0
    <3>1. a < b /\ b <= MaxTime /\ MaxTime \in Nat
      BY <1>1, <2>3
    <3>2. QED BY <3>1, LastTick
  <2>5. run'.total[b] = c + r * (b - a) /\ run'.total[b - 1] = c + r * ((b - 1) - a)
    BY <1>3, <2>3, <2>4
  <2>6. (c + r * (b - a)) - (c + r * ((b - 1) - a)) = r
    BY <1>1, LastIncrease
  <2>7. PowerAt(run'.total, b) = r
    BY <2>4, <2>5, <2>6 DEF PowerAt
  <2>8. QED BY <1>6, <1>7, <2>2, <2>3, <2>7
<1>8. CASE ~(t >= elTime')
  <2>1. PICK s \in 0..elTime : IsLatest(s, run.samples, t) /\ SampledPower(t) = PowerAt(run.total, s)
    BY <1>1, SampleAt DEF HasSample
  <2>2. IsLatest(s, run'.samples, t)
    BY <1>1, <1>3, <1>8, <2>1 DEF IsLatest
  <2>3. SampledPower(t)' = PowerAt(run'.total, s)
    <3>1. s \in Nat
      BY <2>1
    <3>2. Max({x \in run'.samples : x <= t}) = s
      BY <1>1, <1>4, <2>2, <3>1, LatestSample
    <3>3. QED BY <3>2 DEF SampledPower, PowerAt
  <2>4. PowerAt(run'.total, s) = PowerAt(run.total, s)
    <3>1. \A u \in 0..s : run'.total[u] = run.total[u]
      <4>1. TAKE u \in 0..s
      <4>2. u \in 0..MaxTime /\ u \in Int /\ run.total[u] \in Int /\ u <= elTime
        BY <1>1, <1>2, <2>1
      <4>3. CASE u = elTime
        <5>1. r * (u - elTime) = 0 /\ u \in elTime..elTime'
          BY <1>1, <4>3
        <5>2. run'.total[u] = run.total[elTime] + r * (u - elTime)
          BY <1>3, <4>2, <5>1
        <5>3. QED BY <4>2, <4>3, <5>1, <5>2
      <4>4. CASE u # elTime
        <5>1. u \notin elTime..elTime'
          BY <1>1, <4>2, <4>4
        <5>2. QED BY <1>3, <4>2, <5>1
      <4>5. QED BY <4>3, <4>4
    <3>2. run'.total \in [0..MaxTime -> Int] /\ s \in Nat /\ s <= MaxTime
      <4>1. ASSUME NEW u \in 0..MaxTime
            PROVE  (IF u \in elTime..elTime' THEN run.total[elTime] + r * (u - elTime) ELSE run.total[u]) \in Int
        BY <1>1, <1>2
      <4>2. s \in Nat /\ s <= MaxTime
        BY <1>1, <2>1
      <4>3. QED BY <1>3, <4>1, <4>2
    <3>3. QED BY <1>2, <3>1, <3>2, SamePower
  <2>5. QED BY <1>6, <1>8, <2>1, <2>3, <2>4
<1>9. QED BY <1>7, <1>8

\* what a thermal substep forgets is not asked for again
LEMMA ThermalSampled ==
  ASSUME IInv, Charged, Sampled, ThermalSubstep, NEW t \in Nat, thTime' <= t
  PROVE  Sampled' /\ SampledPower(t)' = SampledPower(t)
<1>1. /\ thTime \in Nat /\ elTime \in Nat /\ thTime' \in Nat /\ thTime < thTime'
      /\ thTime <= t /\ elTime' = elTime
  BY ThermalSubstepStep DEF IInv, CouplingType
<1>2. /\ run'.total = run.total
      /\ run'.samples = {s \in run.samples : \A x \in run.samples : x <= thTime' => x <= s}
      /\ run.samples \in SUBSET Nat
  BY SamplesOfSubstep DEF Charged
<1>3. ASSUME NEW u \in Nat, thTime' <= u, NEW s \in Nat, IsLatest(s, run.samples, u)
      PROVE  IsLatest(s, run'.samples, u)
  <2>1. ASSUME NEW x \in run.samples, x <= thTime' PROVE x <= s
    <3>1. x \in Nat /\ x <= u
      BY <1>1, <1>2, <1>3, <2>1
    <3>2. QED BY <1>3, <3>1 DEF IsLatest
  <2>2. QED BY <1>2, <1>3, <2>1 DEF IsLatest
<1>4. Sampled'
  <2>1. \A x \in run'.samples : x <= elTime'
    BY <1>1, <1>2 DEF Sampled
  <2>2. PICK s \in 0..elTime : IsLatest(s, run.samples, thTime')
    BY <1>1, SampleAt DEF HasSample
  <2>3. s \in Nat /\ IsLatest(s, run'.samples, thTime')
    <3>1. s \in Nat /\ thTime' <= thTime'
      BY <1>1, <2>2
    <3>2. QED BY <1>1, <1>3, <2>2, <3>1
  <2>4. QED BY <2>1, <2>3 DEF Sampled, IsLatest
<1>5. PICK s \in 0..elTime : IsLatest(s, run.samples, t) /\ SampledPower(t) = PowerAt(run.total, s)
  BY <1>1, SampleAt DEF HasSample
<1>6. s \in Nat /\ run'.samples \in SUBSET Nat
  BY <1>2, <1>5
<1>7. Max({x \in run'.samples : x <= t}) = s
  <2>1. IsLatest(s, run'.samples, t)
    BY <1>3, <1>5, <1>6
  <2>2. QED BY <1>6, <2>1, LatestSample
<1>8. SampledPower(t)' = PowerAt(run'.total, s)
  BY <1>7 DEF SampledPower, PowerAt
<1>9. QED BY <1>2, <1>4, <1>5, <1>8

\* a rollback leaves the power that holds at its time
LEMMA StopSampled ==
  ASSUME IInv, Charged, Sampled, elTime <= MaxTime, ThermalStop, NEW t \in Nat, thTime <= t
  PROVE  Sampled' /\ SampledPower(t)' = SampledPower(thTime)
<1>1. /\ thTime \in Nat /\ elTime \in Nat /\ MaxTime \in Nat /\ thTime < elTime
      /\ thTime' = thTime /\ elTime' = thTime /\ ~RefusesReset(thTime)
  BY ThermalStopStep, ResetAccepted, ConstantsAssumption
     DEF ResetStatesToPointOfTime, ThermalStop, IInv, CouplingType
<1>2. /\ run'.total = [u \in 0..MaxTime |-> IF u <= thTime THEN run.total[u] ELSE 0]
      /\ run'.samples = {x \in run.samples : x <= thTime}
      /\ run.total \in [0..MaxTime -> Int] /\ run.samples \in SUBSET Nat
  <2>1. RunIsCut
    BY <1>1 DEF ThermalStop
  <2>2. run.total \in [0..MaxTime -> Int] /\ run.samples \in SUBSET Nat
    BY DEF Charged
  <2>3. run' = [total   |-> [u \in 0..MaxTime |-> IF u <= thTime THEN run.total[u] ELSE 0],
                samples |-> {x \in run.samples : x <= thTime}]
    BY <2>1 DEF RunIsCut
  <2>4. QED BY <2>2, <2>3
<1>3. Sampled'
  BY <1>1, <1>2 DEF Sampled
<1>4. PICK s \in 0..elTime : IsLatest(s, run.samples, thTime) /\ SampledPower(thTime) = PowerAt(run.total, s)
  BY <1>1, SampleAt DEF HasSample
<1>5. s \in Nat /\ s <= thTime /\ run'.samples \in SUBSET Nat
  BY <1>2, <1>4 DEF IsLatest
<1>6. IsLatest(s, run'.samples, t)
  BY <1>1, <1>2, <1>4, <1>5 DEF IsLatest
<1>7. Max({x \in run'.samples : x <= t}) = s
  BY <1>5, <1>6, LatestSample
<1>8. SampledPower(t)' = PowerAt(run'.total, s)
  BY <1>7 DEF SampledPower, PowerAt
<1>9. PowerAt(run'.total, s) = PowerAt(run.total, s)
  <2>1. \A u \in 0..s : run'.total[u] = run.total[u]
    BY <1>1, <1>2, <1>5
  <2>2. run'.total \in [0..MaxTime -> Int] /\ s <= MaxTime
    BY <1>1, <1>2, <1>5
  <2>3. QED BY <1>2, <1>5, <2>1, <2>2, SamePower
<1>10. QED BY <1>3, <1>4, <1>8, <1>9

\* an entry behind a time does not change what holds at it
LEMMA HeldInFront ==
  ASSUME NEW p \in Seq(EntryOfHeat), p # <<>>, NEW q \in Seq(EntryOfHeat), NEW t \in Nat,
         p[1].time <= t, Len(q) = Len(p) + 1, ~(q[Len(p) + 1].time <= t),
         \A i \in 1..Len(p) : q[i] = p[i]
  PROVE  Thermal!Held(q, t) = Thermal!Held(p, t)
<1> DEFINE upTo == {i \in DOMAIN p : p[i].time <= t}
           k == Max(upTo)
<1>1. Len(p) \in Nat /\ Len(p) >= 1 /\ DOMAIN p = 1..Len(p) /\ DOMAIN q = 1..(Len(p) + 1)
  BY LenProperties, EmptySeq
<1>2. upTo \in SUBSET (1..Len(p)) /\ 1 \in upTo
  BY <1>1
<1>3. {i \in DOMAIN q : q[i].time <= t} = upTo
  BY <1>1
<1>4. Thermal!Held(q, t) = q[k].value /\ Thermal!Held(p, t) = p[k].value
  BY <1>3 DEF Thermal!Held, Thermal!Max, Max
<1> HIDE DEF upTo
<1>5. k \in upTo
  BY <1>1, <1>2, GreatestElement
<1>6. QED BY <1>2, <1>4, <1>5

LEMMA InitHeated == Init => Heated
<1> SUFFICES ASSUME Init PROVE Heated
  OBVIOUS
<1> DEFINE p == mPowerDissipations
<1>1. p = <<[value |-> 0, time |-> 0]>> /\ thTime = 0 /\ elTime = 0
      /\ run = [total |-> [t \in 0..MaxTime |-> 0], samples |-> {0}]
  BY DEF Init, Thermal!Init
<1>2. p \in Seq(EntryOfHeat) /\ Len(p) = 1 /\ p[1].time = 0 /\ p[1].value = 0
  BY <1>1 DEF EntryOfHeat
<1>3. Heat!InOrderOfTime(p)
  BY <1>2 DEF Heat!InOrderOfTime
<1>4. Sampled
  BY <1>1 DEF Sampled
<1>5. ASSUME NEW t \in 0..MaxTime PROVE SampledPower(t) = Thermal!Held(p, t)
  <2>1. t \in Nat /\ 1 \in 1..Len(p) /\ \A i \in 1..Len(p) : p[i].time <= t <=> i <= 1
    BY <1>2, ConstantsAssumption
  <2> HIDE DEF p
  <2>2. Heat!Held(p, t) = p[1].value
    BY <1>2, <2>1, AssumptionsOfRecord, Heat!HeldAt
  <2>3. Max({x \in run.samples : x <= t}) = 0
    <3>1. run.samples \in SUBSET Nat /\ 0 \in Nat /\ IsLatest(0, run.samples, t)
      BY <1>1, <2>1 DEF IsLatest
    <3>2. QED BY <2>1, <3>1, LatestSample
  <2>4. SampledPower(t) = 0
    BY <2>3 DEF SampledPower
  <2>5. QED BY <1>2, <2>2, <2>4, HeldOfRecord
<1>6. QED BY <1>3, <1>4, <1>5 DEF Heated

LEMMA StartHeated ==
  ASSUME IInv, Charged, Heated, elTime <= MaxTime, StartElectricalStep
  PROVE  Heated'
<1> DEFINE p == mPowerDissipations
           n == Len(p)
<1>1. pc = "cycle" /\ Thermal!ResetPowerDissipation /\ UNCHANGED <<thTime, run, elTime>>
  BY DEF StartElectricalStep, thermal
<1>2. n \in 1..n /\ n \in Nat /\ p \in Seq(EntryOfHeat) /\ p # <<>> /\ \A i \in 1..n : p[i].time \in Nat
  BY RecordOfCoupling
<1>3. p' = <<p[n]>>
  BY <1>1, <1>2 DEF Thermal!ResetPowerDissipation, Thermal!Last
<1>4. Heat!ResetPowerDissipation /\ Heat!Ascending /\ Heat!LastTime = p[n].time
  <2>1. Heat!ResetPowerDissipation
    BY <1>1 DEF Thermal!ResetPowerDissipation, Thermal!Last, Heat!ResetPowerDissipation, Heat!Last
  <2>2. QED BY <1>2, <2>1 DEF Heated, Heat!InOrderOfTime, Heat!Ascending, Heat!LastTime, Heat!Last
<1>5. ASSUME NEW t \in 0..MaxTime, thTime' <= t PROVE SampledPower(t)' = Thermal!Held(p', t)
  <2>1. t \in Nat /\ Heat!LastTime <= t
    <3>1. p[n].time <= elTime /\ thTime = elTime
      BY <1>1, <1>2, RecordOfCoupling DEF IInv, Phases
    <3>2. t \in Nat /\ p[n].time \in Nat /\ elTime \in Nat
      BY <1>2, ConstantsAssumption DEF IInv, CouplingType
    <3>3. QED BY <1>1, <1>4, <1>5, <3>1, <3>2
  <2>2. Heat!Held(p', t) = Heat!Held(p, t)
    BY <1>2, <1>4, <2>1, RecordOfCoupling, AssumptionsOfRecord, Heat!ResetKeeps
  <2>3. SampledPower(t)' = SampledPower(t)
    BY <1>1 DEF SampledPower
  <2>4. QED BY <1>1, <1>5, <2>2, <2>3, HeldOfRecord DEF Heated
<1>6. Heat!InOrderOfTime(p')
  BY <1>2, <1>3 DEF Heat!InOrderOfTime
<1>7. Sampled'
  BY <1>1 DEF Heated, Sampled
<1>8. QED BY <1>5, <1>6, <1>7 DEF Heated

LEMMA ElectricalHeated ==
  ASSUME ProfileType, IInv, Charged, Heated, elTime' <= MaxTime, ElectricalSubstep
  PROVE  Heated'
<1> DEFINE p == mPowerDissipations
           n == Len(p)
<1>1. PICK d \in 1..(LoopStopTime - elTime), r \in options.rates :
       /\ elTime' = elTime + d
       /\ Thermal!AddPowerDissipation(r, elTime')
       /\ RunGoesOn(r)
  BY DEF ElectricalSubstep
<1>2. pc = "electrical" /\ thTime' = thTime
  BY DEF ElectricalSubstep, thermal
<1>3. r \in Nat /\ elTime \in Nat /\ elTime' \in Nat /\ elTime < elTime'
      /\ thTime \in Nat /\ thTime <= elTime
  BY <1>1, <1>2, OptionsAssumption DEF ProfileType, IInv, CouplingType, Phases
<1> DEFINE entry == [value |-> r, time |-> elTime']
<1>4. entry \in EntryOfHeat /\ entry.time = elTime' /\ entry.value = r
  BY <1>3 DEF EntryOfHeat
<1>5. p' = Append(p, entry)
  BY <1>1 DEF Thermal!AddPowerDissipation
<1> HIDE DEF entry
<1>6. /\ n \in Nat /\ n >= 1 /\ p \in Seq(EntryOfHeat) /\ p # <<>>
      /\ \A i \in 1..n : p[i].time \in Nat /\ p[i].time <= elTime
  BY RecordOfCoupling
<1>7. /\ p' \in Seq(EntryOfHeat) /\ Len(p') = n + 1 /\ p'[n + 1] = entry
      /\ \A i \in 1..n : p'[i] = p[i]
  BY <1>4, <1>5, <1>6, AppendFacts
<1>8. ASSUME NEW i \in 1..Len(p'), NEW j \in 1..Len(p'), i <= j PROVE p'[i].time <= p'[j].time
  <2>1. CASE j = n + 1
    <3>1. CASE i = n + 1
      BY <1>3, <1>4, <1>7, <2>1, <3>1
    <3>2. CASE i # n + 1
      <4>1. i \in 1..n
        BY <1>6, <1>7, <3>2
      <4>2. p[i].time \in Nat /\ p[i].time <= elTime
        BY <1>6, <4>1
      <4>3. QED BY <1>3, <1>4, <1>7, <2>1, <4>1, <4>2
    <3>3. QED BY <3>1, <3>2
  <2>2. CASE j # n + 1
    <3>1. i \in 1..n /\ j \in 1..n
      BY <1>6, <1>7, <1>8, <2>2
    <3>2. p[i].time <= p[j].time
      BY <1>8, <3>1 DEF Heated, Heat!InOrderOfTime
    <3>3. QED BY <1>7, <3>1, <3>2
  <2>3. QED BY <2>1, <2>2
<1>9. ASSUME NEW t \in 0..MaxTime, thTime <= t
      PROVE  Sampled' /\ SampledPower(t)' = IF t >= elTime' THEN r ELSE SampledPower(t)
  BY <1>1, <1>2, <1>3, <1>9, SubstepSampled DEF Heated
<1>10. ASSUME NEW t \in 0..MaxTime, thTime' <= t PROVE SampledPower(t)' = Thermal!Held(p', t)
  <2>1. t \in Nat /\ 1 \in 1..n /\ p'[1] = p[1] /\ thTime <= t
    BY <1>2, <1>6, <1>7, <1>10, ConstantsAssumption
  <2>2. CASE t >= elTime'
    <3> DEFINE q == p'
    <3>1. \A i \in 1..Len(q) : q[i].time <= t <=> i <= n + 1
      <4> TAKE i \in 1..Len(q)
      <4>1. CASE i = n + 1
        BY <1>3, <1>4, <1>6, <1>7, <2>2, <4>1
      <4>2. CASE i # n + 1
        <5>1. i \in 1..n /\ i <= n + 1
          BY <1>6, <1>7, <4>2
        <5>2. p[i].time \in Nat /\ p[i].time <= elTime /\ q[i] = p[i]
          BY <1>6, <1>7, <5>1
        <5>3. QED BY <1>3, <2>1, <2>2, <5>1, <5>2
      <4>3. QED BY <4>1, <4>2
    <3>2. q \in Seq(EntryOfHeat) /\ n + 1 \in 1..Len(q) /\ q[n + 1].value = r
      BY <1>4, <1>6, <1>7
    <3> HIDE DEF q
    <3>3. Heat!Held(q, t) = q[n + 1].value
      BY <2>1, <3>1, <3>2, AssumptionsOfRecord, Heat!HeldAt
    <3>4. QED BY <1>9, <2>1, <2>2, <3>2, <3>3, HeldOfRecord DEF q
  <2>3. CASE ~(t >= elTime')
    <3> DEFINE q == p'
    <3>1. SampledPower(t)' = SampledPower(t) /\ SampledPower(t) = Thermal!Held(p, t)
      BY <1>9, <2>1, <2>3 DEF Heated
    <3>2. /\ q \in Seq(EntryOfHeat) /\ Len(q) = Len(p) + 1 /\ ~(q[Len(p) + 1].time <= t)
          /\ \A i \in 1..Len(p) : q[i] = p[i]
      BY <1>3, <1>4, <1>7, <2>1, <2>3
    <3>3. p[1].time <= t
      <4>1. p[1].time \in Nat /\ p[1].time <= thTime
        BY <1>6, <2>1 DEF IInv, Recorded
      <4>2. QED BY <1>3, <2>1, <4>1
    <3> HIDE DEF q, p
    <3>4. Thermal!Held(q, t) = Thermal!Held(p, t)
      BY <1>6, <2>1, <3>2, <3>3, HeldInFront
    <3>5. QED BY <3>1, <3>4 DEF q
  <2>4. QED BY <2>2, <2>3
<1>11. Sampled'
  <2>1. elTime \in 0..MaxTime /\ thTime <= elTime
    BY <1>3, ConstantsAssumption
  <2>2. QED BY <1>9, <2>1
<1>12. Heat!InOrderOfTime(p')
  BY <1>8 DEF Heat!InOrderOfTime
<1>13. QED BY <1>10, <1>11, <1>12 DEF Heated

LEMMA ThermalHeated ==
  ASSUME IInv, Charged, Heated, ThermalSubstep
  PROVE  Heated'
<1>1. /\ UNCHANGED <<mPowerDissipations, elTime>> /\ thTime' \in Nat /\ thTime < thTime'
      /\ thTime \in Nat
  BY ThermalSubstepStep DEF IInv, CouplingType
<1>2. ASSUME NEW t \in 0..MaxTime, thTime' <= t
      PROVE  SampledPower(t)' = Thermal!Held(mPowerDissipations, t)
  <2>1. t \in Nat /\ thTime <= t
    BY <1>1, <1>2, ConstantsAssumption
  <2>2. SampledPower(t)' = SampledPower(t)
    BY <1>2, <2>1, ThermalSampled DEF Heated
  <2>3. QED BY <2>1, <2>2 DEF Heated
<1>3. Sampled'
  <2>1. thTime' <= thTime'
    BY <1>1
  <2>2. QED BY <1>1, <2>1, ThermalSampled DEF Heated
<1>4. QED BY <1>1, <1>2, <1>3 DEF Heated

\* The heat that a thermal substep asks for is that of the samples in it, and of the
\* entries of the record.
TakesSamples ==
  LET dt == thTime' - thTime
      sampled == [t \in thTime..(thTime' - 1) |-> SampledPower(t)]
      held == [t \in thTime..(thTime' - 1) |-> Thermal!Held(mPowerDissipations, t)]
  IN /\ source' = [energy |-> Thermal!SumOf(sampled, thTime, dt), dt |-> dt]
     /\ sampled = held

LEMMA Duration ==
  ASSUME NEW a \in Nat, NEW b \in Nat, a < b
  PROVE  b - a \in Nat /\ b - a >= 1 /\ b - a <= b /\ b - (b - a) = a
OBVIOUS

LEMMA TicksOfSubstep ==
  ASSUME NEW a \in Nat, NEW b \in Nat, NEW m \in Nat, b <= m, NEW t \in a..(b - 1)
  PROVE  t \in 0..m /\ a <= t
OBVIOUS

LEMMA ThermalTakes ==
  ASSUME IInv, Charged, Heated, elTime <= MaxTime, ThermalSubstep
  PROVE  TakesSamples
<1> DEFINE p == mPowerDissipations
           d == thTime' - thTime
<1>1. /\ pc = "thermal" /\ thTime' <= elTime /\ thTime < thTime' /\ thTime' \in Nat
      /\ source' = [energy |-> Thermal!EnergyTaken(thTime', thTime' - mLastTime), dt |-> thTime' - mLastTime]
  BY ThermalSubstepStep
<1>2. /\ thTime \in Nat /\ elTime \in Nat /\ MaxTime \in Nat /\ thTime < elTime /\ mLastTime = thTime
  BY <1>1, ConstantsAssumption DEF IInv, CouplingType, Recorded
<1>3. d \in Nat /\ d >= 1 /\ d <= thTime' /\ thTime' - d = thTime
  <2>1. PICK a \in Nat, b \in Nat : a = thTime /\ b = thTime' /\ a < b
    BY <1>1, <1>2
  <2>2. QED BY <2>1, Duration
<1>4. /\ p \in Seq(Heat!AnyEntry) /\ p # <<>> /\ 1 \in 1..Len(p) /\ p[1].time \in Nat /\ p[1].time <= thTime
  BY RecordOfCoupling DEF IInv, Recorded
<1>5. Heat!Answerable(p, thTime', d)
  <2>1. thTime < Thermal!LastTime
    BY <1>1, <1>2, RecordInFront DEF RecordNotOutrun
  <2>2. Thermal!LastTime = Heat!Last(p).time
    BY <1>4 DEF Thermal!LastTime, Thermal!Last, Heat!Last
  <2> HIDE DEF d
  <2>3. QED BY <1>3, <1>4, <2>1, <2>2 DEF Heat!Answerable
<1>6. source' = [energy |-> Thermal!RecordedEnergy(p, thTime', d), dt |-> d]
  BY <1>1, <1>2, <1>4 DEF Thermal!EnergyTaken
<1>7. Thermal!RecordedEnergy(p, thTime', d) = Thermal!Energy(p, thTime, thTime')
  <2>1. Heat!InOrderOfTime(p)
    BY DEF Heated
  <2>2. PICK time \in Nat : time = thTime'
    BY <1>1
  <2> HIDE DEF p, d
  <2>3. Heat!RecordedEnergy(p, time, d) = Heat!Energy(p, time - d, time)
    BY <1>3, <1>4, <1>5, <2>1, <2>2, AssumptionsOfRecord, Heat!RecordedEnergyIsHeld
  <2>4. QED BY <1>3, <2>2, <2>3, EnergyOfRecord, RecordedOfRecord
<1> DEFINE sampled == [t \in thTime..(thTime' - 1) |-> SampledPower(t)]
           held == [t \in thTime..(thTime' - 1) |-> Thermal!Held(p, t)]
<1>8. sampled = held
  <2>1. ASSUME NEW t \in thTime..(thTime' - 1) PROVE SampledPower(t) = Thermal!Held(p, t)
    <3>1. thTime' <= MaxTime
      BY <1>1, <1>2
    <3>2. PICK a \in Nat, b \in Nat : a = thTime /\ b = thTime' /\ b <= MaxTime
      BY <1>1, <1>2, <3>1
    <3>3. t \in a..(b - 1)
      BY <3>2
    <3>4. t \in 0..MaxTime /\ thTime <= t
      BY <1>2, <3>2, <3>3, TicksOfSubstep
    <3>5. QED BY <3>4 DEF Heated
  <2>2. QED BY <2>1
<1>9. Thermal!Energy(p, thTime, thTime') = Thermal!SumOf(held, thTime, d)
  BY DEF Thermal!Energy
<1> HIDE DEF sampled, held
<1>10. source' = [energy |-> Thermal!SumOf(sampled, thTime, d), dt |-> d]
  BY <1>6, <1>7, <1>8, <1>9
<1>11. QED BY <1>8, <1>10 DEF TakesSamples, sampled, held

LEMMA StopHeated ==
  ASSUME IInv, Charged, Heated, elTime <= MaxTime, ThermalStop
  PROVE  Heated'
<1> DEFINE p == mPowerDissipations
<1>1. /\ pc = "thermal" /\ thTime < elTime /\ tooHot /\ thTime' = thTime
      /\ Thermal!ResetPowerDissipationToTime(thTime)
  BY ThermalStopStep DEF ResetStatesToPointOfTime
<1>2. ASSUME NEW t \in Nat, thTime <= t PROVE Sampled' /\ SampledPower(t)' = SampledPower(thTime)
  BY <1>2, StopSampled DEF Heated
<1>3. /\ thTime \in Nat /\ thTime \in 0..MaxTime /\ p \in Seq(EntryOfHeat) /\ p # <<>>
      /\ p[1].time <= thTime /\ p[1].time \in Nat
  <2>1. thTime \in Nat /\ thTime \in 0..MaxTime
    BY <1>1, ConstantsAssumption DEF IInv, CouplingType
  <2>2. QED BY <2>1, RecordOfCoupling DEF IInv, Recorded
<1>4. Heat!ResetPowerDissipationToTime(thTime) /\ Heat!Ascending
  <2>1. Heat!ResetPowerDissipationToTime(thTime)
    BY <1>1 DEF Thermal!ResetPowerDissipationToTime, Thermal!Min, Heat!ResetPowerDissipationToTime, Heat!Min
  <2>2. QED BY <2>1 DEF Heated, Heat!InOrderOfTime, Heat!Ascending
<1>5. PICK m \in 0..Len(p) : Len(p') = m /\ \A i \in 1..m : p'[i] = p[i]
  BY <1>3, <1>4, RecordOfCoupling, AssumptionsOfRecord, Heat!ResetToTimePrefix
<1>6. Heat!InOrderOfTime(p')
  <2>1. \A i \in 1..Len(p') : i \in 1..Len(p) /\ p'[i] = p[i]
    BY <1>5, RecordOfCoupling
  <2>2. QED BY <2>1 DEF Heated, Heat!InOrderOfTime
<1>7. p'[1] = p[1]
  BY <1>1, <1>3, ResetToTimeFacts
<1>8. \A t \in Nat : p[1].time <= t => Heat!Held(p', t) = Heat!Held(p, IF t < thTime THEN t ELSE thTime)
  BY <1>3, <1>4, RecordOfCoupling, AssumptionsOfRecord, Heat!ResetToTimeKeeps
<1>9. ASSUME NEW t \in 0..MaxTime, thTime' <= t PROVE SampledPower(t)' = Thermal!Held(p', t)
  <2>1. t \in Nat /\ thTime <= t /\ p[1].time <= t /\ thTime <= thTime
    BY <1>1, <1>3, <1>9, ConstantsAssumption
  <2>2. Thermal!Held(p', t) = Thermal!Held(p, thTime)
    <3>1. (IF t < thTime THEN t ELSE thTime) = thTime
      BY <1>3, <2>1
    <3>2. QED BY <1>8, <2>1, <3>1, HeldOfRecord
  <2>3. SampledPower(thTime) = Thermal!Held(p, thTime)
    BY <1>3, <2>1 DEF Heated
  <2>4. QED BY <1>2, <2>1, <2>2, <2>3
<1>10. Sampled'
  <2>1. thTime <= thTime
    BY <1>3
  <2>2. QED BY <1>2, <1>3, <2>1
<1>11. QED BY <1>6, <1>9, <1>10 DEF Heated

LEMMA NextHeated ==
  ASSUME ProfileType, IInv, Charged, Heated, elTime <= MaxTime, elTime' <= MaxTime, [Next]_vars
  PROVE  Heated'
<1>1. CASE InitializeSimulation \/ EndElectricalStep \/ EndThermalStep \/ NextCycle \/ Finish \/ UNCHANGED vars
  <2>1. UNCHANGED <<mPowerDissipations, elTime, thTime, run>>
    BY <1>1 DEF InitializeSimulation, EndElectricalStep, EndThermalStep, NextCycle, Finish, vars,
                thermal, record, cell
  <2>2. QED BY <2>1 DEF Heated, Sampled, SampledPower
<1>2. QED
  BY <1>1, StartHeated, ElectricalHeated, ThermalHeated, StopHeated DEF Next, Step, Terminated

-----------------------------------------------------------------------------
(* The load without voltage limits: no segment is skipped, so the profile is   *)
(* that of the file, moved by the cycles before.                               *)

\* the load was set for the value of the index
Loaded == mProfileChangeTime = Profile!GetTimeUntilMaxValueDeviation /\ current = mValue

\* the simulation is in the profile, which was moved c times
InCycle(c) ==
  /\ Profile!Valid(mTimesData)
  /\ mTimesDataInitial = mTimesData
  /\ c \in Nat
  /\ mTimesData[1] = c * mCycleLength
  /\ Last(mTimesData) = (c + 1) * mCycleLength
  /\ mSimulationDuration = Last(mTimesData)
  /\ mTimesData[1] <= elTime /\ elTime <= mSimulationDuration

Planned == InCycle(cycle)

\* where the index is, and the load that was set for it
Following ==
  /\ mValue = mValuesData[mIndex]
  /\ pc = "init" => elTime = mTimesData[1]
  /\ pc # "init" => mIndex < Len(mTimesData) \/ Len(mTimesData) = 1
  /\ pc \in {"electrical", "thermal"} =>
       /\ mIndex < Len(mTimesData) /\ Loaded
       /\ mTimesData[mIndex] <= steps[1].time /\ elTime <= mProfileChangeTime
  /\ pc \notin {"electrical", "thermal"} =>
       /\ mTimesData[mIndex] <= elTime
       /\ elTime >= mProfileChangeTime \/ Loaded
  /\ pc = "done" => HasEnded /\ cycle + 1 = options.cycles

\* any two times of the profile, and the last one
LEMMA TimesAscend ==
  ASSUME ProfileType, Profile!Valid(mTimesData)
  PROVE  /\ Len(mTimesData) \in Nat /\ Len(mTimesData) >= 1
         /\ Last(mTimesData) = mTimesData[Len(mTimesData)]
         /\ \A i \in 1..Len(mTimesData) : mTimesData[i] \in Int /\ mTimesData[i] <= Last(mTimesData)
         /\ \A i, j \in 1..Len(mTimesData) : i < j => mTimesData[i] < mTimesData[j]
<1>1. /\ mTimesData \in Seq(Int) /\ Len(mTimesData) \in Nat /\ Len(mTimesData) >= 1
      /\ Last(mTimesData) = mTimesData[Len(mTimesData)]
      /\ \A i \in 1..Len(mTimesData) : mTimesData[i] \in Int
  BY LenProperties, ElementOfSeq DEF ProfileType, Last
<1>2. \A k \in 1..(Len(mTimesData) - 1) : mTimesData[k] < mTimesData[k + 1]
  BY DEF Profile!Valid
<1>3. \A i, j \in 1..Len(mTimesData) : i < j => mTimesData[i] < mTimesData[j]
  BY <1>1, <1>2, NeighboursAscend
<1>4. ASSUME NEW i \in 1..Len(mTimesData) PROVE mTimesData[i] <= Last(mTimesData)
  <2>1. CASE i = Len(mTimesData)
    BY <1>1, <2>1
  <2>2. CASE i # Len(mTimesData)
    <3>1. i < Len(mTimesData) /\ Len(mTimesData) \in 1..Len(mTimesData)
      BY <1>1, <2>2
    <3>2. mTimesData[i] < mTimesData[Len(mTimesData)]
      BY <1>3, <3>1
    <3>3. QED BY <1>1, <3>1, <3>2
  <2>3. QED BY <2>1, <2>2
<1>5. QED BY <1>1, <1>3, <1>4

LEMMA InitFollowing == Init => Planned /\ Following
<1> SUFFICES ASSUME Init PROVE Planned /\ Following
  OBVIOUS
<1> DEFINE lines == Profile!Lines(options.stream)
<1>1. /\ pc = "init" /\ cycle = 0 /\ elTime = 0 /\ mProfileChangeTime = 0
      /\ options \in Options /\ Profile!ReadFrom(options.stream)
      /\ mSimulationDuration = Last(mTimesData)
  BY DEF Init, Profile!GetMaxTime, Profile!Last, Last
<1>2. /\ mTimesData = [i \in DOMAIN lines |-> lines[i].time] /\ Profile!Valid(mTimesData)
      /\ mTimesDataInitial = mTimesData /\ mIndex = 1 /\ mValue = mValuesData[1]
      /\ mCycleLength = Last(mTimesData)
  BY <1>1 DEF Profile!ReadFrom, Profile!HasData, Profile!Last, Last
<1>3. lines \in Seq([time : Int, value : Int]) /\ (lines # <<>> => Head(lines).time = 0)
  BY <1>1, StreamsAssumption
<1> HIDE DEF lines
<1>4. ProfileType
  BY InitProfile
<1>5. mTimesData[1] = 0
  <2>1. mTimesData # <<>> /\ 1 \in DOMAIN mTimesData
    BY <1>4, LenProperties DEF ProfileType
  <2>2. lines # <<>> /\ 1 \in DOMAIN lines
    BY <1>2, <1>3, <2>1
  <2>3. Head(lines) = lines[1]
    BY <1>3, <2>2
  <2>4. QED BY <1>2, <1>3, <2>2, <2>3
<1>6. Last(mTimesData) \in Int /\ 0 <= Last(mTimesData)
  BY <1>2, <1>4, <1>5, TimesAscend
<1>7. QED BY <1>1, <1>2, <1>5, <1>6 DEF Planned, InCycle, Following

\* SetCurrent moves the index to the value of the moment and sets the load for it
LEMMA SetCurrentFollows ==
  ASSUME ProfileType, ~options.limits, elTime \in Nat,
         mValue = mValuesData[mIndex], mTimesData[mIndex] <= elTime,
         elTime >= mProfileChangeTime \/ Loaded,
         SetCurrent
  PROVE  /\ UNCHANGED <<mTimesData, mTimesDataInitial, mValuesData, mCycleLength, mSimulationDuration>>
         /\ mIndex' \in 1..Len(mTimesData)
         /\ mValue' = mValuesData[mIndex'] /\ mTimesData[mIndex'] <= elTime
         /\ elTime < mProfileChangeTime' \/ mIndex' = Len(mTimesData)
         /\ Loaded'
<1>1. mTimesData \in Seq(Int) /\ mIndex \in 1..Len(mTimesData) /\ mProfileChangeTime \in Int
  BY DEF ProfileType
<1>2. CASE EvaluateProfile
  <2>1. /\ UNCHANGED <<mTimesData, mTimesDataInitial, mValuesData, mCycleLength, mSimulationDuration>>
        /\ mIndex' = Profile!CurrentIndex(mTimesData, mIndex, elTime)
        /\ mValue' = IF mIndex' # mIndex THEN mValuesData[mIndex'] ELSE mValue
        /\ mProfileChangeTime' = Profile!GetTimeUntilMaxValueDeviation' /\ current' = mValue'
    BY <1>2 DEF EvaluateProfile, Profile!SetTimeAndTriggerEvaluation, Profile!Evaluate
  <2>2. /\ mIndex' \in 1..Len(mTimesData) /\ mIndex' \in mIndex..Len(mTimesData)
        /\ mIndex' = Len(mTimesData) \/ elTime < mTimesData[mIndex' + 1]
        /\ mIndex' # mIndex => mTimesData[mIndex'] <= elTime
    <3> DEFINE k == Profile!CurrentIndex(mTimesData, mIndex, elTime)
    <3>1. elTime \in Int
      OBVIOUS
    <3>2. /\ k \in 1..Len(mTimesData) /\ k \in mIndex..Len(mTimesData)
          /\ k = Len(mTimesData) \/ elTime < mTimesData[k + 1]
          /\ k # mIndex => mTimesData[k] <= elTime
      BY <1>1, <3>1, IndexFacts
    <3>3. mIndex' = k
      BY <2>1
    <3> HIDE DEF k
    <3>4. QED BY <3>2, <3>3
  <2>3. elTime < mProfileChangeTime' \/ mIndex' = Len(mTimesData)
    BY <1>1, <2>1, <2>2 DEF Profile!GetTimeUntilMaxValueDeviation, Profile!HasNext
  <2>4. QED BY <2>1, <2>2, <2>3 DEF Loaded
<1>3. CASE SkipSegment
  BY <1>3 DEF SkipSegment, IsStopElectricalCriterionFulfilled
<1>4. CASE KeepValue
  <2>1. /\ UNCHANGED <<mTimesData, mTimesDataInitial, mValuesData, mCycleLength, mSimulationDuration,
                       mIndex, mValue, mProfileChangeTime>>
        /\ elTime < mProfileChangeTime /\ current' \in {current, mValue}
    BY <1>4 DEF KeepValue, profile
  <2>2. Loaded
    BY <1>1, <2>1
  <2>3. QED
    BY <1>1, <2>1, <2>2 DEF Loaded, Profile!GetTimeUntilMaxValueDeviation, Profile!HasNext
<1>5. QED BY <1>2, <1>3, <1>4 DEF SetCurrent

\* the load of a step holds up to its end, which is in the profile
LEMMA StepInProfile ==
  ASSUME ProfileType, NEW c, InCycle(c), Following, pc \in {"electrical", "thermal"}
  PROVE  /\ mIndex + 1 \in 1..Len(mTimesData)
         /\ mProfileChangeTime = mTimesData[mIndex + 1] /\ mProfileChangeTime \in Int
         /\ mProfileChangeTime <= mSimulationDuration
<1>1. mIndex \in 1..Len(mTimesData) /\ mIndex < Len(mTimesData) /\ Len(mTimesData) \in Nat
  BY TimesAscend DEF ProfileType, InCycle, Following
<1>2. mIndex + 1 \in 1..Len(mTimesData)
  BY <1>1
<1>3. mProfileChangeTime = mTimesData[mIndex + 1]
  BY <1>1 DEF Following, Loaded, Profile!GetTimeUntilMaxValueDeviation, Profile!HasNext
<1>4. QED BY <1>2, <1>3, TimesAscend DEF InCycle

LEMMA StartFollowing ==
  ASSUME ProfileType, elTime \in Nat, NEW c, InCycle(c), Following, ~options.limits,
         SetCurrent, UNCHANGED elTime,
         (pc = "init" /\ pc' \in {"values", "cycle"}) \/ StartElectricalStep
  PROVE  InCycle(c)' /\ Following'
<1>1. pc \in {"init", "cycle"} /\ pc' \in {"values", "cycle", "electrical"}
  BY DEF StartElectricalStep
<1> DEFINE n == Len(mTimesData)
<1>2. /\ UNCHANGED <<mTimesData, mTimesDataInitial, mValuesData, mCycleLength, mSimulationDuration>>
      /\ mIndex' \in 1..n
      /\ mValue' = mValuesData[mIndex'] /\ mTimesData[mIndex'] <= elTime
      /\ elTime < mProfileChangeTime' \/ mIndex' = n
      /\ Loaded'
  BY <1>1, SetCurrentFollows DEF Following
<1>3. InCycle(c)'
  BY <1>1, <1>2 DEF InCycle
<1>4. /\ n \in Nat /\ n >= 1 /\ Last(mTimesData) = mTimesData[n]
      /\ \A i \in 1..n : mTimesData[i] \in Int
      /\ \A i, j \in 1..n : i < j => mTimesData[i] < mTimesData[j]
  BY TimesAscend DEF InCycle
<1>5. CASE StartElectricalStep
  <2>1. pc' = "electrical" /\ elTime < mTimesData[n] /\ steps' = <<Sample(elTime, states, soc')>>
    <3>1. mTimesData[n] \in Int
      BY <1>4
    <3>2. QED BY <1>1, <1>4, <1>5, <3>1 DEF StartElectricalStep, HasEnded, InCycle
  <2>2. mIndex' # n
    BY <1>1, <1>2, <1>4, <2>1
  <2>3. steps'[1].time = elTime
    BY <2>1 DEF Sample
  <2>4. mIndex' < n /\ elTime < mProfileChangeTime'
    BY <1>2, <1>4, <2>2
  <2>5. mProfileChangeTime' \in Int
    BY <1>1, SetCurrentProfile DEF ProfileType
  <2>6. Following'
      BY <1>1, <1>2, <2>1, <2>3, <2>4, <2>5 DEF Following
    <2>7. QED BY <1>3, <2>6
<1>6. CASE pc = "init" /\ pc' \in {"values", "cycle"}
  <2>1. pc = "init" /\ pc' \in {"values", "cycle"}
    BY <1>6
  <2>2. elTime = mTimesData[1]
    BY <2>1 DEF Following
  <2>3. mIndex' < n \/ n = 1
    <3> SUFFICES ASSUME mIndex' = n, n # 1 PROVE FALSE
      BY <1>2, <1>4
    <3>1. 1 \in 1..n /\ n \in 1..n /\ 1 < n
      BY <1>4
    <3>2. mTimesData[1] < mTimesData[n]
      BY <1>4, <3>1
    <3>3. QED BY <1>2, <1>4, <2>2, <3>1, <3>2
  <2>4. Following'
      BY <1>1, <1>2, <1>4, <2>1, <2>3 DEF Following
    <2>5. QED BY <1>3, <2>4
<1>7. QED BY <1>1, <1>5, <1>6

\* a substep ends where the loop of the electrical step ends, or before
LEMMA ElectricalSubstepBound ==
  ASSUME ProfileType, IInv, ElectricalSubstep
  PROVE  /\ pc = "electrical" /\ pc' = pc /\ thTime' = thTime /\ steps # <<>>
         /\ steps' # <<>> /\ steps'[1] = steps[1]
         /\ elTime' \in (elTime + 1)..(steps[1].time + mMaxSimulationStepDuration)
<1> DEFINE stop == steps[1].time + mMaxSimulationStepDuration
<1>1. pc = "electrical" /\ pc' = pc /\ thTime' = thTime /\ steps # <<>>
  BY DEF ElectricalSubstep, thermal, IInv, Phases
<1>2. steps \in Seq(SampleOfCell) /\ Len(steps) \in Nat /\ Len(steps) >= 1
  BY <1>1, LenProperties DEF IInv, CouplingType
<1>3. steps[1].time \in Nat
  <2>1. steps[1] \in SampleOfCell
    BY <1>2, ElementOfSeq
  <2>2. QED BY <2>1 DEF SampleOfCell
<1>4. stop \in Int /\ mProfileChangeTime \in Int
  BY <1>3, ConstantsAssumption DEF ProfileType
<1> HIDE DEF stop
<1>5. LoopStopTime \in Int /\ LoopStopTime <= stop
  BY <1>4, SmallerOfTwo DEF LoopStopTime, stop
<1>6. PICK d \in 1..(LoopStopTime - elTime), r \in options.rates :
        /\ elTime' = elTime + d
        /\ states' = states + r * d
        /\ soc' = soc + r * d
        /\ steps' = Append(steps, Sample(elTime', states', soc'))
  BY DEF ElectricalSubstep
<1>7. elTime \in Nat
  BY DEF IInv, CouplingType
<1>8. elTime' \in (elTime + 1)..stop
  BY <1>4, <1>5, <1>6, <1>7
<1>9. r \in Nat
  BY OptionsAssumption DEF ProfileType
<1>10. Sample(elTime', states', soc') \in SampleOfCell
  <2>1. elTime' \in Nat
    BY <1>6, <1>7
  <2>2. states' \in Int /\ soc' \in Int
    BY <1>6, <1>9 DEF IInv, CouplingType
  <2>3. QED BY <2>1, <2>2 DEF Sample, SampleOfCell
<1>11. steps' # <<>> /\ steps'[1] = steps[1]
  BY <1>2, <1>6, <1>10, AppendFacts
<1>12. QED BY <1>1, <1>8, <1>11 DEF stop

LEMMA SubstepFollowing ==
  ASSUME ProfileType, IInv, NEW c, InCycle(c), Following, ElectricalSubstep
  PROVE  InCycle(c)' /\ Following'
<1>1. pc = "electrical" /\ pc' = pc /\ UNCHANGED <<cycle, profile, load>>
  BY DEF ElectricalSubstep
<1>2. /\ mProfileChangeTime = mTimesData[mIndex + 1] /\ mProfileChangeTime \in Int
      /\ mProfileChangeTime <= mSimulationDuration
  BY <1>1, StepInProfile
<1>3. steps'[1] = steps[1]
  BY ElectricalSubstepBound
<1>4. elTime' <= mProfileChangeTime /\ elTime < elTime' /\ elTime' \in Nat /\ elTime \in Nat
  <2>1. steps \in Seq(SampleOfCell) /\ steps # <<>> /\ elTime \in Nat
    BY <1>1 DEF IInv, CouplingType, Phases
  <2>2. steps[1].time \in Nat
    <3>1. steps[1] \in SampleOfCell
      BY <2>1, ElementOfSeq, LenProperties
    <3>2. QED BY <3>1 DEF SampleOfCell
  <2>3. steps[1].time + mMaxSimulationStepDuration \in Int
    BY <2>2, ConstantsAssumption
  <2>4. LoopStopTime \in Int /\ LoopStopTime <= mProfileChangeTime
    BY <1>2, <2>3, SmallerOfTwo DEF LoopStopTime
  <2>5. PICK d \in 1..(LoopStopTime - elTime) : elTime' = elTime + d
    BY DEF ElectricalSubstep
  <2>6. QED BY <1>2, <2>1, <2>4, <2>5
<1>5. mTimesData[1] \in Int /\ mSimulationDuration \in Int
  BY TimesAscend DEF InCycle
<1>6. InCycle(c)'
  BY <1>1, <1>2, <1>4, <1>5 DEF InCycle, profile, load
<1>7. Following'
  BY <1>1, <1>3, <1>4 DEF Following, Loaded, profile, load, Profile!GetTimeUntilMaxValueDeviation,
                          Profile!HasNext
<1>8. QED BY <1>6, <1>7

\* the end of a thermal step, early or not
LEMMA MeetFollowing ==
  ASSUME ProfileType, IInv, NEW c, InCycle(c), Following, EndThermalStep \/ ThermalStop
  PROVE  InCycle(c)' /\ Following'
<1>1. pc = "thermal" /\ UNCHANGED <<cycle, profile, load>>
  BY DEF EndThermalStep, ThermalStop
<1>2. pc' = "cycle" /\ elTime' = thTime
  <2>1. CASE EndThermalStep
    BY <2>1, EndThermalStepInv DEF EndThermalStep, cell
  <2>2. CASE ThermalStop
    BY <2>2, ThermalStopStep DEF ResetStatesToPointOfTime
  <2>3. QED BY <2>1, <2>2
<1>3. /\ steps[1].time <= thTime /\ thTime <= elTime /\ thTime \in Nat /\ elTime \in Nat
      /\ steps \in Seq(SampleOfCell) /\ steps # <<>>
  BY <1>1 DEF IInv, CouplingType, Phases
<1>4. steps[1].time \in Nat
  <2>1. steps[1] \in SampleOfCell
    BY <1>3, ElementOfSeq, LenProperties
  <2>2. QED BY <2>1 DEF SampleOfCell
<1>5. /\ mIndex \in 1..Len(mTimesData) /\ 1 \in 1..Len(mTimesData) /\ mSimulationDuration \in Int
      /\ \A i \in 1..Len(mTimesData) : mTimesData[i] \in Int
      /\ mTimesData[1] <= mTimesData[mIndex]
  <2>1. mIndex \in 1..Len(mTimesData)
    BY DEF ProfileType
  <2>2. /\ Len(mTimesData) \in Nat /\ Len(mTimesData) >= 1 /\ mSimulationDuration = mTimesData[Len(mTimesData)]
        /\ \A i \in 1..Len(mTimesData) : mTimesData[i] \in Int
        /\ \A i, j \in 1..Len(mTimesData) : i < j => mTimesData[i] < mTimesData[j]
    BY TimesAscend DEF InCycle
  <2>3. 1 \in 1..Len(mTimesData) /\ Len(mTimesData) \in 1..Len(mTimesData)
    BY <2>2
  <2>4. mIndex = 1 \/ 1 < mIndex
    BY <2>1
  <2>5. QED BY <2>1, <2>2, <2>3, <2>4
<1>6. mTimesData[mIndex] <= thTime
  BY <1>1, <1>3, <1>4, <1>5 DEF Following
<1>7. InCycle(c)'
  BY <1>1, <1>2, <1>3, <1>5, <1>6 DEF InCycle, profile, load
<1>8. Following'
  BY <1>1, <1>2, <1>6 DEF Following, Loaded, profile, load, Profile!GetTimeUntilMaxValueDeviation,
                          Profile!HasNext
<1>9. QED BY <1>7, <1>8

LEMMA NextMultiple ==
  \A c \in Nat, x \in Int : (c + 1) * x = c * x + x /\ (c + 1 + 1) * x = (c + 1) * x + x
OBVIOUS

LEMMA CycleFollowing ==
  ASSUME ProfileType, elTime \in Nat, NEW c, InCycle(c), Following,
         pc = "cycle", HasEnded, pc' \in {"cycle", "init"},
         Profile!StartNewCycle, mSimulationDuration' = Profile!GetMaxTime',
         UNCHANGED <<mProfileChangeTime, current, elTime>>
  PROVE  InCycle(c + 1)' /\ Following'
<1> DEFINE next == [i \in DOMAIN mTimesDataInitial |-> mTimesDataInitial[i] + mCycleLength]
           n == Len(mTimesData)
<1>1. /\ mTimesData' = next /\ Profile!Valid(mTimesData') /\ mTimesDataInitial' = mTimesData'
      /\ mIndex' = 1 /\ mValue' = mValuesData[1]
      /\ UNCHANGED <<mValuesData, mCycleLength>>
  BY DEF Profile!StartNewCycle
<1>2. mSimulationDuration' = Last(mTimesData')
  BY DEF Profile!GetMaxTime, Profile!Last, Last
<1>3. /\ n \in Nat /\ n >= 1 /\ Last(mTimesData) = mTimesData[n] /\ DOMAIN mTimesData = 1..n
      /\ \A i \in 1..n : mTimesData[i] \in Int /\ mTimesData[i] <= Last(mTimesData)
      /\ mCycleLength \in Int /\ mIndex \in 1..n /\ c \in Nat
  BY TimesAscend, LenProperties DEF InCycle, ProfileType
<1>4. mTimesData' = [i \in 1..n |-> mTimesData[i] + mCycleLength]
  BY <1>1, <1>3 DEF InCycle
<1> HIDE DEF next, n
<1>5. /\ mTimesData' \in Seq(Int) /\ Len(mTimesData') = n
      /\ \A i \in 1..n : mTimesData'[i] = mTimesData[i] + mCycleLength
  <2>1. mTimesData' \in [1..n -> Int]
    BY <1>3, <1>4
  <2>2. QED BY <1>3, <1>4, <2>1, FunctionIsSequence
<1>6. Last(mTimesData') = Last(mTimesData) + mCycleLength
  <2>1. Last(mTimesData') = mTimesData'[n]
    BY <1>5 DEF Last
  <2>2. QED BY <1>3, <1>5, <2>1
<1>7. elTime = Last(mTimesData)
  BY <1>1, <1>3 DEF HasEnded, InCycle
<1>8. /\ mTimesData'[1] = (c + 1) * mCycleLength
      /\ Last(mTimesData') = (c + 1 + 1) * mCycleLength
      /\ mTimesData'[1] = elTime
  BY <1>3, <1>5, <1>6, <1>7, NextMultiple DEF InCycle
<1>9. elTime <= Last(mTimesData')
  <2>1. mTimesData[1] <= Last(mTimesData) /\ mTimesData[1] \in Int
    BY <1>3
  <2>2. mTimesData'[1] = mTimesData[1] + mCycleLength
    BY <1>3, <1>5
  <2>3. QED BY <1>3, <1>6, <1>7, <1>8, <2>1, <2>2
<1>10. InCycle(c + 1)'
  BY <1>1, <1>2, <1>3, <1>8, <1>9 DEF InCycle
<1>11. elTime >= mProfileChangeTime \/ Loaded'
  <2>1. CASE elTime >= mProfileChangeTime
    BY <2>1
  <2>2. CASE Loaded /\ mIndex < n
    <3>1. mProfileChangeTime = mTimesData[mIndex + 1]
      BY <2>2 DEF Loaded, Profile!GetTimeUntilMaxValueDeviation, Profile!HasNext, n
    <3>2. mIndex + 1 \in 1..n
      BY <1>3, <2>2
    <3>3. mTimesData[mIndex + 1] <= Last(mTimesData) /\ mTimesData[mIndex + 1] \in Int
      BY <1>3, <3>2
    <3>4. QED BY <1>3, <1>7, <3>1, <3>3
  <2>3. CASE Loaded /\ n = 1
    <3>1. mIndex = 1 /\ mValue' = mValue
      BY <1>1, <1>3, <2>3 DEF Following
    <3>2. mProfileChangeTime = Infinity /\ current = mValue
      BY <2>3, <3>1 DEF Loaded, Profile!GetTimeUntilMaxValueDeviation, Profile!HasNext, n
    <3>3. QED
      BY <1>1, <1>5, <2>3, <3>1, <3>2 DEF Loaded, Profile!GetTimeUntilMaxValueDeviation, Profile!HasNext
  <2>4. QED BY <1>1, <2>1, <2>2, <2>3 DEF Following, n
<1>12. Following'
  <2>1. mIndex' < Len(mTimesData') \/ Len(mTimesData') = 1
    BY <1>1, <1>3, <1>5
  <2>2. mTimesData'[mIndex'] <= elTime'
    BY <1>1, <1>3, <1>8
  <2>3. QED BY <1>1, <1>8, <1>11, <2>1, <2>2 DEF Following
<1>13. QED BY <1>10, <1>12

LEMMA ConstantOptions == [Next]_vars => UNCHANGED options
<1> SUFFICES ASSUME [Next]_vars PROVE UNCHANGED options
  OBVIOUS
<1>1. CASE InitializeSimulation \/ StartElectricalStep
  BY <1>1 DEF InitializeSimulation, StartElectricalStep, SetCurrent, EvaluateProfile, SkipSegment,
              KeepValue, profile
<1>2. CASE ElectricalSubstep \/ EndElectricalStep \/ ThermalSubstep \/ EndThermalStep \/ ThermalStop
           \/ NextCycle \/ Finish
  BY <1>2 DEF ElectricalSubstep, EndElectricalStep, ThermalSubstep, EndThermalStep, ThermalStop,
              NextCycle, Finish, profile
<1>3. CASE UNCHANGED vars
  BY <1>3 DEF vars
<1>4. QED BY <1>1, <1>2, <1>3 DEF Next, Step, Terminated

\* a step that leaves the profile and the load alone
LEMMA QuietFollowing ==
  ASSUME NEW c, InCycle(c), Following, UNCHANGED <<profile, load, elTime>>,
         \/ /\ pc \in {"electrical", "thermal"} /\ pc' \in {"electrical", "thermal"}
            /\ UNCHANGED steps
         \/ pc \in {"values", "cycle"} /\ pc' \in {"values", "cycle", "done"}
         \/ UNCHANGED <<pc, steps>>,
         pc' = "done" => HasEnded' /\ cycle' + 1 = options'.cycles
  PROVE  InCycle(c)' /\ Following'
<1>1. InCycle(c)'
  BY DEF InCycle, profile, load
<1>2. Following'
  BY DEF Following, Loaded, profile, load, Profile!GetTimeUntilMaxValueDeviation, Profile!HasNext
<1>3. QED BY <1>1, <1>2

LEMMA NextFollowing ==
  ASSUME ProfileType, IInv, Planned, Following, ~options.limits, [Next]_vars
  PROVE  Planned' /\ Following'
<1>0. PICK c : c = cycle /\ InCycle(c)
  BY DEF Planned
<1>1. elTime \in Nat /\ cycle \in Nat
  BY DEF IInv, CouplingType, Planned, InCycle
<1>2. CASE InitializeSimulation \/ StartElectricalStep
  <2>1. /\ SetCurrent /\ UNCHANGED <<elTime, cycle>>
        /\ (pc = "init" /\ pc' = "cycle") \/ StartElectricalStep
    BY <1>2 DEF InitializeSimulation, StartElectricalStep
  <2>2. InCycle(c)' /\ Following'
    BY <1>0, <1>1, <2>1, StartFollowing
  <2>3. QED BY <1>0, <2>1, <2>2 DEF Planned, InCycle
<1>3. CASE ElectricalSubstep \/ EndThermalStep \/ ThermalStop
  <2>1. InCycle(c)' /\ Following'
    BY <1>0, <1>3, SubstepFollowing, MeetFollowing
  <2>2. UNCHANGED cycle
    BY <1>3 DEF ElectricalSubstep, EndThermalStep, ThermalStop
  <2>3. QED BY <1>0, <2>1, <2>2 DEF Planned, InCycle
<1>4. CASE NextCycle
  <2>1. /\ pc = "cycle" /\ HasEnded /\ pc' = pc /\ cycle' = cycle + 1
        /\ Profile!StartNewCycle /\ mSimulationDuration' = Profile!GetMaxTime'
        /\ UNCHANGED <<mProfileChangeTime, current, elTime>>
    BY <1>4 DEF NextCycle, cell
  <2>2. InCycle(c + 1)' /\ Following'
    BY <1>0, <1>1, <2>1, CycleFollowing
  <2>3. QED BY <1>0, <2>1, <2>2 DEF Planned, InCycle
<1>5. CASE EndElectricalStep \/ ThermalSubstep \/ Finish \/ UNCHANGED vars
  <2>1. /\ UNCHANGED <<profile, load, elTime, cycle>>
        /\ \/ /\ pc \in {"electrical", "thermal"} /\ pc' \in {"electrical", "thermal"}
              /\ UNCHANGED steps
           \/ pc \in {"values", "cycle"} /\ pc' \in {"values", "cycle", "done"}
           \/ UNCHANGED <<pc, steps>>
    BY <1>5, ThermalSubstepStep DEF EndElectricalStep, ThermalSubstep, Finish, vars, cell, profile, load
  <2>2. pc' = "done" => HasEnded' /\ cycle' + 1 = options'.cycles
    BY <1>5, ThermalSubstepStep DEF EndElectricalStep, ThermalSubstep, Finish, vars, cell, profile, load,
                                    HasEnded, Following
  <2>3. InCycle(c)' /\ Following'
    BY <1>0, <2>1, <2>2, QuietFollowing
  <2>4. QED BY <1>0, <2>1, <2>3 DEF Planned, InCycle
<1>6. QED BY <1>2, <1>3, <1>4, <1>5 DEF Next, Step, Terminated

LEMMA FollowingInvariant == Spec => [](ProfileType /\ IInv /\ (~options.limits => Planned /\ Following))
<1>1. ProfileType /\ IInv /\ (~options.limits => Planned /\ Following) /\ [Next]_vars
        => (~options.limits => Planned /\ Following)'
  BY NextFollowing, ConstantOptions
<1>2. QED BY <1>1, InitFollowing, CouplingInvariant, PTL DEF Spec

-----------------------------------------------------------------------------
(* The load under voltage limits.  Up to the end of the first cycle skips only *)
(* move the times that are still to come.  Behind it the copy of the next      *)
(* change may be that of a skipped end.                                        *)

Underway ==
  /\ \A i, j \in 1..Len(mTimesData) : i <= j => mTimesData[i] <= mTimesData[j]
  /\ mValue = mValuesData[mIndex]
  /\ pc \in {"electrical", "thermal"} =>
       /\ Loaded /\ mTimesData[mIndex] <= steps[1].time
       /\ mIndex < Len(mTimesData) => elTime <= mTimesData[mIndex + 1]
  /\ pc \notin {"electrical", "thermal"} =>
       /\ mTimesData[mIndex] <= elTime
       /\ elTime >= mProfileChangeTime \/ Loaded

FirstCycle == cycle \in Nat /\ (cycle = 0 => Underway)

LEMMA InitFirstCycle == Init => FirstCycle
<1> SUFFICES ASSUME Init PROVE FirstCycle
  OBVIOUS
<1>1. cycle = 0 /\ pc = "init" /\ Planned /\ Following /\ ProfileType
  BY InitFollowing, InitProfile DEF Init
<1>2. \A i, j \in 1..Len(mTimesData) : i <= j => mTimesData[i] <= mTimesData[j]
  <2>1. /\ \A i \in 1..Len(mTimesData) : mTimesData[i] \in Int
        /\ \A i, j \in 1..Len(mTimesData) : i < j => mTimesData[i] < mTimesData[j]
    BY <1>1, TimesAscend DEF Planned, InCycle
  <2>2. QED BY <2>1
<1>3. QED BY <1>1, <1>2 DEF FirstCycle, Underway, Following

\* a skip: the next value begins now, and none of those to come before it
LEMMA SkipFollows ==
  ASSUME ProfileType, elTime \in Nat, Underway, pc \notin {"electrical", "thermal"}, SkipSegment
  PROVE  /\ Len(mTimesData') = Len(mTimesData) /\ mTimesData' \in Seq(Int)
         /\ \A i, j \in 1..Len(mTimesData') : i <= j => mTimesData'[i] <= mTimesData'[j]
         /\ mIndex' \in 1..Len(mTimesData') /\ mIndex' # mIndex
         /\ mTimesData'[mIndex'] <= elTime
         /\ mIndex' = Len(mTimesData') \/ elTime < mTimesData'[mIndex' + 1]
<1> DEFINE n == Len(mTimesData)
           rest == mTimesData[mIndex + 1] - elTime
<1>1. /\ elTime < mProfileChangeTime /\ mIndex < n
      /\ mTimesData' = [i \in DOMAIN mTimesData |-> IF i > mIndex THEN mTimesData[i] - rest ELSE mTimesData[i]]
      /\ mIndex' = Profile!CurrentIndex(mTimesData', mIndex, elTime)
  BY DEF SkipSegment, Profile!MoveToNextProfileValue, Profile!HasNext, Profile!RemainingTimeInStep,
         Profile!Evaluate
<1>2. /\ n \in Nat /\ mIndex \in 1..n /\ mIndex + 1 \in 1..n /\ DOMAIN mTimesData = 1..n
      /\ \A i \in 1..n : mTimesData[i] \in Int
  BY <1>1, LenProperties, ElementOfSeq DEF ProfileType
<1>3. /\ mTimesData[mIndex] <= elTime /\ elTime < mTimesData[mIndex + 1]
      /\ \A i, j \in 1..n : i <= j => mTimesData[i] <= mTimesData[j]
  <2>1. mTimesData[mIndex] <= elTime /\ Loaded
    BY <1>1 DEF Underway, ProfileType
  <2>2. mProfileChangeTime = mTimesData[mIndex + 1]
    BY <1>1, <2>1 DEF Loaded, Profile!GetTimeUntilMaxValueDeviation, Profile!HasNext
  <2>3. QED BY <1>1, <2>1, <2>2 DEF Underway
<1>4. rest \in Nat
  BY <1>2, <1>3
<1> HIDE DEF n
<1>5. /\ mTimesData' \in Seq(Int) /\ Len(mTimesData') = n
      /\ \A i \in 1..n : mTimesData'[i] = IF i > mIndex THEN mTimesData[i] - rest ELSE mTimesData[i]
  <2> HIDE DEF rest
  <2>1. mTimesData' \in [1..n -> Int]
    BY <1>1, <1>2, <1>4
  <2>2. QED BY <1>1, <1>2, <2>1, FunctionIsSequence
<1>6. mTimesData'[mIndex + 1] = elTime
  BY <1>2, <1>5
<1>7. ASSUME NEW i \in 1..n, NEW j \in 1..n, i <= j PROVE mTimesData'[i] <= mTimesData'[j]
  <2>1. mTimesData[i] \in Int /\ mTimesData[j] \in Int /\ mTimesData[i] <= mTimesData[j]
    BY <1>2, <1>3, <1>7
  <2>2. CASE i > mIndex \/ ~(j > mIndex)
    <3> HIDE DEF rest
    <3>1. QED BY <1>2, <1>4, <1>5, <1>7, <2>1, <2>2
  <2>3. CASE ~(i > mIndex) /\ j > mIndex
    <3>1. mTimesData[i] <= mTimesData[mIndex] /\ mTimesData[mIndex + 1] <= mTimesData[j]
      BY <1>2, <1>3, <2>3
    <3>2. mTimesData'[i] = mTimesData[i] /\ mTimesData'[j] = mTimesData[j] - rest
      BY <1>5, <2>3
    <3>3. mTimesData[mIndex] \in Int /\ mTimesData[mIndex + 1] \in Int
      BY <1>2
    <3>4. QED BY <1>3, <2>1, <3>1, <3>2, <3>3
  <2>4. QED BY <2>2, <2>3
<1> HIDE DEF rest
<1>8. /\ mIndex' \in 1..n /\ mIndex' \in mIndex..n
      /\ mIndex' = n \/ elTime < mTimesData'[mIndex' + 1]
      /\ mIndex' # mIndex => mTimesData'[mIndex'] <= elTime
  <2> DEFINE k == Profile!CurrentIndex(mTimesData', mIndex, elTime)
  <2>1. elTime \in Int /\ mIndex \in 1..Len(mTimesData')
    BY <1>2, <1>5
  <2>2. /\ k \in 1..Len(mTimesData') /\ k \in mIndex..Len(mTimesData')
        /\ k = Len(mTimesData') \/ elTime < mTimesData'[k + 1]
        /\ k # mIndex => mTimesData'[k] <= elTime
    BY <1>5, <2>1, IndexFacts
  <2>3. mIndex' = k
    BY <1>1
  <2> HIDE DEF k
  <2>4. QED BY <1>5, <2>2, <2>3
<1>9. mIndex' # mIndex
  BY <1>1, <1>6, <1>8 DEF n
<1>10. QED BY <1>5, <1>7, <1>8, <1>9 DEF n

LEMMA NextPosition ==
  ASSUME NEW n \in Nat, NEW k \in 1..n, k < n
  PROVE  k + 1 \in 1..n /\ k # n
OBVIOUS

\* SetCurrent under voltage limits
LEMMA SetCurrentUnderway ==
  ASSUME ProfileType, elTime \in Nat, Underway, pc \notin {"electrical", "thermal"}, SetCurrent
  PROVE  /\ \A i, j \in 1..Len(mTimesData') : i <= j => mTimesData'[i] <= mTimesData'[j]
         /\ mValue' = mValuesData'[mIndex'] /\ mTimesData'[mIndex'] <= elTime
         /\ mIndex' < Len(mTimesData') => elTime <= mTimesData'[mIndex' + 1]
         /\ Loaded'
<1>1. /\ mTimesData \in Seq(Int) /\ mIndex \in 1..Len(mTimesData) /\ Len(mTimesData) \in Nat
      /\ \A i \in 1..Len(mTimesData) : mTimesData[i] \in Int
      /\ mProfileChangeTime \in Int
  BY LenProperties, ElementOfSeq DEF ProfileType
<1>2. /\ mValue = mValuesData[mIndex] /\ mTimesData[mIndex] <= elTime
      /\ elTime >= mProfileChangeTime \/ Loaded
      /\ \A i, j \in 1..Len(mTimesData) : i <= j => mTimesData[i] <= mTimesData[j]
  BY DEF Underway
<1>3. CASE EvaluateProfile
  <2>1. /\ UNCHANGED <<mTimesData, mValuesData>>
        /\ mIndex' = Profile!CurrentIndex(mTimesData, mIndex, elTime)
        /\ mValue' = IF mIndex' # mIndex THEN mValuesData[mIndex'] ELSE mValue
        /\ mProfileChangeTime' = Profile!GetTimeUntilMaxValueDeviation' /\ current' = mValue'
    BY <1>3 DEF EvaluateProfile, Profile!SetTimeAndTriggerEvaluation, Profile!Evaluate
  <2>2. /\ mIndex' \in 1..Len(mTimesData) /\ mIndex' \in mIndex..Len(mTimesData)
        /\ mIndex' = Len(mTimesData) \/ elTime < mTimesData[mIndex' + 1]
        /\ mIndex' # mIndex => mTimesData[mIndex'] <= elTime
    <3> DEFINE k == Profile!CurrentIndex(mTimesData, mIndex, elTime)
    <3>1. elTime \in Int
      OBVIOUS
    <3>2. /\ k \in 1..Len(mTimesData) /\ k \in mIndex..Len(mTimesData)
          /\ k = Len(mTimesData) \/ elTime < mTimesData[k + 1]
          /\ k # mIndex => mTimesData[k] <= elTime
      BY <1>1, <3>1, IndexFacts
    <3>3. mIndex' = k
      BY <2>1
    <3> HIDE DEF k
    <3>4. QED BY <3>2, <3>3
  <2>3. mIndex' < Len(mTimesData) => elTime <= mTimesData[mIndex' + 1]
    <3> SUFFICES ASSUME mIndex' < Len(mTimesData) PROVE elTime <= mTimesData[mIndex' + 1]
      OBVIOUS
    <3>1. mIndex' + 1 \in 1..Len(mTimesData) /\ mIndex' # Len(mTimesData)
      BY <1>1, <2>2, NextPosition
    <3>2. elTime < mTimesData[mIndex' + 1]
      BY <2>2, <3>1
    <3>3. mTimesData[mIndex' + 1] \in Int
      BY <1>1, <3>1
    <3>4. QED BY <3>2, <3>3
  <2>4. QED BY <1>2, <2>1, <2>2, <2>3 DEF Loaded
<1>4. CASE SkipSegment
  <2>1. /\ mValuesData' = mValuesData
        /\ mValue' = IF mIndex' # mIndex THEN mValuesData[mIndex'] ELSE mValue
        /\ mProfileChangeTime' = Profile!GetTimeUntilMaxValueDeviation' /\ current' = mValue'
    BY <1>4 DEF SkipSegment, Profile!MoveToNextProfileValue, Profile!Evaluate
  <2>2. /\ Len(mTimesData') \in Nat /\ \A i \in 1..Len(mTimesData') : mTimesData'[i] \in Int
    BY <1>4, SkipFollows, LenProperties, ElementOfSeq
  <2>3. mIndex' < Len(mTimesData') => elTime <= mTimesData'[mIndex' + 1]
    <3> SUFFICES ASSUME mIndex' < Len(mTimesData') PROVE elTime <= mTimesData'[mIndex' + 1]
      OBVIOUS
    <3>1. mIndex' \in 1..Len(mTimesData') /\ (mIndex' = Len(mTimesData') \/ elTime < mTimesData'[mIndex' + 1])
      BY <1>4, SkipFollows
    <3>2. mIndex' + 1 \in 1..Len(mTimesData') /\ mIndex' # Len(mTimesData')
      BY <2>2, <3>1, NextPosition
    <3>3. mTimesData'[mIndex' + 1] \in Int
      BY <2>2, <3>2
    <3>4. QED BY <3>1, <3>2, <3>3
  <2>4. QED BY <1>4, <2>1, <2>3, SkipFollows DEF Loaded
<1>5. CASE KeepValue
  <2>1. /\ UNCHANGED <<mTimesData, mValuesData, mIndex, mValue, mProfileChangeTime>>
        /\ elTime < mProfileChangeTime /\ current' \in {current, mValue}
    BY <1>5 DEF KeepValue, profile
  <2>2. Loaded
    BY <1>1, <1>2, <2>1
  <2>3. mIndex < Len(mTimesData) => elTime <= mTimesData[mIndex + 1]
    BY <1>1, <2>1, <2>2 DEF Loaded, Profile!GetTimeUntilMaxValueDeviation, Profile!HasNext
  <2>4. QED
    BY <1>2, <2>1, <2>2, <2>3 DEF Loaded, Profile!GetTimeUntilMaxValueDeviation, Profile!HasNext
<1>6. QED BY <1>3, <1>4, <1>5 DEF SetCurrent

LEMMA NextUnderway ==
  ASSUME ProfileType, IInv, Underway, [Next]_vars, ~NextCycle
  PROVE  Underway'
<1>1. CASE InitializeSimulation \/ StartElectricalStep
  <2>1. /\ SetCurrent /\ UNCHANGED elTime /\ elTime \in Nat /\ pc \notin {"electrical", "thermal"}
        /\ pc' = "cycle" \/ (pc' = "electrical" /\ steps' = <<Sample(elTime, states, soc')>>)
    BY <1>1 DEF InitializeSimulation, StartElectricalStep, IInv, CouplingType
  <2>2. pc' = "electrical" => steps'[1].time = elTime
    BY <2>1 DEF Sample
  <2>3. QED BY <2>1, <2>2, SetCurrentUnderway DEF Underway
<1>2. CASE ElectricalSubstep
  <2>1. /\ pc = "electrical" /\ pc' = pc /\ UNCHANGED <<profile, load>> /\ steps'[1] = steps[1]
    BY <1>2, ElectricalSubstepBound DEF ElectricalSubstep
  <2>2. mIndex < Len(mTimesData) => elTime' <= mTimesData[mIndex + 1]
    <3> SUFFICES ASSUME mIndex < Len(mTimesData) PROVE elTime' <= mTimesData[mIndex + 1]
      OBVIOUS
    <3>1. mProfileChangeTime = mTimesData[mIndex + 1] /\ mProfileChangeTime \in Int
      BY <2>1 DEF Underway, Loaded, ProfileType, Profile!GetTimeUntilMaxValueDeviation, Profile!HasNext
    <3>2. steps \in Seq(SampleOfCell) /\ steps # <<>> /\ elTime \in Nat
      BY <2>1 DEF IInv, CouplingType, Phases
    <3>3. steps[1].time + mMaxSimulationStepDuration \in Int
      <4>1. steps[1] \in SampleOfCell
        BY <3>2, ElementOfSeq, LenProperties
      <4>2. QED BY <4>1, ConstantsAssumption DEF SampleOfCell
    <3>4. LoopStopTime \in Int /\ LoopStopTime <= mProfileChangeTime
      BY <3>1, <3>3, SmallerOfTwo DEF LoopStopTime
    <3>5. PICK d \in 1..(LoopStopTime - elTime) : elTime' = elTime + d
      BY <1>2 DEF ElectricalSubstep
    <3>6. QED BY <3>1, <3>2, <3>4, <3>5
  <2>3. QED BY <2>1, <2>2 DEF Underway, Loaded, profile, load,
                               Profile!GetTimeUntilMaxValueDeviation, Profile!HasNext
<1>3. CASE EndThermalStep \/ ThermalStop
  <2>1. pc = "thermal" /\ pc' = "cycle" /\ elTime' = thTime /\ UNCHANGED <<profile, load>>
    <3>1. CASE EndThermalStep
      BY <3>1, EndThermalStepInv DEF EndThermalStep, cell
    <3>2. CASE ThermalStop
      BY <3>2, ThermalStopStep DEF ThermalStop, ResetStatesToPointOfTime
    <3>3. QED BY <1>3, <3>1, <3>2
  <2>2. steps[1].time <= thTime /\ thTime \in Nat /\ steps \in Seq(SampleOfCell) /\ steps # <<>>
    BY <2>1 DEF IInv, CouplingType, Phases
  <2>3. steps[1].time \in Nat
    <3>1. steps[1] \in SampleOfCell
      BY <2>2, ElementOfSeq, LenProperties
    <3>2. QED BY <3>1 DEF SampleOfCell
  <2>4. mTimesData[mIndex] \in Int
    BY LenProperties, ElementOfSeq DEF ProfileType
  <2>5. mTimesData[mIndex] <= thTime
    BY <2>1, <2>2, <2>3, <2>4 DEF Underway
  <2>6. QED BY <2>1, <2>5 DEF Underway, Loaded, profile, load,
                               Profile!GetTimeUntilMaxValueDeviation, Profile!HasNext
<1>4. CASE EndElectricalStep \/ ThermalSubstep \/ Finish \/ UNCHANGED vars
  <2>1. /\ UNCHANGED <<profile, load, elTime>>
        /\ \/ /\ pc \in {"electrical", "thermal"} /\ pc' \in {"electrical", "thermal"}
              /\ UNCHANGED steps
           \/ pc = "cycle" /\ pc' = "done"
           \/ UNCHANGED <<pc, steps>>
    BY <1>4, ThermalSubstepStep DEF EndElectricalStep, ThermalSubstep, Finish, vars, cell, profile, load
  <2>2. QED BY <2>1 DEF Underway, Loaded, profile, load,
                         Profile!GetTimeUntilMaxValueDeviation, Profile!HasNext
<1>5. QED BY <1>1, <1>2, <1>3, <1>4 DEF Next, Step, Terminated

LEMMA NextFirstCycle ==
  ASSUME ProfileType, IInv, FirstCycle, [Next]_vars
  PROVE  FirstCycle'
<1>1. cycle \in Nat /\ (cycle = 0 => Underway)
  BY DEF FirstCycle
<1>2. CASE NextCycle
  <2>1. cycle' = cycle + 1
    BY <1>2 DEF NextCycle
  <2>2. cycle' \in Nat /\ cycle' # 0
    BY <1>1, <2>1
  <2>3. QED BY <2>2 DEF FirstCycle
<1>3. CASE ~NextCycle
  <2>1. UNCHANGED cycle
    BY <1>3 DEF Next, Step, Terminated, InitializeSimulation, StartElectricalStep, ElectricalSubstep,
                EndElectricalStep, ThermalSubstep, EndThermalStep, ThermalStop, Finish, vars
  <2>2. QED BY <1>1, <1>3, <2>1, NextUnderway DEF FirstCycle
<1>4. QED BY <1>2, <1>3

LEMMA UnderwayFollows ==
  ASSUME ProfileType, IInv, Underway
  PROVE  ProfileFollowed
<1> SUFFICES ASSUME pc \in {"electrical", "thermal"}, NEW t \in steps[1].time..(elTime - 1)
             PROVE  current = Profile!ValueAt(t)
  BY DEF ProfileFollowed
<1>1. /\ mTimesData \in Seq(Int) /\ mIndex \in 1..Len(mTimesData) /\ Len(mTimesData) \in Nat
      /\ \A i \in 1..Len(mTimesData) : mTimesData[i] \in Int
  BY LenProperties, ElementOfSeq DEF ProfileType
<1>2. steps[1].time \in Nat /\ elTime \in Nat
  <2>1. steps \in Seq(SampleOfCell) /\ steps # <<>> /\ elTime \in Nat
    BY DEF IInv, CouplingType, Phases
  <2>2. steps[1] \in SampleOfCell
    BY <2>1, ElementOfSeq, LenProperties
  <2>3. QED BY <2>1, <2>2 DEF SampleOfCell
<1>3. /\ mTimesData[mIndex] <= t /\ t \in Int
      /\ mIndex < Len(mTimesData) => t < mTimesData[mIndex + 1]
  <2>1. mIndex < Len(mTimesData) => mIndex + 1 \in 1..Len(mTimesData)
    BY <1>1
  <2>2. QED BY <1>1, <1>2, <2>1 DEF Underway
<1>4. \A i, j \in 1..Len(mTimesData) : i <= j => mTimesData[i] <= mTimesData[j]
  BY DEF Underway
<1>5. Max({1} \cup {i \in DOMAIN mTimesData : mTimesData[i] <= t}) = mIndex
  BY <1>1, <1>3, <1>4, LastToHaveCome
<1>6. Profile!ValueAt(t) = mValuesData[mIndex]
  BY <1>5 DEF Profile!ValueAt, Profile!Max, Max
<1>7. QED BY <1>6 DEF Underway, Loaded

LEMMA FollowingIsUnderway == ProfileType /\ Planned /\ Following => Underway
<1> SUFFICES ASSUME ProfileType, Planned, Following PROVE Underway
  OBVIOUS
<1>1. /\ \A i \in 1..Len(mTimesData) : mTimesData[i] \in Int
      /\ \A i, j \in 1..Len(mTimesData) : i < j => mTimesData[i] < mTimesData[j]
  BY TimesAscend DEF Planned, InCycle
<1>2. \A i, j \in 1..Len(mTimesData) : i <= j => mTimesData[i] <= mTimesData[j]
  BY <1>1
<1>3. pc \in {"electrical", "thermal"} => mProfileChangeTime = mTimesData[mIndex + 1]
  BY StepInProfile DEF Planned
<1>4. QED BY <1>2, <1>3 DEF Following, Underway

\* The load of every simulated time is that of the profile, over rollbacks and
\* segments of any length: without voltage limits in all cycles, and with them,
\* whatever is skipped, in the first one.
THEOREM LoadFollowsProfile == Spec => [](~options.limits \/ cycle = 0 => ProfileFollowed)
<1>1. ProfileType /\ IInv /\ FirstCycle /\ [Next]_vars => FirstCycle'
  BY NextFirstCycle
<1>2. ProfileType /\ IInv /\ FirstCycle /\ (~options.limits => Planned /\ Following)
        => (~options.limits \/ cycle = 0 => ProfileFollowed)
  BY FollowingIsUnderway, UnderwayFollows DEF FirstCycle
<1>3. QED
  BY <1>1, <1>2, InitFirstCycle, FollowingInvariant, CouplingInvariant, PTL DEF Spec

\* Without voltage limits the run is over exactly when the profile was simulated
\* as often as the options say.
THEOREM ProfileIsSimulated == Spec => []WholeProfile
<1>1. ASSUME ProfileType, IInv, Planned, Following, pc = "done"
      PROVE  elTime = options.cycles * mCycleLength /\ elTime = Last(mTimesData)
  <2>1. elTime <= Last(mTimesData) /\ elTime >= Last(mTimesData) /\ Last(mTimesData) \in Int
    <3>1. Last(mTimesData) \in Int
      <4>1. Len(mTimesData) \in 1..Len(mTimesData)
        BY <1>1, TimesAscend DEF Planned, InCycle
      <4>2. QED BY <1>1, <4>1, TimesAscend DEF Planned, InCycle
    <3>2. QED BY <1>1, <3>1 DEF Planned, InCycle, Following, HasEnded
  <2>2. elTime \in Int
    BY <1>1 DEF IInv, CouplingType
  <2>3. elTime = Last(mTimesData)
    BY <2>1, <2>2
  <2>4. QED BY <1>1, <2>3 DEF Planned, InCycle, Following
<1>2. ProfileType /\ IInv /\ (~options.limits => Planned /\ Following) => WholeProfile
  BY <1>1 DEF WholeProfile
<1>3. QED BY <1>2, FollowingInvariant, PTL

-----------------------------------------------------------------------------
(* How late it gets.  Behind the first cycle the copy of the next change may be *)
(* that of a skipped end; the skip that ends this comes late and makes the      *)
(* cycle longer.                                                                *)

\* how far skips have moved the rest of the profile
Shift == Last(mTimesData) - Last(mTimesDataInitial)

\* the copy of the next change is still that of the cycle before
Stale == mProfileChangeTime = Infinity /\ mIndex = 1 /\ Shift = 0

\* the profile of the cycle that begins at a time, and how much longer it gets
Timetable(begin, extra) ==
  /\ mCycleLength \in Nat /\ begin \in Nat /\ extra \in Nat
  /\ Profile!Valid(mTimesDataInitial)
  /\ mTimesDataInitial[1] = begin
  /\ Last(mTimesDataInitial) = begin + mCycleLength
  /\ mSimulationDuration = Last(mTimesData)
  /\ mSimulationDuration <= begin + mCycleLength + extra
  /\ \A i \in 1..Len(mTimesData) : mTimesData[i] \in Nat
  /\ \A i \in mIndex..Len(mTimesData) : mTimesData[i] = mTimesDataInitial[i] + Shift

\* the next change is known, is overdue, or is that of the cycle before
Changing(extra) ==
  \/ mProfileChangeTime = Profile!GetTimeUntilMaxValueDeviation
  \/ pc \notin {"electrical", "thermal"} /\ elTime >= mProfileChangeTime
  \/ Stale /\ mCycleLength <= extra

Scheduled(begin, extra) ==
  /\ Timetable(begin, extra)
  /\ Changing(extra)
  /\ mProfileChangeTime \in Nat
  /\ mProfileChangeTime = Infinity \/ mProfileChangeTime <= begin + mCycleLength + extra
  /\ pc = "init" => elTime <= begin + extra
  /\ pc \in {"electrical", "thermal"} =>
       /\ steps[1].time <= begin + mCycleLength + extra
       /\ elTime <= steps[1].time + mMaxSimulationStepDuration
  /\ elTime <= begin + mCycleLength + extra + mMaxSimulationStepDuration

\* the times of the file, moved, and those of the moment
LEMMA ScheduleFacts ==
  ASSUME ProfileType, NEW begin, NEW extra, Timetable(begin, extra)
  PROVE  /\ Len(mTimesData) \in Nat /\ Len(mTimesData) >= 1 /\ DOMAIN mTimesData = 1..Len(mTimesData)
         /\ Last(mTimesData) = mTimesData[Len(mTimesData)] /\ Last(mTimesData) \in Nat
         /\ Len(mTimesDataInitial) = Len(mTimesData)
         /\ Last(mTimesDataInitial) = mTimesDataInitial[Len(mTimesData)]
         /\ \A i \in 1..Len(mTimesData) : mTimesDataInitial[i] \in Int
         /\ \A i, j \in 1..Len(mTimesData) : i < j => mTimesDataInitial[i] < mTimesDataInitial[j]
         /\ mIndex \in 1..Len(mTimesData) /\ Shift \in Int
<1> DEFINE n == Len(mTimesData)
<1>1. /\ mTimesData \in Seq(Int) /\ mTimesDataInitial \in Seq(Int)
      /\ n \in Nat /\ n >= 1 /\ DOMAIN mTimesData = 1..n /\ DOMAIN mTimesDataInitial = 1..n
      /\ Last(mTimesData) = mTimesData[n] /\ mIndex \in 1..n
  BY LenProperties DEF ProfileType, Last
<1>2. Len(mTimesDataInitial) = n /\ Last(mTimesDataInitial) = mTimesDataInitial[n]
  <2>1. Len(mTimesDataInitial) \in Nat /\ DOMAIN mTimesDataInitial = 1..Len(mTimesDataInitial)
    BY <1>1, LenProperties
  <2> HIDE DEF n
  <2>2. Len(mTimesDataInitial) = n
    BY <1>1, <2>1
  <2>3. QED BY <2>2 DEF Last
<1>3. \A i \in 1..n : mTimesDataInitial[i] \in Int
  BY <1>1, <1>2, ElementOfSeq
<1>4. \A k \in 1..(Len(mTimesDataInitial) - 1) : mTimesDataInitial[k] < mTimesDataInitial[k + 1]
  BY DEF Timetable, Profile!Valid
<1>5. \A i, j \in 1..n : i < j => mTimesDataInitial[i] < mTimesDataInitial[j]
  BY <1>1, <1>2, <1>4, NeighboursAscend
<1>6. n \in 1..n /\ mTimesData[n] \in Nat /\ mTimesDataInitial[n] \in Int
  BY <1>1, <1>3 DEF Timetable
<1>7. Last(mTimesData) \in Nat /\ Shift \in Int
  BY <1>1, <1>2, <1>6 DEF Shift
<1>8. QED BY <1>1, <1>2, <1>3, <1>5, <1>7

\* the next change is one of the times that are still to come
LEMMA NextChange ==
  ASSUME ProfileType, NEW begin, NEW extra, Timetable(begin, extra)
  PROVE  LET next == Profile!GetTimeUntilMaxValueDeviation
         IN \/ next = Infinity
            \/ next \in Nat /\ next <= begin + mCycleLength + extra /\ next <= mSimulationDuration
<1> SUFFICES ASSUME mIndex < Len(mTimesData)
             PROVE  LET next == mTimesData[mIndex + 1]
                    IN next \in Nat /\ next <= begin + mCycleLength + extra /\ next <= mSimulationDuration
  BY DEF Profile!GetTimeUntilMaxValueDeviation, Profile!HasNext
<1> DEFINE n == Len(mTimesData)
           i == mIndex + 1
<1>1. /\ n \in Nat /\ n >= 1 /\ Last(mTimesData) = mTimesData[n] /\ Last(mTimesData) \in Nat
      /\ Last(mTimesDataInitial) = mTimesDataInitial[n]
      /\ \A k \in 1..n : mTimesDataInitial[k] \in Int
      /\ \A k, j \in 1..n : k < j => mTimesDataInitial[k] < mTimesDataInitial[j]
      /\ mIndex \in 1..n /\ Shift \in Int
  BY ScheduleFacts
<1>2. i \in 1..n /\ n \in 1..n /\ i \in mIndex..n /\ n \in mIndex..n
  BY <1>1
<1> HIDE DEF n, i
<1>3. mTimesData[i] = mTimesDataInitial[i] + Shift /\ mTimesData[n] = mTimesDataInitial[n] + Shift
      /\ mTimesData[i] \in Nat
  BY <1>2 DEF Timetable, n
<1>4. mTimesDataInitial[i] <= mTimesDataInitial[n] /\ mTimesDataInitial[i] \in Int /\ mTimesDataInitial[n] \in Int
  <2>1. i = n \/ i < n
    BY <1>1, <1>2
  <2>2. QED BY <1>1, <1>2, <2>1
<1>5. mTimesData[i] <= mTimesData[n]
  BY <1>1, <1>3, <1>4
<1>6. mTimesData[n] <= begin + mCycleLength + extra /\ mTimesData[n] \in Nat
      /\ begin + mCycleLength + extra \in Nat
  BY <1>1 DEF Timetable
<1>7. mTimesData[i] \in Nat /\ mTimesData[i] <= begin + mCycleLength + extra
  BY <1>3, <1>5, <1>6
<1>8. mTimesData[i] <= mSimulationDuration
  BY <1>1, <1>5 DEF Timetable
<1>9. QED BY <1>7, <1>8 DEF i

EarlyChanges ==
  \A begin, extra : ProfileType /\ Timetable(begin, extra) =>
    LET next == Profile!GetTimeUntilMaxValueDeviation
    IN \/ next = Infinity
       \/ next \in Nat /\ next <= begin + mCycleLength + extra /\ next <= mSimulationDuration

LEMMA ChangesAreEarly == EarlyChanges
BY NextChange DEF EarlyChanges

LEMMA InitScheduled == Init => Scheduled(0, 0)
<1> SUFFICES ASSUME Init PROVE Scheduled(0, 0)
  OBVIOUS
<1>1. /\ pc = "init" /\ elTime = 0 /\ mProfileChangeTime = 0 /\ cycle = 0
      /\ ProfileType /\ Planned
      /\ Profile!ReadFrom(options.stream)
  BY InitProfile, InitFollowing DEF Init
<1>2. Profile!Valid(mTimesData) /\ mTimesDataInitial = mTimesData /\ mIndex = 1
      /\ mCycleLength = Last(mTimesData)
  BY <1>1 DEF Profile!ReadFrom, Profile!HasData, Profile!Last, Last
<1> DEFINE n == Len(mTimesData)
<1>3. /\ n \in Nat /\ n >= 1 /\ Last(mTimesData) = mTimesData[n]
      /\ \A i \in 1..n : mTimesData[i] \in Int
      /\ \A i, j \in 1..n : i < j => mTimesData[i] < mTimesData[j]
  BY <1>1, <1>2, TimesAscend
<1>4. mTimesData[1] = 0 /\ mSimulationDuration = Last(mTimesData)
  <2>1. mTimesData[1] = 0 * mCycleLength /\ mCycleLength \in Int
    BY <1>1 DEF Planned, InCycle, ProfileType
  <2>2. QED BY <1>1, <2>1 DEF Planned, InCycle
<1> HIDE DEF n
<1>5. \A i \in 1..n : mTimesData[i] \in Nat
  <2>1. TAKE i \in 1..n
  <2>2. i = 1 \/ 1 < i
    BY <1>3
  <2>3. 1 \in 1..n
    BY <1>3
  <2>4. mTimesData[i] >= 0
    BY <1>3, <1>4, <2>2, <2>3
  <2>5. QED BY <1>3, <2>4
<1>6. Last(mTimesData) \in Nat
  <2>1. n \in 1..n
    BY <1>3
  <2>2. QED BY <1>3, <1>5, <2>1
<1>7. \A i \in mIndex..n : mTimesData[i] = mTimesDataInitial[i] + Shift
  <2>1. Shift = 0
    BY <1>2, <1>6 DEF Shift
  <2>2. \A i \in mIndex..n : mTimesData[i] \in Int
    BY <1>2, <1>3
  <2>3. QED BY <1>2, <2>1, <2>2
<1>8. mMaxSimulationStepDuration \in Nat
  BY ConstantsAssumption
<1>9. QED BY <1>1, <1>2, <1>4, <1>5, <1>6, <1>7, <1>8 DEF Scheduled, Timetable, Changing, n

\* what SetCurrent leaves of the schedule
Rescheduled(begin, extra) ==
  /\ UNCHANGED mCycleLength
  /\ Timetable(begin, extra)'
  /\ mProfileChangeTime' = Profile!GetTimeUntilMaxValueDeviation' \/ (Stale' /\ mCycleLength <= extra)

LEMMA EvaluateScheduled ==
  ASSUME ProfileType, elTime \in Nat, NEW begin, NEW extra, Timetable(begin, extra), EvaluateProfile
  PROVE  Rescheduled(begin, extra)
<1>1. /\ UNCHANGED <<mTimesData, mTimesDataInitial, mCycleLength, mSimulationDuration>>
      /\ mIndex' = Profile!CurrentIndex(mTimesData, mIndex, elTime)
      /\ mProfileChangeTime' = Profile!GetTimeUntilMaxValueDeviation'
  BY DEF EvaluateProfile, Profile!SetTimeAndTriggerEvaluation, Profile!Evaluate
<1>2. mIndex' \in mIndex..Len(mTimesData)
  <2>1. mTimesData \in Seq(Int) /\ mIndex \in 1..Len(mTimesData) /\ elTime \in Int
    BY DEF ProfileType
  <2>2. QED BY <1>1, <2>1, IndexFacts
<1>3. Shift' = Shift
  BY <1>1 DEF Shift
<1>4. \A i \in mIndex'..Len(mTimesData) : i \in mIndex..Len(mTimesData)
  <2>1. mIndex \in Int /\ Len(mTimesData) \in Int
    BY ScheduleFacts
  <2>2. QED BY <1>2, <2>1
<1>5. QED BY <1>1, <1>3, <1>4 DEF Timetable, Rescheduled

\* a skip: the next value begins now
LEMMA SkipScheduled ==
  ASSUME ProfileType, elTime \in Nat, NEW begin, NEW extra, Scheduled(begin, extra), SkipSegment,
         pc # "init" => ~HasEnded
  PROVE  Rescheduled(begin, extra)
<1> DEFINE n == Len(mTimesData)
           rest == mTimesData[mIndex + 1] - elTime
<1>1. /\ elTime < mProfileChangeTime /\ mIndex < n
      /\ mTimesData' = [i \in DOMAIN mTimesData |-> IF i > mIndex THEN mTimesData[i] - rest ELSE mTimesData[i]]
      /\ mIndex' = Profile!CurrentIndex(mTimesData', mIndex, elTime)
      /\ UNCHANGED <<mTimesDataInitial, mCycleLength>>
      /\ mProfileChangeTime' = Profile!GetTimeUntilMaxValueDeviation'
      /\ mSimulationDuration' = Last(mTimesData')
  BY DEF SkipSegment, Profile!MoveToNextProfileValue, Profile!HasNext, Profile!RemainingTimeInStep,
         Profile!Evaluate, Profile!GetMaxTime, Profile!Last, Last
<1>2. /\ n \in Nat /\ n >= 1 /\ DOMAIN mTimesData = 1..n
      /\ Last(mTimesData) = mTimesData[n] /\ Last(mTimesDataInitial) = mTimesDataInitial[n]
      /\ \A i \in 1..n : mTimesDataInitial[i] \in Int
      /\ \A i, j \in 1..n : i < j => mTimesDataInitial[i] < mTimesDataInitial[j]
      /\ mIndex \in 1..n /\ Shift \in Int
  BY ScheduleFacts DEF Scheduled
<1>3. /\ \A i \in 1..n : mTimesData[i] \in Nat
      /\ \A i \in mIndex..n : mTimesData[i] = mTimesDataInitial[i] + Shift
  BY DEF Scheduled, Timetable
<1>4. mSimulationDuration = mTimesData[n] /\ mSimulationDuration <= begin + mCycleLength + extra
      /\ mCycleLength \in Nat /\ begin \in Nat /\ extra \in Nat
      /\ mTimesDataInitial[1] = begin /\ mTimesDataInitial[n] = begin + mCycleLength
      /\ mProfileChangeTime \in Nat
      /\ \/ mProfileChangeTime = Profile!GetTimeUntilMaxValueDeviation
         \/ elTime >= mProfileChangeTime
         \/ Stale /\ mCycleLength <= extra
  BY <1>2 DEF Scheduled, Timetable, Changing
<1> HIDE DEF n
<1> DEFINE next == mIndex + 1
<1>5. next \in 1..n /\ mIndex < next /\ n \in 1..n /\ next \in mIndex..n /\ n \in mIndex..n /\ n > mIndex
  BY <1>1, <1>2
<1>6. mTimesData[next] \in Nat /\ rest \in Int
  BY <1>3, <1>5
<1>7. /\ mTimesData' \in Seq(Int) /\ Len(mTimesData') = n
      /\ \A i \in 1..n : mTimesData'[i] = IF i > mIndex THEN mTimesData[i] - rest ELSE mTimesData[i]
  <2> HIDE DEF rest
  <2>1. mTimesData' \in [1..n -> Int]
    BY <1>1, <1>2, <1>3, <1>6
  <2>2. QED BY <1>1, <1>2, <2>1, FunctionIsSequence
<1>8. mTimesData'[next] = elTime
  BY <1>5, <1>6, <1>7
<1>9. mIndex' \in (mIndex + 1)..n
  <2> DEFINE k == Profile!CurrentIndex(mTimesData', mIndex, elTime)
  <2>1. elTime \in Int /\ mIndex \in 1..Len(mTimesData')
    BY <1>2, <1>7
  <2>2. k \in mIndex..Len(mTimesData') /\ (k = Len(mTimesData') \/ elTime < mTimesData'[k + 1])
    BY <1>7, <2>1, IndexFacts
  <2>3. mIndex' = k
    BY <1>1
  <2> HIDE DEF k
  <2>4. k # mIndex
    BY <1>5, <1>7, <1>8, <2>2
  <2>5. QED BY <1>2, <1>7, <2>2, <2>3, <2>4
<1>10. Last(mTimesData') = mTimesData[n] - rest
  <2>1. Last(mTimesData') = mTimesData'[n]
    BY <1>2, <1>7 DEF Last
  <2>2. QED BY <1>5, <1>7, <2>1
<1>11. Shift' = Shift - rest
  <2>1. Shift' = Last(mTimesData') - mTimesDataInitial[n] /\ Shift = mTimesData[n] - mTimesDataInitial[n]
    BY <1>1, <1>2 DEF Shift
  <2>2. mTimesData[n] \in Int /\ mTimesDataInitial[n] \in Int
    BY <1>2, <1>3, <1>5
  <2> HIDE DEF rest
  <2>3. QED BY <1>6, <1>10, <2>1, <2>2
<1>12. ASSUME NEW i \in 1..n PROVE mTimesData'[i] \in Nat
  <2>1. CASE i > mIndex
    <3>1. i \in mIndex..n /\ (i = next \/ next < i)
      BY <1>2, <2>1
    <3>2. mTimesDataInitial[next] <= mTimesDataInitial[i] /\ mTimesDataInitial[next] \in Int
          /\ mTimesDataInitial[i] \in Int
      BY <1>2, <1>5, <3>1
    <3>3. mTimesData[i] = mTimesDataInitial[i] + Shift /\ mTimesData[next] = mTimesDataInitial[next] + Shift
      BY <1>3, <1>5, <3>1
    <3>4. mTimesData'[i] = mTimesData[i] - (mTimesData[next] - elTime)
      BY <1>7, <2>1
    <3>5. QED BY <1>2, <3>2, <3>3, <3>4
  <2>2. CASE ~(i > mIndex)
    BY <1>3, <1>7, <2>2
  <2>3. QED BY <2>1, <2>2
<1>13. ASSUME NEW i \in mIndex'..n PROVE mTimesData'[i] = mTimesDataInitial[i] + Shift'
  <2>1. i \in 1..n /\ i > mIndex /\ i \in mIndex..n
    BY <1>2, <1>9
  <2>2. mTimesData'[i] = mTimesData[i] - rest /\ mTimesData[i] = mTimesDataInitial[i] + Shift
        /\ mTimesDataInitial[i] \in Int
    BY <1>2, <1>3, <1>7, <2>1
  <2> HIDE DEF rest
  <2>3. QED BY <1>2, <1>6, <1>11, <2>2
<1>14. mTimesData[n] - rest <= begin + mCycleLength + extra
  <2>1. mTimesData[n] \in Nat
    BY <1>3, <1>5
  <2>2. CASE mProfileChangeTime = Profile!GetTimeUntilMaxValueDeviation
    <3>1. mProfileChangeTime = mTimesData[next]
      BY <1>1, <2>2 DEF Profile!GetTimeUntilMaxValueDeviation, Profile!HasNext, n
    <3>2. rest >= 0
      BY <1>1, <1>6, <3>1
    <3> HIDE DEF rest
    <3>3. QED BY <1>4, <1>6, <2>1, <3>2
  <2>3. CASE Stale /\ mCycleLength <= extra
    <3>0. Shift = 0 /\ mIndex = 1
      BY <2>3 DEF Stale
    <3>1. elTime <= begin + extra
      <4>1. CASE pc = "init"
        BY <4>1 DEF Scheduled
      <4>2. CASE pc # "init"
        <5>1. mSimulationDuration = mTimesDataInitial[n] /\ mTimesDataInitial[n] \in Int
          BY <1>2, <1>3, <1>4, <1>5, <3>0
        <5>2. elTime < mSimulationDuration
          BY <1>4, <4>2, <5>1 DEF HasEnded
        <5>3. QED BY <1>4, <2>3, <5>1, <5>2
      <4>3. QED BY <4>1, <4>2
    <3>2. mTimesData[n] = begin + mCycleLength /\ mTimesData[next] = mTimesDataInitial[next]
      BY <1>2, <1>3, <1>4, <1>5, <3>0
    <3>3. begin < mTimesDataInitial[next]
      BY <1>2, <1>4, <1>5, <3>0
    <3>4. QED BY <1>4, <1>6, <3>1, <3>2, <3>3
  <2>4. CASE elTime >= mProfileChangeTime
    BY <1>1, <1>4, <2>4
  <2>5. QED BY <1>4, <2>2, <2>3, <2>4
<1>15. Timetable(begin, extra)'
  <2>1. Profile!Valid(mTimesDataInitial) /\ Last(mTimesDataInitial) = begin + mCycleLength
    BY DEF Scheduled, Timetable
  <2>2. QED BY <1>1, <1>4, <1>7, <1>10, <1>12, <1>13, <1>14, <2>1 DEF Timetable
<1>16. QED BY <1>1, <1>15 DEF Rescheduled

LEMMA KeepScheduled ==
  ASSUME ProfileType, elTime \in Nat, NEW begin, NEW extra, Scheduled(begin, extra), KeepValue
  PROVE  Rescheduled(begin, extra)
<1>1. /\ elTime < mProfileChangeTime
      /\ UNCHANGED <<mTimesData, mTimesDataInitial, mIndex, mCycleLength, mProfileChangeTime, mSimulationDuration>>
  BY DEF KeepValue, profile
<1>2. mProfileChangeTime \in Nat
  BY DEF Scheduled
<1>3. mProfileChangeTime = Profile!GetTimeUntilMaxValueDeviation \/ (Stale /\ mCycleLength <= extra)
  BY <1>1, <1>2 DEF Scheduled, Changing
<1>4. Timetable(begin, extra)'
  BY <1>1 DEF Scheduled, Timetable, Shift
<1>5. QED
  BY <1>1, <1>3, <1>4 DEF Rescheduled, Stale, Shift, Profile!GetTimeUntilMaxValueDeviation, Profile!HasNext

\* the load is set, at the start or for a step
LEMMA StartScheduled ==
  ASSUME ProfileType, elTime \in Nat, NEW begin, NEW extra, Scheduled(begin, extra),
         SetCurrent, UNCHANGED elTime,
         (pc = "init" /\ pc' \in {"values", "cycle"}) \/ StartElectricalStep
  PROVE  Scheduled(begin, extra)'
<1>1. pc # "init" => ~HasEnded
  BY DEF StartElectricalStep
<1>2. Rescheduled(begin, extra)
  BY <1>1, EvaluateScheduled, SkipScheduled, KeepScheduled DEF SetCurrent, Scheduled
<1>3. ProfileType'
  BY SetCurrentProfile
<1>4. /\ begin \in Nat /\ extra \in Nat /\ mCycleLength \in Nat /\ mMaxSimulationStepDuration \in Nat
      /\ mCycleLength' = mCycleLength /\ Timetable(begin, extra)'
      /\ mSimulationDuration = Last(mTimesData) /\ mSimulationDuration <= begin + mCycleLength + extra
  BY <1>2, ConstantsAssumption DEF Rescheduled, Scheduled, Timetable
<1>5. Changing(extra)'
  BY <1>2, <1>4 DEF Rescheduled, Changing
<1>6. mProfileChangeTime' \in Nat
      /\ (mProfileChangeTime' = Infinity \/ mProfileChangeTime' <= begin + mCycleLength + extra)
  <2>1. EarlyChanges'
    BY ChangesAreEarly, PTL
  <2>2. LET next == Profile!GetTimeUntilMaxValueDeviation'
        IN next = Infinity \/ (next \in Nat /\ next <= begin + mCycleLength + extra)
    BY <1>3, <1>4, <2>1 DEF EarlyChanges
  <2>3. Infinity \in Nat
    BY ConstantsAssumption
  <2>4. QED BY <1>2, <2>2, <2>3 DEF Rescheduled, Stale
<1>7. CASE pc = "init" /\ pc' \in {"values", "cycle"}
  <2>1. elTime' <= begin + mCycleLength + extra + mMaxSimulationStepDuration
    BY DEF Scheduled
  <2>2. QED BY <1>4, <1>5, <1>6, <1>7, <2>1 DEF Scheduled
<1>8. CASE StartElectricalStep
  <2>1. pc' = "electrical" /\ ~HasEnded /\ steps' = <<Sample(elTime, states, soc')>>
    BY <1>8 DEF StartElectricalStep
  <2>2. Last(mTimesData) \in Nat
    BY ScheduleFacts DEF Scheduled
  <2>3. steps'[1].time = elTime /\ elTime < mSimulationDuration
    BY <1>4, <2>1, <2>2 DEF HasEnded, Sample
  <2>4. elTime <= begin + mCycleLength + extra
    BY <1>4, <2>2, <2>3
  <2>5. QED BY <1>4, <1>5, <1>6, <2>1, <2>3, <2>4 DEF Scheduled
<1>9. QED BY <1>7, <1>8

\* a step that leaves the profile and the load alone
LEMMA QuietScheduled ==
  ASSUME NEW begin, NEW extra, Scheduled(begin, extra), UNCHANGED <<profile, load>>,
         pc' # "init" \/ UNCHANGED <<pc, elTime>>,
         \/ pc' \in {"electrical", "thermal"} /\ pc \in {"electrical", "thermal"}
         \/ pc' \notin {"electrical", "thermal"},
         elTime >= mProfileChangeTime /\ pc \notin {"electrical", "thermal"} => elTime' >= mProfileChangeTime,
         pc' \in {"electrical", "thermal"} =>
           steps'[1].time = steps[1].time /\ elTime' <= steps[1].time + mMaxSimulationStepDuration,
         elTime' <= begin + mCycleLength + extra + mMaxSimulationStepDuration
  PROVE  Scheduled(begin, extra)'
<1>1. UNCHANGED <<mTimesData, mTimesDataInitial, mIndex, mCycleLength, mProfileChangeTime, mSimulationDuration>>
  BY DEF profile, load
<1>2. Timetable(begin, extra)'
  BY <1>1 DEF Scheduled, Timetable, Shift
<1>3. Changing(extra)'
  BY <1>1 DEF Scheduled, Changing, Stale, Shift, Profile!GetTimeUntilMaxValueDeviation, Profile!HasNext
<1>4. QED BY <1>1, <1>2, <1>3 DEF Scheduled

LEMMA SubstepScheduled ==
  ASSUME ProfileType, IInv, NEW begin, NEW extra, Scheduled(begin, extra), ElectricalSubstep
  PROVE  Scheduled(begin, extra)'
<1>1. /\ pc = "electrical" /\ pc' = pc /\ steps'[1] = steps[1]
      /\ elTime' \in (elTime + 1)..(steps[1].time + mMaxSimulationStepDuration)
      /\ UNCHANGED <<profile, load>>
  BY ElectricalSubstepBound DEF ElectricalSubstep
<1>2. steps[1].time \in Nat
  <2>1. steps \in Seq(SampleOfCell) /\ steps # <<>>
    BY <1>1 DEF IInv, CouplingType, Phases
  <2>2. steps[1] \in SampleOfCell
    BY <2>1, ElementOfSeq, LenProperties
  <2>3. QED BY <2>2 DEF SampleOfCell
<1>3. /\ steps[1].time <= begin + mCycleLength + extra
      /\ begin + mCycleLength + extra \in Nat /\ mMaxSimulationStepDuration \in Nat /\ elTime \in Nat
  BY <1>1, ConstantsAssumption DEF Scheduled, Timetable, IInv, CouplingType
<1>4. elTime' <= steps[1].time + mMaxSimulationStepDuration
      /\ elTime' <= begin + mCycleLength + extra + mMaxSimulationStepDuration
  BY <1>1, <1>2, <1>3
<1>5. QED BY <1>1, <1>4, QuietScheduled

\* the end of a thermal step, early or not
LEMMA MeetScheduled ==
  ASSUME ProfileType, IInv, NEW begin, NEW extra, Scheduled(begin, extra), EndThermalStep \/ ThermalStop
  PROVE  Scheduled(begin, extra)'
<1>1. pc = "thermal" /\ UNCHANGED <<profile, load>>
  BY DEF EndThermalStep, ThermalStop
<1>2. pc' = "cycle" /\ elTime' = thTime
  <2>1. CASE EndThermalStep
    BY <2>1, EndThermalStepInv DEF EndThermalStep, cell
  <2>2. CASE ThermalStop
    BY <2>2, ThermalStopStep DEF ResetStatesToPointOfTime
  <2>3. QED BY <2>1, <2>2
<1>3. thTime <= elTime /\ thTime \in Nat /\ elTime \in Nat
  BY <1>1 DEF IInv, CouplingType, Phases
<1>4. /\ elTime <= begin + mCycleLength + extra + mMaxSimulationStepDuration
      /\ begin + mCycleLength + extra \in Nat /\ mMaxSimulationStepDuration \in Nat
  BY ConstantsAssumption DEF Scheduled, Timetable
<1>5. elTime' <= begin + mCycleLength + extra + mMaxSimulationStepDuration
  BY <1>2, <1>3, <1>4
<1>6. QED BY <1>1, <1>2, <1>5, QuietScheduled

\* the next cycle; what came late before is late again
LEMMA CycleScheduled ==
  ASSUME ProfileType, elTime \in Nat, NEW begin, NEW extra, Scheduled(begin, extra),
         NEW more \in Nat, NEW start, start = begin + mCycleLength,
         pc = "cycle", HasEnded, pc' \in {"cycle", "init"},
         Profile!StartNewCycle, mSimulationDuration' = Profile!GetMaxTime',
         UNCHANGED <<mProfileChangeTime, elTime>>,
         extra <= more, mCycleLength <= more,
         pc' = "init" => extra + mMaxSimulationStepDuration <= more
  PROVE  Scheduled(start, more)'
<1> DEFINE next == [i \in DOMAIN mTimesDataInitial |-> mTimesDataInitial[i] + mCycleLength]
           n == Len(mTimesData)
<1>1. /\ mTimesData' = next /\ Profile!Valid(mTimesData') /\ mTimesDataInitial' = mTimesData'
      /\ mIndex' = 1 /\ mCycleLength' = mCycleLength
  BY DEF Profile!StartNewCycle
<1>2. mSimulationDuration' = Last(mTimesData')
  BY DEF Profile!GetMaxTime, Profile!Last, Last
<1>3. /\ n \in Nat /\ n >= 1 /\ DOMAIN mTimesData = 1..n /\ mIndex \in 1..n
      /\ Last(mTimesData) = mTimesData[n] /\ Last(mTimesData) \in Nat
      /\ Last(mTimesDataInitial) = mTimesDataInitial[n]
      /\ \A i \in 1..n : mTimesDataInitial[i] \in Int
      /\ \A i, j \in 1..n : i < j => mTimesDataInitial[i] < mTimesDataInitial[j]
      /\ DOMAIN mTimesDataInitial = DOMAIN mTimesData
  BY ScheduleFacts DEF Scheduled, ProfileType
<1>4. /\ mCycleLength \in Nat /\ begin \in Nat /\ extra \in Nat
      /\ mTimesDataInitial[1] = begin /\ mTimesDataInitial[n] = begin + mCycleLength
      /\ mSimulationDuration = Last(mTimesData)
      /\ mProfileChangeTime \in Nat
      /\ (mProfileChangeTime = Infinity \/ mProfileChangeTime <= begin + mCycleLength + extra)
      /\ elTime <= begin + mCycleLength + extra + mMaxSimulationStepDuration
      /\ mMaxSimulationStepDuration \in Nat
  BY <1>3, ConstantsAssumption DEF Scheduled, Timetable
<1>5. mTimesData' = [i \in 1..n |-> mTimesDataInitial[i] + mCycleLength]
  BY <1>1, <1>3
<1> HIDE DEF next, n
<1>6. /\ mTimesData' \in Seq(Int) /\ Len(mTimesData') = n
      /\ \A i \in 1..n : mTimesData'[i] = mTimesDataInitial[i] + mCycleLength
  <2>1. mTimesData' \in [1..n -> Int]
    BY <1>3, <1>4, <1>5
  <2>2. QED BY <1>3, <1>5, <2>1, FunctionIsSequence
<1>7. Last(mTimesData') = begin + mCycleLength + mCycleLength /\ mTimesData'[1] = begin + mCycleLength
  <2>1. Last(mTimesData') = mTimesData'[n]
    BY <1>6 DEF Last
  <2>2. 1 \in 1..n /\ n \in 1..n
    BY <1>3
  <2>3. QED BY <1>4, <1>6, <2>1, <2>2
<1>8. \A i \in 1..n : mTimesData'[i] \in Nat
  <2>1. TAKE i \in 1..n
  <2>2. 1 \in 1..n /\ (i = 1 \/ 1 < i)
    BY <1>3
  <2>3. mTimesDataInitial[i] >= begin /\ mTimesDataInitial[i] \in Int
    BY <1>3, <1>4, <2>2
  <2>4. QED BY <1>4, <1>6, <2>3
<1>9. Shift' = 0
  BY <1>1, <1>4, <1>7 DEF Shift
<1>10. Timetable(start, more)'
  <2>1. \A i \in mIndex'..n : mTimesData'[i] = mTimesDataInitial'[i] + Shift'
    BY <1>1, <1>3, <1>8, <1>9
  <2>2. QED BY <1>1, <1>2, <1>4, <1>6, <1>7, <1>8, <2>1 DEF Timetable
<1>11. Changing(more)'
  <2>1. CASE mProfileChangeTime = Profile!GetTimeUntilMaxValueDeviation /\ mIndex < n
    <3>1. mProfileChangeTime = mTimesData[mIndex + 1]
      BY <2>1 DEF Profile!GetTimeUntilMaxValueDeviation, Profile!HasNext, n
    <3>2. mIndex + 1 \in mIndex..n /\ n \in mIndex..n /\ mIndex + 1 \in 1..n
      BY <1>3, <2>1
    <3>3. /\ mTimesData[mIndex + 1] = mTimesDataInitial[mIndex + 1] + Shift
          /\ mTimesData[n] = mTimesDataInitial[n] + Shift /\ Shift \in Int
      BY <3>2, ScheduleFacts DEF Scheduled, Timetable, n
    <3>4. mTimesDataInitial[mIndex + 1] <= mTimesDataInitial[n]
          /\ mTimesDataInitial[mIndex + 1] \in Int /\ mTimesDataInitial[n] \in Int
      <4>1. n \in 1..n /\ (mIndex + 1 = n \/ mIndex + 1 < n)
        BY <1>3, <3>2
      <4>2. QED BY <1>3, <3>2, <4>1
    <3>5. mProfileChangeTime <= mSimulationDuration
      BY <1>3, <1>4, <3>1, <3>3, <3>4
    <3>6. elTime >= mProfileChangeTime
      BY <1>3, <1>4, <3>5 DEF HasEnded
    <3>7. QED BY <3>6 DEF Changing
  <2>2. CASE elTime >= mProfileChangeTime
    BY <2>2 DEF Changing
  <2>3. CASE mProfileChangeTime = Infinity
    BY <1>1, <1>4, <1>9, <2>3 DEF Changing, Stale
  <2>4. mIndex < n \/ ~(mIndex < n)
    OBVIOUS
  <2>5. ~(mIndex < n) /\ mProfileChangeTime = Profile!GetTimeUntilMaxValueDeviation => mProfileChangeTime = Infinity
    BY DEF Profile!GetTimeUntilMaxValueDeviation, Profile!HasNext, n
  <2>6. QED BY <2>1, <2>2, <2>3, <2>4, <2>5 DEF Scheduled, Changing, Stale
<1>12. elTime <= start + more + mMaxSimulationStepDuration
       /\ elTime <= start + mCycleLength + more + mMaxSimulationStepDuration
       /\ (pc' = "init" => elTime <= start + more)
       /\ (mProfileChangeTime = Infinity \/ mProfileChangeTime <= start + mCycleLength + more)
  BY <1>4
<1>13. QED BY <1>1, <1>4, <1>10, <1>11, <1>12 DEF Scheduled

\* how much longer a cycle of the coupling gets
Extra == IF cycle = 0 THEN 0 ELSE mCycleLength

\* where the profile of the cycle begins, whatever was skipped before
InSchedule ==
  /\ cycle \in 0..(options.cycles - 1)
  /\ mCycleLength = ProfileEnd(options)
  /\ Scheduled(cycle * mCycleLength, Extra)

LEMMA ProfileEndType == \A o \in Options : ProfileEnd(o) \in Int
<1> TAKE o \in Options
<1>1. PICK lines : lines = Profile!Lines(o.stream)
  OBVIOUS
<1>2. lines \in Seq([time : Int, value : Int])
  BY <1>1, StreamsAssumption
<1>3. lines # <<>> => Last(lines) \in [time : Int, value : Int]
  <2>1. lines # <<>> => Len(lines) \in 1..Len(lines)
    BY <1>2, LenProperties
  <2>2. QED BY <1>2, <2>1, ElementOfSeq DEF Last
<1>4. QED BY <1>1, <1>3 DEF ProfileEnd

LEMMA SameInterval ==
  ASSUME NEW m \in Nat, NEW n \in Nat, m >= 1, 1..m = 1..n
  PROVE  m = n
<1>1. 1 \in 1..n /\ m \in 1..n
  OBVIOUS
<1>2. n \in 1..m
  BY <1>1
<1>3. QED BY <1>1, <1>2

LEMMA InitInSchedule == Init => InSchedule
<1> SUFFICES ASSUME Init PROVE InSchedule
  OBVIOUS
<1> DEFINE lines == Profile!Lines(options.stream)
<1>1. /\ ProfileType /\ Scheduled(0, 0) /\ cycle = 0
      /\ options \in Options /\ Profile!ReadFrom(options.stream)
  BY InitProfile, InitScheduled DEF Init
<1>2. mTimesData = [i \in DOMAIN lines |-> lines[i].time] /\ mCycleLength = Last(mTimesData)
  BY <1>1 DEF Profile!ReadFrom, Profile!HasData, Profile!Last, Last
<1>3. lines \in Seq([time : Int, value : Int])
  BY <1>1, StreamsAssumption
<1>4. ProfileEnd(options) = IF lines = <<>> THEN 0 ELSE Last(lines).time
  BY DEF ProfileEnd
<1> HIDE DEF lines
<1>5. mCycleLength = ProfileEnd(options)
  <2>1. /\ Len(lines) \in Nat /\ DOMAIN lines = 1..Len(lines)
        /\ Len(mTimesData) \in Nat /\ DOMAIN mTimesData = 1..Len(mTimesData) /\ Len(mTimesData) >= 1
    BY <1>1, <1>3, LenProperties DEF ProfileType
  <2>2. DOMAIN mTimesData = 1..Len(lines)
    BY <1>2, <2>1
  <2>3. Len(mTimesData) = Len(lines)
    <3>1. DOMAIN mTimesData = 1..Len(mTimesData) /\ DOMAIN mTimesData = 1..Len(lines)
      BY <2>1, <2>2
    <3>2. 1..Len(mTimesData) = 1..Len(lines)
      BY <3>1, Zenon
    <3>3. QED BY <2>1, <3>2, SameInterval
  <2>4. lines # <<>>
    BY <2>1, <2>3
  <2>5. Last(lines) = lines[Len(lines)] /\ Last(mTimesData) = mTimesData[Len(lines)]
    BY <2>3 DEF Last
  <2>6. Len(lines) \in DOMAIN lines
    BY <2>1, <2>3
  <2>7. QED BY <1>2, <1>4, <2>4, <2>5, <2>6
<1>6. options.cycles \in Nat \ {0} /\ mCycleLength \in Nat
  BY <1>1, OptionsAssumption DEF Scheduled, Timetable
<1>7. cycle * mCycleLength = 0 /\ Extra = 0 /\ cycle \in 0..(options.cycles - 1)
  BY <1>1, <1>6 DEF Extra
<1>8. QED BY <1>1, <1>5, <1>7 DEF InSchedule

LEMMA SetCurrentConstants == SetCurrent => UNCHANGED <<options, mCycleLength>>
BY DEF SetCurrent, EvaluateProfile, SkipSegment, KeepValue, profile,
       Profile!SetTimeAndTriggerEvaluation, Profile!MoveToNextProfileValue

LEMMA NextConstants == [Next]_vars => UNCHANGED <<options, mCycleLength>>
<1> SUFFICES ASSUME [Next]_vars PROVE UNCHANGED mCycleLength
  BY ConstantOptions
<1>1. CASE InitializeSimulation \/ StartElectricalStep
  BY <1>1, SetCurrentConstants DEF InitializeSimulation, StartElectricalStep
<1>2. CASE ElectricalSubstep \/ EndElectricalStep \/ ThermalSubstep \/ EndThermalStep \/ ThermalStop \/ Finish
  BY <1>2 DEF ElectricalSubstep, EndElectricalStep, ThermalSubstep, EndThermalStep, ThermalStop, Finish, profile
<1>3. CASE NextCycle
  BY <1>3 DEF NextCycle, Profile!StartNewCycle
<1>4. CASE UNCHANGED vars
  BY <1>4 DEF vars
<1>5. QED BY <1>1, <1>2, <1>3, <1>4 DEF Next, Step, Terminated

LEMMA NextInSchedule ==
  ASSUME ProfileType, IInv, InSchedule, [Next]_vars
  PROVE  InSchedule'
<1>1. PICK begin, extra : begin = cycle * mCycleLength /\ extra = Extra
  OBVIOUS
<1>2. /\ Scheduled(begin, extra) /\ UNCHANGED <<options, mCycleLength>> /\ mCycleLength = ProfileEnd(options)
      /\ elTime \in Nat /\ cycle \in 0..(options.cycles - 1)
      /\ mCycleLength \in Nat /\ begin \in Nat /\ extra \in Nat /\ options.cycles \in Nat
      /\ mMaxSimulationStepDuration \in Nat
  BY <1>1, NextConstants, OptionsAssumption, ConstantsAssumption
     DEF InSchedule, IInv, CouplingType, Scheduled, Timetable, ProfileType
<1>3. ASSUME Scheduled(begin, extra)', UNCHANGED cycle PROVE InSchedule'
  <2>1. begin = cycle' * mCycleLength' /\ extra = Extra' /\ cycle' \in 0..(options'.cycles - 1)
    BY <1>1, <1>2, <1>3 DEF Extra
  <2>2. mCycleLength' = ProfileEnd(options')
    BY <1>2
  <2>3. QED BY <1>3, <2>1, <2>2 DEF InSchedule
<1>4. CASE InitializeSimulation \/ StartElectricalStep
  <2>1. /\ SetCurrent /\ UNCHANGED <<elTime, cycle>>
        /\ (pc = "init" /\ pc' = "cycle") \/ StartElectricalStep
    BY <1>4 DEF InitializeSimulation, StartElectricalStep
  <2>2. QED BY <1>2, <1>3, <2>1, StartScheduled
<1>5. CASE ElectricalSubstep \/ EndThermalStep \/ ThermalStop
  <2>1. UNCHANGED cycle
    BY <1>5 DEF ElectricalSubstep, EndThermalStep, ThermalStop
  <2>2. QED BY <1>2, <1>3, <1>5, <2>1, SubstepScheduled, MeetScheduled
<1>6. CASE EndElectricalStep \/ ThermalSubstep \/ Finish \/ UNCHANGED vars
  <2>1. /\ UNCHANGED <<profile, load, elTime, steps, cycle>>
        /\ pc' # "init" \/ UNCHANGED <<pc, elTime>>
        /\ \/ pc' \in {"electrical", "thermal"} /\ pc \in {"electrical", "thermal"}
           \/ pc' \notin {"electrical", "thermal"}
    BY <1>6, ThermalSubstepStep DEF EndElectricalStep, ThermalSubstep, Finish, vars, cell, profile, load
  <2>2. pc \in {"electrical", "thermal"} \/ pc' \notin {"electrical", "thermal"}
    BY <2>1
  <2>3. /\ elTime' <= begin + mCycleLength + extra + mMaxSimulationStepDuration
        /\ pc' \in {"electrical", "thermal"} =>
             elTime' <= steps[1].time + mMaxSimulationStepDuration
    BY <1>2, <2>1, <2>2 DEF Scheduled
  <2>4. QED BY <1>2, <1>3, <2>1, <2>3, QuietScheduled
<1>7. CASE NextCycle
  <2>1. /\ pc = "cycle" /\ HasEnded /\ pc' = pc /\ cycle' = cycle + 1 /\ cycle + 1 < options.cycles
        /\ Profile!StartNewCycle /\ mSimulationDuration' = Profile!GetMaxTime'
        /\ UNCHANGED <<mProfileChangeTime, elTime>>
    BY <1>7 DEF NextCycle, cell
  <2>0. PICK start, more : start = begin + mCycleLength /\ more = mCycleLength
    OBVIOUS
  <2>2. extra <= more
    BY <1>1, <1>2, <2>0 DEF Extra
  <2>3. Scheduled(start, more)'
    BY <1>2, <2>0, <2>1, <2>2, CycleScheduled
  <2>4. start = cycle' * mCycleLength'
    BY <1>1, <1>2, <2>0, <2>1, NextMultiple
  <2>5. more = Extra' /\ cycle' \in 0..(options'.cycles - 1)
    BY <1>2, <2>0, <2>1 DEF Extra
  <2>6. mCycleLength' = ProfileEnd(options')
    BY <1>2
  <2>7. QED BY <2>3, <2>4, <2>5, <2>6 DEF InSchedule
<1>8. QED BY <1>4, <1>5, <1>6, <1>7 DEF Next, Step, Terminated

LEMMA MoreCycles ==
  ASSUME NEW c \in Nat, NEW n \in Nat, NEW x \in Nat, c + 1 <= n
  PROVE  c * x + x <= n * x
<1>1. PICK k \in Nat : n = (c + 1) + k
  <2>1. n - (c + 1) \in Nat /\ n = (c + 1) + (n - (c + 1))
    OBVIOUS
  <2>2. QED BY <2>1
<1>2. n * x = (c + 1) * x + k * x /\ k * x \in Nat
  BY <1>1
<1>3. (c + 1) * x = c * x + x /\ c * x \in Nat
  OBVIOUS
<1>4. QED BY <1>2, <1>3

\* the time by which the coupling is over
EndsInTime == elTime <= LatestTime(options)

LEMMA ScheduleEnds ==
  ASSUME ProfileType, IInv, InSchedule, ~options.limits => Planned
  PROVE  EndsInTime /\ mSimulationDuration <= LatestTime(options)
<1>1. PICK c, n, x, step : c = cycle /\ n = options.cycles /\ x = mCycleLength /\ step = mMaxSimulationStepDuration
  OBVIOUS
<1>2. /\ Scheduled(c * x, Extra) /\ x = ProfileEnd(options) /\ c \in 0..(n - 1)
      /\ n \in Nat /\ x \in Nat /\ step \in Nat /\ elTime \in Nat
  BY <1>1, OptionsAssumption, ConstantsAssumption
     DEF InSchedule, Scheduled, Timetable, ProfileType, IInv, CouplingType
<1>3. c \in Nat /\ c * x + x <= n * x /\ c * x \in Nat /\ n * x \in Nat /\ (n + 1) * x = n * x + x /\ 0 * x = 0
  <2>1. c \in Nat /\ c + 1 <= n
    BY <1>2
  <2>2. QED BY <1>2, <2>1, MoreCycles
<1>4. /\ elTime <= c * x + x + Extra + step
      /\ mSimulationDuration \in Nat /\ mSimulationDuration <= c * x + x + Extra
  <2>1. elTime <= c * x + x + Extra + step /\ mSimulationDuration <= c * x + x + Extra
    BY <1>1, <1>2 DEF Scheduled, Timetable
  <2>2. Last(mTimesData) \in Nat
    BY <1>2, ScheduleFacts DEF Scheduled
  <2>3. QED BY <1>2, <2>1, <2>2 DEF Scheduled, Timetable
<1>5. LatestTime(options) = (n + IF options.limits /\ n > 1 THEN 1 ELSE 0) * x + step
  BY <1>1, <1>2 DEF LatestTime
<1>6. CASE ~options.limits
  <2>1. elTime <= (c + 1) * x /\ mSimulationDuration = (c + 1) * x /\ (c + 1) * x = c * x + x
    BY <1>1, <1>2, <1>6, NextMultiple DEF Planned, InCycle
  <2>2. LatestTime(options) = n * x + step
    BY <1>2, <1>5, <1>6
  <2>3. QED BY <1>2, <1>3, <1>4, <2>1, <2>2 DEF EndsInTime
<1>7. CASE c = 0
  <2>1. elTime <= x + step /\ mSimulationDuration <= x
    BY <1>1, <1>2, <1>3, <1>4, <1>7 DEF Extra
  <2>2. LatestTime(options) = n * x + step \/ LatestTime(options) = (n + 1) * x + step
    BY <1>2, <1>5
  <2>3. c * x = 0
    BY <1>2, <1>7
  <2>4. x <= n * x
    BY <1>2, <1>3, <2>3
  <2>5. QED BY <1>2, <1>3, <1>4, <2>1, <2>2, <2>4 DEF EndsInTime
<1>8. CASE options.limits /\ c # 0
  <2>1. n > 1 /\ Extra = x
    BY <1>1, <1>2, <1>8 DEF Extra
  <2>2. LatestTime(options) = (n + 1) * x + step
    BY <1>5, <1>8, <2>1
  <2>3. QED BY <1>2, <1>3, <1>4, <2>1, <2>2 DEF EndsInTime
<1>9. QED BY <1>6, <1>7, <1>8

\* The run is over when the profile was simulated as often as the options say; late skips
\* make it longer, by less than one more profile and one electrical step.
THEOREM RunEndsInTime == Spec => []EndsInTime
<1>1. ProfileType /\ IInv /\ InSchedule /\ [Next]_vars => InSchedule'
  BY NextInSchedule
<1>2. ProfileType /\ IInv /\ InSchedule /\ (~options.limits => Planned /\ Following) => EndsInTime
  BY ScheduleEnds
<1>3. QED BY <1>1, <1>2, InitInSchedule, CouplingInvariant, FollowingInvariant, PTL DEF Spec

\* the bounds of the clock and of the duration
ClockBounds == elTime \in 0..MaxTime /\ mSimulationDuration \in 0..MaxTime

LEMMA ClockIsBounded ==
  ASSUME ProfileType, IInv, InSchedule, ~options.limits => Planned
  PROVE  ClockBounds
<1>1. elTime <= LatestTime(options) /\ mSimulationDuration <= LatestTime(options)
  BY ScheduleEnds DEF EndsInTime
<1>2. LatestTime(options) <= MaxTime /\ LatestTime(options) \in Int
  <2>1. mCycleLength = ProfileEnd(options) /\ mCycleLength \in Nat /\ options.cycles \in Nat
        /\ mMaxSimulationStepDuration \in Nat
    BY OptionsAssumption, ConstantsAssumption DEF InSchedule, Scheduled, Timetable, ProfileType
  <2>2. (options.cycles + IF options.limits /\ options.cycles > 1 THEN 1 ELSE 0) \in Nat
    BY <2>1
  <2>3. QED BY <2>1, <2>2, TimesAssumption DEF LatestTime, ProfileType
<1>3. elTime \in Nat /\ MaxTime \in Nat
  BY ConstantsAssumption DEF IInv, CouplingType
<1>4. mSimulationDuration \in Nat
  <2>1. \E begin, extra : Timetable(begin, extra)
    BY DEF InSchedule, Scheduled
  <2>2. QED BY <2>1, ScheduleFacts DEF Timetable
<1>5. QED BY <1>1, <1>2, <1>3, <1>4 DEF ClockBounds

LEMMA TimeIsBounded == Spec => [](elTime <= MaxTime)
<1> DEFINE Small == elTime <= MaxTime
<1>1. ProfileType /\ IInv /\ InSchedule /\ (~options.limits => Planned /\ Following) => ClockBounds
  BY ClockIsBounded
<1>2. ClockBounds => Small
  BY ConstantsAssumption DEF ClockBounds
<1>3. ProfileType /\ IInv /\ InSchedule /\ [Next]_vars => InSchedule'
  BY NextInSchedule
<1> HIDE DEF Small
<1>4. Spec => []Small
  BY <1>1, <1>2, <1>3, InitInSchedule, CouplingInvariant, FollowingInvariant, PTL DEF Spec
<1>5. QED BY <1>4 DEF Small

\* The charge is that of the surviving run, however often it was interpolated back.
THEOREM ChargeSurvives == Spec => []SocOfSurvivingRun
<1> DEFINE Small == elTime <= MaxTime
<1>1. ProfileType /\ IInv /\ Charged /\ Small /\ Small' /\ [Next]_vars => Charged'
  BY NextCharged
<1>2. Charged => SocOfSurvivingRun
  BY DEF Charged, SocOfSurvivingRun
<1>3. Spec => []Small
  BY TimeIsBounded
<1> HIDE DEF Small
<1>4. QED BY <1>1, <1>2, <1>3, InitCharged, CouplingInvariant, PTL DEF Spec

LEMMA HeatInvariant == Spec => [](Charged /\ Heated)
<1> DEFINE Small == elTime <= MaxTime
<1>1. ProfileType /\ IInv /\ Charged /\ Small /\ Small' /\ [Next]_vars => Charged'
  BY NextCharged
<1>2. ProfileType /\ IInv /\ Charged /\ Heated /\ Small /\ Small' /\ [Next]_vars => Heated'
  BY NextHeated
<1>3. Spec => []Small
  BY TimeIsBounded
<1> HIDE DEF Small
<1>4. QED BY <1>1, <1>2, <1>3, InitCharged, InitHeated, CouplingInvariant, PTL DEF Spec

\* only a thermal substep moves the thermal time
LEMMA ThermalTime ==
  ASSUME IInv, [Next]_vars, thTime' # thTime
  PROVE  ThermalSubstep
<1>1. CASE InitializeSimulation \/ StartElectricalStep \/ ElectricalSubstep \/ EndElectricalStep
           \/ EndThermalStep \/ ThermalStop \/ NextCycle \/ Finish \/ UNCHANGED vars
  BY <1>1 DEF InitializeSimulation, StartElectricalStep, ElectricalSubstep, EndElectricalStep,
              EndThermalStep, ThermalStop, NextCycle, Finish, vars, thermal
<1>2. QED BY <1>1 DEF Next, Step, Terminated

\* A thermal substep is integrated with the average of the samples that the surviving
\* run left for the substep before, however often the electrical simulation was sent back.
THEOREM SourceSurvives == Spec => SourceOfSurvivingRun
<1> DEFINE Small == elTime <= MaxTime
           Taken == thTime' # thTime =>
                      LET dt == thTime' - thTime
                          sampled == [t \in thTime..(thTime' - 1) |-> SampledPower(t)]
                      IN source' = [energy |-> Thermal!SumOf(sampled, thTime, dt), dt |-> dt]
<1>1. IInv /\ Charged /\ Heated /\ Small /\ [Next]_vars => Taken
  <2> SUFFICES ASSUME IInv, Charged, Heated, Small, [Next]_vars, thTime' # thTime PROVE Taken
    OBVIOUS
  <2>1. TakesSamples
    BY ThermalTime, ThermalTakes
  <2>2. QED BY <2>1 DEF TakesSamples
<1>2. Spec => []Small
  BY TimeIsBounded
<1>3. SourceOfSurvivingRun <=> [][Taken]_vars
  BY DEF SourceOfSurvivingRun
<1> HIDE DEF Small, Taken
<1>4. QED BY <1>1, <1>2, <1>3, HeatInvariant, CouplingInvariant, PTL DEF Spec

-----------------------------------------------------------------------------
(* The types, as far as the invariants before leave them open. *)

ProfileTyped ==
  /\ mValuesData \in [DOMAIN mTimesData -> Int] /\ mValue \in Int
  /\ mTime \in 0..MaxTime
  /\ mProfileChangeTime \in 0..MaxTime \cup {Infinity}
  /\ outOfLimits \in BOOLEAN /\ tooHot \in BOOLEAN

\* no charge is negative, neither that of the cell nor that of its samples
CellTyped ==
  /\ states \in Nat
  /\ \A i \in 1..Len(steps) : steps[i].states \in Nat
  /\ \A t \in 0..MaxTime : run.total[t] \in Nat

\* no two entries have the same time, so there are not more of them than times
RecordTyped ==
  /\ mFixedPowerDissipation = 0
  /\ \A i \in 1..Len(mPowerDissipations) :
       mPowerDissipations[i].value \in {0} \cup UNION {o.rates : o \in Options}
  /\ \A i, j \in 1..Len(mPowerDissipations) : i < j => mPowerDissipations[i].time < mPowerDissipations[j].time

LEMMA InitTyped == Init => ProfileTyped /\ CellTyped /\ RecordTyped
<1> SUFFICES ASSUME Init PROVE ProfileTyped /\ CellTyped /\ RecordTyped
  OBVIOUS
<1>1. PICK lines : lines = Profile!Lines(options.stream)
  OBVIOUS
<1>2. /\ options \in Options /\ Profile!ReadFrom(options.stream) /\ ProfileType
      /\ mProfileChangeTime = 0 /\ MaxTime \in Nat
      /\ outOfLimits \in Voltages /\ tooHot = FALSE
  BY InitProfile, ConstantsAssumption DEF Init
<1>3. /\ lines \in Seq([time : Int, value : Int])
      /\ mTimesData = [i \in DOMAIN lines |-> lines[i].time]
      /\ mValuesData = [i \in DOMAIN lines |-> lines[i].value]
      /\ mTime = 0 /\ mValue = mValuesData[1]
  BY <1>1, <1>2, StreamsAssumption DEF Profile!ReadFrom, Profile!HasData
<1>4. mValuesData \in [DOMAIN mTimesData -> Int]
  <2>1. DOMAIN lines = 1..Len(lines)
    BY <1>3, LenProperties
  <2>2. \A i \in DOMAIN lines : lines[i] \in [time : Int, value : Int]
    BY <1>3, <2>1, ElementOfSeq
  <2>3. QED BY <1>3, <2>2
<1>5. mValue \in Int
  <2>1. 1 \in DOMAIN mTimesData
    BY <1>2, LenProperties DEF ProfileType
  <2>2. QED BY <1>3, <1>4, <2>1
<1>6. outOfLimits \in BOOLEAN
  BY <1>2 DEF Voltages
<1>7. ProfileTyped
  <2>1. tooHot \in BOOLEAN
    BY <1>2, Zenon
  <2>2. mTime \in 0..MaxTime /\ mProfileChangeTime \in 0..MaxTime
    <3>1. MaxTime \in Nat /\ mTime = 0 /\ mProfileChangeTime = 0
      BY <1>2, <1>3
    <3>2. QED BY <3>1
  <2>3. QED BY <1>4, <1>5, <1>6, <2>1, <2>2 DEF ProfileTyped
<1>8. CellTyped
  <2>1. states = 0 /\ steps = <<>> /\ run = [total |-> [t \in 0..MaxTime |-> 0], samples |-> {0}]
    BY DEF Init
  <2>2. QED BY <2>1 DEF CellTyped
<1>9. RecordTyped
  <2>1. mPowerDissipations = <<[value |-> 0, time |-> 0]>> /\ mFixedPowerDissipation = 0
    BY DEF Init, Thermal!Init
  <2>2. QED BY <2>1 DEF RecordTyped
<1>10. QED BY <1>7, <1>8, <1>9

\* what the profile finds for a time is one of its values
LEMMA EvaluateTyped ==
  ASSUME mValuesData \in [DOMAIN mTimesData -> Int], mValue \in Int,
         NEW times, Profile!Evaluate(times, elTime), mIndex' \in DOMAIN mTimesData
  PROVE  mTime' = elTime /\ mValue' \in Int
BY DEF Profile!Evaluate

LEMMA SetCurrentTyped ==
  ASSUME ProfileType, elTime \in 0..MaxTime, ProfileTyped, SetCurrent, ProfileType',
         NEW begin, NEW extra, Timetable(begin, extra)', mSimulationDuration' <= MaxTime
  PROVE  /\ mValuesData' \in [DOMAIN mTimesData' -> Int] /\ mValue' \in Int
         /\ mTime' \in 0..MaxTime
         /\ mProfileChangeTime' \in 0..MaxTime \cup {Infinity}
         /\ outOfLimits' \in BOOLEAN
<1>1. outOfLimits' \in BOOLEAN
  BY DEF SetCurrent, EvaluateProfile, SkipSegment, KeepValue, UpdateSystemValues, Voltages, ProfileTyped
<1>2. CASE EvaluateProfile \/ SkipSegment
  <2>1. /\ mProfileChangeTime' = Profile!GetTimeUntilMaxValueDeviation'
        /\ DOMAIN mTimesData' = DOMAIN mTimesData /\ mValuesData' = mValuesData
        /\ \E times : Profile!Evaluate(times, elTime)
    BY <1>2 DEF EvaluateProfile, SkipSegment, Profile!SetTimeAndTriggerEvaluation, Profile!MoveToNextProfileValue
  <2>2. mIndex' \in DOMAIN mTimesData'
    BY LenProperties DEF ProfileType
  <2>3. mTime' = elTime /\ mValue' \in Int
    BY <2>1, <2>2, EvaluateTyped DEF ProfileTyped
  <2>4. EarlyChanges'
    BY ChangesAreEarly, PTL
  <2>5. mProfileChangeTime' \in 0..MaxTime \cup {Infinity}
    <3>1. \/ mProfileChangeTime' = Infinity
          \/ mProfileChangeTime' \in Nat /\ mProfileChangeTime' <= mSimulationDuration'
      BY <2>1, <2>4 DEF EarlyChanges
    <3>2. mSimulationDuration' \in Int /\ MaxTime \in Nat
      BY ConstantsAssumption, LenProperties DEF Timetable, ProfileType, Last
    <3>3. QED BY <3>1, <3>2
  <2>6. QED BY <1>1, <2>1, <2>3, <2>5 DEF ProfileTyped
<1>3. CASE KeepValue
  BY <1>1, <1>3 DEF KeepValue, profile, ProfileTyped
<1>4. QED BY <1>2, <1>3 DEF SetCurrent

LEMMA NextProfileTyped ==
  ASSUME ProfileType, IInv, elTime <= MaxTime, ProfileTyped, [Next]_vars,
         ProfileType', InSchedule', mSimulationDuration' <= MaxTime
  PROVE  ProfileTyped'
<1>1. elTime \in 0..MaxTime /\ MaxTime \in Nat
  BY ConstantsAssumption DEF IInv, CouplingType
<1>2. PICK begin, extra : Timetable(begin, extra)'
  BY DEF InSchedule, Scheduled
<1>3. ASSUME UNCHANGED <<profile, mProfileChangeTime>>, outOfLimits' \in BOOLEAN, tooHot' \in BOOLEAN
      PROVE  ProfileTyped'
  BY <1>3 DEF ProfileTyped, profile
<1>4. CASE InitializeSimulation \/ StartElectricalStep
  <2>1. SetCurrent /\ tooHot' = tooHot
    BY <1>4 DEF InitializeSimulation, StartElectricalStep, thermal
  <2>2. /\ mValuesData' \in [DOMAIN mTimesData' -> Int] /\ mValue' \in Int
        /\ mTime' \in 0..MaxTime
        /\ mProfileChangeTime' \in 0..MaxTime \cup {Infinity}
        /\ outOfLimits' \in BOOLEAN
    BY <1>1, <1>2, <2>1, SetCurrentTyped
  <2>3. QED BY <2>1, <2>2 DEF ProfileTyped
<1>5. CASE ElectricalSubstep \/ EndElectricalStep \/ ThermalSubstep \/ EndThermalStep \/ Finish
           \/ UNCHANGED vars
  <2>1. UNCHANGED <<profile, mProfileChangeTime>> /\ outOfLimits' \in BOOLEAN /\ tooHot' \in BOOLEAN
    BY <1>5 DEF ElectricalSubstep, EndElectricalStep, ThermalSubstep, EndThermalStep, Finish, vars,
                profile, load, cell, thermal, ProfileTyped, Voltages
  <2>2. QED BY <1>3, <2>1
<1>6. CASE ThermalStop
  <2>1. ResetStatesToPointOfTime(thTime)
    BY <1>6, ThermalStopStep
  <2>2. UNCHANGED <<profile, mProfileChangeTime>> /\ outOfLimits' \in BOOLEAN /\ tooHot' \in BOOLEAN
    BY <1>6, <2>1 DEF ThermalStop, ResetStatesToPointOfTime, UpdateSystemValues, Voltages,
                      profile, load, thermal, ProfileTyped
  <2>3. QED BY <1>3, <2>2
<1>7. CASE NextCycle
  <2>1. /\ DOMAIN mTimesData' = DOMAIN mTimesDataInitial /\ mValuesData' = mValuesData
        /\ mTime' = 0 /\ mValue' = mValuesData[1]
        /\ UNCHANGED <<mProfileChangeTime, outOfLimits, tooHot>>
    BY <1>7 DEF NextCycle, Profile!StartNewCycle, cell, thermal
  <2>2. DOMAIN mTimesData' = DOMAIN mTimesData /\ 1 \in DOMAIN mTimesData
    BY <2>1, LenProperties DEF ProfileType
  <2>3. mValue' \in Int /\ mTime' \in 0..MaxTime
    BY <1>1, <2>1, <2>2 DEF ProfileTyped
  <2>4. QED BY <2>1, <2>2, <2>3 DEF ProfileTyped
<1>8. QED BY <1>4, <1>5, <1>6, <1>7 DEF Next, Step, Terminated

LEMMA SubstepCellTyped ==
  ASSUME ProfileType, IInv, elTime <= MaxTime, CellTyped, ElectricalSubstep
  PROVE  CellTyped'
<1>1. PICK d \in 1..(LoopStopTime - elTime), r \in options.rates :
       /\ elTime' = elTime + d
       /\ states' = states + r * d
       /\ steps' = Append(steps, Sample(elTime', states', soc'))
       /\ RunGoesOn(r)
  BY DEF ElectricalSubstep
<1>2. r \in Nat /\ d \in Nat /\ elTime \in 0..MaxTime /\ states' \in Nat
  <2>1. r \in Nat /\ d \in Nat
    BY OptionsAssumption DEF ProfileType
  <2>2. r * d \in Nat
    BY <2>1
  <2>3. elTime \in 0..MaxTime
    BY ConstantsAssumption DEF IInv, CouplingType
  <2>4. states \in Nat
    BY DEF CellTyped
  <2>5. states' \in Nat
    BY <1>1, <2>2, <2>4
  <2>6. QED BY <2>1, <2>3, <2>5
<1>3. \A i \in 1..Len(steps') : steps'[i].states \in Nat
  <2>1. PICK sample : sample = Sample(elTime', states', soc')
    OBVIOUS
  <2>2. IInv'
    BY ElectricalSubstepInv
  <2>3. sample \in SampleOfCell /\ sample.states \in Nat
    BY <1>2, <2>1, <2>2 DEF Sample, SampleOfCell, IInv, CouplingType
  <2>4. /\ Len(steps) \in Nat /\ Len(steps') = Len(steps) + 1 /\ steps'[Len(steps) + 1] = sample
        /\ \A i \in 1..Len(steps) : steps'[i] = steps[i]
    BY <1>1, <2>1, <2>3, AppendFacts, LenProperties DEF IInv, CouplingType
  <2>5. TAKE i \in 1..Len(steps')
  <2>6. i \in 1..Len(steps) \/ i = Len(steps) + 1
    BY <2>4
  <2>7. QED BY <2>3, <2>4, <2>6 DEF CellTyped
<1>4. ASSUME NEW t \in 0..MaxTime PROVE run'.total[t] \in Nat
  <2>1. run'.total[t] = IF t \in elTime..elTime' THEN run.total[elTime] + r * (t - elTime) ELSE run.total[t]
    BY <1>1 DEF RunGoesOn
  <2>2. run.total[elTime] \in Nat /\ run.total[t] \in Nat
    BY <1>2 DEF CellTyped
  <2>3. t \in elTime..elTime' => run.total[elTime] + r * (t - elTime) \in Nat
    <3>1. ASSUME t \in elTime..elTime' PROVE run.total[elTime] + r * (t - elTime) \in Nat
      <4>1. t - elTime \in Nat
        BY <1>2, <3>1
      <4>2. r * (t - elTime) \in Nat
        BY <1>2, <4>1
      <4>3. QED BY <2>2, <4>2
    <3>2. QED BY <3>1
  <2>4. QED BY <1>2, <2>1, <2>2, <2>3
<1>5. QED BY <1>2, <1>3, <1>4 DEF CellTyped

LEMMA SameAtBothEnds ==
  \A q \in Nat, x \in Nat, y \in Nat, t \in Nat : q * (y - t) + q * (t - x) = q * (y - x)
OBVIOUS

LEMMA StopCellTyped ==
  ASSUME IInv, elTime <= MaxTime, CellTyped, ThermalStop
  PROVE  CellTyped'
<1>1. PICK i : i = IndexBefore(thTime)
  OBVIOUS
<1>2. /\ pc = "thermal" /\ tooHot /\ thTime < elTime /\ steps' = steps
      /\ states' = Scaled(i, thTime, steps[i].states, steps[i].states)
  BY <1>1, ThermalStopStep DEF ResetStatesToPointOfTime
<1>3. /\ i \in 1..(Len(steps) - 1)
      /\ steps[i].time \in Nat /\ steps[i + 1].time \in Nat
      /\ steps[i].time <= thTime /\ thTime < steps[i + 1].time /\ thTime \in Nat /\ elTime \in Nat
  BY <1>1, <1>2, ResetAccepted DEF IInv, CouplingType
<1>4. states' \in Nat
  <2>1. PICK q, x, y, t : q = steps[i].states /\ x = steps[i].time /\ y = steps[i + 1].time /\ t = thTime
    OBVIOUS
  <2>2. i \in 1..Len(steps)
    BY <1>3, LenProperties DEF IInv, CouplingType
  <2>3. q \in Nat /\ x \in Nat /\ y \in Nat /\ t \in Nat /\ y - x \in Nat \ {0}
    <3>1. q \in Nat
      BY <2>1, <2>2 DEF CellTyped
    <3>2. x \in Nat /\ y \in Nat /\ t \in Nat /\ x <= t /\ t < y
      BY <1>3, <2>1
    <3>3. QED BY <3>1, <3>2
  <2>4. q * (y - t) + q * (t - x) = q * (y - x)
    BY <2>3, SameAtBothEnds
  <2>5. (q * (y - x)) \div (y - x) = q
    BY <2>3, ExactQuotient
  <2>6. Scaled(i, thTime, q, q) = (q * (y - t) + q * (t - x)) \div (y - x)
    BY <2>1 DEF Scaled
  <2>7. QED BY <1>2, <2>1, <2>3, <2>4, <2>5, <2>6
<1>5. ~RefusesReset(thTime)
  BY <1>2, ResetAccepted
<1>6. run'.total = [t \in 0..MaxTime |-> IF t <= thTime THEN run.total[t] ELSE 0]
  BY <1>5 DEF ThermalStop, RunIsCut
<1>7. \A t \in 0..MaxTime : run'.total[t] \in Nat
  BY <1>6 DEF CellTyped
<1>8. QED BY <1>2, <1>4, <1>7 DEF CellTyped

LEMMA NextCellTyped ==
  ASSUME ProfileType, IInv, elTime <= MaxTime, Charged, CellTyped, [Next]_vars
  PROVE  CellTyped'
<1>1. CASE StartElectricalStep
  <2>1. steps' = <<Sample(elTime, states, soc')>> /\ UNCHANGED <<states, run>>
    BY <1>1 DEF StartElectricalStep
  <2>2. Len(steps') = 1 /\ steps'[1].states = states
    BY <2>1 DEF Sample
  <2>3. QED BY <2>1, <2>2 DEF CellTyped
<1>2. CASE InitializeSimulation \/ EndElectricalStep \/ EndThermalStep \/ NextCycle \/ Finish
           \/ UNCHANGED vars
  BY <1>2 DEF InitializeSimulation, EndElectricalStep, EndThermalStep, NextCycle, Finish, vars, cell, CellTyped
<1>3. CASE ThermalSubstep
  <2>1. UNCHANGED <<states, steps>> /\ run'.total = run.total
    BY <1>3, SamplesOfSubstep DEF ThermalSubstep, cell
  <2>2. QED BY <2>1 DEF CellTyped
<1>4. QED BY <1>1, <1>2, <1>3, SubstepCellTyped, StopCellTyped DEF Next, Step, Terminated

LEMMA NextRecordTyped ==
  ASSUME ProfileType, IInv, RecordTyped, [Next]_vars
  PROVE  RecordTyped'
<1> DEFINE p == mPowerDissipations
           Power == {0} \cup UNION {o.rates : o \in Options}
<1>1. /\ p \in Seq(EntryOfHeat) /\ p # <<>> /\ Len(p) \in Nat /\ Len(p) >= 1
      /\ \A i \in 1..Len(p) : p[i].time \in Nat /\ p[i].time <= elTime
  BY RecordOfCoupling
<1>2. /\ mFixedPowerDissipation = 0
      /\ \A i \in 1..Len(p) : p[i].value \in Power
      /\ \A i, j \in 1..Len(p) : i < j => p[i].time < p[j].time
  BY DEF RecordTyped
<1>3. ASSUME UNCHANGED mFixedPowerDissipation, Len(p') <= Len(p), Len(p') \in Nat,
             \A i \in 1..Len(p') : p'[i] = p[i]
      PROVE  RecordTyped'
  <2>1. \A i \in 1..Len(p') : i \in 1..Len(p)
    BY <1>1, <1>3
  <2> HIDE DEF p, Power
  <2>2. \A i \in 1..Len(p') : p'[i].value \in Power
    BY <1>2, <1>3, <2>1
  <2>3. \A i, j \in 1..Len(p') : i < j => p'[i].time < p'[j].time
    BY <1>2, <1>3, <2>1
  <2>4. QED BY <1>2, <1>3, <2>2, <2>3 DEF RecordTyped, p, Power
<1>4. CASE StartElectricalStep
  <2>1. p' = <<p[Len(p)]>> /\ mFixedPowerDissipation' = 0
    BY <1>1, <1>2, <1>4 DEF StartElectricalStep, Thermal!ResetPowerDissipation, Thermal!Last
  <2>2. p[Len(p)].value \in Power
    BY <1>1, <1>2
  <2>3. QED BY <2>1, <2>2 DEF RecordTyped
<1>5. CASE ElectricalSubstep
  <2>1. PICK d \in 1..(LoopStopTime - elTime), r \in options.rates :
          elTime' = elTime + d /\ Thermal!AddPowerDissipation(r, elTime')
    BY <1>5 DEF ElectricalSubstep
  <2>2. r \in Power /\ r \in Nat /\ elTime \in Nat /\ elTime' \in Nat /\ elTime < elTime'
    BY <2>1, OptionsAssumption DEF ProfileType, IInv, CouplingType
  <2>3. PICK entry : entry = [value |-> r, time |-> elTime']
    OBVIOUS
  <2>4. entry \in EntryOfHeat /\ entry.value \in Power /\ entry.time = elTime'
    BY <2>2, <2>3 DEF EntryOfHeat
  <2>5. p' = Append(p, entry) /\ mFixedPowerDissipation' = 0
    BY <1>2, <2>1, <2>3 DEF Thermal!AddPowerDissipation
  <2>6. /\ Len(p') = Len(p) + 1 /\ p'[Len(p) + 1] = entry
        /\ \A i \in 1..Len(p) : p'[i] = p[i]
    BY <1>1, <2>4, <2>5, AppendFacts
  <2>7. \A i \in 1..Len(p') : i \in 1..Len(p) \/ i = Len(p) + 1
    BY <1>1, <2>6
  <2> HIDE DEF p, Power
  <2>8. \A i \in 1..Len(p') : p'[i].value \in Power
    BY <1>2, <2>4, <2>6, <2>7
  <2>9. ASSUME NEW i \in 1..Len(p'), NEW j \in 1..Len(p'), i < j PROVE p'[i].time < p'[j].time
    <3>1. CASE j = Len(p) + 1
      <4>1. i \in 1..Len(p)
        BY <1>1, <2>7, <2>9, <3>1
      <4>2. p[i].time \in Nat /\ p[i].time <= elTime
        BY <1>1, <4>1
      <4>3. QED BY <2>2, <2>4, <2>6, <3>1, <4>1, <4>2
    <3>2. CASE j \in 1..Len(p)
      <4>1. i \in 1..Len(p)
        BY <1>1, <2>6, <2>9, <3>2
      <4>2. QED BY <1>2, <2>6, <2>9, <3>2, <4>1
    <3>3. QED BY <2>7, <3>1, <3>2
  <2>10. QED BY <2>5, <2>8, <2>9 DEF RecordTyped, p, Power
<1>6. CASE ThermalStop
  <2>1. Thermal!ResetPowerDissipationToTime(thTime)
    BY <1>6, ThermalStopStep DEF ResetStatesToPointOfTime
  <2>2. thTime \in Nat /\ p[1].time <= thTime
    BY DEF IInv, CouplingType, Recorded
  <2>3. p' \in Seq(EntryOfHeat) /\ Len(p') <= Len(p) /\ \A i \in 1..Len(p') : p'[i] = p[i]
    BY <1>1, <2>1, <2>2, ResetToTimeFacts
  <2>4. UNCHANGED mFixedPowerDissipation
    BY <2>1 DEF Thermal!ResetPowerDissipationToTime
  <2>5. Len(p') \in Nat
    BY <2>3, LenProperties
  <2>6. QED BY <1>3, <2>3, <2>4, <2>5
<1>7. CASE InitializeSimulation \/ EndElectricalStep \/ ThermalSubstep \/ EndThermalStep
           \/ NextCycle \/ Finish \/ UNCHANGED vars
  BY <1>7 DEF InitializeSimulation, EndElectricalStep, ThermalSubstep, EndThermalStep, NextCycle, Finish,
              vars, record, RecordTyped
<1>8. QED BY <1>4, <1>5, <1>6, <1>7 DEF Next, Step, Terminated

\* the power that holds is that of an entry
LEMMA HeldIsNatural ==
  ASSUME IInv, RecordTyped, NEW t \in Nat, thTime <= t
  PROVE  Thermal!Held(mPowerDissipations, t) \in Nat
<1> DEFINE p == mPowerDissipations
           upTo == {i \in DOMAIN p : p[i].time <= t}
<1>1. Len(p) \in Nat /\ Len(p) >= 1 /\ DOMAIN p = 1..Len(p) /\ p[1].time \in Nat
  BY RecordOfCoupling
<1>2. upTo \in SUBSET (1..Len(p)) /\ 1 \in upTo
  <2>1. p[1].time <= thTime /\ thTime \in Nat
    BY DEF IInv, CouplingType, Recorded
  <2>2. QED BY <1>1, <2>1
<1>3. Thermal!Held(p, t) = p[Max(upTo)].value
  BY DEF Thermal!Held, Thermal!Max, Max
<1> HIDE DEF upTo
<1>4. Max(upTo) \in 1..Len(p)
  BY <1>1, <1>2, GreatestElement
<1>5. p[Max(upTo)].value \in {0} \cup UNION {o.rates : o \in Options}
  BY <1>4 DEF RecordTyped
<1>6. QED BY <1>3, <1>5, OptionsAssumption

SourceTyped == source \in [energy : Nat, dt : 0..MaxTime]

\* powers that are not negative add up to a heat that is not
LEMMA SumIsNatural ==
  ASSUME NEW n \in Nat, NEW first \in Nat, NEW power, \A i \in first..(first + n - 1) : power[i] \in Nat
  PROVE  Thermal!SumOf(power, first, n) \in Nat
<1>1. HasEnergy(power, first, n)
  BY EnergyExists
<1>2. PICK sum \in [0..n -> Int] : IsSum(sum, power, first, n) /\ Thermal!SumOf(power, first, n) = sum[n]
  BY <1>1 DEF HasEnergy, IsEnergyUpTo
<1> DEFINE S == {i \in 0..n : sum[i] \in Nat}
<1>3. 0 \in S
  BY <1>2 DEF IsSum
<1>4. ASSUME NEW i \in 0..(n - 1), i \in S PROVE i + 1 \in S
  <2>1. i + 1 \in 1..n /\ first + (i + 1) - 1 = first + i /\ (i + 1) - 1 = i
    OBVIOUS
  <2>2. power[first + i] \in Nat
    OBVIOUS
  <2>3. sum[i + 1] = sum[i] + power[first + i]
    BY <1>2, <2>1 DEF IsSum
  <2>4. QED BY <1>4, <2>1, <2>2, <2>3
<1> HIDE DEF S
<1>5. n \in S
  <2>1. \A i \in 0..n : i \in S
    BY <1>3, <1>4, InductionTo
  <2>2. QED BY <2>1
<1>6. QED BY <1>2, <1>5 DEF S

LEMMA NextSourceTyped ==
  ASSUME IInv, Charged, Heated, elTime <= MaxTime, RecordTyped, SourceTyped, [Next]_vars
  PROVE  SourceTyped'
<1>1. CASE InitializeSimulation \/ StartElectricalStep \/ ElectricalSubstep \/ EndElectricalStep
           \/ EndThermalStep \/ ThermalStop \/ NextCycle \/ Finish \/ UNCHANGED vars
  BY <1>1 DEF InitializeSimulation, StartElectricalStep, ElectricalSubstep, EndElectricalStep,
              EndThermalStep, ThermalStop, NextCycle, Finish, vars, thermal, SourceTyped
<1>2. CASE ThermalSubstep
  <2> DEFINE dt == thTime' - thTime
             held == [t \in thTime..(thTime' - 1) |-> Thermal!Held(mPowerDissipations, t)]
  <2>1. source' = [energy |-> Thermal!SumOf(held, thTime, dt), dt |-> dt]
    BY <1>2, ThermalTakes DEF TakesSamples
  <2>2. dt \in Nat /\ dt \in 0..MaxTime /\ thTime \in Nat /\ thTime + dt - 1 = thTime' - 1
    BY <1>2, ThermalSubstepStep, ConstantsAssumption DEF IInv, CouplingType
  <2>3. \A t \in thTime..(thTime + dt - 1) : held[t] \in Nat
    <3>1. TAKE t \in thTime..(thTime + dt - 1)
    <3>2. t \in Nat /\ thTime <= t /\ t \in thTime..(thTime' - 1)
      BY <2>2
    <3>3. QED BY <3>2, HeldIsNatural
  <2> HIDE DEF held, dt
  <2>4. Thermal!SumOf(held, thTime, dt) \in Nat
    BY <2>2, <2>3, SumIsNatural
  <2>5. QED BY <2>1, <2>2, <2>4 DEF SourceTyped
<1>3. QED BY <1>1, <1>2 DEF Next, Step, Terminated

LEMMA RecordIsTyped ==
  ASSUME IInv, elTime <= MaxTime, RecordTyped
  PROVE  Thermal!TypeOK
<1> DEFINE p == mPowerDissipations
           n == Len(p)
           times == [i \in 1..n |-> p[i].time]
<1>1. /\ p \in Seq(EntryOfHeat) /\ n \in Nat /\ n >= 1 /\ DOMAIN p = 1..n
      /\ \A i \in 1..n : p[i] \in EntryOfHeat /\ p[i].time \in Nat /\ p[i].time <= elTime
  BY RecordOfCoupling
<1>2. elTime \in Nat /\ MaxTime \in Nat
  BY ConstantsAssumption DEF IInv, CouplingType
<1>3. \A i \in 1..n : p[i] \in Thermal!Entry
  <2>1. TAKE i \in 1..n
  <2>2. p[i].time \in 0..MaxTime
    BY <1>1, <1>2
  <2>3. p[i].value \in {0} \cup UNION {o.rates : o \in Options}
    BY DEF RecordTyped
  <2>4. p[i] = [value |-> p[i].value, time |-> p[i].time]
    BY <1>1 DEF EntryOfHeat
  <2>5. QED BY <2>2, <2>3, <2>4 DEF Thermal!Entry, Thermal!Time
<1>4. p \in Seq(Thermal!Entry)
  <2>1. p \in [1..n -> Thermal!Entry]
    <3>1. p = [i \in 1..n |-> p[i]]
      BY <1>1
    <3>2. QED BY <1>3, <3>1
  <2> HIDE DEF n
  <2>2. QED BY <1>1, <2>1, FunctionIsSequence
<1>5. Len(p) <= MaxTime + 1
  <2>1. times \in [1..n -> Nat] /\ \A i, j \in 1..n : i < j => times[i] < times[j]
    BY <1>1 DEF RecordTyped
  <2>2. times[n] = p[n].time /\ n \in 1..n
    BY <1>1
  <2> HIDE DEF times, p, n
  <2>3. n <= times[n] + 1
    BY <1>1, <2>1, <2>2, AscendingNumbers
  <2>4. p[n].time \in Nat /\ p[n].time <= elTime
    BY <1>1, <2>2
  <2>5. n <= MaxTime + 1
    BY <1>1, <1>2, <2>2, <2>3, <2>4
  <2>6. QED BY <2>5 DEF n
<1>6. mFixedPowerDissipation \in {0} \cup UNION {o.rates : o \in Options}
  BY DEF RecordTyped
<1>7. QED BY <1>4, <1>5, <1>6 DEF Thermal!TypeOK

LEMMA ProfileIsTyped ==
  ASSUME ProfileType, elTime \in 0..MaxTime, ProfileTyped
  PROVE  Profile!TypeOK
<1>1. DOMAIN mTimesData = 1..Len(mTimesData)
  BY LenProperties DEF ProfileType
<1>2. mTimesDataInitial \in [DOMAIN mTimesData -> Int]
  <2>1. Len(mTimesDataInitial) \in Nat /\ DOMAIN mTimesDataInitial = 1..Len(mTimesDataInitial)
        /\ mTimesDataInitial \in Seq(Int) /\ DOMAIN mTimesDataInitial = DOMAIN mTimesData
    BY LenProperties DEF ProfileType
  <2>2. mTimesDataInitial = [i \in DOMAIN mTimesDataInitial |-> mTimesDataInitial[i]]
    BY <2>1
  <2>3. \A i \in DOMAIN mTimesDataInitial : mTimesDataInitial[i] \in Int
    BY <2>1, ElementOfSeq
  <2>4. QED BY <2>1, <2>2, <2>3
<1>3. QED BY <1>1, <1>2 DEF ProfileType, ProfileTyped, Profile!TypeOK

LEMMA CouplingIsTyped ==
  ASSUME ProfileType, IInv, InSchedule, ClockBounds, Charged,
         ProfileTyped, CellTyped, RecordTyped, SourceTyped
  PROVE  TypeOK
<1>1. elTime \in 0..MaxTime /\ mSimulationDuration \in 0..MaxTime /\ elTime <= MaxTime
      /\ thTime \in 0..MaxTime /\ mLastTime \in 0..MaxTime
  BY ConstantsAssumption DEF ClockBounds, IInv, CouplingType, Phases, Recorded
<1>2. states \in Nat /\ soc \in Nat
  BY <1>1 DEF CellTyped, Charged
<1>3. source \in [energy : Nat, dt : 0..MaxTime]
  BY DEF SourceTyped
<1>4. mDt \in 0..mMaxSimulationStepDuration
  BY ConstantsAssumption DEF IInv, CouplingType
<1>5. Profile!TypeOK /\ Thermal!TypeOK
  BY <1>1, ProfileIsTyped, RecordIsTyped
<1>6. options \in Options /\ pc \in {"init", "cycle", "electrical", "thermal", "done", "error"}
      /\ cycle \in 0..(options.cycles - 1)
  BY DEF ProfileType, IInv, CouplingType, InSchedule
<1>7. outOfLimits \in BOOLEAN /\ tooHot \in BOOLEAN /\ mProfileChangeTime \in 0..MaxTime \cup {Infinity}
  BY DEF ProfileTyped
<1>8. QED BY <1>1, <1>2, <1>3, <1>4, <1>5, <1>6, <1>7 DEF TypeOK

\* Every variable of the coupling keeps its type: no time behind MaxTime, no negative charge or
\* power, never more entries of heat than the clock has ticks, and a profile of the same values.
THEOREM CouplingTypeCorrect == Spec => []TypeOK
<1> DEFINE Typed == ProfileTyped /\ CellTyped /\ RecordTyped
           Small == elTime <= MaxTime
<1>1. ProfileType /\ IInv /\ InSchedule /\ [Next]_vars => InSchedule'
  BY NextInSchedule
<1>2. ProfileType /\ IInv /\ InSchedule /\ (~options.limits => Planned /\ Following) => ClockBounds
  BY ClockIsBounded
<1>3. ClockBounds => Small
  BY ConstantsAssumption DEF ClockBounds
<1>4. ProfileType /\ IInv /\ Charged /\ ClockBounds /\ Typed /\ [Next]_vars
        /\ ProfileType' /\ InSchedule' /\ ClockBounds' => Typed'
  <2> SUFFICES ASSUME ProfileType, IInv, Charged, ClockBounds, Typed, [Next]_vars,
                      ProfileType', InSchedule', ClockBounds'
               PROVE  Typed'
    OBVIOUS
  <2>1. elTime <= MaxTime /\ mSimulationDuration' <= MaxTime
    BY ConstantsAssumption DEF ClockBounds
  <2>2. QED BY <2>1, NextProfileTyped, NextCellTyped, NextRecordTyped
<1>5. IInv /\ Charged /\ Heated /\ Small /\ Typed /\ SourceTyped /\ [Next]_vars => SourceTyped'
  BY NextSourceTyped
<1>6. Init => Typed /\ SourceTyped
  BY InitTyped, ConstantsAssumption DEF Init, SourceTyped
<1>7. ProfileType /\ IInv /\ InSchedule /\ ClockBounds /\ Charged /\ Typed /\ SourceTyped => TypeOK
  BY CouplingIsTyped
<1> HIDE DEF Typed, Small
<1>8. QED BY <1>1, <1>2, <1>3, <1>4, <1>5, <1>6, <1>7, InitInSchedule, CouplingInvariant,
             FollowingInvariant, HeatInvariant, PTL DEF Spec

-----------------------------------------------------------------------------
(* The refinement: one lemma for the beginning and one for the steps. *)

LEMMA CoInit == Init => Co!Init
  BY DEF Init, Co!Init

LEMMA CoNext == ProfileType /\ IInv /\ [Next]_vars => [Co!Next]_Co!coVars
<1> SUFFICES ASSUME ProfileType, IInv, [Next]_vars PROVE [Co!Next]_Co!coVars
  OBVIOUS
<1>1. CASE InitializeSimulation
  BY <1>1 DEF InitializeSimulation, thermal, Co!coVars
<1>2. CASE StartElectricalStep
  <2>1. /\ pc = "cycle" /\ pc' = "electrical" /\ UNCHANGED <<elTime, thTime>>
        /\ steps' = <<Sample(elTime, states, soc')>>
    BY <1>2 DEF StartElectricalStep, thermal
  <2>2. thTime = elTime
    BY <2>1 DEF IInv, Phases
  <2>3. steps' # <<>> /\ steps'[1].time = elTime
    BY <2>1 DEF Sample
  <2>4. QED BY <2>1, <2>2, <2>3 DEF Co!Next, Co!Begin
<1>3. CASE ElectricalSubstep
  BY <1>3, ElectricalSubstepBound DEF Co!Next, Co!Lead
<1>4. CASE EndElectricalStep
  BY <1>4 DEF EndElectricalStep, cell, Co!Next, Co!HandOver
<1>5. CASE ThermalSubstep
  <2>1. /\ pc = "thermal" /\ pc' = "thermal" /\ thTime' \in Nat
        /\ thTime < thTime' /\ thTime' <= elTime /\ UNCHANGED <<elTime, steps>>
    BY <1>5, ThermalSubstepStep
  <2>2. thTime' \in (thTime + 1)..elTime
    BY <2>1 DEF IInv, CouplingType
  <2>3. QED BY <2>1, <2>2 DEF Co!Next, Co!Follow
<1>6. CASE EndThermalStep
  <2>1. thTime = elTime
    BY <1>6, EndThermalStepInv
  <2>2. QED BY <1>6, <2>1 DEF EndThermalStep, cell, thermal, Co!Next, Co!Meet
<1>7. CASE ThermalStop
  <2>1. /\ pc = "thermal" /\ pc' = "cycle" /\ tooHot /\ thTime < elTime
        /\ thTime' = thTime /\ steps' = steps /\ elTime' = thTime
    BY <1>7, ThermalStopStep DEF ResetStatesToPointOfTime
  <2>2. steps # <<>> /\ steps[1].time < thTime
    BY <2>1 DEF IInv, Phases
  <2>3. QED BY <2>1, <2>2 DEF Co!Next, Co!RollBack
<1>8. CASE NextCycle \/ Finish
  BY <1>8 DEF NextCycle, Finish, cell, thermal, Co!coVars
<1>9. CASE UNCHANGED vars
  BY <1>9 DEF vars, Co!coVars
<1>10. QED
  BY <1>1, <1>2, <1>3, <1>4, <1>5, <1>6, <1>7, <1>8, <1>9 DEF Next, Step, Terminated

\* The coupled simulation is a co-simulation: whatever the profile, the cell and
\* the temperatures do, the electrical simulation is never more than one step
\* ahead, and it goes back exactly to where the thermal one stopped.
THEOREM CoSimulationRefinement == Spec => ImplementsCoSimulation
<1> SUFFICES Spec => Co!Spec
  BY DEF ImplementsCoSimulation
<1>1. QED BY CoInit, CoNext, CouplingInvariant, PTL DEF Spec, Co!Spec

-----------------------------------------------------------------------------
(* The coupling inside of the aging simulation. *)

\* where an aging step begins, behind a step of both simulations or before the first one
Ready ==
  /\ elTime \in Nat /\ thTime = elTime /\ mLastTime = thTime
  /\ states \in Int /\ soc \in Int /\ mDt = 0
  /\ steps \in Seq(SampleOfCell)
  /\ mPowerDissipations \in Seq(EntryOfHeat) /\ mPowerDissipations # <<>>
  /\ mPowerDissipations[1].time <= elTime
  /\ \A i \in 1..Len(mPowerDissipations) : mPowerDissipations[i].time <= elTime

CouplingInv == IF pc \in {"init", "values"} THEN Ready ELSE IInv

LEMMA InitCouplingInv == AgingInit => ProfileType /\ CouplingInv
<1> SUFFICES ASSUME AgingInit PROVE ProfileType /\ CouplingInv
  OBVIOUS
<1>1. Init
  BY DEF AgingInit
<1>2. ProfileType /\ IInv
  BY <1>1, InitProfile, InitCoupling
<1>3. pc = "init" /\ thTime = elTime
  BY <1>1 DEF Init
<1>4. Ready
  BY <1>2, <1>3 DEF Ready, IInv, CouplingType, Recorded
<1>5. QED BY <1>2, <1>3, <1>4 DEF CouplingInv

LEMMA TimeType == CouplingInv => elTime \in Nat
BY DEF CouplingInv, Ready, IInv, CouplingType

\* what the aging program does to the profile
LEMMA ResetConstants == ResetThElSimulation => UNCHANGED <<options, mCycleLength>>
BY DEF ResetThElSimulation, Profile!StartNewCycle

\* The steps of the aging program: what each of them does to the coupling.
LEMMA AgingStepCases ==
  ASSUME [AgingNext]_agingVars
  PROVE  \/ StartAgingStep
         \/ InitialValues
         \/ StartElectricalStep /\ ~AgingStepDue /\ DoElectricalStep
         \/ ElectricalSubstep /\ DoElectricalStep
         \/ EndElectricalStep /\ DoElectricalStep
         \/ ThermalSubstep /\ DoThermalStep
         \/ EndThermalStep /\ DoThermalStep
         \/ ThermalStop /\ DoThermalStep
         \/ NextCycle /\ NextCalculationCycle
         \/ DoAgingStep
         \/ UNCHANGED agingVars
BY DEF AgingNext, AgingStep, AgingTerminated, DoElectricalStep, DoThermalStep, NextCalculationCycle

LEMMA ConstantProfile ==
  ASSUME [AgingNext]_agingVars
  PROVE  UNCHANGED <<options, mCycleLength>>
<1>1. CASE StartAgingStep \/ StartElectricalStep
  BY <1>1, SetCurrentConstants DEF StartAgingStep, StartElectricalStep, SetCurrentAndLength
<1>2. CASE InitialValues \/ ElectricalSubstep \/ EndElectricalStep \/ ThermalSubstep \/ EndThermalStep
           \/ ThermalStop
  BY <1>2 DEF InitialValues, ElectricalSubstep, EndElectricalStep, ThermalSubstep, EndThermalStep,
              ThermalStop, profile
<1>3. CASE NextCycle
  BY <1>3 DEF NextCycle, Profile!StartNewCycle
<1>4. CASE DoAgingStep
  BY <1>4, ResetConstants DEF DoAgingStep, profile
<1>5. CASE UNCHANGED agingVars
  BY <1>5 DEF agingVars, vars
<1>6. QED BY <1>1, <1>2, <1>3, <1>4, <1>5, AgingStepCases

LEMMA NextAgingProfile ==
  ASSUME ProfileType, elTime \in Nat, [AgingNext]_agingVars
  PROVE  ProfileType'
<1>1. CASE StartAgingStep \/ StartElectricalStep
  BY <1>1, SetCurrentProfile DEF StartAgingStep, StartElectricalStep, SetCurrentAndLength
<1>2. CASE ElectricalSubstep \/ EndElectricalStep \/ ThermalSubstep \/ EndThermalStep
           \/ ThermalStop \/ NextCycle
  BY <1>2, NextProfile DEF Next, Step
<1>3. CASE InitialValues
  BY <1>3 DEF InitialValues, profile, load, ProfileType
<1>4. CASE DoAgingStep
  <2>1. CASE UNCHANGED <<profile, load>>
    BY <2>1 DEF profile, load, ProfileType
  <2>2. CASE ResetThElSimulation
    BY <2>2, NewCycleProfile DEF ResetThElSimulation
  <2>3. QED BY <1>4, <2>1, <2>2 DEF DoAgingStep
<1>5. CASE UNCHANGED agingVars
  BY <1>5 DEF agingVars, vars, ProfileType
<1>6. QED BY <1>1, <1>2, <1>3, <1>4, <1>5, AgingStepCases

LEMMA NextCouplingInv ==
  ASSUME ProfileType, CouplingInv, [AgingNext]_agingVars
  PROVE  CouplingInv'
<1>1. CASE StartAgingStep
  <2>1. /\ pc = "init" /\ pc' = "values"
        /\ UNCHANGED <<elTime, thTime, mLastTime, states, soc, mDt, steps, mPowerDissipations>>
    BY <1>1, SetCurrentKeepsCharge DEF StartAgingStep, SetCurrentAndLength, thermal, record, CouplingInv, Ready, ProfileType
  <2>2. QED BY <2>1 DEF CouplingInv, Ready
<1>2. CASE InitialValues
  <2>1. /\ pc = "values" /\ pc' = "cycle"
        /\ UNCHANGED <<elTime, thTime, mLastTime, states, soc, mDt, steps, mPowerDissipations>>
    BY <1>2, UpdateKeepsCharge DEF InitialValues, thermal, record, CouplingInv, Ready, ProfileType
  <2>2. Ready
    BY <2>1 DEF CouplingInv
  <2>3. CouplingType' /\ Phases'
    BY <2>1, <2>2 DEF Ready, CouplingType, Phases
  <2>4. Recorded'
    BY <2>1, <2>2 DEF Ready, Recorded
  <2>5. QED BY <2>1, <2>3, <2>4 DEF CouplingInv, IInv
<1>3. CASE StartElectricalStep \/ ElectricalSubstep \/ EndElectricalStep \/ ThermalSubstep
           \/ EndThermalStep \/ ThermalStop \/ NextCycle
  <2>1. pc \notin {"init", "values"} /\ pc' \notin {"init", "values"}
    BY <1>3 DEF StartElectricalStep, ElectricalSubstep, EndElectricalStep, ThermalSubstep,
                EndThermalStep, ThermalStop, NextCycle, UpdateSystem
  <2>2. Next
    BY <1>3 DEF Next, Step
  <2>3. QED BY <2>1, <2>2, NextCoupling DEF CouplingInv
<1>4. CASE DoAgingStep
  <2>1. pc = "cycle" /\ UNCHANGED <<thTime, mLastTime, mPowerDissipations>>
    BY <1>4 DEF DoAgingStep, AgingStepDue, thermal, record
  <2>2. IInv
    BY <2>1 DEF CouplingInv
  <2>3. CASE ResetThElSimulation
    <3>1. pc' = "init" /\ UNCHANGED <<elTime, mDt, steps>> /\ states' \in {0, states} /\ soc' \in {0, soc}
      BY <2>2, <2>3, UpdateKeepsCharge DEF ResetThElSimulation, IInv, CouplingType, ProfileType
    <3>2. Ready'
      BY <2>1, <2>2, <3>1 DEF Ready, IInv, CouplingType, Phases, Recorded
    <3>3. QED BY <3>1, <3>2 DEF CouplingInv
  <2>4. CASE pc' \in {"cycle", "done"} /\ UNCHANGED cell
    <3>1. UNCHANGED <<elTime, states, soc, mDt, steps>>
      BY <2>4 DEF cell
    <3>2. CouplingType' /\ Recorded' /\ Phases'
      BY <2>1, <2>2, <2>4, <3>1 DEF IInv, CouplingType, Phases, Recorded
    <3>3. QED BY <2>4, <3>2 DEF CouplingInv, IInv
  <2>5. QED BY <1>4, <2>1, <2>3, <2>4 DEF DoAgingStep
<1>5. CASE UNCHANGED agingVars
  BY <1>5 DEF agingVars, vars, CouplingInv, Ready, IInv, CouplingType, Phases, Recorded
<1>6. QED BY <1>1, <1>2, <1>3, <1>4, <1>5, AgingStepCases

-----------------------------------------------------------------------------
(* The clocks of the aging program. *)

Clocks ==
  /\ cycle \in Nat
  /\ pc = "init" => cycle = 0
  /\ mCollectAgingData \in BOOLEAN
  /\ pc # "init" \/ ProfileIsLonger => (mCollectAgingData <=> cycle >= SteadyStateCycles)
  /\ pc \in {"init", "values", "cycle"} => agingTime = elTime
  /\ mCollectAgingData /\ (pc \in {"values", "cycle"} \/ (pc = "init" /\ ProfileIsLonger)) =>
       mLastAgingDataTime = elTime
  /\ mCollectAgingData /\ pc \in {"electrical", "thermal"} => mLastAgingDataTime = steps[1].time

LEMMA ConstantDecisions ==
  ASSUME [AgingNext]_agingVars
  PROVE  /\ ProfileIsLonger' <=> ProfileIsLonger
         /\ SteadyStateCycles' = SteadyStateCycles
         /\ options' = options
BY ConstantProfile DEF ProfileIsLonger, SteadyStateCycles

LEMMA SteadyStateType == ProfileType => SteadyStateCycles \in Nat /\ options.mSteadyStateCycles \in Nat
  BY OptionsAssumption, AgingOptionsAssumption DEF ProfileType, SteadyStateCycles

LEMMA InitClocks == AgingInit => Clocks
  BY DEF AgingInit, Init, Clocks, SteadyStateCycles

LEMMA FirstSample ==
  ASSUME steps \in Seq(SampleOfCell), steps # <<>>
  PROVE  steps[1].time \in Nat
<1>1. steps[1] \in SampleOfCell
  BY ElementOfSeq, LenProperties
<1>2. QED BY <1>1 DEF SampleOfCell

\* what the end of a step of both simulations is for the clocks
LEMMA MeetFacts ==
  ASSUME ProfileType, CouplingInv, EndThermalStep \/ ThermalStop
  PROVE  /\ pc = "thermal" /\ pc' = "cycle" /\ elTime' \in Nat /\ elTime' <= elTime
         /\ UNCHANGED <<cycle, steps, options>> /\ steps # <<>> /\ steps[1].time \in Nat
         /\ steps[1].time <= elTime'
<1>1. pc = "thermal" /\ UNCHANGED <<cycle, options>>
  BY DEF EndThermalStep, ThermalStop, profile
<1>2. IInv /\ steps # <<>> /\ steps \in Seq(SampleOfCell) /\ thTime \in Nat /\ elTime \in Nat
      /\ steps[1].time <= thTime /\ thTime <= elTime
  BY <1>1 DEF CouplingInv, IInv, CouplingType, Phases
<1>3. steps[1].time \in Nat
  BY <1>2, FirstSample
<1>4. CASE EndThermalStep
  BY <1>1, <1>2, <1>3, <1>4 DEF EndThermalStep, cell
<1>5. CASE ThermalStop
  BY <1>1, <1>2, <1>3, <1>5, ThermalStopStep DEF ResetStatesToPointOfTime
<1>6. QED BY <1>4, <1>5

\* one turn of the thermal loop: neither the end of the step nor seen by the aging
LEMMA ThermalTurn ==
  ASSUME CouplingInv, ThermalSubstep
  PROVE  /\ pc = "thermal" /\ pc' = "thermal" /\ UNCHANGED <<cycle, elTime, steps>>
         /\ ~EndThermalStep /\ ~ThermalStop
         /\ DoThermalStep => UNCHANGED <<clocks, data, aged, simulated>>
<1>1. pc = "thermal" /\ ~tooHot /\ UNCHANGED cycle
  BY DEF ThermalSubstep
<1>2. IInv /\ thTime \in Nat /\ elTime \in Nat
  BY <1>1 DEF CouplingInv, IInv, CouplingType
<1>3. pc' = "thermal" /\ UNCHANGED <<elTime, steps>> /\ thTime < elTime
  <2>1. pc' = "thermal" /\ UNCHANGED <<elTime, steps>> /\ thTime' \in Nat /\ thTime < thTime' /\ thTime' <= elTime
    BY <1>2, ThermalSubstepStep
  <2>2. QED BY <1>2, <2>1
<1>4. ~EndThermalStep
  BY <1>2, <1>3 DEF EndThermalStep
<1>5. ~ThermalStop
  BY <1>1 DEF ThermalStop
<1>6. QED BY <1>1, <1>3, <1>4, <1>5 DEF DoThermalStep

\* the end of a thermal step, where the aging collects
LEMMA MeetCollects ==
  ASSUME ProfileType, CouplingInv, EndThermalStep \/ ThermalStop, DoThermalStep
  PROVE  /\ CollectAgingData /\ UNCHANGED aged
         /\ simulated' = IF cycle >= SteadyStateCycles THEN simulated + (elTime' - steps[1].time) ELSE simulated
<1>1. pc' = "cycle" /\ ~ThermalSubstep
  BY MeetFacts, ThermalTurn
<1>2. QED BY <1>1 DEF DoThermalStep

LEMMA NextClocks ==
  ASSUME ProfileType, CouplingInv, Clocks, [AgingNext]_agingVars
  PROVE  Clocks'
<1> USE DEF Clocks
<1>0. /\ ProfileIsLonger' <=> ProfileIsLonger
      /\ SteadyStateCycles' = SteadyStateCycles /\ SteadyStateCycles \in Nat
      /\ options.mSteadyStateCycles \in Nat
  BY ConstantDecisions, SteadyStateType
<1>1. CASE StartAgingStep
  <2>1. pc = "init" /\ pc' = "values" /\ UNCHANGED <<cycle, elTime>>
    BY <1>1 DEF StartAgingStep
  <2>2. CASE ProfileIsLonger
    <3>1. UNCHANGED clocks
      BY <1>1, <2>2 DEF StartAgingStep
    <3>2. QED BY <1>0, <2>1, <2>2, <3>1 DEF clocks
  <2>3. CASE ~ProfileIsLonger
    <3>1. /\ UNCHANGED agingTime /\ mCollectAgingData' \in BOOLEAN
          /\ mCollectAgingData' <=> options.mSteadyStateCycles = 0
          /\ mCollectAgingData' => mLastAgingDataTime' = agingTime
      BY <1>1, <2>3 DEF StartAgingStep, StartCollecting, StopCollecting
    <3>2. SteadyStateCycles = options.mSteadyStateCycles
      BY <2>3 DEF SteadyStateCycles
    <3>3. QED BY <1>0, <2>1, <2>3, <3>1, <3>2
  <2>4. QED BY <2>2, <2>3
<1>2. CASE InitialValues
  <2>1. pc = "values" /\ pc' = "cycle" /\ UNCHANGED <<cycle, elTime, clocks>>
    BY <1>2 DEF InitialValues
  <2>2. QED BY <1>0, <2>1 DEF clocks
<1>3. CASE StartElectricalStep /\ DoElectricalStep
  <2>1. pc = "cycle" /\ pc' = "electrical" /\ UNCHANGED <<cycle, elTime, clocks>>
    BY <1>3 DEF StartElectricalStep, DoElectricalStep
  <2>2. steps'[1].time = elTime
    <3>1. steps' = <<Sample(elTime, states, soc')>>
      BY <1>3 DEF StartElectricalStep
    <3>2. QED BY <3>1 DEF Sample
  <2>3. QED BY <1>0, <2>1, <2>2 DEF clocks
<1>4. CASE ElectricalSubstep /\ DoElectricalStep
  <2>1. pc = "electrical" /\ IInv
    BY <1>4 DEF ElectricalSubstep, CouplingInv
  <2>2. pc' = "electrical" /\ steps'[1] = steps[1] /\ UNCHANGED <<cycle, clocks>>
    BY <1>4, <2>1, ElectricalSubstepBound DEF ElectricalSubstep, DoElectricalStep
  <2>3. QED BY <1>0, <2>1, <2>2 DEF clocks
<1>5. CASE (EndElectricalStep /\ DoElectricalStep) \/ (ThermalSubstep /\ DoThermalStep)
  <2>1. pc \in {"electrical", "thermal"} /\ pc' = "thermal" /\ UNCHANGED <<cycle, elTime, steps>>
    BY <1>5, ThermalTurn DEF EndElectricalStep, cell
  <2>2. UNCHANGED clocks
    BY <1>5, ThermalTurn DEF DoElectricalStep, EndElectricalStep
  <2>3. QED BY <1>0, <2>1, <2>2 DEF clocks
<1>6. CASE (EndThermalStep \/ ThermalStop) /\ DoThermalStep
  <2>1. pc = "thermal" /\ pc' = "cycle" /\ UNCHANGED cycle
    BY <1>6, MeetFacts
  <2>2. CollectAgingData
    BY <1>6, MeetCollects
  <2>3. /\ agingTime' = elTime' /\ UNCHANGED mCollectAgingData
        /\ mCollectAgingData => mLastAgingDataTime' = elTime'
    BY <2>2 DEF CollectAgingData
  <2>4. QED BY <1>0, <2>1, <2>3
<1>7. CASE NextCalculationCycle
  <2>1. /\ pc = "cycle" /\ pc' = pc /\ cycle' = cycle + 1 /\ UNCHANGED elTime
        /\ ~ProfileIsLonger
        /\ IF cycle' = options.mSteadyStateCycles THEN StartCollecting ELSE UNCHANGED clocks
    BY <1>7 DEF NextCalculationCycle, NextCycle, cell
  <2>2. SteadyStateCycles = options.mSteadyStateCycles
    BY <2>1 DEF SteadyStateCycles
  <2>3. CASE cycle' = options.mSteadyStateCycles
    <3>1. /\ mCollectAgingData' = TRUE /\ mLastAgingDataTime' = agingTime /\ agingTime' = agingTime
          /\ cycle' \in Nat /\ cycle' >= SteadyStateCycles'
      BY <1>0, <2>1, <2>2, <2>3 DEF StartCollecting
    <3>2. QED BY <1>0, <2>1, <3>1
  <2>4. CASE cycle' # options.mSteadyStateCycles
    BY <1>0, <2>1, <2>2, <2>4 DEF clocks
  <2>5. QED BY <2>3, <2>4
<1>8. CASE DoAgingStep
  <2>1. pc = "cycle" /\ agingTime' = elTime /\ UNCHANGED <<mLastAgingDataTime, mCollectAgingData>>
    BY <1>8 DEF DoAgingStep, AgingStepDue
  <2>2. CASE pc' \in {"cycle", "done"} /\ UNCHANGED <<cycle, cell>>
    BY <1>0, <2>1, <2>2 DEF cell
  <2>3. CASE ~ProfileIsLonger /\ ResetThElSimulation
    BY <1>0, <2>1, <2>3 DEF ResetThElSimulation
  <2>4. QED BY <1>8, <2>1, <2>2, <2>3 DEF DoAgingStep
<1>9. CASE UNCHANGED agingVars
  BY <1>0, <1>9 DEF agingVars, vars, clocks
<1> HIDE DEF Clocks
<1>10. QED
  BY <1>1, <1>2, <1>3, <1>4, <1>5, <1>6, <1>7, <1>8, <1>9, AgingStepCases

-----------------------------------------------------------------------------
(* The time that the effects have collected. *)

Collected ==
  /\ mTimeSinceLastAgingStep \in [Effects -> Int]
  /\ aged \in [Effects -> Int]
  /\ simulated \in Int
  /\ \A e \in Effects : aged[e] + mTimeSinceLastAgingStep[e] = simulated

LEMMA InitCollected == AgingInit => Collected
  BY DEF AgingInit, Collected

LEMMA NextCollected ==
  ASSUME ProfileType, CouplingInv, Clocks, Collected, [AgingNext]_agingVars
  PROVE  Collected'
<1>1. CASE (EndThermalStep \/ ThermalStop) /\ DoThermalStep
  <2> DEFINE timestep == elTime' - steps[1].time
  <2>1. /\ pc = "thermal" /\ pc' = "cycle" /\ elTime' \in Nat
        /\ steps[1].time \in Nat /\ UNCHANGED steps
    BY <1>1, MeetFacts
  <2>2. CollectAgingData /\ UNCHANGED aged
        /\ simulated' = IF cycle >= SteadyStateCycles THEN simulated + timestep ELSE simulated
    BY <1>1, MeetCollects
  <2>3. mCollectAgingData <=> cycle >= SteadyStateCycles
    BY <2>1 DEF Clocks
  <2>4. CASE mCollectAgingData
    <3>1. CollectData(timestep)
      <4>1. mLastAgingDataTime = steps[1].time
        BY <2>1, <2>4 DEF Clocks
      <4>2. QED BY <2>2, <2>4, <4>1 DEF CollectAgingData
    <3>2. timestep \in Int
      BY <2>1
    <3> HIDE DEF timestep
    <3>3. mTimeSinceLastAgingStep' = [e \in Effects |-> mTimeSinceLastAgingStep[e] + timestep]
      BY <3>1 DEF CollectData
    <3>4. simulated' = simulated + timestep
      BY <2>2, <2>3, <2>4
    <3>5. mTimeSinceLastAgingStep' \in [Effects -> Int] /\ simulated' \in Int
      BY <3>2, <3>3, <3>4 DEF Collected
    <3>6. ASSUME NEW e \in Effects PROVE aged'[e] + mTimeSinceLastAgingStep'[e] = simulated'
      <4>1. /\ mTimeSinceLastAgingStep'[e] = mTimeSinceLastAgingStep[e] + timestep
            /\ aged'[e] = aged[e]
        BY <2>2, <3>3
      <4>2. QED BY <3>2, <3>4, <4>1 DEF Collected
    <3>7. QED BY <2>2, <3>5, <3>6 DEF Collected
  <2>5. CASE ~mCollectAgingData
    BY <2>2, <2>3, <2>5 DEF CollectAgingData, data, Collected
  <2>6. QED BY <2>4, <2>5
<1>2. CASE DoAgingStep
  <2>1. UNCHANGED simulated /\ CalculateAging
    BY <1>2 DEF DoAgingStep
  <2>2. /\ aged' = [e \in Effects |-> aged[e] + IF UsesData(e) THEN mTimeSinceLastAgingStep[e] ELSE 0]
        /\ mTimeSinceLastAgingStep' = [e \in Effects |-> IF UsesData(e) THEN 0 ELSE mTimeSinceLastAgingStep[e]]
    BY <2>1 DEF CalculateAging
  <2>3. QED BY <2>1, <2>2 DEF Collected
<1>3. CASE UNCHANGED <<data, aged, simulated>>
  BY <1>3 DEF data, Collected
<1>4. ThermalSubstep /\ DoThermalStep => UNCHANGED <<data, aged, simulated>>
  BY ThermalTurn
<1>5. QED
  BY <1>1, <1>2, <1>3, <1>4, AgingStepCases
     DEF StartAgingStep, InitialValues, DoElectricalStep, NextCalculationCycle, agingVars

-----------------------------------------------------------------------------
(* The lateness of an aging step in a long profile. *)

InTime ==
  /\ mTimeOfLastAgingStep \in Int
  /\ ProfileIsLonger /\ pc \in {"electrical", "thermal"} =>
       /\ steps[1].time - mTimeOfLastAgingStep < options.mAgingStepTime
       /\ elTime <= steps[1].time + mMaxSimulationStepDuration
  /\ LongProfileInTime

LEMMA StepTimes ==
  ASSUME ProfileType
  PROVE  options.mAgingStepTime \in Nat \ {0} /\ mMaxSimulationStepDuration \in Nat \ {0}
  BY AgingOptionsAssumption, ConstantsAssumption DEF ProfileType

LEMMA InitInTime == AgingInit /\ ProfileType => InTime
  BY StepTimes DEF AgingInit, Init, InTime, LongProfileInTime, GetTimeSinceLastAgingStep

LEMMA NextInTime ==
  ASSUME ProfileType, CouplingInv, Clocks, InTime, [AgingNext]_agingVars
  PROVE  InTime'
<1> USE DEF InTime, LongProfileInTime, GetTimeSinceLastAgingStep
<1>0. /\ ProfileIsLonger' <=> ProfileIsLonger
      /\ options' = options /\ options.mAgingStepTime \in Nat /\ options.mAgingStepTime # 0
      /\ mMaxSimulationStepDuration \in Nat /\ mMaxSimulationStepDuration # 0
      /\ elTime \in Nat
  BY ConstantDecisions, StepTimes, TimeType
<1>1. CASE StartElectricalStep /\ ~AgingStepDue /\ DoElectricalStep
  <2>1. pc = "cycle" /\ pc' = "electrical" /\ UNCHANGED <<elTime, mTimeOfLastAgingStep>>
        /\ steps' = <<Sample(elTime, states, soc')>>
    BY <1>1 DEF StartElectricalStep, DoElectricalStep
  <2>2. steps'[1].time = elTime
    BY <2>1 DEF Sample
  <2>3. ProfileIsLonger => elTime - mTimeOfLastAgingStep < options.mAgingStepTime
    BY <1>0, <1>1, <2>1 DEF AgingStepDue
  <2>4. QED BY <1>0, <2>1, <2>2, <2>3
<1>2. CASE ElectricalSubstep /\ DoElectricalStep
  <2>1. pc = "electrical" /\ IInv /\ UNCHANGED mTimeOfLastAgingStep
    BY <1>2 DEF ElectricalSubstep, CouplingInv, DoElectricalStep
  <2>2. /\ pc' = pc /\ steps'[1] = steps[1]
        /\ elTime' \in (elTime + 1)..(steps[1].time + mMaxSimulationStepDuration)
    BY <1>2, <2>1, ElectricalSubstepBound
  <2>3. steps[1].time \in Nat
    BY <2>1, FirstSample DEF IInv, CouplingType, Phases
  <2>4. QED BY <1>0, <2>1, <2>2, <2>3
<1>3. CASE (EndElectricalStep /\ DoElectricalStep) \/ (ThermalSubstep /\ DoThermalStep)
  <2>1. pc \in {"electrical", "thermal"} /\ UNCHANGED <<elTime, steps, mTimeOfLastAgingStep>>
    BY <1>3 DEF EndElectricalStep, ThermalSubstep, cell, DoElectricalStep, DoThermalStep
  <2>2. QED BY <1>0, <2>1
<1>4. CASE (EndThermalStep \/ ThermalStop) /\ DoThermalStep
  <2>1. pc' = "cycle" /\ elTime' \in Nat /\ elTime' <= elTime /\ UNCHANGED mTimeOfLastAgingStep
    BY <1>4, MeetFacts DEF DoThermalStep
  <2>2. QED BY <1>0, <2>1
<1>5. CASE StartAgingStep \/ InitialValues \/ NextCalculationCycle
  <2>1. pc' \in {"values", "cycle"} /\ UNCHANGED <<elTime, mTimeOfLastAgingStep>>
    BY <1>5 DEF StartAgingStep, InitialValues, NextCalculationCycle, NextCycle, cell
  <2>2. QED BY <1>0, <2>1
<1>6. CASE DoAgingStep
  <2>1. mTimeOfLastAgingStep' = elTime /\ UNCHANGED elTime /\ pc' \in {"cycle", "done", "init"}
    BY <1>6 DEF DoAgingStep, AgingStepDue, ResetThElSimulation, cell
  <2>2. QED BY <1>0, <2>1
<1>7. CASE UNCHANGED agingVars
  BY <1>0, <1>7 DEF agingVars, vars
<1> HIDE DEF InTime
<1>8. QED BY <1>1, <1>2, <1>3, <1>4, <1>5, <1>6, <1>7, AgingStepCases

-----------------------------------------------------------------------------
(* The cycles of a short profile.  Without voltage limits nothing but          *)
(* StartNewCycle moves the profile: once behind each cycle.                    *)

Cyclic ==
  /\ actualAgingStep \in Nat
  /\ ~ProfileIsLonger /\ ~options.limits =>
       Following /\ (pc # "done" => InCycle(actualAgingStep * options.cycles + cycle))

LEMMA InitCyclic == AgingInit => Cyclic
<1> SUFFICES ASSUME AgingInit PROVE Cyclic
  OBVIOUS
<1>1. Planned /\ Following /\ cycle = 0 /\ actualAgingStep = 0
  BY InitFollowing DEF AgingInit, Init
<1>2. ProfileType
  BY InitCouplingInv
<1>3. options.cycles \in Nat
  BY <1>2, OptionsAssumption DEF ProfileType
<1>4. actualAgingStep * options.cycles + cycle = cycle
  BY <1>1, <1>3
<1>5. QED BY <1>1, <1>4 DEF Cyclic, Planned

LEMMA CyclesOfSteps ==
  ASSUME NEW a \in Nat, NEW n \in Nat, NEW c \in Nat, c + 1 = n
  PROVE  (a + 1) * n = a * n + c + 1
<1>1. \A i, j \in Nat : (i + 1) * j = i * j + j
  OBVIOUS
<1>2. (a + 1) * n = a * n + n /\ a * n \in Nat
  BY <1>1
<1>3. QED BY <1>2

LEMMA NextCyclic ==
  ASSUME ProfileType, CouplingInv, Clocks, Cyclic, [AgingNext]_agingVars
  PROVE  Cyclic'
<1> DEFINE Short == ~ProfileIsLonger /\ ~options.limits
<1>0. PICK c : c = actualAgingStep * options.cycles + cycle
  OBVIOUS
<1>1. /\ Short' <=> Short
      /\ UNCHANGED options
      /\ options.cycles \in Nat /\ cycle \in Nat /\ actualAgingStep \in Nat /\ elTime \in Nat
  BY ConstantDecisions, TimeType, OptionsAssumption DEF ProfileType, Clocks, Cyclic
<1>2. c \in Nat
  BY <1>0, <1>1
<1>3. Short => ~options.limits /\ Following /\ (pc # "done" => InCycle(c))
  BY <1>0 DEF Cyclic
<1>4. ASSUME Short => Following' /\ InCycle(c)', UNCHANGED <<actualAgingStep, cycle>>
      PROVE  Cyclic'
  <2>1. (actualAgingStep * options.cycles + cycle)' = c
    <3>1. actualAgingStep' = actualAgingStep /\ options' = options /\ cycle' = cycle
      BY <1>1, <1>4
    <3>2. QED BY <1>0, <3>1, Zenon
  <2>2. Short => InCycle(actualAgingStep * options.cycles + cycle)'
    <3> HIDE DEF Short
    <3>1. QED BY <1>4, <2>1 DEF InCycle
  <2>3. QED BY <1>1, <1>4, <2>2 DEF Cyclic
<1>5. CASE StartAgingStep \/ (StartElectricalStep /\ ~AgingStepDue /\ DoElectricalStep)
  <2>1. /\ SetCurrent /\ UNCHANGED <<elTime, cycle, actualAgingStep>> /\ pc # "done"
        /\ (pc = "init" /\ pc' \in {"values", "cycle"}) \/ StartElectricalStep
    BY <1>5 DEF StartAgingStep, StartElectricalStep, SetCurrentAndLength, DoElectricalStep
  <2>2. Short => Following' /\ InCycle(c)'
    <3> HIDE DEF Short
    <3>1. QED BY <1>1, <1>2, <1>3, <2>1, StartFollowing
  <2>3. QED BY <1>4, <2>1, <2>2
<1>6. CASE \/ ElectricalSubstep /\ DoElectricalStep
           \/ (EndThermalStep \/ ThermalStop) /\ DoThermalStep
  <2>1. IInv /\ pc # "done" /\ UNCHANGED <<cycle, actualAgingStep>>
    BY <1>6 DEF ElectricalSubstep, EndThermalStep, ThermalStop, DoElectricalStep, DoThermalStep, CouplingInv
  <2>2. Short => Following' /\ InCycle(c)'
    <3> HIDE DEF Short
    <3>1. QED BY <1>3, <1>6, <2>1, SubstepFollowing, MeetFollowing
  <2>3. QED BY <1>4, <2>1, <2>2
<1>7. CASE InitialValues \/ (EndElectricalStep /\ DoElectricalStep) \/ (ThermalSubstep /\ DoThermalStep)
  <2>1. /\ UNCHANGED <<profile, load, elTime, cycle, actualAgingStep>> /\ pc # "done"
        /\ \/ /\ pc \in {"electrical", "thermal"} /\ pc' \in {"electrical", "thermal"}
              /\ UNCHANGED steps
           \/ pc \in {"values", "cycle"} /\ pc' \in {"values", "cycle"}
    <3>1. CASE InitialValues
      BY <3>1 DEF InitialValues
    <3>2. CASE EndElectricalStep /\ DoElectricalStep
      BY <3>2 DEF EndElectricalStep, DoElectricalStep, cell
    <3>3. CASE ThermalSubstep /\ DoThermalStep
      <4>1. IInv
        BY <3>3 DEF ThermalSubstep, CouplingInv
      <4>2. QED BY <3>3, <4>1, ThermalSubstepStep DEF ThermalSubstep, DoThermalStep, cell
    <3>4. QED BY <1>7, <3>1, <3>2, <3>3
  <2>2. Short => Following' /\ InCycle(c)'
    <3> HIDE DEF Short
    <3>1. QED BY <1>2, <1>3, <2>1, QuietFollowing
  <2>3. QED BY <1>4, <2>1, <2>2
<1>8. CASE NextCycle /\ NextCalculationCycle
  <2>1. /\ pc = "cycle" /\ HasEnded /\ pc' = pc /\ cycle' = cycle + 1
        /\ Profile!StartNewCycle /\ mSimulationDuration' = Profile!GetMaxTime'
        /\ UNCHANGED <<mProfileChangeTime, current, elTime, actualAgingStep>>
    BY <1>8 DEF NextCycle, NextCalculationCycle, cell
  <2>2. Short => Following' /\ InCycle(c + 1)'
    <3> HIDE DEF Short
    <3>1. QED BY <1>1, <1>2, <1>3, <2>1, CycleFollowing
  <2>3. (actualAgingStep * options.cycles + cycle)' = c + 1
    <3>1. actualAgingStep' = actualAgingStep /\ options' = options /\ cycle' = cycle + 1
      BY <1>1, <2>1
    <3>2. actualAgingStep * options.cycles \in Int
      BY <1>1
    <3>3. actualAgingStep * options.cycles + (cycle + 1) = actualAgingStep * options.cycles + cycle + 1
      BY <1>1, <3>2
    <3>4. QED BY <1>0, <3>1, <3>3, Zenon
  <2>4. QED BY <1>1, <2>1, <2>2, <2>3 DEF Cyclic, InCycle
<1>9. CASE DoAgingStep
  <2>1. actualAgingStep' = actualAgingStep + 1 /\ pc = "cycle"
    BY <1>9 DEF DoAgingStep, AgingStepDue
  <2>2. Short => HasEnded /\ cycle + 1 = options.cycles
    BY <1>9 DEF DoAgingStep, AgingStepDue
  <2>3. CASE Short /\ pc' = "done"
    <3>1. UNCHANGED <<profile, load, elTime, cycle>>
      BY <1>9, <2>3 DEF DoAgingStep, ResetThElSimulation, cell
    <3>2. HasEnded' /\ cycle' + 1 = options'.cycles
      <4> HIDE DEF Short
      <4>1. HasEnded /\ cycle + 1 = options.cycles /\ options' = options
        BY <1>1, <2>2, <2>3
      <4>2. QED BY <3>1, <4>1 DEF HasEnded, load
    <3>3. Following'
      <4> HIDE DEF Short
      <4>1. InCycle(c)
        BY <1>3, <2>1, <2>3
      <4>2. QED BY <1>2, <1>3, <2>1, <2>3, <3>1, <3>2, <4>1, QuietFollowing
    <3>4. QED BY <1>1, <2>1, <2>3, <3>3 DEF Cyclic
  <2>4. CASE Short /\ pc' # "done"
    <3>1. /\ pc' = "init" /\ cycle' = 0
          /\ Profile!StartNewCycle /\ mSimulationDuration' = Profile!GetMaxTime'
          /\ UNCHANGED <<mProfileChangeTime, current, elTime>>
      BY <1>9, <2>4 DEF DoAgingStep, ResetThElSimulation
    <3>2. Following' /\ InCycle(c + 1)'
      <4> HIDE DEF Short
      <4>1. InCycle(c)
        BY <1>3, <2>1, <2>4
      <4>2. QED BY <1>1, <1>2, <1>3, <2>1, <2>2, <2>4, <3>1, <4>1, CycleFollowing
    <3>3. (actualAgingStep * options.cycles + cycle)' = c + 1
      <4>1. (actualAgingStep + 1) * options.cycles = c + 1
        BY <1>0, <1>1, <2>2, <2>4, CyclesOfSteps
      <4>2. actualAgingStep' = actualAgingStep + 1 /\ options' = options /\ cycle' = 0
        BY <1>1, <2>1, <3>1
      <4>3. c + 1 + 0 = c + 1
        BY <1>2
      <4>4. QED BY <4>1, <4>2, <4>3, Zenon
    <3>4. QED BY <1>1, <2>1, <3>2, <3>3 DEF Cyclic, InCycle
  <2>5. CASE ~Short
    BY <1>1, <2>1, <2>5 DEF Cyclic
  <2>6. QED BY <2>3, <2>4, <2>5
<1>10. CASE UNCHANGED agingVars
  <2>1. UNCHANGED <<profile, load, elTime, cycle, actualAgingStep, pc, steps, options>>
    BY <1>10 DEF agingVars, vars, profile, load
  <2>2. CASE pc # "done"
    <3>1. Short => Following' /\ InCycle(c)'
      <4> HIDE DEF Short
      <4>1. QED BY <1>2, <1>3, <2>1, <2>2, QuietFollowing
    <3>2. QED BY <1>4, <2>1, <3>1
  <2>3. CASE pc = "done"
    <3>1. Short => Following'
      BY <1>3, <2>1 DEF Following, Loaded, HasEnded, profile, load,
                        Profile!GetTimeUntilMaxValueDeviation, Profile!HasNext
    <3>2. QED BY <1>1, <2>1, <2>3, <3>1 DEF Cyclic
  <2>4. QED BY <2>2, <2>3
<1> HIDE DEF Short
<1>11. QED
  BY <1>5, <1>6, <1>7, <1>8, <1>9, <1>10, AgingStepCases

LEMMA CyclicInTime == ProfileType /\ CouplingInv /\ Clocks /\ Cyclic => CyclesBeforeAgingStep
<1> SUFFICES ASSUME ProfileType, CouplingInv, Clocks, Cyclic, AgingStepDue,
                    ~ProfileIsLonger, ~options.limits
             PROVE  elTime = (actualAgingStep + 1) * options.cycles * mCycleLength
  BY DEF CyclesBeforeAgingStep
<1> DEFINE c == actualAgingStep * options.cycles + cycle
<1>1. pc = "cycle" /\ HasEnded /\ cycle + 1 = options.cycles
  BY DEF AgingStepDue
<1>2. /\ cycle \in Nat /\ actualAgingStep \in Nat /\ options.cycles \in Nat
      /\ elTime \in Nat
  BY TimeType, OptionsAssumption DEF ProfileType, Clocks, Cyclic
<1>3. InCycle(c)
  BY <1>1 DEF Cyclic
<1>4. c + 1 = (actualAgingStep + 1) * options.cycles
  BY <1>1, <1>2, CyclesOfSteps
<1> HIDE DEF c
<1>5. Last(mTimesData) \in Int
  <2>1. Len(mTimesData) \in 1..Len(mTimesData)
    BY <1>3, TimesAscend DEF InCycle
  <2>2. QED BY <1>3, <2>1, TimesAscend DEF InCycle
<1>6. elTime = Last(mTimesData)
  BY <1>1, <1>2, <1>3, <1>5 DEF InCycle, HasEnded
<1>7. QED BY <1>3, <1>4, <1>6 DEF InCycle

-----------------------------------------------------------------------------
(* The samples.  The clock of the program has to stay in front of the largest  *)
(* double, which stands for "no change any more" in mProfileChangeTime; that   *)
(* it does is ScheduleAges.                                                    *)

\* a step of both simulations is never empty
Moves ==
  /\ pc = "electrical" =>
       IF Len(steps) = 1 THEN elTime < mProfileChangeTime ELSE steps[1].time < elTime
  /\ pc = "thermal" => steps[1].time < elTime

LEMMA InitMoves == AgingInit => Moves
  BY DEF AgingInit, Init, Moves

LEMMA ChangeIsAhead ==
  ASSUME ProfileType, elTime \in Nat, elTime < Infinity, SetCurrent
  PROVE  elTime < mProfileChangeTime'
<1>1. ProfileType'
  BY SetCurrentProfile
<1>2. Len(mTimesData') = Len(mTimesData)
  <2>1. mTimesData \in Seq(Int) /\ mTimesData' \in Seq(Int) /\ DOMAIN mTimesData' = DOMAIN mTimesData
    BY <1>1 DEF ProfileType, SetCurrent, EvaluateProfile, SkipSegment, KeepValue, profile,
                Profile!SetTimeAndTriggerEvaluation, Profile!MoveToNextProfileValue
  <2>2. QED BY <2>1, LenProperties
<1>3. CASE EvaluateProfile \/ SkipSegment
  <2>1. /\ mIndex' = Profile!CurrentIndex(mTimesData', mIndex, elTime)
        /\ mProfileChangeTime' = Profile!GetTimeUntilMaxValueDeviation'
    BY <1>3 DEF EvaluateProfile, SkipSegment, Profile!SetTimeAndTriggerEvaluation,
                Profile!MoveToNextProfileValue, Profile!Evaluate
  <2>2. mTimesData' \in Seq(Int) /\ mIndex \in 1..Len(mTimesData')
    BY <1>1, <1>2 DEF ProfileType
  <2>3. mIndex' \in 1..Len(mTimesData') /\ (mIndex' = Len(mTimesData') \/ elTime < mTimesData'[mIndex' + 1])
    <3> DEFINE k == Profile!CurrentIndex(mTimesData', mIndex, elTime)
    <3>1. elTime \in Int
      OBVIOUS
    <3>2. k \in 1..Len(mTimesData') /\ (k = Len(mTimesData') \/ elTime < mTimesData'[k + 1])
      BY <2>2, <3>1, IndexFacts
    <3>3. mIndex' = k
      BY <2>1
    <3> HIDE DEF k
    <3>4. QED BY <3>2, <3>3
  <2>4. QED BY <2>1, <2>2, <2>3 DEF Profile!GetTimeUntilMaxValueDeviation, Profile!HasNext
<1>4. CASE KeepValue
  BY <1>4 DEF KeepValue
<1>5. QED BY <1>3, <1>4 DEF SetCurrent

LEMMA MinOfTwo ==
  ASSUME NEW a \in Int, NEW b \in Int
  PROVE  Min({a, b}) \in {a, b}
<1>1. \E x \in {a, b} : \A y \in {a, b} : x <= y
  OBVIOUS
<1>2. QED BY <1>1 DEF Min

LEMMA NextMoves ==
  ASSUME ProfileType, CouplingInv, Moves, elTime < Infinity, [AgingNext]_agingVars
  PROVE  Moves'
<1>1. CASE StartElectricalStep /\ DoElectricalStep
  <2>1. pc' = "electrical" /\ UNCHANGED elTime
        /\ steps' = <<Sample(elTime, states, soc')>> /\ SetCurrent
    BY <1>1 DEF StartElectricalStep
  <2>2. Len(steps') = 1
    BY <2>1
  <2>3. elTime < mProfileChangeTime'
    BY <2>1, TimeType, ChangeIsAhead
  <2>4. QED BY <2>1, <2>2, <2>3 DEF Moves
<1>2. CASE ElectricalSubstep /\ DoElectricalStep
  <2>1. pc = "electrical" /\ IInv
    BY <1>2 DEF ElectricalSubstep, CouplingInv
  <2>2. pc' = pc /\ steps'[1] = steps[1]
    BY <1>2, <2>1, ElectricalSubstepBound
  <2>3. steps \in Seq(SampleOfCell) /\ Len(steps) \in Nat /\ Len(steps) >= 1 /\ elTime \in Nat
        /\ steps[1].time <= elTime
    BY <2>1, LenProperties DEF IInv, CouplingType, Phases
  <2>4. steps[1].time \in Nat /\ elTime' \in Int /\ elTime < elTime'
    <3>1. elTime' \in (elTime + 1)..(steps[1].time + mMaxSimulationStepDuration)
      BY <1>2, <2>1, ElectricalSubstepBound
    <3>2. steps[1].time \in Nat
      BY <2>1, FirstSample DEF IInv, CouplingType, Phases
    <3>3. mMaxSimulationStepDuration \in Nat
      BY ConstantsAssumption
    <3>4. QED BY <2>3, <3>1, <3>2, <3>3
  <2>5. Len(steps') = Len(steps) + 1
    BY <1>2, <2>3 DEF ElectricalSubstep
  <2>6. QED BY <2>1, <2>2, <2>3, <2>4, <2>5 DEF Moves
<1>3. CASE EndElectricalStep /\ DoElectricalStep
  <2>1. pc = "electrical" /\ pc' = "thermal" /\ UNCHANGED <<elTime, steps>> /\ IInv
    BY <1>3 DEF EndElectricalStep, cell, CouplingInv
  <2>2. steps \in Seq(SampleOfCell) /\ Len(steps) \in Nat /\ Len(steps) >= 1 /\ elTime \in Nat
        /\ Last(steps).time = elTime
    BY <2>1, LenProperties DEF IInv, CouplingType, Phases
  <2>3. Len(steps) # 1
    <3> SUFFICES ASSUME Len(steps) = 1 PROVE FALSE
      OBVIOUS
    <3>1. steps[1].time = elTime /\ elTime < mProfileChangeTime
      BY <2>1, <2>2 DEF Last, Moves
    <3>2. mVoltageLimitDelay \in Nat /\ mVoltageLimitDelay # 0
          /\ mMaxSimulationStepDuration \in Nat /\ mMaxSimulationStepDuration # 0
      BY ConstantsAssumption
    <3>3. mProfileChangeTime \in Int
      BY DEF ProfileType
    <3>4. elTime < LoopStopTime
      <4>1. PICK end : end = steps[1].time + mMaxSimulationStepDuration
        OBVIOUS
      <4>2. end \in Int /\ elTime < end
        BY <2>2, <3>1, <3>2, <4>1
      <4>3. LoopStopTime \in {end, mProfileChangeTime}
        BY <3>3, <4>1, <4>2, MinOfTwo DEF LoopStopTime
      <4>4. QED BY <3>1, <4>2, <4>3
    <3>5. elTime >= LoopStopTime
      BY <1>3, <3>2 DEF EndElectricalStep, IsStopElectricalCriterionFulfilled
    <3>6. LoopStopTime \in Int
      <4>1. steps[1].time + mMaxSimulationStepDuration \in Int
        BY <2>2, <3>1, <3>2
      <4>2. QED BY <3>3, <4>1, MinOfTwo DEF LoopStopTime
    <3>7. QED BY <2>2, <3>4, <3>5, <3>6
  <2>4. QED BY <2>1, <2>3 DEF Moves
<1>4. CASE ThermalSubstep
  BY <1>4, ThermalTurn DEF Moves
<1>5. CASE StartAgingStep \/ InitialValues \/ EndThermalStep \/ ThermalStop \/ NextCycle
  <2>1. pc' \notin {"electrical", "thermal"}
    BY <1>5, MeetFacts DEF StartAgingStep, InitialValues, NextCycle
  <2>2. QED BY <2>1 DEF Moves
<1>6. CASE DoAgingStep
  <2>1. pc' \in {"cycle", "done", "init"}
    BY <1>6 DEF DoAgingStep, AgingStepDue, ResetThElSimulation
  <2>2. QED BY <2>1 DEF Moves
<1>7. CASE UNCHANGED agingVars
  BY <1>7 DEF agingVars, vars, Moves
<1>8. QED BY <1>1, <1>2, <1>3, <1>4, <1>5, <1>6, <1>7, AgingStepCases

\* the samples of one effect
InOrder(times, total) ==
  /\ \A i \in 1..(Len(times) - 1) : times[i] < times[i + 1]
  /\ total = IF times = <<>> THEN 0 ELSE Last(times)

Ordered ==
  /\ mTimeValues \in [Effects -> Seq(Int)]
  /\ mSocValues \in Seq(Nat)
  /\ \A e \in Effects : InOrder(mTimeValues[e], mTimeSinceLastAgingStep[e])
  /\ Len(mSocValues) = Len(mTimeValues["cyclical"])

LEMMA InitOrdered == AgingInit => Ordered
  BY DEF AgingInit, Ordered, InOrder, Effects

LEMMA InOrderAppend ==
  ASSUME NEW times \in Seq(Int), NEW total \in Int, InOrder(times, total),
         NEW timestep \in Nat \ {0}
  PROVE  /\ Append(times, total + timestep) \in Seq(Int)
         /\ InOrder(Append(times, total + timestep), total + timestep)
<1> DEFINE more == Append(times, total + timestep)
           n == Len(times)
<1>1. /\ more \in Seq(Int) /\ Len(more) = n + 1 /\ more[n + 1] = total + timestep
      /\ \A i \in 1..n : more[i] = times[i] /\ times[i] \in Int
      /\ n \in Nat
  BY AppendFacts, ElementOfSeq, LenProperties
<1>2. n >= 1 => total = times[n]
  <2>1. n >= 1 => times # <<>>
    OBVIOUS
  <2>2. QED BY <2>1 DEF InOrder, Last
<1> HIDE DEF more, n
<1>3. ASSUME NEW i \in 1..n PROVE more[i] < more[i + 1]
  <2>1. CASE i = n
    <3>1. total < total + timestep
      OBVIOUS
    <3>2. QED BY <1>1, <1>2, <2>1, <3>1
  <2>2. CASE i # n
    <3>1. i \in 1..(n - 1) /\ i + 1 \in 1..n
      BY <1>1, <2>2
    <3>2. times[i] < times[i + 1]
      BY <3>1 DEF InOrder, n
    <3>3. QED BY <1>1, <3>1, <3>2
  <2>3. QED BY <2>1, <2>2
<1>4. more # <<>> /\ Last(more) = total + timestep
  BY <1>1 DEF Last
<1>5. InOrder(more, total + timestep)
  BY <1>1, <1>3, <1>4 DEF InOrder
<1>6. QED BY <1>1, <1>5 DEF more

LEMMA NextOrdered ==
  ASSUME ProfileType, CouplingInv, Clocks, Collected, Moves, Ordered, elTime < Infinity,
         [AgingNext]_agingVars
  PROVE  Ordered'
<1>1. CASE (EndThermalStep \/ ThermalStop) /\ DoThermalStep
  <2> DEFINE timestep == elTime' - steps[1].time
  <2>1. /\ pc = "thermal" /\ pc' = "cycle" /\ elTime' \in Nat /\ steps[1].time \in Nat
    BY <1>1, MeetFacts
  <2>2. CollectAgingData
    BY <1>1, MeetCollects
  <2>3. steps[1].time < elTime'
    <3>1. CASE EndThermalStep
      BY <2>1, <3>1 DEF EndThermalStep, cell, Moves
    <3>2. CASE ThermalStop
      <4>1. IInv
        BY <2>1 DEF CouplingInv
      <4>2. tooHot /\ elTime' = thTime
        BY <3>2, <4>1, ThermalStopStep DEF ResetStatesToPointOfTime
      <4>3. QED BY <2>1, <4>1, <4>2 DEF IInv, Phases
    <3>3. QED BY <1>1, <3>1, <3>2
  <2>4. timestep \in Nat \ {0}
    BY <2>1, <2>3
  <2>5. CASE mCollectAgingData
    <3>1. CollectData(timestep)
      <4>1. mLastAgingDataTime = steps[1].time
        BY <2>1, <2>5 DEF Clocks
      <4>2. QED BY <2>2, <2>5, <4>1 DEF CollectAgingData
    <3> HIDE DEF timestep
    <3>2. PICK sample \in SocSamples :
            /\ mTimeSinceLastAgingStep' = [e \in Effects |-> mTimeSinceLastAgingStep[e] + timestep]
            /\ mTimeValues' = [e \in Effects |->
                                 Append(mTimeValues[e], mTimeSinceLastAgingStep'[e])]
            /\ mSocValues' = Append(mSocValues, sample)
      BY <2>4, <3>1 DEF CollectData
    <3>3. ASSUME NEW e \in Effects
          PROVE  /\ mTimeValues'[e] \in Seq(Int) /\ InOrder(mTimeValues'[e], mTimeSinceLastAgingStep'[e])
                 /\ Len(mTimeValues'[e]) = Len(mTimeValues[e]) + 1
      <4>1. mTimeValues[e] \in Seq(Int) /\ mTimeSinceLastAgingStep[e] \in Int
            /\ InOrder(mTimeValues[e], mTimeSinceLastAgingStep[e])
        BY DEF Ordered, Collected
      <4>2. /\ mTimeSinceLastAgingStep'[e] = mTimeSinceLastAgingStep[e] + timestep
            /\ mTimeValues'[e] = Append(mTimeValues[e], mTimeSinceLastAgingStep[e] + timestep)
        BY <3>2
      <4>3. mTimeSinceLastAgingStep[e] + timestep \in Int
        BY <2>4, <4>1
      <4>4. QED BY <2>4, <4>1, <4>2, <4>3, InOrderAppend, AppendFacts
    <3>4. sample \in Nat
      BY AgingOptionsAssumption
    <3>5. mSocValues' \in Seq(Nat) /\ Len(mSocValues') = Len(mSocValues) + 1
      BY <3>2, <3>4, AppendFacts DEF Ordered
    <3>6. mTimeValues' \in [Effects -> Seq(Int)]
      BY <3>2, <3>3
    <3>7. "cyclical" \in Effects
      BY DEF Effects
    <3>8. QED BY <3>3, <3>5, <3>6, <3>7 DEF Ordered
  <2>6. CASE ~mCollectAgingData
    BY <2>2, <2>6 DEF CollectAgingData, data, Ordered
  <2>7. QED BY <2>5, <2>6
<1>2. CASE DoAgingStep
  <2>1. CalculateAging
    BY <1>2 DEF DoAgingStep
  <2>2. /\ mTimeSinceLastAgingStep' = [e \in Effects |-> IF UsesData(e) THEN 0 ELSE mTimeSinceLastAgingStep[e]]
        /\ mTimeValues' = [e \in Effects |-> IF UsesData(e) THEN <<>> ELSE mTimeValues[e]]
        /\ mSocValues' = IF UsesData("cyclical") THEN <<>> ELSE mSocValues
    BY <2>1 DEF CalculateAging
  <2>3. InOrder(<<>>, 0) /\ <<>> \in Seq(Int) /\ <<>> \in Seq(Nat)
    BY DEF InOrder
  <2>4. ASSUME NEW e \in Effects
        PROVE  mTimeValues'[e] \in Seq(Int) /\ InOrder(mTimeValues'[e], mTimeSinceLastAgingStep'[e])
    BY <2>2, <2>3 DEF Ordered
  <2>5. mTimeValues' \in [Effects -> Seq(Int)]
    BY <2>2, <2>4
  <2>6. mSocValues' \in Seq(Nat) /\ Len(mSocValues') = Len(mTimeValues'["cyclical"])
    BY <2>2, <2>3 DEF Ordered, Effects
  <2>7. QED BY <2>4, <2>5, <2>6 DEF Ordered
<1>3. CASE UNCHANGED data
  BY <1>3 DEF data, Ordered
<1>4. ThermalSubstep /\ DoThermalStep => UNCHANGED data
  BY ThermalTurn
<1>5. QED
  BY <1>1, <1>2, <1>3, <1>4, AgingStepCases
     DEF StartAgingStep, InitialValues, DoElectricalStep, NextCalculationCycle, agingVars

-----------------------------------------------------------------------------
(* How late it gets in the aging simulation. *)

\* the cycles that the aging program has begun, and how much longer the present one gets
CyclesBegun == IF ProfileIsLonger THEN 0 ELSE actualAgingStep * options.cycles + cycle
AgingExtra == IF CyclesBegun = 0 THEN 0 ELSE mCycleLength + actualAgingStep * mMaxSimulationStepDuration

OnSchedule ==
  /\ actualAgingStep \in Nat
  /\ mCycleLength = ProfileEnd(options)
  /\ pc # "done" =>
       /\ cycle \in 0..(options.cycles - 1)
       /\ ~ProfileIsLonger => actualAgingStep + 1 <= options.mAgingSteps
       /\ Scheduled(CyclesBegun * mCycleLength, AgingExtra)

LEMMA InitOnSchedule == AgingInit => OnSchedule
<1> SUFFICES ASSUME AgingInit PROVE OnSchedule
  OBVIOUS
<1>1. Init /\ InSchedule /\ actualAgingStep = 0 /\ cycle = 0 /\ options \in Options
  BY InitInSchedule DEF AgingInit, Init
<1>2. options.mAgingSteps \in Nat \ {0} /\ options.cycles \in Nat /\ mMaxSimulationStepDuration \in Nat
      /\ mCycleLength \in Nat
  BY <1>1, OptionsAssumption, AgingOptionsAssumption, ConstantsAssumption
     DEF InSchedule, Scheduled, Timetable
<1>3. CyclesBegun = 0 /\ AgingExtra = 0 /\ Extra = 0 /\ CyclesBegun * mCycleLength = cycle * mCycleLength
  BY <1>1, <1>2 DEF CyclesBegun, AgingExtra, Extra
<1>4. QED BY <1>1, <1>2, <1>3 DEF OnSchedule, InSchedule

LEMMA NextOnSchedule ==
  ASSUME ProfileType, CouplingInv, OnSchedule, [AgingNext]_agingVars
  PROVE  OnSchedule'
<1>1. PICK begin, extra, c : begin = CyclesBegun * mCycleLength /\ extra = AgingExtra /\ c = CyclesBegun
  OBVIOUS
<1>2. /\ UNCHANGED <<options, mCycleLength>> /\ (ProfileIsLonger' <=> ProfileIsLonger)
      /\ elTime \in Nat /\ options.cycles \in Nat \ {0} /\ options.mAgingSteps \in Nat
      /\ mMaxSimulationStepDuration \in Nat /\ actualAgingStep \in Nat
      /\ mCycleLength = ProfileEnd(options)
  BY ConstantProfile, ConstantDecisions, TimeType, OptionsAssumption, AgingOptionsAssumption, ConstantsAssumption
     DEF OnSchedule, ProfileType
<1>3. CASE pc = "done"
  <2>1. pc' = pc /\ UNCHANGED actualAgingStep
    BY <1>3, AgingStepCases
       DEF StartAgingStep, InitialValues, StartElectricalStep, ElectricalSubstep, EndElectricalStep, ThermalSubstep,
           EndThermalStep, ThermalStop, NextCycle, DoAgingStep, AgingStepDue, agingVars, vars
  <2>2. QED BY <1>2, <1>3, <2>1 DEF OnSchedule
<1>4. CASE pc # "done"
  <2>1. /\ Scheduled(begin, extra) /\ cycle \in 0..(options.cycles - 1)
        /\ ~ProfileIsLonger => actualAgingStep + 1 <= options.mAgingSteps
        /\ mCycleLength \in Nat /\ begin \in Nat /\ extra \in Nat
        /\ c = IF ProfileIsLonger THEN 0 ELSE actualAgingStep * options.cycles + cycle
        /\ extra = IF c = 0 THEN 0 ELSE mCycleLength + actualAgingStep * mMaxSimulationStepDuration
    BY <1>1, <1>4 DEF OnSchedule, Scheduled, Timetable, CyclesBegun, AgingExtra
  <2>2. ASSUME Scheduled(begin, extra)', UNCHANGED <<cycle, actualAgingStep>> PROVE OnSchedule'
    <3>1. begin = CyclesBegun' * mCycleLength' /\ extra = AgingExtra'
      BY <1>1, <1>2, <2>2 DEF CyclesBegun, AgingExtra
    <3>2. mCycleLength' = ProfileEnd(options')
      BY <1>2
    <3>3. QED BY <1>2, <2>1, <2>2, <3>1, <3>2 DEF OnSchedule
  <2>3. CASE StartAgingStep \/ (StartElectricalStep /\ DoElectricalStep)
    <3>1. /\ SetCurrent /\ UNCHANGED <<elTime, cycle, actualAgingStep>>
          /\ (pc = "init" /\ pc' \in {"values", "cycle"}) \/ StartElectricalStep
      BY <2>3 DEF StartAgingStep, StartElectricalStep, SetCurrentAndLength, DoElectricalStep
    <3>2. QED BY <1>2, <2>1, <2>2, <3>1, StartScheduled
  <2>4. CASE (ElectricalSubstep /\ DoElectricalStep) \/ ((EndThermalStep \/ ThermalStop) /\ DoThermalStep)
    <3>1. UNCHANGED <<cycle, actualAgingStep>> /\ IInv
      BY <2>4 DEF ElectricalSubstep, EndThermalStep, ThermalStop, DoElectricalStep, DoThermalStep, CouplingInv
    <3>2. QED BY <2>1, <2>2, <2>4, <3>1, SubstepScheduled, MeetScheduled
  <2>5. CASE InitialValues \/ (EndElectricalStep /\ DoElectricalStep) \/ (ThermalSubstep /\ DoThermalStep)
             \/ UNCHANGED agingVars
    <3>1. /\ UNCHANGED <<profile, load, elTime, steps, cycle, actualAgingStep>>
          /\ pc' # "init" \/ UNCHANGED <<pc, elTime>>
          /\ \/ pc' \in {"electrical", "thermal"} /\ pc \in {"electrical", "thermal"}
             \/ pc' \notin {"electrical", "thermal"}
      <4>1. CASE InitialValues
        BY <4>1 DEF InitialValues
      <4>2. CASE EndElectricalStep /\ DoElectricalStep
        BY <4>2 DEF EndElectricalStep, DoElectricalStep, cell
      <4>3. CASE ThermalSubstep /\ DoThermalStep
        <5>1. IInv
          BY <4>3 DEF ThermalSubstep, CouplingInv
        <5>2. QED BY <4>3, <5>1, ThermalSubstepStep DEF ThermalSubstep, DoThermalStep, cell
      <4>4. CASE UNCHANGED agingVars
        BY <4>4 DEF agingVars, vars, profile, load
      <4>5. QED BY <2>5, <4>1, <4>2, <4>3, <4>4
    <3>2. pc \in {"electrical", "thermal"} \/ pc' \notin {"electrical", "thermal"}
      BY <3>1
    <3>3. /\ elTime' <= begin + mCycleLength + extra + mMaxSimulationStepDuration
          /\ pc' \in {"electrical", "thermal"} =>
               elTime' <= steps[1].time + mMaxSimulationStepDuration
      BY <2>1, <3>1, <3>2 DEF Scheduled
    <3>4. QED BY <2>1, <2>2, <3>1, <3>3, QuietScheduled
  <2>6. ASSUME pc = "cycle", HasEnded, pc' \in {"cycle", "init"}, ~ProfileIsLonger,
               Profile!StartNewCycle, mSimulationDuration' = Profile!GetMaxTime',
               UNCHANGED <<mProfileChangeTime, elTime>>,
               CyclesBegun' = c + 1, cycle' \in 0..(options.cycles - 1),
               IF pc' = "init" THEN actualAgingStep' = actualAgingStep + 1 ELSE actualAgingStep' = actualAgingStep,
               actualAgingStep' + 1 <= options.mAgingSteps
        PROVE  OnSchedule'
    <3>1. PICK more, start, before, now :
             /\ before = actualAgingStep * mMaxSimulationStepDuration
             /\ now = actualAgingStep' * mMaxSimulationStepDuration
             /\ more = mCycleLength + now
             /\ start = begin + mCycleLength
      OBVIOUS
    <3>2. /\ actualAgingStep' \in Nat /\ before \in Nat /\ now \in Nat
          /\ IF pc' = "init" THEN now = before + mMaxSimulationStepDuration ELSE now = before
      <4>1. PICK s : s = mMaxSimulationStepDuration
        OBVIOUS
      <4>2. s \in Nat /\ actualAgingStep \in Nat /\ before = actualAgingStep * s /\ now = actualAgingStep' * s
        BY <1>2, <3>1, <4>1
      <4>3. before \in Nat /\ (actualAgingStep + 1) * s = before + s
        BY <4>2, NextMultiple
      <4>4. CASE pc' = "init"
        BY <2>6, <4>1, <4>2, <4>3, <4>4
      <4>5. CASE pc' # "init"
        BY <2>6, <4>1, <4>2, <4>3, <4>5
      <4>6. QED BY <4>4, <4>5
    <3>3. extra = IF c = 0 THEN 0 ELSE mCycleLength + before
      BY <2>1, <3>1
    <3>4. /\ more \in Nat /\ extra <= more /\ mCycleLength <= more
          /\ pc' = "init" => extra + mMaxSimulationStepDuration <= more
      <4>1. mCycleLength \in Nat /\ mMaxSimulationStepDuration \in Nat /\ more = mCycleLength + now
        BY <1>2, <2>1, <3>1
      <4>2. QED BY <3>2, <3>3, <4>1
    <3>5. Scheduled(start, more)'
      BY <1>2, <2>1, <2>6, <3>1, <3>4, CycleScheduled
    <3>6. c \in Nat
      BY <1>2, <2>1
    <3>7. start = CyclesBegun' * mCycleLength'
      <4>1. (c + 1) * mCycleLength = c * mCycleLength + mCycleLength
        BY <2>1, <3>6, NextMultiple
      <4>2. QED BY <1>1, <1>2, <2>6, <3>1, <4>1
    <3>8. more = AgingExtra'
      <4>1. c + 1 # 0
        BY <3>6
      <4>2. QED BY <1>2, <2>6, <3>1, <4>1 DEF AgingExtra
    <3>9. mCycleLength' = ProfileEnd(options')
      BY <1>2
    <3>10. QED BY <1>2, <2>6, <3>2, <3>5, <3>7, <3>8, <3>9 DEF OnSchedule
  <2>7. CASE NextCycle /\ NextCalculationCycle
    <3>1. /\ pc = "cycle" /\ HasEnded /\ pc' = pc /\ cycle' = cycle + 1 /\ cycle + 1 < options.cycles
          /\ Profile!StartNewCycle /\ mSimulationDuration' = Profile!GetMaxTime' /\ ~ProfileIsLonger
          /\ UNCHANGED <<mProfileChangeTime, elTime, actualAgingStep>>
      BY <2>7 DEF NextCycle, cell, NextCalculationCycle
    <3>2. CyclesBegun' = c + 1 /\ cycle' \in 0..(options.cycles - 1)
      <4>1. CyclesBegun' = actualAgingStep * options.cycles + (cycle + 1)
        BY <1>2, <3>1 DEF CyclesBegun
      <4>2. actualAgingStep * options.cycles \in Nat
        BY <1>2
      <4>3. QED BY <1>2, <2>1, <3>1, <4>1, <4>2
    <3>3. QED BY <1>2, <2>1, <2>6, <3>1, <3>2
  <2>8. CASE DoAgingStep
    <3>1. pc = "cycle" /\ actualAgingStep' = actualAgingStep + 1
      BY <2>8 DEF DoAgingStep, AgingStepDue
    <3>2. CASE LastAgingStep
      <4>1. pc' = "done"
        BY <2>8, <3>2 DEF DoAgingStep
      <4>2. mCycleLength' = ProfileEnd(options')
        BY <1>2
      <4>3. QED BY <1>2, <3>1, <4>1, <4>2 DEF OnSchedule
    <3>3. CASE ~LastAgingStep /\ ProfileIsLonger
      <4>1. UNCHANGED <<pc, cycle, profile, load, cell>>
        BY <2>8, <3>3 DEF DoAgingStep
      <4>2. UNCHANGED <<elTime, steps>>
        BY <4>1 DEF cell
      <4>3. Scheduled(begin, extra)'
        <5>1. /\ elTime' <= begin + mCycleLength + extra + mMaxSimulationStepDuration
              /\ pc' \notin {"electrical", "thermal"}
          BY <2>1, <3>1, <4>1, <4>2 DEF Scheduled
        <5>2. QED BY <2>1, <4>1, <4>2, <5>1, QuietScheduled
      <4>4. c = 0 /\ extra = 0 /\ begin = 0 * mCycleLength /\ CyclesBegun' = 0 /\ AgingExtra' = 0
        BY <1>1, <1>2, <2>1, <3>3 DEF CyclesBegun, AgingExtra
      <4>5. begin = CyclesBegun' * mCycleLength' /\ extra = AgingExtra' /\ mCycleLength' = ProfileEnd(options')
        BY <1>2, <4>4
      <4>6. QED BY <1>2, <2>1, <3>1, <3>3, <4>1, <4>3, <4>5 DEF OnSchedule
    <3>4. CASE ~LastAgingStep /\ ~ProfileIsLonger
      <4>1. /\ HasEnded /\ cycle + 1 = options.cycles /\ pc' = "init" /\ cycle' = 0
            /\ Profile!StartNewCycle /\ mSimulationDuration' = Profile!GetMaxTime'
            /\ UNCHANGED <<mProfileChangeTime, elTime>>
            /\ actualAgingStep + 1 # options.mAgingSteps
        BY <2>8, <3>4 DEF DoAgingStep, AgingStepDue, ResetThElSimulation, LastAgingStep
      <4>2. CyclesBegun' = c + 1
        <5>1. CyclesBegun' = (actualAgingStep + 1) * options.cycles
          BY <1>2, <3>1, <3>4, <4>1 DEF CyclesBegun
        <5>2. (actualAgingStep + 1) * options.cycles = actualAgingStep * options.cycles + cycle + 1
          <6>1. actualAgingStep \in Nat /\ cycle \in Nat /\ options.cycles \in Nat /\ cycle + 1 = options.cycles
            BY <1>2, <2>1, <4>1
          <6>2. QED BY <6>1, CyclesOfSteps
        <5>3. QED BY <2>1, <3>4, <5>1, <5>2
      <4>3. actualAgingStep' + 1 <= options.mAgingSteps /\ cycle' \in 0..(options.cycles - 1)
        <5>1. actualAgingStep + 1 <= options.mAgingSteps /\ actualAgingStep' = actualAgingStep + 1
              /\ actualAgingStep \in Nat /\ options.mAgingSteps \in Nat /\ options.cycles \in Nat \ {0}
          BY <1>2, <2>1, <3>1, <3>4
        <5>2. QED BY <4>1, <5>1
      <4>4. QED BY <2>6, <3>1, <3>4, <4>1, <4>2, <4>3
    <3>5. QED BY <3>2, <3>3, <3>4
  <2>9. QED BY <2>3, <2>4, <2>5, <2>7, <2>8, AgingStepCases
<1>5. QED BY <1>3, <1>4

\* the time by which the aging simulation is over
AgesInTime == elTime <= LatestAgingTime(options)

LEMMA ScheduleAges ==
  ASSUME ProfileType, CouplingInv, OnSchedule, pc # "done"
  PROVE  AgesInTime
<1>1. PICK a, k, n, x, step, d :
        /\ a = actualAgingStep /\ k = options.mAgingSteps /\ n = options.cycles
        /\ x = mCycleLength /\ step = mMaxSimulationStepDuration /\ d = cycle
  OBVIOUS
<1>2. /\ a \in Nat /\ k \in Nat \ {0} /\ n \in Nat \ {0} /\ x \in Nat /\ step \in Nat /\ d \in 0..(n - 1)
      /\ x = ProfileEnd(options) /\ elTime \in Nat
  BY <1>1, TimeType, OptionsAssumption, AgingOptionsAssumption, ConstantsAssumption
     DEF OnSchedule, Scheduled, Timetable, ProfileType
<1>3. LatestAgingTime(options) = (k * n + 1) * x + k * step
  BY <1>1, <1>2 DEF LatestAgingTime
<1>4. PICK c, all : c = CyclesBegun /\ all = k * n
  OBVIOUS
<1>5. elTime <= c * x + x + AgingExtra + step
  BY <1>1, <1>4 DEF OnSchedule, Scheduled
<1>6. all \in Nat /\ (all + 1) * x = all * x + x /\ all * x \in Nat
  <2>1. all \in Nat
    BY <1>2, <1>4
  <2>2. QED BY <1>2, <2>1
<1>7. k * step \in Nat /\ step <= k * step
  <2>1. 0 + 1 <= k /\ k \in Nat
    BY <1>2
  <2>2. 0 * step + step <= k * step /\ 0 * step = 0
    BY <1>2, <2>1, MoreCycles
  <2>3. QED BY <1>2, <2>1, <2>2
<1>8. CASE c = 0
  <2>1. AgingExtra = 0 /\ c * x = 0
    BY <1>2, <1>4, <1>8 DEF AgingExtra
  <2>2. PICK ks, nx : ks = k * step /\ nx = all * x
    OBVIOUS
  <2>3. elTime <= x + step /\ ks \in Nat /\ nx \in Nat /\ step <= ks /\ LatestAgingTime(options) = nx + x + ks
    BY <1>2, <1>3, <1>4, <1>5, <1>6, <1>7, <2>1, <2>2
  <2>4. elTime <= nx + x + ks
    <3>1. x \in Nat /\ step \in Nat /\ elTime \in Nat
      BY <1>2
    <3>2. QED BY <2>3, <3>1
  <2>5. QED BY <2>3, <2>4 DEF AgesInTime
<1>9. CASE c # 0
  <2>1. c = a * n + d /\ a + 1 <= k /\ AgingExtra = x + a * step
    BY <1>1, <1>4, <1>9 DEF CyclesBegun, AgingExtra, OnSchedule
  <2>2. a * n + n <= all /\ a * n \in Nat
    BY <1>2, <1>4, <2>1, MoreCycles
  <2>3. c + 1 <= all /\ c \in Nat
    BY <1>2, <1>6, <2>1, <2>2
  <2>4. c * x + x <= all * x /\ c * x \in Nat
    BY <1>2, <1>6, <2>3, MoreCycles
  <2>5. a * step + step <= k * step /\ a * step \in Nat
    BY <1>2, <2>1, MoreCycles
  <2>6. PICK cx, late, ks, nx : cx = c * x /\ late = a * step /\ ks = k * step /\ nx = all * x
    OBVIOUS
  <2>7. /\ elTime <= cx + x + (x + late) + step /\ cx + x <= nx /\ late + step <= ks
        /\ cx \in Nat /\ late \in Nat /\ ks \in Nat /\ nx \in Nat
    BY <1>5, <1>6, <1>7, <2>1, <2>4, <2>5, <2>6
  <2>8. elTime <= nx + x + ks
    <3>1. x \in Nat /\ step \in Nat /\ elTime \in Nat
      BY <1>2
    <3>2. (cx + x) + (late + step) <= nx + ks
      BY <2>7, <3>1
    <3>3. QED BY <2>7, <3>1, <3>2
  <2>9. LatestAgingTime(options) = nx + x + ks
    BY <1>3, <1>4, <1>6, <2>6
  <2>10. QED BY <2>8, <2>9 DEF AgesInTime
<1>10. QED BY <1>8, <1>9

LEMMA LatestAgingTimeType == \A o \in Options : LatestAgingTime(o) \in Int
<1> TAKE o \in Options
<1>1. ProfileEnd(o) \in Int
  BY ProfileEndType
<1>2. o.mAgingSteps * o.cycles + 1 \in Int /\ o.mAgingSteps * mMaxSimulationStepDuration \in Int
  BY OptionsAssumption, AgingOptionsAssumption, ConstantsAssumption
<1>3. QED BY <1>1, <1>2 DEF LatestAgingTime

LEMMA DoneKeepsTime ==
  ASSUME [AgingNext]_agingVars, pc' = "done"
  PROVE  UNCHANGED <<elTime, options>>
<1>1. CASE DoAgingStep
  <2>1. UNCHANGED elTime
    BY <1>1 DEF DoAgingStep, ResetThElSimulation, cell
  <2>2. QED BY <2>1, ConstantDecisions
<1>2. CASE UNCHANGED agingVars
  BY <1>2 DEF agingVars, vars
<1>3. CASE EndThermalStep \/ ThermalStop
  BY <1>3 DEF EndThermalStep, ThermalStop
<1>4. CASE ThermalSubstep
  BY <1>4 DEF ThermalSubstep, cell, profile
<1>5. CASE StartAgingStep \/ InitialValues \/ StartElectricalStep \/ ElectricalSubstep \/ EndElectricalStep \/ NextCycle
  <2>1. pc' # "done"
    BY <1>5 DEF StartAgingStep, InitialValues, StartElectricalStep, ElectricalSubstep, EndElectricalStep, NextCycle
  <2>2. QED BY <2>1
<1>6. QED BY <1>1, <1>2, <1>3, <1>4, <1>5, AgingStepCases

-----------------------------------------------------------------------------
(* What follows for every profile. *)

AgingInv == ProfileType /\ CouplingInv /\ Clocks /\ Collected /\ InTime /\ Cyclic

LEMMA AgingInvariant == AgingSpec => []AgingInv
<1>1. AgingInit => AgingInv
  BY InitCouplingInv, InitClocks, InitCollected, InitInTime, InitCyclic DEF AgingInv
<1>2. AgingInv /\ [AgingNext]_agingVars => AgingInv'
  BY TimeType, NextAgingProfile, NextCouplingInv, NextClocks, NextCollected, NextInTime, NextCyclic
     DEF AgingInv
<1>3. QED BY <1>1, <1>2, PTL DEF AgingSpec

\* Every second outside of the steady state cycles ages the cell once, however
\* rollbacks cut the steps and whatever an effect has too little data to use.
THEOREM TimeAgesOnce == AgingSpec => []EverySecondAgesOnce
<1>1. AgingInv => EverySecondAgesOnce
  BY DEF AgingInv, Collected, EverySecondAgesOnce
<1>2. QED BY <1>1, AgingInvariant, PTL

\* Aging steps come when the documentation says: in a long profile late by less
\* than one electrical step; without voltage limits, in a short one behind as many
\* whole cycles as the options say, counted from the start of the simulation.
THEOREM AgingIsInTime == AgingSpec => []AgingStepsInTime
<1>1. AgingInv => AgingStepsInTime
  BY CyclicInTime DEF AgingInv, InTime, AgingStepsInTime
<1>2. QED BY <1>1, AgingInvariant, PTL

\* None of the exceptions of the coupling ends an aging simulation, although a
\* reset of the states between two aging steps leaves the clocks and the record.
THEOREM AgingNeverThrows == AgingSpec => []NeverThrows
<1>1. AgingInv => NeverThrows
  BY DEF AgingInv, CouplingInv, IInv, Phases, NeverThrows
<1>2. QED BY <1>1, AgingInvariant, PTL

\* The aging simulation is over when every aging step has simulated its cycles: voltage
\* limits, rollbacks and the reset of the states add less than one cycle in all, and an
\* electrical step in each aging step.
THEOREM AgingEndsInTime == AgingSpec => []AgesInTime
<1>1. AgingInv /\ OnSchedule /\ [AgingNext]_agingVars => OnSchedule'
  BY NextOnSchedule DEF AgingInv
<1>2. AgingInv /\ OnSchedule /\ pc # "done" => AgesInTime
  BY ScheduleAges DEF AgingInv
<1>3. AgesInTime /\ [AgingNext]_agingVars /\ ~(pc # "done")' => AgesInTime'
  BY DoneKeepsTime DEF AgesInTime
<1>4. AgingInit => pc # "done"
  BY DEF AgingInit, Init
<1>5. QED BY <1>1, <1>2, <1>3, <1>4, InitOnSchedule, AgingInvariant, PTL DEF AgingSpec

\* what the effects collect stays in order as long as the clock does not reach the
\* largest double
LEMMA DataOrdered == AgingSpec => []Ordered
<1> DEFINE Small == elTime < Infinity
<1>1. AgingInit => Moves /\ Ordered
  BY InitMoves, InitOrdered
<1>2. AgingInv /\ Small /\ Moves /\ Ordered /\ [AgingNext]_agingVars => Moves' /\ Ordered'
  BY NextMoves, NextOrdered DEF AgingInv
<1>3. AgingInv /\ AgesInTime => Small
  <2> SUFFICES ASSUME AgingInv, AgesInTime PROVE elTime < Infinity
    OBVIOUS
  <2>1. PICK o \in Options : o = options
    BY DEF AgingInv, ProfileType
  <2>2. LatestAgingTime(o) < Infinity /\ elTime <= LatestAgingTime(o)
    BY <2>1, AgingTimesAssumption DEF AgesInTime
  <2>3. LatestAgingTime(o) \in Int
    BY LatestAgingTimeType
  <2>4. elTime \in Nat /\ Infinity \in Nat
    BY TimeType, ConstantsAssumption DEF AgingInv
  <2>5. QED BY <2>2, <2>3, <2>4
<1> HIDE DEF Small
<1>4. QED BY <1>1, <1>2, <1>3, AgingInvariant, AgingEndsInTime, PTL DEF AgingSpec

\* The samples of an effect are in the order of time, none of them covers an empty
\* step, and each has its charge.
THEOREM SamplesAscend == AgingSpec => []SamplesInOrder
<1>1. Ordered => SamplesInOrder
  BY DEF Ordered, InOrder, SamplesInOrder
<1>2. QED BY <1>1, DataOrdered, PTL

\* Whatever charges the cyclical aging collects between two aging steps, the cycles
\* that rainflow counting makes of them stand for all of the way of the charge, and the
\* widest of them for its span.
THEOREM CyclesAreComplete == AgingSpec => []CyclesStandForTheCharge
<1>1. Ordered => CyclesStandForTheCharge
  <2> SUFFICES ASSUME Ordered, Len(mSocValues) >= 2
               PROVE  /\ CountedWay(CountCycles(mSocValues)) = TotalVariation(mSocValues)
                      /\ \E i \in DOMAIN CountCycles(mSocValues) :
                           CountCycles(mSocValues)[i].depth = SpanOf(mSocValues)
    BY DEF CyclesStandForTheCharge
  <2>1. mSocValues \in Seq(Int)
    <3>1. mSocValues \in Seq(Nat)
      BY DEF Ordered
    <3>2. Nat \subseteq Int
      OBVIOUS
    <3>3. QED BY <3>1, <3>2, SeqMonotonic
  <2>2. QED BY <2>1, CyclesCounted
<1>2. QED BY <1>1, DataOrdered, PTL
==============================================================================
