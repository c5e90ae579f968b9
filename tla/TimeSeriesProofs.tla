--------------------------- MODULE TimeSeriesProofs ---------------------------
(***************************************************************************)
(* Proofs about TimeSeries, for every profile that is read from a file and *)
(* every order of evaluations, skips and new cycles.                       *)
(***************************************************************************)
EXTENDS TimeSeries, DataLemmas, SequenceTheorems, TLAPS

-----------------------------------------------------------------------------
(* The inductive invariant. *)

SeriesType ==
  /\ mTimesData \in Seq(Int) /\ mTimesData # <<>>
  /\ mTimesDataInitial \in Seq(Int) /\ Len(mTimesDataInitial) = Len(mTimesData)
  /\ mCycleLength \in Int
  /\ mIndex \in 1..Len(mTimesData)
  /\ mValuesData \in [1..Len(mTimesData) -> Int]
  /\ mTime \in Nat /\ now \in 0..MaxTime /\ mTime <= now

\* Skips may bring two times together behind the index, but never in front of it.
Order ==
  /\ \A i, j \in 1..Len(mTimesData) : i < j => mTimesDataInitial[i] < mTimesDataInitial[j]
  /\ \A i, j \in 1..Len(mTimesData) : i <= j => mTimesData[i] <= mTimesData[j]
  /\ \A i, j \in mIndex..Len(mTimesData) :
       mTimesData[j] - mTimesData[i] = mTimesDataInitial[j] - mTimesDataInitial[i]

\* where the index is, and which value was read there
Evaluated ==
  /\ mIndex = 1 \/ mTimesData[mIndex] <= mTime
  /\ mIndex = Len(mTimesData) \/ mTime < mTimesData[mIndex + 1]
  /\ mValue = mValuesData[mIndex]

Period == mCycleLength = Last(mTimesDataInitial) - mTimesDataInitial[1]

IInv == SeriesType /\ Order /\ Evaluated /\ Period

-----------------------------------------------------------------------------
(* Times in ascending order, and the search in them. *)

\* what the constructor checks of neighbours holds of any two times
LEMMA ValidAscends ==
  ASSUME NEW times \in Seq(Int), Valid(times),
         NEW i \in 1..Len(times), NEW j \in 1..Len(times), i < j
  PROVE  times[i] < times[j]
<1>1. \A k \in 1..(Len(times) - 1) : times[k] < times[k + 1]
  BY DEF Valid
<1>2. QED BY <1>1, NeighboursAscend

\* the index stops in front of the first time that has not come yet
LEMMA IndexFacts ==
  ASSUME NEW times \in Seq(Int), NEW from \in 1..Len(times), NEW time \in Int,
         NEW k, k = CurrentIndex(times, from, time)
  PROVE  /\ k \in from..Len(times)
         /\ k = Len(times) \/ time < times[k + 1]
         /\ k # from => times[k] <= time
BY FirstToCome DEF CurrentIndex

-----------------------------------------------------------------------------
(* The operations of the class. *)

LEMMA InitSeries == Init => IInv
<1> SUFFICES ASSUME Init PROVE IInv
  OBVIOUS
<1>1. PICK stream \in Streams : ReadFrom(stream)
  BY DEF Init
<1> DEFINE lines == Lines(stream)
<1>2. lines \in Seq([time : Int, value : Int]) /\ (lines # <<>> => Head(lines).time = 0)
  BY StreamsAssumption
<1>3. HasData(lines) /\ mCycleLength = Last(mTimesData)
  BY <1>1 DEF ReadFrom
<1> HIDE DEF lines
<1>4. /\ mTimesData = [i \in DOMAIN lines |-> lines[i].time] /\ Valid(mTimesData)
      /\ mTimesDataInitial = mTimesData /\ mIndex = 1 /\ mTime = 0 /\ mValue = mValuesData[1]
  BY <1>3 DEF HasData
<1>5. Len(lines) \in Nat /\ DOMAIN lines = 1..Len(lines)
  BY <1>2, LenProperties
<1>6. \A i \in 1..Len(lines) : lines[i].time \in Int
  <2>1. TAKE i \in 1..Len(lines)
  <2>2. lines[i] \in [time : Int, value : Int]
    BY <1>2, ElementOfSeq
  <2>3. QED BY <2>2
<1>7. mTimesData \in Seq(Int) /\ Len(mTimesData) = Len(lines)
  <2>1. mTimesData \in [1..Len(lines) -> Int]
    BY <1>4, <1>5, <1>6
  <2>2. QED BY <1>5, <2>1, FunctionIsSequence
<1>8. mTimesData # <<>>
  BY <1>4 DEF Valid
<1>9. Len(mTimesData) \in Nat /\ 1 \in 1..Len(mTimesData) /\ Len(mTimesData) \in 1..Len(mTimesData)
      /\ \A i \in 1..Len(mTimesData) : mTimesData[i] \in Int
  BY <1>7, <1>8, LenProperties, EmptySeq, ElementOfSeq
<1>10. mTimesData[1] = 0
  <2>1. lines # <<>> /\ Head(lines) = lines[1]
    BY <1>2, <1>7, <1>9, EmptySeq
  <2>2. QED BY <1>2, <1>4, <1>5, <1>7, <1>9, <2>1
<1>11. \A i, j \in 1..Len(mTimesData) : i < j => mTimesData[i] < mTimesData[j]
  BY <1>4, <1>7, ValidAscends
<1>12. now = 0
  BY DEF Init
<1>13. SeriesType
  <2>1. \A i \in 1..Len(lines) : lines[i].value \in Int
    <3>1. TAKE i \in 1..Len(lines)
    <3>2. lines[i] \in [time : Int, value : Int]
      BY <1>2, ElementOfSeq
    <3>3. QED BY <3>2
  <2>2. mValuesData = [i \in DOMAIN lines |-> lines[i].value]
    BY <1>3 DEF HasData
  <2>3. mValuesData \in [1..Len(mTimesData) -> Int]
    BY <1>5, <1>7, <2>1, <2>2
  <2>4. now \in 0..MaxTime
    BY <1>12, ConstantsAssumption
  <2>5. mCycleLength \in Int
    BY <1>3, <1>9 DEF Last
  <2>6. QED BY <1>4, <1>7, <1>8, <1>9, <1>12, <2>3, <2>4, <2>5 DEF SeriesType
<1>14. Order
  <2>1. \A i, j \in 1..Len(mTimesData) : i <= j => mTimesData[i] <= mTimesData[j]
    <3>1. TAKE i, j \in 1..Len(mTimesData)
    <3>2. CASE i = j
      BY <1>9, <3>2
    <3>3. CASE i # j
      BY <1>9, <1>11, <3>3
    <3>4. QED BY <3>2, <3>3
  <2>2. QED BY <1>4, <1>11, <2>1 DEF Order
<1>15. Evaluated
  <2>1. CASE Len(mTimesData) = 1
    BY <1>4, <2>1 DEF Evaluated
  <2>2. CASE Len(mTimesData) # 1
    <3>1. 2 \in 1..Len(mTimesData)
      <4>1. Len(mTimesData) # 0
        BY <1>9
      <4>2. Len(mTimesData) >= 2
        BY <1>9, <2>2, <4>1, NatCases
      <4>3. QED BY <1>9, <4>2
    <3>2. mTimesData[1] < mTimesData[2]
      BY <1>9, <1>11, <3>1
    <3>3. QED BY <1>4, <1>10, <3>2 DEF Evaluated
  <2>3. QED BY <2>1, <2>2
<1>16. Period
  BY <1>3, <1>4, <1>9, <1>10 DEF Period, Last
<1>17. QED BY <1>13, <1>14, <1>15, <1>16 DEF IInv

\* an evaluation of ascending times at a later time
LEMMA EvaluateStep ==
  ASSUME IInv, NEW time \in Nat, NEW times \in Seq(Int), Len(times) = Len(mTimesData),
         mTimesData' = times, Evaluate(times, time), UNCHANGED mValuesData,
         times[mIndex] <= time \/ mIndex = 1
  PROVE  /\ mIndex' \in mIndex..Len(times)
         /\ mTime' = time
         /\ Evaluated'
<1>1. mIndex \in 1..Len(mTimesData) /\ mValue = mValuesData[mIndex]
  BY DEF IInv, SeriesType, Evaluated
<1>2. /\ mTime' = time /\ mIndex' = CurrentIndex(times, mIndex, time)
      /\ mValue' = IF mIndex' # mIndex THEN mValuesData[mIndex'] ELSE mValue
  BY DEF Evaluate
<1>3. mIndex \in 1..Len(times)
  BY <1>1
<1>4. /\ mIndex' \in mIndex..Len(times)
      /\ mIndex' = Len(times) \/ time < times[mIndex' + 1]
      /\ mIndex' # mIndex => times[mIndex'] <= time
  <2> DEFINE k == CurrentIndex(times, mIndex, time)
  <2>1. /\ k \in mIndex..Len(times)
        /\ k = Len(times) \/ time < times[k + 1]
        /\ k # mIndex => times[k] <= time
    <3>1. time \in Int
      OBVIOUS
    <3>2. QED BY <1>3, <3>1, IndexFacts
  <2> HIDE DEF k
  <2>2. mIndex' = k
    BY <1>2 DEF k
  <2>3. QED BY <2>1, <2>2
<1>5. mIndex' = 1 \/ times[mIndex'] <= time
  BY <1>3, <1>4
<1>6. mValue' = mValuesData'[mIndex']
  BY <1>1, <1>2
<1>7. QED BY <1>2, <1>4, <1>5, <1>6 DEF Evaluated

LEMMA SetTimeStep == IInv /\ CallSetTime => IInv'
<1> SUFFICES ASSUME IInv, CallSetTime PROVE IInv'
  OBVIOUS
<1>1. PICK time \in now..MaxTime : SetTimeAndTriggerEvaluation(time) /\ now' = time
  BY DEF CallSetTime
<1>2. SeriesType /\ Order /\ Period /\ Evaluated
  BY DEF IInv
<1>3. /\ Evaluate(mTimesData, time)
      /\ UNCHANGED <<mTimesData, mValuesData, mTimesDataInitial, mCycleLength>>
  BY <1>1 DEF SetTimeAndTriggerEvaluation
<1>4. now \in Nat /\ time \in Nat /\ mTime <= time /\ mTime \in Nat
  BY <1>1, <1>2, ConstantsAssumption DEF SeriesType
<1>5. mTimesData \in Seq(Int) /\ mIndex \in 1..Len(mTimesData) /\ Len(mTimesData) \in Nat
  BY <1>2, LenProperties DEF SeriesType
<1>6. mTimesData[mIndex] <= time \/ mIndex = 1
  <2>1. mTimesData[mIndex] \in Int
    BY <1>5, ElementOfSeq
  <2>2. mIndex = 1 \/ mTimesData[mIndex] <= mTime
    BY <1>2 DEF Evaluated
  <2>3. QED BY <1>4, <2>1, <2>2
<1>7. mIndex' \in mIndex..Len(mTimesData) /\ mTime' = time /\ Evaluated'
  BY <1>3, <1>4, <1>5, <1>6, EvaluateStep
<1>8. SeriesType'
  BY <1>1, <1>2, <1>3, <1>4, <1>5, <1>7 DEF SeriesType
<1>9. Order'
  <2>1. \A i \in mIndex'..Len(mTimesData) : i \in mIndex..Len(mTimesData)
    BY <1>5, <1>7
  <2>2. QED BY <1>2, <1>3, <2>1 DEF Order
<1>10. Period'
  BY <1>2, <1>3 DEF Period
<1>11. QED BY <1>7, <1>8, <1>9, <1>10 DEF IInv

LEMMA MoveStep == IInv /\ CallMove => IInv'
<1> SUFFICES ASSUME IInv, CallMove PROVE IInv'
  OBVIOUS
<1>1. PICK time \in now..MaxTime :
        /\ mTimesData[mIndex] <= time /\ time < mTimesData[mIndex + 1]
        /\ MoveToNextProfileValue(time)
        /\ now' = time
  BY DEF CallMove
<1>2. SeriesType /\ Order /\ Period
  BY DEF IInv
<1> DEFINE times == [i \in DOMAIN mTimesData |->
                       IF i > mIndex THEN mTimesData[i] - RemainingTimeInStep(time) ELSE mTimesData[i]]
           rest == mTimesData[mIndex + 1] - time
<1>3. /\ mIndex < Len(mTimesData)
      /\ mTimesData' = times
      /\ Evaluate(times, time)
      /\ UNCHANGED <<mValuesData, mTimesDataInitial, mCycleLength>>
  BY <1>1 DEF MoveToNextProfileValue, HasNext
<1>4. /\ now \in Nat /\ time \in Nat /\ time <= MaxTime
      /\ Len(mTimesData) \in Nat /\ DOMAIN mTimesData = 1..Len(mTimesData)
      /\ \A i \in 1..Len(mTimesData) : mTimesData[i] \in Int
  BY <1>1, <1>2, ConstantsAssumption, LenProperties, ElementOfSeq DEF SeriesType
<1>5. mIndex \in 1..Len(mTimesData) /\ mIndex + 1 \in 1..Len(mTimesData) /\ mIndex \in Nat
  BY <1>2, <1>3, <1>4 DEF SeriesType
<1>6. rest \in Int /\ rest = RemainingTimeInStep(time)
  BY <1>4, <1>5 DEF RemainingTimeInStep
<1>7. \A i \in 1..Len(mTimesData) :
        times[i] = IF i > mIndex THEN mTimesData[i] - rest ELSE mTimesData[i]
  BY <1>4, <1>6
<1>8. times[mIndex + 1] = time /\ times[mIndex] = mTimesData[mIndex]
  BY <1>4, <1>5, <1>7
<1>9. times \in Seq(Int) /\ Len(times) = Len(mTimesData)
  <2>1. \A i \in 1..Len(mTimesData) : times[i] \in Int
    BY <1>4, <1>6, <1>7
  <2>2. times \in [1..Len(mTimesData) -> Int]
    BY <1>4, <2>1
  <2>3. QED BY <1>4, <2>2, FunctionIsSequence
<1> HIDE DEF times, rest
<1>10. mIndex' \in mIndex..Len(mTimesData) /\ mTime' = time /\ Evaluated'
  <2>1. times[mIndex] <= time
    BY <1>1, <1>8
  <2>2. mIndex' \in mIndex..Len(times) /\ mTime' = time /\ Evaluated'
    BY <1>3, <1>4, <1>9, <2>1, EvaluateStep
  <2>3. QED BY <1>9, <2>2
<1>11. mIndex' \in (mIndex + 1)..Len(mTimesData)
  <2>1. ASSUME mIndex' = mIndex PROVE FALSE
    <3>1. mIndex' # Len(mTimesData')
      <4>1. Len(mTimesData') = Len(mTimesData)
        BY <1>3, <1>9
      <4>2. mIndex < Len(mTimesData)
        BY <1>3
      <4>3. \A a, b \in Nat : a < b => a # b
        BY SMTT(30)
      <4>4. mIndex # Len(mTimesData)
        BY <1>4, <1>5, <4>2, <4>3
      <4>5. QED BY <2>1, <4>1, <4>4
    <3>2. mTime' < mTimesData'[mIndex' + 1]
      BY <1>10, <3>1 DEF Evaluated
    <3>3. time < time
      BY <1>3, <1>8, <1>10, <2>1, <3>2
    <3>4. QED BY <1>4, <3>3
  <2>2. QED BY <1>4, <1>5, <1>10, <2>1
<1>12. SeriesType'
  <2>1. now' \in 0..MaxTime /\ mTime' \in Nat /\ mTime' <= now'
    BY <1>1, <1>4, <1>10
  <2>2. mTimesData' # <<>>
    BY <1>3, <1>5, <1>9, EmptySeq
  <2>3. mIndex' \in 1..Len(mTimesData)
    BY <1>4, <1>5, <1>10
  <2>4. QED BY <1>2, <1>3, <1>9, <2>1, <2>2, <2>3 DEF SeriesType
<1>13. Order'
  <2>1. \A i, j \in 1..Len(mTimesData) : i <= j => mTimesData[i] <= mTimesData[j]
    BY <1>2 DEF Order
  <2>2. \A i, j \in 1..Len(mTimesData) : i <= j => times[i] <= times[j]
    <3>1. SUFFICES ASSUME NEW i \in 1..Len(mTimesData), NEW j \in 1..Len(mTimesData), i <= j
                   PROVE  times[i] <= times[j]
      OBVIOUS
    <3>2. CASE j <= mIndex \/ i > mIndex
      BY <1>4, <1>5, <1>6, <1>7, <2>1, <3>1, <3>2
    <3>3. CASE i <= mIndex /\ j > mIndex
      <4>1. mTimesData[i] <= mTimesData[mIndex] /\ mTimesData[mIndex + 1] <= mTimesData[j]
        BY <1>4, <1>5, <2>1, <3>3
      <4>2. times[i] <= time
        BY <1>1, <1>4, <1>5, <1>7, <3>3, <4>1
      <4>3. time <= times[j]
        BY <1>4, <1>5, <1>7, <3>3, <4>1 DEF rest
      <4>4. times[i] \in Int /\ times[j] \in Int
        BY <1>9, ElementOfSeq
      <4>5. QED BY <1>4, <4>2, <4>3, <4>4
    <3>4. QED BY <1>4, <1>5, <3>2, <3>3
  <2>3. \A i, j \in mIndex'..Len(mTimesData) :
          times[j] - times[i] = mTimesDataInitial[j] - mTimesDataInitial[i]
    <3>1. SUFFICES ASSUME NEW i \in mIndex'..Len(mTimesData), NEW j \in mIndex'..Len(mTimesData)
                   PROVE  times[j] - times[i] = mTimesDataInitial[j] - mTimesDataInitial[i]
      OBVIOUS
    <3>2. /\ i \in 1..Len(mTimesData) /\ i > mIndex /\ i \in mIndex..Len(mTimesData)
          /\ j \in 1..Len(mTimesData) /\ j > mIndex /\ j \in mIndex..Len(mTimesData)
      BY <1>4, <1>5, <1>11
    <3>3. times[i] = mTimesData[i] - rest /\ times[j] = mTimesData[j] - rest
      BY <1>7, <3>2
    <3>4. mTimesData[j] - mTimesData[i] = mTimesDataInitial[j] - mTimesDataInitial[i]
      BY <1>2, <3>2 DEF Order
    <3>5. QED BY <1>4, <1>6, <3>2, <3>3, <3>4
  <2>4. QED BY <1>2, <1>3, <1>9, <2>2, <2>3 DEF Order
<1>14. Period'
  BY <1>2, <1>3 DEF Period
<1>15. QED BY <1>10, <1>12, <1>13, <1>14 DEF IInv

LEMMA NewCycleStep == IInv /\ CallStartNewCycle => IInv'
<1> SUFFICES ASSUME IInv, CallStartNewCycle PROVE IInv'
  OBVIOUS
<1> DEFINE times == [i \in DOMAIN mTimesDataInitial |-> mTimesDataInitial[i] + mCycleLength]
           n == Len(mTimesData)
<1>1. SeriesType /\ Period
  BY DEF IInv
<1>2. /\ mTimesData' = times /\ mTimesDataInitial' = times /\ Valid(times)
      /\ mTime' = 0 /\ mIndex' = 1 /\ mValue' = mValuesData[1]
      /\ UNCHANGED <<mValuesData, mCycleLength, now>>
  BY DEF CallStartNewCycle, StartNewCycle
<1>3. /\ mTimesDataInitial \in Seq(Int) /\ Len(mTimesDataInitial) = n /\ mCycleLength \in Int
      /\ n \in Nat /\ n # 0
  BY <1>1, LenProperties, EmptySeq DEF SeriesType
<1>4. DOMAIN mTimesDataInitial = 1..n /\ \A i \in 1..n : mTimesDataInitial[i] \in Int
  BY <1>3, LenProperties, ElementOfSeq
<1>5. \A i \in 1..n : times[i] = mTimesDataInitial[i] + mCycleLength /\ times[i] \in Int
  BY <1>3, <1>4
<1>6. times \in Seq(Int) /\ Len(times) = n
  <2>1. times \in [1..n -> Int]
    BY <1>4, <1>5
  <2>2. QED BY <1>3, <2>1, FunctionIsSequence
<1>7. 1 \in 1..n /\ n \in 1..n
  BY <1>3
<1> HIDE DEF times
<1>8. \A i, j \in 1..n : i < j => times[i] < times[j]
  BY <1>2, <1>6, ValidAscends
<1>9. \A i, j \in 1..n : i <= j => times[i] <= times[j]
  <2>1. TAKE i, j \in 1..n
  <2>2. CASE i = j
    BY <1>5, <2>2
  <2>3. CASE i # j
    BY <1>3, <1>5, <1>8, <2>3
  <2>4. QED BY <2>2, <2>3
<1>10. SeriesType'
  <2>1. times # <<>>
    BY <1>2 DEF Valid
  <2>2. mTime' \in Nat /\ mTime' <= now' /\ now' \in 0..MaxTime
    BY <1>1, <1>2 DEF SeriesType
  <2>3. QED BY <1>1, <1>2, <1>3, <1>6, <1>7, <2>1, <2>2 DEF SeriesType
<1>11. Order'
  BY <1>2, <1>6, <1>8, <1>9 DEF Order
<1>12. Evaluated'
  <2>1. CASE n = 1
    BY <1>2, <1>6, <2>1 DEF Evaluated
  <2>2. CASE n # 1
    <3>1. n >= 2
      BY <1>3, <2>2, NatCases
    <3>2. 2 \in 1..n
      BY <1>3, <3>1
    <3>3. times[1] < times[2] /\ times[1] >= 0
      BY <1>2, <1>7, <1>8, <3>2 DEF Valid
    <3>4. 0 < times[1 + 1]
      BY <1>5, <1>7, <3>2, <3>3
    <3>5. QED BY <1>2, <3>4 DEF Evaluated
  <2>3. QED BY <2>1, <2>2
<1>13. Period'
  <2>1. Last(times) = mTimesDataInitial[n] + mCycleLength /\ times[1] = mTimesDataInitial[1] + mCycleLength
    BY <1>5, <1>6, <1>7 DEF Last
  <2>2. mCycleLength = mTimesDataInitial[n] - mTimesDataInitial[1]
    BY <1>1, <1>3 DEF Period, Last
  <2>3. QED BY <1>2, <1>3, <1>4, <1>7, <2>1, <2>2 DEF Period
<1>14. QED BY <1>10, <1>11, <1>12, <1>13 DEF IInv

-----------------------------------------------------------------------------
(* The theorems. *)

LEMMA SeriesInvariant == Spec => []IInv
<1>1. Init => IInv
  BY InitSeries
<1>2. IInv /\ [Next]_vars => IInv'
  <2> SUFFICES ASSUME IInv, [Next]_vars PROVE IInv'
    OBVIOUS
  <2>1. CASE CallSetTime
    BY <2>1, SetTimeStep
  <2>2. CASE CallMove
    BY <2>2, MoveStep
  <2>3. CASE CallStartNewCycle
    BY <2>3, NewCycleStep
  <2>4. CASE UNCHANGED vars
    BY <2>4 DEF vars, IInv, SeriesType, Order, Evaluated, Period
  <2>5. QED BY <2>1, <2>2, <2>3, <2>4 DEF Next
<1>3. QED BY <1>1, <1>2, PTL DEF Spec

\* Every variable holds a value of its type; above all the index stays inside
\* of the vectors that operator() of EvalNoInterpolation reads.
THEOREM SeriesTypeCorrect == Spec => []TypeOK
<1>1. IInv => TypeOK
  <2> SUFFICES ASSUME IInv PROVE TypeOK
    OBVIOUS
  <2>1. SeriesType /\ Evaluated
    BY DEF IInv
  <2>2. DOMAIN mTimesData = 1..Len(mTimesData) /\ DOMAIN mTimesDataInitial = 1..Len(mTimesData)
    BY <2>1, LenProperties DEF SeriesType
  <2>3. mTimesDataInitial \in [DOMAIN mTimesData -> Int]
    <3>1. \A i \in 1..Len(mTimesData) : mTimesDataInitial[i] \in Int
      BY <2>1, ElementOfSeq DEF SeriesType
    <3>2. mTimesDataInitial = [i \in 1..Len(mTimesDataInitial) |-> mTimesDataInitial[i]]
      BY <2>1, LenProperties DEF SeriesType
    <3>3. QED BY <2>1, <2>2, <3>1, <3>2 DEF SeriesType
  <2>4. mValuesData \in [DOMAIN mTimesData -> Int] /\ mIndex \in DOMAIN mTimesData
    BY <2>1, <2>2 DEF SeriesType
  <2>5. mValue \in Int
    BY <2>1, <2>2, <2>4 DEF Evaluated
  <2>6. mTime \in 0..MaxTime /\ now \in 0..MaxTime
    BY <2>1, ConstantsAssumption DEF SeriesType
  <2>7. QED BY <2>1, <2>3, <2>4, <2>5, <2>6 DEF TypeOK, SeriesType
<1>2. QED BY <1>1, SeriesInvariant, PTL

\* GetValue returns what the profile holds at the time it was last asked for,
\* however the caller mixed evaluations, skips and new cycles before
\* (EvalNoInterpolation's index only moves forward).
THEOREM ProfileIsEvaluated == Spec => []EvaluatesTheProfile
<1>1. IInv => EvaluatesTheProfile
  <2> SUFFICES ASSUME IInv PROVE EvaluatesTheProfile
    OBVIOUS
  <2>1. SeriesType /\ Order /\ Evaluated
    BY DEF IInv
  <2>2. mTimesData \in Seq(Int) /\ mIndex \in 1..Len(mTimesData) /\ mTime \in Int
    BY <2>1 DEF SeriesType
  <2>3. /\ \A i, j \in 1..Len(mTimesData) : i <= j => mTimesData[i] <= mTimesData[j]
        /\ mIndex = 1 \/ mTimesData[mIndex] <= mTime
        /\ mIndex = Len(mTimesData) \/ mTime < mTimesData[mIndex + 1]
    BY <2>1 DEF Order, Evaluated
  <2>4. Max({1} \cup {i \in DOMAIN mTimesData : mTimesData[i] <= mTime}) = mIndex
    BY <2>2, <2>3, LastToHaveCome
  <2>5. QED BY <2>1, <2>4 DEF EvaluatesTheProfile, ValueAt, Evaluated
<1>2. QED BY <1>1, SeriesInvariant, PTL

\* However many segments were cut short, the current one and those to come
\* last as long as the profile says (MoveToNextProfileValue moves them all).
THEOREM RestIsNotShortened == Spec => []RestKeepsItsDurations
<1>1. IInv => RestKeepsItsDurations
  <2> SUFFICES ASSUME IInv, NEW i \in mIndex..(Len(mTimesData) - 1)
               PROVE  mTimesData[i + 1] - mTimesData[i] = mTimesDataInitial[i + 1] - mTimesDataInitial[i]
    BY DEF RestKeepsItsDurations
  <2>1. SeriesType /\ Order
    BY DEF IInv
  <2>2. Len(mTimesData) \in Nat /\ mIndex \in 1..Len(mTimesData)
    BY <2>1, LenProperties DEF SeriesType
  <2>3. i \in mIndex..Len(mTimesData) /\ i + 1 \in mIndex..Len(mTimesData)
    BY <2>2
  <2>4. QED BY <2>1, <2>3 DEF Order
<1>2. QED BY <1>1, SeriesInvariant, PTL

\* A new cycle is the profile of the file again, moved to the end of the cycle
\* before as it was planned, whatever was skipped in it (StartNewCycle).
THEOREM CyclesFollow == Spec => NextCycleFollows
<1> DEFINE Follows == \A i \in DOMAIN mTimesData :
              mTimesData'[i] = Last(mTimesDataInitial) + (mTimesDataInitial[i] - mTimesDataInitial[1])
<1>1. IInv /\ [Next]_vars => [StartNewCycle => Follows]_vars
  <2> SUFFICES ASSUME IInv, StartNewCycle PROVE Follows
    OBVIOUS
  <2>1. SeriesType /\ Period
    BY DEF IInv
  <2>2. /\ DOMAIN mTimesData = 1..Len(mTimesData) /\ DOMAIN mTimesDataInitial = 1..Len(mTimesData)
        /\ Len(mTimesDataInitial) \in 1..Len(mTimesData) /\ 1 \in 1..Len(mTimesData)
        /\ \A i \in 1..Len(mTimesData) : mTimesDataInitial[i] \in Int
    BY <2>1, LenProperties, EmptySeq, ElementOfSeq DEF SeriesType
  <2>3. \A i \in 1..Len(mTimesData) : mTimesData'[i] = mTimesDataInitial[i] + mCycleLength
    BY <2>2 DEF StartNewCycle
  <2>4. Last(mTimesDataInitial) \in Int /\ mCycleLength = Last(mTimesDataInitial) - mTimesDataInitial[1]
    BY <2>1, <2>2 DEF Period, Last
  <2>5. QED BY <2>2, <2>3, <2>4
<1>2. QED BY <1>1, SeriesInvariant, PTL DEF Spec, NextCycleFollows
===============================================================================
