-------------------------- MODULE ThermalStateProofs --------------------------
(***************************************************************************)
(* Proofs about ThermalState, for every number of entries, every time and  *)
(* every power: the energy of an interval is that of the powers that held, *)
(* and what the two resets of the record may not forget.                   *)
(***************************************************************************)
EXTENDS ThermalState, DataLemmas, SequenceTheorems, TLAPS

\* the entries are in the order of time
Ascending ==
  \A i, j \in 1..Len(mPowerDissipations) :
    i <= j => mPowerDissipations[i].time <= mPowerDissipations[j].time

RecordInv == TypeOK /\ Ascending

\* Entries without the bounds of an instance.  The lemmas about single operations assume
\* no more of the record, so that they serve the proofs about the coupling, too.
AnyEntry == [value : Int, time : Nat]

-----------------------------------------------------------------------------
(* Operations on the record. *)

LEMMA EntryFacts == Entry \in SUBSET AnyEntry /\ \A t \in Time : t \in Nat
<1>1. \A t \in Time : t \in Nat
  BY ConstantsAssumption DEF Time
<1>2. \A e \in Entry : e \in AnyEntry
  BY <1>1, ConstantsAssumption DEF Entry, AnyEntry
<1>3. QED BY <1>1, <1>2

LEMMA RecordFacts ==
  ASSUME TypeOK
  PROVE  /\ Len(mPowerDissipations) \in Nat
         /\ DOMAIN mPowerDissipations = 1..Len(mPowerDissipations)
         /\ \A i \in 1..Len(mPowerDissipations) :
              mPowerDissipations[i] \in Entry /\ mPowerDissipations[i].time \in Nat
<1>1. mPowerDissipations \in Seq(Entry)
  BY DEF TypeOK
<1>2. ASSUME NEW i \in 1..Len(mPowerDissipations)
      PROVE  mPowerDissipations[i] \in Entry /\ mPowerDissipations[i].time \in Nat
  <2>1. mPowerDissipations[i] \in Entry
    BY <1>1, ElementOfSeq
  <2>2. QED BY <2>1, ConstantsAssumption DEF Entry, Time
<1>3. QED BY <1>1, <1>2, LenProperties

\* A reset to a time keeps the entries up to it: all of them if none is behind
\* it, and else those in front of the first one behind it.
LEMMA ResetToTimePrefix ==
  ASSUME NEW S \in SUBSET AnyEntry, mPowerDissipations \in Seq(S), Ascending,
         NEW time \in Nat, ResetPowerDissipationToTime(time)
  PROVE  \E m \in 0..Len(mPowerDissipations) :
           /\ \A i \in 1..Len(mPowerDissipations) : mPowerDissipations[i].time <= time <=> i <= m
           /\ mPowerDissipations' \in Seq(S) /\ Len(mPowerDissipations') = m
           /\ \A i \in 1..m : mPowerDissipations'[i] = mPowerDissipations[i]
<1> DEFINE p == mPowerDissipations
           behind == {i \in DOMAIN p : p[i].time > time}
           first == Min(behind)
           m == first - 1
<1>1. Len(p) \in Nat /\ DOMAIN p = 1..Len(p)
  BY LenProperties
<1>2. \A i \in 1..Len(p) : p[i] \in S /\ p[i].time \in Nat
  BY ElementOfSeq DEF AnyEntry
<1>3. p' = IF behind = {} THEN p ELSE SubSeq(p, 1, first - 1)
  BY DEF ResetPowerDissipationToTime
<1>4. CASE behind = {}
  <2>1. \A i \in 1..Len(p) : p[i].time <= time
    BY <1>1, <1>2, <1>4
  <2>2. p' = p /\ p \in Seq(S)
    BY <1>3, <1>4
  <2>3. Len(p) \in 0..Len(p) /\ \A i \in 1..Len(p) : i <= Len(p)
    BY <1>1
  <2>4. /\ \A i \in 1..Len(p) : p[i].time <= time <=> i <= Len(p)
        /\ p' \in Seq(S) /\ Len(p') = Len(p)
        /\ \A i \in 1..Len(p) : p'[i] = p[i]
    BY <2>1, <2>2, <2>3
  <2> HIDE DEF m
  <2>5. QED BY <2>3, <2>4
<1>5. CASE behind # {}
  <2>0. behind \in SUBSET Nat
    BY <1>1
  <2> HIDE DEF behind
  <2>1. first \in behind /\ \A i \in behind : first <= i
    BY <1>5, <2>0, LeastElement
  <2> HIDE DEF first
  <2>2. first \in 1..Len(p) /\ p[first].time > time
    BY <1>1, <2>1 DEF behind
  <2>3. m \in 0..Len(p) /\ first = m + 1 /\ m < first
    BY <1>1, <2>2
  <2>4. ASSUME NEW i \in 1..Len(p) PROVE p[i].time <= time <=> i <= m
    <3>1. CASE i <= m
      <4>1. i \notin behind
        BY <2>1, <2>2, <2>3, <3>1
      <4>2. QED BY <1>1, <1>2, <3>1, <4>1 DEF behind
    <3>2. CASE ~(i <= m)
      <4>1. first <= i
        BY <1>1, <2>2, <2>3, <3>2
      <4>2. p[first].time <= p[i].time
        BY <2>2, <4>1 DEF Ascending
      <4>3. QED BY <1>2, <2>2, <3>2, <4>2
    <3>3. QED BY <3>1, <3>2
  <2>5. p' = SubSeq(p, 1, m)
    BY <1>3, <1>5
  <2> HIDE DEF m
  <2>6. p' \in Seq(S) /\ Len(p') = m /\ \A i \in 1..m : p'[i] = p[i]
    <3>1. \A i \in 1..m : p[i] \in S
      BY <1>1, <1>2, <2>3
    <3>2. QED BY <2>3, <2>5, <3>1, SubSeqProperties
  <2>7. QED BY <2>3, <2>4, <2>6
<1>6. QED BY <1>4, <1>5

-----------------------------------------------------------------------------
(* The record stays in the order of time. *)

LEMMA InitRecord == Init => RecordInv
<1> SUFFICES ASSUME Init PROVE RecordInv
  OBVIOUS
<1>1. mPowerDissipations = <<[value |-> 0, time |-> 0]>> /\ mFixedPowerDissipation = 0
  BY DEF Init
<1>2. [value |-> 0, time |-> 0] \in Entry
  BY ConstantsAssumption DEF Entry, Time
<1>3. TypeOK
  BY <1>1, <1>2, ConstantsAssumption DEF TypeOK
<1>4. QED BY <1>1, <1>3 DEF RecordInv, Ascending

LEMMA NextRecord == RecordInv /\ [Next]_vars => RecordInv'
<1> SUFFICES ASSUME RecordInv, [Next]_vars PROVE RecordInv'
  OBVIOUS
<1> DEFINE p == mPowerDissipations
<1>1. Len(p) \in Nat /\ \A i \in 1..Len(p) : p[i] \in Entry /\ p[i].time \in Nat
  BY RecordFacts DEF RecordInv
<1>2. CASE CallAdd
  <2>1. PICK value \in Power, time \in LastTime..MaxTime : AddPowerDissipation(value, time)
    BY <1>2 DEF CallAdd
  <2> DEFINE entry == [value |-> value, time |-> time]
  <2>2. LastTime \in Nat /\ \A i \in 1..Len(p) : p[i].time <= LastTime
    <3>1. CASE p = <<>>
      BY <3>1 DEF LastTime
    <3>2. CASE p # <<>>
      <4>1. Len(p) \in 1..Len(p) /\ LastTime = p[Len(p)].time
        BY <1>1, <3>2, EmptySeq DEF LastTime, Last, RecordInv, TypeOK
      <4>2. QED BY <1>1, <4>1 DEF RecordInv, Ascending
    <3>3. QED BY <3>1, <3>2
  <2>3. time \in Time /\ time \in Nat
    BY <2>2, ConstantsAssumption DEF Time
  <2>4. entry \in Entry /\ entry.time = time
    BY <2>3 DEF Entry
  <2>5. p' = Append(p, entry) /\ mFixedPowerDissipation' = mFixedPowerDissipation
    BY <2>1 DEF AddPowerDissipation
  <2> HIDE DEF entry
  <2>6. /\ p' \in Seq(Entry) /\ Len(p') = Len(p) + 1 /\ p'[Len(p) + 1] = entry
        /\ \A i \in 1..Len(p) : p'[i] = p[i]
    BY <2>4, <2>5, AppendFacts DEF RecordInv, TypeOK
  <2>7. TypeOK'
    <3>1. Len(p) < MaxEntries
      BY <1>2 DEF CallAdd
    <3>2. Len(p') <= MaxEntries
      BY <1>1, <2>6, <3>1, ConstantsAssumption
    <3>3. QED BY <2>5, <2>6, <3>2 DEF RecordInv, TypeOK
  <2>8. Ascending'
    <3>1. SUFFICES ASSUME NEW i \in 1..Len(p'), NEW j \in 1..Len(p'), i <= j
                   PROVE  p'[i].time <= p'[j].time
      BY DEF Ascending
    <3>2. CASE j = Len(p) + 1
      <4>1. CASE i = j
        BY <2>3, <2>4, <2>6, <3>2, <4>1
      <4>2. CASE i # j
        <5>1. i \in 1..Len(p)
          BY <1>1, <2>6, <3>1, <3>2, <4>2
        <5>2. p[i].time <= LastTime /\ p[i].time \in Nat
          BY <1>1, <2>2, <5>1
        <5>3. QED BY <2>2, <2>3, <2>4, <2>6, <3>2, <5>1, <5>2
      <4>3. QED BY <4>1, <4>2
    <3>3. CASE j \in 1..Len(p)
      <4>1. i \in 1..Len(p)
        BY <1>1, <3>1, <3>3
      <4>2. QED BY <2>6, <3>1, <3>3, <4>1 DEF RecordInv, Ascending
    <3>4. QED BY <1>1, <2>6, <3>2, <3>3
  <2>9. QED BY <2>7, <2>8 DEF RecordInv
<1>3. CASE ResetPowerDissipation
  <2>1. CASE p = <<>>
    BY <1>3, <2>1 DEF ResetPowerDissipation, RecordInv, TypeOK, Ascending
  <2>2. CASE p # <<>>
    <3>1. Len(p) \in 1..Len(p)
      BY <1>1, <2>2, EmptySeq DEF RecordInv, TypeOK
    <3>2. p' = <<Last(p)>> /\ Last(p) \in Entry /\ Last(p).time \in Nat
          /\ mFixedPowerDissipation' = mFixedPowerDissipation
      BY <1>1, <1>3, <2>2, <3>1 DEF ResetPowerDissipation, Last
    <3>3. TypeOK'
      BY <3>2, ConstantsAssumption DEF RecordInv, TypeOK
    <3>4. QED BY <3>2, <3>3 DEF RecordInv, Ascending
  <2>3. QED BY <2>1, <2>2
<1>4. CASE CallResetToTime
  <2>1. PICK time \in Time : ResetPowerDissipationToTime(time)
    BY <1>4 DEF CallResetToTime
  <2>2. time \in Nat
    BY ConstantsAssumption DEF Time
  <2>3. PICK m \in 0..Len(p) :
          /\ p' \in Seq(Entry) /\ Len(p') = m
          /\ \A i \in 1..m : p'[i] = p[i]
    BY <2>1, <2>2, EntryFacts, ResetToTimePrefix DEF RecordInv, TypeOK
  <2>4. mFixedPowerDissipation' = mFixedPowerDissipation
    BY <2>1 DEF ResetPowerDissipationToTime
  <2>5. TypeOK'
    BY <1>1, <2>3, <2>4, ConstantsAssumption DEF RecordInv, TypeOK
  <2>6. Ascending'
    BY <1>1, <2>3 DEF RecordInv, Ascending
  <2>7. QED BY <2>5, <2>6 DEF RecordInv
<1>5. CASE CallSetFixed
  <2>1. p' = <<>> /\ mFixedPowerDissipation' \in Power
    BY <1>5 DEF CallSetFixed, SetFixedPowerDissipation
  <2>2. QED BY <2>1, ConstantsAssumption DEF RecordInv, TypeOK, Ascending
<1>6. CASE UNCHANGED vars
  BY <1>6 DEF vars, RecordInv, TypeOK, Ascending
<1>7. QED BY <1>2, <1>3, <1>4, <1>5, <1>6 DEF Next

LEMMA RecordInvariant == Spec => []RecordInv
  BY InitRecord, NextRecord, PTL DEF Spec

\* Every entry of the record stays an entry.
THEOREM RecordType == Spec => []TypeOK
<1>1. RecordInv => TypeOK
  BY DEF RecordInv
<1>2. QED BY <1>1, RecordInvariant, PTL

-----------------------------------------------------------------------------
(* What the resets keep. *)

\* the value that holds at a time is that of the entry at which the search ends
LEMMA HeldAt ==
  ASSUME NEW S, NEW s \in Seq(S), NEW t \in Nat, NEW m \in 1..Len(s),
         \A i \in 1..Len(s) : s[i].time <= t <=> i <= m
  PROVE  Held(s, t) = s[m].value
<1> DEFINE upTo == {i \in DOMAIN s : s[i].time <= t}
<1>1. Len(s) \in Nat /\ DOMAIN s = 1..Len(s)
  BY LenProperties
<1>2. upTo \in SUBSET (1..Len(s)) /\ m \in upTo /\ \A i \in upTo : i <= m
  BY <1>1
<1> HIDE DEF upTo
<1>3. Max(upTo) \in upTo /\ \A i \in upTo : Max(upTo) >= i
  BY <1>1, <1>2, GreatestElement
<1>4. Max(upTo) = m
  <2> DEFINE k == Max(upTo)
  <2>1. k \in 1..Len(s)
    BY <1>2, <1>3
  <2>2. k <= m
    BY <1>2, <1>3
  <2>3. k >= m
    BY <1>2, <1>3
  <2> HIDE DEF k
  <2>4. k = m
    BY <1>1, <2>1, <2>2, <2>3
  <2>5. QED BY <2>4 DEF k
<1>5. QED BY <1>4 DEF Held, upTo

LEMMA ResetKeeps ==
  ASSUME NEW S \in SUBSET AnyEntry, mPowerDissipations \in Seq(S), Ascending,
         ResetPowerDissipation, mPowerDissipations # <<>>,
         NEW t \in Nat, LastTime <= t
  PROVE  /\ mPowerDissipations'[1].time <= t
         /\ Held(mPowerDissipations', t) = Held(mPowerDissipations, t)
<1> DEFINE p == mPowerDissipations
           n == Len(p)
<1>1. n \in Nat /\ \A i \in 1..n : p[i] \in S /\ p[i].time \in Nat
  BY LenProperties, ElementOfSeq DEF AnyEntry
<1>2. n \in 1..n /\ p \in Seq(S)
  BY <1>1, EmptySeq
<1>3. p' = <<p[n]>> /\ p[n].time <= t 
  BY DEF ResetPowerDissipation, LastTime, Last
<1>4. \A i \in 1..n : p[i].time <= t <=> i <= n
  <2>1. TAKE i \in 1..n
  <2>2. p[i].time <= p[n].time
    BY <1>1, <1>2 DEF Ascending
  <2>3. QED BY <1>1, <1>2, <1>3, <2>2
<1>5. Held(p, t) = p[n].value
  BY <1>2, <1>3, <1>4, HeldAt
<1>6. p' \in Seq(S) /\ Len(p') = 1 /\ p'[1] = p[n]
  BY <1>1, <1>2, <1>3
<1>7. Held(p', t) = p'[1].value
  <2>1. 1 \in 1..Len(p') /\ \A i \in 1..Len(p') : p'[i].time <= t <=> i <= 1
    BY <1>3, <1>6
  <2>2. QED BY <1>3, <1>6, <2>1, HeldAt
<1>8. QED BY <1>3, <1>5, <1>6, <1>7

\* The beginning of an electrical step forgets no heat that can still be asked for.
THEOREM ResetForgetsNothing == Spec => ResetKeepsTheLast
<1> SUFFICES Spec => [][ResetPowerDissipation /\ mPowerDissipations # <<>>
                          => \A t \in Time : LastTime <= t =>
                               /\ mPowerDissipations'[1].time <= t
                               /\ Held(mPowerDissipations', t) = Held(mPowerDissipations, t)]_vars
  BY DEF ResetKeepsTheLast
<1>1. RecordInv =>
        (ResetPowerDissipation /\ mPowerDissipations # <<>>
           => \A t \in Time : LastTime <= t =>
                /\ mPowerDissipations'[1].time <= t
                /\ Held(mPowerDissipations', t) = Held(mPowerDissipations, t))
  BY EntryFacts, ResetKeeps DEF RecordInv, TypeOK
<1>2. QED BY <1>1, RecordInvariant, PTL

LEMMA ResetToTimeKeeps ==
  ASSUME NEW S \in SUBSET AnyEntry, mPowerDissipations \in Seq(S), Ascending,
         NEW time \in Nat, ResetPowerDissipationToTime(time),
         mPowerDissipations # <<>>, mPowerDissipations[1].time <= time
  PROVE  /\ mPowerDissipations' # <<>>
         /\ \A t \in Nat : mPowerDissipations[1].time <= t =>
              Held(mPowerDissipations', t) = Held(mPowerDissipations, IF t < time THEN t ELSE time)
<1> DEFINE p == mPowerDissipations
           n == Len(p)
<1>1. n \in Nat /\ p \in Seq(S) /\ \A i \in 1..n : p[i] \in S /\ p[i].time \in Nat
  BY LenProperties, ElementOfSeq DEF AnyEntry
<1>2. 1 \in 1..n
  BY <1>1, EmptySeq
<1>3. time \in Nat
  OBVIOUS
<1>4. PICK m \in 0..n :
        /\ \A i \in 1..n : p[i].time <= time <=> i <= m
        /\ p' \in Seq(S) /\ Len(p') = m
        /\ \A i \in 1..m : p'[i] = p[i]
  BY <1>3, ResetToTimePrefix
<1>5. m \in 1..n
  BY <1>1, <1>2, <1>4
<1>6. ASSUME NEW t \in Nat, p[1].time <= t
      PROVE  Held(p', t) = Held(p, IF t < time THEN t ELSE time)
  <2>1. t \in Nat
    OBVIOUS
  <2>2. CASE ~(t < time)
    <3>1. \A i \in 1..m : p'[i].time <= t <=> i <= m
      <4>1. TAKE i \in 1..m
      <4>2. i \in 1..n /\ i <= m
        BY <1>1, <1>5
      <4>3. p[i].time <= time /\ p[i].time \in Nat
        BY <1>1, <1>4, <4>2
      <4>4. QED BY <1>3, <1>4, <2>1, <2>2, <4>2, <4>3
    <3>2. Held(p', t) = p'[m].value
      <4> DEFINE kept == p'
      <4>1. kept \in Seq(S) /\ m \in 1..Len(kept)
        BY <1>4, <1>5
      <4>2. \A i \in 1..Len(kept) : kept[i].time <= t <=> i <= m
        BY <1>4, <3>1
      <4> HIDE DEF kept
      <4>3. Held(kept, t) = kept[m].value
        BY <2>1, <4>1, <4>2, HeldAt
      <4>4. QED BY <4>3 DEF kept
    <3>3. Held(p, time) = p[m].value
      <4>1. p \in Seq(S) /\ m \in 1..Len(p)
        BY <1>1, <1>5
      <4>2. \A i \in 1..Len(p) : p[i].time <= time <=> i <= m
        BY <1>4
      <4> HIDE DEF p
      <4>3. QED BY <1>3, <4>1, <4>2, HeldAt
    <3>4. QED BY <1>4, <1>5, <2>2, <3>2, <3>3
  <2>3. CASE t < time
    <3> DEFINE upTo == {i \in DOMAIN p : p[i].time <= t}
               k == Max(upTo)
    <3>1. DOMAIN p = 1..n /\ DOMAIN p' = 1..m
      BY <1>1, <1>4, LenProperties
    <3>2. upTo \in SUBSET (1..n) /\ 1 \in upTo
      BY <1>2, <1>6, <3>1
    <3>3. \A i \in upTo : i \in 1..m
      BY <1>1, <1>3, <1>4, <2>1, <2>3, <3>1
    <3>4. {i \in DOMAIN p' : p'[i].time <= t} = upTo
      BY <1>1, <1>4, <1>5, <3>1, <3>3
    <3> HIDE DEF upTo
    <3>5. k \in upTo
      BY <1>1, <3>2, GreatestElement
    <3>6. k \in 1..m
      BY <3>3, <3>5
    <3>7. Held(p', t) = p'[k].value /\ Held(p, t) = p[k].value
      BY <3>4 DEF Held, upTo
    <3>8. QED BY <1>4, <2>3, <3>6, <3>7
  <2>4. QED BY <2>2, <2>3
<1>7. p' # <<>>
  BY <1>4, <1>5
<1>8. QED BY <1>6, <1>7

\* A rollback leaves the heat up to its time as it was.
THEOREM RollbackKeepsThePast == Spec => ResetToTimeKeepsThePast
<1>1. RecordInv =>
        \A time \in Time :
          /\ ResetPowerDissipationToTime(time)
          /\ mPowerDissipations # <<>> /\ mPowerDissipations[1].time <= time
          => /\ mPowerDissipations' # <<>>
             /\ \A t \in Time : mPowerDissipations[1].time <= t =>
                  Held(mPowerDissipations', t) = Held(mPowerDissipations, IF t < time THEN t ELSE time)
  BY EntryFacts, ResetToTimeKeeps DEF RecordInv, TypeOK
<1>2. QED BY <1>1, RecordInvariant, PTL DEF ResetToTimeKeepsThePast

(* Neither of the two resets loses heat that can still be asked for. *)
THEOREM ResetsForgetNothing == Spec => ResetsKeepWhatHolds
BY ResetForgetsNothing, RollbackKeepsThePast DEF ResetsKeepWhatHolds

-----------------------------------------------------------------------------
(* The energy of an interval. *)

IsSumUpTo(sum, f, first, n) == IsSum(sum, f, first, n) /\ SumOf(f, first, n) = sum[n]
HasSum(f, first, n) == \E sum \in [0..n -> Int] : IsSumUpTo(sum, f, first, n)

LEMMA SumOfFacts ==
  ASSUME NEW n \in Nat, NEW first \in Nat, NEW f, \A i \in first..(first + n - 1) : f[i] \in Int
  PROVE  HasSum(f, first, n)
<1> DEFINE sum == CHOOSE s : s = [k \in 0..n |-> IF k = 0 THEN 0 ELSE s[k - 1] + f[first + k - 1]]
<1>1. SumOf(f, first, n) = sum[n]
  BY DEF SumOf
<1>2. sum \in [0..n -> Int] /\ IsSum(sum, f, first, n)
  BY SumExists
<1> HIDE DEF sum
<1>3. QED BY <1>1, <1>2 DEF HasSum, IsSumUpTo

IsFirst(k, from, n, matches) ==
  /\ k \in from..(n + 1)
  /\ k <= n => k \in matches
  /\ \A i \in from..(k - 1) : i \notin matches

\* a search from a position on ends at the first match, or behind the last position
LEMMA FirstMatch ==
  ASSUME NEW n \in Nat, NEW from \in 1..(n + 1), NEW matches, matches \subseteq from..n,
         NEW k, k = Min(matches \cup {n + 1})
  PROVE  IsFirst(k, from, n, matches)
<1> DEFINE found == matches \cup {n + 1}
<1>1. found \in SUBSET Nat /\ found # {} /\ k = Min(found)
  OBVIOUS
<1>2. \A i \in found : i \in from..(n + 1) /\ (i <= n => i \in matches)
  OBVIOUS
<1>3. \A i \in matches : i \in found
  OBVIOUS
<1> HIDE DEF found
<1>4. k \in found /\ \A i \in found : k <= i
  <2>1. Min(found) \in found /\ \A i \in found : Min(found) <= i
    BY <1>1, LeastElement
  <2>2. QED BY <1>1, <2>1
<1>5. ASSUME NEW i \in from..(k - 1) PROVE i \notin matches
  <2>1. k \in Nat /\ i \in Nat /\ ~(k <= i)
    BY <1>1, <1>4
  <2>2. QED BY <1>3, <1>4, <2>1
<1>6. QED BY <1>2, <1>4, <1>5 DEF IsFirst

InOrderOfTime(p) == \A i, j \in 1..Len(p) : i <= j => p[i].time <= p[j].time

\* a request that the record answers with the average of the interval
Answerable(p, time, dt) ==
  /\ p # <<>> /\ p[1].time <= time - dt
  /\ time - dt < Last(p).time \/ Len(p) = 1

Surround(p, time, dt, next, after) ==
  /\ next \in 2..(Len(p) + 1) /\ after \in next..(Len(p) + 1)
  /\ next > Len(p) => next = 2
  /\ p[next - 1].time <= time - dt
  /\ \A i \in next..(after - 1) : time - dt < p[i].time /\ p[i].time < time
  /\ after <= Len(p) => time <= p[after].time

\* what the two searches find: the entry that holds at the start, and the first one
\* that does not hold in front of the end
LEMMA SearchesOfRequest ==
  ASSUME NEW p \in Seq(AnyEntry), InOrderOfTime(p), NEW time \in Nat, NEW dt \in Nat \ {0}, dt <= time,
         Answerable(p, time, dt),
         NEW next, next = Min({i \in 2..Len(p) : p[i].time > time - dt} \cup {Len(p) + 1}),
         NEW after, after = Min({i \in next..Len(p) : p[i].time >= time} \cup {Len(p) + 1})
  PROVE  Surround(p, time, dt, next, after)
<1> DEFINE n == Len(p)
           start == time - dt
           late == {i \in 2..n : p[i].time > start}
           ended == {i \in next..n : p[i].time >= time}
<1>1. n \in Nat /\ n >= 1 /\ \A i \in 1..n : p[i].time \in Nat
  <2>1. n \in Nat /\ \A i \in 1..n : p[i] \in AnyEntry
    BY LenProperties, ElementOfSeq
  <2>2. \A e \in AnyEntry : e.time \in Nat
    BY DEF AnyEntry
  <2>3. n # 0
    BY EmptySeq DEF Answerable
  <2> HIDE DEF n
  <2>4. QED BY <2>1, <2>2, <2>3
<1>2. start \in Nat /\ start < time
  OBVIOUS
<1>3. next = Min(late \cup {n + 1}) /\ after = Min(ended \cup {n + 1})
  OBVIOUS
<1>4. p[1].time <= start /\ (start < p[n].time \/ n = 1)
  BY DEF Answerable, Last
<1> HIDE DEF start
<1> HIDE DEF n
<1>5. /\ next \in 2..(n + 1) /\ (next <= n => next \in late)
      /\ \A i \in 2..(next - 1) : i \notin late
  <2>1. late \subseteq 2..n /\ 2 \in 1..(n + 1)
    BY <1>1
  <2> HIDE DEF late
  <2>2. IsFirst(next, 2, n, late)
    BY <1>1, <1>3, <2>1, FirstMatch
  <2>3. QED BY <2>2 DEF IsFirst
<1>6. /\ after \in next..(n + 1) /\ (after <= n => after \in ended)
      /\ \A i \in next..(after - 1) : i \notin ended
  <2>1. next \in Nat /\ next \in 1..(n + 1)
    BY <1>1, <1>5
  <2>2. ended \subseteq next..n
    BY <2>1
  <2> HIDE DEF ended
  <2>3. IsFirst(after, next, n, ended)
    BY <1>1, <1>3, <2>1, <2>2, FirstMatch
  <2>4. QED BY <2>3 DEF IsFirst
<1>7. p[next - 1].time <= start
  <2>1. CASE next = 2
    BY <1>4, <2>1
  <2>2. CASE next # 2
    <3>1. next - 1 \in 2..(next - 1) /\ next - 1 \in 2..n /\ next - 1 \in 1..n
      BY <1>1, <1>5, <2>2
    <3>2. next - 1 \notin late
      BY <1>5, <3>1
    <3>3. QED BY <1>1, <1>2, <3>1, <3>2
  <2>3. QED BY <2>1, <2>2
<1>8. next > n => next = 2
  <2>1. ASSUME next > n, n # 1 PROVE FALSE
    <3>1. next - 1 = n /\ n \in 1..n
      BY <1>1, <1>5, <2>1
    <3>2. QED BY <1>1, <1>2, <1>4, <1>7, <2>1, <3>1
  <2>2. QED BY <1>1, <1>5, <2>1
<1>9. ASSUME NEW i \in next..(after - 1) PROVE start < p[i].time /\ p[i].time < time
  <2>1. i \in next..n /\ i \in 1..n /\ next \in 1..n /\ next <= i
    BY <1>1, <1>5, <1>6
  <2>2. p[i].time < time
    <3>1. i \notin ended
      BY <1>6
    <3>2. ~(p[i].time >= time)
      BY <2>1, <3>1
    <3>3. QED BY <1>1, <2>1, <3>2
  <2>3. p[next].time > start /\ p[next].time <= p[i].time
    BY <1>5, <2>1 DEF InOrderOfTime, n
  <2>4. QED BY <1>1, <1>2, <2>1, <2>2, <2>3
<1>10. after <= n => time <= p[after].time
  <2>1. ASSUME after <= n PROVE time <= p[after].time
    <3>1. after \in 1..n /\ p[after].time >= time
      BY <1>1, <1>5, <1>6, <2>1
    <3>2. QED BY <1>1, <3>1
  <2>2. QED BY <2>1
<1>11. QED BY <1>5, <1>6, <1>7, <1>8, <1>9, <1>10 DEF start, n, Surround

\* The energy of the record for an interval is that of the powers that held in it: the
\* sum over the entries has a piece for each of them, which holds from bound to bound.
LEMMA RecordedEnergyIsHeld ==
  ASSUME NEW p \in Seq(AnyEntry), InOrderOfTime(p), NEW time \in Nat, NEW dt \in Nat, dt <= time,
         Answerable(p, time, dt)
  PROVE  RecordedEnergy(p, time, dt) = Energy(p, time - dt, time)
<1> DEFINE start == time - dt
           held == [t \in start..(time - 1) |-> Held(p, t)]
<1>1. start \in Nat /\ start <= time /\ time - start = dt /\ start + dt - 1 = time - 1
  OBVIOUS
<1>2. Energy(p, start, time) = SumOf(held, start, dt)
  BY <1>1 DEF Energy
<1>3. CASE dt = 0
  <2>1. \A i \in start..(start + 0 - 1) : held[i] \in Int
    BY <1>1
  <2> HIDE DEF held
  <2>2. PICK s \in [0..0 -> Int] : IsSumUpTo(s, held, start, 0)
    <3>1. HasSum(held, start, 0)
      BY <1>1, <2>1, SumOfFacts
    <3>2. QED BY <3>1 DEF HasSum
  <2>3. SumOf(held, start, 0) = 0
    BY <2>2 DEF IsSumUpTo, IsSum
  <2>4. RecordedEnergy(p, time, dt) = 0
    BY <1>3 DEF RecordedEnergy
  <2>5. QED BY <1>2, <1>3, <2>3, <2>4
<1>4. CASE dt # 0
  <2> DEFINE next == FirstFrom(p, 2, LAMBDA t : t > time - dt)
             first == IF next > Len(p) THEN 1 ELSE next - 1
             after == FirstFrom(p, next, LAMBDA t : t >= time)
             Begin(j) == IF j = first THEN time - dt ELSE p[j].time
             End(j) == IF j = after - 1 THEN time ELSE p[j + 1].time
             share == [j \in first..(after - 1) |-> p[j].value * (End(j) - Begin(j))]
             n == after - first
             bound == [k \in 0..n |-> IF k = 0 THEN start ELSE IF k = n THEN time ELSE p[first + k].time]
             value == [k \in 1..n |-> p[first + k - 1].value]
  <2>1. RecordedEnergy(p, time, dt) = SumOf(share, first, n)
    BY <1>4 DEF RecordedEnergy
  <2> HIDE DEF start
  <2>0. /\ next = Min({i \in 2..Len(p) : p[i].time > time - dt} \cup {Len(p) + 1})
        /\ after = Min({i \in next..Len(p) : p[i].time >= time} \cup {Len(p) + 1})
    BY DEF FirstFrom
  <2> HIDE DEF next, after
  <2>2. /\ next \in 2..(Len(p) + 1) /\ after \in next..(Len(p) + 1)
        /\ next > Len(p) => next = 2
        /\ p[next - 1].time <= start
        /\ \A i \in next..(after - 1) : start < p[i].time /\ p[i].time < time
        /\ after <= Len(p) => time <= p[after].time
    <3>1. dt \in Nat \ {0}
      BY <1>4
    <3>2. Surround(p, time, dt, next, after)
      BY <2>0, <3>1, SearchesOfRequest
    <3>3. QED BY <3>2 DEF Surround, start
  <2>3. Len(p) \in Nat /\ \A i \in 1..Len(p) : p[i].value \in Int /\ p[i].time \in Nat
    <3>1. Len(p) \in Nat /\ \A i \in 1..Len(p) : p[i] \in AnyEntry
      BY LenProperties, ElementOfSeq
    <3>2. \A e \in AnyEntry : e.value \in Int /\ e.time \in Nat
      BY DEF AnyEntry
    <3>3. QED BY <3>1, <3>2
  <2>4. first = next - 1 /\ first \in 1..Len(p) /\ n \in Nat \ {0} /\ first + n = after
    BY <2>2, <2>3
  <2>5. \A k \in 1..n : first + k - 1 \in 1..Len(p) /\ first + k - 1 \in first..(after - 1)
    BY <2>2, <2>3, <2>4
  <2>6. \A k \in 1..(n - 1) : first + k \in next..(after - 1) /\ first + k \in 1..Len(p)
    BY <2>2, <2>3, <2>4
  <2> HIDE DEF first, n
  <2>7. bound \in [0..n -> Nat] /\ bound[0] = start /\ bound[n] = time
        /\ \A k \in 1..(n - 1) : bound[k] = p[first + k].time
    <3>1. \A k \in 0..n : k = 0 \/ k = n \/ k \in 1..(n - 1)
      BY <2>4
    <3>2. \A k \in 1..(n - 1) : k \in 0..n /\ k # 0 /\ k # n
      BY <2>4
    <3>3. QED BY <1>1, <2>3, <2>4, <2>6, <3>1, <3>2, SMTT(30)
  <2>8. value \in [1..n -> Int] /\ \A k \in 1..n : value[k] = p[first + k - 1].value
    BY <2>3, <2>5
  <2>9. ASSUME NEW k \in 1..n
        PROVE  share[first + k - 1] = value[k] * (bound[k] - bound[k - 1])
    <3> DEFINE j == first + k - 1
    <3>1. j \in first..(after - 1) /\ share[j] = p[j].value * (End(j) - Begin(j)) /\ value[k] = p[j].value
      BY <2>5, <2>8
    <3>2. Begin(j) = bound[k - 1]
      <4>1. CASE k = 1
        BY <2>4, <2>7, <4>1 DEF start
      <4>2. CASE k # 1
        <5>1. k - 1 \in 1..(n - 1) /\ first + (k - 1) = j /\ j # first
          BY <2>4, <4>2
        <5>2. QED BY <2>7, <5>1
      <4>3. QED BY <4>1, <4>2
    <3>3. End(j) = bound[k]
      <4>1. CASE k = n
        BY <2>4, <2>7, <4>1
      <4>2. CASE k # n
        <5>1. k \in 1..(n - 1) /\ first + k = j + 1 /\ j # after - 1
          BY <2>2, <2>4, <4>2
        <5>2. QED BY <2>7, <5>1
      <4>3. QED BY <4>1, <4>2
    <3> HIDE DEF j, share, bound, value
    <3>4. share[j] = value[k] * (bound[k] - bound[k - 1])
      BY <3>1, <3>2, <3>3
    <3>5. QED BY <3>4 DEF j
  <2> HIDE DEF share, bound, value
  <2>10. \A k \in 1..n : bound[k - 1] <= bound[k]
    <3> TAKE k \in 1..n
    <3>1. bound[k - 1] = IF k = 1 THEN start ELSE p[first + (k - 1)].time
      <4>1. k # 1 => k - 1 \in 1..(n - 1)
        BY <2>4
      <4>2. k = 1 => k - 1 = 0
        OBVIOUS
      <4>3. QED BY <2>7, <4>1, <4>2
    <3>2. CASE k = n
      <4>1. CASE k = 1
        BY <1>1, <2>7, <3>1, <3>2, <4>1
      <4>2. CASE k # 1
        <5>1. k - 1 \in 1..(n - 1)
          BY <2>4, <4>2
        <5>2. p[first + (k - 1)].time < time /\ p[first + (k - 1)].time \in Nat
          BY <2>2, <2>3, <2>6, <5>1
        <5>3. QED BY <2>7, <3>1, <3>2, <4>2, <5>2
      <4>3. QED BY <4>1, <4>2
    <3>3. CASE k # n
      <4>1. k \in 1..(n - 1) /\ bound[k] = p[first + k].time /\ p[first + k].time \in Nat
            /\ start < p[first + k].time
        <5>1. k \in 1..(n - 1)
          BY <2>4, <3>3
        <5>2. QED BY <2>2, <2>3, <2>6, <2>7, <5>1
      <4>2. CASE k = 1
        BY <1>1, <3>1, <4>1, <4>2
      <4>3. CASE k # 1
        <5>1. k - 1 \in 1..(n - 1)
          BY <2>4, <4>3
        <5>2. first + (k - 1) \in 1..Len(p) /\ first + k \in 1..Len(p) /\ first + (k - 1) <= first + k
          BY <2>4, <2>6, <4>1, <5>1, SMTT(30)
        <5>3. p[first + (k - 1)].time <= p[first + k].time
          BY <5>2 DEF InOrderOfTime
        <5>4. QED BY <3>1, <4>1, <4>3, <5>3
      <4>4. QED BY <4>2, <4>3
    <3>4. QED BY <3>2, <3>3
  <2>11. ASSUME NEW k \in 1..n, NEW t \in bound[k - 1]..(bound[k] - 1)
         PROVE  Held(p, t) = value[k]
    <3> DEFINE m == first + k - 1
    <3>1. bound[k - 1] \in Nat /\ bound[k] \in Nat
      <4>1. k - 1 \in 0..n /\ k \in 0..n
        BY <2>4
      <4>2. QED BY <2>7, <4>1
    <3>2. t \in Nat /\ bound[k - 1] <= t /\ t < bound[k]
      BY <3>1
    <3>3. m \in 1..Len(p) /\ value[k] = p[m].value /\ m + 1 = first + k
      BY <2>4, <2>5, <2>8, SMTT(30)
    <3>4. p[m].time <= t
      <4>1. CASE k = 1
        <5>1. m = next - 1 /\ p[m].time <= bound[0] /\ k - 1 = 0
          BY <2>2, <2>4, <2>7, <4>1
        <5>2. QED BY <2>3, <3>1, <3>2, <3>3, <5>1
      <4>2. CASE k # 1
        <5>1. k - 1 \in 1..(n - 1) /\ first + (k - 1) = m
          BY <2>4, <4>2
        <5>2. bound[k - 1] = p[m].time
          BY <2>7, <5>1
        <5>3. QED BY <3>2, <5>2
      <4>3. QED BY <4>1, <4>2
    <3>5. m + 1 <= Len(p) => t < p[m + 1].time
      <4>1. CASE k = n
        <5>1. m + 1 = after /\ bound[k] = time
          BY <2>4, <2>7, <3>3, <4>1
        <5>2. ASSUME m + 1 <= Len(p) PROVE t < p[m + 1].time
          <6>1. m + 1 \in 1..Len(p)
            BY <2>3, <3>3, <5>2
          <6>2. time <= p[m + 1].time /\ p[m + 1].time \in Nat
            BY <2>2, <2>3, <5>1, <5>2, <6>1
          <6>3. QED BY <3>2, <5>1, <6>2
        <5>3. QED BY <5>2
      <4>2. CASE k # n
        <5>1. k \in 1..(n - 1)
          BY <2>4, <4>2
        <5>2. bound[k] = p[m + 1].time
          BY <2>7, <3>3, <5>1
        <5>3. QED BY <3>2, <5>2
      <4>3. QED BY <4>1, <4>2
    <3> HIDE DEF m
    <3>6. \A i \in 1..Len(p) : p[i].time <= t <=> i <= m
      <4> TAKE i \in 1..Len(p)
      <4>1. CASE i <= m
        <5>1. p[i].time <= p[m].time
          BY <3>3, <4>1 DEF InOrderOfTime
        <5>2. QED BY <2>3, <3>2, <3>3, <3>4, <4>1, <5>1
      <4>2. CASE ~(i <= m)
        <5>1. m + 1 \in 1..Len(p) /\ m + 1 <= i
          BY <2>3, <3>3, <4>2
        <5>2. p[m + 1].time <= p[i].time
          BY <5>1 DEF InOrderOfTime
        <5>3. QED BY <2>3, <3>2, <3>5, <4>2, <5>1, <5>2
      <4>3. QED BY <4>1, <4>2
    <3>7. Held(p, t) = p[m].value
      BY <3>2, <3>3, <3>6, HeldAt
    <3>8. QED BY <3>3, <3>7
  <2>12. \A k \in 1..n : \A t \in bound[k - 1]..(bound[k] - 1) : t \in start..(time - 1)
    <3> TAKE k \in 1..n
    <3>1. start <= bound[k - 1]
      <4>1. CASE k = 1
        BY <1>1, <2>7, <4>1
      <4>2. CASE k # 1
        <5>1. k - 1 \in 1..(n - 1)
          BY <2>4, <4>2
        <5>2. start < p[first + (k - 1)].time /\ p[first + (k - 1)].time \in Nat
          BY <2>2, <2>3, <2>6, <5>1
        <5>3. QED BY <1>1, <2>7, <5>1, <5>2
      <4>3. QED BY <4>1, <4>2
    <3>2. bound[k] <= time
      <4>1. CASE k = n
        BY <2>7, <4>1
      <4>2. CASE k # n
        <5>1. k \in 1..(n - 1)
          BY <2>4, <4>2
        <5>2. p[first + k].time < time /\ p[first + k].time \in Nat
          BY <2>2, <2>3, <2>6, <5>1
        <5>3. QED BY <2>7, <5>1, <5>2
      <4>3. QED BY <4>1, <4>2
    <3>3. k - 1 \in 0..n /\ k \in 0..n
      BY <2>4
    <3>4. bound[k - 1] \in Nat /\ bound[k] \in Nat
      BY <2>7, <3>3
    <3>5. QED BY <1>1, <3>1, <3>2, <3>4
  <2>13. \A k \in 1..n : \A t \in bound[k - 1]..(bound[k] - 1) : held[t] = value[k]
    BY <2>11, <2>12
  <2>14. \A t \in start..(start + dt - 1) : held[t] \in Int
    <3> TAKE t \in start..(start + dt - 1)
    <3>1. t \in start..(time - 1) /\ t \in Nat /\ start <= t
      BY <1>1
    <3>2. PICK m \in 1..Len(p) : \A i \in 1..Len(p) : p[i].time <= t <=> i <= m
      <4> DEFINE later == {i \in 1..Len(p) : p[i].time > t}
                 k == Min(later \cup {Len(p) + 1})
      <4>1. k \in 1..(Len(p) + 1) /\ (k <= Len(p) => k \in later) /\ \A i \in 1..(k - 1) : i \notin later
        <5>1. later \subseteq 1..Len(p) /\ 1 \in 1..(Len(p) + 1)
          BY <2>3
        <5>2. k = Min(later \cup {Len(p) + 1})
          OBVIOUS
        <5> HIDE DEF later, k
        <5>3. IsFirst(k, 1, Len(p), later)
          BY <2>3, <5>1, <5>2, FirstMatch
        <5>4. QED BY <5>3 DEF IsFirst
      <4> HIDE DEF k
      <4>2. 1 \in 1..Len(p) /\ p[1].time <= t
        <5>1. 1 \in 1..Len(p) /\ p[1].time <= start
          BY <2>3, <2>4 DEF Answerable, start
        <5>2. QED BY <1>1, <2>3, <3>1, <5>1
      <4>3. k - 1 \in 1..Len(p)
        <5>1. k # 1
          <6>1. 1 \notin later
            BY <2>3, <3>1, <4>2
          <6>2. QED BY <2>3, <4>1, <4>2, <6>1
        <5>2. QED BY <2>3, <4>1, <5>1
      <4>4. \A i \in 1..Len(p) : p[i].time <= t <=> i <= k - 1
        <5> TAKE i \in 1..Len(p)
        <5>1. CASE i <= k - 1
          <6>1. i \notin later
            BY <4>1, <4>3, <5>1
          <6>2. QED BY <2>3, <3>1, <5>1, <6>1
        <5>2. CASE ~(i <= k - 1)
          <6>1. k \in 1..Len(p) /\ k <= i /\ p[k].time > t
            BY <2>3, <4>1, <4>3, <5>2
          <6>2. p[k].time <= p[i].time
            BY <6>1 DEF InOrderOfTime
          <6>3. QED BY <2>3, <3>1, <5>2, <6>1, <6>2
        <5>3. QED BY <5>1, <5>2
      <4>5. QED BY <4>3, <4>4
    <3>3. Held(p, t) = p[m].value
      BY <3>1, <3>2, HeldAt
    <3>4. QED BY <2>3, <3>1, <3>3
  <2> HIDE DEF held
  <2>15. PICK s \in [0..dt -> Int] : IsSum(s, held, start, dt) /\ SumOf(held, start, dt) = s[dt]
    <3>1. HasSum(held, start, dt)
      BY <1>1, <2>14, SumOfFacts
    <3>2. QED BY <3>1 DEF HasSum, IsSumUpTo
  <2>16. \A i \in first..(first + n - 1) : share[i] \in Int
    <3> TAKE i \in first..(first + n - 1)
    <3> DEFINE k == i - first + 1
    <3>1. k \in 1..n /\ first + k - 1 = i /\ k \in 0..n /\ k - 1 \in 0..n
      BY <2>4, SMTT(30)
    <3> HIDE DEF k
    <3>2. value[k] \in Int /\ bound[k] \in Int /\ bound[k - 1] \in Int
      BY <2>7, <2>8, <3>1, SMTT(30)
    <3>3. share[i] = value[k] * (bound[k] - bound[k - 1])
      BY <2>9, <3>1
    <3>4. QED BY <3>2, <3>3
  <2>17. PICK r \in [0..n -> Int] : IsSum(r, share, first, n) /\ SumOf(share, first, n) = r[n]
    <3>1. n \in Nat /\ first \in Nat
      BY <2>4
    <3>2. HasSum(share, first, n)
      BY <2>16, <3>1, SumOfFacts
    <3>3. QED BY <3>2 DEF HasSum, IsSumUpTo
  <2>18. r[n] = s[dt]
    <3>1. n \in Nat /\ first \in Nat /\ dt = bound[n] - bound[0] /\ IsSum(s, held, bound[0], dt)
      BY <1>1, <2>4, <2>7, <2>15
    <3>2. InPieces(held, n, bound, value)
      BY <2>10, <2>13 DEF InPieces
    <3>3. AreShares(share, first, n, bound, value)
      BY <2>9 DEF AreShares
    <3>4. SameTotal(r, n, s, dt)
      BY <2>7, <2>8, <2>17, <3>1, <3>2, <3>3, SumOfPieces
    <3>5. QED BY <3>4 DEF SameTotal
  <2>19. QED BY <1>2, <2>1, <2>15, <2>17, <2>18 DEF start
<1>5. QED BY <1>3, <1>4

\* The heat handed to the thermal simulation is that of the powers that held, for every
\* record and every interval that the record reaches.
THEOREM AverageIsExact == Spec => []AverageOfHeldValues
<1>1. ASSUME RecordInv PROVE AverageOfHeldValues
  <2> DEFINE p == mPowerDissipations
  <2>1. SUFFICES ASSUME NEW r \in Request, p # <<>>, Accepts(r[1], r[2]),
                        r[1] - r[2] < LastTime \/ Len(p) = 1
                 PROVE  EnergyTaken(r[1], r[2]) = Energy(p, r[1] - r[2], r[1])
    BY DEF AverageOfHeldValues
  <2>2. r[1] \in Nat /\ r[2] \in Nat /\ r[2] <= r[1]
    BY EntryFacts DEF Request
  <2>3. p \in Seq(AnyEntry) /\ \A i \in 1..Len(p) : p[i].time \in Nat
    <3>1. Len(p) \in Nat /\ \A i \in 1..Len(p) : p[i] \in AnyEntry /\ p[i].time \in Nat
      BY <1>1, EntryFacts, RecordFacts DEF RecordInv
    <3>2. p \in Seq(Entry)
      BY <1>1 DEF RecordInv, TypeOK
    <3>3. QED BY <3>1, <3>2
  <2>4. InOrderOfTime(p)
    BY <1>1 DEF RecordInv, Ascending, InOrderOfTime
  <2>5. Answerable(p, r[1], r[2])
    <3>1. 1 \in 1..Len(p)
      BY <2>1, <2>3, EmptySeq
    <3>2. p[1].time <= r[1] - r[2]
      BY <2>1, <2>2, <2>3, <3>1 DEF Accepts
    <3>3. LastTime = Last(p).time
      BY <2>1 DEF LastTime
    <3>4. QED BY <2>1, <3>2, <3>3 DEF Answerable
  <2>6. EnergyTaken(r[1], r[2]) = RecordedEnergy(p, r[1], r[2])
    BY <2>1 DEF EnergyTaken
  <2>7. QED BY <2>2, <2>3, <2>4, <2>5, <2>6, RecordedEnergyIsHeld
<1>2. QED BY <1>1, RecordInvariant, PTL
=============================================================================
