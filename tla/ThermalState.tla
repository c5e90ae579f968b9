----------------------------- MODULE ThermalState -----------------------------
(***************************************************************************)
(* src/src/state/thermal_state.h: the heat a cell generates, recorded by   *)
(* the electrical simulation and asked for by the thermal one.             *)
(*                                                                         *)
(* An entry of the record holds from its time to the time of the next.     *)
(* GetPowerDissipation( time, dt ) returns the average over the interval   *)
(* that ends at time; EnergyTaken is that average times dt, an integer.    *)
(* Times and powers are integers.  The temperature of the state does not   *)
(* depend on the record and is left out.                                   *)
(***************************************************************************)
EXTENDS Integers, Sequences, SequencesExt, FiniteSetsExt

CONSTANTS
  MaxTime,    \* bound: latest time of an entry or a request
  MaxEntries, \* bound: entries of the record
  Power       \* values of an entry

ASSUME ConstantsAssumption ==
  /\ MaxTime \in Nat
  /\ MaxEntries \in Nat \ {0}
  /\ Power \subseteq Int /\ 0 \in Power

VARIABLES mPowerDissipations, mFixedPowerDissipation

vars == <<mPowerDissipations, mFixedPowerDissipation>>

Time == 0..MaxTime
Entry == [value : Power, time : Time]

Init ==
  /\ mPowerDissipations = <<[value |-> 0, time |-> 0]>>
  /\ mFixedPowerDissipation = 0

\* mutant: the arguments are swapped
AddSwapped(value, time) ==
  /\ mPowerDissipations' = Append(mPowerDissipations, [value |-> time, time |-> value])
  /\ UNCHANGED mFixedPowerDissipation

AddPowerDissipation(value, time) ==
  /\ mPowerDissipations' = Append(mPowerDissipations, [value |-> value, time |-> time])
  /\ UNCHANGED mFixedPowerDissipation

\* mutant: the first entry is kept, not the last
ResetKeepsFirst ==
  /\ mPowerDissipations' = IF mPowerDissipations = <<>> THEN <<>> ELSE <<Head(mPowerDissipations)>>
  /\ UNCHANGED mFixedPowerDissipation

ResetPowerDissipation ==
  /\ mPowerDissipations' = IF mPowerDissipations = <<>> THEN <<>> ELSE <<Last(mPowerDissipations)>>
  /\ UNCHANGED mFixedPowerDissipation

\* mutant: the entry at the time of the reset goes, too
ResetToTimeInclusive(time) ==
  LET behind == {i \in DOMAIN mPowerDissipations : mPowerDissipations[i].time >= time}
  IN /\ mPowerDissipations' = IF behind = {} THEN mPowerDissipations
                              ELSE SubSeq(mPowerDissipations, 1, Min(behind) - 1)
     /\ UNCHANGED mFixedPowerDissipation

\* everything from the first entry behind time is erased
ResetPowerDissipationToTime(time) ==
  LET behind == {i \in DOMAIN mPowerDissipations : mPowerDissipations[i].time > time}
  IN /\ mPowerDissipations' = IF behind = {} THEN mPowerDissipations
                              ELSE SubSeq(mPowerDissipations, 1, Min(behind) - 1)
     /\ UNCHANGED mFixedPowerDissipation

SetFixedPowerDissipation(value) ==
  /\ mPowerDissipations' = <<>>
  /\ mFixedPowerDissipation' = value

-----------------------------------------------------------------------------
(* GetPowerDissipation *)

\* A request that starts before the first entry throws.
Accepts(time, dt) ==
  mPowerDissipations # <<>> => time - dt >= mPowerDissipations[1].time

\* the first position from..Len(p) that Matches, or Len(p) + 1
FirstFrom(p, from, Matches(_)) ==
  Min({i \in from..Len(p) : Matches(p[i].time)} \cup {Len(p) + 1})

\* count values of f, from the first one on
SumOf(f, first, count) ==
  LET sum[k \in 0..count] == IF k = 0 THEN 0 ELSE sum[k - 1] + f[first + k - 1]
  IN sum[count]

\* mutant: the sum begins with the first entry behind the start of the interval
RecordedEnergyShifted(p, time, dt) ==
  LET next   == FirstFrom(p, 2, LAMBDA t : t > time - dt)
      before == IF next > Len(p) THEN 1 ELSE next
      after  == FirstFrom(p, next, LAMBDA t : t >= time)
      Start(j) == IF j = before THEN time - dt ELSE p[j].time
      End(j)   == IF j = after - 1 THEN time ELSE p[j + 1].time
      Share == [j \in before..(after - 1) |-> p[j].value * (End(j) - Start(j))]
  IN IF dt = 0 THEN 0 ELSE SumOf(Share, before, after - before)

\* next: the first entry behind the start of the interval; if there is none,
\* indexBeforeTimeMinusDt keeps its initial value, the first entry.
RecordedEnergy(p, time, dt) ==
  LET next   == FirstFrom(p, 2, LAMBDA t : t > time - dt)
      before == IF next > Len(p) THEN 1 ELSE next - 1
      after  == FirstFrom(p, next, LAMBDA t : t >= time)
      Start(j) == IF j = before THEN time - dt ELSE p[j].time
      End(j)   == IF j = after - 1 THEN time ELSE p[j + 1].time
      Share == [j \in before..(after - 1) |-> p[j].value * (End(j) - Start(j))]
  IN IF dt = 0 THEN 0 ELSE SumOf(Share, before, after - before)

EnergyTaken(time, dt) ==
  IF mPowerDissipations = <<>> THEN mFixedPowerDissipation * dt
  ELSE RecordedEnergy(mPowerDissipations, time, dt)

-----------------------------------------------------------------------------
(* The simulations as callers: entries come in the order of time, and a    *)
(* reset to a time lets the next ones come earlier again.                  *)

LastTime == IF mPowerDissipations = <<>> THEN 0
            ELSE Last(mPowerDissipations).time

CallAdd ==
  /\ Len(mPowerDissipations) < MaxEntries
  /\ \E value \in Power, time \in LastTime..MaxTime : AddPowerDissipation(value, time)

CallResetToTime == \E time \in Time : ResetPowerDissipationToTime(time)

CallSetFixed == \E value \in Power : SetFixedPowerDissipation(value)

Next == CallAdd \/ ResetPowerDissipation \/ CallResetToTime \/ CallSetFixed

Spec == Init /\ [][Next]_vars

-----------------------------------------------------------------------------
(* Properties *)

\* Every variable holds a value of its type.
TypeOK ==
  /\ mPowerDissipations \in Seq(Entry)
  /\ Len(mPowerDissipations) <= MaxEntries
  /\ mFixedPowerDissipation \in Power

\* the power that holds at time: that of the last entry not behind it
Held(p, time) == p[Max({i \in DOMAIN p : p[i].time <= time})].value

\* the energy of the interval start..end by definition, one time unit at a time
Energy(p, start, end) == SumOf([t \in start..(end - 1) |-> Held(p, t)], start, end - start)

Request == {r \in Time \X Time : r[2] <= r[1]}

\* The heat handed to the thermal simulation is the average of the power that
\* held in the interval, wherever its ends fall between the entries: the two
\* index searches neither lose nor repeat a part of it.  Left out are requests
\* that start at or behind the last of several entries: the first search then finds
\* nothing, and a part of the first entry is counted with a negative duration.
\* The coupled simulation never makes one (RecordNotOutrun).
AverageOfHeldValues ==
  \A r \in Request :
    LET time == r[1]
        dt == r[2]
    IN /\ mPowerDissipations # <<>>
       /\ Accepts(time, dt)
       /\ time - dt < LastTime \/ Len(mPowerDissipations) = 1
       => EnergyTaken(time, dt) = Energy(mPowerDissipations, time - dt, time)

\* A reset to a time, which undoes electrical steps, leaves the heat up to that
\* time as it was, and the power that holds at that time holds on behind it.
ResetToTimeKeepsThePast ==
  [][\A time \in Time :
       /\ ResetPowerDissipationToTime(time)
       /\ mPowerDissipations # <<>> /\ mPowerDissipations[1].time <= time
       => /\ mPowerDissipations' # <<>>
          /\ \A t \in Time : mPowerDissipations[1].time <= t =>
               Held(mPowerDissipations', t) = Held(mPowerDissipations, IF t < time THEN t ELSE time)]_vars

\* Starting a new electrical step forgets nothing that can still hold: the
\* record answers for every time from its last entry on as before.
ResetKeepsTheLast ==
  [][ResetPowerDissipation /\ mPowerDissipations # <<>>
       => \A t \in Time : LastTime <= t =>
            /\ mPowerDissipations'[1].time <= t
            /\ Held(mPowerDissipations', t) = Held(mPowerDissipations, t)]_vars

\* Neither of the two resets loses heat that can still be asked for.
ResetsKeepWhatHolds == ResetToTimeKeepsThePast /\ ResetKeepsTheLast
=============================================================================
