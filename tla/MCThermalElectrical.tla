-------------------------- MODULE MCThermalElectrical --------------------------
(* Profiles and options for ThermalElectrical. *)
EXTENDS ThermalElectrical

Line(t, v) == [time |-> t, value |-> v]

TwoCycles ==
  [stream |-> <<Line(0, 1), Line(3, -1), Line(4, 0)>>,
   type |-> "current", limits |-> FALSE, cycles |-> 2, rates |-> {1, 2}]

\* the pause is shorter than what a skip leaves of the segment before it
PauseUnderLimits ==
  [stream |-> <<Line(0, 1), Line(4, 0), Line(6, -1), Line(8, 0)>>,
   type |-> "power", limits |-> TRUE, cycles |-> 1, rates |-> {1}]

MCOptions == {TwoCycles, PauseUnderLimits}
MCOneCycle == {[TwoCycles EXCEPT !.cycles = 1]}
=============================================================================
