--------------------------- MODULE MCAgingSimulation ---------------------------
(* Profiles and options for AgingSimulation. *)
EXTENDS AgingSimulation

Line(t, v) == [time |-> t, value |-> v]

\* one steady state cycle and one with data, two aging steps
SteadyState ==
  [stream |-> <<Line(0, 1), Line(2, 0)>>, type |-> "current", limits |-> FALSE, cycles |-> 2, rates |-> {0},
   mAgingStepTime |-> 5, mAgingSteps |-> 2, mSteadyStateCycles |-> 1, mResetThElStates |-> TRUE]

\* one cycle that is long enough for full cycles of the charge
LongCycle ==
  [stream |-> <<Line(0, 1), Line(5, 0)>>, type |-> "current", limits |-> FALSE, cycles |-> 1, rates |-> {0},
   mAgingStepTime |-> 6, mAgingSteps |-> 1, mSteadyStateCycles |-> 0, mResetThElStates |-> TRUE]

\* longer than an aging step; the cycles and steps do not count
LongProfile ==
  [stream |-> <<Line(0, 1), Line(2, -1), Line(5, 0)>>, type |-> "current", limits |-> FALSE, cycles |-> 2,
   rates |-> {0}, mAgingStepTime |-> 2, mAgingSteps |-> 1, mSteadyStateCycles |-> 1, mResetThElStates |-> FALSE]

\* segments may be skipped
UnderLimits ==
  [stream |-> <<Line(0, 1), Line(3, 0)>>, type |-> "current", limits |-> TRUE, cycles |-> 2, rates |-> {0},
   mAgingStepTime |-> 7, mAgingSteps |-> 2, mSteadyStateCycles |-> 1, mResetThElStates |-> FALSE]

MCOptions == {SteadyState, LongCycle, LongProfile, UnderLimits}
MCUnderLimits == {UnderLimits}
===============================================================================
