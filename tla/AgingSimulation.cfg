\* Short profiles with and without steady state cycles and voltage limits, and one longer
\* than the aging step; up to five samples of three charges hold full and half cycles.
CONSTANTS
  Options <- MCOptions
  SocSamples = {0, 1, 2}
  mVoltageLimitDelay = 1
  mMaxSimulationStepDuration = 2
  Infinity = 1000
  MaxTime = 16
SPECIFICATION FairAgingSpec
INVARIANTS
  EverySecondAgesOnce
  SamplesInOrder
  CyclesStandForTheCharge
  AgingStepsInTime
PROPERTIES
  AgingTerminates
