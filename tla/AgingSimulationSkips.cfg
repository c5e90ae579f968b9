\* One profile with segments that may be skipped, and one steady state cycle.
CONSTANTS
  Options <- MCUnderLimits
  SocSamples = {0}
  mVoltageLimitDelay = 1
  mMaxSimulationStepDuration = 2
  Infinity = 1000
  MaxTime = 30
SPECIFICATION AgingSpec
INVARIANT TimestepIsTotalCalculationTime
