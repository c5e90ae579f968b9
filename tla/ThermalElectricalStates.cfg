CONSTANTS
  Options <- MCOneCycle
  mVoltageLimitDelay = 1
  mMaxSimulationStepDuration = 2
  Infinity = 1000
  MaxTime = 8
SPECIFICATION Spec
INVARIANT StatesOfSurvivingRun
