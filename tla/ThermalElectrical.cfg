\* A current profile twice, and a power profile with a pause under voltage limits; an
\* electrical step of two time units is long enough for a rollback between two samples.
CONSTANTS
  Options <- MCOptions
  mVoltageLimitDelay = 1
  mMaxSimulationStepDuration = 2
  Infinity = 1000
  MaxTime = 10
SPECIFICATION FairSpec
INVARIANTS
  TypeOK
  NeverThrows
  SocOfSurvivingRun
  ProfileFollowed
PROPERTIES
  SourceOfSurvivingRun
  ImplementsCoSimulation
  Terminates
