\* Full files of two and of two samples, a decimation in between, rollbacks, two aging steps.
CONSTANTS
  Filters <- MCFilters
  DefaultFilters <- MCDefaultFilters
  NumberOfElements = 2
  Rows <- MCRows
  mMaxSimulationStepDuration = 4
  MaxTime = 5
  MaxSamples = 6
  MaxAgingSteps = 2
SPECIFICATION Spec
INVARIANTS
  TypeOK
  NothingLost
  DecimatedOutput
  RowsMatchTimes
  FilesBounded
CHECK_DEADLOCK FALSE
