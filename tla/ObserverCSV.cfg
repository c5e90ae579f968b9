\* A CSV filter over two aging steps.
CONSTANTS
  Filters <- MCCSVFilters
  DefaultFilters <- MCDefaultFilters
  NumberOfElements = 2
  Rows <- MCRows
  mMaxSimulationStepDuration = 2
  MaxTime = 3
  MaxSamples = 4
  MaxAgingSteps = 2
SPECIFICATION Spec
INVARIANT CSVNothingLost
CHECK_DEADLOCK FALSE
