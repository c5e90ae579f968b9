\* Three worker processes in two groups, two cycles, then the stop.
CONSTANTS
  NumberOfTasks = 2
  TaskMin <- MCTaskMin
  TaskMax <- MCTaskMax
  SystemThreadCount = 3
  SizeT = 16
  MaxLimit = 3
  MaxTotal = 8
  MaxCycle = 2
SPECIFICATION FairSpec
INVARIANTS
  TypeOK
  AssignmentWithinLimits
  NoMessageLeftOver
  UseSeesThisCycle
PROPERTIES
  ImplementsForkJoin
  CallsReturn
