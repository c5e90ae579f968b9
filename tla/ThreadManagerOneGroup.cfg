\* The use of performTest in benchmark/frameworkBenchmark.cpp: one group, two tasks.
CONSTANTS
  NumberOfGroups = 1
  NumberOfTasks = 2
  NumberOfWorkers = 3
  GroupOf <- OneGroupOf
  Assigned <- OneGroupAssigned
  TaskMax <- OneGroupTaskMax
  StopAtConstruction = {FALSE}
  MaxCycle = 2
SPECIFICATION FairSpec
INVARIANTS
  TypeOK
  NoDataRace
  UseSeesThisCycle
  ReadyMeansFinished
  FlagsOfThisCycle
PROPERTIES
  OptionalWorkNotCutShort
  ImplementsForkJoin
  CallsReturn
