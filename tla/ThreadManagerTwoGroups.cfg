\* Two task groups; the second one has a worker that does not skip its task.
CONSTANTS
  NumberOfGroups = 2
  NumberOfTasks = 1
  NumberOfWorkers = 3
  GroupOf <- TwoGroupOf
  Assigned <- TwoGroupAssigned
  TaskMax <- TwoGroupTaskMax
  StopAtConstruction = {FALSE}
  MaxCycle = 2
SPECIFICATION Spec
INVARIANT OnlyPreparedInput
CHECK_DEADLOCK FALSE
