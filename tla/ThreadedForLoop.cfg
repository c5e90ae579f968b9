\* Three threads and up to seven iterations: fewer iterations than threads, as
\* many, and more than a multiple of them.
CONSTANTS
  NumberOfThreads = 3
  MaxLoops = 7
  MaxCalls = 2
SPECIFICATION FairSpec
INVARIANTS
  TypeOK
  ExactlyOnce
  PoolAtRest
PROPERTIES
  CallsReturn
