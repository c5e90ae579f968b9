\* Profiles of up to four values; the clock covers three cycles of the longest one.
CONSTANTS
  Streams <- MCStreams
  Indeterminate = {}
  Infinity = 1000
  MaxTime = 12
SPECIFICATION Spec
INVARIANTS
  EvaluatesTheProfile
  RestKeepsItsDurations
PROPERTY NextCycleFollows
