\* Up to three entries at up to five times: every placement of the ends of an interval
\* between, on and behind the entries.
CONSTANTS
  MaxTime = 4
  MaxEntries = 3
  Power = {0, 1, 3}
SPECIFICATION Spec

  
PROPERTIES
  ResetsKeepWhatHolds
