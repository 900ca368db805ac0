\* A traffic stream of five samples, a request with three passwords, a status
\* with three disturbances.
SPECIFICATION ProcessSpec
CONSTANTS
  Guarded = TRUE
  Timeout = 3
  Capacity = 2
  MaxItems = 5
  MaxTries = 3
  MaxChanges = 3
INVARIANTS
  NoFalseAlarm
  RightError
  PerformedOnce
  Honest
  StatusTrue
  VersionOwned
PROPERTIES
  Releases
CHECK_DEADLOCK FALSE
