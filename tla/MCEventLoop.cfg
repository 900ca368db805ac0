\* Three attempts at operations, two language changes, sudo; either stream with one
\* dropped connection, one forced restart, one operation.
SPECIFICATION LoopSpec
CONSTANTS
  MaxAttempts = 3
  Elevates = TRUE
  MaxLanguage = 2
  MaxFails = 1
  MaxForced = 1
  MaxStops = 1
INVARIANTS
  QuitWaits
  ObserversResume
  NoStray
PROPERTIES
  QuitEnds
  Settles
  Reconnects
CHECK_DEADLOCK FALSE
