\* Two configurations applied in any order by four operations; two failures or kills.
SPECIFICATION Spec
CONSTANTS
  Bodies = {b1, b2}
  Edited = edited
  Unprivileged = TRUE
  OriginalAccess = {"group"}
  Administrator = TRUE
  SyncFails = TRUE
  Retention = 2
  MaxOps = 4
  MaxFaults = 2
  MaxEdits = 1
  MaxTime = 1
  NoFile = NoFile
  Stopped = Stopped
INVARIANTS
  Readable
  ReportedRestored
  EmergencyRestores
PROPERTIES
  ForeignKept
