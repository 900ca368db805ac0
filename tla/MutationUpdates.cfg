\* Bulk updates of a managed machine; two crashes or failed rollbacks.
SPECIFICATION ManagedSpec
CONSTANTS
  Procs = {timer}
  Profiles = {system, sub, spare}
  Sys = system
  MaxVersion = 2
  Fields = {mode}
  Values = {0}
  Controllers = {c1}
  NoController = NoController
  NoProfile = NoProfile
  NoState = NoState
  NoPublic = NoPublic
  NoClient = NoClient
  Stopped = Stopped
  BatchSize = 2
  MaxTargets = 2
  MaxOps = 2
  MaxFaults = 2
  Nobody = Nobody
  NoCheckpoint = NoCheckpoint
  InUse = sub
INVARIANTS
  Repairable
PROPERTIES
  FailureRestores
  AbsSteps
CHECK_DEADLOCK FALSE
