\* The life of an installation from before init; one crash or failed rollback.
SPECIFICATION Spec
CONSTANTS
  Procs = {alice, timer}
  Profiles = {system, sub}
  Sys = system
  MaxVersion = 2
  Fields = {mode}
  Values = {0, 1}
  Controllers = {c1}
  NoController = NoController
  NoProfile = NoProfile
  NoState = NoState
  NoPublic = NoPublic
  NoClient = NoClient
  Stopped = Stopped
  BatchSize = 1
  MaxTargets = 2
  MaxOps = 4
  MaxFaults = 1
  Nobody = Nobody
  NoCheckpoint = NoCheckpoint
  InUse = sub
SYMMETRY Symmetry
INVARIANTS
  Exclusive
  Agreement
PROPERTIES
  AbsSpec
CHECK_DEADLOCK FALSE
