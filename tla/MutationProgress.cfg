\* Competing operations of two processes on a managed machine: memory, updates, progress.
SPECIFICATION ManagedFairSpec
CONSTANTS
  Procs = {alice, timer}
  Profiles = {system, sub}
  Sys = system
  MaxVersion = 1
  Fields = {mode, tun}
  Values = {0, 1}
  Controllers = {c1}
  NoController = NoController
  NoProfile = NoProfile
  NoState = NoState
  NoPublic = NoPublic
  NoClient = NoClient
  Stopped = Stopped
  BatchSize = 1
  MaxTargets = 2
  MaxOps = 2
  MaxFaults = 1
  Nobody = Nobody
  NoCheckpoint = NoCheckpoint
  InUse = sub
INVARIANTS
  FreshMemory
PROPERTIES
  NoLostUpdate
  Admission
CHECK_DEADLOCK FALSE
