\* A write that reports an error after its rename.
SPECIFICATION Spec
CONSTANTS
  Ids = {sub}
  Remote = {sub}
  Immutable = {}
  Clients = {c1}
  MaxVersion = 2
  MaxRev = 2
  Faults = {"late"}
  MaxFaults = 1
  NoProfile = NoProfile
  NoJob = NoJob
  Idle = Idle
  NoCheckpoint = NoCheckpoint
  Pending = Pending
  NotModified = NotModified
PROPERTIES
  CommitAtomic
