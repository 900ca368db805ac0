\* One remote profile that two clients refresh; two kills or clean failures.
SPECIFICATION Spec
CONSTANTS
  Ids = {sub}
  Remote = {sub}
  Immutable = {}
  Clients = {c1, c2}
  MaxVersion = 3
  MaxRev = 3
  Faults = {"kill", "error"}
  MaxFaults = 2
  NoProfile = NoProfile
  NoJob = NoJob
  Idle = Idle
  NoCheckpoint = NoCheckpoint
  Pending = Pending
  NotModified = NotModified
INVARIANTS
  RefreshHeals
PROPERTIES
  NoDowngrade
  CommitAtomic
