\* A remote profile and a recovery snapshot, one client; any single fault.
SPECIFICATION Spec
CONSTANTS
  Ids = {sub, snap}
  Remote = {sub}
  Immutable = {snap}
  Clients = {c1}
  MaxVersion = 2
  MaxRev = 2
  Faults = {"kill", "error", "late"}
  MaxFaults = 1
  NoProfile = NoProfile
  NoJob = NoJob
  Idle = Idle
  NoCheckpoint = NoCheckpoint
  Pending = Pending
  NotModified = NotModified
INVARIANTS
  Loadable
  Served
PROPERTIES
  RestoreComplete
