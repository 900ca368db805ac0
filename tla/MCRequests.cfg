\* The status and two pages; a service that runs, stops, does not answer or cannot be
\* seen; one operation.
SPECIFICATION ScreenSpec
CONSTANTS
  Pages = {"groups", "profiles"}
  RuntimePages = {"groups"}
  Services = {"running", "stopped", "unreachable", "unknown"}
  MaxWorld = 2
  MaxOps = 1
  MaxStale = 1
INVARIANTS
  Quiet
PROPERTIES
  NeverOlder
  Converges
  Surfaces
