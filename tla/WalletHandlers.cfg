\* Finding: two handlers, in two processes, read each other's row before either claims.
SPECIFICATION Spec
CONSTANTS
  Kinds = {"finalization", "outgoing"}
  Processes = {p1, p2}
  MaxUp = 2
  Threads = 1
  MaxJobs = 2
  Monitors = FALSE
  LegacyKinds = {}
  MaxCrashes = 0
  MaxStalls = 0
  MaxDbFaults = 0
  NoProcess = NoProcess
INVARIANTS NoCompetingMutations
CHECK_DEADLOCK FALSE
