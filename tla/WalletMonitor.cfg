\* Finding: the monitor does not look at the finalization row.
SPECIFICATION Spec
CONSTANTS
  Kinds = {"finalization"}
  Processes = {p1}
  MaxUp = 1
  Threads = 2
  MaxJobs = 2
  Monitors = TRUE
  LegacyKinds = {}
  MaxCrashes = 0
  MaxStalls = 0
  MaxDbFaults = 0
  NoProcess = NoProcess
INVARIANTS AcceptanceIsExclusive
CHECK_DEADLOCK FALSE
