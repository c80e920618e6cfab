\* A stop and a crash; every kind of row, one of them left by an older version.
SPECIFICATION FairSpec
CONSTANTS
  Kinds = {"deposit", "receive"}
  Processes = {p1, p2}
  MaxUp = 2
  Threads = 1
  MaxJobs = 2
  Monitors = TRUE
  LegacyKinds = {"deposit"}
  MaxCrashes = 1
  MaxStalls = 0
  MaxDbFaults = 0
  NoProcess = NoProcess
PROPERTIES RunningIsResolved
CHECK_DEADLOCK FALSE
