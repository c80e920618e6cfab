\* Two web processes, one of which may stall, the monitors of one Clear request in
\* both, and a user who finalizes, accepts transfers and pays beside them.
SPECIFICATION Spec
CONSTANTS
  Kinds = {"finalization", "acceptance", "outgoing"}
  Processes = {p1, p2}
  MaxUp = 2
  Threads = 2
  MaxJobs = 2
  Monitors = TRUE
  LegacyKinds = {}
  MaxCrashes = 1
  MaxStalls = 1
  MaxDbFaults = 1
  NoProcess = NoProcess
SYMMETRY Symmetry
INVARIANTS TypeOK WorkIsVisible OneMutationPerLease ResultIsOwn OnlyLateClaimsCompete
PROPERTIES MonitorAcceptsFirst
CHECK_DEADLOCK FALSE
