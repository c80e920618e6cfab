\* Every command, migrations, a crash and failing calls.
SPECIFICATION Spec
CONSTANTS
  Processes = {p1, p2}
  Endpoints = {e1, e2}
  Invalid = Invalid
  MaxKeys = 3
  MaxCrashes = 1
  MaxFails = 1
  NoProcess = NoProcess
  NoFile = NoFile
SYMMETRY Symmetry
INVARIANTS TypeOK FundsAreReachable WorkIsPersisted
PROPERTIES KeyLeavesBurned
CHECK_DEADLOCK FALSE
