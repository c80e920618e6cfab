\* A migration whose burn or file write raises.
SPECIFICATION Spec
CONSTANTS
  Processes = {p1, p2}
  Endpoints = {e1, e2}
  Invalid = Invalid
  MaxKeys = 2
  MaxCrashes = 0
  MaxFails = 1
  NoProcess = NoProcess
  NoFile = NoFile
INVARIANTS WorksOnPersistedAcorn
SYMMETRY Symmetry
CHECK_DEADLOCK FALSE
