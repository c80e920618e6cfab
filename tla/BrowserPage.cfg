\* One page, hidden or left at most twice.
CONSTANTS
  MaxLeaves = 2
  MaxTyped = 2
  MaxTries = 3
  MaxOps = 2
  MaxHeard = 1
  MaxScans = 2
  MaxStarts = 2
  MaxFlights = 1
  NumPages = 3
  MaxOpens = 3
SPECIFICATION FairSpec
INVARIANTS TypeOK StatusIsOfLast QrSubmitsFirst OneSubmitPerStart ScannerIsInReach EvidenceStays ViewerKeepsItsPlace
PROPERTIES SubmitsCurrentReads ReturnRestoresForm PollingEnds OperationsEnd CameraGoesOff
CHECK_DEADLOCK FALSE
