\* Two web processes and the worker share the request file.
SPECIFICATION FairSpec
CONSTANTS
  Webs = {v1, v2}
  Worker = Worker
  MaxRequests = 2
  MaxQuotes = 3
  MaxCrashes = 1
INVARIANTS InvoiceStays EndedRightly
PROPERTIES SlotIsFreed
CHECK_DEADLOCK FALSE
