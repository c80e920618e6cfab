\* A legacy row beside a new one; the mint may drop quotes; the worker crashes.
SPECIFICATION FairSpec
CONSTANTS
  MaxPayments = 2
  LegacyRows = 1
  Requests = {r1}
  Events = {e1}
  Workers = {w1}
  MaxSettlementAttempts = 2
  DeliveryRetryAttempts = 1
  BatchSize = 2
  MaxCrashes = 1
  MaxDbFaults = 0
  MaxMintFaults = 1
  MintForgets = TRUE
  NoEvent = NoEvent
  NoWorker = NoWorker
INVARIANTS PaidIsNeverDropped
PROPERTIES FinalRowsStay KeepsPromise PaidIsResolved
