\* Finding: a repeated zap callback meets the uniqueness constraint.
SPECIFICATION Spec
CONSTANTS
  MaxPayments = 2
  LegacyRows = 0
  Requests = {r1, r2}
  Events = {e1}
  Workers = {w1}
  MaxSettlementAttempts = 1
  DeliveryRetryAttempts = 1
  BatchSize = 1
  MaxCrashes = 0
  MaxDbFaults = 0
  MaxMintFaults = 0
  MintForgets = FALSE
  NoEvent = NoEvent
  NoWorker = NoWorker
INVARIANTS RepeatedZapIsAnswered
