\* Two callbacks that may carry the same zap, two worker processes.
SPECIFICATION Spec
CONSTANTS
  MaxPayments = 2
  LegacyRows = 0
  Requests = {r1, r2}
  Events = {e1}
  Workers = {w1, w2}
  MaxSettlementAttempts = 2
  DeliveryRetryAttempts = 2
  BatchSize = 1
  MaxCrashes = 1
  MaxDbFaults = 1
  MaxMintFaults = 1
  MintForgets = FALSE
  NoEvent = NoEvent
  NoWorker = NoWorker
SYMMETRY Symmetry
INVARIANTS TypeOK AtMostOneTransfer TransferIsFunded ReceiptFollowsDelivery RetriesAreSafe
  OneInvoicePerZap ClaimsHaveOneOwner
