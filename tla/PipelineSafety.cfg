SPECIFICATION Spec
CONSTANTS
  m1 = m1
  m2 = m2
  d1 = d1
  d2 = d2
  Messages = {m1, m2}
  Deliveries = {d1, d2}
  Batch <- Redelivered
  Skipped = {m2}
  Unparseable = {}
  MaxAttempts = 2
  MaxStalled = 1
  Concurrency = 1
  MaxCrashes = 2
  MaxFaults = 2
  MaxOutages = 1
  MaxEvictions = 1
CHECK_DEADLOCK FALSE
INVARIANTS
  TypeOK
  CompletedIsSettled
  EffectsInOrder
  StrandedIsExplained
  OneHandlerStores
  AttemptHoldsJob
  ParsesWithinBudget
  FailuresAreTold
PROPERTY
  ImplementsLedger
