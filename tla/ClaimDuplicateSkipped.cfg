SPECIFICATION Spec
CONSTANTS
  m1 = m1
  m2 = m2
  d1 = d1
  d2 = d2
  Messages = {m1, m2}
  Deliveries = {d1, d2}
  Batch <- RedeliveredWithNew
  Skipped = {}
  Unparseable = {}
  MaxAttempts = 4
  MaxStalled = 1
  Concurrency = 5
  MaxCrashes = 0
  MaxFaults = 0
  MaxOutages = 0
  MaxEvictions = 0
CHECK_DEADLOCK FALSE
INVARIANT HandledBatchIsStored
