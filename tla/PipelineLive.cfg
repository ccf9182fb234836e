SPECIFICATION FairSpec
CONSTANTS
  m1 = m1
  m2 = m2
  d1 = d1
  d2 = d2
  Messages = {m1, m2}
  Deliveries = {d1}
  Batch <- Pair
  Skipped = {}
  Unparseable = {m2}
  MaxAttempts = 2
  MaxStalled = 1
  Concurrency = 1
  MaxCrashes = 1
  MaxFaults = 0
  MaxOutages = 1
  MaxEvictions = 0
CHECK_DEADLOCK FALSE
PROPERTIES
  HandlersEnd
  OldStuckIsRecovered
  StartupCompletes
  ImplementsLiveLedger
