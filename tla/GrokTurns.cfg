SPECIFICATION Spec
CONSTANTS
  None = None
  Earlier = Earlier
  order = order
  details = details
  Messages = {order, details}
  Tells <- Facets
  MaxIterations = 2
  Acquaintance <- Anyone
  NewStatus = "confirmed"
  StaffSets = {"shipped"}
  Workers = 2
  MaxAttempts = 2
  MaxFaults = 1
  MaxCrashes = 1
  MaxUpdates = 1
CHECK_DEADLOCK FALSE
INVARIANTS
  TypeOK
  OrdersAreComplete
  DecisionIsTheCustomers
  OrdersAreWanted
PROPERTY
  NothingIsForgotten
CONSTRAINT OneInterruption
