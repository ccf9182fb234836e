SPECIFICATION Spec
CONSTANTS
  None = None
  Earlier = Earlier
  order = order
  details = details
  Messages = {order, details}
  Tells <- Facets
  MaxIterations = 2
  Acquaintance <- Anyone
  NewStatus = "confirmed"
  StaffSets = {"shipped"}
  Workers = 1
  MaxAttempts = 2
  MaxFaults = 1
  MaxCrashes = 0
  MaxUpdates = 0
CHECK_DEADLOCK FALSE
INVARIANT DecisionIsOfAnotherTurn
