SPECIFICATION Spec
CONSTANTS
  None = None
  Earlier = Earlier
  order = order
  again = again
  name = name
  phone = phone
  two = two
  zero = zero
  address = address
  email = email
  replace = replace
  both = both
  Messages = {order, again, name, phone, two, zero, both}
  Parses <- SomeOrder
  Text <- Texts
  Acquaintance <- Anyone
  NewStatus = "confirmed"
  StaffSets = {"pending", "confirmed", "processing", "shipped", "delivered", "cancelled"}
  Workers = 1
  MaxAttempts = 2
  MaxFaults = 1
  MaxCrashes = 1
  MaxUpdates = 0
CHECK_DEADLOCK FALSE
INVARIANTS
  StageAsksWhatIsMissing
  FinalizedIsAccepted
  SecondOrderIsRetry
  OpenOrdersAreWanted
CONSTRAINT OneInterruption
