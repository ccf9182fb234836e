SPECIFICATION Spec
CONSTANTS
  None = None
  Earlier = Earlier
  order = order
  again = again
  name = name
  phone = phone
  two = two
  zero = zero
  address = address
  email = email
  replace = replace
  both = both
  Messages = {order, two, zero, replace}
  Parses <- OrderOnly
  Text <- Texts
  Acquaintance <- Regulars
  NewStatus = "confirmed"
  StaffSets = {"pending", "confirmed", "processing", "shipped", "delivered", "cancelled"}
  Workers = 2
  MaxAttempts = 2
  MaxFaults = 1
  MaxCrashes = 1
  MaxUpdates = 1
CHECK_DEADLOCK FALSE
INVARIANTS
  TypeOK
  OrdersAreComplete
  CustomerIsCovered
PROPERTY
  ImplementsIntake
CONSTRAINT OneInterruption
