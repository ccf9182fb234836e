SPECIFICATION Spec
CONSTANTS
  None = None
  Orders = {order}
  order = order
  Existing = {}
  Changes = {first, second}
  first = first
  second = second
  BotCancels = {second}
  StaffSets = {"cancelled", "shipped"}
  NewStatus = "pending"
  Tabs = {tab}
  tab = tab
  Fetches = {one, other}
  one = one
  other = other
  MaxFetches = 2
  MaxDrops = 1
  MaxFaults = 1
SYMMETRY Alike
CONSTRAINT OneInterruption
CHECK_DEADLOCK FALSE
INVARIANTS
  TypeOK
  HistoryTells
  ShownIsStored
