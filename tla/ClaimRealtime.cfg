SPECIFICATION Spec
CONSTANTS
  None = None
  Orders = {order}
  order = order
  Existing = {}
  Changes = {first, second}
  first = first
  second = second
  BotCancels = {second}
  StaffSets = {"cancelled", "shipped"}
  NewStatus = "pending"
  Tabs = {tab}
  tab = tab
  Fetches = {one, other}
  one = one
  other = other
  MaxFetches = 1
  MaxDrops = 0
  MaxFaults = 0
CHECK_DEADLOCK FALSE
INVARIANT
  OpenDashboardListens
