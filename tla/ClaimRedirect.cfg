SPECIFICATION Spec
CONSTANTS
  None = None
  a = a
  b = b
  first = first
  second = second
  other = other
  Tabs = {a, b}
  Calls = {first, second, other}
  TabOf <- TwoTabs
  MaxPairs = 3
  MaxEvents = 2
CHECK_DEADLOCK FALSE
PROPERTY FailedRefreshReachesLogin
