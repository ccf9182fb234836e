SPECIFICATION Spec
CONSTANTS
  None = None
  Tabs = {a, b}
  Calls = {first, second, other}
  TabOf <- TwoTabs
  a = a
  b = b
  first = first
  second = second
  other = other
  MaxPairs = 3
  MaxEvents = 3
CHECK_DEADLOCK FALSE
INVARIANTS
  TypeOK
  StoredIsLive
  SignedOutForACause
PROPERTY CallsEnd
