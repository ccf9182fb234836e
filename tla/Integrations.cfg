SPECIFICATION MCSpec
CONSTANTS
  Unset = Unset
  None = None
  Nothing = Nothing
  facebookApp = facebookApp
  aiApiKey = aiApiKey
  Fields = {facebookApp, aiApiKey}
  Secrets = {aiApiKey}
  one = one
  other = other
  Values = {one, other}
  Env <- MCEnv
  Updates = {1, 2}
  MaxConfigFaults = 1
  Parses = {0}
  Texts <- MCTexts
  Answers <- MCAnswers
  left = left
  right = right
  Pages = {left, right}
  shop = shop
  store = store
  Tenants = {shop, store}
  first = first
  second = second
  Requests = {first, second, third}
  third = third
  MaxPageFaults = 1
CONSTRAINTS Few OneFault
SYMMETRY Alike
CHECK_DEADLOCK FALSE
INVARIANTS
  TypeOK
  CacheSettles
  OnlyZeroIsRejected
  LogsTell
  ReportedIsServed
  BadgeIsHonest
PROPERTY
  OwnerNeverChanges
