\* The operator selects an account while a call is under way.
SPECIFICATION Spec
CONSTANTS
  a1 = a1
  a2 = a2
  a3 = a3
  q1 = q1
  q2 = q2
  Accounts = {a1, a2, a3}
  RequestModels = {m1}
  Realms = {"cn"}
  RealmOf <- InOneRealm
  ShortList = 5
  MinPickGap = 0
  ExploreInterval = 0
  HealthInputs <- Soft
  Tried <- NoneTried
  Prices = {}
  Requests = {q1}
  Offers <- PairsOfThree
  PanelOpen = TRUE
  Billed = {a1, a2}
PROPERTIES
  OperatorSelectionSticks
