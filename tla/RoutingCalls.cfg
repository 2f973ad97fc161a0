\* A call whose draws land on accounts it was not offered, the operator and
\* a dashboard load beside it.
SPECIFICATION Spec
CONSTANTS
  a1 = a1
  a2 = a2
  a3 = a3
  q1 = q1
  q2 = q2
  Accounts = {a1, a2, a3}
  RequestModels = {m1}
  Realms = {"cn"}
  RealmOf <- InOneRealm
  ShortList = 5
  MinPickGap = 0
  ExploreInterval = 0
  HealthInputs <- Soft
  Tried <- NoneTried
  Prices = {}
  Requests = {q1}
  Offers <- PairsOfThree
  PanelOpen = TRUE
  Billed = {a1}
PROPERTIES
  DrawsSuffice
  CallsReturn
