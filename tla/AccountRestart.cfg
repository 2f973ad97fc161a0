\* Crashes at any point between a change and its flush, callers that keep
\* retrying, and the operator.
SPECIFICATION EntrySpec
CONSTANTS
  Models = {m1}
  Events = {"soft", "hard", "model", "client", "server", "operator", "crash"}
  SessionDeadThreshold = 2
  BreakerThreshold = 1
  BreakerCooldown = 1
  BreakerCooldownMax = 2
  DegradeThreshold = 1
  DegradeCooldown = 1
  DegradeCooldownMax = 2
  SoftBase = 1
  SoftRateMax = 2
  SoftShiftMax = 2
  BlockBaseTTL = 1
  BlockMaxTTL = 1
  BlockShift = 2
  Day = 2
  Four = 1
  ResetOffsets = {}
  FixedCooldowns = {}
  HasStateFile = TRUE
  SaveMayFail = FALSE
  MaxStreak = 2
  MaxRetry = 2
  MaxHits = 1
  Accounts = {a1}
  RequestModels = {m1}
  Realms = {"cn"}
  RealmOf <- InOneRealm
  ShortList = 1
  MinPickGap = 2
  ExploreInterval = 2
  HealthInputs <- Soft
  Tried <- NoneTried
  Prices = {0, 1}
INVARIANTS
  BreakerConsistent
  RestartKeepsVerdict
PROPERTIES
  ManualStatePersisted
  RetriesDoNotPinAccount
