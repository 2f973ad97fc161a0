\* One entry with every penalty and no state file; and two accounts, a short
\* list of one, with prices and health that come and go.
SPECIFICATION PoolSpec
CONSTANTS
  Models = {}
  Events = {"soft", "fixed", "hard", "server", "client", "session", "ban", "operator", "credit"}
  SessionDeadThreshold = 2
  BreakerThreshold = 2
  BreakerCooldown = 1
  BreakerCooldownMax = 3
  DegradeThreshold = 2
  DegradeCooldown = 2
  DegradeCooldownMax = 2
  SoftBase = 1
  SoftRateMax = 2
  SoftShiftMax = 2
  BlockBaseTTL = 1
  BlockMaxTTL = 3
  BlockShift = 2
  Day = 4
  Four = 2
  ResetOffsets <- SkewedResets
  FixedCooldowns = {2}
  HasStateFile = FALSE
  SaveMayFail = FALSE
  MaxStreak = 3
  MaxRetry = 3
  MaxHits = 2
  Accounts = {a1, a2}
  RequestModels = {m1}
  Realms = {"cn"}
  RealmOf <- InOneRealm
  ShortList = 1
  MinPickGap = 2
  ExploreInterval = 2
  HealthInputs <- Soft
  Tried <- NoneTried
  Prices = {0, 1}
INVARIANTS
  CountersBelowThreshold
  HardCoolingEndsAtFour
  PenaltiesBounded
  UsedOrderConsistent
PROPERTIES
  OnlySuccessLiftsBreaker
  BurstSpreads
  UnmeasuredKeepsBeingTried
