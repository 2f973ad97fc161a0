\* The scheduler beside a job of any other kind, one failure.
SPECIFICATION AuthSpec
CONSTANTS
  w1 = w1
  w2 = w2
  Workers = {w1, w2}
  JobsOf <- SchedulerAndRest
  Regions = {"cn", "global"}
  Happenings = {"spend", "die", "login"}
  MaxCred = 0
  MaxGlitches = 1
PROPERTIES
  OnlyExhaustedDeleted
  DisabledKept
  ExhaustedIsShelved
  CreditsBringBack
  LockComesFree
