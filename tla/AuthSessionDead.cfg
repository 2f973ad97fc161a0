\* Violation: a reconcile brings back an account whose session is dead.
SPECIFICATION AuthSpec
CONSTANTS
  w1 = w1
  w2 = w2
  Workers = {w1, w2}
  JobsOf <- SchedulerAndKeepalive
  Regions = {"cn"}
  Happenings = {"spend", "die"}
  MaxCred = 1
  MaxGlitches = 0
INVARIANTS
  SessionDeadStaysDisabled
