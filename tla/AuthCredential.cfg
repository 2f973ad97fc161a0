\* Violation: a reconcile writes the credential from before a refresh.
SPECIFICATION AuthSpec
CONSTANTS
  w1 = w1
  w2 = w2
  Workers = {w1, w2}
  JobsOf <- SchedulerAndKeepalive
  Regions = {"cn"}
  Happenings = {"spend", "login"}
  MaxCred = 1
  MaxGlitches = 0
PROPERTIES
  RefreshedCredentialKept
