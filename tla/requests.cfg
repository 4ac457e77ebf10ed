SPECIFICATION Spec
CONSTANTS
  w1 = w1
  a1 = a1
  a2 = a2
  Worker = {w1}
  Api = {a1, a2}
  Session <- Sessions
  NoSession = NoSession
  LeaseMayLapse = FALSE
  MaxPolls = 1
  MaxFaults = 1
  MaxRequests = 2
  MaxBacklog = 1
SYMMETRY Symmetry
INVARIANT NoRemovalWhileJenkinsRuns
INVARIANT CleanupLeavesNothing
INVARIANT SucceededIsRunning
CHECK_DEADLOCK FALSE
