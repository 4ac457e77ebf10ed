SPECIFICATION FairSpec
CONSTANTS
  w1 = w1
  a1 = a1
  Worker = {w1}
  Api = {a1}
  Session <- Sessions
  NoSession = NoSession
  LeaseMayLapse = FALSE
  MaxPolls = 1
  MaxFaults = 1
  MaxRequests = 0
  MaxBacklog = 1
PROPERTY TeardownSettles
CHECK_DEADLOCK FALSE
