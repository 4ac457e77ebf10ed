SPECIFICATION FairSpec
CONSTANTS
  w1 = w1
  a1 = a1
  Worker = {w1}
  Api = {a1}
  Session <- Sessions
  NoSession = NoSession
  LeaseMayLapse = FALSE
  MaxPolls = 1
  MaxFaults = 2
  MaxRequests = 0
  MaxBacklog = 1
INVARIANT NothingUntracked
INVARIANT TeardownNotForgotten
PROPERTY Settles
PROPERTY TeardownDone
CHECK_DEADLOCK FALSE
