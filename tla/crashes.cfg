SPECIFICATION Spec
CONSTANTS
  w1 = w1
  w2 = w2
  a1 = a1
  Worker = {w1, w2}
  Api = {a1}
  Session <- Sessions
  NoSession = NoSession
  LeaseMayLapse = FALSE
  MaxPolls = 1
  MaxFaults = 2
  MaxRequests = 0
  MaxBacklog = 0
SYMMETRY Symmetry
INVARIANT TypeOK
INVARIANT Exclusive
INVARIANT AtMostOneTrigger
INVARIANT NothingUntracked
CHECK_DEADLOCK FALSE
