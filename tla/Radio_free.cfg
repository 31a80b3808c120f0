SPECIFICATION FairSpec
CONSTANTS
  Udp = TRUE
  HoldsBack = FALSE
  Faults = {"deaf", "noise", "crash"}
  Factory = {}
  QLEN = 2
  OWED = 2
  BUDGET = 1
INVARIANTS
  ConfirmedIsSent
PROPERTIES
  KeepsPromise
  EveryCallReturns
