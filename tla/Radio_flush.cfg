SPECIFICATION FairSpec
CONSTANTS
  Udp = TRUE
  HoldsBack = FALSE
  Faults = {}
  Factory = {}
  QLEN = 2
  OWED = 2
  BUDGET = 2
PROPERTY FlushComesBack
