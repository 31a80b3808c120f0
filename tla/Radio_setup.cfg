SPECIFICATION Spec
CONSTANTS
  Udp = TRUE
  HoldsBack = FALSE
  Faults = {"deaf"}
  Factory = {1, 2, 3}
  QLEN = 2
  OWED = 2
  BUDGET = 2
INVARIANT ReadyHasGround
