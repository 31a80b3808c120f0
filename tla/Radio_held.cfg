SPECIFICATION Spec
CONSTANTS
  Udp = TRUE
  HoldsBack = TRUE
  Faults = {"deaf", "noise"}
  Factory = {}
  QLEN = 2
  OWED = 2
  BUDGET = 2
INVARIANTS
  TypeOK
  NothingClobbered
  BusReleased
  HandlerKeptOut
  StatusIsNewest
