SPECIFICATION FairSpec
CONSTANTS
  PAYLOAD = 5
  LENGTH = 3
  DATAGRAMS = 4
  DUPS = 1
  KEYS = 2
INVARIANTS
  BeginsWithMarker
  ShownIsWholeImages
PROPERTIES
  WheelsStop
  KeyReturns
CHECK_DEADLOCK FALSE
