SPECIFICATION Spec
CONSTANTS
  LINEBUFFERSIZE = 3
  MAXNUMBER = 5
  HEIGHT = 6
  STRIDE = 1
  FirstLine <- MCFirstLine
  NextLine <- MCNextLine
  Encodes = TRUE
  Reconfigure = FALSE
  AtnHold = "never"
  Races = "never"
INVARIANTS
  TypeOK
  InStep
  NeverDropsALine
PROPERTIES
  HandlersKeepOffLocked
