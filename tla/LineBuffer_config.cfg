SPECIFICATION Spec
CONSTANTS
  LINEBUFFERSIZE = 3
  MAXNUMBER = 3
  HEIGHT = 4
  STRIDE = 1
  FirstLine <- MCFirstLine
  NextLine <- MCNextLine
  Encodes = TRUE
  Reconfigure = TRUE
  AtnHold = "never"
  Races = "once"
INVARIANTS
  OneDriverBlock
  FullBlockHoldsItsLine
  EncoderBlockIntact
  NoBlockLost
