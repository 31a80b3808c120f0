SPECIFICATION FairSpec
CONSTANTS
  LINEBUFFERSIZE = 3
  MAXNUMBER = 3
  HEIGHT = 3
  STRIDE = 1
  FirstLine <- MCFirstLine
  NextLine <- MCNextLine
  Encodes = TRUE
  Reconfigure = FALSE
  AtnHold = "once"
  Races = "never"
PROPERTIES
  RequestedLineComes
  Recovers
