SPECIFICATION Spec
CONSTANTS
  PAYLOAD = 3
  OUT = 5
  HEAD = 2
  IMAGES = 2
  MAXPOS = 11
INVARIANTS
  WriteFailureIsReported
