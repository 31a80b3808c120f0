SPECIFICATION FairSpec
CONSTANTS
  PAYLOAD = 3
  OUT = 5
  HEAD = 2
  IMAGES = 3
  MAXPOS = 15
INVARIANTS
  TypeOK
  NoHole
  ReportedIsOnItsWay
  SizeIsLength
PROPERTIES
  StubStaysStub
  FailureEndsImage
  KeepsPromise
