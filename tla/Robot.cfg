SPECIFICATION FairSpec
CONSTANTS
  Commands <- MCCommands
  Configs <- MCConfigs
  Tests <- MCTests
  OPS = 1
  BURST = 2
INVARIANTS
  TypeOK
  NoShortCircuit
  NewestCommandDrives
  CameraSwitchable
  Configured
PROPERTIES
  KeyServed
  LinkLossStops
  KickReleased
