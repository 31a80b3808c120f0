SPECIFICATION Spec
CONSTANTS
  SIZE = 4
  Settings <- MCSettings
  Setting <- MCSetting
  Bytes <- MCBytes
  RIGHT = "a"
  SAMPLES = 2
INVARIANTS
  CutKeepsSettings
  OneWrongPerDisturbance
  CalmCalibration
