SPECIFICATION Spec
CONSTANTS
  None = None
  Models = {m1, m2}
  Codes = {c1, c2}
  Configs = {k1, k2}
  Predictions = {p1}
  Modes = {"alias"}
  ConfigChanges = "any"
  KeepNewest = 2
  MaxPins = 6
  MaxRuns = 2
  MaxFaults = 0
  MaxEdits = 4
PROPERTY RestoredAsRecorded
CHECK_DEADLOCK FALSE
