SPECIFICATION Spec
CONSTANTS
  None = None
  Models = {m1, m2}
  Codes = {c1, c2}
  Configs = {k1, k2}
  Predictions = {p1, p2}
  Modes = {"alias", "latest"}
  ConfigChanges = "idle"
  KeepNewest = 1
  MaxPins = 6
  MaxRuns = 2
  MaxFaults = 2
  MaxEdits = 2
SYMMETRY Symmetric
INVARIANTS TypeOK DeployedIsLive DefaultRestoreServed ServingImageKept
PROPERTIES OnlyVerifiedGoLive FailedDeployGoesBack RestoredAsRecorded
CHECK_DEADLOCK FALSE
