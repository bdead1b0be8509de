SPECIFICATION Spec
CONSTANTS
  Versions = {v1, v2}
  Platforms = {arm}
  None = None
  Operators = {op1, op2}
  Repairs = {"recover", "abort"}
  MaxRows = 2
  MaxCrashes = 0
  Edits = {}
CHECK_DEADLOCK FALSE
PROPERTIES ClearsOnlyUncommitted
