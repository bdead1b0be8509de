SPECIFICATION FairSpec
CONSTANTS
  Versions = {v1, v2}
  Platforms = {arm}
  None = None
  Operators = {op}
  Repairs = {"recover"}
  MaxRows = 3
  MaxCrashes = 3
  Edits = {}
PROPERTIES Resolved
