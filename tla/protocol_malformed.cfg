\* A line that does not parse as a Request.
CONSTANTS
  None = None
  a = a
  Sessions = {a}
  Models <- StoredModels
  ValidModels <- OpenStoredModels
  DefaultModel <- FromConfig
  MaxWord = 255
  Unreadable = TRUE
  MaxRequests = 2
  MaxCommands = 0
  MaxCrashes = 0
SPECIFICATION Spec
PROPERTY AllSettle
CHECK_DEADLOCK FALSE
