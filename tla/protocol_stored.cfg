\* A model that is too small.
CONSTANTS
  None = None
  a = a
  Sessions = {a}
  Models <- StoredModels
  ValidModels <- OpenStoredModels
  DefaultModel <- FromConfig
  MaxWord = 255
  Unreadable = FALSE
  MaxRequests = 2
  MaxCommands = 1
  MaxCrashes = 0
SPECIFICATION Spec
INVARIANT StoredModelsOpen
CHECK_DEADLOCK FALSE
