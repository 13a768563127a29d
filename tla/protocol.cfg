\* A client that pipelines requests, a server that may die, a command.
CONSTANTS
  None = None
  a = a
  b = b
  Sessions = {a, b}
  Models <- ClientModels
  ValidModels <- OpenClientModels
  DefaultModel <- FromConfig
  MaxWord = 255
  Unreadable = TRUE
  MaxRequests = 3
  MaxCommands = 1
  MaxCrashes = 1
SPECIFICATION Spec
INVARIANTS TypeOK OwnAnswer RunsOnLastStart CloseDrains
PROPERTY Settles
CHECK_DEADLOCK FALSE
