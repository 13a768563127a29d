\* One process, two compactions.
CONSTANTS
  None = None
  p = p
  log = log
  Procs = {p}
  Items = {log}
  Pinned = {}
  Inactive = {}
  Reducible = {log}
  Externalizable = {log}
  Requests = {"compact"}
  PredictionEnabled = FALSE
  MaxCrashes = 0
  MaxErrors = 0
SPECIFICATION Spec
INVARIANT ArtifactHoldsOriginal
