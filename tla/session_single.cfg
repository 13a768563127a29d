\* One process, one crash and one failing statement anywhere, with prediction.
CONSTANTS
  None = None
  p = p
  pin = pin
  log = log
  old = old
  Procs = {p}
  Items = {pin,log,old}
  Pinned = {pin}
  Inactive = {old}
  Reducible = {pin,log}
  Externalizable = {log,old}
  Requests = {"plan", "status", "compact"}
  PredictionEnabled = TRUE
  MaxCrashes = 1
  MaxErrors = 1
SPECIFICATION Spec
INVARIANTS TypeOK PinnedKept LevelNamesText ChangesRecorded StatCountsEvents PlanFresh RecordedDropsApplied NoOrphanArtifact
PROPERTY KeepsPromise
