\* Two processes that interfere with each other's calls.
CONSTANTS
  None = None
  p = p
  q = q
  pin = pin
  log = log
  Procs = {p,q}
  Items = {pin,log}
  Pinned = {pin}
  Inactive = {}
  Reducible = {pin,log}
  Externalizable = {log}
  Requests = {"materialize"}
  PredictionEnabled = FALSE
  MaxCrashes = 0
  MaxErrors = 0
SPECIFICATION Spec
INVARIANTS ReferencesResolve ProjectionBacked PinnedVerbatim
PROPERTY CallsReturn
