CONSTANTS
  None = None
  a = a
  b = b
  Procs = {p}
  Sessions = {s}
  Ids = {a, b}
  Uuids = {u1, u2}
  Files <- SomeFiles
  ToolNames <- Names
  AlphaParts = 1
  AlphaWhole = 4
  Scale = 16
  MaxRuns = 1
  MaxStops = 0
SPECIFICATION Spec
INVARIANT ForecastCoversTools
CHECK_DEADLOCK FALSE
