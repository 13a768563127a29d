CONSTANTS
  None = None
  a = a
  b = b
  Procs = {p, q}
  Sessions = {s, t}
  Ids = {a, b}
  Uuids = {u1, u2, u3, u4}
  Files <- SomeFiles
  ToolNames <- Names
  AlphaParts = 1
  AlphaWhole = 4
  Scale = 16
  MaxRuns = 3
  MaxStops = 1
SPECIFICATION Spec
SYMMETRY Interchangeable
INVARIANTS TypeOK EventsOwned PrefixStored ReportedOnce HistoryHoldsReports AveragesWithinHistory
PROPERTY RowsKept
CHECK_DEADLOCK FALSE
