\* Two short results that are equally long, in a small window.
CONSTANTS
  Size = 2
  Shapes <- ShortShapes
  Arrivals <- ShortShapes
  Forecasts = {0}
  Usable = 12
  TargetPressure = 50
  CompactPressure = 70
  EmergencyPressure = 90
  LargeResult = 20
  Deduplicates = TRUE
  PinConstraints = TRUE
  PinErrors = TRUE
  ErrorLines = 2
  TailLines = 1
  FailureLines = 4
  ReferenceWords = 9
  MaxRounds = 0
SPECIFICATION Cycles
INVARIANT LowImportanceFirst
CHECK_DEADLOCK FALSE
