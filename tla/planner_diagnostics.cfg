\* Outputs of tools beside a prompt, compacted twice.
CONSTANTS
  Size = 2
  Shapes <- LossyShapes
  Arrivals <- LossyShapes
  Forecasts = {0}
  Usable = 50
  TargetPressure = 50
  CompactPressure = 70
  EmergencyPressure = 90
  LargeResult = 20
  Deduplicates = TRUE
  PinConstraints = TRUE
  PinErrors = TRUE
  ErrorLines = 2
  TailLines = 1
  FailureLines = 4
  ReferenceWords = 9
  MaxRounds = 2
SPECIFICATION Cycles
INVARIANT DiagnosticsKept
CHECK_DEADLOCK FALSE
