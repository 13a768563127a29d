\* Every context of three items through four plans and three materializations.
CONSTANTS
  Size = 3
  Shapes <- AllShapes
  Arrivals <- NewShapes
  Forecasts = {0, 16, 40}
  Usable = 50
  TargetPressure = 50
  CompactPressure = 70
  EmergencyPressure = 90
  LargeResult = 20
  Deduplicates = TRUE
  PinConstraints = TRUE
  PinErrors = TRUE
  ErrorLines = 2
  TailLines = 1
  FailureLines = 4
  ReferenceWords = 9
  MaxRounds = 3
SPECIFICATION Cycles
INVARIANTS TypeOK TotalMatchesActions PinnedUntouched NewerCopyStays GivesUpLast PlanAllowed FailuresKept ErrorsKept
PROPERTIES Returns EstimatesMet PlansAdvance
CHECK_DEADLOCK FALSE
