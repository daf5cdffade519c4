SPECIFICATION Spec
CONSTANTS
  MaxRelease = 2
  MaxChunks = 2
  MaxInstalls = 2
  MaxCrashes = 2
PROPERTY UpdatesAreAwaited
CHECK_DEADLOCK FALSE
