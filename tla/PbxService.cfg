SPECIFICATION Spec
CONSTANTS
  Kinds = 5
  MaxRefreshes = 3
INVARIANTS
  OneTaskAtATime
  ShownIsWhole
  CancelStopsTheTask
PROPERTY RefreshEnds
CHECK_DEADLOCK FALSE
