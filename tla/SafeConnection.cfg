SPECIFICATION Spec
CONSTANTS
  UI = ui
  SDK = sdk
  Home = ui
  Calls = {c1, c2, c3}
INVARIANTS
  CallsRunOnLiveObjects
  RefsCountCalls
  CleanDestruction
PROPERTIES
  KeepsPromise
  CallsComplete
  CoreEventuallyFreed
CHECK_DEADLOCK FALSE
