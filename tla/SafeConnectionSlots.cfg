SPECIFICATION Spec
CONSTANTS
  UI = ui
  SDK = sdk
  Home = sdk
  Calls = {c1, c2}
INVARIANT SlotProtected
CHECK_DEADLOCK FALSE
