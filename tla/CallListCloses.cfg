SPECIFICATION Spec
CONSTANTS
  Calls = {c1, c2}
  MaxRestarts = 0
  MaxPosted = 1
INVARIANT ClosingWarns
CHECK_DEADLOCK FALSE
