SPECIFICATION Spec
CONSTANTS
  Calls = {c1, c2, c3}
  MaxRestarts = 1
  MaxPosted = 1
INVARIANTS
  TypeOK
  ListShowsCalls
  CurrentFollowsActive
SYMMETRY CallSymmetry
CHECK_DEADLOCK FALSE
