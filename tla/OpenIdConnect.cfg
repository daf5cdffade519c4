SPECIFICATION FairSpec
CONSTANTS
  Requests = {r1, r2}
  MaxCancels = 1
INVARIANTS
  TypeOK
  RefreshFollows
PROPERTIES
  GrantIsFinal
  EndsAndTells
CHECK_DEADLOCK FALSE
