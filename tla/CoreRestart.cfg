SPECIFICATION Spec
CONSTANTS
  Commands  <- MCCommands
  MainOf    <- MCMainOf
  WithFetch <- MCWithFetch
INVARIANTS
  UiFollowsCore
  OnlyOverlapsAbandon
  ArgumentsFirst
  PerformedOnce
  CommandsKept
  LeftoversExplained
PROPERTY ComesToRest
CHECK_DEADLOCK FALSE
