SPECIFICATION Spec
CONSTANTS
  Clients = {c1, c2}
  Commands <- MCFewCommands
  Resources <- MCResources
  KindOf <- MCKindOf
  SeedRevision <- MCSeedRevision
  SeedAttributes <- MCSeedAttributes
  SeedEvents <- MCFourSeedEvents
  Modes = {"PartialPermission", "RateLimited", "EventGap", "Conflict", "Healthy"}
  MaxEvents = 4
  MaxReceipts = 1
  MaxAttributes = 2
  Limits = {1}
INVARIANT NoSilentGap
PROPERTY EveryCallAnswered
