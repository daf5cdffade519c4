SPECIFICATION Spec
CONSTANTS
  MaxRelease = 2
  MaxChunks = 2
  MaxInstalls = 2
  MaxCrashes = 2
INVARIANTS
  TypeOK
  SuccessIsInstalled
  VersionTellsLibrary
  ArchivesRemoved
PROPERTY InstallAnswered
CHECK_DEADLOCK FALSE
