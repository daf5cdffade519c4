SPECIFICATION Spec
CONSTANTS
  Clients = {c1, c2}
  Commands <- MCCommands
  Resources <- MCResources
  KindOf <- MCKindOf
  SeedRevision <- MCSeedRevision
  SeedAttributes <- MCSeedAttributes
  SeedEvents <- MCSeedEvents
  Modes = {"Healthy"}
  MaxEvents = 2
  MaxReceipts = 2
  MaxAttributes = 2
  Limits = {1}
INVARIANTS
  ExactlyOnce
  NoLostUpdate
  EventsTellEffects
  PagesShowTheirSnapshot
PROPERTIES
  KeepsLedger
SYMMETRY ClientSymmetry
