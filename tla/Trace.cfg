\* Every list of six statements, three of them labels.
CONSTANTS
  NLabels = 3
  Length = 6
  Programs <- MCPrograms
SPECIFICATION FairSpec
INVARIANTS
  Canonical
  EverythingOnce
  JumpsAsNeeded
  ControlPreserved
PROPERTIES
  Termination
