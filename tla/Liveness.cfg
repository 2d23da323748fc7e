\* Every control-flow shape of four instructions, two temporaries.
CONSTANTS
  Length = 4
  N <- Length
  Temps <- MCTemps
  FlowGraphs <- MCFlowGraphs
SPECIFICATION FairSpec
INVARIANTS
  TypeOK
  SweepInvariant
  ExactOnReturn
PROPERTIES
  OnlyGrows
  Termination
