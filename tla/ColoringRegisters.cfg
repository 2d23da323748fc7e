\* Two registers, three temporaries, two moves that may name registers.
CONSTANTS
  K = 2
  NTemps = 3
  Moves = {m1, m2}
  RegNeighbors = 1
  MoveEnds <- MCMoveEndsAll
  Inputs <- MCInputs
SPECIFICATION FairSpec
INVARIANTS
  DegreesOfTemps
  OnePlacePerTemp
  MovePartition
  SpillsWereSelected
  MovesSettled
  ProperUnlessRegisterSimplified
PROPERTIES
  Termination
