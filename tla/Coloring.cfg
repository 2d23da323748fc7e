\* Two registers, every graph on four temporaries, two of which interfere
\* with registers, two moves between three of them.
CONSTANTS
  K = 2
  NTemps = 4
  Moves = {m1, m2}
  RegNeighbors = 2
  MoveEnds <- MCMoveEndsFew
  Inputs <- MCInputs
SPECIFICATION Spec
INVARIANTS
  TypeOK
  WorklistInvariant
  ProperColoring
  CoalescingIsConservative
