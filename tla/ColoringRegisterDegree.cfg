\* As ColoringRegisters.cfg, against the degree invariant of the comment.
CONSTANTS
  K = 2
  NTemps = 3
  Moves = {m1, m2}
  RegNeighbors = 1
  MoveEnds <- MCMoveEndsAll
  Inputs <- MCInputs
SPECIFICATION Spec
INVARIANTS
  DegreeInvariant
