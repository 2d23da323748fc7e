\* Every function of two blocks with at most a statement each, with or
\* without a formal in a register.
CONSTANTS
  NBlocks = 2
  Statements <- MCStatements
  Formals <- MCFormals
  Temps <- MCTemps
  Labels <- MCAllLabels
  Functions <- MCFunctions
SPECIFICATION Spec
INVARIANTS
  EdgesFollowControl
  BuildExact
  StopsWhereKnown
