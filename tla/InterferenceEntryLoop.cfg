\* The same functions, against the assertion in build.
CONSTANTS
  NBlocks = 2
  Statements <- MCStatements
  Formals <- MCFormals
  Temps <- MCTemps
  Labels <- MCAllLabels
  Functions <- MCFunctions
SPECIFICATION Spec
INVARIANTS
  NeverAborted
