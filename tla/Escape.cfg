\* Two names, up to three variables and two functions, nested four deep.
CONSTANTS
  x = x
  y = y
  Names = {x, y}
  MaxParams = 1
  MaxDecls = 3
  MaxFunctions = 2
  MaxNest = 4
SYMMETRY NamesSymmetry
SPECIFICATION Spec
INVARIANTS
  VisibleIsFound
  MarkedUnlessHidden
