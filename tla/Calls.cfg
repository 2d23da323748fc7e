\* Three activations of a program of four functions, two levels deep.
CONSTANTS
  main = main
  f = f
  g = g
  h = h
  p = p
  q = q
  z = z
  NoVar = none
  Main = main
  Fns <- MCFns
  Parent <- MCParent
  Depth <- MCDepth
  Encloses <- MCEncloses
  Locals <- MCLocals
  Order <- MCOrder
  Formals <- MCFormals
  Values = {1, 2}
  Fresh = 1
  MaxFrames = 3
  Bottom = 200
SPECIFICATION Spec
INVARIANTS
  StackBalanced
  OnlyEscapingFormalsLost
  WalkArrives
PROPERTIES
  ImplementsStaticLink
