\* Two symbols, the mark and every way their addresses fall on two buckets.
CONSTANTS
  x = x
  y = y
  Symbols = {x, y}
  Mark = mark
  NoKey = nokey
  Values = {v, w}
  Null = null
  Buckets = {0, 1}
  Hashes <- MCHashes
  MaxBinders = 5
\* A table that is full to the bound with no scope open has no step left.
CHECK_DEADLOCK FALSE
SPECIFICATION Spec
INVARIANTS
  LookFindsVisible
  ThreadMatchesChains
PROPERTIES
  ImplementsScopes
  EndScopeReturns
