\* The same programs, against property 2 of the comment on C_linearize.
CONSTANTS
  Programs <- AllPrograms
  MaxInt = 511
  Fuel = 12
  Doublings = 8
SPECIFICATION Spec
CHECK_DEADLOCK FALSE
INVARIANTS
  CallsIsolated
