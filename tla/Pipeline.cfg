\* 5232 programs of a dozen statements at most; words of ten bits.
CONSTANTS
  Programs <- AllPrograms
  MaxInt = 511
  Fuel = 12
  Doublings = 8
SPECIFICATION Spec
CHECK_DEADLOCK FALSE
INVARIANTS
  AcceptedRunsRight
  CrashesAreKnown
  HangsOnlyIntoCycles
  SameMeaning
  SelectionFaithful
  ArgumentsUndisturbed
