CONSTANTS
  Setups <- Race
  Word <- WordSize
SPECIFICATION Spec
CHECK_DEADLOCK FALSE
INVARIANTS SampleBasedOnStart
