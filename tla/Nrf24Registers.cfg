SPECIFICATION Spec
CONSTANTS
  Channel = {0, 3}
  FifoDepth = 3
INVARIANTS
  Inv
  SetUpForGood
PROPERTIES
  CleanStart
