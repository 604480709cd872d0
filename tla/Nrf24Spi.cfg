\* Any two calls, with buffers on both sides of each limit, and a reset at any byte.
SPECIFICATION Spec
CONSTANTS
  PayloadSize = 4
  Values = {{}, {1, 4, 5, 7}, {0, 2, 3, 6}}
  Lengths = {0, 1, 4, 5, 7}
  MaxCalls = 2
  MaxRestarts = 1
CHECK_DEADLOCK FALSE
INVARIANTS
  DoesWhatItPromises
  NoByteAstray
