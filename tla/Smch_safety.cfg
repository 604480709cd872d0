SPECIFICATION Spec
CONSTANTS
  NoAddress = NoAddress
  QueueSize = 2
  ClockModulus = 4
  Interval = 2
  LongestTurn = 1
  MaxInputs = 2
  MaxRestarts = 1
  Requests <- MCRequests
  Indices = {19, 20}
  Shutters = {2}
  Pins = {66, 67}
INVARIANTS
  Inv
  OnlyDeliverable
  AllRunsThrough
PROPERTY
  QueuedCommandsArePaced
