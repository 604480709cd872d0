\* The chip may fall silent for good and the processor may be reset.
SPECIFICATION Spec
CONSTANTS
  NoAddress = NoAddress
  OwnAddress = OwnAddress
  ResetAddress = ResetAddress
  FifoDepth = 2
  QueueSize = 2
  ClockModulus = 5
  MessageSendTimeoutMs = 3
  Interval = 2
  LongestTurn = 1
  AirTime = 99
  Reachable = {0, 2, 3, 4}
  MaxMessages = 5
  MaxPackets = 1
  MaxInputs = 1
  MaxRestarts = 1
  Requests <- MCRequests
  Motors = {7}
  Shutters = {2}
  Pins = {}
  Calls <- MCCalls
INVARIANTS
  Inv
  OnlyMeantIsAired
PROPERTIES
  HubImplementsRadio
  ImplementsController
