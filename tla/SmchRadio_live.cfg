\* Every device is asked to move; device 1 does not hear it.
SPECIFICATION FairSpec
CONSTANTS
  NoAddress = NoAddress
  OwnAddress = OwnAddress
  ResetAddress = ResetAddress
  FifoDepth = 2
  QueueSize = 2
  ClockModulus = 8
  MessageSendTimeoutMs = 5
  Interval = 5
  LongestTurn = 1
  AirTime = 1
  Reachable = {0, 2, 3, 4}
  MaxMessages = 10
  MaxPackets = 0
  MaxInputs = 2
  MaxRestarts = 0
  Requests <- MCRequests
  Motors = {7}
  Shutters = {2}
  Pins = {}
  Calls <- MCCalls
PROPERTIES
  ReachesDevice
  KeepsUp
