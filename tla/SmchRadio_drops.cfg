\* Commands come faster than a silent chip gives them up.
SPECIFICATION Spec
CONSTANTS
  NoAddress = NoAddress
  OwnAddress = OwnAddress
  ResetAddress = ResetAddress
  FifoDepth = 2
  QueueSize = 5
  ClockModulus = 7
  MessageSendTimeoutMs = 5
  Interval = 1
  LongestTurn = 1
  AirTime = 99
  Reachable = {}
  MaxMessages = 10
  MaxPackets = 0
  MaxInputs = 2
  MaxRestarts = 0
  Requests <- MCRequests
  Motors = {}
  Shutters = {}
  Pins = {}
  Calls <- MCCalls
PROPERTIES
  DropsAreReported
