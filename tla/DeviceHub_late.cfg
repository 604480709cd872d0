\* A late answer of device 0 is credited to device 1, which does not exist.
SPECIFICATION Spec
CONSTANTS
  NoAddress = NoAddress
  MaxDeviceCount = 2
  ScanStatusRequestTimeoutMs = 2
  QueueSize = 1
  ClockModulus = 4
  LongestWait = 3
  Alive = {0}
  MaxScans = 1
  MaxAnswers = 1
  MaxCommands = 0
INVARIANT
  ActiveDevicesAnswered
