\* Devices that answer late, with damage or not at all.
SPECIFICATION FairSpec
CONSTANTS
  NoAddress = NoAddress
  MaxDeviceCount = 2
  ScanStatusRequestTimeoutMs = 2
  QueueSize = 1
  ClockModulus = 4
  LongestWait = 3
  Alive = {0, 1}
  MaxScans = 2
  MaxAnswers = 2
  MaxCommands = 1
INVARIANTS
  Inv
  CreditedOnce
  RightWhenPunctual
PROPERTIES
  ScanIsComplete
  NoDeviceCutShort
  ScanEnds
