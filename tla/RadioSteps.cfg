\* A reset at any access; the chip ends a transmission before the timeout, or falls silent.
SPECIFICATION Spec
CONSTANTS
  NoAddress = NoAddress
  OwnAddress = OwnAddress
  ResetAddress = ResetAddress
  DeviceA = DeviceA
  DeviceB = DeviceB
  MaxMessages = 2
  MaxPackets = 2
  Message <- MCMessage
  Packet <- MCPacket
  Address <- MCAddress
  FifoDepth = 2
  QueueSize = 1
  ClockModulus = 4
  MessageSendTimeoutMs = 2
  LongestWait = 3
  AirTime = 1
  MaxRestarts = 2
INVARIANT
  NothingMisdirected
PROPERTIES
  ImplementsRadio
  OnlyBootFindsOneUnderWay
