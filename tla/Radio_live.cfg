SPECIFICATION FairSpec
CONSTANTS
  Device = {d1}
  OwnAddress = OwnAddress
  ResetAddress = ResetAddress
  NoAddress = NoAddress
  MaxMessages = 2
  MaxPackets = 2
  Message <- MCMessage
  Packet <- MCPacket
  Address <- MCAddress
  FifoDepth = 2
  QueueSize = 2
  ClockModulus = 4
  MessageSendTimeoutMs = 2
  LongestWait = 3
  MaxRestarts = 1
PROPERTIES
  ImplementsFairLink
  ListensAgain
  PacketsAreCollected
