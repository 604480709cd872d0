SPECIFICATION Spec
CONSTANTS
  Device = {d1, d2}
  OwnAddress = OwnAddress
  ResetAddress = ResetAddress
  NoAddress = NoAddress
  MaxMessages = 3
  MaxPackets = 3
  Message <- MCMessage
  Packet <- MCPacket
  Address <- MCAddress
  FifoDepth = 2
  QueueSize = 2
  ClockModulus = 4
  MessageSendTimeoutMs = 2
  LongestWait = 3
  MaxRestarts = 1
INVARIANTS
  TransceiverInv
  NoMisdelivery
  NoStaleFrameAfterBoot
  SentInOrderOnce
  ListensWhenIdle
  NoStrandedPacket
  ReadInOrderOnce
PROPERTIES
  NoPrematureGiveUp
  NeverDeafAgain
  PacketsLostOnlyWhereKnown
  ImplementsLink
