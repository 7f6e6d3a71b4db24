SPECIFICATION FairSpec
CONSTANTS
  AddrSpace <- MCAddrSpace
  RegCount = 3
  Halfword <- MCHalfword
  Compressed <- MCShort
  ZeroHalf = "0"
  DecodeC <- MCDecodeC
  Decode32 <- MCDecode32
  ResetVector = 2
  Images <- MCSleepMemory
  Pins = {"timer"}
  SlaveDepth = 2
PROPERTIES
  AccessesComplete
  SleepWakes
  InterruptTaken
