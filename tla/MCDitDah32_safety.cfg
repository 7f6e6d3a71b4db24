SPECIFICATION Spec
CONSTANTS
  AddrSpace <- MCAddrSpace
  RegCount = 3
  Halfword <- MCHalfword
  Compressed <- MCShort
  ZeroHalf = "0"
  DecodeC <- MCDecodeC
  Decode32 <- MCDecode32
  ResetVector = 2
  Images <- MCImages
  Pins = {"external", "timer", "software"}
  SlaveDepth = 2
INVARIANTS TypeOK PortProtocol LatchesMatchProgram
PROPERTIES FaultIsPrecise InterruptsPrecise ImplementsRV32E
