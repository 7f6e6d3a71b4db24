\* Every offset of 13 bits; the suites; the directed programs and the random programs of two
\* instructions over two data registers, whose block needs LUI and ADDI of both signs.
CONSTANTS
  XLEN = 24
  OffsetRange = 4096
  Suites <- MCSuites
  Regs = {1, 2, 8, 9}
  Values <- EdgeValues
  Short <- EdgeShort
  Offsets = {0, 3, 62}
  RandomSteps = 2
  DataBase = 7168
SPECIFICATION Spec
INVARIANTS EncodersTrip StateAgrees TrapsAgree TracesMatch ProgramsEnd
CHECK_DEADLOCK FALSE
