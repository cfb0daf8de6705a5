SPECIFICATION Spec
CONSTANTS
  Base = 2
  WordSize = 2
  MemSize = 4
  IntBits = 3
  LongBits = 5
  AddrSize = 1
  MaxBuffer = 2
  MaxTopics = 2
  CurrentBlock = 2
  Arg <- MCSmallArg
  CreateArg <- MCCreateArg
  Source <- MCSource
  Long <- MCLong
  GasCounter = {0, 15, 16, 31}
  FloatBits <- MCFloatBits
  GuestByte = {0, 1}
PROPERTY CodeCopyZeroFills
