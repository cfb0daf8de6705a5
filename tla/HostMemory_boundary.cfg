SPECIFICATION Spec
CONSTANTS
  Base = 2
  WordSize = 3
  MemSize = 7
  IntBits = 3
  LongBits = 5
  AddrSize = 1
  MaxBuffer = 3
  MaxTopics = 2
  CurrentBlock = 2
  Arg <- MCArg
  CreateArg <- MCCreateArg
  Source <- MCSource
  Long <- MCLong
  GasCounter = {0, 15, 16, 31}
  FloatBits <- MCFloatBits
  GuestByte = {0, 1}
INVARIANT TypeOK
PROPERTY WritesStayInResult
PROPERTY CopiesZeroFill
PROPERTY ArithmeticExact
PROPERTY IntegersReturnExact
