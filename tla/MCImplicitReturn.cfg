SPECIFICATION Spec
CONSTANTS
  NumberHalf = 1024
  FloatExact = 1024
  ImmediateHalf = 512
  RegisterCount = 20
  StackSize = 256
  Wild <- MCWild
  Clock <- MCClock
  Decimal <- MCDecimal
  Piece <- MCPiece
  Sources <- Guarded
  Binaries <- MCBinaries
INVARIANT FunctionsReturn
CHECK_DEADLOCK FALSE
