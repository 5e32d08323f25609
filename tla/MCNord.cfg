SPECIFICATION FairSpec
CONSTANTS
  NumberHalf = 1024
  FloatExact = 1024
  ImmediateHalf = 512
  RegisterCount = 16
  StackSize = 256
  Wild <- MCWild
  Clock <- MCClock
  Decimal <- MCDecimal
  Piece <- MCPiece
  Sources <- MCSources
  Binaries <- MCBinaries
INVARIANTS
  OutputCorrect
  RunsCleanly
  EndsClean
  CompilesBalanced
PROPERTY Terminates
CHECK_DEADLOCK FALSE
