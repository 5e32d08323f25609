SPECIFICATION Spec
CONSTANTS
  NumberHalf = 1024
  FloatExact = 64
  RegisterCount = 18
  StackSize = 4
  Wild <- MCWild
  Clock <- MCClock
  Decimal <- MCDecimal
  Piece <- MCPiece
  Binaries <- MCBinaries
INVARIANTS
  TypeOK
  NoDangling
  IteratorsBounded
  CallChain
  StackAsCounted
PROPERTIES
  NestedActivations
  CallersStackKept
  ObjectsLast
CHECK_DEADLOCK FALSE
