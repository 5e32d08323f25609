SPECIFICATION BinarySpec
CONSTANTS
  Values <- MCValues
  Nothing <- MCNothing
  Size = 1
  MaxUsed = 5
  Blocks <- MCBlocks
  Bytes = {"s"}
  Nul = Nul
  Wild = Wild
INVARIANTS
  MemoryTypeOK
  NeverOverruns
  LoadsWhatWasWritten
  RoundTrip
PROPERTIES
  ImplementsCells
CHECK_DEADLOCK FALSE
