SPECIFICATION Spec
CONSTANTS
  Sources <- MCSources
  Scan <- ScanFrom
  Outside <- OutsideText
  Leftovers = {0, 2}
INVARIANTS
  LookaheadCoherent
  LeavesOnlyAtTheEnd
PROPERTY ImplementsReader
CHECK_DEADLOCK FALSE
