SPECIFICATION Spec
CONSTANTS
  Names <- MCNames
  Locations <- MCLocations
  Builtin = "builtin"
  Hash <- MCHash
  InitialCapacity = 8
  MaxSets <- MCMaxSets
INVARIANTS
  TypeOK
  WellPlaced
  GetsNearest
PROPERTIES
  LosesOnlyToGrowing
  ImplementsUnlessDropping
CHECK_DEADLOCK FALSE
