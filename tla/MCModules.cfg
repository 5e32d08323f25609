SPECIFICATION Spec
CONSTANTS
  FileSets <- MCFileSets
  Main = "main"
  Broken = {"broken"}
  StackDepth = 4
INVARIANTS
  TypeOK
  ExecutesInOrder
  ImportsInTurn
  ServesOneImport
  FailsForCause
  ModulesAreDone
PROPERTIES
  OnlyInnermostChanges
  NearsItsEnd
  Terminates
CHECK_DEADLOCK FALSE
