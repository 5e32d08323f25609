SPECIFICATION Spec
CONSTANTS
  Inputs <- MCInputs
  Grammatical <- MCGrammatical
  Depth = 60
INVARIANTS
  ReadsBack
  Conserves
  StaysInInput
  FitsOnStack
PROPERTIES
  MovesOn
CHECK_DEADLOCK FALSE
