CONSTANTS
  TokenSet <- MCTokenSet
  MaxLen = 6
SPECIFICATION Spec
INVARIANTS
  TypeOK
  DecodesOneLevelWithoutAmp
CHECK_DEADLOCK FALSE
