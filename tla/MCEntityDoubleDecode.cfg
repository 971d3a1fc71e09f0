CONSTANTS
  TokenSet <- MCTokenSetAmp
  MaxLen = 5
SPECIFICATION Spec
INVARIANT DecodesOneLevel
CHECK_DEADLOCK FALSE
