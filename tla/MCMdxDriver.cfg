CONSTANTS
  ArgLists <- MCArgLists
  Contents <- MCContents
  MaxRuns = 2
  ReadMayFail = TRUE
  WriteMayFail = TRUE
SPECIFICATION Spec
INVARIANTS
  TypeOK
PROPERTY
  EachWriteProgresses
CHECK_DEADLOCK FALSE
