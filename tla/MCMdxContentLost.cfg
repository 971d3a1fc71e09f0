CONSTANTS
  ArgLists <- MCArgListsDocs
  Contents <- MCContentsFaults
  MaxRuns = 2
  ReadMayFail = FALSE
  WriteMayFail = FALSE
SPECIFICATION Spec
INVARIANT NoContentLost
CHECK_DEADLOCK FALSE
