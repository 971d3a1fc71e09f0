CONSTANTS
  ArgLists <- MCArgListsDocs
  Contents <- MCContentsDashes
  MaxRuns = 2
  ReadMayFail = FALSE
  WriteMayFail = FALSE
SPECIFICATION Spec
INVARIANT FrontmatterKept
CHECK_DEADLOCK FALSE
