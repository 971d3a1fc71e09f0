CONSTANTS
  FileOrder <- MCFileOrder
  FileInfo <- MCFileInfo
  LinkSet <- MCLinkSet
  MaxLinks = 2
  MaxRuns = 3
  ReadMayFail = TRUE
  WriteMayFail = TRUE
SPECIFICATION Spec
INVARIANT TypeOK
INVARIANT CountersMatch
INVARIANT ConvergesInTwoRuns
CHECK_DEADLOCK FALSE
