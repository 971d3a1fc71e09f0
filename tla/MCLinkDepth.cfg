CONSTANTS
  FileOrder <- MCFileOrderInteg
  FileInfo <- MCFileInfo
  LinkSet <- MCLinkSetApi
  MaxLinks = 2
  MaxRuns = 1
  ReadMayFail = FALSE
  WriteMayFail = FALSE
SPECIFICATION Spec
INVARIANT RightDepthKept
CHECK_DEADLOCK FALSE
