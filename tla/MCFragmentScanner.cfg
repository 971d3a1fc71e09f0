CONSTANTS
  LineSet <- MCLineSet
  MaxLines <- MCMaxLines
SPECIFICATION FairSpec
INVARIANT TypeOK
INVARIANT CodeStaysCode
INVARIANT OnlyCodeEntersCode
INVARIANT ContentPreserved
PROPERTY ImplementsScannerSpec
\* The pass is a terminating loop: its last state has no successor.
CHECK_DEADLOCK FALSE
