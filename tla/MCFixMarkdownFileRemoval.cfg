CONSTANTS
  LineSet <- MCLineSet
  MaxLines <- MCMaxLines
SPECIFICATION TaggedSpec
INVARIANT RemovalKeepsContent
CHECK_DEADLOCK FALSE
