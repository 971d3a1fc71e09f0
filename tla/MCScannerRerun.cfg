CONSTANTS
  LineSet <- MCLineSet
  MaxLines <- MCMaxLines
SPECIFICATION Spec
INVARIANT Idempotent
CHECK_DEADLOCK FALSE
