CONSTANTS
  LineSet <- MCLineSet
  MaxLines <- MCMaxLines
SPECIFICATION Spec
INVARIANT TypeOK
INVARIANT FenceBalance
\* fix_markdown_file returns after writing: its last state has no successor.
CHECK_DEADLOCK FALSE
