\* Adds the fence ```{r}: escape_jsx_patterns ignores it, the scanner toggles.
CONSTANTS
  LineSet <- MCLineSetBrace
  MaxLines <- MCMaxLines
SPECIFICATION Spec
INVARIANT EscapeExactlyOutsideCode
CHECK_DEADLOCK FALSE
