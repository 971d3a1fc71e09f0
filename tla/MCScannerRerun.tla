--------------------------- MODULE MCScannerRerun ---------------------------
EXTENDS ScannerRerun

\* Bare fences, blanks and closing braces are enough for the second pass to
\* find an orphan the first one stopped short of.
MCLineSet ==
  { [ind |-> 0, text |-> t] : t \in {"<fence>go", "<fence>", "", "# Setup", "}"} }

MCMaxLines == 5
=============================================================================
