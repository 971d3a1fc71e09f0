------------------------- MODULE MCFragmentScanner -------------------------
EXTENDS FragmentScanner

\* Fences of the three kinds, a blank, a heading, code, a line that is code
\* only when indented, and two indented lines that are Markdown text.
MCLineSet ==
  { [ind |-> 0, text |-> t] :
      t \in {"<fence>go", "<fence>", "<fence>{r}", "", "# Setup", "}", "ch <- v"} }
  \cup { [ind |-> 4, text |-> t] : t \in {"ch <- v", "- item", Prose} }

MCMaxLines == 5
=============================================================================
