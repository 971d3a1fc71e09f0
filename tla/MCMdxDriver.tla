----------------------------- MODULE MCMdxDriver -----------------------------
EXTENDS MdxDriver

\* A page with a frontmatter block and an entity inside it, and a page
\* without one.
Page == "docs/guide.md"
Notes == "docs/notes.md"

\* The docs directory, the notes page given as a file, and a missing path.
Docs == [found |-> TRUE, walk |-> <<Page, Notes>>]
NotesFile == [found |-> TRUE, walk |-> <<Notes>>]
Missing == [found |-> FALSE, walk |-> <<>>]

\* fix_mdx.py docs docs/notes.md, fix_mdx.py docs/notes.md typo, and
\* fix_mdx.py with no argument
MCArgLists == {<<Docs, NotesFile>>, <<NotesFile, Missing>>, <<>>}

\* fix_mdx.py docs
MCArgListsDocs == {<<Docs>>}

Frontmatter == <<"---", "\n", "&", "lt", ";", "\n", "---">>

\* '---', a YAML line '----', an entity, '---': split_frontmatter ends the
\* frontmatter inside '----'.
DashedFrontmatter == <<"---", "\n", "---", "-", "\n", "&", "amp", ";", "\n", "---">>

Bodies(ts, n) == {b \in SeqOf(ts, n) : ED!WellTokenized(b)}

\* Entities, '&amp;' chains, '<' before a digit, a backslash, lines.
MCContents ==
  [f \in {Page, Notes} |->
     IF f = Page
     THEN {Frontmatter \o b : b \in Bodies({"&", "amp", ";", "lt", "38", "<"}, 3)}
          \cup {DashedFrontmatter}
     ELSE Bodies({"&", "amp", ";", "<", "38", "\\"}, 3)
          \cup {<<"38", "&", "#", "55296", ";">>, <<"&", "#", "1114112", ";">>,
                <<"&", "amp", ";", "lt", ";", "38">>,
                <<"&", "amp", ";", "amp", ";", "lt", ";">>,
                <<"&", "#", "38", ";", "lt", ";">>,
                <<"<", "-", "\n">>, <<"<", "-", "lt">>,
                <<"\\", "\\", "\\", "<", "38">>}]

\* A page showing a literal '&lt;', and a page with a surrogate entity.
MCContentsFaults ==
  [f \in {Page, Notes} |->
     IF f = Page THEN {<<"&", "amp", ";", "lt", ";">>}
     ELSE {<<"---", "\n", "---", "\n", "&", "#", "55296", ";">>}]

\* A page whose frontmatter has a '----' line.
MCContentsDashes ==
  [f \in {Page, Notes} |-> IF f = Page THEN {DashedFrontmatter} ELSE {<<>>}]

=============================================================================
