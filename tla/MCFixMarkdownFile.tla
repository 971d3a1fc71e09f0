------------------------- MODULE MCFixMarkdownFile -------------------------
EXTENDS FixMarkdownFile

\* Bare and tagged fences (the tagged one also indented, where the
\* empty-block pattern cannot see it), a blank, a heading, and the two
\* JSX-sensitive Go lines, one of them entity-encoded, and a bare fence
\* written with entities, which decoding turns into a fence.
MCLineSet ==
  { [ind |-> 0, text |-> t] :
      t \in {"<fence>go", "<fence>", "", "# Setup", "x := T{}", "ch &lt;- v",
             "&#96;&#96;&#96;"} }
  \cup { [ind |-> 4, text |-> "<fence>go"] }

MCMaxLines == 5

\* With the fence whose remainder is not a letter: the escape pass and
\* the scanner then read the fences differently.
MCLineSetBrace == MCLineSet \cup { [ind |-> 0, text |-> "<fence>{r}"] }
\* Documents whose blocks all open with a language tag: a bare fence is
\* only ever a closing one, in the body as decoding leaves it.
TaggedBlocks(b) ==
  LET d == [k \in DOMAIN b |-> [b[k] EXCEPT !.text = DecodedText(@)]]
  IN \A k \in DOMAIN d : IsFence(d[k]) /\ ~StateAfter(d, k - 1) => LangTagged(d[k].text)

TaggedInit == Init /\ TaggedBlocks(body)

TaggedSpec == TaggedInit /\ [][Next]_vars
=============================================================================
