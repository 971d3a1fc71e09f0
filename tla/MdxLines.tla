------------------------------ MODULE MdxLines ------------------------------
(***************************************************************************)
(* The line abstraction shared by every module of fix_mdx.py.              *)
(*                                                                         *)
(* A line of a Markdown body is a record [ind, text]: its indentation      *)
(* (0 or 4 spaces) and its stripped content.  The content is one of a      *)
(* small set of representative lines, each standing for the class of real  *)
(* lines that the script's regular expressions treat alike.  Three         *)
(* backticks cannot occur in a TLA+ string, so "<fence>" stands for them: *)
(* "<fence>go" is the line ```go.                                          *)
(*                                                                         *)
(* The classifiers below are the script's line tests, each written as the *)
(* conjunction/disjunction of the checks the code makes, with the regular  *)
(* expressions evaluated once, by hand, on the representative lines.       *)
(***************************************************************************)
EXTENDS Integers, Sequences, TLC

Prose == "Call Run to start the agent and then wait for its reply"

\* The representative stripped contents.
Texts ==
  { "<fence>go",      \* opening fence with a language tag
    "<fence>",        \* bare fence
    "<fence>{r}",     \* fence whose remainder does not start with a letter
    "",               \* blank (whitespace only)
    "# Setup",        \* Markdown heading
    "- item",         \* Markdown list item
    Prose,            \* a sentence of more than ten words
    "}",              \* closing brace
    "x := T{}",       \* Go short declaration with empty braces
    "x := T&#123;&#125;", \* the same with its braces entity-encoded
    "x := T\\{\\}",   \* the same after JSX escaping
    "ch <- v",        \* a Go send statement
    "ch &lt;- v",     \* the same with '<' entity-encoded
    "ch \\<- v",      \* the same after JSX escaping
    "&#96;&#96;&#96;", \* a bare fence written with numeric entities
    "go",             \* what is left of "<fence>go" when its fence is cut
    "{r}" }           \* what is left of "<fence>{r}" when its fence is cut

Indents == {0, 4}

Line == [ind : Indents, text : Texts]

\* stripped.startswith('```')
StartsFence(t) == t \in {"<fence>go", "<fence>", "<fence>{r}"}

\* stripped[3:].strip() for a fence line
FenceRest(t) == CASE t = "<fence>go"  -> "go"
                  [] t = "<fence>"    -> ""
                  [] t = "<fence>{r}" -> "{r}"

\* rest and rest[0].isalpha()
LangTagged(t) == StartsFence(t) /\ FenceRest(t) = "go"

\* not line.strip()
IsBlank(l) == l.text = ""

IsFence(l) == StartsFence(l.text)

(***************************************************************************)
(* is_code_continuation(line, prev_lines): the five regular expressions on *)
(* the stripped content, then the indentation test.  Of the contents above *)
(* "}" matches ^\s*\}$ and the two declarations match the short-           *)
(* declaration pattern; none starts with //, /*, */, return, defer, go+    *)
(* space or select {.  The indentation test excludes lines led by - * >.   *)
(***************************************************************************)
CodeLed == {"}", "x := T{}", "x := T&#123;&#125;", "x := T\\{\\}"}

ListLed == {"- item"}   \* led by '-', '*' or '>'

IsCodeContinuation(l) ==
  /\ ~IsBlank(l)
  /\ \/ l.text \in CodeLed
     \/ l.ind >= 4 /\ l.text \notin ListLed

(***************************************************************************)
(* is_markdown_text(line): blank, led by a Markdown marker, a numbered     *)
(* bold item, or more than ten words without code punctuation.  Of the     *)
(* contents above the heading and the list item are led by a marker, and   *)
(* Prose is the only one with more than ten words.                         *)
(***************************************************************************)
MarkdownLed == {"# Setup", "- item"}

LongProse == {Prose}

IsMarkdownText(l) == IsBlank(l) \/ l.text \in MarkdownLed \/ l.text \in LongProse

\* next_stripped.startswith('#')
HashLed(l) == l.text = "# Setup"

(***************************************************************************)
(* The fence rule of fix_fragmented_blocks, which the specification gives  *)
(* as the meaning of "inside a code block": a tagged fence opens (or keeps *)
(* open) a block, any other fence toggles.  StateAfter(s, k) is the state  *)
(* after the first k lines of s, InCode(s, k) says that line k is content  *)
(* of a code block.                                                        *)
(***************************************************************************)
FenceStep(in, l) == IF LangTagged(l.text) THEN TRUE ELSE ~in

RECURSIVE StateAfter(_, _)
StateAfter(s, k) ==
  IF k = 0 THEN FALSE
  ELSE IF IsFence(s[k]) THEN FenceStep(StateAfter(s, k - 1), s[k])
       ELSE StateAfter(s, k - 1)

InCode(s, k) == ~IsFence(s[k]) /\ StateAfter(s, k - 1)

(***************************************************************************)
(* decode_html_entities on a representative: the named entities, then the *)
(* numeric ones, replaced in place.                                        *)
(***************************************************************************)
DecodedText(t) == CASE t = "x := T&#123;&#125;" -> "x := T{}"
                    [] t = "ch &lt;- v"         -> "ch <- v"
                    [] t = "&#96;&#96;&#96;"   -> "<fence>"
                    [] OTHER                    -> t

(***************************************************************************)
(* The substitutions of escape_jsx_patterns on a line outside a block:     *)
(* `(?<!\\)\{\}` escapes the empty braces of the declaration (it has no    *)
(* backtick) and `(?<!\\)<-(?![a-zA-Z])` the send arrow; the other rules   *)
(* match none of the representatives, and neither escaped form matches    *)
(* again.                                                                  *)
(***************************************************************************)
EscapedText(t) == CASE t = "x := T{}" -> "x := T\\{\\}"
                    [] t = "ch <- v"  -> "ch \\<- v"
                    [] OTHER          -> t

(***************************************************************************)
(* BlankEnd(s, k) is the first index after k whose line is not blank     *)
(* (Len(s)+1 if none): the blank-line scan of fix_fragmented_blocks, whose *)
(* blank count is BlankEnd(s, k) - k - 1, and the whitespace-line run of   *)
(* the empty-block regular expression.                                    *)
(***************************************************************************)
RECURSIVE BlankEnd(_, _)
BlankEnd(s, k) ==
  IF k + 1 <= Len(s) /\ IsBlank(s[k + 1]) THEN BlankEnd(s, k + 1) ELSE k + 1

\* The fence line the script writes when it re-closes a block: '```'
CloseFenceLine == [ind |-> 0, text |-> "<fence>"]

=============================================================================
