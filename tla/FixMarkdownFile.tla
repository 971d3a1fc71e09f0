--------------------------- MODULE FixMarkdownFile ---------------------------
(***************************************************************************)
(* fix_markdown_file(filepath) of src/fix_mdx.py on the body of one file:  *)
(* decode the HTML entities, repair fragmented blocks (FragmentScanner),   *)
(* remove empty blocks, escape JSX-like text outside blocks, and write the *)
(* file back if it changed.  `phase` is the step of the function the file *)
(* is in; the scanner and the escape pass are loops and take one step per *)
(* line, the two regular-expression passes take one step each.             *)
(***************************************************************************)
EXTENDS MdxLines, Integers, Sequences, SequencesExt, FiniteSets

CONSTANTS LineSet, MaxLines

VARIABLES
  body,      \* the body as read (frontmatter split off)
  phase,     \* "decode", "scan", "escape", "done"
  dec,       \* the body after decode_html_entities
  si, sres, sin, slang, sorigin,   \* the scanner's loop state
  rm,        \* the body after remove_empty_code_blocks
  ei,        \* escape_jsx_patterns: loop index
  eout,      \* escape_jsx_patterns: result
  ein,       \* escape_jsx_patterns: its own in_code_block
  written    \* fix_markdown_file wrote the file

scanVars == <<si, sres, sin, slang, sorigin>>
vars == <<body, phase, dec, scanVars, rm, ei, eout, ein, written>>

Scan == INSTANCE FragmentScanner
          WITH lines <- dec, i <- si, result <- sres, in_code_block <- sin,
               code_lang <- slang, origin <- sorigin

(***************************************************************************)
(* remove_empty_code_blocks: re.sub(r'```\n(\s*\n)*```', '', content) then *)
(* re.sub(r'```\n```', '', content).  On lines, a match is a line ending   *)
(* in ``` , the whitespace-only lines after it (none for the second        *)
(* pattern), and a line that starts with ``` in column 0; the match is cut *)
(* out, which joins what precedes the first ``` with what follows the last *)
(* into one line.  Matches are taken left to right without overlap.        *)
(***************************************************************************)
EndsInTicks(l) == l.text = "<fence>"

StartsTicksAtColumn0(l) == l.ind = 0 /\ IsFence(l)

\* Mutant: the match stops before the second fence, as (?=```) would.
JoinedKeepsSecond(la, lb) == [ind |-> la.ind, text |-> lb.text]

Joined(la, lb) == [ind |-> la.ind, text |-> FenceRest(lb.text)]

RECURSIVE RemoveFencePairs(_, _)
RemoveFencePairs(s, gaps) ==
  IF s = <<>> THEN <<>>
  ELSE LET b == IF gaps THEN BlankEnd(s, 1) ELSE 2
       IN IF EndsInTicks(s[1]) /\ b <= Len(s) /\ StartsTicksAtColumn0(s[b])
          THEN <<Joined(s[1], s[b])>> \o RemoveFencePairs(SubSeq(s, b + 1, Len(s)), gaps)
          ELSE <<s[1]>> \o RemoveFencePairs(Tail(s), gaps)

RemoveEmptyCodeBlocksOf(s) == RemoveFencePairs(RemoveFencePairs(s, TRUE), FALSE)

\* JSX escaping of one line outside a block.
Escape(l) == [l EXCEPT !.text = EscapedText(@)]

(***************************************************************************)
(* Steps of fix_markdown_file.                                             *)
(***************************************************************************)

\* Step 1: decode the HTML entities of the body.
DecodeHtmlEntities ==
  /\ phase = "decode"
  /\ dec' = [k \in DOMAIN body |-> [body[k] EXCEPT !.text = DecodedText(@)]]
  /\ phase' = "scan"
  /\ UNCHANGED <<body, scanVars, rm, ei, eout, ein, written>>

\* Step 2: one iteration of fix_fragmented_blocks.
FixFragmentedBlocks ==
  /\ phase = "scan"
  /\ Scan!Next
  /\ UNCHANGED <<body, phase, dec, rm, ei, eout, ein, written>>

\* Step 3: the scanner has returned; remove empty blocks.
RemoveEmptyCodeBlocks ==
  /\ phase = "scan"
  /\ Scan!Done
  /\ rm' = RemoveEmptyCodeBlocksOf(sres)
  /\ phase' = "escape"
  /\ UNCHANGED <<body, dec, scanVars, ei, eout, ein, written>>

(***************************************************************************)
(* Step 4: escape_jsx_patterns, one line per step.  Its fence tracking is  *)
(* its own: a tagged fence sets in_code_block, a bare fence toggles it,    *)
(* and any other fence leaves it alone.                                    *)
(***************************************************************************)
EscLine == rm[ei]

\* Mutant: a tagged fence toggles like a bare one.
EscapeFenceLineAllToggle ==
  /\ phase = "escape" /\ ei <= Len(rm)
  /\ IsFence(EscLine)
  /\ ein' = ~ein
  /\ eout' = Append(eout, EscLine)
  /\ ei' = ei + 1
  /\ UNCHANGED <<body, phase, dec, scanVars, rm, written>>

EscapeFenceLine ==
  /\ phase = "escape" /\ ei <= Len(rm)
  /\ IsFence(EscLine)
  /\ ein' = CASE LangTagged(EscLine.text)        -> TRUE
              [] FenceRest(EscLine.text) = ""    -> ~ein
              [] OTHER                           -> ein
  /\ eout' = Append(eout, EscLine)
  /\ ei' = ei + 1
  /\ UNCHANGED <<body, phase, dec, scanVars, rm, written>>

EscapeCodeLine ==
  /\ phase = "escape" /\ ei <= Len(rm)
  /\ ~IsFence(EscLine) /\ ein
  /\ eout' = Append(eout, EscLine)
  /\ ei' = ei + 1
  /\ UNCHANGED <<body, phase, dec, scanVars, rm, ein, written>>

EscapeTextLine ==
  /\ phase = "escape" /\ ei <= Len(rm)
  /\ ~IsFence(EscLine) /\ ~ein
  /\ eout' = Append(eout, Escape(EscLine))
  /\ ei' = ei + 1
  /\ UNCHANGED <<body, phase, dec, scanVars, rm, ein, written>>

\* Recombine with the frontmatter and write only if the content changed.
WriteBack ==
  /\ phase = "escape" /\ ei > Len(rm)
  /\ written' = (eout # body)
  /\ phase' = "done"
  /\ UNCHANGED <<body, dec, scanVars, rm, ei, eout, ein>>

Init ==
  /\ body \in SeqOf(LineSet, MaxLines)
  /\ phase = "decode"
  /\ dec = <<>>
  /\ si = 1 /\ sres = <<>> /\ sin = FALSE /\ slang = Scan!None /\ sorigin = <<>>
  /\ rm = <<>>
  /\ ei = 1 /\ eout = <<>> /\ ein = FALSE
  /\ written = FALSE

Next ==
  \/ DecodeHtmlEntities
  \/ FixFragmentedBlocks
  \/ RemoveEmptyCodeBlocks
  \/ EscapeFenceLine
  \/ EscapeCodeLine
  \/ EscapeTextLine
  \/ WriteBack

Spec == Init /\ [][Next]_vars

-----------------------------------------------------------------------------
TypeOK ==
  /\ body \in Seq(Line) /\ dec \in Seq(Line) /\ rm \in Seq(Line)
  /\ phase \in {"decode", "scan", "escape", "done"}
  /\ Scan!TypeOK
  /\ ei \in 1..Len(rm) + 1 /\ eout \in Seq(Line) /\ ein \in BOOLEAN
  /\ written \in BOOLEAN

(***************************************************************************)
(* escape_jsx_patterns escapes exactly the lines outside code blocks: each *)
(* line it has passed is left as it was if the fence rule of the scanner  *)
(* puts it inside a block, and escaped otherwise.  Its fence tracking is   *)
(* recomputed independently of the scanner's; where the two disagree,     *)
(* code is rewritten or raw JSX text reaches the MDX compiler.             *)
(***************************************************************************)
EscapeExactlyOutsideCode ==
  \A k \in 1..ei - 1 :
    eout[k] = IF InCode(rm, k) \/ IsFence(rm[k]) THEN rm[k] ELSE Escape(rm[k])

(***************************************************************************)
(* remove_empty_code_blocks removes only empty blocks: the code lines and  *)
(* the text lines of the body keep their content and their order.  Blank  *)
(* lines and fences are not compared.                                      *)
(***************************************************************************)
CodeLines(s) ==
  LET idx == SetToSortSeq({k \in DOMAIN s : InCode(s, k) /\ ~IsBlank(s[k])}, <)
  IN [n \in DOMAIN idx |-> s[idx[n]]]

TextLines(s) ==
  LET idx == SetToSortSeq({k \in DOMAIN s : ~InCode(s, k) /\ ~IsFence(s[k]) /\ ~IsBlank(s[k])}, <)
  IN [n \in DOMAIN idx |-> s[idx[n]]]

RemovalKeepsContent ==
  phase \in {"escape", "done"} =>
    /\ CodeLines(rm) = CodeLines(sres)
    /\ TextLines(rm) = TextLines(sres)

\* The fence lines of s.
FenceCount(s) == Cardinality({k \in DOMAIN s : IsFence(s[k])})

(***************************************************************************)
(* Fence balance (specification, section 8): the output has an even     *)
(* number of fence lines whenever the text the passes start from, the     *)
(* decoded body, has.  The scanner drops a closing fence it moves and     *)
(* writes a new one after the orphan run, the empty-block patterns cut     *)
(* the backticks of two fences at once, and the escape pass copies fences; *)
(* a move that lost or doubled a fence, or a cut that took only one, would *)
(* leave a fence unpaired in the file.                                    *)
(***************************************************************************)
FenceBalance ==
  phase = "done" /\ FenceCount(dec) % 2 = 0 => FenceCount(eout) % 2 = 0

=============================================================================
