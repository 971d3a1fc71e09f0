--------------------------- MODULE FragmentScanner ---------------------------
(***************************************************************************)
(* fix_fragmented_blocks(content) of src/fix_mdx.py: one forward pass over *)
(* the lines of a body that, at a fence closing a code block, looks ahead  *)
(* for code left outside the block and moves the closing fence after it.   *)
(*                                                                         *)
(* One step is one iteration of the `while i < len(lines)` loop; the       *)
(* lookahead loops of a closing fence run inside that iteration and are    *)
(* the operators BlankEnd and Collect.   `origin` is a history variable:    *)
(* origin[p] is the index of the input line that result[p] came from.     *)
(***************************************************************************)
EXTENDS MdxLines, Integers, Sequences, SequencesExt

CONSTANTS
  LineSet,   \* the lines a document is made of
  MaxLines   \* the longest document considered

VARIABLES
  lines,          \* content.split('\n'), fixed during the pass
  i,              \* the loop index (1-based)
  result,         \* the lines emitted so far
  in_code_block,
  code_lang,      \* "none" stands for None
  origin          \* history: input index of each emitted line

vars == <<lines, i, result, in_code_block, code_lang, origin>>

None == "none"

Line_ == lines[i]

\* Lookahead at a closing fence (lines 134-167); BlankEnd is in MdxLines.

\* Mutant: the scan does not stop at Markdown text.
RECURSIVE CollectNoTextStop(_, _, _)
CollectNoTextStop(s, j, orphans) ==
  IF j > Len(s) THEN [next |-> j, orphans |-> orphans]
  ELSE IF HashLed(s[j]) \/ IsFence(s[j])
       THEN [next |-> j, orphans |-> orphans]
  ELSE IF IsCodeContinuation(s[j]) \/ (orphans # <<>> /\ ~IsBlank(s[j]))
       THEN CollectNoTextStop(s, j + 1, Append(orphans, s[j]))
  ELSE [next |-> j, orphans |-> orphans]

(***************************************************************************)
(* The inner scan from j, accumulating orphan lines: stop at a heading, a  *)
(* fence or Markdown text; take a code continuation, or any non-blank line *)
(* once an orphan has been taken.  Returns the stop index and the orphans. *)
(***************************************************************************)
RECURSIVE Collect(_, _, _)
Collect(s, j, orphans) ==
  IF j > Len(s) THEN [next |-> j, orphans |-> orphans]
  ELSE IF HashLed(s[j]) \/ IsFence(s[j]) \/ IsMarkdownText(s[j])
       THEN [next |-> j, orphans |-> orphans]
  ELSE IF IsCodeContinuation(s[j]) \/ (orphans # <<>> /\ ~IsBlank(s[j]))
       THEN Collect(s, j + 1, Append(orphans, s[j]))
  ELSE [next |-> j, orphans |-> orphans]

\* Mutant: the blank-count test is dropped.
LookaheadAnyBlanks(s, k) ==
  LET j0 == BlankEnd(s, k)
  IN IF j0 <= Len(s)
     THEN Collect(s, j0, <<>>)
     ELSE [next |-> j0, orphans |-> <<>>]

\* The whole lookahead: only 0 or 1 blank lines may separate the orphans.
Lookahead(s, k) ==
  LET j0 == BlankEnd(s, k)
  IN IF j0 - k - 1 <= 1 /\ j0 <= Len(s)
     THEN Collect(s, j0, <<>>)
     ELSE [next |-> j0, orphans |-> <<>>]

(***************************************************************************)
(* Actions: the branches of the loop body.                                 *)
(***************************************************************************)

\* Mutant: code_lang keeps the stripped line, marker included.
OpenLangFenceWholeTag ==
  /\ i <= Len(lines)
  /\ LangTagged(Line_.text)
  /\ in_code_block' = TRUE
  /\ code_lang' = Line_.text
  /\ result' = Append(result, Line_)
  /\ origin' = Append(origin, i)
  /\ i' = i + 1
  /\ UNCHANGED lines

\* A fence followed by a language tag opens a block.
OpenLangFence ==
  /\ i <= Len(lines)
  /\ LangTagged(Line_.text)
  /\ in_code_block' = TRUE
  /\ code_lang' = FenceRest(Line_.text)
  /\ result' = Append(result, Line_)
  /\ origin' = Append(origin, i)
  /\ i' = i + 1
  /\ UNCHANGED lines

\* Mutants: the block stays open after the merge; the scan resumes one
\* line past the line that stopped it.
CloseWithOrphansNoReset ==
  /\ i <= Len(lines)
  /\ IsFence(Line_) /\ FenceRest(Line_.text) = "" /\ in_code_block
  /\ LET la == Lookahead(lines, i)
         first == la.next - Len(la.orphans)
     IN /\ la.orphans # <<>>
        /\ result' = result \o la.orphans \o <<CloseFenceLine>>
        /\ origin' = origin \o [p \in 1..Len(la.orphans) |-> first + p - 1]
                            \o <<i>>
        /\ i' = la.next
  /\ UNCHANGED <<lines, in_code_block, code_lang>>

CloseWithOrphansSkipStop ==
  /\ i <= Len(lines)
  /\ IsFence(Line_) /\ FenceRest(Line_.text) = "" /\ in_code_block
  /\ LET la == Lookahead(lines, i)
         first == la.next - Len(la.orphans)
     IN /\ la.orphans # <<>>
        /\ result' = result \o la.orphans \o <<CloseFenceLine>>
        /\ origin' = origin \o [p \in 1..Len(la.orphans) |-> first + p - 1]
                            \o <<i>>
        /\ i' = Min({la.next + 1, Len(lines) + 1})
  /\ in_code_block' = FALSE
  /\ code_lang' = None
  /\ UNCHANGED lines

\* A bare fence inside a block with orphans after it: emit the orphans,
\* then a fresh '```', and resume at the line that stopped the scan.
CloseWithOrphans ==
  /\ i <= Len(lines)
  /\ IsFence(Line_) /\ FenceRest(Line_.text) = "" /\ in_code_block
  /\ LET la == Lookahead(lines, i)
         first == la.next - Len(la.orphans)
     IN /\ la.orphans # <<>>
        /\ result' = result \o la.orphans \o <<CloseFenceLine>>
        /\ origin' = origin \o [p \in 1..Len(la.orphans) |-> first + p - 1]
                            \o <<i>>
        /\ i' = la.next
  /\ in_code_block' = FALSE
  /\ code_lang' = None
  /\ UNCHANGED lines

\* A bare fence inside a block with no orphans after it closes the block.
CloseFence ==
  /\ i <= Len(lines)
  /\ IsFence(Line_) /\ FenceRest(Line_.text) = "" /\ in_code_block
  /\ Lookahead(lines, i).orphans = <<>>
  /\ result' = Append(result, Line_)
  /\ origin' = Append(origin, i)
  /\ in_code_block' = FALSE
  /\ code_lang' = None
  /\ i' = i + 1
  /\ UNCHANGED lines

\* Any other fence (bare outside a block, or an untagged remainder) toggles.
ToggleFence ==
  /\ i <= Len(lines)
  /\ IsFence(Line_)
  /\ ~LangTagged(Line_.text)
  /\ ~(FenceRest(Line_.text) = "" /\ in_code_block)
  /\ in_code_block' = ~in_code_block
  /\ code_lang' = IF in_code_block THEN None ELSE code_lang
  /\ result' = Append(result, Line_)
  /\ origin' = Append(origin, i)
  /\ i' = i + 1
  /\ UNCHANGED lines

\* A line that is not a fence is copied.
CopyLine ==
  /\ i <= Len(lines)
  /\ ~IsFence(Line_)
  /\ result' = Append(result, Line_)
  /\ origin' = Append(origin, i)
  /\ i' = i + 1
  /\ UNCHANGED <<lines, in_code_block, code_lang>>

\* The loop has ended and the function returns '\n'.join(result); the pass
\* stops here, so a state with no successor is its normal end.
Done == i > Len(lines)

Init ==
  /\ lines \in SeqOf(LineSet, MaxLines)
  /\ i = 1
  /\ result = <<>>
  /\ in_code_block = FALSE
  /\ code_lang = None
  /\ origin = <<>>

Next ==
  \/ OpenLangFence
  \/ CloseWithOrphans
  \/ CloseFence
  \/ ToggleFence
  \/ CopyLine

Spec == Init /\ [][Next]_vars

\* The loop runs without waiting on anything: it is never left stuck.
FairSpec == Spec /\ WF_vars(Next)

-----------------------------------------------------------------------------
TypeOK ==
  /\ lines \in Seq(Line)
  /\ i \in 1..Len(lines) + 1
  /\ result \in Seq(Line)
  /\ in_code_block \in BOOLEAN
  /\ code_lang \in {None, "go"}
  /\ origin \in Seq(1..Len(lines)) /\ Len(origin) = Len(result)

(***************************************************************************)
(* Moving a closing fence never takes content out of a block: every line   *)
(* that is code in the input (by the fence rule) is still code where the   *)
(* scanner emitted it.  A scanner that resumes at the wrong index or keeps *)
(* in_code_block after a merge turns the next opening fence into a close   *)
(* and pushes block content out.                                           *)
(***************************************************************************)
CodeStaysCode ==
  \A p \in DOMAIN result : InCode(lines, origin[p]) => InCode(result, p)

(***************************************************************************)
(* The only lines the scanner pulls into a block are orphan runs: each run *)
(* of lines that were outside a block and are inside one in the output     *)
(* starts with a code continuation and contains no Markdown text.          *)
(***************************************************************************)
Pulled(p) == InCode(result, p) /\ ~InCode(lines, origin[p])

OnlyCodeEntersCode ==
  \A p \in DOMAIN result :
    Pulled(p) => /\ ~IsMarkdownText(result[p])
                /\ ((p = 1 \/ ~Pulled(p - 1)) => IsCodeContinuation(result[p]))

(***************************************************************************)
(* No content is lost, duplicated or reordered: each emitted line is its   *)
(* input line (a moved fence is re-written as '```'), no input line is     *)
(* emitted twice, every non-blank line already passed is emitted, and      *)
(* non-fence lines keep their order.                                       *)
(***************************************************************************)
ContentPreserved ==
  /\ \A p \in DOMAIN result :
       \/ result[p] = lines[origin[p]]
       \/ IsFence(lines[origin[p]]) /\ result[p] = CloseFenceLine
  /\ \A p, q \in DOMAIN result : p # q => origin[p] # origin[q]
  /\ \A k \in 1..i - 1 : ~IsBlank(lines[k]) => \E p \in DOMAIN result : origin[p] = k
  /\ \A p, q \in DOMAIN result :
       p < q /\ ~IsFence(result[p]) /\ ~IsFence(result[q]) => origin[p] < origin[q]

(***************************************************************************)
(* The scanner implements ScannerSpec: every iteration of its loop copies *)
(* a line, passes a fence, or moves a closing fence past at most one      *)
(* dropped blank line and a run of code, and the loop reads the body to    *)
(* its end.  Lookahead's blank-count test, Collect's stops and the resume  *)
(* index are what keep a step inside MoveFence.                            *)
(***************************************************************************)
Abs == INSTANCE ScannerSpec WITH consumed <- i - 1, out <- result, open <- in_code_block

ImplementsScannerSpec == Abs!ASpec

=============================================================================
