----------------------------- MODULE ScannerSpec -----------------------------
(***************************************************************************)
(* What fix_fragmented_blocks of src/fix_mdx.py promises, without its     *)
(* lookahead loops: the body is read once, front to back; a line that is  *)
(* not a fence is copied; a fence is copied and moves the block state by  *)
(* the fence rule; and a bare fence that closes a block may instead be    *)
(* moved down, past at most one blank line (dropped) and a run of lines   *)
(* that begins with code and holds no heading, fence, blank line or      *)
(* Markdown text, and re-written as '```' after them.                     *)
(*                                                                         *)
(* How long a run is taken is left open: any non-empty run of such lines  *)
(* will do.  The scanner's Collect decides it; FragmentScanner is shown to *)
(* implement this specification under the mapping consumed <- i - 1,      *)
(* out <- result, open <- in_code_block.                                  *)
(***************************************************************************)
EXTENDS MdxLines, Integers, Sequences, SequencesExt

CONSTANTS
  LineSet,   \* the lines a document is made of
  MaxLines   \* the longest document considered

VARIABLES
  lines,     \* the body, one line per element
  consumed,  \* how many lines have been read
  out,       \* the lines written so far
  open       \* a code block is open

avars == <<lines, consumed, out, open>>

NextLine == lines[consumed + 1]

\* A line a block may take in when its closing fence moves past it.
Orphan(l) == ~IsBlank(l) /\ ~IsFence(l) /\ ~HashLed(l) /\ ~IsMarkdownText(l)

Copy ==
  /\ consumed < Len(lines) /\ ~IsFence(NextLine)
  /\ out' = Append(out, NextLine)
  /\ consumed' = consumed + 1
  /\ UNCHANGED <<lines, open>>

PassFence ==
  /\ consumed < Len(lines) /\ IsFence(NextLine)
  /\ out' = Append(out, NextLine)
  /\ open' = FenceStep(open, NextLine)
  /\ consumed' = consumed + 1
  /\ UNCHANGED lines

\* b blank lines are dropped, then n orphan lines precede the new fence.
MoveFence ==
  /\ open /\ consumed < Len(lines)
  /\ IsFence(NextLine) /\ FenceRest(NextLine.text) = ""
  /\ \E b \in 0..1, n \in 1..MaxLines :
       LET last == consumed + 1 + b + n
           run == SubSeq(lines, consumed + 2 + b, last)
       IN /\ last <= Len(lines)
          /\ \A p \in 1..b : IsBlank(lines[consumed + 1 + p])
          /\ \A p \in 1..n : Orphan(run[p])
          /\ IsCodeContinuation(run[1])
          /\ out' = out \o run \o <<CloseFenceLine>>
          /\ consumed' = last
  /\ open' = FALSE
  /\ UNCHANGED lines

AInit ==
  /\ lines \in Seq(LineSet) /\ Len(lines) <= MaxLines
  /\ consumed = 0
  /\ out = <<>>
  /\ open = FALSE

ANext == Copy \/ PassFence \/ MoveFence

\* The pass runs to the end of the body.
ASpec == AInit /\ [][ANext]_avars /\ WF_avars(ANext)

=============================================================================
