---------------------------- MODULE ScannerRerun ----------------------------
(***************************************************************************)
(* fix_fragmented_blocks run twice: the second pass reads what the first   *)
(* returned, as when fix_mdx.py is run again over a tree it already fixed. *)
(***************************************************************************)
EXTENDS MdxLines, Sequences, SequencesExt

CONSTANTS LineSet, MaxLines

VARIABLES doc, i1, r1, c1, g1, o1, i2, r2, c2, g2, o2

first == <<i1, r1, c1, g1, o1>>
second == <<i2, r2, c2, g2, o2>>
vars == <<doc, first, second>>

Pass1 == INSTANCE FragmentScanner
           WITH lines <- doc, i <- i1, result <- r1, in_code_block <- c1,
                code_lang <- g1, origin <- o1
Pass2 == INSTANCE FragmentScanner
           WITH lines <- r1, i <- i2, result <- r2, in_code_block <- c2,
                code_lang <- g2, origin <- o2

Init ==
  /\ doc \in SeqOf(LineSet, MaxLines)
  /\ i1 = 1 /\ r1 = <<>> /\ c1 = FALSE /\ g1 = Pass1!None /\ o1 = <<>>
  /\ i2 = 1 /\ r2 = <<>> /\ c2 = FALSE /\ g2 = Pass2!None /\ o2 = <<>>

Next ==
  \/ Pass1!Next /\ UNCHANGED <<doc, second>>
  \/ Pass1!Done /\ Pass2!Next /\ UNCHANGED <<doc, first>>

Spec == Init /\ [][Next]_vars

(***************************************************************************)
(* The specification's idempotence claim: running the scanner on its own   *)
(* output changes nothing, scan(scan(x)) = scan(x).                        *)
(***************************************************************************)
Idempotent == Pass1!Done /\ Pass2!Done => r2 = r1

=============================================================================
