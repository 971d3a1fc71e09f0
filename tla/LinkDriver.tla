------------------------------ MODULE LinkDriver ------------------------------
(***************************************************************************)
(* main() of src/scripts/fix-doc-links.py: fix_file on every .md file of  *)
(* docs/ in sorted order, with the process-wide counters changes_made and  *)
(* files_modified, and the script run again on the tree it left behind.    *)
(*                                                                         *)
(* fix_file(f) is one step: read, rewrite (LinkRewriter!FixFile), and      *)
(* write if the content changed.  The read may raise (caught: the file is *)
(* skipped).  write_text opens the file with truncation and then writes;  *)
(* a failure in between (disk full, I/O error, the process killed) leaves *)
(* a prefix of the new content on disk and ends the run, since nothing     *)
(* catches it.  A run that has ended may be followed by a new run of the   *)
(* script, with fresh counters, on the files as they are.                  *)
(***************************************************************************)
EXTENDS LinkRewriter, Integers, Sequences, SequencesExt, FiniteSetsExt

CONSTANTS
  FileOrder,     \* the .md files in sorted order
  FileInfo,      \* file -> [depth, integ, examples] from its path under docs/
  LinkSet,       \* the links a file's content is made of
  MaxLinks,      \* the most links in a file
  MaxRuns,       \* how many times the script is run
  ReadMayFail,   \* read_text may raise
  WriteMayFail   \* write_text may fail after truncating the file

Files == ToSet(FileOrder)

VARIABLES
  disk,            \* file -> its content on disk
  orig,            \* history: file -> its content before the first run
  before,          \* history: file -> its content when this run started
  writes,          \* history: file -> how many runs wrote it completely
  idx,             \* main's loop position in sorted(md_files)
  changes_made,
  files_modified,
  status,          \* "running", "done", "aborted"
  run              \* how many runs have started

vars == <<disk, orig, before, writes, idx, changes_made, files_modified, status, run>>

Cur == FileOrder[idx]

Fix == FixFile(FileInfo[Cur], disk[Cur])

Step == status = "running" /\ idx <= Len(FileOrder)

\* The read raises: fix_file prints the error and returns 0.
ReadError ==
  /\ Step /\ ReadMayFail
  /\ idx' = idx + 1
  /\ UNCHANGED <<disk, orig, before, writes, changes_made, files_modified, status, run>>

\* Mutant: the pattern count is added even when nothing is written.
FixUnchangedCounted ==
  /\ Step
  /\ Fix.links = disk[Cur]
  /\ changes_made' = changes_made + Fix.n
  /\ idx' = idx + 1
  /\ UNCHANGED <<disk, orig, before, writes, files_modified, status, run>>

\* content == original: nothing is written and nothing counted.
FixUnchanged ==
  /\ Step
  /\ Fix.links = disk[Cur]
  /\ idx' = idx + 1
  /\ UNCHANGED <<disk, orig, before, writes, changes_made, files_modified, status, run>>

\* content != original: write it, record the file, add its local_changes.
FixAndWrite ==
  /\ Step
  /\ Fix.links # disk[Cur]
  /\ disk' = [disk EXCEPT ![Cur] = Fix.links]
  /\ writes' = [writes EXCEPT ![Cur] = @ + 1]
  /\ files_modified' = files_modified \cup {Cur}
  /\ changes_made' = changes_made + Fix.n
  /\ idx' = idx + 1
  /\ UNCHANGED <<orig, before, status, run>>

\* write_text truncates the file, then fails: a strict prefix of the new
\* content is on disk and the exception ends the run.
WriteFails ==
  /\ Step /\ WriteMayFail
  /\ Fix.links # disk[Cur]
  /\ \E m \in 0..Len(Fix.links) - 1 :
       disk' = [disk EXCEPT ![Cur] = SubSeq(Fix.links, 1, m)]
  /\ status' = "aborted"
  /\ UNCHANGED <<orig, before, writes, idx, changes_made, files_modified, run>>

\* The loop is over; main prints its summary.
Finish ==
  /\ status = "running" /\ idx > Len(FileOrder)
  /\ status' = "done"
  /\ UNCHANGED <<disk, orig, before, writes, idx, changes_made, files_modified, run>>

\* The script is started again: module-level counters start from zero.
Rerun ==
  /\ status \in {"done", "aborted"} /\ run < MaxRuns
  /\ before' = disk
  /\ idx' = 1 /\ changes_made' = 0 /\ files_modified' = {}
  /\ status' = "running" /\ run' = run + 1
  /\ UNCHANGED <<disk, orig, writes>>

Init ==
  /\ disk \in [Files -> SeqOf(LinkSet, MaxLinks)]
  /\ orig = disk /\ before = disk
  /\ writes = [f \in Files |-> 0]
  /\ idx = 1 /\ changes_made = 0 /\ files_modified = {}
  /\ status = "running" /\ run = 1

Next ==
  \/ ReadError
  \/ FixUnchanged
  \/ FixAndWrite
  \/ WriteFails
  \/ Finish
  \/ Rerun

Spec == Init /\ [][Next]_vars

-----------------------------------------------------------------------------
\* A link climbs at most from a file at depth 3 to the repository root.
MaxUp == 4

LinkType ==
  [base : {"rel"}, up : 0..MaxUp, dir : STRING, file : STRING]
    \cup [base : {"root", "gh", "text"}, up : {0}, dir : STRING, file : STRING]

TypeOK ==
  /\ disk \in [Files -> Seq(LinkType)]
  /\ writes \in [Files -> Nat]
  /\ idx \in 1..Len(FileOrder) + 1
  /\ changes_made \in Nat /\ files_modified \subseteq Files
  /\ status \in {"running", "done", "aborted"} /\ run \in 1..MaxRuns

(***************************************************************************)
(* The summary main prints is true of the run: files_modified is the set  *)
(* of files whose content this run changed (the file whose write failed   *)
(* aside), and changes_made is the sum of their local_changes.  A file    *)
(* where rules fire but cancel out (rule 15 then rule 16) is not written   *)
(* and must not be counted; a file skipped on a read error is neither.     *)
(***************************************************************************)
Failed == IF status = "aborted" THEN {Cur} ELSE {}

CountersMatch ==
  /\ files_modified = {f \in Files : disk[f] # before[f]} \ Failed
  /\ changes_made =
       MapThenSumSet(LAMBDA g : FixFile(FileInfo[g], before[g]).n, files_modified)

(***************************************************************************)
(* Reruns reach a fixed point: however rules 15 and 16 interact, and even *)
(* when a failed write has left a prefix of a file, no file is completely *)
(* written by more than two runs.                                          *)
(***************************************************************************)
ConvergesInTwoRuns == \A f \in Files : writes[f] <= 2

(***************************************************************************)
(* Rule 16 exists to put api-docs links of depth-3 integration files at   *)
(* the depth of the file (comment at line 132): a written file has every  *)
(* api-docs link that was at the right depth still at the right depth.     *)
(***************************************************************************)
RightDepth(fi, l) == l.base = "rel" /\ l.dir \in ApiDocs => l.up = fi.depth

RightDepthKept ==
  \A f \in files_modified : \A k \in DOMAIN before[f] :
    RightDepth(FileInfo[f], before[f][k]) => RightDepth(FileInfo[f], disk[f][k])

=============================================================================
