------------------------------ MODULE MdxDriver ------------------------------
(***************************************************************************)
(* __main__ and process_path of src/fix_mdx.py: for each argument, a     *)
(* directory walked for .md files or a single .md file, fix_markdown_file *)
(* on each file, counting the files rewritten per path and in total; and  *)
(* the script run again on the tree it left behind.                       *)
(*                                                                         *)
(* A file is a token string (EntityDecoder) with "\n", "---" and "-"     *)
(* added ("----" is "---" "-"); it holds no backtick and no brace.  On    *)
(* such a body fix_fragmented_blocks copies every line (no line starts    *)
(* with a fence), both regular expressions of remove_empty_code_blocks    *)
(* need a fence, and of the substitutions of escape_jsx_patterns only the *)
(* '\\<' normalisation and the '<' before a digit or a '-' can match; so *)
(* fix_markdown_file is split_frontmatter, decode_html_entities on the    *)
(* body, those escapes, and the write.                                    *)
(*                                                                         *)
(* Nothing catches an exception: a read that fails (a file that is not     *)
(* UTF-8), a chr() out of range, or a write that cannot encode a lone      *)
(* surrogate ends the process.  open(filepath, 'w') truncates before       *)
(* f.write encodes the content, and the encoder fails on the whole string *)
(* before any byte is written: the file is left empty.                     *)
(***************************************************************************)
EXTENDS Integers, Sequences, SequencesExt, FiniteSets

CONSTANTS
  ArgLists,      \* the sys.argv[1:] the script may be started with
  Contents,      \* file -> the contents it may start with
  MaxRuns,       \* how many times the script is run
  ReadMayFail,   \* open(...).read() may raise
  WriteMayFail   \* the write may fail after open(filepath, 'w') truncated the file

(***************************************************************************)
(* An argument is [found, walk]: found is FALSE for a path that is neither *)
(* a file nor a directory; walk is the .md files process_path visits, in  *)
(* os.walk order (a single .md file for a file path, none for another     *)
(* file).  Two arguments may name the same file.                          *)
(***************************************************************************)
ED == INSTANCE EntityDecoder WITH TokenSet <- {}, MaxLen <- 0,
        input <- <<>>, content <- <<>>, k <- 1, status <- "running"

Files == UNION {ToSet(a.walk) : a \in UNION {ToSet(l) : l \in ArgLists}}

(***************************************************************************)
(* split_frontmatter: content.startswith('---'), then the first '\n---'   *)
(* in content[3:]; the frontmatter ends after that '---'.                 *)
(***************************************************************************)
SplitFrontmatter(c) ==
  LET ends == {i \in 2..Len(c) - 1 : c[i] = "\n" /\ c[i + 1] = "---"}
  IN IF c = <<>> \/ c[1] # "---" \/ ends = {}
     THEN [fm |-> <<>>, body |-> c]
     ELSE [fm |-> SubSeq(c, 1, Min(ends) + 1), body |-> SubSeq(c, Min(ends) + 2, Len(c))]

(***************************************************************************)
(* escape_jsx_patterns on a brace-free line: '\\\\<' becomes '\\<', then   *)
(* re.sub(r'(?<!\\)<(\d)') and re.sub(r'(?<!\\)<-(?![a-zA-Z])') put a      *)
(* backslash before a '<' that is followed by a digit or a '-' and not     *)
(* preceded by a backslash in the line they scan.  Neither pattern crosses *)
(* a '\n', so the content is escaped as a whole.                           *)
(***************************************************************************)
\* '<' then a digit, or '-' not followed by a letter: (\d) and -(?![a-zA-Z])
LtEscapable(c, i) ==
  /\ c[i] = "<" /\ i < Len(c)
  /\ \/ c[i + 1] \in ED!Numbers \cup {"---"}
     \/ c[i + 1] = "-" /\ ~(i + 2 <= Len(c) /\ c[i + 2] \in ED!Names)

\* Mutant: the (?<!\\) look-behind is dropped.
EscapeBeforeAlways(c, i) == LtEscapable(c, i)

EscapeBefore(c, i) == LtEscapable(c, i) /\ (i = 1 \/ c[i - 1] # "\\")

EscapeJsxPatterns(c) ==
  LET n == ED!Replace(c, <<"\\", "\\", "<">>, <<"\\", "<">>)
  IN FlattenSeq([i \in DOMAIN n |-> IF EscapeBefore(n, i) THEN <<"\\", "<">> ELSE <<n[i]>>])

\* fix_markdown_file up to the comparison: [ok, out], ok FALSE when it raised.
FixMarkdown(c) ==
  LET sp == SplitFrontmatter(c)
      d == ED!DecodeHtmlEntities(sp.body)
  IN IF ~d.ok THEN d ELSE [ok |-> TRUE, out |-> sp.fm \o EscapeJsxPatterns(d.out)]

\* f.write(content) with encoding='utf-8'
Encodable(c) == \A i \in DOMAIN c : c[i] # ED!Surrogate

VARIABLES
  disk,       \* file -> its content
  orig,       \* history: file -> its content before the first run
  writes,     \* history: file -> how many times it was opened for writing
  argv,       \* sys.argv[1:] of this run
  arg,        \* the position in argv of the path being processed
  idx,        \* the position in that path's walk
  fixed,      \* process_path's count
  total,      \* __main__'s total
  status,     \* "running", "done", "crashed" (uncaught exception), "exited"
  run         \* how many runs have started

vars == <<disk, orig, writes, argv, arg, idx, fixed, total, status, run>>

Walk == argv[arg].walk

Cur == Walk[idx]

Fix == FixMarkdown(disk[Cur])

\* len(sys.argv) < 2: the usage line, sys.exit(1).
Usage ==
  /\ status = "running" /\ argv = <<>>
  /\ status' = "exited"
  /\ UNCHANGED <<disk, orig, writes, argv, arg, idx, fixed, total, run>>

Step == status = "running" /\ arg <= Len(argv) /\ argv[arg].found /\ idx <= Len(Walk)

ReadFails ==
  /\ Step /\ ReadMayFail
  /\ status' = "crashed"
  /\ UNCHANGED <<disk, orig, writes, argv, arg, idx, fixed, total, run>>

DecodeRaises ==
  /\ Step /\ ~Fix.ok
  /\ status' = "crashed"
  /\ UNCHANGED <<disk, orig, writes, argv, arg, idx, fixed, total, run>>

Unchanged ==
  /\ Step /\ Fix.ok /\ Fix.out = disk[Cur]
  /\ idx' = idx + 1
  /\ UNCHANGED <<disk, orig, writes, argv, arg, fixed, total, status, run>>

Rewrite ==
  /\ Step /\ Fix.ok /\ Fix.out # disk[Cur] /\ Encodable(Fix.out)
  /\ disk' = [disk EXCEPT ![Cur] = Fix.out]
  /\ writes' = [writes EXCEPT ![Cur] = @ + 1]
  /\ fixed' = fixed + 1
  /\ idx' = idx + 1
  /\ UNCHANGED <<orig, argv, arg, total, status, run>>

(***************************************************************************)
(* The file is truncated, then the write fails: f.write raises             *)
(* UnicodeEncodeError before a byte is written, or (with an encodable      *)
(* content) an OSError on flush or close, or an interrupt, leaves some     *)
(* prefix of the new content on disk.  Nothing catches it.                 *)
(***************************************************************************)
WriteFails ==
  /\ Step /\ Fix.ok /\ Fix.out # disk[Cur]
  /\ \/ ~Encodable(Fix.out) /\ disk' = [disk EXCEPT ![Cur] = <<>>]
     \/ Encodable(Fix.out) /\ WriteMayFail
        /\ \E m \in 0..Len(Fix.out) - 1 : disk' = [disk EXCEPT ![Cur] = SubSeq(Fix.out, 1, m)]
  /\ writes' = [writes EXCEPT ![Cur] = @ + 1]
  /\ status' = "crashed"
  /\ UNCHANGED <<orig, argv, arg, idx, fixed, total, run>>

\* Mutant: fixed is not set back to 0 for the next path.
EndOfPathKeepsCount ==
  /\ status = "running" /\ arg <= Len(argv) /\ argv[arg].found /\ idx > Len(Walk)
  /\ total' = total + fixed
  /\ arg' = arg + 1 /\ idx' = 1
  /\ UNCHANGED <<disk, orig, writes, argv, fixed, status, run>>

\* process_path returns its count, and the next path starts from fixed = 0.
EndOfPath ==
  /\ status = "running" /\ arg <= Len(argv) /\ argv[arg].found /\ idx > Len(Walk)
  /\ total' = total + fixed
  /\ arg' = arg + 1 /\ idx' = 1 /\ fixed' = 0
  /\ UNCHANGED <<disk, orig, writes, argv, status, run>>

\* "Path not found": sys.exit(1), and the total is never printed.
PathNotFound ==
  /\ status = "running" /\ arg <= Len(argv) /\ ~argv[arg].found
  /\ status' = "exited"
  /\ UNCHANGED <<disk, orig, writes, argv, arg, idx, fixed, total, run>>

\* Every path processed: "Total files fixed" is printed.
Finish ==
  /\ status = "running" /\ argv # <<>> /\ arg > Len(argv)
  /\ status' = "done"
  /\ UNCHANGED <<disk, orig, writes, argv, arg, idx, fixed, total, run>>

\* The script started again, with any arguments, on the tree it left.
Rerun ==
  /\ status \in {"done", "crashed", "exited"} /\ run < MaxRuns
  /\ argv' \in ArgLists
  /\ arg' = 1 /\ idx' = 1 /\ fixed' = 0 /\ total' = 0
  /\ status' = "running" /\ run' = run + 1
  /\ UNCHANGED <<disk, orig, writes>>

\* The trees the script may start on: one content for each file of fs.
RECURSIVE Trees(_)
Trees(fs) == IF fs = <<>> THEN {<<>>}
             ELSE {(Head(fs) :> c) @@ t : t \in Trees(Tail(fs)), c \in Contents[Head(fs)]}

Init ==
  /\ disk \in Trees(SetToSeq(Files))
  /\ orig = disk
  /\ writes = [f \in Files |-> 0]
  /\ argv \in ArgLists
  /\ arg = 1 /\ idx = 1 /\ fixed = 0 /\ total = 0
  /\ status = "running" /\ run = 1

Next ==
  \/ Usage \/ ReadFails \/ DecodeRaises \/ Unchanged \/ Rewrite \/ WriteFails
  \/ EndOfPath \/ PathNotFound \/ Finish \/ Rerun

Spec == Init /\ [][Next]_vars

-----------------------------------------------------------------------------
\* The longest walk, and the most files one run can visit.
MaxWalk == Max({Len(a.walk) : a \in UNION {ToSet(l) : l \in ArgLists}})

MaxVisits == Max({FoldSeq(LAMBDA a, n : n + Len(a.walk), 0, l) : l \in ArgLists})

\* fixed counts the files of one path, total those of the run.
TypeOK ==
  /\ disk \in [Files -> Seq(STRING)]
  /\ writes \in [Files -> 0..MaxRuns * MaxVisits]
  /\ argv \in ArgLists /\ arg \in 1..Len(argv) + 1 /\ idx \in 1..MaxWalk + 1
  /\ fixed \in 0..MaxWalk /\ total \in 0..MaxVisits
  /\ status \in {"running", "done", "crashed", "exited"} /\ run \in 1..MaxRuns

\* The words of c that an entity decoding to '&' is made of (&amp;, &#38;).
AmpWords(c) ==
  Cardinality({i \in DOMAIN c : c[i] = "amp" \/ (c[i] = "38" /\ i > 1 /\ c[i - 1] = "#")})

\* The backslashes of c that another backslash follows: the pairs the
\* '\\\\<' normalisation removes one run at a time.
BackslashPairs(c) == Cardinality({i \in 1..Len(c) - 1 : c[i] = "\\" /\ c[i + 1] = "\\"})

\* fix_markdown_file would leave c as it is.
Settled(c) == FixMarkdown(c) = [ok |-> TRUE, out |-> c]

(***************************************************************************)
(* Reruns settle: every complete write either removes an entity that    *)
(* decodes to '&' or a backslash of a doubled escape, or leaves a file    *)
(* that the next visit does not change.  So a file is written at most     *)
(* once more than it has such words and pairs.  An escape that re-escapes *)
(* its own output, a decoder that produces entities it did not consume,   *)
(* or a normalisation that adds backslashes keeps rewriting the file.     *)
(***************************************************************************)
EachWriteProgresses ==
  [][\A f \in Files :
       disk'[f] # disk[f] /\ status' = "running" =>
         \/ AmpWords(disk'[f]) + BackslashPairs(disk'[f]) < AmpWords(disk[f]) + BackslashPairs(disk[f])
         \/ Settled(disk'[f])]_vars


\* The YAML block c starts with: a '---' line up to the next line that is
\* exactly '---'; <<>> when c has none.
YamlBlock(c) ==
  LET closers == {e \in 3..Len(c) : c[e - 1] = "\n" /\ c[e] = "---"
                                    /\ (e = Len(c) \/ c[e + 1] = "\n")}
  IN IF Len(c) >= 2 /\ c[1] = "---" /\ c[2] = "\n" /\ closers # {}
     THEN SubSeq(c, 1, Min(closers)) ELSE <<>>

(***************************************************************************)
(* Frontmatter invariance (specification, sections 6 and 8): the        *)
(* frontmatter of a document, the block from its first '---' line to the  *)
(* next line that is exactly '---', is passed through byte-identical: the *)
(* file still starts with it after every run that left it non-empty.      *)
(***************************************************************************)
FrontmatterKept ==
  \A f \in Files : YamlBlock(orig[f]) # <<>> /\ disk[f] # <<>> => IsPrefix(YamlBlock(orig[f]), disk[f])

(***************************************************************************)
(* No content is lost (specification, section 5: the write is whole-buffer *)
(* and a failure leaves the original untouched): a file is empty only if   *)
(* it started empty.                                                       *)
(***************************************************************************)
NoContentLost == \A f \in Files : disk[f] = <<>> => orig[f] = <<>>

=============================================================================
