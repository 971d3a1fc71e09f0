# TLA+ models of the documentation maintenance scripts

This directory holds TLA+ models of the two scripts of the repository, the TLC
configurations that check them, and the results.

- `src/fix_mdx.py` repairs Markdown files for the MDX compiler.
- `src/scripts/fix-doc-links.py` rewrites broken documentation links.

Both scripts run sequentially: there are no threads, messages or timeouts. The
hard part is the control flow of the text passes. That means a lookahead
scanner with a mutable "inside a block" flag, two passes that each
re-derive which lines are code, and regular expressions applied to the
whole file. It also means what happens when the scripts run again on their own output.
The models check that control flow over every small document.

## Inventory

### fix_mdx.py

`fix_markdown_file` runs these steps on one file, in this order:

| step | function | state | what it does |
|---|---|---|---|
| 0 | `split_frontmatter` (28-48) | none | splits a leading `---` … `\n---` block off; only the body is transformed |
| 1 | `decode_html_entities` (51-57) | none | replaces named entities in table order, then `&#N;` by `chr(N)` |
| 2 | `fix_fragmented_blocks` (108-200) | `i`, `result`, `in_code_block`, `code_lang` | at a bare fence closing a block, looks ahead past at most one blank line for an *orphan run*: a run of code lines left outside the block. If it finds one, it emits the run and then a new closing fence |
| 3 | `remove_empty_code_blocks` (260-264) | none | two `re.sub` calls on the joined text, meant to delete empty fence pairs |
| 4 | `escape_jsx_patterns` (203-257) | its own `in_code_block` | escapes `<digit`, `<-`, `{}`, `{{`/`}}` and `{word}` on mermaid lines, outside code blocks |
| 5 | write back (289-296) | the file | writes only if the content changed |

`is_code_continuation` (60-83) and `is_markdown_text` (86-105) are the two
line classifiers. The lookahead calls them in a fixed order.
`process_path` (299-321) walks a directory, or takes a single file, and calls
`fix_markdown_file` once per `.md` file, counting the files it rewrote.
`__main__` (324-332) calls it once per argument and sums the counts. It keeps
no record of the files already fixed, so overlapping arguments fix a file
twice. No argument, or a missing path, exits before the total is printed. Nothing catches an
exception. A file that is not UTF-8, a `chr()` out of range, or a write that
cannot encode its text ends the whole run.

How the parts interact: each step reads the text the previous step returned.
Steps 2 and 4 each recompute which lines are inside a block, each with its own
fence rule, so they can disagree. Step 3 works on raw text and does not check
which fences open a block and which close one. A rerun of the script reads
what the last run wrote.

Properties that make it correct:
- scanner: code stays code, only orphan runs that start with code enter a
  block, and no content is lost or reordered;
- scanner: idempotence (the specification, section 8);
- removal: only empty blocks are removed;
- escaping: exactly the lines outside blocks are escaped, by the same fence
  rule as the scanner;
- decoding: one level of decoding, and total on all inputs;
- frontmatter: passed through unchanged;
- reruns settle, and a failure does not destroy a file.

### fix-doc-links.py

`fix_file` (15-257) reads one file and applies 31 rewrite rules in order.
Rules 11, 17 and 18 loop over several names, so there are 40 (pattern,
replacement) pairs. Each pair is a `re.search` or substring test, then a
`re.sub`/`replace` of every match, then `local_changes += 1`. Rule 16 (132-141) runs only when
the file's `depth` (`len(rel_path.parts) - 1`) is 3 and `integrations`
occurs in its path. It then adds a `../` to every `../../api-docs` link,
but only if no `../../../api-docs` occurs anywhere in the file. Rule 30 runs
only in files under `examples`. The function writes the file (`write_text`:
truncate, then write) if the content changed. Only then does it add the file to
`files_modified` and `local_changes` to `changes_made`. A read error is caught
and skips the file; a write error is not caught and ends the run. `main`
(260-276) calls `fix_file` on every `.md` file in sorted order and prints the
counters.

Properties that make it correct:
- the printed summary is true;
- reruns stop changing the tree (the specification says both scripts are
  idempotent);
- a link at the right depth for its file stays there.

### Hazards

`PROJECT.json` lists the hazards with their lines. The main ones:
- a rerun of the scanner merges more code;
- the empty-block regex joins the closing fence of one block to the opening fence of the next;
- the escape pass tracks fences with a different rule;
- decoding creates fences or decodes twice;
- the output file is truncated before it is written;
- rules 15 and 16 of the link rewriter undo each other on a rerun.

## Modules

| module | models | state ↔ code |
|---|---|---|
| `MdxLines` | line abstraction and classifiers | see below |
| `FragmentScanner` | `fix_fragmented_blocks` | `lines`, `i`, `result`, `in_code_block`, `code_lang` are the function's locals; `origin` is a history variable (input index of each emitted line). Actions: `OpenLangFence`, `CloseWithOrphans`, `CloseFence`, `ToggleFence`, `CopyLine`: one per branch of the loop body. The lookahead loops are `BlankEnd` and the recursive `Collect`, evaluated inside the closing-fence actions as in the code |
| `ScannerSpec` | what `fix_fragmented_blocks` promises | `lines`, `consumed`, `out`, `open`. `Copy` copies a line that is not a fence, and `PassFence` copies a fence and applies the fence rule. `MoveFence` moves a bare fence that closes a block past 0 or 1 blank lines (dropped) and any non-empty run of `Orphan` lines, the first of them code, and writes `'```'` after the run. How long the run is, is left open. `FragmentScanner` implements it under `consumed <- i - 1`, `out <- result`, `open <- in_code_block` (`Abs`, `ImplementsScannerSpec`) |
| `FixMarkdownFile` | `fix_markdown_file` on a body | `phase` is the step; `DecodeHtmlEntities`, `FixFragmentedBlocks` (an `INSTANCE` of `FragmentScanner`, one loop iteration per step), `RemoveEmptyCodeBlocks` (both regexes, `RemoveFencePairs`), `EscapeFenceLine`/`EscapeCodeLine`/`EscapeTextLine` (one loop iteration of `escape_jsx_patterns`), `WriteBack` |
| `ScannerRerun` | the scanner run twice, the second run over the first run's output | two `INSTANCE`s of `FragmentScanner` |
| `EntityDecoder` | `decode_html_entities` at character level | `input`, `content` (the local), `k` (the position in `HTML_ENTITIES`), `status`. `ReplaceStep` is one `str.replace` of the loop (`Replace`: left to right, never rescanning its output). `SubNumericStep` is the `re.sub` of `&#(\d+);` by `chr`, which raises above 0x10FFFF and yields a lone surrogate in D800-DFFF. `DecodeHtmlEntities` is the whole function, for callers. `OneLevel` is the reference decoder |
| `MdxDriver` | `__main__`, `process_path`, and `fix_markdown_file` on fence-free files | `disk`, `argv`, `arg` (the argument being processed), `idx` (the position in its walk), `fixed`, `total`, `status`, `run`; histories `orig` and `writes`. An argument is `[found, walk]`: the `.md` files its walk yields, or a missing path. `FixMarkdown` is `SplitFrontmatter`, `EntityDecoder`'s `DecodeHtmlEntities` (an `INSTANCE`), and `EscapeJsxPatterns`. Actions: `Usage` (no argument: `sys.exit(1)`), `ReadFails`, `DecodeRaises`, `Unchanged`, `Rewrite`, `WriteFails` (the file truncated: empty after an encode error, any strict prefix after an I/O error or interrupt when `WriteMayFail`; run ends), `EndOfPath` (`total += fixed`), `PathNotFound` (`sys.exit(1)`), `Finish`, `Rerun` (any arguments) |
| `LinkRewriter` | `fix_file`'s rewriting | a file's content is the sequence of its link targets `[base, up, dir, file]` (`up` = number of `../`). `RulesBefore16` and `RulesAfter16` are the rule table in code order; each entry is the fields its regex fixes and the fields its replacement writes. `ApplyRules` applies them in order and counts the ones that fire (`Fires`), `ApplyRule16` is rule 16. `FixFile` returns the new content and `local_changes` |
| `LinkDriver` | `main` and `fix_file`'s I/O | `disk`, `idx`, `changes_made`, `files_modified`, `status`; histories `orig`, `before` (content when the run started) and `writes` (complete writes). Actions: `ReadError`, `FixUnchanged`, `FixAndWrite`, `WriteFails` (a strict prefix left, run aborted), `Finish`, `Rerun` (the script started again on the tree it left) |
| `MC*` | model values for TLC | line, token and link sets, files and bounds |

**Line abstraction.** A line is `[ind, text]`. `ind` is the indentation (0 or 4
spaces). `text` is the stripped content, one of a small set of
representative lines. Each representative stands for the class of real
lines that every regular expression of the script treats alike. Examples are a
heading, a list item, a sentence of more than ten words, `}`, `x := T{}`,
`ch <- v`, their entity-encoded and escaped forms, and fences. TLA+ strings cannot contain a
backtick, so `<fence>` stands for three backticks. The classifiers make the
code's checks in the code's order. Each regular expression is evaluated once,
by hand, on the representatives (comments in `MdxLines`). Decoding and escaping
are tables from each representative to what the code turns it into. The
empty-block regex is translated to lines. A match is a line ending in three
backticks, the whitespace-only lines after it, and a line starting with three
backticks in column 0. The match is cut out, which joins the text before it
and the text after it into one line. Matches are taken left to right without overlap.

**Token abstraction.** `EntityDecoder` and `MdxDriver` work on strings as
sequences of tokens:
- the characters `&`, `#`, `;`, `<`, `\`, a space, `\n`;
- `---` and `-` (a line `----` is `---` then `-`);
- whole runs of letters (`amp`, `lt`, `quot`) or digits (`38`, `55296`).

Every entity is `&`, one word and `;`. So a substring test for an entity is
the same test on tokens, provided no two word tokens are adjacent. The inputs
respect this, and no replacement breaks it. `int()` and `chr()` are tables
over the digit runs used, plus `chr`'s two edges. On these files the scanner
copies every line and the empty-block regexes never match. Of the escapes,
only the `\\<` normalisation and the `<` before a digit, or before a `-` not
followed by a letter, can fire. So
`MdxDriver`'s `FixMarkdown` is the whole of `fix_markdown_file` for them.

## Runs

| run | cfg | expect | shows |
|---|---|---|---|
| `scanner_safety` | `MCFragmentScanner.cfg` | pass | `CodeStaysCode`, `OnlyCodeEntersCode`, `ContentPreserved` hold for every document of ≤5 lines over 10 lines (3 fence kinds, blank, heading, `}`, `ch <- v` unindented and indented, indented list item, indented long prose). Under weak fairness of the loop, the scanner implements `ScannerSpec` and reads every body to its end (`ImplementsScannerSpec`). 650k states, about 20 s |
| `pipeline_escape` | `MCFixMarkdownFile.cfg` | pass | every body of ≤5 lines over bare and tagged fences (one indented), a bare fence written as `&#96;&#96;&#96;`, a blank, a heading and two JSX-sensitive Go lines: when the decoded body has an even number of fence lines, so has the file written (`FenceBalance`, spec §8), through the scanner's moved fences and the removal pass's cuts. 500k states, 5 s |
| `escape_brace_fence` | `MCFixMarkdownFileBrace.cfg` | violation | ```` ```{r} ```` followed by `x := T{}`. The scanner treats the fence as opening a block; the escape pass ignores it and escapes the code |
| `empty_block_removal` | `MCFixMarkdownFileRemoval.cfg` | violation | over documents whose blocks all open with a language tag (`TaggedSpec`), the empty-block regex cuts a closing fence and the first three backticks of the next opening fence: ```` ```go / ``` / ```go ```` becomes ```` ```go / go ````, one block whose code is the line `go`. In Python, ```` ```go / a / ``` / (blank) / ```go / b / ``` ```` likewise becomes ```` ```go / a / go / b / ``` ```` |
| `scanner_idempotence` | `MCScannerRerun.cfg` | violation | ```` ```go / ``` / } / (blank) / } ```` — the first run merges the first `}` and keeps the blank line after the new closing fence: ```` ```go / } / ``` / (blank) / } ````. The second run drops that blank line and merges the second `}` |
| `entity_decode` | `MCEntityDecoder.cfg` | pass | every well-tokenized string of ≤6 tokens over `& # ; space lt 38 39 1114112`. Without `&amp;`, the nine replaces and the `re.sub` give what the one-level decoder gives, raising where it raises. Examples: `&#38;lt;` stays `&lt;`, and `&#39;` in the table agrees with the numeric pass. 1.1M states |
| `entity_double_decode` | `MCEntityDoubleDecode.cfg` | violation | `&amp;quot;` decodes to `"`, not `&quot;` |
| `mdx_driver` | `MCMdxDriver.cfg` | pass | two files, two runs, each `fix_mdx.py docs docs/notes.md` (notes fixed twice), `fix_mdx.py docs/notes.md <missing>` or `fix_mdx.py` with no argument, with read errors. A page with frontmatter (an entity inside it) and a body of ≤3 tokens, or the frontmatter `---\n----\n&amp;\n---`. A page with a body of ≤3 tokens, or one of eight cases (`38&#55296;`, `&#1114112;`, `&amp;lt;38`, `&amp;amp;lt;`, `&#38;lt;`, `<-`, `<-lt`, `\\\<38`). Every action fires. Every write removes an `&amp;`/`&#38;` entity or a doubled backslash, or leaves a file the next visit does not change (`EachWriteProgresses`, an action property). A write may fail after `open(..., 'w')` truncated the file: an unencodable character leaves it empty, an `OSError` or an interrupt any strict prefix of the new text. 2.2M states, about 2 minutes |
| `mdx_frontmatter` | `MCMdxFrontmatter.cfg` | violation | `---\n----\n&amp;\n---` is rewritten to `---\n----\n&\n---`: the frontmatter ends inside `----`, and the rest of it is decoded |
| `mdx_content_lost` | `MCMdxContentLost.cfg` | violation | a page with frontmatter and `&#55296;` is left empty |
| `link_driver` | `MCLinkDriver.cfg` | pass | two files (an example page at depth 2, an integration page at depth 3). Each has ≤2 links, drawn from 8: api-docs links at `../../` and `../../../`, `server.md`, a removed package, an `/api/packages/` link, a `/pkg/` link, a use-case link. Three runs, with read errors and writes that fail after truncating. `files_modified` and `changes_made` match the files the run changed, and no file is completely written by more than two runs. 800k states |
| `link_depth` | `MCLinkDepth.cfg` | violation | a depth-3 integration page with `../../../api-docs/packages/server.md` and `../../../api-docs/packages/core.md`, both correct: one run moves `server.md` to `../../` |

Each passing property has a mutant in `PROJECT.json`: a plausible bug in the
mapped code that TLC catches. For the scanner:
- no state reset after a merge;
- resuming one line late;
- no Markdown stop in the orphan scan;
- the language taken with the fence marker.

For the pipeline, the empty-block match stopping before the second fence,
as a look-ahead `(?=```)` would.

For the decoder and the driver:
- the table's pairs unpacked the wrong way round;
- the numeric pattern without its `;`;
- the `(?<!\\)` look-behind of the `<` escapes dropped (reruns then keep escaping);
- the scanner's 0-or-1 blank-line test dropped (breaks `ImplementsScannerSpec`);
- `fixed` not reset for the next path.

For the link script:
- rule 16 without its `../../../api-docs` test (reruns never stop deepening);
- its replace applied to every link;
- `local_changes` counted for a file that was not written.

**Bounds.** Documents have at most 5 lines. The findings need 2-5 lines.
Every branch of the lookahead is reached within 5 lines: 0, 1 and 2 blank
lines after a close, a stop at a heading, a fence or Markdown text, and a run of two
orphans. Both patterns of the empty-block regex are reached, as are blocks
opened by either fence kind. The line sets differ per run to keep each run under
a minute. Each set holds the representatives that run's property can tell apart.

**Token bounds.** Entities are 3-4 tokens, so 6 tokens hold an entity and
what a decoded `&` can join, e.g. `&#38;lt;`. The driver's generated bodies
are shorter, to keep the run near a minute. The chains that need more tokens
are listed as whole contents. Two runs over the overlapping arguments visit
`notes.md` four times. That is enough to see a two-level `&amp;amp;lt;`, and
three backslashes before `<`, settle. The surrogate entity follows a word, so a
failed encode is told apart from a failed flush that keeps a prefix.

**Link bounds.** Rules only ever match a single link, so two links per file are
enough for the whole-content test of rule 16 to matter (one link blocks the
other). Two files show the counters summing across files, three runs show
convergence, and the ≤2-link files keep the driver run under a minute.
The rule table is complete; the link sets pick the links whose rules
interact (1 → 16, 10 → 16, 11 → 16, 15 ↔ 16, 3, 30). The other rules rewrite a
link no later rule matches again.

**Fairness and deadlock.** The scripts are terminating batch programs that
run in one thread and never wait. So a step that is enabled is eventually
taken: `FragmentScanner`'s `FairSpec` adds `WF_vars(Next)`, and `ScannerSpec`'s
`ASpec` asks `WF_avars(ANext)`. The refinement then also checks that the
`while` loop reaches the end of the body. That loop moves its index by hand,
to `j` after a merge. The drivers' loops are `for` loops over a finite list,
and reruns are bounded by `MaxRuns`. There is no fairness on reruns, because
a person decides whether to run the script again. The configurations say
`CHECK_DEADLOCK FALSE` because the final state of a pass or of the last run
has no successor.

## Findings

1. **Scanner not idempotent** (`scanner_idempotence`): the specification claims
   `scan(scan(x)) == scan(x)`. The code drops the blank line before an orphan run
   and stops the run at the next blank, so the next run finds more orphans.
2. **Empty-block removal joins separate blocks** (`empty_block_removal`): any
   two fenced blocks separated only by blank lines (or none), the second with
   a language tag, become one block whose code gains the tag as a line. The pattern
   cannot tell a closing fence from an opening one.
3. **Escape pass uses a different fence rule** (`escape_brace_fence`): a fence
   whose remainder does not start with a letter toggles the scanner's state
   but not the escape pass's. The specification says they use the same rule.
4. **Entities decoded twice** (`entity_double_decode`): `&amp;` is replaced
   before `&quot;` and `&#39;` and before the numeric pass, so `&amp;quot;`
   and `&amp;#91;` lose two levels in one run.
5. **Frontmatter is decoded after a `----` line** (`mdx_frontmatter`):
   `split_frontmatter` looks for the first `\n---` after the opening `---`,
   and a YAML line `----` matches it. The frontmatter then ends after the
   first three dashes of that line, and the lines after it are decoded and
   escaped as body. The specification (sections 6 and 8) says a valid
   frontmatter block is passed through byte-identical. Also checked in
   Python on the real function.
6. **A surrogate entity empties the file** (`mdx_content_lost`): `&#55296;`,
   or an emoji written as a surrogate pair (`&#55357;&#56832;`), decodes to a
   lone surrogate. `open(..., 'w')` has already truncated the file when
   `f.write` fails to encode it. The file, frontmatter included, is left empty,
   and the run ends. The specification says a failure leaves the original
   untouched. `fix-doc-links.py` writes the same way (line 251; `WriteFails`).
7. **Rule 15 breaks correct links** (`link_depth`): in depth-3 integration pages
   rule 15 moves a correct `../../../api-docs/packages/server.md` to `../../`.
   Rule 16 cannot move it back while any other `../../../api-docs` link is in
   the file. A rerun over a page rule 16 fixed therefore breaks the server
   link again, so the link script is not idempotent either. It does settle
   within two runs (`ConvergesInTwoRuns`).

Also observed: reruns keep decoding. Text that shows an entity literally,
`&amp;lt;`, becomes `&lt;` on the first run and `<` on the second, even
with a one-level decoder. Doubled escapes do the same: `line.replace('\\\\<',
'\\<')` (line 231) removes one backslash per run and does not rescan, so
`\\\<38` becomes `\\<38` and then `\<38`; the same holds for `\{` and `\}`.
The specification says the script is idempotent. The bound "written at most
once more than its `&amp;` entities" was true only of bodies too short to
hold three backslashes before a `<`; `EachWriteProgresses` counts the doubled
backslashes as well, and is checked write by write.

Also observed: a fence made by decoding unbalances the file. Spec §8 says
a file with balanced fences is written with balanced fences. `FenceBalance`
holds on the body as decoding leaves it, but on the file as read it fails:
`` ```go / x := T{} / ``` / &#96;&#96;&#96; / See <5ms and {} here `` is
written as `` ```go / x := T{} / (blank) / See <5ms and {} here ``. The
empty-block pattern cuts the closing fence together with the decoded one, so
the block stays open and the prose after it is not escaped. Seen with TLC on
`FixMarkdownFile` and in Python on the real functions (decoding at line 278).

Also observed: `&#1114112;` makes `chr()` raise `ValueError`, which nothing
catches (`DecodeRaises`). The specification (4.2) calls decoding total.

## Not modelled (yet), and why

- The directory filter of `os.walk` and the walk order: an argument's walk is
  a fixed list of files. Every print, and the exit status.
- Fences and frontmatter in the same file: `FixMarkdownFile` has fences and no
  frontmatter, while `MdxDriver` has frontmatter and entities but no fences.
  A bare fence written with entities (`&#96;&#96;&#96;`) is a representative
  line of `FixMarkdownFile`; an entity that decodes to a newline (`&#10;`)
  would split a line and is in neither alphabet.
- The indentation of a re-closed fence (line 176): the scanner, the escape
  pass and the empty-block pattern treat an indented and a column-0 bare fence
  alike, so no state of the line model tells them apart. The difference is in
  how an MDX renderer nests the block in a list item, and nothing in the
  specification or the code says which indentation the new fence keeps.
- The link script's prose outside links, and every print. Links in code blocks
  are rewritten like any other, because the script has no notion of blocks.
- Files do not change during a run except through the script itself.

## Plan

1. *(done)* `MdxLines`, `FragmentScanner` and `MCFragmentScanner`: the core scanner
   and its safety properties.
2. *(done)* `FixMarkdownFile`: the pipeline of one file, with the removal and
   escape passes. `ScannerRerun`: idempotence.
3. *(done)* `LinkRewriter`: all 31 rules; `LinkDriver`: `main`, faults, reruns.
4. *(done)* `EntityDecoder`: the character-level decoder against a one-level
   reference. `MdxDriver`: `process_path` with the frontmatter split, decoding,
   escapes, uncaught exceptions and reruns.
5. *(done)* A fence written with entities, fed into `FixMarkdownFile`;
   fence balance through the passes.
6. *(done)* `ScannerSpec`, the abstract scanner, and the refinement with
   fairness.
7. *(done)* `__main__`'s loop over several arguments, and the missing path.
8. *(done)* Writes that fail after truncating; every write makes progress
   (`EachWriteProgresses`); `__main__` without arguments.
