----------------------------- MODULE LinkRewriter -----------------------------
(***************************************************************************)
(* fix_file(file_path) of src/scripts/fix-doc-links.py as a function of a  *)
(* file's place under docs/ and of its content.                            *)
(*                                                                         *)
(* The content of a file is the sequence of its link targets, in document *)
(* order: every rule is a global replace, so each occurrence of a link is  *)
(* rewritten alike and only the links tell the rules apart.  A link is a   *)
(* record [base, up, dir, file]:                                          *)
(*   base "rel"  a relative path, "./" when up = 0, else up times "../"    *)
(*        "root" a path starting with "/"                                  *)
(*        "gh"   a https://github.com/lookatitude/beluga-ai/... URL        *)
(*        "text" a link the script removed, keeping only its label         *)
(*   dir, file   the path after the prefix ("" for the current directory).*)
(* Each rule is an entry of a table: the fields its regular expression     *)
(* fixes (`pat`) and the fields its replacement writes (`to`).  A pattern  *)
(* that starts with [^)]* leaves base and up free.                         *)
(***************************************************************************)
EXTENDS Integers, Sequences, SequencesExt, TLC

Link(b, u, d, f) == [base |-> b, up |-> u, dir |-> d, file |-> f]

\* re.sub(r'\[([^\]]+)\]\(...\)', r'\1', ...): the link is gone, its label stays.
Removed == Link("text", 0, "", "")

\* A GitHub URL keeps the path after the prefix.
ToGitHub == [base |-> "gh", up |-> 0]

Rule(pat, to) == [pat |-> pat, to |-> to, when |-> "always"]

Matches(r, l) == \A fld \in DOMAIN r.pat : l[fld] \in r.pat[fld]

Rewrite(r, l) == IF Matches(r, l) THEN r.to @@ l ELSE l

Rel(u) == [base |-> {"rel"}, up |-> {u}]

MissingApiDocs ==
  <<"messaging.md", "documentloaders.md", "safety.md", "multimodal.md", "textsplitters.md">>

(***************************************************************************)
(* Rules 1-15, in the order of the code.                                   *)
(***************************************************************************)
RulesBefore16 ==
  << Rule([dir |-> {"api/packages"}], [dir |-> "api-docs/packages"]),             \* 1
     Rule([dir |-> {"use-cases"}, file |-> {"batch-processing.md"}],
          [file |-> "11-batch-processing.md"]),                                   \* 2
     Rule([base |-> {"root"}, dir |-> {"pkg"}], ToGitHub),                       \* 3
     Rule([base |-> {"root"}, dir |-> {"examples"}], ToGitHub),                  \* 4
     Rule([base |-> {"root"}, dir |-> {"specs"}], ToGitHub),                     \* 5
     Rule([dir |-> {"guides"}, file |-> {"config-providers.md"}],
          Link("rel", 1, "guides", "implementing-providers.md")),                 \* 6
     Rule(Rel(0) @@ [dir |-> {""}, file |-> {"event-driven-agents.md"}],
          [file |-> "09-multi-model-llm-gateway.md"]),                            \* 7
     Rule(Rel(0) @@ [dir |-> {""}, file |-> {"distributed-orchestration.md"}],
          [file |-> "07-distributed-workflow-orchestration.md"]),
     Rule(Rel(0) @@ [dir |-> {""}, file |-> {"README.md"}], Removed),            \* 8
     Rule(Rel(1) @@ [dir |-> {"guides"}, file |-> {"configuration.md"}],
          [file |-> "implementing-providers.md"]),                                \* 9
     Rule([dir |-> {"api-docs/packages/voice"}, file |-> {"s2s.md"}],
          Link("rel", 2, "api-docs/packages/voice", "session.md")) >>             \* 10
  \o [k \in 1..5 |-> Rule([dir |-> {"api-docs/packages"},
                           file |-> {MissingApiDocs[k]}], Removed)]              \* 11
  \o << Rule(Rel(1) @@ [dir |-> {"getting-started/tutorials"},
                        file |-> {"working-with-tools.md"}],
             [dir |-> "getting-started", file |-> "04-working-with-tools.md"]),  \* 12
        Rule([base |-> {"root"}, dir |-> {"docs/providers/embeddings"},
              file |-> {"selection.md"}],
             Link("rel", 1, "guides", "rag-multimodal.md")),                      \* 13
        Rule(Rel(3) @@ [dir |-> {"tutorials"}], [up |-> 2]),                      \* 14
        Rule(Rel(3) @@ [dir |-> {"api-docs/packages"}, file |-> {"server.md"}],
             [up |-> 2]) >>                                                       \* 15

(***************************************************************************)
(* Rule 16.  `depth` is len(rel_path.parts) - 1 and `integ` says that      *)
(* 'integrations' occurs in the path; the rule runs at depth 3 only.  Its  *)
(* two tests are substring tests over the whole content: '../../api-docs'  *)
(* occurs in a relative api-docs link with two or more "../", and          *)
(* '../../../api-docs' in one with three or more.  The replace then adds  *)
(* one "../" to every link that contains '../../api-docs'.                 *)
(***************************************************************************)
ApiDocs == {"api-docs/packages", "api-docs/packages/voice"}

Has2(l) == l.base = "rel" /\ l.up >= 2 /\ l.dir \in ApiDocs

Has3(l) == l.base = "rel" /\ l.up >= 3 /\ l.dir \in ApiDocs

\* Mutant: the test for '../../../api-docs' is dropped.
Rule16AppliesUnguarded(fi, c) ==
  fi.depth = 3 /\ fi.integ /\ \E k \in DOMAIN c : Has2(c[k])

Rule16Applies(fi, c) ==
  /\ fi.depth = 3 /\ fi.integ
  /\ \E k \in DOMAIN c : Has2(c[k])
  /\ ~\E k \in DOMAIN c : Has3(c[k])

\* Mutant: the replace adds "../" in front of every link.
DeeperAll(l) == [l EXCEPT !.up = @ + 1]

Deeper(l) == IF Has2(l) THEN [l EXCEPT !.up = @ + 1] ELSE l

(***************************************************************************)
(* Rules 17-31.  Rule 30 runs only in files whose path contains            *)
(* 'examples'; its outer test that 'voice-sessions.md' occurs in the       *)
(* content is implied by its regular expression, and the replace it guards *)
(* replaces the string by itself.                                          *)
(***************************************************************************)
RootDocs == <<"README.md", "CONTRIBUTING.md", "CHANGELOG.md">>

RulesAfter16 ==
  [k \in 1..3 |-> Rule(Rel(1) @@ [dir |-> {""}, file |-> {RootDocs[k]}], ToGitHub)]  \* 17
  \o [k \in 1..3 |-> Rule(Rel(2) @@ [dir |-> {""}, file |-> {RootDocs[k]}], ToGitHub)] \* 18
  \o << Rule(Rel(1) @@ [dir |-> {"examples"}], ToGitHub),                        \* 19
        Rule(Rel(2) @@ [dir |-> {"examples"}], ToGitHub),                        \* 20
        Rule(Rel(2) @@ [dir |-> {"pkg"}], ToGitHub),                             \* 21
        Rule(Rel(3) @@ [dir |-> {"pkg"}], ToGitHub),                             \* 22
        Rule([dir |-> {"website/docs/api"}], Link("rel", 0, "", "api-reference.md")), \* 23
        Rule(Rel(0) @@ [dir |-> {"patterns"}, file |-> {""}], [file |-> "README.md"]),     \* 24
        Rule(Rel(0) @@ [dir |-> {"guides"}, file |-> {""}], [file |-> "llm-providers.md"]), \* 25
        \* ./providers/<name>/ only, with its trailing '/'; "x" stands for <name>
        Rule(Rel(0) @@ [dir |-> {"providers/x"}, file |-> {""}],
             ToGitHub @@ [dir |-> "pkg/x"]),                                     \* 26
        Rule(Rel(0) @@ [dir |-> {""}, file |-> {"TEST_ISSUES_SUMMARY.md"}], Removed), \* 27
        Rule(Rel(2) @@ [dir |-> {"integrations"}], [up |-> 1]),                  \* 28
        Rule(Rel(1) @@ [dir |-> {""}, file |-> {"voice-providers.md"}],
             Link("rel", 2, "guides", "voice-providers.md")),                    \* 29
        [Rule([dir |-> {"use-cases"}, file |-> {"voice-sessions.md"}],
              Link("rel", 2, "use-cases", "voice-session-multi-turn-forms.md"))
           EXCEPT !.when = "examples"],                                          \* 30
        Rule(Rel(3) @@ [dir |-> {"examples"}], ToGitHub) >>                      \* 31

(***************************************************************************)
(* One rule: if re.search(pattern, content) finds a link, re.sub rewrites  *)
(* every link it matches and local_changes goes up by one.  `acc` is the   *)
(* content so far and local_changes.                                       *)
(***************************************************************************)
Fires(fi, c, r) ==
  /\ r.when = "always" \/ fi.examples
  /\ \E k \in DOMAIN c : Matches(r, c[k])

RewriteAll(r, c) == [k \in DOMAIN c |-> Rewrite(r, c[k])]

RECURSIVE ApplyRules(_, _, _)
ApplyRules(fi, acc, rs) ==
  IF rs = <<>> THEN acc
  ELSE IF Fires(fi, acc.links, Head(rs))
       THEN ApplyRules(fi, [links |-> RewriteAll(Head(rs), acc.links), n |-> acc.n + 1],
                       Tail(rs))
       ELSE ApplyRules(fi, acc, Tail(rs))

ApplyRule16(fi, acc) ==
  IF Rule16Applies(fi, acc.links)
  THEN [links |-> [k \in DOMAIN acc.links |-> Deeper(acc.links[k])], n |-> acc.n + 1]
  ELSE acc

\* fix_file's rewriting: the content it would write and its local_changes.
FixFile(fi, c) ==
  ApplyRules(fi, ApplyRule16(fi, ApplyRules(fi, [links |-> c, n |-> 0], RulesBefore16)),
             RulesAfter16)

=============================================================================
