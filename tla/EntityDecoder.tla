---------------------------- MODULE EntityDecoder ----------------------------
(***************************************************************************)
(* decode_html_entities(content) of src/fix_mdx.py, at character level.   *)
(*                                                                         *)
(* A string is a sequence of tokens: the characters "&", "#", ";" and " " *)
(* (any other non-word character), and the maximal runs of letters or of  *)
(* digits that an entity can contain ("amp", "lt", "38", ...).  Since     *)
(* every entity is "&" word ";", a substring test for an entity on the    *)
(* string is the same test on tokens as long as no two word tokens are    *)
(* adjacent, which the inputs respect and no replacement creates (every   *)
(* replacement is a single non-word character).                           *)
(*                                                                         *)
(* The function is a loop over HTML_ENTITIES, one str.replace per entry,  *)
(* then one re.sub of every numeric entity by chr(int(digits)).  `k` is   *)
(* the loop position; k = Len(HTML_ENTITIES) + 1 is the re.sub.            *)
(***************************************************************************)
EXTENDS Integers, Sequences, SequencesExt

\* The digit runs and their int() values.
NumVal == [t \in {"38", "39", "91", "93", "123", "125", "55296", "1114112"} |->
             CASE t = "38" -> 38 [] t = "39" -> 39 [] t = "91" -> 91
               [] t = "93" -> 93 [] t = "123" -> 123 [] t = "125" -> 125
               [] t = "55296" -> 55296 [] t = "1114112" -> 1114112]

Numbers == DOMAIN NumVal

Names == {"amp", "lt", "gt", "quot"}

Words == Numbers \cup Names

\* A lone UTF-16 surrogate, which str holds but UTF-8 cannot encode.
Surrogate == "<surrogate>"

HTML_ENTITIES ==
  << <<<<"&", "#", "91", ";">>, "[">>,   <<<<"&", "#", "93", ";">>, "]">>,
     <<<<"&", "#", "123", ";">>, "{">>,  <<<<"&", "#", "125", ";">>, "}">>,
     <<<<"&", "lt", ";">>, "<">>,        <<<<"&", "gt", ";">>, ">">>,
     <<<<"&", "amp", ";">>, "&">>,       <<<<"&", "quot", ";">>, "\"">>,
     <<<<"&", "#", "39", ";">>, "'">> >>

(***************************************************************************)
(* chr(n): ValueError above 0x10FFFF, a lone surrogate in D800-DFFF, else *)
(* the character.  A result is [ok, out].                                  *)
(***************************************************************************)
CharOf == [n \in {38, 39, 91, 93, 123, 125} |->
             CASE n = 38 -> "&" [] n = 39 -> "'" [] n = 91 -> "["
               [] n = 93 -> "]" [] n = 123 -> "{" [] n = 125 -> "}"]

Chr(n) ==
  CASE n > 1114111            -> [ok |-> FALSE, out |-> <<>>]
    [] n \in 55296..57343     -> [ok |-> TRUE, out |-> <<Surrogate>>]
    [] OTHER                  -> [ok |-> TRUE, out |-> <<CharOf[n]>>]

\* Output t followed by the result r of the rest of the string.
Then(t, r) == IF r.ok THEN [ok |-> TRUE, out |-> t \o r.out] ELSE r

\* s has pat at position i.
At(s, i, pat) == i + Len(pat) - 1 <= Len(s) /\ SubSeq(s, i, i + Len(pat) - 1) = pat

(***************************************************************************)
(* str.replace(pat, rep): scan left to right, replace each occurrence and *)
(* go on after it in the original; the output is never scanned again.     *)
(***************************************************************************)
RECURSIVE Replace(_, _, _)
Replace(s, pat, rep) ==
  IF s = <<>> THEN <<>>
  ELSE IF At(s, 1, pat) THEN rep \o Replace(SubSeq(s, Len(pat) + 1, Len(s)), pat, rep)
  ELSE <<Head(s)>> \o Replace(Tail(s), pat, rep)

\* Mutant: the pair unpacked the wrong way round (for char, entity in ...).
ReplaceEntrySwapped(s, k) == Replace(s, <<HTML_ENTITIES[k][2]>>, HTML_ENTITIES[k][1])

\* One iteration of the for loop.
ReplaceEntry(s, k) == Replace(s, HTML_ENTITIES[k][1], <<HTML_ENTITIES[k][2]>>)

\* Mutant: the pattern without its closing ';'.
NumericAtNoSemicolon(s) == Len(s) >= 3 /\ s[1] = "&" /\ s[2] = "#" /\ s[3] \in Numbers

\* &#(\d+); at the head of s
NumericAt(s) == Len(s) >= 4 /\ s[1] = "&" /\ s[2] = "#" /\ s[3] \in Numbers /\ s[4] = ";"

(***************************************************************************)
(* re.sub(r'&#(\d+);', lambda m: chr(int(m.group(1))), content): matches  *)
(* left to right; chr raises on the first value out of range, and the     *)
(* exception leaves the function.                                          *)
(***************************************************************************)
RECURSIVE SubNumeric(_)
SubNumeric(s) ==
  IF s = <<>> THEN [ok |-> TRUE, out |-> <<>>]
  ELSE IF NumericAt(s)
       THEN LET c == Chr(NumVal[s[3]])
                rest == SubNumeric(SubSeq(s, 5, Len(s)))
            IN IF ~c.ok THEN c ELSE Then(c.out, rest)
       ELSE LET rest == SubNumeric(Tail(s))
            IN Then(<<Head(s)>>, rest)

RECURSIVE NamedFrom(_, _)
NamedFrom(s, k) == IF k > Len(HTML_ENTITIES) THEN s ELSE NamedFrom(ReplaceEntry(s, k), k + 1)

\* The whole function, as the driver calls it.
DecodeHtmlEntities(s) == SubNumeric(NamedFrom(s, 1))

(***************************************************************************)
(* The loop, one step per iteration, for checking the function itself.    *)
(***************************************************************************)
CONSTANTS
  TokenSet,   \* the tokens an input is made of
  MaxLen      \* the longest input

VARIABLES
  input,      \* the argument
  content,    \* the local `content`
  k,          \* the loop position
  status      \* "running", "returned", "raised"

vars == <<input, content, k, status>>

\* No two word tokens side by side: they would be one run.
WellTokenized(s) == \A i \in 1..Len(s) - 1 : ~(s[i] \in Words /\ s[i + 1] \in Words)

Init ==
  /\ input \in {s \in SeqOf(TokenSet, MaxLen) : WellTokenized(s)}
  /\ content = input
  /\ k = 1
  /\ status = "running"

ReplaceStep ==
  /\ status = "running" /\ k <= Len(HTML_ENTITIES)
  /\ content' = ReplaceEntry(content, k)
  /\ k' = k + 1
  /\ UNCHANGED <<input, status>>

SubNumericStep ==
  /\ status = "running" /\ k = Len(HTML_ENTITIES) + 1
  /\ LET r == SubNumeric(content)
     IN /\ content' = IF r.ok THEN r.out ELSE content
        /\ status' = IF r.ok THEN "returned" ELSE "raised"
  /\ UNCHANGED <<input, k>>

Next == ReplaceStep \/ SubNumericStep

Spec == Init /\ [][Next]_vars

-----------------------------------------------------------------------------
(***************************************************************************)
(* What decoding entities means (the docstring: "back to original         *)
(* characters"): one left-to-right pass in which each entity of the       *)
(* table, or numeric entity, is replaced by its character and the text    *)
(* produced is not looked at again.                                        *)
(***************************************************************************)
EntityChar == [n \in Names |-> CASE n = "amp" -> "&" [] n = "lt" -> "<"
                                  [] n = "gt" -> ">" [] n = "quot" -> "\""]

RECURSIVE OneLevel(_)
OneLevel(s) ==
  IF s = <<>> THEN [ok |-> TRUE, out |-> <<>>]
  ELSE IF Len(s) >= 3 /\ s[1] = "&" /\ s[2] \in Names /\ s[3] = ";"
       THEN LET rest == OneLevel(SubSeq(s, 4, Len(s)))
            IN Then(<<EntityChar[s[2]]>>, rest)
  ELSE IF Len(s) >= 4 /\ s[1] = "&" /\ s[2] = "#" /\ s[3] \in Numbers /\ s[4] = ";"
       THEN LET c == Chr(NumVal[s[3]])
                rest == OneLevel(SubSeq(s, 5, Len(s)))
            IN IF ~c.ok THEN c ELSE Then(c.out, rest)
  ELSE LET rest == OneLevel(Tail(s))
       IN Then(<<Head(s)>>, rest)

Result == [ok |-> status = "returned", out |-> IF status = "returned" THEN content ELSE <<>>]

Done == status # "running"

\* The characters decoding can produce.
Decoded == {HTML_ENTITIES[j][2] : j \in DOMAIN HTML_ENTITIES}
             \cup {CharOf[n] : n \in DOMAIN CharOf} \cup {Surrogate}

TypeOK ==
  /\ input \in Seq(TokenSet)
  /\ content \in Seq(TokenSet \cup Decoded)
  /\ k \in 1..Len(HTML_ENTITIES) + 1
  /\ status \in {"running", "returned", "raised"}

HasAmp(s) == \E i \in 1..Len(s) : At(s, i, <<"&", "amp", ";">>)

(***************************************************************************)
(* Without an &amp; in the input, the nine replaces and the re.sub decode *)
(* one level, and raise exactly where a one-level decoder's chr raises:   *)
(* the table's entities cannot overlap, the numeric entries of the table  *)
(* agree with the re.sub, and the '&' that &#38; produces comes after the *)
(* named replaces.                                                        *)
(***************************************************************************)
DecodesOneLevelWithoutAmp ==
  Done /\ ~HasAmp(input) => Result = OneLevel(input)

(***************************************************************************)
(* The docstring: entities are decoded back to their original characters, *)
(* so &amp;quot; is the text &quot;, not a quotation mark.                 *)
(***************************************************************************)
DecodesOneLevel == Done => Result = OneLevel(input)

=============================================================================
