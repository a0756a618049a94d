----------------------------- MODULE KfsReplace ------------------------------
(***************************************************************************)
(* replace_system_props of kfs_lang_env.c: {{NAME}} in a text becomes the  *)
(* value of the environment variable.  A text is a sequence of characters, *)
(* of which only "{", "}" and " " matter; output grows by realloc.         *)
(***************************************************************************)
EXTENDS Naturals, SequencesExt

\* The characters from i to j of a text match {{[^ }]+}}.
Matches(text, i, j) ==
  /\ text[i] = "{" /\ text[i + 1] = "{"
  /\ \A k \in i + 2 .. j - 2 : text[k] \notin {" ", "}"}
  /\ text[j - 1] = "}" /\ text[j] = "}"

\* regexec from cursor on: where the leftmost match begins and ends, or the end of
\* the text twice.
Match(text, cursor) ==
  LET begins == {i \in cursor .. Len(text) : \E j \in i + 4 .. Len(text) : Matches(text, i, j)}
      so == CHOOSE i \in begins : \A k \in begins : i <= k
  IN  IF begins = {} THEN [so |-> Len(text) + 1, eo |-> Len(text) + 1]
      ELSE [so |-> so, eo |-> (CHOOSE j \in so + 4 .. Len(text) : Matches(text, so, j)) + 1]

\* What is written at the end of output after it has got room, and a 0 after it.
Write(output, piece, room) ==
  [text |-> output.text \o piece,
   fits |-> output.fits /\ Len(output.text) + Len(piece) + 1 <= room]

Unset_Name(name) == name
Unset(name) == <<"{", "{">> \o name \o <<"}", "}">>

\* One round of the loop, unless nothing matches: the text in front of the match, and
\* what replaces it.
Round(text, environ, at) ==
  LET match == Match(text, at.cursor)
      front == SubSeq(text, at.cursor, match.so - 1)
      name == SubSeq(text, match.so + 2, match.eo - 3)
      copied == IF front = <<>> THEN at.output
                ELSE Write(at.output, front, Len(at.output.text) + Len(front) + 1)
      outlen == Len(copied.text)
  IN  IF match.so > Len(text) THEN at
      ELSE [cursor |-> match.eo,
            output |-> IF name \in DOMAIN environ
                       THEN Write(copied, environ[name], outlen + Len(environ[name]) + 1)
                       ELSE Write(copied, Unset(name), outlen + (Len(name) + 1) + 5)]

\* Where the cursor is when nothing matches any more, and the output so far.  (A
\* round takes some of the text, so there are no more rounds than characters.)
Rounds(text, environ) ==
  LET after[n \in 0 .. Len(text)] ==
        IF n = 0 THEN [cursor |-> 1, output |-> [text |-> <<>>, fits |-> TRUE]]
        ELSE Round(text, environ, after[n - 1])
  IN  after[Len(text)]

\* The result, and whether each piece of it was written where there is room.  What
\* is behind the last match is appended.
replace_system_props(text, environ) ==
  LET at == Rounds(text, environ)
      rest == SubSeq(text, at.cursor, Len(text))
  IN  IF rest = <<>> THEN at.output
      ELSE Write(at.output, rest, Len(at.output.text) + Len(rest) + 1)

=============================================================================
