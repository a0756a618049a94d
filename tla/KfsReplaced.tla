----------------------------- MODULE KfsReplaced -----------------------------
(***************************************************************************)
(* What replace_system_props promises, of texts put together from pieces:  *)
(* references {{NAME}}, and plain pieces that have no part in one.         *)
(***************************************************************************)
EXTENDS KfsEval, KfsReplace

CONSTANTS Characters,  \* what texts are made of
          Environ,     \* the value of each environment variable that is set
          PlainTexts,  \* plain pieces
          Referred,    \* what is referred to, set or not
          MaxPieces    \* how many pieces a text has at most

Texts == Seq(Characters)
Stops == {" ", "}"}

Reference(name) == <<"{", "{">> \o name \o <<"}", "}">>

\* p ends in no "{" that the piece behind it could make a "{{" of, and each "{{" in it
\* comes to a blank or a single "}" or at once to a "}" while still in p.
IsPlain(p) ==
  /\ p # <<>> => p[Len(p)] # "{"
  /\ \A i \in 1 .. Len(p) - 1 : p[i] = "{" /\ p[i + 1] = "{" =>
       \E k \in i + 2 .. Len(p) :
         /\ p[k] \in Stops /\ \A m \in i + 2 .. k - 1 : p[m] \notin Stops
         /\ k = i + 2 \/ p[k] = " " \/ (k < Len(p) /\ p[k + 1] # "}")

ReplaceAssumption ==
  /\ {"{", "}", " "} \subseteq Characters
  /\ DOMAIN Environ \subseteq Texts /\ \A name \in DOMAIN Environ : Environ[name] \in Texts
  /\ PlainTexts \subseteq Texts /\ \A p \in PlainTexts : IsPlain(p)
  /\ Referred \subseteq Texts /\ \A name \in Referred :
       name # <<>> /\ \A k \in DOMAIN name : name[k] \notin Stops
  /\ MaxPieces \in Nat

ASSUME ReplaceAssumed == ReplaceAssumption

\* A piece of a text, and what it becomes.
Pieces ==
  {[from |-> p, to |-> p] : p \in PlainTexts} \cup
  {[from |-> Reference(name),
    to |-> IF name \in DOMAIN Environ THEN Environ[name] ELSE Reference(name)] : name \in Referred}

\* The text put together from pieces.
Before(pieces) == FlattenSeq([i \in DOMAIN pieces |-> pieces[i].from])
After(pieces) == FlattenSeq([i \in DOMAIN pieces |-> pieces[i].to])

\* replace_system_props replaces each name that is set, wherever it stands and
\* however often, once (a value is not searched again), leaves all other text as it
\* is, and never writes beyond the room it has asked for.
\* (It is about the function alone; TLC evaluates it when a script has ended.)
NamesReplaced ==
  phase = "done" =>
    \A k \in 0 .. MaxPieces : \A pieces \in [1 .. k -> Pieces] :
      replace_system_props(Before(pieces), Environ) = [text |-> After(pieces), fits |-> TRUE]

=============================================================================
