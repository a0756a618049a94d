-------------------------- MODULE MCKfsExpressions ---------------------------
(***************************************************************************)
(* The scripts of MCKfsEval, and texts for replace_system_props.           *)
(***************************************************************************)
EXTENDS MCKfsEval, KfsReplaced

MCCharacters == {"{", "}", " ", "a", "b", "e", "m", "n", "u", "v"}

\* n is set to a text that looks like a reference to m, e to no text at all, a
\* brace to "b", and u is not set.
MCEnviron ==
  <<"n">> :> Reference(<<"m">>) @@ <<"m">> :> <<"v">> @@ <<"e">> :> <<>> @@ <<"{">> :> <<"b">>
MCReferred == {<<"n">>, <<"m">>, <<"e">>, <<"{">>, <<"u">>}

\* Texts that are nearly a reference.
MCPlainTexts ==
  {<<"a">>, <<"{", " ">>, <<"}">>, <<"{", "{", "}", "}">>, <<"{", "{", " ", "}", "}">>,
   <<"{", "{", "a", "}", "a">>}

=============================================================================
