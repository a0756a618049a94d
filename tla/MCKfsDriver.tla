----------------------------- MODULE MCKfsDriver -----------------------------
(***************************************************************************)
(* KfsDriver for TLC: all command lines of up to MaxArgs arguments.        *)
(***************************************************************************)
EXTENDS KfsDriver

CONSTANTS MaxArgs, Keys

Set(field, value) == [is |-> "set", field |-> field, value |-> value]
Env(name) == [is |-> "env", mode |-> "NORMAL", str |-> name]
Script(mode, name) == [is |-> "script", mode |-> mode, str |-> name]
Assign(key, value) == [is |-> "assign", key |-> key, value |-> value]

MCArgs == {
  Set("dump", TRUE), Set("sslSkipPeerVerification", FALSE), Set("sslSkipPeerVerification", TRUE),
  [is |-> "print"],
  Env("good"), Env("broken"), Env("nothing"),
  Script("SCRIPT", "code"), Script("FILE", "code"), Script("STDIN", "null")}
\* And one longer command line in every order.
MCLong == {
  Env("good"), Env("broken"), Script("SCRIPT", "code"), Script("FILE", "code"), Set("dump", TRUE)}
MCCommandLines ==
  UNION {[1..n -> MCArgs] : n \in 0..MaxArgs}
  \cup {f \in [1..5 -> MCLong] : IsInjective(f)}

MCEnvFiles == [
  good |-> <<Assign("k", "a"), Assign("l", "none"), Assign("l", "blanks")>>,
  broken |-> <<Assign("l", "b"), [is |-> "error"], Assign("k", "b")>>,
  nothing |-> <<>>]
MCEnvironments == {[k \in Keys |-> v] : v \in {"unset", "old"}}
MCNode == 1..5

=============================================================================
