---------------------------- MODULE KfsArguments ----------------------------
(***************************************************************************)
(* What arguments ask for, as getopt_long delivers them:                   *)
(*   [is |-> "set", field, value]  a setting of options_fulfill,           *)
(*   [is |-> "env", str], [is |-> "script", mode, str]  -e, -s, -f and -i, *)
(*   [is |-> "print"]  the usage, an option or argument there is not.      *)
(***************************************************************************)
EXTENDS Naturals, SequencesExt

CONSTANT EnvFiles \* name -> the assignments and errors in that file

Assignment(a) == IF a.is = "assign" THEN <<a>> ELSE <<>>
Assignments(input) ==
  LET upto[i \in 0..Len(input)] ==
        IF i = 0 THEN <<>> ELSE upto[i - 1] \o Assignment(input[i])
  IN  upto[Len(input)]

\* The last option for a setting wins.
Settings(start, args) ==
  [field \in DOMAIN start |->
    LET setters == {i \in 1..Len(args) : args[i].is = "set" /\ args[i].field = field}
    IN  IF setters = {} THEN start[field] ELSE args[Max(setters)].value]

EnvEffect(arg) == IF arg.is = "env" THEN Assignments(EnvFiles[arg.str]) ELSE <<>>
EnvEffects(args) ==
  LET upto[i \in 0..Len(args)] ==
        IF i = 0 THEN <<>> ELSE upto[i - 1] \o EnvEffect(args[i])
  IN  upto[Len(args)]

Run(arg, settings) == [is |-> "run", mode |-> arg.mode, str |-> arg.str, with |-> settings]
RunEffect(arg, settings) == IF arg.is = "script" THEN <<Run(arg, settings)>> ELSE <<>>
RunEffects(args, settings) ==
  LET upto[i \in 0..Len(args)] ==
        IF i = 0 THEN <<>> ELSE upto[i - 1] \o RunEffect(args[i], settings)
  IN  upto[Len(args)]

DumpEffects(settings) == IF settings.dump THEN <<[is |-> "dump"]>> ELSE <<>>

\* The effects of a command line, from the settings that there are already.
Effects(start, args) ==
  LET settings == Settings(start, args)
  IN  EnvEffects(args) \o RunEffects(args, settings) \o DumpEffects(settings)

=============================================================================
