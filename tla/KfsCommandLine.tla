--------------------------- MODULE KfsCommandLine ---------------------------
(***************************************************************************)
(* What a command line promises: every environment file in the order of    *)
(* the -e options, then every script in the order of -s, -f and -i, each   *)
(* with the settings of the whole command line, then the dump if there is  *)
(* a --dump.  What is not done is reported; nothing is done twice, late or *)
(* out of order, and the process does not end before.                      *)
(***************************************************************************)
EXTENDS KfsArguments

CONSTANTS
  CommandLines, \* sequences of arguments
  Default,      \* settings without any option
  Environments  \* the environments in which the process may start

VARIABLES
  args,    \* the command line
  todo,    \* the effects to come
  environ, \* the environment of the process
  done,    \* the scripts that ran, and the dump
  reports, \* how many errors have been reported
  exited

Init ==
  /\ args \in CommandLines
  /\ todo = Effects(Default, args)
  /\ environ \in Environments
  /\ done = <<>> /\ reports = 0 /\ ~exited

\* A value without a character but blanks unsets the key, or empties it.
Meaning(v) == CASE v = "none" -> {"unset"} [] v = "blanks" -> {"unset", "empty"} [] OTHER -> {v}

Do ==
  /\ todo # <<>>
  /\ todo' = Tail(todo)
  /\ LET effect == Head(todo)
     IN  IF effect.is = "assign"
         THEN /\ \E v \in Meaning(effect.value) : environ' = [environ EXCEPT ![effect.key] = v]
              /\ UNCHANGED done
         ELSE done' = Append(done, effect) /\ UNCHANGED environ
  /\ UNCHANGED <<args, exited>>

\* Effects that could not be had, of one file or one argument.
Skip ==
  /\ reports' > reports
  /\ \E i \in 1..Len(todo), j \in 0..Len(todo) :
       /\ i <= j
       /\ todo' = SubSeq(todo, 1, i - 1) \o SubSeq(todo, j + 1, Len(todo))
  /\ UNCHANGED <<args, environ, done, exited>>

Exit ==
  /\ ~exited /\ exited'
  /\ todo = <<>> \/ reports' > reports
  /\ todo' = <<>>
  /\ UNCHANGED <<args, environ, done>>

Spec == Init /\ [][Do \/ Skip \/ Exit]_<<args, todo, environ, done, exited>>
=============================================================================
