------------------------------ MODULE KfsDriver ------------------------------
(***************************************************************************)
(* main.c: reads the options into two lists, loads the environment files   *)
(* of the one and runs the scripts of the other, freeing the lists as it   *)
(* goes.                                                                   *)
(*                                                                         *)
(* What can fail is malloc of an option, fopen, the set-up of a scanner,   *)
(* setenv and curl_global_init, MaxFailures times.  A script parses or     *)
(* does not; what it does then is in KfsEval, what becomes of its tree in  *)
(* KfsFunctions.  Arguments are as getopt_long delivers them.              *)
(***************************************************************************)
EXTENDS Integers, KfsList, KfsArguments

CONSTANTS
  CommandLines, Environments,
  Node,        \* addresses of StrLists
  EnvsHead,    \* &options->envs
  ScriptsHead, \* &options->scripts
  MaxFailures

\* There is an address for each argument.
ASSUME NodesAssumption ==
  /\ EnvsHead \notin Node /\ ScriptsHead \notin Node /\ EnvsHead # ScriptsHead
  /\ NULL \notin Node \cup {EnvsHead, ScriptsHead}
  /\ IsFiniteSet(Node)
  /\ \A args \in CommandLines : Len(args) \in 0..Cardinality(Node)
\* Arguments come in a sequence, and so does what is in a file.
ASSUME ArgumentsAssumption ==
  \A args \in CommandLines :
    /\ args \in Seq(ToSet(args))
    /\ \A arg \in ToSet(args) :
         arg.is = "env" => EnvFiles[arg.str] \in Seq(ToSet(EnvFiles[arg.str]))
ASSUME FailuresAssumption == MaxFailures \in Nat

VARIABLES
  phase,     \* "options", "envs", "env", "scripts", "script", "cleanup" or "exited"
  args,      \* the arguments of the program
  optind,    \* the next one that getopt_long delivers
  options,   \* the settings in Options
  node,      \* address -> the StrList there
  links,     \* the handles of the StrLists and of the two lists
  inx, tmp,  \* the loop variables
  input,     \* what envparse has not read yet
  environ,   \* environment of the process
  done,      \* history: scripts that ran, and the dump
  files,     \* open files
  scanners,  \* scanners that were set up
  curl,      \* "none", "up" or "down"
  env,       \* whether there is a KfsLangEnv
  res,       \* what main returns
  reports,   \* KFS_ERRORs so far
  failures   \* how many there still may be

lists == <<node, links, inx, tmp>>
vars == <<phase, args, optind, options, lists, input, environ, done, files, scanners, curl, env, res,
          reports, failures>>

Free == [is |-> "free"]
Allocated == {n \in Node : node[n] # Free}

Fails == failures > 0 /\ failures' = failures - 1 /\ reports' = reports + 1
Works == UNCHANGED <<failures, reports>>
Reported == reports' = reports + 1 /\ UNCHANGED failures

\* options_create.
Default ==
  [version |-> FALSE, verbose |-> FALSE, dump |-> FALSE,
   sslSkipPeerVerification |-> TRUE, sslSkipHostnameVerification |-> TRUE,
   requestVerbose |-> FALSE, maxReadFileLength |-> 10240, threadStackSize |-> -1]

Init ==
  /\ phase = "options"
  /\ args \in CommandLines /\ optind = 1
  /\ options = Default
  /\ node = [n \in Node |-> Free]
  /\ links = LET h == Node \cup {EnvsHead, ScriptsHead}
             IN  [next |-> [n \in h |-> n], prev |-> [n \in h |-> n]]
  /\ inx = EnvsHead /\ tmp = EnvsHead
  /\ input = <<>>
  /\ environ \in Environments
  /\ done = <<>>
  /\ files = 0 /\ scanners = 0 /\ curl = "none" /\ env = FALSE
  /\ res = "RET_OK" /\ reports = 0 /\ failures = MaxFailures

-----------------------------------------------------------------------------
(* options_fulfill                                                         *)

Arg == args[optind]
NextArg(is) ==
  /\ phase = "options" /\ optind <= Len(args) /\ Arg.is = is
  /\ optind' = optind + 1
  /\ UNCHANGED args

OptionSet ==
  /\ NextArg("set")
  /\ options' = [options EXCEPT ![Arg.field] = Arg.value]
  /\ UNCHANGED <<phase, lists, input, environ, done, files, scanners, curl, env, res,
                 reports, failures>>

\* -h, an option there is not, and an argument that is none: text on the screen.
OptionPrint ==
  /\ NextArg("print")
  /\ UNCHANGED <<phase, options, lists, input, environ, done, files, scanners, curl, env, res,
                 reports, failures>>

\* options_lst_add of str_list_create.
ListOf(arg) == IF arg.is = "env" THEN EnvsHead ELSE ScriptsHead
Insert_Swapped(n, head) == ListAddTail(ListInit(links, n), head, n)
Insert_InFront(n, head) == ListAdd(ListInit(links, n), n, head)
Insert(n, head) == ListAddTail(ListInit(links, n), n, head)
OptionAdd ==
  /\ NextArg("env") \/ NextArg("script")
  /\ \/ /\ LET n == CHOOSE n \in Node \ Allocated : TRUE
           IN  /\ node' = [node EXCEPT ![n] = Arg]
               /\ links' = Insert(n, ListOf(Arg))
        /\ Works
     \/ Fails /\ UNCHANGED <<node, links>>
  /\ UNCHANGED <<phase, options, inx, tmp, input, environ, done, files, scanners, curl, env, res>>

-----------------------------------------------------------------------------
(* The two loops of main: list_for_each_entry_safe, deleting as it goes    *)

LoopOver(head) == inx' = links.next[head] /\ tmp' = links.next[inx']

\* list_del, str_list_delete, and on to the node that was next.
DropNode_Unsafe ==
  /\ node' = [node EXCEPT ![inx] = Free]
  /\ links' = ListDel(links, inx)
  /\ inx' = links'.next[inx] /\ tmp' = inx'
DropNode ==
  /\ node' = [node EXCEPT ![inx] = Free]
  /\ links' = ListDel(links, inx)
  /\ inx' = tmp /\ tmp' = links'.next[tmp]

OptionsRead ==
  /\ phase = "options" /\ optind > Len(args)
  /\ phase' = "envs" /\ LoopOver(EnvsHead)
  /\ UNCHANGED <<args, optind, options, node, links, input, environ, done, files, scanners, curl, env,
                 res, reports, failures>>

\* env_load_file: of a file that is not there, or without a scanner.
EnvUnopened ==
  /\ phase = "envs" /\ inx # EnvsHead
  /\ Fails
  /\ DropNode
  /\ UNCHANGED <<phase, args, optind, options, input, environ, done, files, scanners, curl, env, res>>

\* There is at least one assignment in a file, or it does not parse.
EnvInput(name) ==
  IF EnvFiles[name] = <<>> THEN <<[is |-> "error"]>> ELSE EnvFiles[name]

EnvOpened ==
  /\ phase = "envs" /\ inx # EnvsHead
  /\ phase' = "env" /\ input' = EnvInput(node[inx].str)
  /\ files' = files + 1 /\ scanners' = scanners + 1
  /\ UNCHANGED <<args, optind, options, lists, environ, done, curl, env, res, reports, failures>>

\* env_set_env.  With a value of blanks only the trimming goes on to the byte
\* in front of it: if that is a blank too, the value is empty but l is not 0.
EnvValues(value) ==
  CASE value = "none" -> {"unset"}
    [] value = "blanks" -> {"unset", "empty"}
    [] OTHER -> {value}
EnvSet(key, value) == \E v \in EnvValues(value) : environ' = [environ EXCEPT ![key] = v]

EnvAssign ==
  /\ phase = "env" /\ input # <<>> /\ Head(input).is = "assign"
  /\ input' = Tail(input)
  /\ \/ EnvSet(Head(input).key, Head(input).value) /\ Works
     \/ Head(input).value # "none" /\ Fails /\ UNCHANGED environ
  /\ UNCHANGED <<phase, args, optind, options, lists, done, files, scanners, curl, env, res>>

\* The scanner of a file that does not parse is not destroyed.
EnvClose_Never == UNCHANGED files
EnvClose == files' = files - 1
EnvError ==
  /\ phase = "env" /\ input # <<>> /\ Head(input).is = "error"
  /\ Reported
  /\ phase' = "envs" /\ input' = <<>> /\ EnvClose /\ DropNode
  /\ UNCHANGED <<args, optind, options, environ, done, scanners, curl, env, res>>

EnvLoaded ==
  /\ phase = "env" /\ input = <<>>
  /\ phase' = "envs" /\ EnvClose /\ scanners' = scanners - 1 /\ DropNode
  /\ UNCHANGED <<args, optind, options, input, environ, done, curl, env, res, reports, failures>>

\* kfs_lang_env_new, and request_init, whose failure is not looked at.
EnvsLoaded ==
  /\ phase = "envs" /\ inx = EnvsHead
  /\ phase' = "scripts" /\ LoopOver(ScriptsHead)
  /\ env' = TRUE
  /\ \/ curl' = "up" /\ Works
     \/ UNCHANGED curl /\ Fails
  /\ UNCHANGED <<args, optind, options, node, links, input, environ, done, files, scanners, res>>

\* yylex_init fails: the one error that ends the program.
NoScanner ==
  /\ phase = "scripts" /\ inx # ScriptsHead
  /\ Fails
  /\ curl' = "down" /\ res' = "RET_CANNOT_INIT_LEX_ERROR" /\ phase' = "exited"
  /\ UNCHANGED <<args, optind, options, lists, input, environ, done, files, scanners, env>>

ScriptUnopened ==
  /\ phase = "scripts" /\ inx # ScriptsHead /\ node[inx].mode = "FILE"
  /\ Fails
  /\ DropNode
  /\ UNCHANGED <<phase, args, optind, options, input, environ, done, files, scanners, curl, env, res>>

ScriptOpened ==
  /\ phase = "scripts" /\ inx # ScriptsHead
  /\ phase' = "script"
  /\ files' = IF node[inx].mode = "FILE" THEN files + 1 ELSE files
  /\ scanners' = scanners + 1
  /\ UNCHANGED <<args, optind, options, lists, input, environ, done, curl, env, res, reports, failures>>

\* What a script runs with, and the end of it whether it parses or not.
Running == Run(node[inx], options)
ScriptDone ==
  /\ phase = "script"
  /\ \/ done' = Append(done, Running) /\ res' = "RET_OK" /\ Works
     \/ Reported /\ UNCHANGED <<done, res>>
  /\ phase' = "scripts"
  /\ files' = IF node[inx].mode = "FILE" THEN files - 1 ELSE files
  /\ scanners' = scanners - 1
  /\ DropNode
  /\ UNCHANGED <<args, optind, options, input, environ, curl, env>>

ScriptsDone ==
  /\ phase = "scripts" /\ inx = ScriptsHead
  /\ phase' = "cleanup"
  /\ done' = IF options.dump THEN Append(done, [is |-> "dump"]) ELSE done
  /\ UNCHANGED <<args, optind, options, lists, input, environ, files, scanners, curl, env, res,
                 reports, failures>>

\* request_cleanup, kfs_lang_env_delete, options_delete: the nodes that the loop over
\* a list comes to.
Walk(m, head) ==
  LET at[i \in 0..Cardinality(Node)] ==
        IF i = 0 THEN m.next[head]
        ELSE IF at[i - 1] \in Node THEN m.next[at[i - 1]] ELSE head
  IN  at
Ring(m, head) ==
  LET met == {i \in 0..Cardinality(Node) : Walk(m, head)[i] \in Node}
  IN  [i \in 1..Cardinality(met) |-> Walk(m, head)[i - 1]]

Cleanup ==
  /\ phase = "cleanup"
  /\ phase' = "exited" /\ curl' = "down" /\ env' = FALSE
  /\ node' = [n \in Node |->
       IF n \in ToSet(Ring(links, ScriptsHead) \o Ring(links, EnvsHead)) THEN Free ELSE node[n]]
  /\ UNCHANGED <<args, optind, options, links, inx, tmp, input, environ, done, files, scanners, res,
                 reports, failures>>

Exited == phase = "exited" /\ UNCHANGED vars

Next ==
  \/ OptionSet \/ OptionPrint \/ OptionAdd \/ OptionsRead
  \/ EnvUnopened \/ EnvOpened \/ EnvAssign \/ EnvError \/ EnvLoaded \/ EnvsLoaded
  \/ NoScanner \/ ScriptUnopened \/ ScriptOpened \/ ScriptDone \/ ScriptsDone
  \/ Cleanup \/ Exited

Spec == Init /\ [][Next]_vars

-----------------------------------------------------------------------------
(* Properties                                                              *)

Looping == phase \notin {"options", "exited"}
InEnvs == phase \in {"envs", "env"}

\* Every variable keeps its kind, no list_del is of a node that has been deleted
\* already, and the loops read no StrList that has been freed: the one that the
\* body works on and the one that is next are there as long as they are needed.
TypeOK ==
  /\ phase \in {"options", "envs", "env", "scripts", "script", "cleanup", "exited"}
  /\ DOMAIN options = DOMAIN Default
  /\ \A n \in Node : node[n].is \in {"free", "env", "script"}
  /\ files \in 0..1 /\ scanners \in Nat /\ reports \in Nat /\ failures \in 0..MaxFailures
  /\ curl \in {"none", "up", "down"} /\ env \in BOOLEAN
  /\ Looping =>
       LET head == IF InEnvs THEN EnvsHead ELSE ScriptsHead
       IN  /\ inx \in Allocated \cup {head} /\ inx = links.next[head]
           /\ tmp \in Allocated \cup {head} /\ tmp = links.next[inx]
           /\ phase \in {"env", "script"} => inx # head

\* The two lists are whole, and every StrList that has been created and not yet
\* been dealt with is in the one it belongs to: none is lost, none is in both.
OptionsListed ==
  /\ IsList(links, EnvsHead, Ring(links, EnvsHead))
  /\ IsList(links, ScriptsHead, Ring(links, ScriptsHead))
  /\ phase # "exited" =>
       /\ ToSet(Ring(links, EnvsHead)) = {n \in Allocated : node[n].is = "env"}
       /\ ToSet(Ring(links, ScriptsHead)) = {n \in Allocated : node[n].is = "script"}

\* On every way out curl is cleaned up and no file is open; a program that ends
\* with RET_OK has freed its options and its environment, and one that also had
\* nothing to report leaves no scanner.
NothingLeftAtExit ==
  phase = "exited" =>
    /\ curl = "down" /\ files = 0
    /\ res = "RET_OK" => Allocated = {} /\ ~env
    /\ reports = 0 => scanners = 0

\* The arguments in a list, and the effects that are still to come.
Listed(head) == LET ring == Ring(links, head) IN [i \in 1..Len(ring) |-> node[ring[i]]]
Todo ==
  IF phase = "exited" THEN <<>> ELSE
  LET envs == IF phase = "env" THEN Tail(Listed(EnvsHead)) ELSE Listed(EnvsHead)
      rest == SubSeq(args, optind, Len(args))
      settings == Settings(options, rest)
  IN  Assignments(input) \o EnvEffects(envs \o rest)
      \o RunEffects(Listed(ScriptsHead) \o rest, settings)
      \o (IF phase = "cleanup" THEN <<>> ELSE DumpEffects(settings))

Promise == INSTANCE KfsCommandLine WITH todo <- Todo, exited <- phase = "exited"

\* The program does what its command line promises (KfsCommandLine): every
\* assignment and every script in its order, with the settings of the whole
\* command line, once, or an error is reported in its place.
RunsCommandLine == Promise!Spec

=============================================================================
