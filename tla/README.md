# A TLA+ model of the KFS language

KFS is a small scripting language written in C: a bison/flex parser builds
expression trees, a recursive interpreter evaluates them, and a runtime library
holds values, variables, threads, timers, HTTP requests and settings.  This
directory holds the specification of its core, the runs in which TLC checks it,
and proofs of its main invariants that TLAPS checks.  Paths below are relative
to the root of the repository.

Contents: [inventory](#inventory), [modules](#modules), [runs](#runs),
[bounds](#bounds), [fairness](#fairness), [proofs](#proofs),
[abstractions](#abstractions), [findings](#findings),
[not modelled](#not-modelled), [plan](#plan).

## Inventory

| Component | State | Operations | Makes it correct |
|---|---|---|---|
| Interpreter (`src/rt/kfs_lang_env.c`) | the C call stack, the list of functions, string literals that it edits | `kfs_lang_eval_value` (one case per kind of expression), `kfs_lang_eval` | every construct leaves the variables' stack as it found it however it ends; `break`, `continue`, `return` reach what they belong to and nothing else; every value is freed once; scripts end |
| Variables and scopes (`kfs_lang_env.c`, `kfs_dict.c`) | a stack of spaces (one per function call), each a stack of levels (one per block), each a dictionary of values | add and remove a space or a level, `kfs_lang_set_var`, `kfs_lang_get_var` | a function does not see or change its caller's variables; a name new in a block is gone after it; there is always a first space and level |
| Values and operators (`value.c`, `value_ops.c`) | heap cells | constructors, copy, delete, arithmetic, comparison, logic | operators do what they say at the limits of ints and on mixed types; no cell is freed twice or lost |
| Expression trees (`expression.c`) | heap cells, the list of functions through `eFUNCTION_DEF` | constructors called by the parser, `expression_delete` | a function lives as long as it can be called |
| Command line driver (`main.c`) | one environment for all scripts | load environment files, run every script, then dump and delete | everything happens in the order of the command line, once, whatever fails; variables and functions go from script to script |
| Threads and mutexes (`thread.c`) | a list of threads, `threadMutex`, each thread's joined/result fields | create, join, cancel, delete, lock, delete the environment | the lists hold live objects only, each is freed once, nobody waits for ever on `threadMutex`; a thread that is to be joined ends before it is freed |
| Timers (`thread.c`) | `sysEnd`, the timer's thread | `timer_create`, `timer_delete`, `timer_run` | one late call at the most once the end is told, none when `timer_delete` has returned, which it does; the struct outlives its thread |
| Linked list (`ll/ll.h`) | next and previous pointers | `list_add`, `list_add_tail`, `list_del`, the loops | a list is a sequence |
| HTTP requests (`request.c`) | the response, header lists, pointers into memory of curl's handle | new, set header, perform, convert to a value, delete | what is reported belongs to the last request, and follows no pointer into memory that is gone |
| Environment files (`env.c`, `env.y`, `env.l`) | process environment | `env_load_file`, `env_set_env` | the assignments of a file up to its first error, in order; the file is closed |
| Options (`options.c`) | a list of scripts, one of environment files, settings | create, read the command line, delete | scripts run in the order given, with the settings of the whole command line |
| JSON reader (`json.c`, `json.y`) | - | `json_read_string` | the value of the text |
| Replacements (`src/dummy/`) | - | return errors | - |

How they interact.  The parser calls the constructors of `expression.c`;
`kfs_lang_eval` and `main` hand the tree to `kfs_lang_eval_value`, which calls
itself for sub-expressions, the value operators for their results and the scope
operations for blocks, calls and assignments.  Function definitions link their
own expression node into a list of the environment, so that trees must outlive
calls; `expression_delete` takes them out again.  The options, the environment
files and the scripts of a command line are entries of two lists that `main`
frees as it goes.  Values are handed over by pointer: the caller of `kfs_lang_eval_value`
owns the result, an operator frees its operands, a variable owns a copy.
Threads, timers and requests are libraries that share the environment's mutex;
scripts cannot reach them yet.

What is hard.  The interpreter is sequential; its hazards are long sequences
of legal steps: a `return` within a block within a loop within a function has
to undo four things; values travel through half a dozen owners and each early
return must free what it abandons; an evaluation edits the tree it evaluates;
C leaves the order of two operands open.  The threads and timers add
interleavings, joins under a mutex, and callbacks that delete their own thread.
`PROJECT.json` lists every hazard with its line and with the properties that
would catch it.

## Modules

| Module | Models |
|---|---|
| `KfsValue` | `Value` of `value.h`: records with a type and the payload that type uses; constructors, `value_copy`, `value_delist`, wrapping ints |
| `KfsExpr` | `Expression` of `expression.h` and its constructors |
| `KfsEnv` | dictionaries, levels and spaces of variables: the innermost level is the last element of the sequence |
| `KfsEval` | the interpreter and its two drivers, as a state machine |
| `KfsEvalSafety` | the properties of `KfsEval` |
| `KfsGrammar` | which trees `parser.y` builds, as closure properties of sets of trees |
| `KfsEvalProofs` | theorems about `KfsEval`: the stacks, scopes, operands |
| `KfsFlowProofs` | theorems about `KfsEval`: what `return` and `break` reach, who owns a value; and about `KfsReplace` |
| `KfsValueOps` | the operators on values (`value_ops.c`) with recursive operators, for TLC |
| `KfsReplace`, `KfsReplaced` | `replace_system_props`, which replaces `{{NAME}}` in a text, and what it promises |
| `MCKfsEval` | scripts, and the values that the configurations give to the constants |
| `MCKfsExpressions` | the same with texts for `replace_system_props` |
| `KfsTimerPromise` | what a timer promises to its callbacks: on, told to end, at most one last call, over |
| `KfsTimer` | the timers of `thread.c`: the program and a thread for each timer |
| `KfsTimerProofs` | theorems about `KfsTimer`, the refinement among them, and how a deletion comes nearer to its end |
| `KfsThreads` | threads, mutexes and `threadMutex` of `thread.c` |
| `KfsThreadsProofs` | theorems about `KfsThreads`, freedom from deadlock among them |
| `KfsList` | the doubly linked lists of `ll.h` on pointers, and what it means that they hold a sequence |
| `KfsListProofs` | theorems about `list_add`, `list_add_tail` and `list_del` on lists of any length |
| `KfsFunctionTable` | what scripts may rely on of their functions: an abstract table |
| `KfsFunctions` | expression trees in memory and the list of functions that runs through them |
| `KfsFunctionsProofs` | theorems about `KfsFunctions`: the list, the refinement of `KfsFunctionTable`, the trees in memory |
| `KfsArguments` | what the arguments of a command line ask for |
| `KfsCommandLine` | what a command line promises: its effects in their order |
| `KfsDriver` | `main`, options and environment files |
| `KfsDriverProofs` | theorems about `KfsDriver`, the refinement of `KfsCommandLine` among them |
| `KfsRequest` | a request and the handle of libcurl behind it |
| `KfsRequestProofs` | theorems about `KfsRequest` |
| `MCKfsFunctions`, `MCKfsDriver`, `MCKfsRequest` | their instances |
| `MCKfsTimer`, `MCKfsThreads` | their instances, and what the code says of itself but does not do |

### The interpreter as a state machine

`kfs_lang_eval_value` is one recursive C function with a large `switch`.  In
`KfsEval` its C call stack is the variable `ctl`; a frame holds the expression,
the place in its case (`pc`) and the locals that are still needed (`held`, `n`,
`fn`).  The code between two calls of itself is one action:

* phase `"eval"`: the function has been entered for the expression `cur`.
  `EvalLeaf`, `EvalVar`, ... answer at once (`Yield`); `ListEnter`,
  `BlockEnter`, `CallEnter`, ... push a frame and descend (`Push`).
* phase `"return"`: a nested call has returned `ret`.  The action for the top
  frame goes on with the next sub-expression (`Switch`) or returns (`Pop`).
* phase `"crashed"`: the code has dereferenced NULL or read what was never set,
  after which nothing more is promised.

Guards are the conditions of the code, in its order: a list ends at
a flow-control value, `if` frees its condition before it takes a branch, a loop
checks its first condition for type Bool and reads the `iValue` of later ones
whatever they are.  Where C leaves the order of evaluation open
(`value_plus(eval(left), eval(right))`), the model takes both orders.

One field of a frame is not in the code: `at`, the spaces as they were when the
frame was entered.  The properties compare the present with it.

The operators on values, the scripts, and what a file or a JSON text can yield
are constants.  `MCKfsEval` gives them the operators of `KfsValueOps`; the
theorems hold whatever they compute.

### Ownership

`live` counts allocated `Value` cells, `stranded` those lost on the one error
path that loses them.  Every action adds what it allocates and subtracts what
`value_delete` frees (`FreedBy`; it does not look into a `FC_Return`).
`SingleOwner` says that the count always equals the cells owned by variables,
frames, the value being returned and the constant "empty": a double free or a
leak makes the two differ.  Counting cells suffices because all values of the
model are trees whose cells are reached from one owner.

### Timers

`memory` is the struct of a timer, `pc` where its thread is in the loop of
`timer_run`, `deleting` where the program is in `timer_delete`.  A callback is
the step from one `pc` to the next; `beat` flips with each call of `call_fn`.
`sysEnd` is a plain int that one thread writes and the other reads, which is a
data race: the write may be seen at any later time (`unseen`, `See`), but is
seen in the end, since the loop calls functions the compiler does not know.
`timer_create` returns `RET_OK` even if there is no thread; `pthread_join`
of the id that was never set fails or crashes (`DeleteJoin`).

`KfsTimer` implements `KfsTimerPromise` under the mapping `Mode`: a timer is
`"on"` until its thread can see the end, `"last"` from then on if one more call
is to come, `"over"` when its thread will not call any more.  That makes visible
what the code's order (call first, look at the end afterwards) means: the end
may be told during the sleep, and one call follows.

### Threads

Every process (main and every thread created here) may be in one call at a
time, at the place `at`, with the object `arg`.  A call is cut where another
thread can come between: `Lock`, the work under the lock in the steps that
others can tell apart (`pthread_create` starts a thread before it is in the
list), `Unlock`, and what follows it (`Free`).  Mutexes take part as objects of the
second list: `thread.h` has no way to lock one.

`thread_thread_join` does nothing, as `joined` is never positive; it is part of
`Unlink` and not an action.  `Die` is the end of a cancelled thread where it may
be cancelled: outside of these functions, or where one prints an error with
the lock held (`report_unlock`, `report_return`, `report_free`).  All failures are
choices: `malloc`, `pthread_create`, `pthread_mutex_init`, and `pthread_cancel` of a
thread that has ended.

Nothing in the repository calls these functions yet, so that the model states
what it assumes of callers: an object is deleted (or walked over by
`thread_env_delete`) once, cancelled only by one who may still delete it, and
`thread_env_delete` is called by main when no other call is active, and is
followed by none.

### Functions and expression trees

`KfsEval` takes expressions for values.  `KfsFunctions` has them in memory:
`expr` maps addresses to nodes, `links` holds the `fceListHandle` of each and
the head of the list, and `malloc` may return what was freed at once (`Malloc`).
bison builds a tree reduction by reduction on its stack `values` (`ReduceLeaf`,
..., `ReduceDelist`), `expression_delete` takes it apart node by node
(`DeleteChild`, `DeleteNode`), and the evaluation walks over it with the calls
that are active in `ctl`.  A search for a function is a loop with one step for each
entry (`Search`).  If it finds none, the variable of the loop is left at the head of the
list, which is taken for an expression (`CallMissing`): the arguments are evaluated, and
the body is what lies in its place in another field of the environment (`CallNoBody`).
With glibc that is NULL, and the call returns NULL; elsewhere it may end the process.
Values are left out: which command ends a list early, and
which condition holds, is open.  One environment may be used by `main`, which
never frees a tree but the last, and by `kfs_lang_eval`, which frees each.

`functions`, `called` and `lost` are history variables: the list as a sequence,
the definition that the last call ran, and whether something was left that
nothing leads to.

`kfs_lang_env_cleanup_functions` names `upHandle` where the list runs through
`fceListHandle`, both in the loop and in `list_del`.  The distance between the
two cancels out, so that it does unlink the functions; the model has what it does.

### The command line

`main` is one thread; `phase` is the loop it is in, `node` and `links` the
entries of the two lists of options, `inx` and `tmp` the variables of
`list_for_each_entry_safe`.  Each of the things that can fail (no memory for an
option, no file, no scanner, `setenv`, curl) is a second disjunct of the action
or an action of its own; `MaxFailures` bounds how many do in one run of the program.
What `main` promises is `KfsCommandLine`: from the arguments follows a
sequence of effects (`Effects`), each of which is done in its turn or reported.
The mapping `Todo` computes what is still to come from the lists, the rest of the
arguments and the rest of the file.

### Requests

The fields of a `Request` point into memory of the handle.  Such a
pointer is modelled by the number of the transfer it was obtained for (and the
number of the header): it is `Readable` as long as that is the last transfer.
The arrays of headers are sequences with as many places as were asked of
`realloc`; a store beyond is lost (`Stored`), which `TypeOK` notices.

## Runs

| Run | Driver | Shows |
|---|---|---|
| `tests` (`MCKfsTests.cfg`) | `kfs_lang_eval` | All ordered pairs of scripts of `test/test.c` in one environment, a syntax error between the two: whatever ran before, each yields the value the test expects (`ResultsAsTested`), nothing is leaked or freed twice (`SingleOwner`) and every script ends (`EveryScriptEnds`). One script is run without a claim on its value: `test.c:113` expects `{{NAME}}` to be replaced, which the build modelled does not do (see abstractions). `TypeOK` of `KfsEval` is checked here. A script with no value brings the process down, as the code does. |
| `generated` (`MCKfsGenerated.cfg`) | `main` | Every two-command body over calls, assignments, `if`, blocks, `break`, `continue`, `return`, at the top level, in a loop, and in a block in a loop in a function, after a script that defines the functions; and the CMake test `test-dump`. Scoping (`StackBalanced`, `CallerVariablesKept`, `BlockLocalsStayLocal`), operands (`OperandsArePure`), flow control (`ReturnUnwinds`, `BreakStaysInLoop`), ownership, and variables kept by `main` (`DumpTestAsExpected`). |
| `expressions` (`MCKfsExpressions.cfg`) | `main` | Each kind of expression applied to each kind of value, NULL and a stray `break` among them, as assigned value, condition of `if` and of `while` (first and later), argument and returned value. As long as the process survives the stacks are balanced and every cell has one owner. Two invariants are about operators that the scripts use and are evaluated when one has ended: `EqualityIsByContent` compares `==` on all pairs of values nested two levels deep with equality of content, `NamesReplaced` compares `replace_system_props` with a piecewise replacement and checks that every piece is written where there is room. |
| `repeated_string` | `kfs_lang_eval` | Violation, see findings. |
| `unknown_function` | `kfs_lang_eval` | Violation, see findings. |
| `timers` (`MCKfsTimer.cfg`) | - | Two timers, one with a `call_stop` that ends it at any time or never, the other without, created and deleted again and again. No use after free, at most one late call, `timer_delete` returns (`DeleteReturns`), and the refinement (`KeepsPromise`). |
| `threads` (`MCKfsThreads.cfg`) | - | Main, two threads and a mutex, with every failure, cancellation and death. `MutualExclusion`, `ListsSound` (what is listed lives; one call takes it out and frees it), `NothingLeft` after `thread_env_delete`, and `CallsReturn`: nobody waits for ever unless the lock was left behind in one of the two ways the code has for that. |
| `failed_mutex`, `unjoined` | - | Violations, see findings. |
| `functions` (`MCKfsFunctions.cfg`) | both | Scripts whose functions call, redefine and define one another and themselves, also while they run and in the arguments of their own call, and a syntax error, in any order in one environment. The list of functions is sound (`FunctionsSound`), nothing is followed after it was freed (`NoUseAfterFree`), nothing but what a syntax error or `main` leaves is lost (`NothingLost`), and a call runs the definition that was executed last, or none if there is none (`RunsLatest`, the refinement of `KfsFunctionTable`). |
| `driver` (`MCKfsDriver.cfg`) | `main` | All command lines of up to three arguments from ten, one of five in all orders, one failure at any place, with all variables set or none. The loops read no entry that was freed (`TypeOK`), no entry is lost or in the wrong list (`OptionsListed`), everything is given back (`NothingLeftAtExit`), and the program implements `KfsCommandLine` (`RunsCommandLine`). |
| `requests` (`MCKfsRequest.cfg`) | - | One request with three transfers of GET and POST that fail or succeed, with up to three headers, two pieces of a body, with or without a type. After a success url, content type and headers are of the last transfer, and the response, which keeps the bodies of earlier ones, ends with its body (`ReportsLastTransfer`); there is room for all headers (`TypeOK`); and a report is safe exactly after a call that returned `RET_OK`, if there are a content type and a body (`ReportIsSafe`): after a transfer that failed, what the one before left in the fields is never safe to follow. |

For every property of a passing run `PROJECT.json` holds a mutant of the code
that breaks it (a level that stays when a block is left early, an assignment
that reaches the caller's space, a `break` that is passed on, ...).

Deadlock is checked in all but `threads`: where a program, a request or an
environment has come to its end (`Exited`, `Over`, `Stopped`) it stutters, and
the only states of the interpreter without a step are `"done"` and `"crashed"`, in which `Stopped` stutters, and a
crashed timer stutters in `Crashed`.  A program of threads does stop, when
`thread_env_delete` has returned, and it can be stuck behind a lock that was
left locked; `CallsReturn` is the property that tells this from a deadlock.

## Bounds

* `IntHalf`: ints range over `-IntHalf .. IntHalf - 1` and wrap.  It is
  half the size of an int.  `generated` takes 32768, so that the 10203 of
  `test-dump` does not wrap; the other runs use small ints only.
* `DoubleInts`: what `(int)` can make of a Double.  All Doubles are one value;
  a comparison of two has both outcomes.  One or two ints are enough as no
  script of the runs does more than return the result.
* `ScriptSets`: the scripts are bounded by construction.  Bodies have
  two commands because each hazard is a command that leaves (or assigns, or
  calls) before or after another one; nesting reaches loop > block > if > block
  in a function called from a function, in which every kind of frame lies
  below every kind of exit.  Loops run at most five times.
* `LiteralIds`: one id for each string literal in the scripts; `cut` stops
  counting where nothing is left of the text.

* Two timers: the threads of two timers share nothing, and the program is in one
  `timer_delete` at a time; two show that a deletion of one leaves the other.
* Two threads, main and one mutex: three processes compete for the lock, a
  thread is deleted by itself, by the other and by main, and both lists are
  walked.  A name is created once; a thread created later differs from the first
  by its name only.

* Two functions, five scripts and up to four of them in a row (`MaxScripts`), with
  `main` or `kfs_lang_eval` for each: a definition, its replacement, what is
  left after a deletion, and a call of it. `Memory` is
  as many nodes as four trees need, and `MCMalloc` hands out the lowest free
  one, so that what was freed is used again at once. `MaxDepth` stops the
  functions that never return, as the end of the C stack does.
* Three arguments: two of one kind and one of another, in every order; five in
  every order mix both loops with an option behind them. One failure
  (`MaxFailures`) at any place, with whatever the rest of the command line does
  after it; the syntax errors of scripts and files are not counted among these.
* Three transfers: one that leaves something, one that fails or
  answers with less, and one after that. Up to three headers, so that the
  arrays grow, shrink and grow. One header that is set (`MaxSet`): it is not read
  from the answer.
* Values nested two levels deep, and texts of three pieces, for the two
  operators: the walks go down one level and on to the next item or piece.

No bound but `MaxScripts`, `MaxDepth`, `MaxFailures`, `MaxTransfers` and `MaxSet`
cuts a state space: TLC explores each of these models completely.

## Fairness

`FairSpec` assumes weak fairness of `Step`, the disjunction of all actions of
the program.  The interpreter is one thread that waits for nothing: as
long as it has not stopped it takes its next step.  Which of two operands is
evaluated first is not subject to any fairness.

Timers: weak fairness of `timer_run` of each timer (threads are scheduled and
callbacks return), of `See` (a write becomes visible) and of the rest of a
deletion that has begun.  No fairness makes the program create or delete a
timer, nor `call_stop` ask for the end.

Threads: weak fairness of `Call` of each process: who is in a call goes on, and
who waits for `threadMutex` gets it when it stays free.  A mutex may starve a waiter
only while others keep taking it, and in the model they make finitely many
calls.  No fairness makes a thread end or begin a call.

## Proofs

`KfsEvalProofs` proves, for every set of scripts, every driver, every width of
ints, and whatever the operators on values compute:

* `TypeCorrect` : `Spec => []TypeOK`.  Among others, no space or level is
  ever looked for in an empty list;
* `StackIsBalanced` : `Spec => []StackBalanced`;
* `CallersKept` : `Spec => []CallerVariablesKept`;
* `Invariance` : `Spec => []IInv`, from which these three follow;
* `BlockNamesStayLocal` : `Spec => []BlockLocalsStayLocal`;
* `OperandsChangeNothing` : `Spec => []OperandsArePure`, for scripts of the
  grammar.

Assumptions: `IntHalf` is a positive natural (`IntHalfAssumption`) and a set of
scripts consists of sequences (`ScriptSetsAssumption`).  The first five assume
nothing of the expressions in a script: they need not be ones that the
parser can build.

The argument.  None of the first three properties is inductive by itself: when a call returns,
what is restored is the state a *lower* frame has recorded, and `StackBalanced`
only speaks of shapes.  `IInv` therefore relates neighbours on the stack:
`Typed` (frames are frames, spaces are spaces), `Shapes` (the shape recorded by
a frame is what the frame below it starts an evaluation with, and the present
one is what the top frame does), `Callers` (every active call finds its callers'
spaces unchanged below the present ones), and `Nested` (the same between any two
frames: what a frame recorded extends what each active call below it recorded).
`Nested` is what makes `Callers` survive a `Switch`, in which a frame records
the present spaces anew.  All actions but five leave the variables alone and
move the stack in one of a few ways; lemmas `PushStep`, `SwitchStep`, `PopStep`
and `StayStep` treat each way once, and one lemma for each group of
actions reduces them to these.  `BlockEnter`, `BlockLeave`, `CallBody`,
`CallLeave` and `AssignApply` change the variables and have proofs of their own.

For `BlockLocalsStayLocal` the invariant adds `BInv`: as long as a block is
active there is a level above those it has found (`Deeper`), in the present and
in what every frame above it recorded, so that an assignment in it, or a block
that ends in it, never reaches down to a level on which names are counted.

`OperandsArePure` is false of trees that no grammar would allow (an assignment
as an operand), so that the theorem takes the grammar as a hypothesis.  The trees have
any depth; to speak of "all trees of the grammar" without induction over data it
says: `X` and `C` are sets of trees such that below each tree are the trees that
`parser.y` allows there (`Parsed(X, C)`), and all scripts are in `C`
(`ScriptsIn`).  It is proved for every such pair; TLC confirms that the scripts
of all runs lie in one (`ScriptsAreParsed`).  `PInv` says that a frame is a child
of the one below (`Trees`), that a command which runs above an operand has a
space of its own, as only a call can bring it there (`Separate`), and that the spaces an
operand found are as they were (`Kept`).

`KfsFlowProofs` proves, for scripts of the grammar in the same sense:

* `ReturnLeavesFunction` : `Spec => ReturnUnwinds`: after a `return` every
  frame ends at once, up to the call that takes the value;
* `BreaksEndAtLoops` : `Spec => []BreakStaysInLoop`, if every `break` stands in a
  loop of its function (`BreaksInLoops`, which the scripts of `generated`
  satisfy; those of `expressions` contain stray ones on purpose);
* `ValuesHaveOneOwner` : `Spec => []SingleOwner`.

All three need to know that an operand never has what `return` makes as its
value.  That is a matter of the operators, which are constants here.  The hypothesis
is a set of values `V` that what expressions, files and operators yield does not
lead out of and that holds no `return` (`Closed(X, V)`); for breaks it holds neither
`break` nor `continue` (`NoExits`).  That the operators of `KfsValueOps` make none
of these of values that have none is `OperatorsMakeNoFlow` of `MCKfsEval`,
which TLC evaluates: all values built without them are such a set.  `VInv`
says that variables and operands have values of `V`, and that `return`, `break`
and `continue` are under way only where a command stands.  `LInv` says that a frame
or a tree in a loop, and a `break` under way, has below it that loop with only
blocks and command lists in between (`Chain`); a function body starts anew.
The seven ways in which a step moves control (`Flows`) are treated once, in
`FlowKeepsL`.

`SingleOwner` is about sums over all variables, frames and items, which `FoldSet`
takes in an order of its own choice.  The first lemmas show that the order does not
matter: a number more, less or other changes the sum by as much (`SumMore`,
`SumChange`), and names do not count (`SumRenamed`); this is where induction
is needed, over the number of members of a set, as a set of naturals that has 0 and
the successors of its members (`AllNumbers`).  What remains is to say
what each step moves: a frame is pushed, gives a value, goes on or is replaced
(`OPush`, `OPop`, `OSwitch`, `ChooseOwns`), a level or space comes or goes, a
variable changes (`SetVarCells`, ...).  `OInv` adds to `SingleOwner` that variables are finitely
many, and that a frame which has no place for an operand holds none.  The hypothesis on the
operators is that a value consists of the cells of its parts and one of
its own, and that `value_delete` frees them all, but for what `return` makes
(`Counted`, which `ValuesAreCounted` of `MCKfsEval` confirms of the values of
`KfsValueOps`); nothing is assumed of how many cells an operator makes.  That
the entries of an object have different names is part of the grammar, as
`expression_add_object_item` overwrites (`expression.c:237`).

Apart from the interpreter, `KfsFlowProofs` proves of `replace_system_props`, for any
environment and any texts (`ReplaceAssumption`):

* `ReplacesNames` : `Spec => []NamesReplaced`, for any number of pieces
  (`MaxPieces`) of any length.  A piece is a reference `{{NAME}}`, or plain
  (`IsPlain`): it does not end in a `{`, and no `{{` in it is still open, or just being
  closed, at its end.  Without these two a piece could be part of a reference
  that begins in it and ends in another.  After each piece the loop has made so many
  rounds that the output, with the text from the cursor to the end of the
  piece behind it, is what the pieces so far become, and no match begins
  in that part of the text (`Done`).  A plain piece only lengthens that part
  (`PlainTaken`), a reference is what the next round finds (`ReferenceTaken`);
* `RoomSuffices`: for every text whatsoever, each piece is written where there is room.

`KfsTimerProofs` proves, for every set of timers and whichever have a
`call_stop` (`AskingAssumption` is not even needed):

* `TimerTypeCorrect`, `NeverUsedAfterFree`, `AtMostOneLateCall`, from the
  invariant `TypeOK /\ Joined /\ LateThenOver` (`TimerInvariance`): after the
  join the thread has exited, and a late call is followed by a look at
  `sysEnd`, which ends the thread, before it can sleep again;
* `PromiseKept` : `Spec => Promise!Spec`.  Each step changes the mode of one
  timer (`OneMode`) as a step of `KfsTimerPromise` does, or stutters;
* `DeletionApproaches`, `DeletionCanEnd`: what `DeleteReturns` needs besides
  fairness.  While `timer_delete` waits, the write of `sysEnd` is on its way
  or has arrived and is never undone (`Told`); when it has, the thread has at
  most three steps left (`Left`), which no step of anyone makes more; and the
  thread, if there is one, is always where it can take one.

`KfsThreadsProofs` proves, for any number of threads and mutexes, from
`NamesAssumption` (threads, mutexes, main and nobody are different names):

* `ThreadsTypeCorrect`, `OneInside`, `ListsAreSound`, `NothingIsLeft`, from
  `ThreadsInvariance`.  `ListsSound` alone says nothing of an object that is not
  in a list yet, nor of who may still delete it.  The invariant adds an owner
  for each object: a call owns what it makes or deletes (`Owners`), a handle is
  owned by no call (`Handles`), an object that is being made is in no list
  (`Makings`), what is allocated is in a list, owned, or was being freed by a thread that
  ended with the lock (`Accounted`), and from the
  moment `thread_env_delete` begins only main is in a call (`Closing`);
* `CallsNeverDeadlock`: what `CallsReturn` needs besides fairness.  A call waits
  for nothing but `threadMutex` (`GoesOn`).  If it is held by nobody inside of the functions,
  a failed `thread_mutex_create` or a cancelled thread has left it (`LockLeft`); otherwise
  its holder can go on, so that calls never wait for each other in a circle.

`KfsListProofs` proves, for lists of any length on any memory, that `ListAdd`,
`ListAddTail` and `ListDel` do to the ring of pointers what their names say to a
sequence (`AddInFront`, `AddBehind`, `DelTakesOut`), in both directions.  The
only assumption is that the node to be added is not in that list.

`KfsFunctionsProofs` proves, for any scripts (well formed or not), any `malloc`, any
memory and any depth, from `ScriptsAssumption`, `AddressesAssumption` and
`BoundsAssumption`:

* `TypesCorrect` and `FunctionsStaySound`: `FunctionsSound` needs to know that an
  entry of the list is not freed without being taken out, that the node
  being executed in `"define"` is an allocated definition that is not in the list behind the
  cursor, and that the cursor is in the list; the lemmas of `KfsListProofs` do
  the rest for lists of any length;
* `CallsRunLatest` : `Spec => Promise!Spec`, the refinement of
  `KfsFunctionTable`: the first entry of a name that a search finds is the only
  one, and `Table` changes in `DefineNew` and `Redefine` and between scripts only.
  A search that reaches the head has found that there is none, and the call runs
  nothing, whether the script goes on or the process ends;
* `NothingUsedAfterFree` and `TreesAreFreed`: `NoUseAfterFree` and `NothingLost`
  for trees of any depth.  What bison, `main` and `expression_delete` hold are the
  roots of a forest (`Forest(nodes, roots, edges)`: no node has two parents, a
  root has none, and every set of nodes has one without a parent in it, so that
  there is no cycle).  No node "below" a root is ever spoken of, which would take
  a recursive definition; the five things the code does to a forest (a new
  root, a root that takes roots below it, a node taken out of its parent, a
  root without children freed, a root forgotten) are lemmas of their own.
  `Full` adds that every node is a root or has a parent, as long as nothing was lost.  `TInv`
  joins this with what `expression_delete` still has to free, and with
  the calls that are active: they are in trees that are not being freed, or stand at
  the head of the list, which is in none.

`KfsRequestProofs` proves, for any number of transfers, headers and pieces, from
`RequestAssumption` (bounds are naturals, and NULL is neither a number
nor an array):

* `TypeCorrect`, `ReportsAreOfLastTransfer`, `ReportsAreSafe` (`KfsRequest` states
  nothing else).  The invariant follows the fields through a transfer: while the headers
  are read, url, content type and the headers read so far are of this transfer
  (`HeadersOK`); the response ends with the pieces that have arrived, and is NULL if
  none ever did (`ResponseOK`).  A content type that is not of this transfer is older
  (`TypeOutdated`), and it is that unless a call has just returned `RET_OK`, so
  that no report after a failure is safe.

`KfsDriverProofs` proves, for command lines of any length, from
`NodesAssumption` (there is an entry for each argument, and entries, heads and NULL
differ), `ArgumentsAssumption` (a command line is a sequence, and so is what is in an
environment file) and `FailuresAssumption`:

* `LoopsReadNothingFreed` (`TypeOK`), `EntriesAreListed` (`OptionsListed`) and
  `EverythingGivenBack` (`NothingLeftAtExit`).  The lists are rings of pointers; the
  ring as a sequence is what a walk along `next` yields (`Ring`, by well-founded
  recursion).  The invariant says that both rings are whole and have the entries of
  their kind (`Whole`, `Sorted`), that a loop stands at the first entry of its list
  and knows the second, which is why freeing the first is safe (`Loops`), and
  which file and scanner belong to what is being read (`Open`).  The lemmas of
  `KfsListProofs` do the rest;
* `CommandLineKept` : `Spec => RunsCommandLine`, the refinement of `KfsCommandLine`.
  Each part of `Todo` is a sequence joined from what one argument or one line asks for, a
  recursive function of the length; that such functions turn one sequence after the
  other into one result after the other is proved once (`JoinsParts`).  With it
  `Todo` is a sequence of parts (`ToCome`), and each step has one of three
  effects on them: an argument moves to the list it belongs to, a file that is opened
  becomes the input, a setting is read, and `Todo` stays as it is (`ArgumentRead`, `FileTaken`);
  the first effect is done (`LineRead`, `ScriptTaken`, `Does`); or what cannot be had
  is cut out of the middle and reported (`CutMiddle`, `Skips`).  The invariant gains
  `Reading`: what is in the entries and in the input was on the command line, and a list
  that a loop has gone through is empty, so that nothing is behind what is being done.

Only model-checked:

* `EqualityIsByContent`, `ResultsAsTested` and
  `DumpTestAsExpected`, which are about recursive operators, or about the values of
  given scripts;
* `DeleteReturns`, `CallsReturn` (liveness): what is proved of them is that nothing
  but an unfair scheduler, or a write that is never seen, can keep these calls from going on
  (`DeletionApproaches`, `DeletionCanEnd`, `CallsNeverDeadlock`), not that they return;
* `EveryScriptEnds` (liveness under fairness; and it holds of these scripts
  only, a script may well loop).

## Abstractions

* A text is a sequence of pieces, a Double is one value, the text printed by
  `print` and `dump` is left out.
* Expressions are values; `cut` records how much `eval_string` has taken off
  each literal, as the C code edits the tree itself.
* `{{NAME}}` in double-quoted strings is replaced from the process environment
  only if `regcomp` takes the pattern `{{[^ }]+}}` (`kfs_lang_env.c:150`).  That of
  glibc refuses it, which is reported, and texts stay as they are: this is the
  build that `KfsEval` models.  What the replacement does elsewhere is in
  `KfsReplace`.
* `malloc` fails where a module says so: in `thread.c`, and for an option.
  Elsewhere it succeeds in the models, whether or not the code looks at what it
  returns.  The constructors of `expression.c` do: `KFS_MALLOC` reports the failure and
  they return NULL, which is not modelled.
* A value of blanks only in an environment file: `env_set_env` reads the byte in front of
  it, so that it may unset the variable or empty it (`EnvValues`).
* `SingleOwner` counts cells, not the texts they point to.  `value_new`
  leaves `sValue` unset for all types but strings, and `value_delete` frees it
  for all of them; which cells `malloc` hands out again is not modelled
  (hazard at `value.c:132`).
* The outcomes of undefined behaviour: a NULL dereference stops the process
  (`Crash`); a condition read from a value without `iValue` may be true or
  false (`MayBeTrue`, `MayBeFalse`); following the list head as a function
  may stop the process, or may find a NULL body, after which the call returns NULL.
* Reading a file or JSON text yields one of a set of outcomes, an unset pointer
  among them.

## Findings

* `repeated_string`: `eval_string` overwrites the closing quote in the
  expression (`kfs_lang_env.c:326`), so that each further evaluation of the
  same literal loses one more character.  `test.c:110` expects `prd` of
  `"pr"+'d'`; a function that returns it yields `p` when called again.
* `unknown_function`: a search with `list_for_each_entry` that finds nothing
  does not end with NULL, so that the check at `kfs_lang_env.c:632`, which
  reports "Cannot find function" and returns NULL, never holds.  The list head is
  taken for the function: its arguments are evaluated, and the call yields NULL without
  a report (glibc) or ends the process.
* `failed_mutex`: without memory for a `Mutex`, `thread_mutex_create` returns
  from `KFS_MALLOC2` (`thread.c:152`) with `threadMutex` locked; its other
  failure unlocks it (`thread.c:155`).
* `unjoined`: `thread_thread_join` joins only if `joined > 0`
  (`thread.c:143`), and nothing else makes it positive.  A thread with
  `THREAD_ENDING_JOIN` still runs when `thread_thread_delete` frees its struct.
  To repair it is not enough to turn the guard round: the join would be made
  with `threadMutex` held, and the mutant `Unlink_Joining` of `CallsReturn` shows
  the deadlock with a thread that makes a call before it ends.

Seen while modelling, and stated here only (each is in the models as it is, or
named in their comments):

* `main` overwrites the root of a tree by that of the next script
  (`parser.y:99`), so that the trees of all scripts but the last stay allocated.
  They have to live as long as their functions; the list that should delete
  them in the end (`kfs_lang_env.c:167`) does not exist.
* The scanner of an environment file that does not parse is not destroyed
  (`env.c:27`), and a `main` that gets no scanner returns without its options and
  environment (`main.c:68`).  `NothingLeftAtExit` says where these are the only ones.
* `kfs_lang_eval` dereferences the value of a script that has none
  (`kfs_lang_env.c:693`); `main` checks for it.
* `test.c:113` expects `{{NAME}}` to be replaced, which a build with glibc
  does not do (see abstractions).
* `options_to_string` prints `--verbose` for the version and `--version` for
  verbose (`options.c:260`).
* An empty command is a rule without a value (`parser.y:177`): what is added to
  the list is what the last token left.
* `var_stack_to_string` writes three bytes into two (`kfs_lang_env.c:122`).
* `request_post` passes 1 for the pointer to a form (`request.c:167`); the response
  of a request grows from transfer to transfer and is never freed (`request.c:52`).

## Not modelled

* Recognising texts: flex and bison for scripts, JSON and environment files.
  The models begin with what the parsers hand over (reductions, assignments, an
  error).  What a grammar accepts is a property of its text and of no state.
* Texts for people: the dump of variables, the usage, `options_to_string`, the
  formatting of doubles.
* The texts that cells of values point to (`value.c:132`): they need cells that
  are handed out again with their old contents.
* A callback that deletes its own timer; callers of `thread.h` that break the
  assumptions above.
* The replacements in `src/dummy/`, the build files, and `test/pg.c`, which
  have no behaviour of their own.

## Plan

Done, in this order: values, expressions, scopes, interpreter, properties,
runs, proofs; timers with their abstract specification and the refinement
proved; threads, with their safety proved; the linked list, proved; functions
and trees in memory, with the refinement proved; the command line with its
refinement proved; requests; `==` and the replacement of names against references;
proofs about requests, the command line, the trees in memory, scopes, operands,
flow control and ownership.  Next:

1. The ownership of texts (`value.c:132`), in the manner of `KfsFunctions`.
2. Callbacks that delete their own timer, as an extension of `KfsTimer`.
