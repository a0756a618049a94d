---------------------------- MODULE KfsFunctions ----------------------------
(***************************************************************************)
(* The functions of an environment against the life of expression trees.   *)
(*                                                                         *)
(* An eFUNCTION_DEF is its own entry in the environment's list of          *)
(* functions: executing it links the node of the tree into the list, so    *)
(* that the list must not lead to a node that was freed.  Trees are built  *)
(* node by node by the rules of src/parser.y, evaluated by                 *)
(* kfs_lang_eval_value, and freed by expression_delete; malloc returns     *)
(* freed addresses again.                                                  *)
(*                                                                         *)
(* An environment may be used in both ways that the repository has for it: *)
(* "main" (main.c) parses and evaluates scripts one after another,         *)
(* "kfs_lang_eval" also frees the tree and the functions of each.          *)
(*                                                                         *)
(* Expressions that neither define nor call a function are of two kinds:   *)
(* "leaf", and "command" with one operand (a = x; print(x); if, while...), *)
(* which is evaluated any number of times.  Values are left out: which of  *)
(* them ends a list early, or is NULL, is open.                            *)
(***************************************************************************)
EXTENDS KfsList

CONSTANTS
  Expr,       \* addresses of expressions
  ListHead,       \* &kfsLangEnv->functions
  Names,      \* of functions
  Scripts,    \* each the sequence of reductions by which it is parsed, "error" where it fails
  Malloc(_),  \* which of the free addresses malloc returns
  MaxScripts, \* bound on the scripts an environment sees
  MaxDepth    \* depth of calls of kfs_lang_eval_value at which the C stack is full

Reduction ==
  [op: {"leaf", "command", "first", "next", "delist", "error"}]
  \cup [op: {"call", "function"}, str: Names, args: BOOLEAN]

ASSUME ScriptsAssumption == \A s \in Scripts : s \in Seq(Reduction)
ASSUME AddressesAssumption == ListHead \notin Expr /\ NULL \notin Expr \cup {ListHead} \cup Names
ASSUME BoundsAssumption == MaxScripts \in Nat /\ MaxDepth \in Nat

Handles == Expr \cup {ListHead}

VARIABLES
  expr,      \* address -> the expression there
  links,     \* fceListHandle of each expression, and the head
  root,      \* kfsLangEnv->expression
  functions, \* history: the list of functions as a sequence
  phase,     \* "idle", "parse", "eval", "define", "lookup", "return", "cleanup",
             \* "delete", "closed" or "crashed"
  style,     \* how the present script is run
  then,      \* the phase after the deletion of the tree
  input,     \* the reductions that bison still makes
  values,    \* bison's stack of semantic values
  cur,       \* the argument of the innermost kfs_lang_eval_value
  ctl,       \* the places to which its active calls return
  called,    \* history: the function that the last eFUNCTION_CALL found
  cursor,    \* the loop variable of a loop over the functions
  doomed,    \* the active calls of expression_delete
  lost,      \* history: nodes may have been left that nothing leads to
  scripts    \* how many scripts there still may be

tree == <<expr, root, values>>
eval == <<cur, ctl, called>>
vars == <<tree, eval, links, functions, phase, style, then, input, cursor, doomed, lost,
          scripts>>

Free == [type |-> "free", str |-> NULL, left |-> NULL, list |-> <<>>]
Allocated == {e \in Expr : expr[e].type # "free"}

\* What expression_new leaves: the node is in no list.
NewAddress == Malloc(Expr \ Allocated)
New(e, type, str, left, list) ==
  /\ e \in Expr \ Allocated
  /\ expr' = [expr EXCEPT ![e] = [type |-> type, str |-> str, left |-> left, list |-> list]]
  /\ links' = ListInit(links, e)

Init ==
  /\ expr = [e \in Expr |-> Free]
  /\ links = [next |-> [h \in Handles |-> h], prev |-> [h \in Handles |-> h]]
  /\ root = NULL /\ functions = <<>>
  /\ phase = "idle" /\ style = "main" /\ then = "idle"
  /\ input = <<>> /\ values = <<>>
  /\ cur = NULL /\ ctl = <<>> /\ called = NULL
  /\ cursor = ListHead /\ doomed = <<>>
  /\ lost = FALSE
  /\ scripts = MaxScripts

-----------------------------------------------------------------------------
(* expression_delete and the end of trees                                  *)

\* Deletes the tree of env->expression, if there is one, and goes on with p.
DeleteRoot(p) ==
  /\ then' = p
  /\ IF root = NULL THEN phase' = p /\ UNCHANGED doomed
     ELSE phase' = "delete" /\ doomed' = <<[e |-> root, i |-> 0]>>

Doomed == doomed[Len(doomed)]
\* The call at the top has gone one step further and, it may be, called itself.
DeleteNext(child) ==
  LET rest == [doomed EXCEPT ![Len(doomed)].i = @ + 1]
  IN  doomed' = IF child = NULL THEN rest ELSE Append(rest, [e |-> child, i |-> 0])

\* Children first: left, then the items of a list, which are taken out of it.
DeleteChild ==
  /\ phase = "delete" /\ doomed # <<>>
  /\ Doomed.i <= Len(expr[Doomed.e].list)
  /\ DeleteNext(IF Doomed.i = 0 THEN expr[Doomed.e].left ELSE expr[Doomed.e].list[Doomed.i])
  /\ UNCHANGED <<tree, eval, links, functions, phase, style, then, input, cursor, lost, scripts>>

\* Takes e out of the list of functions, as the history of that list sees it.
Unlisted(e) ==
  IF \E i \in 1..Len(functions) : functions[i] = e
  THEN Without(functions, CHOOSE i \in 1..Len(functions) : functions[i] = e)
  ELSE functions

\* "remove self from possible ref list", unless cleanup has done so, and free.
DeleteSelf_Listed(e) == expr' = [expr EXCEPT ![e] = Free] /\ UNCHANGED <<links, functions>>
DeleteSelf(e) ==
  /\ IF links.next[e] # NULL
     THEN links' = ListDel(links, e) /\ functions' = Unlisted(e)
     ELSE UNCHANGED <<links, functions>>
  /\ expr' = [expr EXCEPT ![e] = Free]

DeleteNode ==
  /\ phase = "delete" /\ doomed # <<>>
  /\ Doomed.i > Len(expr[Doomed.e].list)
  /\ DeleteSelf(Doomed.e)
  /\ doomed' = SubSeq(doomed, 1, Len(doomed) - 1)
  /\ UNCHANGED <<root, values, eval, phase, style, then, input, cursor, lost, scripts>>

DeleteDone ==
  /\ phase = "delete" /\ doomed = <<>>
  /\ phase' = then
  /\ root' = NULL
  /\ UNCHANGED <<expr, values, eval, links, functions, style, then, input, cursor, doomed,
                 lost, scripts>>

-----------------------------------------------------------------------------
(* The two ways to run a script, and the end of the environment            *)

\* One script after another; the tree of the one before stays where it is.
RunMain(s) ==
  /\ phase = "idle" /\ scripts > 0
  /\ style' = "main" /\ input' = s /\ phase' = "parse"
  /\ scripts' = scripts - 1
  /\ UNCHANGED <<tree, eval, links, functions, then, cursor, doomed, lost>>

\* kfs_lang_eval: "remove last expressions".
RunEval(s) ==
  /\ phase = "idle" /\ scripts > 0
  /\ style' = "kfs_lang_eval" /\ input' = s
  /\ DeleteRoot("parse")
  /\ scripts' = scripts - 1
  /\ UNCHANGED <<tree, eval, links, functions, cursor, lost>>

\* A script has been evaluated.  kfs_lang_eval follows the value even if there is
\* none, which a definition never has.
NoValue ==
  /\ phase = "return" /\ ctl = <<>>
  /\ style = "kfs_lang_eval"
  /\ phase' = "crashed"
  /\ UNCHANGED <<tree, eval, links, functions, style, then, input, cursor, doomed, lost,
                 scripts>>
Finish ==
  /\ phase = "return" /\ ctl = <<>>
  /\ style = "main" \/ expr[root].type # "function"
  /\ IF style = "main" THEN phase' = "idle" /\ UNCHANGED cursor
     ELSE phase' = "cleanup" /\ cursor' = links.next[ListHead]
  /\ then' = "idle"
  /\ UNCHANGED <<tree, eval, links, functions, style, input, doomed, lost, scripts>>

\* kfs_lang_env_delete.
Close ==
  /\ phase = "idle"
  /\ phase' = "cleanup" /\ cursor' = links.next[ListHead]
  /\ then' = "closed"
  /\ UNCHANGED <<tree, eval, links, functions, style, input, doomed, lost, scripts>>

CleanupStep_ReadsDeleted ==
  /\ phase = "cleanup" /\ cursor # ListHead
  /\ links' = ListDel(links, cursor)
  /\ cursor' = links'.next[cursor]
  /\ functions' = Unlisted(cursor)
  /\ UNCHANGED <<tree, eval, phase, style, then, input, doomed, lost, scripts>>
\* kfs_lang_env_cleanup_functions.  It names the wrong handle in the loop and in
\* list_del; both cancel out, so that the nodes of the list are unlinked.
CleanupStep ==
  /\ phase = "cleanup" /\ cursor # ListHead
  /\ cursor' = links.next[cursor]
  /\ links' = ListDel(links, cursor)
  /\ functions' = Unlisted(cursor)
  /\ UNCHANGED <<tree, eval, phase, style, then, input, doomed, lost, scripts>>

CleanupDone ==
  /\ phase = "cleanup" /\ cursor = ListHead
  /\ DeleteRoot(then)
  /\ UNCHANGED <<tree, eval, links, functions, style, input, cursor, lost, scripts>>

-----------------------------------------------------------------------------
(* yyparse: the actions of the rules build a tree from its leaves          *)

\* A rule with n operands on the stack.
Reducing(op, n) ==
  phase = "parse" /\ input # <<>> /\ input[1].op = op /\ Len(values) >= n
Reduced ==
  /\ input' = Tail(input)
  /\ UNCHANGED <<eval, root, phase, style, then, cursor, doomed, lost, scripts>>

Top == values[Len(values)]
Under == values[Len(values) - 1]
\* The stack after a rule with n operands, with its result on top.
Result(n, e) == values' = Append(SubSeq(values, 1, Len(values) - n), e)

\* Numbers, variables, "break" and so on.
ReduceLeaf ==
  /\ Reducing("leaf", 0)
  /\ LET e == NewAddress IN New(e, "leaf", NULL, NULL, <<>>) /\ Result(0, e)
  /\ Reduced /\ UNCHANGED functions

\* "ID"[N] "(" named_list[P] ")"; an empty P is taken for none.
ReduceCall ==
  /\ Reducing("call", IF input[1].args THEN 1 ELSE 0)
  /\ LET e == NewAddress IN
       IF input[1].args
       THEN New(e, "call", input[1].str, Top, <<>>) /\ Result(1, e)
       ELSE New(e, "call", input[1].str, NULL, <<>>) /\ Result(0, e)
  /\ Reduced /\ UNCHANGED functions

\* A command with an expression, a condition or a block in it.
ReduceCommand ==
  /\ Reducing("command", 1)
  /\ LET e == NewAddress IN New(e, "command", NULL, Top, <<>>) /\ Result(1, e)
  /\ Reduced /\ UNCHANGED functions

\* "ID"[N] "(" ")" "{" inpt[C] "}"
ReduceFunction ==
  /\ Reducing("function", 1)
  /\ LET e == NewAddress IN New(e, "function", input[1].str, Top, <<>>) /\ Result(1, e)
  /\ Reduced /\ UNCHANGED functions

\* command_list : command
ReduceFirst ==
  /\ Reducing("first", 1)
  /\ LET e == NewAddress IN New(e, "list", NULL, NULL, <<Top>>) /\ Result(1, e)
  /\ Reduced /\ UNCHANGED functions

\* command_list : command_list command
ReduceNext ==
  /\ Reducing("next", 2)
  /\ expr' = [expr EXCEPT ![Under].list = Append(@, Top)]
  /\ Result(2, Under)
  /\ Reduced /\ UNCHANGED <<links, functions>>

\* expression_delist: a list of one gives its item away and is deleted.
Delist_KeepsList ==
  IF expr[Top].type = "list" /\ Len(expr[Top].list) = 1
  THEN UNCHANGED <<expr, links, functions>> /\ Result(1, expr[Top].list[1])
  ELSE UNCHANGED <<expr, links, functions, values>>
Delist ==
  IF expr[Top].type = "list" /\ Len(expr[Top].list) = 1
  THEN DeleteSelf(Top) /\ Result(1, expr[Top].list[1])
  ELSE UNCHANGED <<expr, links, functions, values>>
ReduceDelist ==
  /\ Reducing("delist", 1)
  /\ Delist
  /\ Reduced

\* "input": the tree is handed over, whether or not there was one before.
ParseDone ==
  /\ phase = "parse" /\ input = <<>> /\ Len(values) = 1
  /\ lost' = (lost \/ root # NULL)
  /\ root' = Top /\ values' = <<>>
  /\ phase' = "eval" /\ cur' = Top
  /\ UNCHANGED <<expr, links, functions, style, then, input, ctl, called, cursor, doomed, scripts>>

\* bison has no %destructor: what is on its stack stays allocated.
SyntaxError ==
  /\ Reducing("error", 0)
  /\ lost' = (lost \/ values # <<>>)
  /\ values' = <<>> /\ input' = <<>>
  /\ phase' = "idle"
  /\ UNCHANGED <<expr, root, eval, links, functions, style, then, cursor, doomed, scripts>>

-----------------------------------------------------------------------------
(* kfs_lang_eval_value                                                     *)

Evaluated == UNCHANGED <<tree, functions, style, then, input, doomed, lost, scripts>>
Entering(type) == phase = "eval" /\ Len(ctl) < MaxDepth /\ expr[cur].type = type
\* Calls kfs_lang_eval_value, which returns at once for NULL.
Continue(e) ==
  IF e = NULL THEN phase' = "return" /\ UNCHANGED cur ELSE phase' = "eval" /\ cur' = e
Descend(frame, e) == ctl' = Append(ctl, frame) /\ Continue(e)

EvalLeaf ==
  /\ Entering("leaf")
  /\ phase' = "return"
  /\ Evaluated /\ UNCHANGED <<eval, links, cursor>>

EvalCommand ==
  /\ Entering("command")
  /\ Descend([op |-> "command", e |-> cur, i |-> 0], expr[cur].left)
  /\ Evaluated /\ UNCHANGED <<called, links, cursor>>

\* The block of an if whose condition does not hold.
SkipCommand ==
  /\ Entering("command")
  /\ phase' = "return"
  /\ Evaluated /\ UNCHANGED <<eval, links, cursor>>

EvalList ==
  /\ Entering("list")
  /\ Descend([op |-> "list", e |-> cur, i |-> 1],
             IF expr[cur].list = <<>> THEN NULL ELSE expr[cur].list[1])
  /\ Evaluated /\ UNCHANGED <<called, links, cursor>>

\* eFUNCTION_DEF: "remove old definition".
EvalFunction ==
  /\ Entering("function")
  /\ phase' = "define" /\ cursor' = links.next[ListHead]
  /\ Evaluated /\ UNCHANGED <<eval, links>>

\* eFUNCTION_CALL looks for the function before it evaluates the arguments.
EvalCall ==
  /\ Entering("call")
  /\ phase' = "lookup" /\ cursor' = links.next[ListHead]
  /\ Evaluated /\ UNCHANGED <<eval, links>>

\* Both loops go on to the next function as long as the names differ.
Found == cursor # ListHead /\ expr[cursor].str = expr[cur].str
Search ==
  /\ phase \in {"define", "lookup"}
  /\ cursor # ListHead /\ ~Found
  /\ cursor' = links.next[cursor]
  /\ Evaluated /\ UNCHANGED <<eval, links, phase>>

\* The end of eFUNCTION_DEF: the definition becomes the first of the list.
Defined(m, rest) ==
  /\ links' = ListAdd(m, cur, ListHead)
  /\ functions' = <<cur>> \o rest
  /\ phase' = "return"
  /\ UNCHANGED <<tree, eval, style, then, input, cursor, doomed, lost, scripts>>
Redefine_Frees ==
  /\ phase = "define" /\ Found
  /\ expr' = [expr EXCEPT ![cursor] = Free]
  /\ links' = ListAdd(ListDel(links, cursor), cur, ListHead)
  /\ functions' = <<cur>> \o Unlisted(cursor)
  /\ phase' = "return"
  /\ UNCHANGED <<root, values, eval, style, then, input, cursor, doomed, lost, scripts>>
Redefine_KeepsOld ==
  /\ phase = "define" /\ Found
  /\ phase' = "return"
  /\ Evaluated /\ UNCHANGED <<eval, links, cursor>>
DefineNew == phase = "define" /\ cursor = ListHead /\ Defined(links, functions)
Redefine == phase = "define" /\ Found /\ Defined(ListDel(links, cursor), Unlisted(cursor))

CallFound ==
  /\ phase = "lookup" /\ Found
  /\ called' = cursor
  /\ Descend([op |-> "arguments", e |-> cursor, i |-> 0], expr[cur].left)
  /\ Evaluated /\ UNCHANGED <<links, cursor>>

\* The loop leaves the head of the list in its variable, not the NULL that is asked
\* for: it is taken for an expression, and the arguments are evaluated as ever.
CallMissing ==
  /\ phase = "lookup" /\ cursor = ListHead
  /\ Descend([op |-> "arguments", e |-> ListHead, i |-> 0], expr[cur].left)
  /\ Evaluated /\ UNCHANGED <<called, links, cursor>>

StackOverflow ==
  /\ phase = "eval" /\ Len(ctl) >= MaxDepth
  /\ phase' = "crashed"
  /\ Evaluated /\ UNCHANGED <<eval, links, cursor>>

Returning(op) == phase = "return" /\ ctl # <<>> /\ ctl[Len(ctl)].op = op
Frame == ctl[Len(ctl)]
Below == SubSeq(ctl, 1, Len(ctl) - 1)

\* The arguments are there: the body of the function that was found.
CallBody ==
  /\ Returning("arguments") /\ Frame.e # ListHead
  /\ ctl' = Append(Below, [Frame EXCEPT !.op = "body"])
  /\ Continue(expr[Frame.e].left)
  /\ Evaluated /\ UNCHANGED <<called, links, cursor>>

\* The left of what is no expression lies in another field of the environment,
\* stringSysReplace: NULL with glibc, whose regcomp has failed; not so elsewhere.
CallNoBody ==
  /\ Returning("arguments") /\ Frame.e = ListHead
  /\ \/ ctl' = Append(Below, [Frame EXCEPT !.op = "body"]) /\ Continue(NULL)
     \/ phase' = "crashed" /\ UNCHANGED <<cur, ctl>>
  /\ Evaluated /\ UNCHANGED <<called, links, cursor>>

CallReturn ==
  /\ Returning("body")
  /\ ctl' = Below
  /\ Evaluated /\ UNCHANGED <<cur, called, links, phase, cursor>>

\* The block of a while.
CommandAgain ==
  /\ Returning("command")
  /\ Continue(expr[Frame.e].left)
  /\ Evaluated /\ UNCHANGED <<ctl, called, links, cursor>>

CommandReturn ==
  /\ Returning("command")
  /\ ctl' = Below
  /\ Evaluated /\ UNCHANGED <<cur, called, links, phase, cursor>>

ListItem ==
  /\ Returning("list")
  /\ Frame.i < Len(expr[Frame.e].list)
  /\ ctl' = Append(Below, [Frame EXCEPT !.i = @ + 1])
  /\ Continue(expr[Frame.e].list[Frame.i + 1])
  /\ Evaluated /\ UNCHANGED <<called, links, cursor>>

\* After the last item, or after one whose value is break, continue or return.
ListReturn ==
  /\ Returning("list")
  /\ ctl' = Below
  /\ Evaluated /\ UNCHANGED <<cur, called, links, phase, cursor>>

Stopped == phase \in {"closed", "crashed"} /\ UNCHANGED vars

-----------------------------------------------------------------------------

Delete == DeleteChild \/ DeleteNode \/ DeleteDone
Parse ==
  ReduceLeaf \/ ReduceCall \/ ReduceCommand \/ ReduceFunction \/ ReduceFirst \/ ReduceNext
  \/ ReduceDelist \/ ParseDone \/ SyntaxError
Evaluate ==
  EvalLeaf \/ EvalCommand \/ SkipCommand \/ CommandAgain \/ EvalList \/ EvalFunction
  \/ EvalCall \/ Search \/ DefineNew \/ Redefine \/ CallFound \/ CallMissing \/ StackOverflow
  \/ CallBody \/ CallNoBody \/ CallReturn \/ CommandReturn \/ ListItem \/ ListReturn
Run == \E s \in Scripts : RunMain(s) \/ RunEval(s)
Next ==
  Run \/ Parse \/ Evaluate \/ NoValue \/ Finish \/ Close \/ CleanupStep \/ CleanupDone
  \/ Delete \/ Stopped

Spec == Init /\ [][Next]_vars

-----------------------------------------------------------------------------
(* Properties                                                              *)

Nameless ==
  [type: {"free", "leaf", "command", "list"}, str: {NULL}, left: Expr \cup {NULL},
   list: Seq(Expr)]
Named ==
  [type: {"call", "function"}, str: Names, left: Expr \cup {NULL}, list: Seq(Expr)]
Expression == Nameless \cup Named
DeleteCall == [e: Expr, i: Nat]
CallFrame ==
  [op: {"command", "list"}, e: Expr, i: Nat]
  \cup [op: {"arguments", "body"}, e: Handles, i: Nat]

\* Types; what bison, the evaluation and the deletion work on belongs to their phases.
TypeOK ==
  /\ expr \in [Expr -> Expression]
  /\ links \in [next: [Handles -> Handles \cup {NULL}], prev: [Handles -> Handles \cup {NULL}]]
  /\ root \in Expr \cup {NULL}
  /\ functions \in Seq(Expr)
  /\ phase \in {"idle", "parse", "eval", "define", "lookup", "return", "cleanup", "delete",
                "closed", "crashed"}
  /\ style \in {"main", "kfs_lang_eval"} /\ then \in {"idle", "parse", "closed"}
  /\ input \in Seq(Reduction)
  /\ values \in Seq(Expr)
  /\ cur \in Expr \cup {NULL}
  /\ ctl \in Seq(CallFrame) /\ called \in Expr \cup {NULL}
  /\ cursor \in Handles
  /\ doomed \in Seq(DeleteCall)
  /\ lost \in BOOLEAN /\ scripts \in 0..MaxScripts

\* kfs_lang_env.c:616, expression.c:222: whatever was defined, redefined, forgotten
\* and freed in between, the functions are a sound list of allocated definitions
\* with one for each name, and no other expression hangs on to it.
FunctionsSound ==
  /\ IsList(links, ListHead, functions)
  /\ \A i \in 1..Len(functions) : expr[functions[i]].type = "function"
  /\ \A i, j \in 1..Len(functions) :
       expr[functions[i]].str = expr[functions[j]].str => i = j
  /\ \A e \in Expr : IsAlone(links, e) \/ \E i \in 1..Len(functions) : functions[i] = e

\* The addresses that the code is going to follow.
InUse ==
  (IF phase = "delete" THEN {} ELSE {root})
  \cup (IF phase \in {"eval", "define", "lookup"} THEN {cur} ELSE {})
  \cup (IF phase \in {"define", "lookup", "cleanup"} THEN {cursor} ELSE {})
  \cup {values[i] : i \in 1..Len(values)}
  \cup {ctl[i].e : i \in 1..Len(ctl)} \cup {doomed[i].e : i \in 1..Len(doomed)}

\* kfs_lang_env.c:632: a function that is redefined or forgotten while it runs, or
\* while the arguments of its call are evaluated, is not freed before it has returned.
NoUseAfterFree == InUse \subseteq Allocated \cup {NULL, ListHead}

\* expression.c:197, kfs_lang_env.c:667: each tree is freed with all its nodes, lists
\* that expression_delist replaced included; only a syntax error and a tree that main
\* does not free (kfs_lang_env.c:167) leave something behind.
NothingLost ==
  ~lost /\ phase \in {"idle", "closed"} /\ root = NULL => Allocated = {}

\* The last definition of each name that was executed, NULL if there is none.
Table ==
  [n \in Names |->
     IF \E i \in 1..Len(functions) : expr[functions[i]].str = n
     THEN CHOOSE e \in Expr : expr[e].str = n /\ \E i \in 1..Len(functions) : functions[i] = e
     ELSE NULL]
Doing ==
  CASE phase = "define" -> [op |-> "define", name |-> expr[cur].str, def |-> cur]
    [] phase = "lookup" -> [op |-> "call", name |-> expr[cur].str]
    [] OTHER -> [op |-> "nothing"]
\* A script is being evaluated, or its evaluation ended the process.
Busy == phase \in {"eval", "define", "lookup", "return", "crashed"}

Promise == INSTANCE KfsFunctionTable
             WITH Defs <- Expr, table <- Table, doing <- Doing, busy <- Busy, called <- called

\* kfs_lang_env.c:616, 626: a call runs the definition that was executed last, and no
\* definition is dropped while a script runs, for all that trees and lists are rebuilt
\* in between.
RunsLatest == Promise!Spec

=============================================================================
