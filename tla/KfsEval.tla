------------------------------- MODULE KfsEval ------------------------------
(***************************************************************************)
(* The interpreter: kfs_lang_eval_value of src/rt/kfs_lang_env.c and the   *)
(* two drivers that call it, kfs_lang_eval of the same file and main of    *)
(* src/rt/main.c.                                                          *)
(*                                                                         *)
(* The C function is recursive over the expression tree.  Here its call    *)
(* stack is the variable ctl and a step is what the code does between two  *)
(* calls of itself: a step either starts on the expression cur (phase      *)
(* "eval") or goes on with the frame on top of ctl once a nested call has  *)
(* returned ret (phase "return").  The operations on values are            *)
(* constants, so that what is proved here holds whatever they compute.     *)
(***************************************************************************)
EXTENDS KfsEnv, KfsExpr

CONSTANTS
  ScriptSets,         \* the sequences of scripts that a run may be given
  ParseError,         \* a script that the parser rejects
  Driver,             \* "kfs_lang_eval", or "main"
  LiteralIds,         \* the string literals of all scripts
  Binary(_, _, _),    \* the outcomes of an operator on two values
  Negation(_),             \* value_not
  CellsOf(_),           \* the Value cells a value consists of
  FreedBy(_),           \* how many of them value_delete frees
  DoubleInts,         \* what (int) can make of a Double
  JsonValues,         \* outcomes of json_read_string
  FileValues          \* outcomes of value_read_file

\* s is a sequence, of whatever it holds.
IsSeq(s) == s \in Seq({s[k] : k \in DOMAIN s})

ASSUME ScriptSetsAssumption == \A s \in ScriptSets : IsSeq(s)

VARIABLES
  scripts,    \* the scripts to run, in this order
  inx,        \* how many have been taken up
  results,    \* what the finished ones have returned
  phase,      \* "idle", "eval", "return", "done" or "crashed"
  cur,        \* the expression whose evaluation starts
  ctl,        \* the active calls of kfs_lang_eval_value, innermost last
  ret,        \* the value of the call that has just returned
  spaces,     \* varStackStack
  functions,  \* name -> body
  cut,        \* how often eval_string has edited each literal
  live,       \* Value cells allocated and not freed
  stranded    \* of these, the ones "int" lost on its error path

machine == <<phase, cur, ctl, ret>>
env == <<spaces, functions, cut>>
memory == <<live, stranded>>
driver == <<scripts, inx, results>>
vars == <<machine, env, memory, driver>>

-----------------------------------------------------------------------------
(* The frames of the call stack: an expression, where the code stands in   *)
(* its case, and the locals that are still needed.  "at" is not in the     *)
(* code: the spaces as they were when the frame was entered.               *)

Frame(pc) ==
  [e |-> cur, pc |-> pc, n |-> 0, held |-> <<>>, fn |-> NoExpr, at |-> spaces]

Top == ctl[Len(ctl)]

Evaluating(types) == phase = "eval" /\ cur.type \in types
Returned(types, pc) ==
  phase = "return" /\ ctl # <<>> /\ Top.e.type \in types /\ Top.pc = pc

\* The call for cur returns v at once.
Yield(v) == phase' = "return" /\ ret' = v /\ cur' = NoExpr /\ ctl' = ctl

\* The call on stack calls itself for an expression.
Descend(stack, child) ==
  phase' = "eval" /\ cur' = child /\ ctl' = stack /\ ret' = Null
Push(frame, child) == Descend(Append(ctl, frame), child)
Switch(frame, child) == Descend(Append(Front(ctl), frame), child)

\* The call on top of the stack returns v.
Pop(v) == phase' = "return" /\ ret' = v /\ cur' = NoExpr /\ ctl' = Front(ctl)

Crash == phase' = "crashed" /\ UNCHANGED <<cur, ctl, ret>>

Memory(allocated, freed) ==
  live' = live + allocated - freed /\ UNCHANGED stranded

\* The cells that the variables of a level, a space or all spaces own, and
\* that value_delete frees with them.
Sum(counts) == FoldSet(LAMBDA k, sum : sum + counts[k], 0, DOMAIN counts)
LevelCells(level) == Sum([name \in DOMAIN level |-> FreedBy(level[name])])
SpaceCells(vs) == Sum([k \in DOMAIN vs |-> LevelCells(vs[k])])
AllCells(sp) == Sum([k \in DOMAIN sp |-> SpaceCells(sp[k])])

-----------------------------------------------------------------------------
(* Expressions without operands                                            *)

LeafTypes == {"eBREAK", "eCONTI", "eIntVALUE", "eDoubleVALUE", "eBoolVALUE"}

LeafValue(e) ==
  CASE e.type = "eBREAK" -> value_new("FC_Break")
    [] e.type = "eCONTI" -> value_new("FC_Conti")
    [] e.type = "eIntVALUE" -> value_new_int(e.lValue)
    [] e.type = "eDoubleVALUE" -> value_new_double
    [] e.type = "eBoolVALUE" -> value_new_bool(e.lValue)

EvalNull ==
  /\ Evaluating({"NULL"})
  /\ Yield(Null)
  /\ UNCHANGED <<env, memory, driver>>

EvalLeaf ==
  /\ Evaluating(LeafTypes)
  /\ Yield(LeafValue(cur))
  /\ Memory(1, 0)
  /\ UNCHANGED <<env, driver>>

\* The closing quote is overwritten in the expression itself, so that every
\* further evaluation takes one more character off the text.  (The count
\* stops where nothing is left of it.)  A {{NAME}} in double quotes stays as it
\* is: regcomp of glibc refuses the pattern, and useStringSysReplace is 0.
eval_string(e, n) == value_new_string(SubSeq(e.str, 1, Len(e.str) - n))

EvalString ==
  /\ Evaluating({"eStringVALUE"})
  /\ Yield(eval_string(cur, cut[cur.id]))
  /\ cut' = [cut EXCEPT ![cur.id] = IF @ < Len(cur.str) THEN @ + 1 ELSE @]
  /\ Memory(1, 0)
  /\ UNCHANGED <<spaces, functions, driver>>

\* "dump" prints only, "a = empty" and "eval" do nothing.
EvalNothing ==
  /\ Evaluating({"eDUMP", "eEVAL", "eSET_EMPTY"})
  /\ Yield(Null)
  /\ UNCHANGED <<env, memory, driver>>

EvalVar ==
  /\ Evaluating({"eVAR"})
  /\ LET v == Copy(kfs_lang_get_var(spaces, cur.str))
     IN  Yield(v) /\ Memory(CellsOf(v), 0)
  /\ UNCHANGED <<env, driver>>

EvalIsEmpty ==
  /\ Evaluating({"eIS_EMPTY"})
  /\ Yield(value_new_bool(kfs_lang_get_var(spaces, cur.str).type = "Empty"))
  /\ Memory(1, 0)
  /\ UNCHANGED <<env, driver>>

\* The latest definition of a name is the only one in the list.
EvalFunctionDef ==
  /\ Evaluating({"eFUNCTION_DEF"})
  /\ Yield(Null)
  /\ functions' = dict_set(functions, cur.str, cur.left)
  /\ UNCHANGED <<spaces, cut, memory, driver>>

-----------------------------------------------------------------------------
(* Lists of expressions and of commands                                    *)

EvalEmptyList ==
  /\ Evaluating({"eListVALUE"})
  /\ cur.list = <<>>
  /\ Yield(value_new_list(<<>>))
  /\ Memory(1, 0)
  /\ UNCHANGED <<env, driver>>

ListEnter ==
  /\ Evaluating({"eListVALUE"})
  /\ cur.list # <<>>
  /\ Push([Frame("item") EXCEPT !.n = 1], cur.list[1])
  /\ Memory(1, 0)
  /\ UNCHANGED <<env, driver>>

\* Mutation: the items before a break, continue or return are not freed.
ListStop_KeepsItems ==
  /\ Returned({"eListVALUE"}, "item")
  /\ IsFC(ret)
  /\ Pop(ret)
  /\ UNCHANGED <<env, memory, driver>>

\* break, continue and return end the list and replace its value.
ListStop ==
  /\ Returned({"eListVALUE"}, "item")
  /\ IsFC(ret)
  /\ Pop(ret)
  /\ Memory(0, FreedBy(value_new_list(Top.held)))
  /\ UNCHANGED <<env, driver>>

ListNext ==
  /\ Returned({"eListVALUE"}, "item")
  /\ ~IsFC(ret)
  /\ Top.n < Len(Top.e.list)
  /\ Switch([Top EXCEPT !.n = @ + 1, !.held = value_list_add(@, ret)],
            Top.e.list[Top.n + 1])
  /\ UNCHANGED <<env, memory, driver>>

ListDone ==
  /\ Returned({"eListVALUE"}, "item")
  /\ ~IsFC(ret)
  /\ Top.n >= Len(Top.e.list)
  /\ Pop(value_new_list(value_list_add(Top.held, ret)))
  /\ UNCHANGED <<env, memory, driver>>

\* An object keeps NULL entries, and does not look for flow control.
Entries(e, held) ==
  [name \in {e.object[k].name : k \in DOMAIN e.object} |->
     held[CHOOSE k \in DOMAIN e.object : e.object[k].name = name]]

EvalEmptyObject ==
  /\ Evaluating({"eObjectVALUE"})
  /\ cur.object = <<>>
  /\ Yield(value_new_object(EmptyDict))
  /\ Memory(1, 0)
  /\ UNCHANGED <<env, driver>>

ObjectEnter ==
  /\ Evaluating({"eObjectVALUE"})
  /\ cur.object # <<>>
  /\ Push([Frame("item") EXCEPT !.n = 1], cur.object[1].data)
  /\ Memory(1, 0)
  /\ UNCHANGED <<env, driver>>

ObjectNext ==
  /\ Returned({"eObjectVALUE"}, "item")
  /\ Top.n < Len(Top.e.object)
  /\ Switch([Top EXCEPT !.n = @ + 1, !.held = Append(@, ret)],
            Top.e.object[Top.n + 1].data)
  /\ UNCHANGED <<env, memory, driver>>

ObjectDone ==
  /\ Returned({"eObjectVALUE"}, "item")
  /\ Top.n >= Len(Top.e.object)
  /\ Pop(value_new_object(Entries(Top.e, Append(Top.held, ret))))
  /\ UNCHANGED <<env, memory, driver>>

-----------------------------------------------------------------------------
(* Operators.  Both operands are arguments of one C call, which may         *)
(* evaluate them in either order.                                          *)

BinaryTypes == {"eMULTIPLY", "eADD", "eMINUS", "eDIVIDE", "eMODULO", "ePOWER",
                "eLT", "eLE", "eEQ", "eNE", "eGT", "eGE", "eAND", "eOR"}

BinaryEnter ==
  /\ Evaluating(BinaryTypes)
  /\ \/ Push(Frame("left first"), cur.left)
     \/ Push(Frame("right first"), cur.right)
  /\ UNCHANGED <<env, memory, driver>>

BinarySecond ==
  /\ \/ /\ Returned(BinaryTypes, "left first")
        /\ Switch([Top EXCEPT !.pc = "left held", !.held = <<ret>>], Top.e.right)
     \/ /\ Returned(BinaryTypes, "right first")
        /\ Switch([Top EXCEPT !.pc = "right held", !.held = <<ret>>], Top.e.left)
  /\ UNCHANGED <<env, memory, driver>>

\* An operation ends with v, of which the caller becomes the owner.
Outcome(v, freed) ==
  \/ v = Wild /\ Crash /\ UNCHANGED memory
  \/ v # Wild /\ Pop(v) /\ Memory(CellsOf(v), freed)

BinaryApply ==
  /\ \/ /\ Returned(BinaryTypes, "left held")
        /\ \E v \in Binary(Top.e.type, Top.held[1], ret) :
             Outcome(v, FreedBy(Top.held[1]) + FreedBy(ret))
     \/ /\ Returned(BinaryTypes, "right held")
        /\ \E v \in Binary(Top.e.type, ret, Top.held[1]) :
             Outcome(v, FreedBy(Top.held[1]) + FreedBy(ret))
  /\ UNCHANGED <<env, driver>>

UnaryTypes == {"eNOT", "eUNARY_MINUS", "eDOT", "eINT", "eASSIGN_VAR", "ePRINT",
               "eREAD_FILE", "eJSON", "eRETURN"}

UnaryEnter ==
  /\ Evaluating(UnaryTypes)
  /\ Push(Frame("apply"), cur.left)
  /\ UNCHANGED <<env, memory, driver>>

NotApply ==
  /\ Returned({"eNOT"}, "apply")
  /\ Outcome(Negation(ret), FreedBy(ret))
  /\ UNCHANGED <<env, driver>>

\* The operand itself is changed and returned; NULL is dereferenced.
MinusApply ==
  /\ Returned({"eUNARY_MINUS"}, "apply")
  /\ \/ ret = Null /\ Crash
     \/ ret.type = "Int" /\ Pop(value_new_int(Wrap(-ret.i)))
     \/ ret.type \notin {"NULL", "Int"} /\ Pop(ret)
  /\ UNCHANGED <<env, memory, driver>>

DotApply ==
  /\ Returned({"eDOT"}, "apply")
  /\ LET entry == value_object_get(ret, Top.e.str)
         v == IF entry = Null THEN Null ELSE Copy(entry)
     IN  Pop(v) /\ Memory(CellsOf(v), FreedBy(ret))
  /\ UNCHANGED <<env, driver>>

\* The operand is turned into an Int in place; one that cannot be is lost.
IntApply ==
  /\ Returned({"eINT"}, "apply")
  /\ \/ ret = Null /\ Crash /\ UNCHANGED memory
     \/ ret.type \in {"Int", "Bool"} /\ Pop(value_new_int(ret.i)) /\ UNCHANGED memory
     \/ ret.type = "Double" /\ (\E n \in DoubleInts : Pop(value_new_int(n)))
          /\ UNCHANGED memory
     \/ /\ ret.type \notin {"NULL", "Int", "Bool", "Double"}
        /\ Pop(Null)
        /\ stranded' = stranded + CellsOf(ret) /\ UNCHANGED live
  /\ UNCHANGED <<env, driver>>

AssignApply ==
  /\ Returned({"eASSIGN_VAR"}, "apply")
  /\ Pop(ret)
  /\ \/ ret = Null /\ UNCHANGED <<spaces, memory>>
     \/ /\ ret # Null
        /\ spaces' = kfs_lang_set_var(spaces, Top.e.str, Copy(ret))
        /\ Memory(CellsOf(Copy(ret)),
                  FreedBy(Overwritten(kfs_lang_env_actual_space(spaces), Top.e.str)))
  /\ UNCHANGED <<functions, cut, driver>>

PrintApply ==
  /\ Returned({"ePRINT"}, "apply")
  /\ Pop(Null)
  /\ Memory(0, FreedBy(ret))
  /\ UNCHANGED <<env, driver>>

\* If reading fails the result is a pointer that was never set.
ReadApply ==
  /\ \/ Returned({"eJSON"}, "apply") /\ \E v \in JsonValues : Outcome(v, FreedBy(ret))
     \/ Returned({"eREAD_FILE"}, "apply") /\ \E v \in FileValues : Outcome(v, FreedBy(ret))
  /\ UNCHANGED <<env, driver>>

ReturnApply ==
  /\ Returned({"eRETURN"}, "apply")
  /\ \/ ret = Null /\ Crash /\ UNCHANGED memory
     \/ ret.type = "List" /\ Pop(FCReturn(ret.l)) /\ UNCHANGED memory
     \/ ret.type \notin {"NULL", "List"} /\ Pop(FCReturn(<<ret>>)) /\ Memory(1, 0)
  /\ UNCHANGED <<env, driver>>

\* list[index]: the index is evaluated first.
ArrayEnter ==
  /\ Evaluating({"eARRAY_ACCESS"})
  /\ Push(Frame("index"), cur.right)
  /\ UNCHANGED <<env, memory, driver>>

ArrayIndex ==
  /\ Returned({"eARRAY_ACCESS"}, "index")
  /\ \/ ret = Null /\ Crash /\ UNCHANGED memory
     \/ ret.type = "Int" /\ Memory(0, FreedBy(ret))
          /\ Switch([Top EXCEPT !.pc = "apply", !.n = ret.i], Top.e.left)
     \/ ret.type \notin {"NULL", "Int"} /\ Pop(Null) /\ Memory(0, FreedBy(ret))
  /\ UNCHANGED <<env, driver>>

ArrayApply ==
  /\ Returned({"eARRAY_ACCESS"}, "apply")
  /\ \/ ret = Null /\ Crash /\ UNCHANGED memory
     \/ /\ ret # Null
        /\ LET item == value_list_get(ret, Top.n)
               v == IF item = Null THEN Null ELSE Copy(item)
           IN  Pop(v) /\ Memory(CellsOf(v), FreedBy(ret))
  /\ UNCHANGED <<env, driver>>

-----------------------------------------------------------------------------
(* Blocks, if, while                                                       *)

BlockEnter ==
  /\ Evaluating({"eBLOCK"})
  /\ Push(Frame("leave"), cur.left)
  /\ spaces' = kfs_lang_env_space_add_vars(spaces)
  /\ UNCHANGED <<functions, cut, memory, driver>>

\* Mutation: a block that break, continue or return leaves keeps its level.
BlockLeave_OnlyAtItsEnd ==
  /\ Returned({"eBLOCK"}, "leave")
  /\ Pop(ret)
  /\ spaces' = IF IsFC(ret) THEN spaces ELSE kfs_lang_env_space_del_vars(spaces)
  /\ UNCHANGED <<functions, cut, memory, driver>>

BlockLeave ==
  /\ Returned({"eBLOCK"}, "leave")
  /\ Pop(ret)
  /\ spaces' = kfs_lang_env_space_del_vars(spaces)
  /\ Memory(0, LevelCells(Last(kfs_lang_env_actual_space(spaces))))
  /\ UNCHANGED <<functions, cut, driver>>

IfEnter ==
  /\ Evaluating({"eIF"})
  /\ Push(Frame("choose"), cur.next)
  /\ UNCHANGED <<env, memory, driver>>

IsTrue(v) == v.type = "Bool" /\ v.i # 0

\* Whatever is not true takes the other branch; the branch replaces the if.
IfChoose ==
  /\ Returned({"eIF"}, "choose")
  /\ \/ IsTrue(ret) /\ Descend(Front(ctl), Top.e.right)
     \/ ~IsTrue(ret) /\ Descend(Front(ctl), Top.e.left)
  /\ Memory(0, FreedBy(ret))
  /\ UNCHANGED <<env, driver>>

WhileEnter ==
  /\ Evaluating({"eWHILE"})
  /\ Push(Frame("first"), cur.next)
  /\ UNCHANGED <<env, memory, driver>>

\* Only the first value of the condition must be a Bool.
WhileFirst ==
  /\ Returned({"eWHILE"}, "first")
  /\ \/ IsTrue(ret) /\ Switch([Top EXCEPT !.pc = "body"], Top.e.right)
     \/ ~IsTrue(ret) /\ Pop(Null)
  /\ Memory(0, FreedBy(ret))
  /\ UNCHANGED <<env, driver>>

\* Later ones are read as they come, an iValue that was never set included.
MayBeTrue(v) == v.type \in {"Bool", "Int"} => v.i # 0
MayBeFalse(v) == v.type \in {"Bool", "Int"} => v.i = 0

WhileAgain ==
  /\ Returned({"eWHILE"}, "again")
  /\ \/ ret = Null /\ Crash /\ UNCHANGED memory
     \/ /\ ret # Null /\ MayBeTrue(ret)
        /\ Switch([Top EXCEPT !.pc = "body"], Top.e.right)
        /\ Memory(0, FreedBy(ret))
     \/ /\ ret # Null /\ MayBeFalse(ret)
        /\ Pop(Null)
        /\ Memory(0, FreedBy(ret))
  /\ UNCHANGED <<env, driver>>

\* Mutation: break ends the loop but is passed on, as return is.
WhileBody_PassesBreak ==
  /\ Returned({"eWHILE"}, "body")
  /\ \/ ret = Null /\ Crash /\ UNCHANGED memory
     \/ ret.type \in {"FC_Return", "FC_Break"} /\ Pop(ret) /\ UNCHANGED memory
     \/ /\ ret.type \notin {"NULL", "FC_Return", "FC_Break"}
        /\ Switch([Top EXCEPT !.pc = "again"], Top.e.next)
        /\ Memory(0, FreedBy(ret))
  /\ UNCHANGED <<env, driver>>

\* A body that evaluates to NULL is dereferenced.
WhileBody ==
  /\ Returned({"eWHILE"}, "body")
  /\ \/ ret = Null /\ Crash /\ UNCHANGED memory
     \/ ret.type = "FC_Return" /\ Pop(ret) /\ UNCHANGED memory
     \/ ret.type = "FC_Break" /\ Pop(Null) /\ Memory(0, FreedBy(ret))
     \/ /\ ret.type \notin {"NULL", "FC_Return", "FC_Break"}
        /\ Switch([Top EXCEPT !.pc = "again"], Top.e.next)
        /\ Memory(0, FreedBy(ret))
  /\ UNCHANGED <<env, driver>>

-----------------------------------------------------------------------------
(* Function calls                                                          *)

\* The body is looked up before the arguments are evaluated.  The search for
\* an unknown name ends at the list head, which the code takes for a
\* function: its "body" is NULL, or following it ends the process.
CallEnter ==
  /\ Evaluating({"eFUNCTION_CALL"})
  /\ \/ /\ cur.str \in DOMAIN functions
        /\ Push([Frame("args") EXCEPT !.fn = functions[cur.str]], cur.left)
     \/ cur.str \notin DOMAIN functions /\ Push(Frame("args"), cur.left)
     \/ cur.str \notin DOMAIN functions /\ Crash
  /\ UNCHANGED <<env, memory, driver>>

CallBody ==
  /\ Returned({"eFUNCTION_CALL"}, "args")
  /\ Switch([Top EXCEPT !.pc = "leave", !.at = spaces], Top.fn)
  /\ spaces' = kfs_lang_env_add_space(spaces, ret)
  /\ Memory(LevelCells(variables_new(ret)), FreedBy(ret))
  /\ UNCHANGED <<functions, cut, driver>>

CallLeave ==
  /\ Returned({"eFUNCTION_CALL"}, "leave")
  /\ LET v == value_delist(ReturnedValue(ret))
     IN  /\ Pop(v)
         /\ Memory(0, SpaceCells(kfs_lang_env_actual_space(spaces))
                        + CellsOf(ret) - CellsOf(v))
  /\ spaces' = kfs_lang_env_remove_space(spaces)
  /\ UNCHANGED <<functions, cut, driver>>

-----------------------------------------------------------------------------
(* The drivers.  kfs_lang_eval starts every script with a fresh space and  *)
(* forgets its functions; main keeps both from script to script.           *)

\* Mutation: the old spaces are cleaned up and no new one is added.
Prepared_Empty == <<>>

\* Mutation: main, too, starts every script with fresh variables.
Prepared_Fresh == kfs_lang_env_add_space(<<>>, Null)

Prepared == IF Driver = "main" THEN spaces ELSE kfs_lang_env_add_space(<<>>, Null)

\* The parser makes new literals; those of earlier scripts live on with main.
NoCut == [id \in LiteralIds |-> 0]

StartScript ==
  /\ phase = "idle"
  /\ inx < Len(scripts)
  /\ scripts[inx + 1] # ParseError
  /\ Descend(<<>>, scripts[inx + 1])
  /\ inx' = inx + 1
  /\ spaces' = Prepared
  /\ cut' = IF Driver = "main" THEN cut ELSE NoCut
  /\ Memory(AllCells(Prepared), AllCells(spaces))
  /\ UNCHANGED <<functions, scripts, results>>

ParseFails ==
  /\ phase = "idle"
  /\ inx < Len(scripts)
  /\ scripts[inx + 1] = ParseError
  /\ inx' = inx + 1
  /\ results' = Append(results, Null)
  /\ spaces' = Prepared
  /\ Memory(AllCells(Prepared), AllCells(spaces))
  /\ UNCHANGED <<machine, functions, cut, scripts>>

\* The value is handed on, used and deleted.  kfs_lang_eval dereferences a
\* NULL result, main does not.
FinishScript ==
  /\ phase = "return"
  /\ ctl = <<>>
  /\ \/ /\ Driver # "main" /\ ret = Null
        /\ Crash
        /\ UNCHANGED <<functions, memory, results>>
     \/ /\ Driver = "main" \/ ret # Null
        /\ LET v == value_delist(ReturnedValue(ret))
           IN  /\ results' = Append(results, v)
               /\ Memory(0, CellsOf(ret) - CellsOf(v) + FreedBy(v))
        /\ functions' = IF Driver = "main" THEN functions ELSE EmptyDict
        /\ phase' = "idle" /\ ret' = Null
        /\ UNCHANGED <<cur, ctl>>
  /\ UNCHANGED <<spaces, cut, scripts, inx>>

kfs_lang_env_delete ==
  /\ phase = "idle"
  /\ inx >= Len(scripts)
  /\ phase' = "done"
  /\ spaces' = <<>>
  /\ functions' = EmptyDict
  /\ Memory(0, AllCells(spaces) + 1)
  /\ UNCHANGED <<cur, ctl, ret, cut, driver>>

Stopped == phase \in {"done", "crashed"} /\ UNCHANGED vars

-----------------------------------------------------------------------------

\* kfs_lang_env_new allocates the value "empty" and the first space.
Init ==
  /\ scripts \in ScriptSets
  /\ inx = 0 /\ results = <<>>
  /\ phase = "idle" /\ cur = NoExpr /\ ctl = <<>> /\ ret = Null
  /\ spaces = kfs_lang_env_add_space(<<>>, Null)
  /\ functions = EmptyDict
  /\ cut = NoCut
  /\ live = 1 /\ stranded = 0

Leaves == EvalNull \/ EvalLeaf \/ EvalString \/ EvalNothing \/ EvalVar
            \/ EvalIsEmpty \/ EvalFunctionDef
Collections == EvalEmptyList \/ ListEnter \/ ListStop \/ ListNext \/ ListDone
                 \/ EvalEmptyObject \/ ObjectEnter \/ ObjectNext \/ ObjectDone
Operators == BinaryEnter \/ BinarySecond \/ BinaryApply \/ UnaryEnter
               \/ NotApply \/ MinusApply \/ DotApply \/ IntApply \/ AssignApply
               \/ PrintApply \/ ReadApply \/ ReturnApply
               \/ ArrayEnter \/ ArrayIndex \/ ArrayApply
Control == BlockEnter \/ BlockLeave \/ IfEnter \/ IfChoose
             \/ WhileEnter \/ WhileFirst \/ WhileBody \/ WhileAgain
Calls == CallEnter \/ CallBody \/ CallLeave
Drive == StartScript \/ ParseFails \/ FinishScript \/ kfs_lang_env_delete

Step == Leaves \/ Collections \/ Operators \/ Control \/ Calls \/ Drive
Next == Step \/ Stopped

Spec == Init /\ [][Next]_vars

\* The interpreter is one thread that nothing blocks.
FairSpec == Spec /\ WF_vars(Step)

=============================================================================
