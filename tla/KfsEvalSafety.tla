--------------------------- MODULE KfsEvalSafety ----------------------------
(***************************************************************************)
(* What the interpreter of KfsEval promises its scripts.                   *)
(***************************************************************************)
EXTENDS KfsEval

Pcs == {"item", "left first", "right first", "left held", "right held", "apply",
        "index", "leave", "choose", "first", "again", "body", "args"}

IsFrame(f) ==
  f \in [e : {f.e}, pc : Pcs, n : {f.n}, held : {f.held}, fn : {f.fn}, at : {f.at}]

\* Spaces in which list_first_entry always finds a space and a level.
IsSpaces(sp) ==
  /\ IsSeq(sp) /\ sp # <<>>
  /\ \A k \in DOMAIN sp : IsSeq(sp[k]) /\ sp[k] # <<>>

\* Type invariant.  It includes that no first entry is ever taken of an empty
\* list of spaces or of levels (kfs_lang_env_actual_space, var_stack_set).
TypeOK ==
  /\ phase \in {"idle", "eval", "return", "done", "crashed"}
  /\ IsSeq(scripts) /\ inx \in Nat /\ IsSeq(results)
  /\ IsSeq(ctl)
  /\ \A i \in DOMAIN ctl : IsFrame(ctl[i]) /\ IsSpaces(ctl[i].at)
  /\ phase # "done" => IsSpaces(spaces)
  /\ cut \in [LiteralIds -> Nat]

-----------------------------------------------------------------------------
(* The stack of variables against the stack of calls                       *)

InBlock(f) == f.e.type = "eBLOCK" /\ f.pc = "leave"
InCall(f) == f.e.type = "eFUNCTION_CALL" /\ f.pc = "leave"

\* How many levels each space has.
Shape(sp) == [k \in DOMAIN sp |-> Len(sp[k])]

\* The shape a nested evaluation of frame f starts with and must leave.
Inside(f) ==
  CASE InBlock(f) -> [Shape(f.at) EXCEPT ![Len(f.at)] = @ + 1]
    [] InCall(f) -> [k \in 1 .. Len(f.at) + 1 |->
                       IF k = Len(f.at) + 1 THEN 1 ELSE Len(f.at[k])]
    [] OTHER -> Shape(f.at)

\* One space with one level.
Ground == [k \in 1 .. 1 |-> 1]

\* Every evaluation, however break, continue, return or a missing value ends
\* it, leaves as many spaces and levels as it found: what a block or a call
\* adds is removed once and by that block or call.
StackBalanced ==
  phase # "done" =>
    /\ \A i \in DOMAIN ctl :
         Shape(ctl[i].at) = IF i = 1 THEN Ground ELSE Inside(ctl[i - 1])
    /\ Shape(spaces) = IF ctl = <<>> THEN Ground ELSE Inside(Top)

\* While a function runs, the variables of its caller and of the callers of
\* that are exactly what they were when its body started ("find vars -> only
\* in actual head", kfs_lang_env.c).
CallerVariablesKept ==
  \A i \in DOMAIN ctl :
    InCall(ctl[i]) =>
      /\ Len(ctl[i].at) < Len(spaces)
      /\ \A k \in DOMAIN ctl[i].at : spaces[k] = ctl[i].at[k]

\* A block can change the variables around it but not add to them: a name
\* that is new in a block is gone after it.
BlockLocalsStayLocal ==
  \A i \in DOMAIN ctl :
    InBlock(ctl[i]) =>
      LET here == Len(ctl[i].at)
      IN  \A k \in DOMAIN ctl[i].at[here] :
            DOMAIN spaces[here][k] = DOMAIN ctl[i].at[here][k]

\* Whatever has operands evaluates them without changing a variable, the
\* condition of if and while included, although an operand may call
\* functions that assign: only then is the order that C leaves open between
\* two operands harmless to the variables.
OperandsOnly(f) ==
  \/ f.e.type \in BinaryTypes \cup UnaryTypes \cup {"eARRAY_ACCESS", "eObjectVALUE"}
  \/ f.pc \in {"choose", "first"}
OperandsArePure ==
  \A i \in DOMAIN ctl :
    OperandsOnly(ctl[i]) => \A k \in DOMAIN ctl[i].at : spaces[k] = ctl[i].at[k]

-----------------------------------------------------------------------------
(* Flow control                                                            *)

\* After a "return" nothing of the function runs any more: every frame up to
\* the call, or to the driver, hands the value on unchanged.
ReturnUnwinds ==
  [][ (phase = "return" /\ ret.type = "FC_Return" /\ ctl # <<>>)
        => /\ phase' = "return" /\ ctl' = Front(ctl)
           /\ ~InCall(Top) => ret' = ret ]_vars

\* A script in which every "break" and "continue" stands in a loop of its
\* own function: they end at that loop and are no value of anything.
BreakStaysInLoop ==
  (phase = "return" /\ ret.type \in {"FC_Break", "FC_Conti"}) =>
    \E i \in DOMAIN ctl :
      /\ ctl[i].e.type = "eWHILE" /\ ctl[i].pc = "body"
      /\ \A j \in i + 1 .. Len(ctl) :
           ctl[j].e.type \in {"eBLOCK", "eListVALUE"}

-----------------------------------------------------------------------------
(* Memory                                                                  *)

FrameCells(f) ==
  (IF f.pc = "item" THEN 1 ELSE 0)
    + Sum([k \in DOMAIN f.held |-> CellsOf(f.held[k])])

\* Every Value cell that is allocated and not freed belongs to exactly one
\* of: the value "empty", a variable, a local of an active call, the value
\* being returned; or it was lost by "int".  So no cell is freed twice and no
\* other is leaked, whichever way the evaluation goes.  (Cells only: the text
\* that value_delete finds in a cell which never had one is not modelled.)
SingleOwner ==
  phase # "crashed" =>
    live = stranded + AllCells(spaces) + CellsOf(ret)
             + Sum([i \in DOMAIN ctl |-> FrameCells(ctl[i])])
             + (IF phase = "done" THEN 0 ELSE 1)

-----------------------------------------------------------------------------
(* Progress                                                                *)

\* A script that is started is finished or brings the process down.
EveryScriptEnds == phase = "eval" ~> phase \in {"idle", "crashed"}

=============================================================================
