----------------------------- MODULE KfsGrammar -----------------------------
(***************************************************************************)
(* Which expression trees src/parser.y builds: what its nonterminals expr  *)
(* and inpt allow below a node.  A set of trees is described by a closure  *)
(* property, so that it may hold trees of any depth.  (The rule for the    *)
(* empty command, which sets no value, is left out.)                       *)
(***************************************************************************)
EXTENDS KfsEval

\* The right-hand sides of expr; exprs are the trees of its own kind.
ExprNode(e, exprs) ==
  \/ e.type \in BinaryTypes \cup {"eARRAY_ACCESS"} /\ {e.left, e.right} \subseteq exprs
  \/ /\ e.type \in {"eNOT", "eUNARY_MINUS", "eINT", "eDOT", "eJSON", "eREAD_FILE",
                    "eFUNCTION_CALL"}
     /\ e.left \in exprs
  \/ e.type = "eListVALUE" /\ IsSeq(e.list) /\ \A k \in DOMAIN e.list : e.list[k] \in exprs
  \/ /\ e.type = "eObjectVALUE" /\ IsSeq(e.object)
     /\ \A k \in DOMAIN e.object : e.object[k].data \in exprs
     /\ \A j, k \in DOMAIN e.object : e.object[j].name = e.object[k].name => j = k
  \/ e.type = "eIntVALUE" /\ e.lValue \in Int
  \/ e.type = "eBoolVALUE" /\ e.lValue \in BOOLEAN
  \/ e.type = "eStringVALUE" /\ e.id \in LiteralIds
  \/ e.type \in {"eEVAL", "eIS_EMPTY", "eVAR", "eDoubleVALUE"}

\* Those of inpt and of the commands in it: inner are the commands of the
\* node itself, loop those of a loop and outer those of a function that is
\* defined here.  NULL is the branch of an if without else.
InputNode(e, exprs, inner, loop, outer) ==
  \/ e.type \in {"NULL", "eDUMP", "eSET_EMPTY"}
  \/ e.type \in {"eASSIGN_VAR", "ePRINT", "eRETURN"} /\ e.left \in exprs
  \/ e.type = "eIF" /\ e.next \in exprs /\ {e.left, e.right} \subseteq inner
  \/ e.type = "eWHILE" /\ e.next \in exprs /\ e.right \in loop
  \/ e.type = "eFUNCTION_DEF" /\ e.left \in outer
  \/ e.type = "eBLOCK" /\ e.left \in inner
  \/ e.type = "eListVALUE" /\ IsSeq(e.list) /\ \A k \in DOMAIN e.list : e.list[k] \in inner

\* exprs and inputs are trees as the parser makes them.
Parsed(exprs, inputs) ==
  /\ exprs \cup {NoExpr} \subseteq inputs
  /\ \A e \in exprs : ExprNode(e, exprs)
  /\ \A e \in inputs : \/ e \in exprs
                       \/ e.type \in {"eBREAK", "eCONTI"}
                       \/ InputNode(e, exprs, inputs, inputs, inputs)

\* Of these, the trees in which every "break" and "continue" stands in a
\* loop of its own function: bodies are the trees within a loop, inputs those
\* outside of all.
BreaksInLoops(exprs, inputs, bodies) ==
  /\ exprs \cup {NoExpr} \subseteq inputs
  /\ \A e \in exprs : ExprNode(e, exprs)
  /\ \A e \in inputs : e \in exprs \/ InputNode(e, exprs, inputs, bodies, inputs)
  /\ \A e \in bodies : \/ e \in exprs
                       \/ e.type \in {"eBREAK", "eCONTI"}
                       \/ InputNode(e, exprs, bodies, bodies, inputs)

\* All scripts are among the trees.
ScriptsIn(inputs) ==
  \A s \in ScriptSets : \A k \in DOMAIN s : s[k] \in inputs \cup {ParseError}

=============================================================================
