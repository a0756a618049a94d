-------------------------- MODULE KfsFunctionTable --------------------------
(***************************************************************************)
(* What scripts may rely on of their functions: a definition that has been *)
(* executed holds until the next one of its name, a call runs the          *)
(* definition that holds when the name is looked up, and no definition is  *)
(* dropped while a script runs.  Nothing is said of memory.                *)
(***************************************************************************)
CONSTANTS
  Names,
  Defs,   \* what can be a definition
  NULL

VARIABLES
  table,    \* name -> the definition that holds, or NULL
  doing,    \* the definition being executed or the call being looked up
  called,   \* the definition that the last call ran
  busy      \* a script runs

table_vars == <<table, doing, called, busy>>

Nothing == [op |-> "nothing"]

Init ==
  /\ table = [n \in Names |-> NULL]
  /\ doing = Nothing
  /\ called = NULL
  /\ busy = FALSE

Begin == ~busy /\ busy' = TRUE /\ UNCHANGED <<table, doing, called>>
End == busy /\ doing = Nothing /\ busy' = FALSE /\ UNCHANGED <<table, doing, called>>

BeginDefine(n, d) ==
  /\ busy /\ doing = Nothing
  /\ doing' = [op |-> "define", name |-> n, def |-> d]
  /\ UNCHANGED <<table, called, busy>>

Define ==
  /\ doing.op = "define"
  /\ table' = [table EXCEPT ![doing.name] = doing.def]
  /\ doing' = Nothing
  /\ UNCHANGED <<called, busy>>

BeginCall(n) ==
  /\ busy /\ doing = Nothing
  /\ doing' = [op |-> "call", name |-> n]
  /\ UNCHANGED <<table, called, busy>>

Call ==
  /\ doing.op = "call"
  /\ table[doing.name] # NULL
  /\ called' = table[doing.name]
  /\ doing' = Nothing
  /\ UNCHANGED <<table, busy>>

\* The call of a function that is not there runs none.
CallNothing ==
  /\ doing.op = "call"
  /\ table[doing.name] = NULL
  /\ doing' = Nothing
  /\ UNCHANGED <<table, called, busy>>

Drop(n) ==
  /\ ~busy
  /\ table' = [table EXCEPT ![n] = NULL]
  /\ UNCHANGED <<doing, called, busy>>

Next ==
  \/ Begin \/ End
  \/ \E n \in Names : BeginCall(n) \/ Drop(n) \/ \E d \in Defs : BeginDefine(n, d)
  \/ Define \/ Call \/ CallNothing

Spec == Init /\ [][Next]_table_vars

=============================================================================
